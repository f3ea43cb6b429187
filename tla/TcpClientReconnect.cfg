CONSTANTS
  HeadLen = 2
  ReqLen = 1
  RepLen = 1
  Capacity = 7
  RcvBuf = 3
  SndBuf = 3
  OnStart = FALSE
  MayRefuse = FALSE
  MaxReqs = 1
  MaxReps = 0
  MaxCloses = 1
SPECIFICATION FairSpec
PROPERTY Reconnects
CHECK_DEADLOCK FALSE
