CONSTANTS
  HeadLen = 2
  ReqLen = 1
  RepLen = 1
  Capacity = 7
  RcvBuf = 3
  SndBuf = 2
  OnStart = TRUE
  MayRefuse = TRUE
  MaxReqs = 3
  MaxReps = 2
  MaxCloses = 1
SPECIFICATION FairSpec
INVARIANTS
  RepliesWhole
  RequestsWhole
PROPERTY Drained
\* The server may be silent, and the client then waits.
CHECK_DEADLOCK FALSE
