CONSTANTS
  GroupBits = 7
  IntBits = 12
  LongBits = 26
  Values <- MCValues
  MaxRows = 2
SPECIFICATION Spec
INVARIANTS
  SizeExact
  RoundTrip
  CutIsDetected
  MergeAgrees
  UnknownKept
\* A message is sent and read once.
CHECK_DEADLOCK FALSE
