CONSTANTS
  HeadLen = 2
  Limit = 14
  Caps <- MCCaps
  Requests <- MCRequests
  ReplyLen = 1
  SockBuf = 3
SPECIFICATION FairSpec
INVARIANTS
  RequestsIntact
  RepliesIntact
  AssertionsHold
PROPERTY RequestsAnswered
\* The peer may stop, and the loop then waits.
CHECK_DEADLOCK FALSE
