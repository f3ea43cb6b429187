CONSTANTS
  HeadLen = 2
  Limit = 14
  Caps <- MCCaps
  Requests <- MCOneRequest
  ReplyLen = 7
  SockBuf = 3
SPECIFICATION Spec
INVARIANT OutputFits
\* The peer may stop, and the loop then waits.
CHECK_DEADLOCK FALSE
