CONSTANTS
  none = none
  None = none
  ThreadCnt = 2
  MaxAccepts = 3
  Fds <- MCFds
  MaxBroadcasts = 0
  MaxArrivals = 3
  MaxConns = 1
SPECIFICATION Spec
INVARIANT AtMostMaxConns
CHECK_DEADLOCK FALSE
