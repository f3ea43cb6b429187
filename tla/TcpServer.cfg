CONSTANTS
  none = none
  None = none
  ThreadCnt = 2
  MaxAccepts = 3
  Fds <- MCFds
  MaxBroadcasts = 2
  MaxArrivals = 3
  MaxConns = 2
SPECIFICATION FairSpec
INVARIANTS
  TableExact
  DispatchToOwner
PROPERTIES
  HandedOverIsServed
  GoneIsCleaned
  BroadcastReachesAll
\* Clients may stop acting, and every thread then waits in epoll_wait.
CHECK_DEADLOCK FALSE
