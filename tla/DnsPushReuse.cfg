CONSTANTS
  none = none
  None = none
  m1 = m1
  ThreadCnt = 1
  MaxAccepts = 2
  Fds <- MCOneFd
  MaxConns = 2
  MaxBroadcasts = 1
  MaxArrivals = 9
  Mods <- MCMods
  MaxEdits = 1
  InitVersions <- MCInitZero
  Transactions = TRUE
  SameSecond = FALSE
  DbFails = FALSE
  EarlyEdits = FALSE
SPECIFICATION DnsSpec
INVARIANT PushOnlyToSubscribers
\* Editors and clients may stop, and every thread then waits.
CHECK_DEADLOCK FALSE
