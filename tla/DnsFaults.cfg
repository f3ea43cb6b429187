CONSTANTS
  none = none
  None = none
  m1 = m1
  ThreadCnt = 2
  MaxAccepts = 2
  Fds <- MCOneFd
  MaxConns = 2
  MaxBroadcasts = 1
  MaxArrivals = 9
  Mods <- MCMods
  MaxEdits = 1
  InitVersions <- MCInitZero
  Transactions = FALSE
  SameSecond = FALSE
  DbFails = TRUE
  EarlyEdits = TRUE
SPECIFICATION DnsSpec
INVARIANT BookExact
INVARIANT PushToOwnConnection
PROPERTY NeverToldOlder
\* Editors and clients may stop, and every thread then waits.
CHECK_DEADLOCK FALSE
