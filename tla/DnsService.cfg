CONSTANTS
  none = none
  None = none
  m1 = m1
  ThreadCnt = 2
  MaxAccepts = 1
  Fds <- MCOneFd
  MaxConns = 2
  MaxBroadcasts = 2
  MaxArrivals = 9
  Mods <- MCMods
  MaxEdits = 2
  InitVersions <- MCInitVersions
  Transactions = TRUE
  SameSecond = FALSE
  DbFails = FALSE
  EarlyEdits = FALSE
SPECIFICATION DnsSpec
INVARIANT NoLostUpdate
\* Editors and clients may stop, and every thread then waits.
CHECK_DEADLOCK FALSE
