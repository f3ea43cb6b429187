CONSTANTS
  Sections = {"reporter", "mysql"}
  ConfKeys = {"db_thread_cnt"}
  Texts = {"one", "zero", "minus one", "junk"}
  Number <- MCNumber
  IntWidth = 4
  Lines <- MCLines
  MaxLines = 3
  Workers = {w1, w2}
  HostCnt = 2
  DefaultCnt = 2
  MaxThreads = 2
  DbLimit = 3
  MaxReports = 2
  MaxFails = 2
SPECIFICATION FairSpec
INVARIANTS
  ConfigAgrees
  CrashOnlyIfRaced
  MissingOnlyIfAllFailed
  RowFromLastOfAThread
PROPERTY ReportsAreStored
\* The program may end, and reports need not come.
CHECK_DEADLOCK FALSE
