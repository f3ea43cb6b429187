CONSTANTS
  c1 = c1
  c2 = c2
  Clients = {c1, c2}
  Other = other
  Replies = {"response", "msgid"}
  k1 = k1
  k2 = k2
  k3 = k3
  Keys = {k1, k2, k3}
  p1 = p1
  p2 = p2
  Ports = {p1, p2}
  PortOf <- MCPortOf
  SeqMod = 2
  QueueLen = 2
  MaxCalls = 3
  Calls <- MCCalls
  MaxFaults = 2
SPECIFICATION FairSpec
INVARIANTS
  RightAnswer
  FailsOnlyForCause
PROPERTY Returns
\* A call whose datagram is lost waits for ever.
CHECK_DEADLOCK FALSE
