CONSTANTS
  s1 = s1
  s2 = s2
  c = c
  nobody = nobody
  a = a
  b = b
  Senders <- MCSenders
  Msgs <- MCMsgs
  Consumer = c
  Nobody = nobody
  EvMax = 2
  MaxSends = 4
SPECIFICATION FairSpec
INVARIANTS
  NoLostWakeup
PROPERTIES
  AllDelivered
  RefinesMailbox
\* The senders stop at MaxSends and the consumer then waits in epoll_wait.
CHECK_DEADLOCK FALSE
