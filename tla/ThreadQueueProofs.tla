-------------------------- MODULE ThreadQueueProofs --------------------------
(***************************************************************************)
(* Proofs that ThreadQueue keeps its safety invariants and implements      *)
(* Mailbox, for any set of senders, any messages and any eventfd limit.    *)
(***************************************************************************)
EXTENDS ThreadQueue, TLAPS

\* Sequences with the same elements are the same sequence.
LEMMA SameSeq ==
  ASSUME NEW S, NEW x \in Seq(S), NEW y \in Seq(S), Len(x) = Len(y),
         \A i \in 1..Len(x) : x[i] = y[i]
  PROVE  x = y
  OBVIOUS

\* Moving the front of one sequence to the back of another changes nothing in
\* their concatenation: one turn of the callback's loop.
LEMMA MoveFront ==
  ASSUME NEW S, NEW r \in Seq(S), NEW b \in Seq(S), b # <<>>
  PROVE  Append(r, Head(b)) \o Tail(b) = r \o b
<1> DEFINE x == Append(r, Head(b)) \o Tail(b)
           y == r \o b
<1>1. x \in Seq(S) /\ y \in Seq(S) /\ Len(x) = Len(y)
  OBVIOUS
<1>2. \A i \in 1..Len(x) : x[i] = y[i]
  OBVIOUS
<1> HIDE DEF x, y
<1>3. x = y
  BY <1>1, <1>2, SameSeq
<1> QED
  BY <1>3, Zenon DEF x, y

\* A message pushed behind the waiting ones is the last of all that was sent.
LEMMA PushBack ==
  ASSUME NEW s, sent = received \o batch \o queue, sent' = Append(sent, smsg[s]),
         queue' = Append(queue, smsg[s]), received \in Seq(Msgs), batch \in Seq(Msgs),
         queue \in Seq(Msgs), smsg[s] \in Msgs
  PROVE  sent' = received \o batch \o queue'
<1> DEFINE x == Append(received \o batch \o queue, smsg[s])
           y == received \o batch \o Append(queue, smsg[s])
<1>1. x \in Seq(Msgs) /\ y \in Seq(Msgs) /\ Len(x) = Len(y)
  OBVIOUS
<1>2. \A i \in 1..Len(x) : x[i] = y[i]
  OBVIOUS
<1> HIDE DEF x, y
<1>3. x = y
  BY <1>1, <1>2, SameSeq
<1> QED
  BY <1>3, Zenon DEF x, y

\* What concatenation is worth on sequences over S.
LEMMA ConcatFacts ==
  ASSUME NEW S, NEW r \in Seq(S), NEW q \in Seq(S)
  PROVE  r \o q \in Seq(S) /\ r \o <<>> = r /\ Len(r \o q) = Len(r) + Len(q)
  OBVIOUS

\* The initial state satisfies the inductive invariant.
LEMMA InitInv == Init => Inv
<1> SUFFICES ASSUME Init PROVE Inv
  BY Zenon
<1> USE ThreadsAssumption, BoundsAssumption DEF Init
<1>1. TypeOK
  BY DEF TypeOK, SenderPc, ConsumerPc
<1>2. MutexInv /\ WakeInv /\ BatchInv /\ BoundInv
  BY Zenon DEF MutexInv, WakeInv, BatchInv, BoundInv
<1>3. FifoDelivery
  BY DEF FifoDelivery
<1> QED
  BY <1>1, <1>2, <1>3, Zenon DEF Inv

\* Every step preserves the part of the invariant that is about types.
LEMMA TypeStep == TypeOK /\ [Next]_vars => TypeOK'
<1> SUFFICES ASSUME TypeOK, [Next]_vars PROVE TypeOK'
  BY Zenon
<1> USE ThreadsAssumption, BoundsAssumption DEF TypeOK, SenderPc, ConsumerPc
<1>1. ASSUME NEW s \in Senders, NEW m \in Msgs, SendLock(s, m) PROVE TypeOK'
  BY <1>1, Zenon DEF SendLock
<1>2. ASSUME NEW s \in Senders, SendPush(s) PROVE TypeOK'
  BY <1>2 DEF SendPush
<1>3. ASSUME NEW s \in Senders, SendNotify(s) PROVE TypeOK'
  BY <1>3 DEF SendNotify
<1>4. ASSUME NEW s \in Senders, SendUnlock(s) PROVE TypeOK'
  BY <1>4, Zenon DEF SendUnlock
<1>5. CASE Register
  BY <1>5, Zenon DEF Register
<1>6. CASE Wakeup
  BY <1>6, Zenon DEF Wakeup
<1>7. CASE RecvLock
  BY <1>7, Zenon DEF RecvLock
<1>8. CASE RecvRead
  BY <1>8 DEF RecvRead
<1>9. CASE RecvSwap
  BY <1>9, Zenon DEF RecvSwap
<1>10. CASE RecvUnlock
  BY <1>10, Zenon DEF RecvUnlock
<1>11. CASE Handle
  BY <1>11 DEF Handle
<1>12. CASE CallbackDone
  BY <1>12, Zenon DEF CallbackDone
<1>13. CASE UNCHANGED vars
  BY <1>13, Zenon DEF vars
<1> QED
  BY <1>1, <1>2, <1>3, <1>4, <1>5, <1>6, <1>7, <1>8, <1>9, <1>10, <1>11, <1>12,
     <1>13, Zenon DEF Next, SenderStep, ConsumerStep

\* Every step preserves who may be where: the mutex, the counter, the local
\* queue and the bound.
LEMMA ControlStep ==
  ASSUME TypeOK, MutexInv, WakeInv, BatchInv, BoundInv, [Next]_vars
  PROVE  MutexInv' /\ WakeInv' /\ BatchInv' /\ BoundInv'
<1> USE ThreadsAssumption, BoundsAssumption
    DEF TypeOK, SenderPc, ConsumerPc, MutexInv, WakeInv, BatchInv, BoundInv
<1> DEFINE Control == MutexInv /\ WakeInv /\ BatchInv /\ BoundInv
<1>1. ASSUME NEW s \in Senders, NEW m \in Msgs, SendLock(s, m) PROVE Control'
  BY <1>1, Zenon DEF SendLock
<1>2. ASSUME NEW s \in Senders, SendPush(s) PROVE Control'
  BY <1>2, Zenon DEF SendPush
<1>3. ASSUME NEW s \in Senders, SendNotify(s) PROVE Control'
  BY <1>3 DEF SendNotify
<1>4. ASSUME NEW s \in Senders, SendUnlock(s) PROVE Control'
  BY <1>4, Zenon DEF SendUnlock
<1>5. CASE Register
  BY <1>5, Zenon DEF Register
<1>6. CASE Wakeup
  BY <1>6, Zenon DEF Wakeup
<1>7. CASE RecvLock
  BY <1>7, Zenon DEF RecvLock
<1>8. CASE RecvRead
  BY <1>8, Zenon DEF RecvRead
<1>9. CASE RecvSwap
  BY <1>9, Zenon DEF RecvSwap
<1>10. CASE RecvUnlock
  BY <1>10, Zenon DEF RecvUnlock
<1>11. CASE Handle
  BY <1>11, Zenon DEF Handle
<1>12. CASE CallbackDone
  BY <1>12, Zenon DEF CallbackDone
<1>13. CASE UNCHANGED vars
  BY <1>13, Zenon DEF vars
<1> QED
  BY <1>1, <1>2, <1>3, <1>4, <1>5, <1>6, <1>7, <1>8, <1>9, <1>10, <1>11, <1>12,
     <1>13, Zenon DEF Next, SenderStep, ConsumerStep

\* Every step keeps the messages in one piece and in order.
LEMMA FifoStep ==
  ASSUME TypeOK, BatchInv, FifoDelivery, [Next]_vars
  PROVE  FifoDelivery'
<1> USE DEF TypeOK, FifoDelivery
<1>1. ASSUME NEW s \in Senders, SendPush(s) PROVE FifoDelivery'
  <2>1. /\ sent = received \o batch \o queue /\ sent' = Append(sent, smsg[s])
        /\ queue' = Append(queue, smsg[s]) /\ received' = received /\ batch' = batch
    BY <1>1, Zenon DEF SendPush
  <2>2. sent' = received \o batch \o queue'
    BY <2>1, PushBack, Zenon
  <2> QED
    BY <2>1, <2>2, Zenon
<1>2. CASE RecvSwap
  <2>1. batch = <<>> /\ batch' = queue /\ queue' = <<>> /\ received' = received
        /\ sent' = sent
    BY <1>2, Zenon DEF RecvSwap, BatchInv
  <2>2. received \o <<>> = received /\ received \o queue \in Seq(Msgs)
    BY ConcatFacts, Zenon
  <2>3. (received \o queue) \o <<>> = received \o queue
    BY <2>2, ConcatFacts, Zenon
  <2> QED
    BY <2>1, <2>2, <2>3, Zenon
<1>3. CASE Handle
  BY <1>3, MoveFront, Zenon DEF Handle
<1>4. ASSUME UNCHANGED <<sent, received, batch, queue>> PROVE FifoDelivery'
  BY <1>4, Zenon
<1> QED
  BY <1>1, <1>2, <1>3, <1>4, Zenon DEF Next, SenderStep, ConsumerStep, vars, SendLock,
     SendNotify, SendUnlock, Register, Wakeup, RecvLock, RecvRead, RecvUnlock,
     CallbackDone

\* The inductive invariant holds in every reachable state.
THEOREM Invariance == Spec => []Inv
<1>1. Inv /\ [Next]_vars => Inv'
  BY TypeStep, ControlStep, FifoStep, Zenon DEF Inv
<1> QED
  BY <1>1, InitInv, PTL DEF Spec

\* Type correctness of the queue, its lock and both sides' program counters.
THEOREM TypeCorrect == Spec => []TypeOK
<1>1. Inv => TypeOK
  BY Zenon DEF Inv
<1> QED
  BY <1>1, Invariance, PTL

\* send and recv never leave a message behind an eventfd that reads zero, for
\* any number of senders and any limit of the counter.
THEOREM WakeupNeverLost == Spec => []NoLostWakeup
<1>1. Inv => NoLostWakeup
  BY Zenon DEF Inv, WakeInv, NoLostWakeup
<1> QED
  BY <1>1, Invariance, PTL

\* Messages are handled in the order they were pushed, none lost or repeated.
THEOREM DeliveredInOrder == Spec => []FifoDelivery
<1>1. Inv => FifoDelivery
  BY Zenon DEF Inv
<1> QED
  BY <1>1, Invariance, PTL

-----------------------------------------------------------------------------
(* Refinement of Mailbox *)

\* A step of the locked queue is a put, a take or nothing for the mailbox.
LEMMA MailboxStep ==
  ASSUME Inv, [Next]_vars
  PROVE  [Abstract!Next]_(Abstract!mailboxVars)
<1> USE DEF Inv, TypeOK
<1>1. ASSUME NEW s \in Senders, SendPush(s) PROVE Abstract!Next
  <2>1. smsg[s] \in Msgs
    BY Zenon
  <2>2. Len(queue) + Len(received \o batch) < MaxSends
    <3>1. spc[s] = "locked"
      BY <1>1, Zenon DEF SendPush
    <3>2. Len(sent) < MaxSends
      BY <3>1, Zenon DEF BoundInv
    <3>3. received \o batch \in Seq(Msgs)
      BY ConcatFacts, Zenon
    <3>4. Len(sent) = Len(received \o batch) + Len(queue)
      BY <3>3, ConcatFacts, Zenon DEF FifoDelivery
    <3> QED
      BY <3>2, <3>3, <3>4
  <2>3. Abstract!Put(smsg[s])
    BY <1>1, <2>2, Zenon DEF SendPush, Abstract!Put
  <2> QED
    BY <2>1, <2>3, Zenon DEF Abstract!Next
<1>2. CASE RecvSwap
  <2>1. batch = <<>> /\ batch' = queue /\ queue' = <<>> /\ received' = received
    BY <1>2, Zenon DEF RecvSwap, BatchInv
  <2>2. received \o <<>> = received
    BY ConcatFacts, Zenon
  <2>3. CASE queue = <<>>
    BY <2>1, <2>3, Zenon DEF Abstract!mailboxVars
  <2>4. CASE queue # <<>>
    BY <2>1, <2>2, <2>4, Zenon DEF Abstract!Next, Abstract!TakeAll
  <2> QED
    BY <2>3, <2>4, Zenon
<1>3. CASE Handle
  BY <1>3, MoveFront, Zenon DEF Handle, Abstract!mailboxVars
<1>4. ASSUME UNCHANGED <<received, batch, queue>>
      PROVE  UNCHANGED Abstract!mailboxVars
  BY <1>4, Zenon DEF Abstract!mailboxVars
<1> QED
  BY <1>1, <1>2, <1>3, <1>4, Zenon DEF Next, SenderStep, ConsumerStep, vars, SendLock,
     SendNotify, SendUnlock, Register, Wakeup, RecvLock, RecvRead, RecvUnlock,
     CallbackDone

\* The locked, eventfd-driven queue implements the mailbox.
THEOREM ImplementsMailbox == Spec => RefinesMailbox
<1>1. Init => Abstract!Init
  BY DEF Init, Abstract!Init
<1>2. Inv /\ [Next]_vars => [Abstract!Next]_(Abstract!mailboxVars)
  BY MailboxStep, Zenon
<1> QED
  BY <1>1, <1>2, Invariance, PTL DEF Spec, RefinesMailbox, Abstract!Spec
=============================================================================
