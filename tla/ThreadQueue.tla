----------------------------- MODULE ThreadQueue -----------------------------
(***************************************************************************)
(* thread_queue<T> (reactor/include/thread_queue.h): the only channel      *)
(* between the threads of every program of the repository.  Any number of  *)
(* threads send(); one thread owns an event_loop in which the queue's      *)
(* eventfd is registered (set_loop, set_callback) and drains the queue     *)
(* from the callback (recv).  The eventfd is watched level-triggered, so   *)
(* its counter being positive is what wakes the consumer up.               *)
(*                                                                         *)
(* Every statement of send and recv that touches shared state is a step of *)
(* its own; the mutex is explicit.                                         *)
(***************************************************************************)
EXTENDS Naturals, Sequences

CONSTANTS
  Senders,   \* threads that call send
  Consumer,  \* the thread that owns the event_loop
  Nobody,    \* "the mutex is free"
  Msgs,      \* what can be sent
  EvMax,     \* largest value of the eventfd counter (2^64 - 2 in Linux)
  MaxSends   \* bound: number of messages ever sent

ASSUME ThreadsAssumption ==
  /\ Consumer \notin Senders
  /\ Nobody \notin Senders \cup {Consumer}

ASSUME BoundsAssumption ==
  /\ EvMax \in Nat \ {0}
  /\ MaxSends \in Nat

VARIABLES
  queue,     \* _queue
  evfd,      \* the counter behind _evfd
  mutex,     \* owner of _queue_mutex
  spc,       \* where each sender is inside send
  smsg,      \* the argument of each sender's send
  cpc,       \* where the consumer is: thread start, epoll_wait, recv, callback
  batch,     \* the consumer's local new_queue / tasks
  sent,      \* history: messages in the order they were pushed
  received   \* history: messages in the order the callback handled them

vars == <<queue, evfd, mutex, spc, smsg, cpc, batch, sent, received>>

SenderPc == {"idle", "locked", "pushed", "written"}
ConsumerPc == {"boot", "poll", "recv", "locked", "read", "swapped", "drain"}

TypeOK ==
  /\ queue \in Seq(Msgs)
  /\ evfd \in 0..EvMax
  /\ mutex \in Senders \cup {Consumer, Nobody}
  /\ spc \in [Senders -> SenderPc]
  /\ smsg \in [Senders -> Msgs]
  /\ cpc \in ConsumerPc
  /\ batch \in Seq(Msgs)
  /\ sent \in Seq(Msgs)
  /\ received \in Seq(Msgs)

Init ==
  /\ queue = <<>>
  /\ evfd = 0
  /\ mutex = Nobody
  /\ spc = [s \in Senders |-> "idle"]
  /\ smsg \in [Senders -> Msgs]
  /\ cpc = "boot"
  /\ batch = <<>>
  /\ sent = <<>>
  /\ received = <<>>

-----------------------------------------------------------------------------
(* send *)

SendLock(s, m) ==
  /\ spc[s] = "idle"
  /\ mutex = Nobody
  /\ Len(sent) < MaxSends
  /\ mutex' = s
  /\ spc' = [spc EXCEPT ![s] = "locked"]
  /\ smsg' = [smsg EXCEPT ![s] = m]
  /\ UNCHANGED <<queue, evfd, cpc, batch, sent, received>>

SendPush(s) ==
  /\ spc[s] = "locked"
  /\ queue' = Append(queue, smsg[s])
  /\ sent' = Append(sent, smsg[s])
  /\ spc' = [spc EXCEPT ![s] = "pushed"]
  /\ UNCHANGED <<evfd, mutex, smsg, cpc, batch, received>>

\* A mutant of SendNotify: a failed write (counter full) resets the counter.
SendNotifyResets(s) ==
  /\ spc[s] = "pushed"
  /\ evfd' = (evfd + 1) % (EvMax + 1)
  /\ spc' = [spc EXCEPT ![s] = "written"]
  /\ UNCHANGED <<queue, mutex, smsg, cpc, batch, sent, received>>

\* write(_evfd, 1): the eventfd is non-blocking, so a write that would push
\* the counter past EvMax fails; the failure is only reported by perror.
SendNotify(s) ==
  /\ spc[s] = "pushed"
  /\ evfd' = IF evfd < EvMax THEN evfd + 1 ELSE evfd
  /\ spc' = [spc EXCEPT ![s] = "written"]
  /\ UNCHANGED <<queue, mutex, smsg, cpc, batch, sent, received>>

SendUnlock(s) ==
  /\ spc[s] = "written"
  /\ mutex' = Nobody
  /\ spc' = [spc EXCEPT ![s] = "idle"]
  /\ UNCHANGED <<queue, evfd, smsg, cpc, batch, sent, received>>

-----------------------------------------------------------------------------
(* The consumer thread *)

\* set_loop then set_callback: the eventfd enters the loop's epoll set.  Until
\* then sends go through but nobody is woken.
Register ==
  /\ cpc = "boot"
  /\ cpc' = "poll"
  /\ UNCHANGED <<queue, evfd, mutex, spc, smsg, batch, sent, received>>

\* event_process: epoll_wait reports the eventfd while its counter is positive.
Wakeup ==
  /\ cpc = "poll"
  /\ evfd > 0
  /\ cpc' = "recv"
  /\ UNCHANGED <<queue, evfd, mutex, spc, smsg, batch, sent, received>>

RecvLock ==
  /\ cpc = "recv"
  /\ mutex = Nobody
  /\ mutex' = Consumer
  /\ cpc' = "locked"
  /\ UNCHANGED <<queue, evfd, spc, smsg, batch, sent, received>>

\* read(_evfd): empties the counter; on an empty counter it fails with EAGAIN,
\* which is only reported by perror.
RecvRead ==
  /\ cpc = "locked"
  /\ evfd' = 0
  /\ cpc' = "read"
  /\ UNCHANGED <<queue, mutex, spc, smsg, batch, sent, received>>

\* A mutant of RecvSwap: one message per wake-up instead of all of them.
RecvPopOne ==
  /\ cpc = "read"
  /\ queue # <<>>
  /\ batch' = <<Head(queue)>>
  /\ queue' = Tail(queue)
  /\ cpc' = "swapped"
  /\ UNCHANGED <<evfd, mutex, spc, smsg, sent, received>>

\* std::swap(new_queue, _queue)
RecvSwap ==
  /\ cpc = "read"
  /\ batch' = queue
  /\ queue' = batch
  /\ cpc' = "swapped"
  /\ UNCHANGED <<evfd, mutex, spc, smsg, sent, received>>

RecvUnlock ==
  /\ cpc = "swapped"
  /\ mutex' = Nobody
  /\ cpc' = "drain"
  /\ UNCHANGED <<queue, evfd, spc, smsg, batch, sent, received>>

\* One turn of the callback's loop: while (!tasks.empty()) front, pop, handle.
Handle ==
  /\ cpc = "drain"
  /\ batch # <<>>
  /\ received' = Append(received, Head(batch))
  /\ batch' = Tail(batch)
  /\ UNCHANGED <<queue, evfd, mutex, spc, smsg, cpc, sent>>

\* The callback returns and the loop goes back to epoll_wait.
CallbackDone ==
  /\ cpc = "drain"
  /\ batch = <<>>
  /\ cpc' = "poll"
  /\ UNCHANGED <<queue, evfd, mutex, spc, smsg, batch, sent, received>>

-----------------------------------------------------------------------------
SenderStep(s) ==
  \/ \E m \in Msgs : SendLock(s, m)
  \/ SendPush(s)
  \/ SendNotify(s)
  \/ SendUnlock(s)

ConsumerStep ==
  \/ Register
  \/ Wakeup
  \/ RecvLock
  \/ RecvRead
  \/ RecvSwap
  \/ RecvUnlock
  \/ Handle
  \/ CallbackDone

Next ==
  \/ \E s \in Senders : SenderStep(s)
  \/ ConsumerStep

\* A thread that can run runs; a thread inside send leaves it.  Nothing makes
\* a thread call send.
Fairness ==
  /\ WF_vars(ConsumerStep)
  /\ \A s \in Senders : WF_vars(SendPush(s) \/ SendNotify(s) \/ SendUnlock(s))

Spec == Init /\ [][Next]_vars

FairSpec == Spec /\ Fairness

-----------------------------------------------------------------------------
(* The inductive invariant behind the safety properties *)

\* Exactly the thread between lock and unlock owns the mutex.
MutexInv ==
  /\ \A s \in Senders : (spc[s] # "idle") <=> (mutex = s)
  /\ (cpc \in {"locked", "read", "swapped"}) <=> (mutex = Consumer)

\* Where the counter must already, or still, be positive.
WakeInv ==
  /\ mutex = Nobody /\ queue # <<>> => evfd > 0
  /\ \A s \in Senders :
       /\ spc[s] = "locked" /\ queue # <<>> => evfd > 0
       /\ spc[s] = "written" => evfd > 0
  /\ cpc = "locked" /\ queue # <<>> => evfd > 0
  /\ cpc = "swapped" => queue = <<>>

\* The local queue is empty except between the swap and the end of the callback.
BatchInv == cpc \notin {"swapped", "drain"} => batch = <<>>

\* A sender that holds the lock has room under the bound.
BoundInv == \A s \in Senders : spc[s] = "locked" => Len(sent) < MaxSends

-----------------------------------------------------------------------------
(* Properties *)

\* No lost wake-up: whenever the mutex is free, a non-empty _queue has a
\* positive eventfd counter, so the consumer's epoll_wait will report it.
\* (send and recv, thread_queue.h:27-47; also when a write finds the counter
\* full.)
NoLostWakeup == mutex = Nobody /\ queue # <<>> => evfd > 0

\* Nothing is lost, duplicated or reordered between push and the callback:
\* what was handled, what the callback still holds and what is queued are,
\* in this order, exactly what was pushed.
FifoDelivery == sent = received \o batch \o queue

\* The conjunction that every step preserves.
Inv ==
  /\ TypeOK
  /\ MutexInv
  /\ WakeInv
  /\ BatchInv
  /\ BoundInv
  /\ FifoDelivery

\* Every message pushed is eventually handled, even one sent before the
\* consumer thread has registered the eventfd.
AllDelivered ==
  \A n \in 1..MaxSends : (Len(sent) >= n) ~> (Len(received) >= n)

\* The mailbox this queue stands for: a message is put when it is pushed and
\* taken when recv swaps it out.
Abstract == INSTANCE Mailbox WITH pending <- queue, taken <- received \o batch

\* Refinement: every run of send and recv, however their steps interleave, is
\* a run of the mailbox (push is Put, swap is TakeAll, all else stutters).
RefinesMailbox == Abstract!Spec
=============================================================================
