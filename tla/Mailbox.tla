------------------------------- MODULE Mailbox -------------------------------
(***************************************************************************)
(* What a thread_queue promises to the two sides that share it: messages   *)
(* put by any thread are handed, all of them and in the order they were    *)
(* put, to the one consumer, which takes everything that is pending at     *)
(* once.  There is no lock, no eventfd and no event loop here; ThreadQueue *)
(* is the implementation, and is shown to refine this module.              *)
(***************************************************************************)
EXTENDS Naturals, Sequences

CONSTANTS
  Msgs,      \* what can be sent
  MaxSends   \* bound: number of messages ever put

VARIABLES
  pending,   \* messages put and not yet taken, oldest first
  taken      \* messages taken by the consumer, oldest first

mailboxVars == <<pending, taken>>

Init ==
  /\ pending = <<>>
  /\ taken = <<>>

Put(m) ==
  /\ Len(pending) + Len(taken) < MaxSends
  /\ pending' = Append(pending, m)
  /\ UNCHANGED taken

TakeAll ==
  /\ pending # <<>>
  /\ taken' = taken \o pending
  /\ pending' = <<>>

Next ==
  \/ \E m \in Msgs : Put(m)
  \/ TakeAll

Spec == Init /\ [][Next]_mailboxVars
=============================================================================
