---------------------------- MODULE MCThreadQueue ----------------------------
(* Two senders and the consumer; an eventfd that saturates after two writes, *)
(* so that the failing write happens within three sends.                     *)
EXTENDS ThreadQueue
CONSTANTS s1, s2, c, nobody, a, b
MCSenders == {s1, s2}
MCMsgs == {a, b}
=============================================================================
