----------------------------- MODULE MCRinsApi -----------------------------
(***************************************************************************)
(* Two clients, one with three calls and one with a single call, two ports *)
(* of which one serves two keys, and sequence numbers that come round      *)
(* after two calls.                                                        *)
(***************************************************************************)
EXTENDS RinsApi, TLC

CONSTANTS c1, c2, k1, k2, k3, p1, p2

MCPortOf == (k1 :> p1) @@ (k2 :> p2) @@ (k3 :> p1)
MCCalls == (c1 :> 3) @@ (c2 :> 1)
=============================================================================
