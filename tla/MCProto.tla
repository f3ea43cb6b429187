------------------------------ MODULE MCProto ------------------------------
(***************************************************************************)
(* Bytes of seven payload bits, int32 of 12 bits sent as 26: one, two and  *)
(* four bytes for small, unsigned and negative values.                     *)
(***************************************************************************)
EXTENDS Proto

MCValues == [int32 |-> {0, -1, 200}, uint32 |-> {0, 4095}, bool |-> {0, 1}]
=============================================================================
