------------------------------ MODULE MCBufPool ------------------------------
(* Two threads, two capacities (of two and four bytes, one list element      *)
(* each, one more for the smaller), and room under the limit for one new     *)
(* buffer of each, so the lists run empty, grow and hit the limit.           *)
EXTENDS BufPool, TLC
CONSTANTS t1, t2, nobody, null, b1, b2, b3, b4, b5
MCThreads == {t1, t2}
MCBufs == {b1, b2, b3, b4, b5}
MCCaps == {2, 4}
\* At and past the first capacity's edge, past the last one's.
MCSizes == {2, 3, 5}
MCInitList == (2 :> <<b1, b2>>) @@ (4 :> <<b3>>)
\* Threads are interchangeable, and so are buffers that do not exist yet.
MCSymmetry == Permutations(MCThreads) \cup Permutations({b4, b5})
=============================================================================
