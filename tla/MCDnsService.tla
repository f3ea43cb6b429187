---------------------------- MODULE MCDnsService ----------------------------
(* One module; one connection and two workers, or two connections that       *)
(* share a worker or reuse a descriptor.                                     *)
EXTENDS DnsService
CONSTANTS none, m1
MCMods == {m1}
MCOneFd == {3}
MCTwoFds == {3, 4}
\* Zero, as in a fresh database, or a number that no edit of the run has.
MCInitVersions == {0, 9}
MCInitZero == {0}
=============================================================================
