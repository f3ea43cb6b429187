----------------------------- MODULE RouteTable -----------------------------
(***************************************************************************)
(* What the route singleton promises: get_hosts answers from one complete  *)
(* snapshot of the database, which is replaced as a whole by one that is   *)
(* no older.  There are no two maps, no row-by-row loading and no lock     *)
(* here; RouteStore is the implementation.                                 *)
(***************************************************************************)
EXTENDS Naturals, Sequences

CONSTANTS Mods, Hosts, Readers

Rows == Mods \X Hosts

HostsOf(rows, m) == {h \in Hosts : <<m, h>> \in rows}

VARIABLES
  log,      \* every content the RouteData table has had, oldest first
  served,   \* position in log of the snapshot that is served
  answer    \* per reader, <<module, hosts>> of its last answer

tableVars == <<log, served, answer>>

Init ==
  /\ \E rows \in SUBSET Rows : log = <<rows>>
  /\ served = 1
  /\ answer = [r \in Readers |-> <<>>]

\* Someone edits RouteData.
Edit(rows) ==
  /\ log' = Append(log, rows)
  /\ UNCHANGED <<served, answer>>

\* A snapshot at least as new takes the place of the one that is served.
Publish(n) ==
  /\ n \in served..Len(log)
  /\ served' = n
  /\ UNCHANGED <<log, answer>>

\* get_hosts
Answer(r, m) ==
  /\ answer' = [answer EXCEPT ![r] = <<m, HostsOf(log[served], m)>>]
  /\ UNCHANGED <<log, served>>

Next ==
  \/ \E rows \in SUBSET Rows : Edit(rows)
  \/ \E n \in 1..Len(log) : Publish(n)
  \/ \E r \in Readers, m \in Mods : Answer(r, m)

Spec == Init /\ [][Next]_tableVars
=============================================================================
