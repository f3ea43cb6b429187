-------------------------- MODULE RouteStoreProofs --------------------------
(***************************************************************************)
(* Proofs that RouteStore keeps its safety invariants and implements       *)
(* RouteTable, for any modules, hosts, readers, time-out and number of     *)
(* edits.                                                                  *)
(***************************************************************************)
EXTENDS RouteStore, TLAPS

\* The initial state satisfies the inductive invariant.
LEMMA InitInv == Init => Inv
<1> SUFFICES ASSUME Init PROVE Inv
  BY Zenon
<1> USE StoreAssumption
<1>1. PICK rows \in SUBSET Rows :
        log = <<rows>> /\ maps = [i \in 0..1 |-> IF i = 0 THEN rows ELSE {}]
  BY Zenon DEF Init
<1>2. (CHOOSE m \in Mods : TRUE) \in Mods
  BY Zenon
<1>3. Len(log) = 1 /\ log[1] = rows /\ log \in Seq(SUBSET Rows) /\ log # <<>>
  BY <1>1
<1>4. TypeOK
  BY <1>1, <1>2, <1>3 DEF Init, TypeOK
<1> QED
  BY <1>1, <1>3, <1>4 DEF Init, Inv, ServedIsSnapshot, IteratorIsSafe, SpareInv

\* An edit only appends to the history: what is known of earlier snapshots
\* stays true.
LEMMA EditStep ==
  ASSUME Inv, NEW row \in Rows, EditData(row)
  PROVE  Inv'
<1> USE StoreAssumption DEF Inv, TypeOK, EditData, readVars, checkVars, temp
<1>1. PICK rows \in SUBSET Rows : log' = Append(log, rows)
  BY DEF RouteData
<1>2. /\ Len(log') = Len(log) + 1
      /\ log' \in Seq(SUBSET Rows) /\ log' # <<>>
      /\ \A i \in 1..Len(log) : log'[i] = log[i]
  BY <1>1
<1>3. TypeOK' /\ Len(log') <= MaxEdits + 1
  BY <1>2
<1>4. at[data] \in 1..Len(log) /\ at[temp] \in 1..Len(log)
  OBVIOUS
<1> QED
  BY <1>2, <1>3, <1>4, Zenon DEF ServedIsSnapshot, IteratorIsSafe, SpareInv

\* Every other step.
LEMMA OtherStep ==
  ASSUME Inv, [Next]_vars, \A row \in Rows : ~EditData(row)
  PROVE  Inv'
<1> USE StoreAssumption
    DEF Inv, TypeOK, ServedIsSnapshot, IteratorIsSafe, SpareInv, temp, dbVars,
        readVars, checkVars, Goto
<1>1. CASE EditVersion
  BY <1>1 DEF EditVersion
<1>2. ASSUME NEW r \in Readers, NEW m \in Mods, RdLock(r, m) PROVE Inv'
  BY <1>2, Zenon DEF RdLock
<1>3. ASSUME NEW r \in Readers, Find(r) PROVE Inv'
  BY <1>3, Zenon DEF Find
<1>4. ASSUME NEW r \in Readers, Copy(r) PROVE Inv'
  BY <1>4 DEF Copy
<1>5. CASE Sleep
  BY <1>5 DEF Sleep
<1>6. CASE LoadVersion
  BY <1>6, Zenon DEF LoadVersion
<1>7. CASE SameVersion
  BY <1>7, Zenon DEF SameVersion
<1>8. CASE VersionFails
  BY <1>8, Zenon DEF VersionFails
<1>9. CASE Timeout
  BY <1>9, Zenon DEF Timeout
<1>10. CASE NoTimeout
  BY <1>10, Zenon DEF NoTimeout
<1>11. CASE Clear
  BY <1>11 DEF Clear
<1>12. CASE Query
  BY <1>12 DEF Query, RouteData
<1>13. CASE QueryFails
  BY <1>13, Zenon DEF QueryFails
<1>14. ASSUME NEW row \in Rows, Insert(row) PROVE Inv'
  BY <1>14 DEF Insert
<1>15. CASE Filled
  BY <1>15, Zenon DEF Filled
<1>16. CASE Swap
  BY <1>16 DEF Swap
<1>17. CASE UNCHANGED vars
  BY <1>17, Zenon DEF vars
<1> QED
  BY <1>1, <1>2, <1>3, <1>4, <1>5, <1>6, <1>7, <1>8, <1>9, <1>10, <1>11, <1>12,
     <1>13, <1>14, <1>15, <1>16, <1>17, Zenon DEF Next, Editor, Reader, Checker

\* Inv is an invariant of the store.
LEMMA Invariance == Spec => []Inv
<1>1. Inv /\ [Next]_vars => Inv'
  BY EditStep, OtherStep, Zenon
<1> QED
  BY InitInv, <1>1, PTL DEF Spec

\* The pointers, the maps, the lock and the threads' positions have their
\* types in every reachable state of class route.
THEOREM TypeCorrect == Spec => []TypeOK
<1>1. Inv => TypeOK
  BY Zenon DEF Inv
<1> QED
  BY Invariance, <1>1, PTL

\* get_hosts never reads a half-built table: the map behind _data_map is one
\* complete content that RouteData has had.
THEOREM SnapshotServed == Spec => []ServedIsSnapshot
<1>1. Inv => ServedIsSnapshot
  BY Zenon DEF Inv
<1> QED
  BY Invariance, <1>1, PTL

\* An iterator of get_hosts never points into the map that is being cleared
\* and refilled without a lock.
THEOREM IteratorsSafe == Spec => []IteratorIsSafe
<1>1. Inv => IteratorIsSafe
  BY Zenon DEF Inv
<1> QED
  BY Invariance, <1>1, PTL

\* swap never takes the service back to an older snapshot.
THEOREM NeverGoesBack == Spec => NeverOlder
<1>1. Inv /\ [Next]_vars => [at'[data'] >= at[data]]_vars
  <2> SUFFICES ASSUME Inv, Next PROVE at'[data'] >= at[data]
    BY Zenon
  <2> USE DEF Inv, TypeOK, temp, Goto
  <2>1. CASE Query
    BY <2>1 DEF Query
  <2>2. CASE Swap
    BY <2>2, Zenon DEF Swap, SpareInv
  <2>3. CASE UNCHANGED <<at, data>>
    BY <2>3
  <2> QED
    BY <2>1, <2>2, <2>3, Zenon DEF Next, Editor, Reader, Checker, EditData, EditVersion,
       RdLock, Find, Copy, Sleep, LoadVersion, SameVersion, VersionFails, Timeout,
       NoTimeout, Clear, QueryFails, Insert, Filled, checkVars
<1> QED
  BY Invariance, <1>1, PTL DEF Spec, NeverOlder

\* The double-buffered store implements the table with one atomic snapshot:
\* swap is its Publish, the copy in get_hosts its Answer.
THEOREM ImplementsTable == Spec => RefinesTable
<1>1. Init => Abstract!Init
  BY DEF Init, Abstract!Init, Rows, Abstract!Rows
<1>2. Inv /\ [Next]_vars => [Abstract!Next]_(Abstract!tableVars)
  <2> SUFFICES ASSUME Inv, Next
               PROVE  Abstract!Next \/ UNCHANGED Abstract!tableVars
    BY Zenon DEF vars, dbVars, readVars, checkVars, Abstract!tableVars
  <2> USE DEF Inv, TypeOK, temp, Goto, Rows, Abstract!Rows
  <2>1. ASSUME NEW row \in Rows, EditData(row) PROVE Abstract!Next
    <3>1. PICK rows \in SUBSET Rows : log' = Append(log, rows)
      BY <2>1 DEF EditData, RouteData
    <3>2. Abstract!Edit(rows)
      BY <2>1, <3>1, Zenon DEF EditData, Abstract!Edit, readVars, checkVars
    <3> QED
      BY <3>2, Zenon DEF Abstract!Next
  <2>2. ASSUME NEW r \in Readers, Copy(r) PROVE Abstract!Next
    <3>1. rmap[r] = data /\ maps[data] = log[at[data]] /\ rmod[r] \in Mods
      BY <2>2, Zenon DEF Copy, IteratorIsSafe, ServedIsSnapshot
    <3>2. HostsOf(maps[rmap[r]], rmod[r]) = Abstract!HostsOf(log[at[data]], rmod[r])
      BY <3>1, Zenon DEF HostsOf, Abstract!HostsOf
    <3>3. Abstract!Answer(r, rmod[r])
      BY <2>2, <3>2, Zenon DEF Copy, Abstract!Answer, dbVars, checkVars
    <3> QED
      BY <3>1, <3>3, Zenon DEF Abstract!Next
  <2>3. CASE Swap
    <3>1. at[temp] \in at[data]..Len(log) /\ at[temp] \in 1..Len(log)
      BY <2>3 DEF Swap, SpareInv
    <3>2. Abstract!Publish(at[temp])
      BY <2>3, <3>1, Zenon DEF Swap, Abstract!Publish, dbVars, readVars
    <3> QED
      BY <3>1, <3>2, Zenon DEF Abstract!Next
  <2>4. CASE Query
    <3>1. at'[data'] = at[data] /\ UNCHANGED <<log, answer>>
      BY <2>4 DEF Query, dbVars, readVars
    <3> QED
      BY <3>1, Zenon DEF Abstract!tableVars
  <2>5. CASE UNCHANGED <<log, answer, at, data>>
    BY <2>5, Zenon DEF Abstract!tableVars
  <2> QED
    BY <2>1, <2>2, <2>3, <2>4, <2>5, Zenon DEF Next, Editor, Reader, Checker, EditVersion,
       RdLock, Find, Sleep, LoadVersion, SameVersion, VersionFails, Timeout,
       NoTimeout, Clear, QueryFails, Insert, Filled, checkVars, readVars, dbVars
<1> QED
  BY Invariance, <1>1, <1>2, PTL DEF Spec, RefinesTable, Abstract!Spec
=============================================================================
