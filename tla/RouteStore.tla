----------------------------- MODULE RouteStore -----------------------------
(***************************************************************************)
(* class route (dns/src/dns_route.cc) and the part of the DNS service's    *)
(* checking thread that drives it (check_route_changes in                  *)
(* dns/src/dns_service.cc): two maps behind two pointers, the spare one    *)
(* filled row by row without a lock and swapped in under the write lock,   *)
(* while worker threads copy out of the other under the read lock.  The    *)
(* change list and the pushes are the business of module DnsService.       *)
(*                                                                         *)
(* Queries may fail.  _version is never initialised, so it starts with any *)
(* value.                                                                  *)
(***************************************************************************)
EXTENDS Naturals, Sequences, FiniteSets

CONSTANTS
  Mods,      \* (modid, cmdid) keys
  Hosts,     \* (ip, port) values
  Readers,   \* worker threads that call get_hosts
  WaitTime,  \* wait_time, in turns of the checking loop (one second each)
  MaxEdits,  \* bound: edits of RouteData
  MayEmpty   \* whether an edit may leave RouteData without rows

ASSUME StoreAssumption ==
  /\ Mods # {}
  /\ WaitTime \in Nat
  /\ MaxEdits \in Nat
  /\ MayEmpty \in BOOLEAN

Rows == Mods \X Hosts

HostsOf(rows, m) == {h \in Hosts : <<m, h>> \in rows}

VARIABLES
  log,       \* history of RouteData; its last element is the table
  dbVersion, \* RouteVersion
  maps,      \* the two maps, each a set of rows
  data,      \* which of them _data_map points to; _temp_map is the other
  version,   \* _version
  result,    \* rows of the MYSQL_RES not inserted yet
  elapsed,   \* current_time - last_load_time
  cpc,       \* where the checking thread is
  rpc,       \* where each reader is in get_hosts
  rmod,      \* its argument
  rmap,      \* the map its iterator points into
  answer,    \* the last <<module, hosts>> that it copied
  at         \* history: position in log that each map was loaded from

dbVars == <<log, dbVersion>>
readVars == <<rpc, rmod, rmap, answer>>
checkVars == <<maps, data, version, result, elapsed, cpc, at>>
vars == <<dbVars, readVars, checkVars>>

RouteData == log[Len(log)]
temp == 1 - data

TypeOK ==
  /\ log \in Seq(SUBSET Rows) /\ log # <<>>
  /\ dbVersion \in 0..MaxEdits
  /\ maps \in [0..1 -> SUBSET Rows]
  /\ data \in 0..1
  /\ version \in 0..MaxEdits
  /\ result \subseteq Rows
  /\ elapsed \in 0..WaitTime
  /\ cpc \in {"sleep", "version", "timeout", "clear", "query", "fill", "swap"}
  /\ rpc \in [Readers -> {"idle", "locked", "found"}]
  /\ rmod \in [Readers -> Mods]
  /\ rmap \in [Readers -> 0..1]
  /\ at \in [0..1 -> 1..Len(log)]

\* The constructor has run: build_maps filled _data_map.
Init ==
  /\ \E rows \in SUBSET Rows :
       /\ log = <<rows>>
       /\ maps = [i \in 0..1 |-> IF i = 0 THEN rows ELSE {}]
  /\ dbVersion = 0
  /\ data = 0
  /\ version \in 0..MaxEdits
  /\ result = {}
  /\ elapsed = 0
  /\ cpc = "sleep"
  /\ rpc = [r \in Readers |-> "idle"]
  /\ rmod = [r \in Readers |-> CHOOSE m \in Mods : TRUE]
  /\ rmap = [r \in Readers |-> 0]
  /\ answer = [r \in Readers |-> <<>>]
  /\ at = [i \in 0..1 |-> 1]

-----------------------------------------------------------------------------
(* The database, edited by scripts such as base/sql/test_insert_dns.sql: the *)
(* rows first, the version in a later statement.                             *)

EditData(row) ==
  /\ Len(log) <= MaxEdits
  /\ \E rows \in {RouteData \cup {row}, RouteData \ {row}} :
       /\ rows # RouteData
       /\ MayEmpty \/ rows # {}
       /\ log' = Append(log, rows)
  /\ UNCHANGED <<dbVersion, readVars, checkVars>>

EditVersion ==
  /\ dbVersion < Len(log) - 1
  /\ dbVersion' = Len(log) - 1
  /\ UNCHANGED <<log, readVars, checkVars>>

-----------------------------------------------------------------------------
(* get_hosts, in a worker thread *)

RdLock(r, m) ==
  /\ rpc[r] = "idle"
  /\ rpc' = [rpc EXCEPT ![r] = "locked"]
  /\ rmod' = [rmod EXCEPT ![r] = m]
  /\ UNCHANGED <<rmap, answer, dbVars, checkVars>>

\* _data_map->find(key)
Find(r) ==
  /\ rpc[r] = "locked"
  /\ rpc' = [rpc EXCEPT ![r] = "found"]
  /\ rmap' = [rmap EXCEPT ![r] = data]
  /\ UNCHANGED <<rmod, answer, dbVars, checkVars>>

\* hosts = it->second (or the empty set), then unlock.
Copy(r) ==
  /\ rpc[r] = "found"
  /\ rpc' = [rpc EXCEPT ![r] = "idle"]
  /\ answer' = [answer EXCEPT ![r] = <<rmod[r], HostsOf(maps[rmap[r]], rmod[r])>>]
  /\ rmap' = [rmap EXCEPT ![r] = 0]
  /\ UNCHANGED <<rmod, dbVars, checkVars>>

-----------------------------------------------------------------------------
(* check_route_changes *)

Goto(from, to) == cpc = from /\ cpc' = to

\* sleep(1)
Sleep ==
  /\ Goto("sleep", "version")
  /\ elapsed' = IF elapsed < WaitTime THEN elapsed + 1 ELSE elapsed
  /\ UNCHANGED <<maps, data, version, result, at, dbVars, readVars>>

\* load_version returns 1
LoadVersion ==
  /\ Goto("version", "clear")
  /\ dbVersion # version
  /\ version' = dbVersion
  /\ UNCHANGED <<maps, data, result, elapsed, at, dbVars, readVars>>

\* load_version returns 0
SameVersion ==
  /\ Goto("version", "timeout")
  /\ dbVersion = version
  /\ UNCHANGED <<maps, data, version, result, elapsed, at, dbVars, readVars>>

\* load_version returns -1: the query failed.
VersionFails ==
  /\ Goto("version", "timeout")
  /\ UNCHANGED <<maps, data, version, result, elapsed, at, dbVars, readVars>>

\* A mutant of Timeout: nothing is reloaded unless the version changes.
TimeoutIgnored ==
  /\ Goto("timeout", "sleep")
  /\ UNCHANGED <<maps, data, version, result, elapsed, at, dbVars, readVars>>

Timeout ==
  /\ Goto("timeout", "clear")
  /\ elapsed >= WaitTime
  /\ UNCHANGED <<maps, data, version, result, elapsed, at, dbVars, readVars>>

NoTimeout ==
  /\ Goto("timeout", "sleep")
  /\ elapsed < WaitTime
  /\ UNCHANGED <<maps, data, version, result, elapsed, at, dbVars, readVars>>

\* load_route_data: _temp_map->clear()
Clear ==
  /\ Goto("clear", "query")
  /\ maps' = [maps EXCEPT ![temp] = {}]
  /\ UNCHANGED <<data, version, result, elapsed, at, dbVars, readVars>>

\* The query returns rows.
Query ==
  /\ Goto("query", "fill")
  /\ RouteData # {}
  /\ result' = RouteData
  /\ at' = [at EXCEPT ![temp] = Len(log)]
  /\ UNCHANGED <<maps, data, version, elapsed, dbVars, readVars>>

\* The query fails or returns no row: load_route_data returns -1.
QueryFails ==
  /\ Goto("query", "sleep")
  /\ UNCHANGED <<maps, data, version, result, elapsed, at, dbVars, readVars>>

\* (*_temp_map)[key].insert(value)
Insert(row) ==
  /\ Goto("fill", "fill")
  /\ row \in result
  /\ maps' = [maps EXCEPT ![temp] = @ \cup {row}]
  /\ result' = result \ {row}
  /\ UNCHANGED <<data, version, elapsed, at, dbVars, readVars>>

Filled ==
  /\ Goto("fill", "swap")
  /\ result = {}
  /\ UNCHANGED <<maps, data, version, result, elapsed, at, dbVars, readVars>>

\* A mutant of Swap: the write lock does not wait for readers.
SwapNoLock ==
  /\ Goto("swap", "sleep")
  /\ data' = temp
  /\ elapsed' = 0
  /\ UNCHANGED <<maps, version, result, at, dbVars, readVars>>

\* swap() under the write lock; last_load_time = current_time.
Swap ==
  /\ Goto("swap", "sleep")
  /\ \A r \in Readers : rpc[r] = "idle"
  /\ data' = temp
  /\ elapsed' = 0
  /\ UNCHANGED <<maps, version, result, at, dbVars, readVars>>

-----------------------------------------------------------------------------
Editor == EditVersion \/ \E row \in Rows : EditData(row)

Reader(r) == Find(r) \/ Copy(r) \/ \E m \in Mods : RdLock(r, m)

Checker ==
  \/ Sleep
  \/ LoadVersion
  \/ SameVersion
  \/ VersionFails
  \/ Timeout
  \/ NoTimeout
  \/ Clear
  \/ Query
  \/ QueryFails
  \/ \E row \in Rows : Insert(row)
  \/ Filled
  \/ Swap

Next == Editor \/ Checker \/ \E r \in Readers : Reader(r)

Spec == Init /\ [][Next]_vars

\* The checking thread runs; readers leave get_hosts; a database that is asked
\* again and again does not fail every time; readers do not keep the lock
\* taken between them for ever.
Fairness ==
  /\ WF_vars(Checker)
  /\ SF_vars(Query)
  /\ SF_vars(Swap)
  /\ \A r \in Readers : WF_vars(Find(r) \/ Copy(r))

FairSpec == Spec /\ Fairness

-----------------------------------------------------------------------------
(* Properties *)

\* What get_hosts reads from is always one complete content that RouteData
\* has had, never a half-filled or half-cleared map, although the spare map
\* is cleared and filled without any lock.
ServedIsSnapshot == maps[data] = log[at[data]]

\* A reader's iterator never points into the map that is being rebuilt.
IteratorIsSafe == \A r \in Readers : rpc[r] = "found" => rmap[r] = data

\* The routes that are served never go back to an older snapshot.
NeverOlder == [][at'[data'] >= at[data]]_vars

\* Edits reach the readers: once RouteData stays as it is, the table that is
\* served is RouteData from some time on, also when queries fail in between
\* and when the new version number was read before or after the rows.
FreshEventually == <>[](maps[data] = RouteData)

\* The spare map while it is rebuilt: empty, then filled up to the rows of one
\* snapshot, which is no older than the one that is served.
SpareInv ==
  /\ cpc = "query" => maps[temp] = {}
  /\ cpc = "fill" => maps[temp] \cup result = log[at[temp]]
  /\ cpc = "swap" => maps[temp] = log[at[temp]]
  /\ cpc \in {"fill", "swap"} => at[temp] >= at[data]

\* The inductive invariant.
Inv ==
  /\ TypeOK
  /\ Len(log) <= MaxEdits + 1
  /\ ServedIsSnapshot
  /\ IteratorIsSafe
  /\ SpareInv

\* The promise of the module RouteTable.
Abstract == INSTANCE RouteTable WITH served <- at[data]

\* Refinement: get_hosts with two maps and a lock answers as if it read one
\* snapshot that is replaced atomically.
RefinesTable == Abstract!Spec
=============================================================================
