------------------------------ MODULE Reporter ------------------------------
(***************************************************************************)
(* The reporter: worker threads of the tcp_server run get_report_status,   *)
(* which stores the report itself and then hands it to one of thread_cnt   *)
(* storing threads, which store it again.  The index of the next thread is *)
(* a static int that all workers change without a lock: each statement on  *)
(* it is a load and a store.                                               *)
(*                                                                         *)
(* A report is a number, in the order of arrival, with results for the     *)
(* first of the hosts, or for none: what ParseFromArray returns is ignored *)
(* and of a report that is cut the results before the cut are used.  A row *)
(* of ServerCallStatus is the report it was last written from.             *)
(* The queues are those of ThreadQueue, sending and taking all being one   *)
(* step here.  MySQL is external: a query may fail, and it accepts a       *)
(* limited number of connections.                                          *)
(***************************************************************************)
EXTENDS ConfigFile

CONSTANTS
  Workers,
  HostCnt,     \* bound on results_size() of a report
  Lines,       \* the lines a configuration is made of
  MaxLines,    \* bound on its length
  DefaultCnt,  \* thread_cnt when there is no db_thread_cnt: 3
  MaxThreads,  \* bound on thread_cnt
  DbLimit,     \* max_connections of MySQL
  MaxReports,  \* bound on the reports
  MaxFails     \* bound on the queries that fail for a host

ASSUME ReporterAssumption ==
  /\ HostCnt \in Nat \ {0}
  /\ {MaxLines, DefaultCnt, MaxThreads, DbLimit, MaxReports, MaxFails} \subseteq Nat
  /\ "reporter" \in Sections /\ "db_thread_cnt" \in ConfKeys

VARIABLES
  conf,        \* the configuration's lines, until they are read
  started,     \* main has reached its loop
  thread_cnt,
  index,
  queues,
  worker,      \* of each worker: where it is, its report, its result, a register
  storer,      \* of each storing thread: where it is, its messages, its result
  db,          \* ServerCallStatus: the report each host's row is from, or 0
  conns,       \* connections to MySQL
  arrived,     \* number of reports
  results,     \* results_size() of each of them
  fails,       \* number of failed queries of each host
  ended,       \* "no", "exited" or "crashed"
  handed,      \* history: the reports each storing thread was sent
  done,        \* history: number of reports the storing threads are done with
  raced        \* history: two workers were at the index at once

dbVars == <<db, fails>>
reportVars == <<arrived, results>>
vars == <<conf, started, thread_cnt, index, queues, worker, storer, dbVars, conns, reportVars, ended,
          handed, done, raced>>

Hosts == 1..HostCnt
Threads == 0..(MaxThreads - 1)
Configurations == UNION {[1..n -> Lines] : n \in 0..MaxLines}

Running == started /\ ended = "no"

IdleWorker == [pc |-> "idle", rep |-> 0, row |-> 0, reg |-> 0]

WorkerState ==
  [pc : {"idle", "store", "send", "load", "add", "mod", "wrap"}, rep : 0..MaxReports,
   row : 0..(HostCnt + 1), reg : Nat]

StorerState == [pc : {"none", "boot", "loop"}, batch : Seq(1..MaxReports), row : Hosts]

\* The type invariant.
TypeOK ==
  /\ conf \in Configurations /\ {started, raced} \subseteq BOOLEAN
  /\ ended # "crashed" => thread_cnt \in 0..MaxThreads
  /\ index \in Nat
  /\ {queues, handed} \subseteq [Threads -> Seq(1..MaxReports)]
  /\ worker \in [Workers -> WorkerState] /\ storer \in [Threads -> StorerState]
  /\ db \in [Hosts -> 0..MaxReports] /\ fails \in [Hosts -> 0..MaxFails]
  /\ conns \in 0..DbLimit /\ arrived \in 0..MaxReports
  /\ results \in Seq(0..HostCnt) /\ Len(results) = arrived
  /\ ended \in {"no", "exited", "crashed"}

Init ==
  /\ conf \in Configurations /\ started = FALSE
  /\ thread_cnt = 0
  /\ index = 0
  /\ queues = [t \in Threads |-> <<>>]
  /\ worker = [w \in Workers |-> IdleWorker]
  /\ storer = [t \in Threads |-> [pc |-> "none", batch |-> <<>>, row |-> 1]]
  /\ db = [h \in Hosts |-> 0] /\ fails = [h \in Hosts |-> 0]
  /\ conns = 0 /\ arrived = 0 /\ results = <<>> /\ ended = "no"
  /\ handed = [t \in Threads |-> <<>>]
  /\ done = 0 /\ raced = FALSE

-----------------------------------------------------------------------------
\* main up to its loop: the configuration and create_reportdb_thread.  No report
\* arrives before, as that loop accepts the connections.  An array of negative
\* size cannot be made.  (MaxThreads is a bound of the model.)
Main ==
  LET l == Load(conf)
      cnt == ToInt(GetNumber(l.map, "reporter", "db_thread_cnt", DefaultCnt))
  IN
  /\ ~started /\ ended = "no"
  /\ cnt <= MaxThreads
  /\ IF l.fault \/ cnt \notin Nat
       THEN /\ ended' = "crashed"
            /\ thread_cnt' = IF l.fault THEN 0 ELSE cnt
            /\ UNCHANGED <<conf, started, storer>>
       ELSE /\ conf' = <<>> /\ started' = TRUE
            /\ thread_cnt' = cnt
            /\ storer' = [t \in Threads |->
                            [storer[t] EXCEPT !.pc = IF t < cnt THEN "boot" ELSE "none"]]
            /\ ended' = ended
  /\ UNCHANGED <<index, queues, worker, dbVars, conns, reportVars, handed, done, raced>>

\* mysql_real_connect
CanConnect == conns < DbLimit

\* store_report::store_report: no connection ends the program.
Connect ==
  IF CanConnect THEN conns' = conns + 1 /\ ended' = ended
  ELSE conns' = conns /\ ended' = "exited"

\* Report r has a result for host h.
Has(r, h) == h <= results[r]

\* The insert or update of one row by report r, if r has that result, succeeds,
\* or fails and is skipped.
StoreRow(r, h, ok) ==
  IF ~Has(r, h) THEN UNCHANGED dbVars
  ELSE IF ok THEN db' = [db EXCEPT ![h] = r] /\ fails' = fails
  ELSE /\ fails[h] < MaxFails
       /\ fails' = [fails EXCEPT ![h] = @ + 1]
       /\ db' = db

\* A mutant of NextRow: a failed query ends the loop over the results.
NextRowBreak(h, ok) == IF ok THEN h + 1 ELSE HostCnt + 1

NextRow(h, ok) == h + 1

-----------------------------------------------------------------------------
(* get_report_status, in a worker thread *)

Goto(w, pc) == worker' = [worker EXCEPT ![w].pc = pc]

\* A report is parsed, as far as it goes; its own store_report is made, and
\* never closed.
Request(w) ==
  /\ Running
  /\ worker[w].pc = "idle"
  /\ arrived < MaxReports
  /\ arrived' = arrived + 1
  /\ \E n \in 0..HostCnt : results' = Append(results, n)
  /\ worker' = [worker EXCEPT ![w] = [pc |-> "store", rep |-> arrived + 1, row |-> 1, reg |-> 0]]
  /\ Connect
  /\ UNCHANGED <<conf, started, thread_cnt, index, queues, storer, dbVars, handed, done, raced>>

StoreOwn(w, ok) ==
  LET h == worker[w].row
      next == NextRow(h, ok)
  IN
  /\ Running
  /\ worker[w].pc = "store"
  /\ StoreRow(worker[w].rep, h, ok)
  /\ worker' = [worker EXCEPT ![w].row = next,
                              ![w].pc = IF next > results[worker[w].rep] THEN "send" ELSE @]
  /\ UNCHANGED <<conf, started, thread_cnt, index, queues, storer, conns, reportVars, ended,
                 handed, done, raced>>

AtIndex(w) == worker[w].pc \in {"load", "add", "mod", "wrap"}

\* queues[index]->send(req): behind the array there is no queue.
Send(w) ==
  /\ Running
  /\ worker[w].pc = "send"
  /\ raced' = (raced \/ \E v \in Workers : AtIndex(v))
  /\ IF index < thread_cnt
       THEN /\ queues' = [queues EXCEPT ![index] = Append(@, worker[w].rep)]
            /\ handed' = [handed EXCEPT ![index] = Append(@, worker[w].rep)]
            /\ ended' = ended
       ELSE ended' = "crashed" /\ UNCHANGED <<queues, handed>>
  /\ Goto(w, "load")
  /\ UNCHANGED <<conf, started, thread_cnt, index, storer, dbVars, conns, reportVars, done>>

\* index++ and index = index % thread_cnt: the loads
Load_index(w) ==
  /\ Running
  /\ worker[w].pc \in {"load", "mod"}
  /\ worker' = [worker EXCEPT ![w].reg = index,
                              ![w].pc = IF @ = "load" THEN "add" ELSE "wrap"]
  /\ UNCHANGED <<conf, started, thread_cnt, index, queues, storer, dbVars, conns, reportVars,
                 ended, handed, done, raced>>

\* A mutant of Wrapped: the index is not brought back.
WrappedNot(i) == i

Wrapped(i) == i % thread_cnt

\* and the stores
Store_index(w) ==
  /\ Running
  /\ worker[w].pc \in {"add", "wrap"}
  /\ IF worker[w].pc = "add"
       THEN /\ index' = worker[w].reg + 1
            /\ worker' = [worker EXCEPT ![w].reg = 0, ![w].pc = "mod"]
       ELSE /\ index' = Wrapped(worker[w].reg)
            /\ worker' = [worker EXCEPT ![w] = IdleWorker]
  /\ UNCHANGED <<conf, started, thread_cnt, queues, storer, dbVars, conns, reportVars, ended,
                 handed, done, raced>>

-----------------------------------------------------------------------------
(* The storing threads *)

StoreMain(t) ==
  /\ Running
  /\ storer[t].pc = "boot"
  /\ storer' = [storer EXCEPT ![t].pc = "loop"]
  /\ Connect
  /\ UNCHANGED <<conf, started, thread_cnt, index, queues, worker, dbVars, reportVars, handed,
                 done, raced>>

\* A mutant of Taken: the messages come out in reverse.
TakenReverse(q) == [i \in 1..Len(q) |-> q[Len(q) + 1 - i]]

\* What recv moves to report_msgs.
Taken(q) == q

\* A mutant of Signalled: a single message does not wake the thread.
SignalledTwice(q) == Len(q) > 1

\* The queue's eventfd is readable.
Signalled(q) == q # <<>>

\* thread_report
ThreadReport(t) ==
  /\ Running
  /\ storer[t].pc = "loop" /\ storer[t].batch = <<>>
  /\ Signalled(queues[t])
  /\ storer' = [storer EXCEPT ![t].batch = Taken(queues[t])]
  /\ queues' = [queues EXCEPT ![t] = <<>>]
  /\ UNCHANGED <<conf, started, thread_cnt, index, worker, dbVars, conns, reportVars, ended,
                 handed, done, raced>>

StoreQueued(t, ok) ==
  LET h == storer[t].row
      next == NextRow(h, ok)
  IN
  /\ Running
  /\ storer[t].batch # <<>>
  /\ StoreRow(Head(storer[t].batch), h, ok)
  /\ IF next > results[Head(storer[t].batch)]
       THEN /\ storer' = [storer EXCEPT ![t].row = 1, ![t].batch = Tail(@)]
            /\ done' = done + 1
       ELSE storer' = [storer EXCEPT ![t].row = next] /\ done' = done
  /\ UNCHANGED <<conf, started, thread_cnt, index, queues, worker, conns, reportVars, ended,
                 handed, raced>>

-----------------------------------------------------------------------------
Worker(w) ==
  \/ \E ok \in BOOLEAN : StoreOwn(w, ok)
  \/ Send(w)
  \/ Load_index(w)
  \/ Store_index(w)

Storer(t) ==
  \/ StoreMain(t)
  \/ ThreadReport(t)
  \/ \E ok \in BOOLEAN : StoreQueued(t, ok)

Next ==
  \/ Main
  \/ \E w \in Workers : Request(w) \/ Worker(w)
  \/ \E t \in Threads : Storer(t)

Spec == Init /\ [][Next]_vars

\* Every thread runs; reports need not come.
FairSpec ==
  /\ Spec
  /\ \A w \in Workers : WF_vars(Worker(w))
  /\ \A t \in Threads : WF_vars(Storer(t))

-----------------------------------------------------------------------------
(* Properties *)

\* load and the accessors agree with the reading of the text as a whole: the
\* last value of a key counts, over all parts of its section; load fails
\* exactly when an entry has no section.
ConfigAgrees ==
  LET l == Load(conf) IN
  /\ l.fault <=> Headless(conf)
  /\ ~l.fault => \A s \in Sections, k \in ConfKeys :
                   GetString(l.map, s, k, Absent) = Meaning(conf, s, k)

\* With a usable configuration, one that gives a positive number of storing
\* threads, get_report_status leaves the array of queues only when two workers
\* are at the index at once.
CrashOnlyIfRaced == ended = "crashed" => raced \/ thread_cnt \notin Nat \ {0}

\* Nothing is left to do.
Quiet ==
  /\ Running
  /\ \A w \in Workers : worker[w].pc = "idle"
  /\ \A t \in Threads : queues[t] = <<>> /\ storer[t].batch = <<>>

\* The reports with a result for a host.
ReportsOn(h) == {r \in 1..arrived : Has(r, h)}

\* No report with a result for the host is among those from i to j that a
\* storing thread was sent.
NoneOn(h, t, i, j) == \A k \in i..j : ~Has(handed[t][k], h)

\* When all is done and no query failed, the row of a host with results is from
\* the last report on it of a storing thread: one thread's reports are stored in
\* order, and a report's own store never outlives the queued one.  (Between
\* threads there is no order: the row need not be from the last report of all.)
RowFromLastOfAThread ==
  Quiet =>
    \A h \in Hosts : fails[h] = 0 /\ ReportsOn(h) # {} =>
      \E t \in Threads : \E i \in 1..Len(handed[t]) :
        /\ handed[t][i] = db[h] /\ Has(db[h], h)
        /\ NoneOn(h, t, i + 1, Len(handed[t]))

\* A host has no row only if both stores of every report on it failed.
MissingOnlyIfAllFailed ==
  Quiet => \A h \in Hosts : db[h] = 0 => fails[h] >= 2 * Cardinality(ReportsOn(h))

\* Every report is handled by a storing thread, unless the program ends.
ReportsAreStored ==
  \A n \in 1..MaxReports : (arrived >= n) ~> (done >= n \/ ended # "no")

-----------------------------------------------------------------------------
(* The inductive invariant behind CrashOnlyIfRaced, RowFromLastOfAThread   *)
(* and MissingOnlyIfAllFailed                                               *)

\* Until two workers meet at the index, one at a time changes it, and it is
\* behind the array only between index++ and the remainder.  Without storing
\* threads no worker gets that far: there is no remainder by 0.
IndexInv ==
  /\ ~started => index = 0
  /\ ended # "crashed" /\ thread_cnt = 0 => \A w \in Workers : ~AtIndex(w)
  /\ ended # "crashed" /\ ~raced /\ thread_cnt # 0 =>
       /\ \A v, w \in Workers : AtIndex(v) /\ AtIndex(w) => v = w
       /\ index < thread_cnt \/ \E w \in Workers : worker[w].pc \in {"mod", "wrap"}

\* What a worker has in hand; before main's loop there is nothing.
WorkerInv(w) ==
  /\ ~started => worker[w].pc = "idle"
  /\ worker[w].pc # "idle" => worker[w].rep \in 1..arrived
  /\ worker[w].pc = "store" => worker[w].row \in Hosts

\* How many of the reports it was sent a storing thread has taken off its
\* batch, and how many of them it has stored for a host.
Finished(t) == Len(handed[t]) - Len(storer[t].batch) - Len(queues[t])

Stored(t, h) ==
  IF storer[t].batch # <<>> /\ h < storer[t].row THEN Finished(t) + 1 ELSE Finished(t)

\* The batch and the queue are the end of what a storing thread was sent.
StorerInv(t) ==
  /\ Finished(t) \in Nat
  /\ \A i \in 1..Len(handed[t]) : handed[t][i] \in 1..arrived
  /\ storer[t].batch = <<>> => storer[t].row = 1
  /\ \A i \in 1..Len(storer[t].batch) : storer[t].batch[i] = handed[t][Finished(t) + i]
  /\ \A i \in 1..Len(queues[t]) :
       queues[t][i] = handed[t][Finished(t) + Len(storer[t].batch) + i]

\* What is still to be tried for a host: the workers' own stores, the reports
\* that are to be sent, and those sent that are not yet stored.
OwnLeft(h) ==
  {w \in Workers : worker[w].pc = "store" /\ worker[w].row <= h /\ Has(worker[w].rep, h)}

ToSend(h) == {w \in Workers : worker[w].pc \in {"store", "send"} /\ Has(worker[w].rep, h)}

Unstored(t, h) == {i \in (Stored(t, h) + 1)..Len(handed[t]) : Has(handed[t][i], h)}

QueuedLeft(h) == UNION {{t} \X Unstored(t, h) : t \in Threads}

\* Where the row of a host comes from: a report that is still with its worker,
\* or one that a storing thread stored last for it or has yet to store.
FromWorker(h) == \E w \in ToSend(h) : worker[w].rep = db[h]

FromStorer(h) ==
  \E t \in Threads : \E i \in 1..Len(handed[t]) :
    handed[t][i] = db[h] /\ NoneOn(h, t, i + 1, Stored(t, h))

RowInv(h) ==
  /\ db[h] # 0 => db[h] \in ReportsOn(h)
  /\ fails[h] = 0 =>
       /\ db[h] # 0 => FromWorker(h) \/ FromStorer(h)
       /\ db[h] = 0 /\ ReportsOn(h) # {} => OwnLeft(h) # {}

\* As long as a host has no row, the two stores of each report on it have failed
\* or are still to come.
CountInv(h) ==
  /\ IsFiniteSet(OwnLeft(h)) /\ IsFiniteSet(ToSend(h)) /\ IsFiniteSet(QueuedLeft(h))
  /\ db[h] = 0 =>
       fails[h] + Cardinality(OwnLeft(h)) + Cardinality(ToSend(h)) + Cardinality(QueuedLeft(h))
         >= 2 * Cardinality(ReportsOn(h))

Inv ==
  /\ TypeOK
  /\ CrashOnlyIfRaced
  /\ IndexInv
  /\ \A w \in Workers : WorkerInv(w)
  /\ \A t \in Threads : StorerInv(t)
  /\ ended # "crashed" => \A h \in Hosts : RowInv(h) /\ CountInv(h)
=============================================================================
