--------------------------- MODULE ReporterProofs ---------------------------
(***************************************************************************)
(* Proofs about the reporter, for any number of workers, storing threads,  *)
(* hosts and reports: the queue array is left only in a race on the index, *)
(* one storing thread's reports reach the database in order, and a host is *)
(* without a row only if every store for it failed.                        *)
(***************************************************************************)
EXTENDS Reporter, FiniteSetTheorems, TLAPS

-----------------------------------------------------------------------------
(* Types *)

\* The threads' states.
LEMMA ThreadTypes == Inv => worker \in [Workers -> WorkerState] /\ storer \in [Threads -> StorerState]
BY Zenon DEF Inv, TypeOK

\* The queues and their history.
LEMMA QueueTypes == Inv => /\ queues \in [Threads -> Seq(1..MaxReports)]
                           /\ handed \in [Threads -> Seq(1..MaxReports)]
BY Zenon DEF Inv, TypeOK

\* The database.
LEMMA DbTypes == Inv => db \in [Hosts -> 0..MaxReports] /\ fails \in [Hosts -> 0..MaxFails]
BY Zenon DEF Inv, TypeOK

\* The numbers.
LEMMA NumberTypes == Inv => /\ index \in Nat /\ conns \in 0..DbLimit /\ arrived \in 0..MaxReports
                            /\ (ended # "crashed" => thread_cnt \in 0..MaxThreads)
BY Zenon DEF Inv, TypeOK

\* The results of the reports.
LEMMA ResultTypes == Inv => results \in Seq(0..HostCnt) /\ Len(results) = arrived
BY Zenon DEF Inv, TypeOK

\* A report has at most a result for every host.
LEMMA ResultOf ==
  ASSUME Inv, NEW r \in 1..arrived
  PROVE  results[r] \in 0..HostCnt
<1> DEFINE R == 0..HostCnt
<1>1. results \in Seq(R) /\ Len(results) = arrived
  BY ResultTypes, Zenon
<1> HIDE DEF R
<1>2. results[r] \in R
  BY <1>1
<1> QED
  BY <1>2, Zenon DEF R

\* The constants' types.
LEMMA Constants == /\ HostCnt \in Nat /\ HostCnt # 0 /\ MaxThreads \in Nat /\ MaxReports \in Nat
                   /\ DbLimit \in Nat /\ MaxFails \in Nat
BY ReporterAssumption, Zenon

\* The fields of a worker's state.
LEMMA WorkerFields ==
  ASSUME NEW r \in WorkerState
  PROVE  /\ r.rep \in 0..MaxReports /\ r.row \in 0..(HostCnt + 1) /\ r.reg \in Nat
         /\ r.pc \in {"idle", "store", "send", "load", "add", "mod", "wrap"}
         /\ r = [pc |-> r.pc, rep |-> r.rep, row |-> r.row, reg |-> r.reg]
BY Zenon DEF WorkerState

\* The fields of a storing thread's state.
LEMMA StorerFields ==
  ASSUME NEW r \in StorerState
  PROVE  /\ r.pc \in {"none", "boot", "loop"} /\ r.batch \in Seq(1..MaxReports) /\ r.row \in Hosts
         /\ r = [pc |-> r.pc, batch |-> r.batch, row |-> r.row]
BY Zenon DEF StorerState

\* What changes in the worker that takes a step.
LEMMA SetWorker ==
  ASSUME Inv, NEW w \in Workers, NEW r \in WorkerState, worker' = [worker EXCEPT ![w] = r]
  PROVE  /\ worker' \in [Workers -> WorkerState] /\ worker'[w] = r
         /\ \A v \in Workers : v # w => worker'[v] = worker[v]
BY ThreadTypes, Zenon

\* A record with two of its fields replaced.
LEMMA PutRow ==
  ASSUME NEW r \in WorkerState, NEW x, NEW p
  PROVE  [r EXCEPT !.row = x, !.pc = p] = [pc |-> p, rep |-> r.rep, row |-> x, reg |-> r.reg]
<1> DEFINE q == [pc |-> r.pc, rep |-> r.rep, row |-> x, reg |-> r.reg]
<1>1. [r EXCEPT !.row = x] = q
  BY DEF WorkerState
<1>2. [q EXCEPT !.pc = p] = [pc |-> p, rep |-> r.rep, row |-> x, reg |-> r.reg]
  OBVIOUS
<1> QED
  BY <1>1, <1>2, Zenon

\* The two assignments of a stored row, to the loop variable and the position.
LEMMA SetRow ==
  ASSUME Inv, NEW w \in Workers, NEW x, NEW z,
         worker' = [worker EXCEPT ![w].row = x, ![w].pc = IF x > z THEN "send" ELSE @]
  PROVE  worker' = [worker EXCEPT ![w] = [pc |-> IF x > z THEN "send" ELSE worker[w].pc,
                                          rep |-> worker[w].rep, row |-> x, reg |-> worker[w].reg]]
<1> DEFINE p == IF x > z THEN "send" ELSE worker[w].pc
<1>1. worker \in [Workers -> WorkerState] /\ worker[w] \in WorkerState
  BY ThreadTypes, Zenon
<1>2. worker' = [worker EXCEPT ![w] = [worker[w] EXCEPT !.row = x, !.pc = p]]
  BY <1>1, Zenon DEF WorkerState
<1>3. [worker[w] EXCEPT !.row = x, !.pc = p]
        = [pc |-> p, rep |-> worker[w].rep, row |-> x, reg |-> worker[w].reg]
  <2> HIDE DEF p
  <2> QED
    BY <1>1, PutRow, Zenon
<1> QED
  BY <1>2, <1>3, Zenon

\* What changes in the storing thread that takes a step.
LEMMA SetStorer ==
  ASSUME Inv, NEW t \in Threads, NEW r \in StorerState, storer' = [storer EXCEPT ![t] = r]
  PROVE  /\ storer' \in [Threads -> StorerState] /\ storer'[t] = r
         /\ \A u \in Threads : u # t => storer'[u] = storer[u]
BY ThreadTypes, Zenon

-----------------------------------------------------------------------------
(* What a step leaves alone *)

\* The parts of the invariant.
LEMMA InvParts ==
  ASSUME Inv
  PROVE  /\ IndexInv /\ CrashOnlyIfRaced /\ (\A w \in Workers : WorkerInv(w))
         /\ (\A t \in Threads : StorerInv(t))
         /\ (ended # "crashed" => \A h \in Hosts : RowInv(h))
         /\ (ended # "crashed" => \A h \in Hosts : CountInv(h))
BY Zenon DEF Inv

\* What a storing thread has finished is a number, within what it was sent.
LEMMA FinishedFacts ==
  ASSUME Inv, NEW t \in Threads, NEW h \in Hosts
  PROVE  /\ Finished(t) \in Nat /\ Len(storer[t].batch) \in Nat /\ Len(queues[t]) \in Nat
         /\ Len(handed[t]) = Finished(t) + Len(storer[t].batch) + Len(queues[t])
         /\ Stored(t, h) \in Nat /\ Stored(t, h) <= Len(handed[t])
         /\ Stored(t, h) \in {Finished(t), Finished(t) + 1}
<1>1. /\ queues[t] \in Seq(1..MaxReports) /\ handed[t] \in Seq(1..MaxReports)
      /\ storer[t].batch \in Seq(1..MaxReports)
  BY QueueTypes, ThreadTypes, StorerFields, Zenon
<1>2. Finished(t) \in Nat
  BY InvParts, Zenon DEF StorerInv
<1>3. Len(storer[t].batch) \in Nat /\ Len(queues[t]) \in Nat /\ Len(handed[t]) \in Nat
  BY <1>1
<1>4. Len(handed[t]) = Finished(t) + Len(storer[t].batch) + Len(queues[t])
  BY <1>3 DEF Finished
<1>5. storer[t].batch # <<>> => Len(storer[t].batch) # 0
  BY <1>1
<1>6. Stored(t, h) = Finished(t) \/ (Stored(t, h) = Finished(t) + 1 /\ storer[t].batch # <<>>)
  BY Zenon DEF Stored
<1>7. \A f, b, q \in Nat : f <= f + b + q /\ f + 1 \in Nat /\ (b # 0 => f + 1 <= f + b + q)
  OBVIOUS
<1> QED
  BY <1>2, <1>3, <1>4, <1>5, <1>6, <1>7, ZenonT(60)

\* The reports that have arrived stay what they are.
ReportsStay == \A r \in 1..arrived : r \in 1..arrived' /\ results'[r] = results[r]

\* So it is in every step but the arrival of a report.
LEMMA ReportsSame ==
  ASSUME UNCHANGED reportVars
  PROVE  /\ ReportsStay /\ arrived' = arrived /\ results' = results
         /\ \A h : ReportsOn(h)' = ReportsOn(h)
BY Zenon DEF reportVars, ReportsStay, ReportsOn, Has

\* Reports that storing threads have: the step does not touch them.
SameStorage ==
  /\ queues' = queues /\ handed' = handed
  /\ \A t \in Threads : storer'[t].batch = storer[t].batch /\ storer'[t].row = storer[t].row

\* Then the storing threads' invariant and progress stay.
LEMMA StorageKept ==
  ASSUME SameStorage, ReportsStay, NEW t \in Threads
  PROVE  /\ StorerInv(t) => StorerInv(t)'
         /\ Finished(t)' = Finished(t) /\ \A h : Stored(t, h)' = Stored(t, h)
<1>1. /\ queues'[t] = queues[t] /\ handed'[t] = handed[t]
      /\ storer'[t].batch = storer[t].batch /\ storer'[t].row = storer[t].row
  BY Zenon DEF SameStorage
<1>2. Finished(t)' = Finished(t)
  BY <1>1, Zenon DEF Finished
<1>3. \A h : Stored(t, h)' = Stored(t, h)
  BY <1>1, <1>2, Zenon DEF Stored
<1>4. StorerInv(t) => StorerInv(t)'
  BY <1>1, <1>2, Zenon DEF StorerInv, ReportsStay
<1> QED
  BY <1>2, <1>3, <1>4, Zenon

\* For a host, a storing thread is where it was, or one report further that has
\* no result for the host; what it was sent it was sent.
SameFor(t, h) ==
  /\ \A i \in 1..Len(handed[t]) : i \in 1..Len(handed'[t]) /\ handed'[t][i] = handed[t][i]
  /\ \/ Stored(t, h)' = Stored(t, h)
     \/ /\ Stored(t, h)' = Stored(t, h) + 1
        /\ Stored(t, h) + 1 <= Len(handed[t]) /\ ~Has(handed[t][Stored(t, h) + 1], h)

\* A report that a storing thread was sent has the results it had.
LEMMA SentSame ==
  ASSUME Inv, ReportsStay, NEW t \in Threads, NEW h, SameFor(t, h), NEW i \in 1..Len(handed[t])
  PROVE  h <= results'[handed'[t][i]] <=> Has(handed[t][i], h)
<1>1. handed[t][i] \in 1..arrived
  BY InvParts, Zenon DEF StorerInv
<1>2. handed'[t][i] = handed[t][i]
  BY Zenon DEF SameFor
<1>3. results'[handed[t][i]] = results[handed[t][i]]
  BY <1>1, Zenon DEF ReportsStay
<1> QED
  BY <1>2, <1>3 DEF Has

\* Then a row that came from a storing thread still does.
LEMMA FromStorerKept ==
  ASSUME Inv, ReportsStay, NEW h \in Hosts, db'[h] = db[h], \A t \in Threads : SameFor(t, h),
         FromStorer(h)
  PROVE  FromStorer(h)'
<1>1. PICK t \in Threads : \E i \in 1..Len(handed[t]) :
        handed[t][i] = db[h] /\ NoneOn(h, t, i + 1, Stored(t, h))
  BY Zenon DEF FromStorer
<1>2. PICK i \in 1..Len(handed[t]) : handed[t][i] = db[h] /\ NoneOn(h, t, i + 1, Stored(t, h))
  BY <1>1, Zenon
<1>3. SameFor(t, h)
  BY Zenon
<1>4. /\ Stored(t, h) \in Nat /\ Stored(t, h) <= Len(handed[t]) /\ Len(handed[t]) \in Nat
  BY FinishedFacts, QueueTypes
<1>5. ASSUME NEW k \in (i + 1)..Stored(t, h)' PROVE ~(h <= results'[handed'[t][k]])
  <2>1. Stored(t, h)' = Stored(t, h) \/ Stored(t, h)' = Stored(t, h) + 1
    BY <1>3, Zenon DEF SameFor
  <2>2. CASE k \in (i + 1)..Stored(t, h)
    <3>1. k \in 1..Len(handed[t])
      BY <1>4, <2>2
    <3>2. ~Has(handed[t][k], h)
      BY <1>2, <2>2, Zenon DEF NoneOn
    <3> QED
      BY <1>3, <3>1, <3>2, SentSame, Zenon
  <2>3. CASE k \notin (i + 1)..Stored(t, h)
    <3>1. Stored(t, h)' # Stored(t, h) /\ k = Stored(t, h) + 1
      BY <1>4, <2>1, <2>3
    <3>2. k <= Len(handed[t]) /\ ~Has(handed[t][k], h)
      BY <1>3, <3>1, Zenon DEF SameFor
    <3>3. k \in 1..Len(handed[t])
      BY <1>4, <3>1, <3>2
    <3> QED
      BY <1>3, <3>2, <3>3, SentSame, Zenon
  <2> QED
    BY <2>2, <2>3, Zenon
<1>6. NoneOn(h, t, i + 1, Stored(t, h))'
  BY <1>5, Zenon DEF NoneOn, Has
<1>7. i \in 1..Len(handed'[t]) /\ handed'[t][i] = db'[h]
  BY <1>2, <1>3, Zenon DEF SameFor
<1> QED
  BY <1>6, <1>7, Zenon DEF FromStorer

\* That is so for all threads in a step that does not touch their reports.
LEMMA StorageSame ==
  ASSUME SameStorage, ReportsStay
  PROVE  \A t \in Threads : \A h : SameFor(t, h)
BY StorageKept, Zenon DEF SameStorage, SameFor

\* A step of the storing side leaves the workers and the index alone.
SameWorkers ==
  UNCHANGED <<started, thread_cnt, index, worker, arrived, raced>>

\* The workers' part of the invariant stays.
LEMMA WorkersKept ==
  ASSUME Inv, SameWorkers, ended # "crashed", ended' # "crashed"
  PROVE  CrashOnlyIfRaced' /\ IndexInv' /\ \A w \in Workers : WorkerInv(w)'
BY Zenon DEF Inv, SameWorkers, CrashOnlyIfRaced, IndexInv, WorkerInv, AtIndex

\* What is left with the workers depends on where they are only.
LEMMA WorkersLeftKept ==
  ASSUME NEW h, results' = results, worker' = worker
  PROVE  OwnLeft(h)' = OwnLeft(h) /\ ToSend(h)' = ToSend(h)
BY Zenon DEF OwnLeft, ToSend, Has

\* A row that is not written by the step keeps its origin.
LEMMA RowKept ==
  ASSUME NEW h, RowInv(h), worker' = worker, UNCHANGED reportVars, db'[h] = db[h],
         fails'[h] = fails[h], FromStorer(h) => FromStorer(h)'
  PROVE  RowInv(h)'
<1>1. ReportsOn(h)' = ReportsOn(h) /\ results' = results
  BY ReportsSame, Zenon
<1>2. OwnLeft(h)' = OwnLeft(h) /\ ToSend(h)' = ToSend(h)
  BY <1>1, WorkersLeftKept, Zenon
<1> QED
  BY <1>1, <1>2, Zenon DEF RowInv, FromWorker

-----------------------------------------------------------------------------
(* What is still to be tried for a host *)

\* Two sets that differ in at most one element.
LEMMA OneApart ==
  \A S, T, x : (\A v : v # x => (v \in T <=> v \in S)) =>
    /\ x \in T /\ x \notin S => T = S \cup {x}
    /\ x \notin T /\ x \in S => T = S \ {x}
    /\ (x \in T <=> x \in S) => T = S
OBVIOUS

\* A finite set with one element more.
LEMMA OneMore ==
  ASSUME NEW S, IsFiniteSet(S), NEW x, x \notin S
  PROVE  /\ IsFiniteSet(S \cup {x}) /\ Cardinality(S) \in Nat
         /\ Cardinality(S \cup {x}) = Cardinality(S) + 1
BY FS_AddElement, FS_CardinalityType, Zenon

\* And one element less.
LEMMA OneLess ==
  ASSUME NEW S, IsFiniteSet(S), NEW x, x \in S
  PROVE  /\ IsFiniteSet(S \ {x}) /\ Cardinality(S) \in Nat
         /\ Cardinality(S \ {x}) = Cardinality(S) - 1
BY FS_RemoveElement, FS_CardinalityType, Zenon

\* The ways a step changes the count.
LEMMA Balance ==
  ASSUME NEW f \in Nat, NEW a \in Nat, NEW b \in Nat, NEW c \in Nat, NEW n \in Nat,
         f + a + b + c >= 2 * n
  PROVE  /\ f + (a + 1) + (b + 1) + c >= 2 * (n + 1)
         /\ (f + 1) + (a - 1) + b + c >= 2 * n
         /\ f + a + (b - 1) + (c + 1) >= 2 * n
         /\ (f + 1) + a + b + (c - 1) >= 2 * n
OBVIOUS

\* The reports on a host are finitely many.
LEMMA ReportsFinite ==
  ASSUME Inv, NEW h
  PROVE  IsFiniteSet(ReportsOn(h)) /\ Cardinality(ReportsOn(h)) \in Nat
<1>1. arrived \in Int /\ 1 \in Int
  BY NumberTypes, Constants
<1>2. IsFiniteSet(1..arrived)
  BY <1>1, FS_Interval, Zenon
<1>3. ReportsOn(h) \subseteq 1..arrived
  BY Zenon DEF ReportsOn
<1>4. IsFiniteSet(ReportsOn(h))
  BY <1>2, <1>3, FS_Subset, Zenon
<1> QED
  BY <1>4, FS_CardinalityType, Zenon

\* Here, as long as the host has no row.
LEMMA CountBalance ==
  ASSUME Inv, ended # "crashed", NEW h \in Hosts, db[h] = 0
  PROVE  /\ fails[h] + (Cardinality(OwnLeft(h)) + 1) + (Cardinality(ToSend(h)) + 1)
              + Cardinality(QueuedLeft(h)) >= 2 * (Cardinality(ReportsOn(h)) + 1)
         /\ (fails[h] + 1) + (Cardinality(OwnLeft(h)) - 1) + Cardinality(ToSend(h))
              + Cardinality(QueuedLeft(h)) >= 2 * Cardinality(ReportsOn(h))
         /\ fails[h] + Cardinality(OwnLeft(h)) + (Cardinality(ToSend(h)) - 1)
              + (Cardinality(QueuedLeft(h)) + 1) >= 2 * Cardinality(ReportsOn(h))
         /\ (fails[h] + 1) + Cardinality(OwnLeft(h)) + Cardinality(ToSend(h))
              + (Cardinality(QueuedLeft(h)) - 1) >= 2 * Cardinality(ReportsOn(h))
<1>1. IsFiniteSet(OwnLeft(h)) /\ IsFiniteSet(ToSend(h)) /\ IsFiniteSet(QueuedLeft(h))
  BY InvParts, Zenon DEF CountInv
<1>2. fails[h] \in Nat
  BY DbTypes, Constants
<1>3. fails[h] + Cardinality(OwnLeft(h)) + Cardinality(ToSend(h)) + Cardinality(QueuedLeft(h))
        >= 2 * Cardinality(ReportsOn(h))
  BY InvParts, Zenon DEF CountInv
<1>4. /\ Cardinality(OwnLeft(h)) \in Nat /\ Cardinality(ToSend(h)) \in Nat
      /\ Cardinality(QueuedLeft(h)) \in Nat /\ Cardinality(ReportsOn(h)) \in Nat
  BY <1>1, ReportsFinite, FS_CardinalityType, Zenon
<1> QED
  BY <1>2, <1>3, <1>4, Balance, Zenon

\* A step that tries nothing for the host.
LEMMA CountKept ==
  ASSUME NEW h, CountInv(h), OwnLeft(h)' = OwnLeft(h), ToSend(h)' = ToSend(h),
         QueuedLeft(h)' = QueuedLeft(h), db'[h] = db[h], fails'[h] = fails[h],
         ReportsOn(h)' = ReportsOn(h)
  PROVE  CountInv(h)'
BY Zenon DEF CountInv

\* The pairs of a thread and one of the numbers that a function gives for it.
Pairs(J) == UNION {{t} \X J[t] : t \in Threads}

\* What is in them.
LEMMA InPairs ==
  ASSUME NEW J
  PROVE  /\ \A x \in Pairs(J) : \E t \in Threads : \E i \in J[t] : x = <<t, i>>
         /\ \A t \in Threads : \A i : <<t, i>> \in Pairs(J) <=> i \in J[t]
<1>1. \A x : x \in Pairs(J) <=> \E t \in Threads : x \in {t} \X J[t]
  BY Zenon DEF Pairs
<1>2. \A t \in Threads : \A x : x \in {t} \X J[t] <=> \E i \in J[t] : x = <<t, i>>
  OBVIOUS
<1>3. \A t, i, u, j : <<t, i>> = <<u, j>> => t = u /\ i = j
  BY Zenon
<1>4. \A x \in Pairs(J) : \E t \in Threads : \E i \in J[t] : x = <<t, i>>
  BY <1>1, <1>2
<1>5. ASSUME NEW t \in Threads, NEW i, <<t, i>> \in Pairs(J)
      PROVE  i \in J[t]
  <2>1. PICK u \in Threads : \E j \in J[u] : <<t, i>> = <<u, j>>
    BY <1>4, <1>5, Zenon
  <2> QED
    BY <1>3, <2>1, Zenon
<1>6. ASSUME NEW t \in Threads, NEW i \in J[t]
      PROVE  <<t, i>> \in Pairs(J)
  BY <1>1, <1>2, Zenon
<1> QED
  BY <1>4, <1>5, <1>6, Zenon

\* One number more for one thread is one pair more.
LEMMA OnePairMore ==
  ASSUME NEW J, NEW K, NEW u \in Threads, NEW j, j \notin J[u], K[u] = J[u] \cup {j},
         \A t \in Threads : t # u => K[t] = J[t]
  PROVE  Pairs(K) = Pairs(J) \cup {<<u, j>>} /\ <<u, j>> \notin Pairs(J)
<1>1. /\ \A x \in Pairs(J) : \E t \in Threads : \E i \in J[t] : x = <<t, i>>
      /\ \A t \in Threads : \A i : <<t, i>> \in Pairs(J) <=> i \in J[t]
  BY InPairs, Zenon
<1>2. /\ \A x \in Pairs(K) : \E t \in Threads : \E i \in K[t] : x = <<t, i>>
      /\ \A t \in Threads : \A i : <<t, i>> \in Pairs(K) <=> i \in K[t]
  BY InPairs, Zenon
<1>3. <<u, j>> \notin Pairs(J) /\ <<u, j>> \in Pairs(K)
  BY <1>1, <1>2, Zenon
<1>4. ASSUME NEW x \in Pairs(J) PROVE x \in Pairs(K)
  <2>1. PICK t \in Threads : \E i \in J[t] : x = <<t, i>>
    BY <1>1, Zenon
  <2>2. PICK i \in J[t] : x = <<t, i>>
    BY <2>1, Zenon
  <2>3. i \in K[t]
    BY Zenon
  <2> QED
    BY <1>2, <2>2, <2>3, Zenon
<1>5. ASSUME NEW x \in Pairs(K) PROVE x \in Pairs(J) \/ x = <<u, j>>
  <2>1. PICK t \in Threads : \E i \in K[t] : x = <<t, i>>
    BY <1>2, Zenon
  <2>2. PICK i \in K[t] : x = <<t, i>>
    BY <2>1, Zenon
  <2>3. i \in J[t] \/ (t = u /\ i = j)
    BY Zenon
  <2> QED
    BY <1>1, <2>2, <2>3, Zenon
<1> QED
  BY <1>3, <1>4, <1>5, Zenon

\* The pairs of the reports sent that are not stored.
LEMMA QueuedPairs ==
  ASSUME NEW h
  PROVE  /\ QueuedLeft(h) = Pairs([t \in Threads |-> Unstored(t, h)])
         /\ QueuedLeft(h)' = Pairs([t \in Threads |-> Unstored(t, h)'])
BY Zenon DEF QueuedLeft, Pairs

\* What a thread has yet to store for a host, when nothing is sent to it.
LEMMA UnstoredKept ==
  ASSUME Inv, ReportsStay, NEW t \in Threads, NEW h \in Hosts, SameFor(t, h), handed' = handed
  PROVE  Unstored(t, h)' = Unstored(t, h)
<1>1. /\ Stored(t, h) \in Nat /\ Len(handed[t]) \in Nat
  BY FinishedFacts, QueueTypes
<1>2. \A i : i \in Unstored(t, h)' <=>
        i \in (Stored(t, h)' + 1)..Len(handed[t]) /\ h <= results'[handed'[t][i]]
  BY Zenon DEF Unstored, Has
<1>3. \A i : i \in Unstored(t, h) <=>
        i \in (Stored(t, h) + 1)..Len(handed[t]) /\ Has(handed[t][i], h)
  BY Zenon DEF Unstored
<1>4. \A i \in 1..Len(handed[t]) : h <= results'[handed'[t][i]] <=> Has(handed[t][i], h)
  BY SentSame, Zenon
<1>5. CASE Stored(t, h)' = Stored(t, h)
  <2>1. \A i \in (Stored(t, h) + 1)..Len(handed[t]) : i \in 1..Len(handed[t])
    BY <1>1
  <2>2. \A i : i \in Unstored(t, h)' <=> i \in Unstored(t, h)
    BY <1>2, <1>3, <1>4, <1>5, <2>1, Zenon
  <2> QED
    BY <2>2, Zenon
<1>6. CASE Stored(t, h)' # Stored(t, h)
  <2> DEFINE n == Stored(t, h)
  <2>1. Stored(t, h)' = n + 1 /\ ~Has(handed[t][n + 1], h)
    BY <1>6, Zenon DEF SameFor
  <2>2. \A i : i \in ((n + 1) + 1)..Len(handed[t]) <=> i \in (n + 1)..Len(handed[t]) /\ i # n + 1
    <3> HIDE DEF n
    <3> QED
      BY <1>1 DEF n
  <2>3. \A i \in (n + 1)..Len(handed[t]) : i \in 1..Len(handed[t])
    BY <1>1
  <2>4. \A i : i \in Unstored(t, h)' <=> i \in Unstored(t, h)
    BY <1>2, <1>3, <1>4, <2>1, <2>2, <2>3, Zenon
  <2> QED
    BY <2>4, Zenon
<1> QED
  BY <1>5, <1>6, Zenon

\* So for all threads.
LEMMA QueuedKept ==
  ASSUME Inv, ReportsStay, NEW h \in Hosts, handed' = handed, \A t \in Threads : SameFor(t, h)
  PROVE  QueuedLeft(h)' = QueuedLeft(h)
<1>1. \A t \in Threads : Unstored(t, h)' = Unstored(t, h)
  BY UnstoredKept, Zenon
<1>2. \A t \in Threads : {t} \X Unstored(t, h)' = {t} \X Unstored(t, h)
  BY <1>1, Zenon
<1> QED
  BY <1>2, Zenon DEF QueuedLeft

\* A step that leaves the reports and the rows where they are.
LEMMA StorageCountKept ==
  ASSUME Inv, NEW h \in Hosts, CountInv(h), SameStorage, UNCHANGED <<worker, reportVars, db, fails>>
  PROVE  CountInv(h)'
<1>1. ReportsStay /\ results' = results /\ ReportsOn(h)' = ReportsOn(h)
  BY ReportsSame, Zenon
<1>2. OwnLeft(h)' = OwnLeft(h) /\ ToSend(h)' = ToSend(h)
  BY <1>1, WorkersLeftKept, Zenon
<1>3. QueuedLeft(h)' = QueuedLeft(h)
  BY <1>1, StorageSame, QueuedKept, Zenon DEF SameStorage
<1> QED
  BY <1>1, <1>2, <1>3, CountKept, Zenon

-----------------------------------------------------------------------------
(* get_report_status *)

\* A report arrives; the program ends if MySQL takes no more connections.
LEMMA RequestStep ==
  ASSUME Inv, NEW w \in Workers, Request(w)
  PROVE  Inv'
<1> DEFINE r == [pc |-> "store", rep |-> arrived + 1, row |-> 1, reg |-> 0]
<1>1. /\ started /\ ended = "no" /\ worker[w].pc = "idle" /\ arrived < MaxReports
      /\ arrived' = arrived + 1 /\ worker' = [worker EXCEPT ![w] = r]
      /\ UNCHANGED <<conf, started, thread_cnt, index, queues, storer, dbVars, handed, done, raced>>
  BY Zenon DEF Request, Running
<1>2. \/ conns < DbLimit /\ conns' = conns + 1 /\ ended' = "no"
      \/ conns' = conns /\ ended' = "exited"
  BY <1>1, Zenon DEF Request, Connect, CanConnect
<1>3. arrived' \in 0..MaxReports /\ arrived' # 0 /\ conns' \in 0..DbLimit /\ r \in WorkerState
  BY <1>1, <1>2, NumberTypes, Constants DEF WorkerState
<1>4. /\ worker' \in [Workers -> WorkerState] /\ worker'[w] = r
      /\ \A v \in Workers : v # w => worker'[v] = worker[v]
  BY <1>1, <1>3, SetWorker, Zenon
<1>5. /\ ended' \in {"no", "exited"} /\ worker'[w].pc = "store" /\ worker'[w].rep = arrived'
      /\ worker'[w].row = 1
  BY <1>1, <1>2, <1>4, Zenon
<1> HIDE DEF r
<1>6. PICK n \in 0..HostCnt : results' = Append(results, n)
  BY Zenon DEF Request
<1>7. /\ results' \in Seq(0..HostCnt) /\ Len(results') = arrived'
      /\ results'[arrived'] = n /\ \A i \in 1..arrived : results'[i] = results[i]
  BY <1>1, <1>6, ResultTypes, NumberTypes, Constants
<1>8. /\ arrived' \in 1..arrived' /\ arrived' \notin 1..arrived
      /\ \A i : i \in 1..arrived' <=> i \in 1..arrived \/ i = arrived'
  BY <1>1, NumberTypes, Constants
<1>9. ReportsStay
  BY <1>7, <1>8, Zenon DEF ReportsStay
<1>10. TypeOK'
  BY <1>1, <1>3, <1>4, <1>5, <1>7, Zenon DEF Inv, TypeOK, dbVars
<1>11. CrashOnlyIfRaced'
  BY <1>5, Zenon DEF CrashOnlyIfRaced
<1>12. IndexInv'
  BY <1>1, <1>4, <1>5, InvParts, Zenon DEF IndexInv, AtIndex
<1>13. 1 \in Hosts /\ \A h \in Hosts : 1 <= h
  BY Constants DEF Hosts
<1>14. \A v \in Workers : WorkerInv(v)'
  BY <1>1, <1>4, <1>5, <1>8, <1>13, InvParts, Zenon DEF WorkerInv
<1>15. SameStorage
  BY <1>1, Zenon DEF SameStorage
<1>16. \A v \in Workers : worker[v].pc # "idle" =>
         v # w /\ \A h : h <= results'[worker'[v].rep] <=> h <= results[worker[v].rep]
  <2> TAKE v \in Workers
  <2> HAVE worker[v].pc # "idle"
  <2>1. v # w /\ worker[v].rep \in 1..arrived
    BY <1>1, InvParts, Zenon DEF WorkerInv
  <2>2. results'[worker'[v].rep] = results[worker[v].rep]
    BY <1>4, <1>7, <2>1, Zenon
  <2> QED
    BY <2>1, <2>2, Zenon
<1>17. ASSUME NEW h \in Hosts
       PROVE  /\ h <= n => OwnLeft(h)' = OwnLeft(h) \cup {w} /\ ToSend(h)' = ToSend(h) \cup {w}
              /\ ~(h <= n) => OwnLeft(h)' = OwnLeft(h) /\ ToSend(h)' = ToSend(h)
              /\ w \notin OwnLeft(h) /\ w \notin ToSend(h)
  <2>1. \A v : v \in OwnLeft(h) <=>
          v \in Workers /\ worker[v].pc = "store" /\ worker[v].row <= h /\ h <= results[worker[v].rep]
    BY Zenon DEF OwnLeft, Has
  <2>2. \A v : v \in OwnLeft(h)' <=>
          v \in Workers /\ worker'[v].pc = "store" /\ worker'[v].row <= h /\ h <= results'[worker'[v].rep]
    BY Zenon DEF OwnLeft, Has
  <2>3. \A v : v \in ToSend(h) <=>
          v \in Workers /\ worker[v].pc \in {"store", "send"} /\ h <= results[worker[v].rep]
    BY Zenon DEF ToSend, Has
  <2>4. \A v : v \in ToSend(h)' <=>
          v \in Workers /\ worker'[v].pc \in {"store", "send"} /\ h <= results'[worker'[v].rep]
    BY Zenon DEF ToSend, Has
  <2>5. w \notin OwnLeft(h) /\ w \notin ToSend(h)
    BY <1>1, <2>1, <2>3, Zenon
  <2>6. (w \in OwnLeft(h)' <=> h <= n) /\ (w \in ToSend(h)' <=> h <= n)
    BY <1>5, <1>7, <1>13, <2>2, <2>4, Zenon
  <2>7. \A v : v # w => (v \in OwnLeft(h)' <=> v \in OwnLeft(h))
    BY <1>4, <1>16, <2>1, <2>2, ZenonT(60)
  <2>8. \A v : v # w => (v \in ToSend(h)' <=> v \in ToSend(h))
    BY <1>4, <1>16, <2>3, <2>4, Zenon
  <2>9. (h <= n => OwnLeft(h)' = OwnLeft(h) \cup {w}) /\ (~(h <= n) => OwnLeft(h)' = OwnLeft(h))
    BY <2>5, <2>6, <2>7, OneApart
  <2>10. (h <= n => ToSend(h)' = ToSend(h) \cup {w}) /\ (~(h <= n) => ToSend(h)' = ToSend(h))
    BY <2>5, <2>6, <2>8, OneApart
  <2> QED
    BY <2>5, <2>9, <2>10, Zenon
<1>18. ASSUME NEW h \in Hosts
       PROVE  /\ h <= n => ReportsOn(h)' = ReportsOn(h) \cup {arrived'}
              /\ ~(h <= n) => ReportsOn(h)' = ReportsOn(h)
              /\ arrived' \notin ReportsOn(h)
  <2>1. \A i : i \in ReportsOn(h) <=> i \in 1..arrived /\ h <= results[i]
    BY Zenon DEF ReportsOn, Has
  <2>2. \A i : i \in ReportsOn(h)' <=> i \in 1..arrived' /\ h <= results'[i]
    BY Zenon DEF ReportsOn, Has
  <2>3. arrived' \notin ReportsOn(h) /\ (arrived' \in ReportsOn(h)' <=> h <= n)
    BY <1>7, <1>8, <2>1, <2>2, Zenon
  <2>4. \A i : i # arrived' => (i \in ReportsOn(h)' <=> i \in ReportsOn(h))
    BY <1>7, <1>8, <2>1, <2>2, Zenon
  <2> QED
    BY <2>3, <2>4, OneApart
<1>19. ASSUME NEW h \in Hosts PROVE RowInv(h)'
  <2>1. RowInv(h) /\ db'[h] = db[h] /\ fails'[h] = fails[h]
    BY <1>1, InvParts, Zenon DEF dbVars
  <2>2. FromWorker(h) => FromWorker(h)'
    <3>1. \A v \in ToSend(h) : v \in ToSend(h)' /\ worker'[v].rep = worker[v].rep
      BY <1>4, <1>17, Zenon DEF ToSend
    <3> QED
      BY <2>1, <3>1, Zenon DEF FromWorker
  <2>3. FromStorer(h) => FromStorer(h)'
    BY <1>9, <1>15, <2>1, StorageSame, FromStorerKept, Zenon
  <2>4. db[h] # 0 => db[h] \in ReportsOn(h)'
    BY <1>18, <2>1, Zenon DEF RowInv
  <2>5. fails[h] = 0 /\ db[h] = 0 /\ ReportsOn(h)' # {} => OwnLeft(h)' # {}
    BY <1>17, <1>18, <2>1, Zenon DEF RowInv
  <2> QED
    BY <2>1, <2>2, <2>3, <2>4, <2>5, Zenon DEF RowInv
<1>20. ASSUME NEW h \in Hosts PROVE CountInv(h)'
  <2>1. QueuedLeft(h)' = QueuedLeft(h) /\ db'[h] = db[h] /\ fails'[h] = fails[h]
    BY <1>1, <1>9, <1>15, StorageSame, QueuedKept, Zenon DEF dbVars
  <2>2. CountInv(h)
    BY <1>1, InvParts, Zenon
  <2>3. CASE h <= n
    <3>1. /\ IsFiniteSet(OwnLeft(h)) /\ OwnLeft(h)' = OwnLeft(h) \cup {w} /\ w \notin OwnLeft(h)
          /\ IsFiniteSet(ToSend(h)) /\ ToSend(h)' = ToSend(h) \cup {w} /\ w \notin ToSend(h)
      BY <1>17, <2>2, <2>3, Zenon DEF CountInv
    <3>2. IsFiniteSet(OwnLeft(h)') /\ Cardinality(OwnLeft(h)') = Cardinality(OwnLeft(h)) + 1
      BY <3>1, OneMore, ZenonT(60)
    <3>3. IsFiniteSet(ToSend(h)') /\ Cardinality(ToSend(h)') = Cardinality(ToSend(h)) + 1
      BY <3>1, OneMore, ZenonT(60)
    <3>4. Cardinality(ReportsOn(h)') = Cardinality(ReportsOn(h)) + 1
      BY <1>18, <2>3, ReportsFinite, OneMore, Zenon
    <3>5. db[h] = 0 =>
            fails[h] + (Cardinality(OwnLeft(h)) + 1) + (Cardinality(ToSend(h)) + 1)
              + Cardinality(QueuedLeft(h)) >= 2 * (Cardinality(ReportsOn(h)) + 1)
      BY <1>1, CountBalance, Zenon
    <3> QED
      BY <2>1, <2>2, <3>2, <3>3, <3>4, <3>5, Zenon DEF CountInv
  <2>4. CASE ~(h <= n)
    BY <1>17, <1>18, <2>1, <2>2, <2>4, CountKept, Zenon
  <2> QED
    BY <2>3, <2>4, Zenon
<1> QED
  BY <1>9, <1>10, <1>11, <1>12, <1>14, <1>15, <1>19, <1>20, StorageKept, InvParts, Zenon DEF Inv

\* A query for one row: it writes that row only, or counts as failed.  Without a
\* result there is no query.
LEMMA StoreRowFacts ==
  ASSUME Inv, NEW rep \in 1..MaxReports, NEW k \in Hosts, NEW ok \in BOOLEAN, StoreRow(rep, k, ok)
  PROVE  /\ db' \in [Hosts -> 0..MaxReports] /\ fails' \in [Hosts -> 0..MaxFails]
         /\ \A h \in Hosts : h # k \/ ~Has(rep, k) => db'[h] = db[h] /\ fails'[h] = fails[h]
         /\ Has(rep, k) => /\ fails'[k] = 0 => db'[k] = rep
                           /\ db'[k] = 0 => db[k] = 0 /\ fails'[k] = fails[k] + 1
                           /\ db'[k] \in {db[k], rep}
<1>1. CASE ~Has(rep, k)
  <2>1. db' = db /\ fails' = fails
    BY <1>1, Zenon DEF StoreRow, dbVars
  <2> QED
    BY <1>1, <2>1, DbTypes, Zenon
<1>2. CASE Has(rep, k) /\ ok
  <2>1. db' = [db EXCEPT ![k] = rep] /\ fails' = fails
    BY <1>2, Zenon DEF StoreRow
  <2> QED
    BY <1>2, <2>1, DbTypes, Constants
<1>3. CASE Has(rep, k) /\ ~ok
  <2>1. fails[k] < MaxFails /\ fails' = [fails EXCEPT ![k] = fails[k] + 1] /\ db' = db
    BY <1>3, Zenon DEF StoreRow
  <2>2. fails[k] + 1 \in 0..MaxFails /\ fails[k] + 1 # 0
    BY <2>1, DbTypes, Constants
  <2> QED
    BY <1>3, <2>1, <2>2, DbTypes, Zenon
<1> QED
  BY <1>1, <1>2, <1>3, Zenon

\* The worker's own store of one row.
LEMMA StoreOwnStep ==
  ASSUME Inv, NEW w \in Workers, NEW ok \in BOOLEAN, StoreOwn(w, ok)
  PROVE  Inv'
<1> DEFINE k == worker[w].row
           rep == worker[w].rep
           z == results[rep]
           p == IF k + 1 > z THEN "send" ELSE "store"
           r == [pc |-> p, rep |-> rep, row |-> k + 1, reg |-> worker[w].reg]
<1>1. /\ started /\ ended = "no" /\ worker[w].pc = "store"
      /\ UNCHANGED <<conf, started, thread_cnt, index, queues, storer, conns, reportVars, ended,
                     handed, done, raced>>
      /\ StoreRow(rep, k, ok)
  BY Zenon DEF StoreOwn, Running
<1>2. worker[w] \in WorkerState /\ k \in Hosts /\ rep \in 1..arrived
  BY <1>1, InvParts, ThreadTypes, Zenon DEF WorkerInv
<1>3. /\ rep \in 1..MaxReports /\ k \in Nat /\ k <= HostCnt /\ worker[w].reg \in Nat
      /\ z \in 0..HostCnt /\ rep # 0
      /\ worker[w] = [pc |-> "store", rep |-> rep, row |-> k, reg |-> worker[w].reg]
  <2>1. z \in 0..HostCnt
    BY <1>2, ResultOf, Zenon
  <2> QED
    BY <1>1, <1>2, <2>1, WorkerFields, NumberTypes, Constants DEF Hosts
<1>4. worker' = [worker EXCEPT ![w] = r]
  <2>1. worker' = [worker EXCEPT ![w].row = k + 1, ![w].pc = IF k + 1 > z THEN "send" ELSE @]
    BY Zenon DEF StoreOwn, NextRow
  <2> QED
    <3> HIDE DEF z, k
    <3>1. worker' = [worker EXCEPT ![w] = [pc |-> IF k + 1 > z THEN "send" ELSE worker[w].pc,
                                           rep |-> rep, row |-> k + 1, reg |-> worker[w].reg]]
      BY <2>1, SetRow, Zenon
    <3> QED
      BY <1>1, <3>1, Zenon
<1>5. r \in WorkerState
  BY <1>3, Constants DEF WorkerState
<1>6. /\ worker' \in [Workers -> WorkerState] /\ worker'[w] = r
      /\ \A v \in Workers : v # w => worker'[v] = worker[v]
  BY <1>4, <1>5, SetWorker, Zenon
<1>7. /\ worker'[w].pc \in {"store", "send"} /\ worker'[w].rep = rep /\ worker'[w].row = k + 1
      /\ (worker'[w].pc = "store" <=> k + 1 <= z)
  BY <1>3, <1>6, Constants
<1> HIDE DEF r, p, z
<1>8. /\ db' \in [Hosts -> 0..MaxReports] /\ fails' \in [Hosts -> 0..MaxFails]
      /\ \A h \in Hosts : h # k \/ ~Has(rep, k) => db'[h] = db[h] /\ fails'[h] = fails[h]
      /\ Has(rep, k) => /\ fails'[k] = 0 => db'[k] = rep
                        /\ db'[k] = 0 => db[k] = 0 /\ fails'[k] = fails[k] + 1
                        /\ db'[k] \in {db[k], rep}
  <2> HIDE DEF k, rep
  <2> QED
    BY <1>1, <1>2, <1>3, StoreRowFacts, ZenonT(60)
<1>9. ReportsStay /\ arrived' = arrived /\ results' = results /\ \A h : ReportsOn(h)' = ReportsOn(h)
  BY <1>1, ReportsSame, Zenon
<1>10. TypeOK'
  BY <1>1, <1>6, <1>8, <1>9, Zenon DEF Inv, TypeOK
<1>11. CrashOnlyIfRaced'
  BY <1>1, Zenon DEF CrashOnlyIfRaced
<1>12. IndexInv'
  BY <1>1, <1>6, <1>7, InvParts, Zenon DEF IndexInv, AtIndex
<1>13. \A v \in Workers : WorkerInv(v)'
  <2>1. k + 1 <= z => k + 1 \in Hosts
    BY <1>3, Constants DEF Hosts
  <2> QED
    BY <1>1, <1>2, <1>6, <1>7, <1>9, <2>1, InvParts, Zenon DEF WorkerInv
<1>14. SameStorage
  BY <1>1, Zenon DEF SameStorage
<1>15. ASSUME NEW h \in Hosts PROVE ToSend(h)' = ToSend(h)
  BY <1>1, <1>6, <1>7, <1>9, Zenon DEF ToSend, Has
<1>16. ASSUME NEW h \in Hosts, h # k \/ ~Has(rep, k) PROVE OwnLeft(h)' = OwnLeft(h)
  <2>1. h <= z => (k <= h <=> k + 1 <= h /\ k + 1 <= z)
    <3>1. Has(rep, k) <=> k <= z
      BY Zenon DEF Has, z
    <3> QED
      BY <1>3, <1>16, <3>1, Constants DEF Hosts
  <2>2. \A v : v \in OwnLeft(h) <=>
          v \in Workers /\ worker[v].pc = "store" /\ worker[v].row <= h /\ h <= results[worker[v].rep]
    BY Zenon DEF OwnLeft, Has
  <2>3. \A v : v \in OwnLeft(h)' <=>
          v \in Workers /\ worker'[v].pc = "store" /\ worker'[v].row <= h /\ h <= results[worker'[v].rep]
    BY <1>9, Zenon DEF OwnLeft, Has
  <2>4. w \in OwnLeft(h)' <=> w \in OwnLeft(h)
    BY <1>1, <1>7, <2>1, <2>2, <2>3, Zenon DEF z
  <2>5. \A v : v # w => (v \in OwnLeft(h)' <=> v \in OwnLeft(h))
    BY <1>6, <2>2, <2>3, Zenon
  <2> QED
    BY <2>4, <2>5, OneApart
<1>17. ASSUME NEW h \in Hosts PROVE RowInv(h)'
  <2>1. RowInv(h)
    BY <1>1, InvParts, Zenon
  <2>2. CASE h = k /\ Has(rep, k)
    <3>1. rep \in ReportsOn(h) /\ w \in ToSend(h)
      BY <1>1, <1>2, <2>2, Zenon DEF ReportsOn, ToSend
    <3>2. db'[h] # 0 => db'[h] \in ReportsOn(h)'
      BY <1>8, <1>9, <2>1, <2>2, <3>1, Zenon DEF RowInv
    <3>3. fails'[h] = 0 => db'[h] = rep /\ FromWorker(h)'
      BY <1>7, <1>8, <1>15, <2>2, <3>1, Zenon DEF FromWorker
    <3> QED
      BY <1>3, <3>2, <3>3, Zenon DEF RowInv
  <2>3. CASE ~(h = k /\ Has(rep, k))
    <3>1. db'[h] = db[h] /\ fails'[h] = fails[h] /\ OwnLeft(h)' = OwnLeft(h)
      BY <1>8, <1>16, <2>3, Zenon
    <3>2. FromWorker(h) => FromWorker(h)'
      BY <1>6, <1>7, <1>15, <3>1, Zenon DEF FromWorker, ToSend
    <3>3. FromStorer(h) => FromStorer(h)'
      BY <1>9, <1>14, <3>1, StorageSame, FromStorerKept, Zenon
    <3> QED
      BY <1>9, <2>1, <3>1, <3>2, <3>3, Zenon DEF RowInv
  <2> QED
    BY <2>2, <2>3, Zenon
<1>18. ASSUME NEW h \in Hosts PROVE CountInv(h)'
  <2>1. ToSend(h)' = ToSend(h) /\ ReportsOn(h)' = ReportsOn(h)
    BY <1>9, <1>15, Zenon
  <2>2. QueuedLeft(h)' = QueuedLeft(h)
    BY <1>9, <1>14, StorageSame, QueuedKept, Zenon DEF SameStorage
  <2>3. CountInv(h)
    BY <1>1, InvParts, Zenon
  <2>4. CASE h = k /\ Has(rep, k)
    <3>1. OwnLeft(h)' = OwnLeft(h) \ {w} /\ w \in OwnLeft(h)
      <4>1. k <= k /\ ~(k + 1 <= k)
        BY <1>3
      <4> QED
        BY <1>1, <1>6, <1>7, <1>9, <2>4, <4>1, Zenon DEF OwnLeft, Has
    <3>2. IsFiniteSet(OwnLeft(h)') /\ Cardinality(OwnLeft(h)') = Cardinality(OwnLeft(h)) - 1
      BY <2>3, <3>1, OneLess, Zenon DEF CountInv
    <3>3. db[h] = 0 =>
            (fails[h] + 1) + (Cardinality(OwnLeft(h)) - 1) + Cardinality(ToSend(h))
              + Cardinality(QueuedLeft(h)) >= 2 * Cardinality(ReportsOn(h))
      BY <1>1, CountBalance, Zenon
    <3> QED
      BY <1>8, <2>1, <2>2, <2>3, <2>4, <3>2, <3>3, Zenon DEF CountInv
  <2>5. CASE ~(h = k /\ Has(rep, k))
    BY <1>8, <1>16, <2>1, <2>2, <2>3, <2>5, CountKept, Zenon
  <2> QED
    BY <2>4, <2>5, Zenon
<1> QED
  BY <1>9, <1>10, <1>11, <1>12, <1>13, <1>14, <1>17, <1>18, StorageKept, InvParts, Zenon DEF Inv

-----------------------------------------------------------------------------
(* The index *)

\* A worker goes on and keeps its report.
LEMMA SetPc ==
  ASSUME Inv, NEW w \in Workers, NEW p \in {"idle", "store", "send", "load", "add", "mod", "wrap"},
         Goto(w, p)
  PROVE  /\ worker' \in [Workers -> WorkerState]
         /\ worker'[w].pc = p /\ worker'[w].rep = worker[w].rep
         /\ \A v \in Workers : v # w => worker'[v] = worker[v]
<1> DEFINE r == [pc |-> p, rep |-> worker[w].rep, row |-> worker[w].row, reg |-> worker[w].reg]
<1>1. worker[w] \in WorkerState
  BY ThreadTypes, Zenon
<1>2. [worker[w] EXCEPT !.pc = p] = r
  BY <1>1 DEF WorkerState
<1>3. r \in WorkerState /\ r.pc = p /\ r.rep = worker[w].rep
  BY <1>1, Zenon DEF WorkerState
<1> HIDE DEF r
<1>4. worker' = [worker EXCEPT ![w] = r]
  BY <1>2, Zenon DEF Goto
<1> QED
  BY <1>3, <1>4, SetWorker, Zenon

\* What Append does to a queue.
LEMMA AppendFacts ==
  ASSUME NEW s \in Seq(1..MaxReports), NEW e \in 1..MaxReports
  PROVE  /\ Append(s, e) \in Seq(1..MaxReports) /\ Len(Append(s, e)) = Len(s) + 1
         /\ Len(s) \in Nat
         /\ \A i \in 1..Len(s) : Append(s, e)[i] = s[i]
         /\ Append(s, e)[Len(s) + 1] = e
OBVIOUS

\* One more report in a thread's queue: what it has finished and stored stays.
LEMMA HandedOn ==
  ASSUME Inv, NEW t \in Threads, NEW e \in 1..MaxReports, e \in 1..arrived, arrived' = arrived,
         storer' = storer,
         queues' = [queues EXCEPT ![t] = Append(@, e)], handed' = [handed EXCEPT ![t] = Append(@, e)]
  PROVE  /\ queues' \in [Threads -> Seq(1..MaxReports)] /\ handed' \in [Threads -> Seq(1..MaxReports)]
         /\ \A u \in Threads : StorerInv(u)' /\ \A h : Stored(u, h)' = Stored(u, h)
         /\ \A u \in Threads : \A i \in 1..Len(handed[u]) :
              i \in 1..Len(handed'[u]) /\ handed'[u][i] = handed[u][i]
         /\ Len(handed[t]) + 1 \in 1..Len(handed'[t]) /\ handed'[t][Len(handed[t]) + 1] = e
<1> DEFINE q == queues[t]
           s == handed[t]
           b == storer[t].batch
           n == Finished(t)
<1>1. q \in Seq(1..MaxReports) /\ s \in Seq(1..MaxReports)
  BY QueueTypes, Zenon
<1>2. /\ queues'[t] = Append(q, e) /\ handed'[t] = Append(s, e)
      /\ \A u \in Threads : u # t => queues'[u] = queues[u] /\ handed'[u] = handed[u]
  BY QueueTypes, Zenon
<1>3. /\ queues' \in [Threads -> Seq(1..MaxReports)] /\ handed' \in [Threads -> Seq(1..MaxReports)]
  BY <1>1, AppendFacts, QueueTypes, Zenon
<1>4. /\ Len(queues'[t]) = Len(q) + 1 /\ queues'[t][Len(q) + 1] = e
      /\ \A i \in 1..Len(q) : queues'[t][i] = q[i]
      /\ Len(handed'[t]) = Len(s) + 1 /\ handed'[t][Len(s) + 1] = e
      /\ \A i \in 1..Len(s) : handed'[t][i] = s[i]
  <2>1. /\ Len(Append(q, e)) = Len(q) + 1 /\ Append(q, e)[Len(q) + 1] = e
        /\ \A i \in 1..Len(q) : Append(q, e)[i] = q[i]
    BY <1>1, AppendFacts, Zenon
  <2>2. /\ Len(Append(s, e)) = Len(s) + 1 /\ Append(s, e)[Len(s) + 1] = e
        /\ \A i \in 1..Len(s) : Append(s, e)[i] = s[i]
    BY <1>1, AppendFacts, Zenon
  <2> QED
    BY <1>2, <2>1, <2>2, Zenon
<1>5. n \in Nat /\ Len(b) \in Nat /\ Len(q) \in Nat /\ Len(s) = n + Len(b) + Len(q)
  BY FinishedFacts, Constants DEF Hosts
<1>6. Finished(t)' = n
  <2>1. n = Len(s) - Len(b) - Len(q)
    BY Zenon DEF Finished
  <2>2. Finished(t)' = (Len(s) + 1) - Len(b) - (Len(q) + 1)
    BY <1>4, Zenon DEF Finished
  <2> HIDE DEF n, s, b, q
  <2> QED
    BY <1>5, <2>1, <2>2
<1>7. /\ b = <<>> => storer[t].row = 1
      /\ \A i \in 1..Len(b) : b[i] = s[n + i]
      /\ \A i \in 1..Len(q) : q[i] = s[n + Len(b) + i]
  BY InvParts, Zenon DEF StorerInv
<1> HIDE DEF n, s, b, q
<1>8. StorerInv(t)'
  <2>1. \A i \in 1..Len(b) : b[i] = handed'[t][n + i]
    <3>1. \A i \in 1..Len(b) : n + i \in 1..Len(s)
      BY <1>5
    <3> QED
      BY <1>4, <1>7, <3>1, Zenon
  <2>2. \A i \in 1..Len(queues'[t]) : queues'[t][i] = handed'[t][n + Len(b) + i]
    <3> TAKE i \in 1..Len(queues'[t])
    <3>1. CASE i \in 1..Len(q)
      <4>1. n + Len(b) + i \in 1..Len(s)
        BY <1>5, <3>1
      <4> QED
        BY <1>4, <1>7, <3>1, <4>1, Zenon
    <3>2. CASE i \notin 1..Len(q)
      <4>1. i = Len(q) + 1 /\ n + Len(b) + i = Len(s) + 1
        BY <1>4, <1>5, <3>2
      <4> QED
        BY <1>4, <4>1, Zenon
    <3> QED
      BY <3>1, <3>2, Zenon
  <2>3. \A i \in 1..Len(handed'[t]) : handed'[t][i] \in 1..arrived
    <3>1. \A i \in 1..Len(handed'[t]) : i \in 1..Len(s) \/ i = Len(s) + 1
      BY <1>4, <1>5
    <3>2. \A i \in 1..Len(s) : s[i] \in 1..arrived
      BY InvParts, Zenon DEF StorerInv, s
    <3> QED
      BY <1>4, <3>1, <3>2, Zenon
  <2> QED
    BY <1>5, <1>6, <1>7, <2>1, <2>2, <2>3, Zenon DEF StorerInv, b
<1>9. \A h : Stored(t, h)' = Stored(t, h)
  BY <1>6, Zenon DEF Stored, n
<1>10. ASSUME NEW u \in Threads, u # t
       PROVE  StorerInv(u)' /\ \A h : Stored(u, h)' = Stored(u, h)
  <2>1. Finished(u)' = Finished(u)
    BY <1>2, <1>10, Zenon DEF Finished
  <2>2. queues'[u] = queues[u] /\ handed'[u] = handed[u] /\ StorerInv(u)
    BY <1>2, <1>10, InvParts, Zenon
  <2>3. StorerInv(u)'
    BY <2>1, <2>2, Zenon DEF StorerInv
  <2>4. \A h : Stored(u, h)' = Stored(u, h)
    BY <2>1, Zenon DEF Stored
  <2> QED
    BY <2>3, <2>4, Zenon
<1>11. \A i \in 1..Len(s) : i \in 1..Len(handed'[t])
  BY <1>4, <1>5
<1>12. Len(s) + 1 \in 1..Len(handed'[t])
  BY <1>4, <1>5
<1> QED
  BY <1>2, <1>3, <1>4, <1>8, <1>9, <1>10, <1>11, <1>12, Zenon DEF s

\* It is one more to store for every host that it has a result for.
LEMMA QueuedMore ==
  ASSUME Inv, NEW t \in Threads, NEW e \in 1..MaxReports, e \in 1..arrived, UNCHANGED reportVars,
         storer' = storer,
         queues' = [queues EXCEPT ![t] = Append(@, e)], handed' = [handed EXCEPT ![t] = Append(@, e)],
         NEW h \in Hosts
  PROVE  /\ Has(e, h) => /\ QueuedLeft(h)' = QueuedLeft(h) \cup {<<t, Len(handed[t]) + 1>>}
                         /\ <<t, Len(handed[t]) + 1>> \notin QueuedLeft(h)
         /\ ~Has(e, h) => QueuedLeft(h)' = QueuedLeft(h)
<1> DEFINE J == [u \in Threads |-> Unstored(u, h)]
           K == [u \in Threads |-> Unstored(u, h)']
           j == Len(handed[t]) + 1
<1>1. (\A u \in Threads : Stored(u, h)' = Stored(u, h)) /\ results' = results
  BY HandedOn, ReportsSame, Zenon DEF reportVars
<1>2. /\ Len(handed'[t]) = j /\ handed'[t][j] = e
      /\ \A i \in 1..Len(handed[t]) : handed'[t][i] = handed[t][i]
      /\ \A u \in Threads : u # t => handed'[u] = handed[u]
  BY QueueTypes, AppendFacts, ZenonT(60)
<1>3. Stored(t, h) \in Nat /\ Len(handed[t]) \in Nat /\ Stored(t, h) <= Len(handed[t])
  BY FinishedFacts, QueueTypes
<1>4. /\ j \notin (Stored(t, h) + 1)..Len(handed[t])
      /\ \A i : i \in (Stored(t, h) + 1)..j <=> i \in (Stored(t, h) + 1)..Len(handed[t]) \/ i = j
      /\ \A i \in (Stored(t, h) + 1)..Len(handed[t]) : i \in 1..Len(handed[t])
  BY <1>3
<1>5. \A i : i \in Unstored(t, h) <=>
        i \in (Stored(t, h) + 1)..Len(handed[t]) /\ h <= results[handed[t][i]]
  BY Zenon DEF Unstored, Has
<1>6. \A i : i \in Unstored(t, h)' <=>
        i \in (Stored(t, h) + 1)..j /\ h <= results[handed'[t][i]]
  BY <1>1, <1>2, Zenon DEF Unstored, Has
<1>7. j \notin Unstored(t, h) /\ (j \in Unstored(t, h)' <=> Has(e, h))
  <2> HIDE DEF j
  <2> QED
    BY <1>2, <1>4, <1>5, <1>6, Zenon DEF Has
<1>8. ASSUME NEW i, i # j PROVE i \in Unstored(t, h)' <=> i \in Unstored(t, h)
  <2> HIDE DEF j
  <2>1. i \in (Stored(t, h) + 1)..j <=> i \in (Stored(t, h) + 1)..Len(handed[t])
    BY <1>4, <1>8, Zenon
  <2>2. i \in (Stored(t, h) + 1)..j => handed'[t][i] = handed[t][i]
    BY <1>2, <1>4, <2>1, Zenon
  <2> QED
    BY <1>5, <1>6, <2>1, <2>2, Zenon
<1>9. \A u \in Threads : u # t => Unstored(u, h)' = Unstored(u, h)
  BY <1>1, <1>2, Zenon DEF Unstored, Has
<1>10. QueuedLeft(h) = Pairs(J) /\ QueuedLeft(h)' = Pairs(K)
  BY QueuedPairs, Zenon
<1>11. CASE Has(e, h)
  <2>1. Unstored(t, h)' = Unstored(t, h) \cup {j}
    <3> HIDE DEF j
    <3> QED
      BY <1>7, <1>8, <1>11, OneApart
  <2>2. j \notin J[t] /\ K[t] = J[t] \cup {j} /\ \A u \in Threads : u # t => K[u] = J[u]
    BY <1>7, <1>9, <2>1, Zenon
  <2> HIDE DEF J, K, j
  <2>3. Pairs(K) = Pairs(J) \cup {<<t, j>>} /\ <<t, j>> \notin Pairs(J)
    BY <2>2, OnePairMore
  <2> QED
    BY <1>10, <1>11, <2>3, Zenon DEF j
<1>12. CASE ~Has(e, h)
  <2>1. Unstored(t, h)' = Unstored(t, h)
    <3> HIDE DEF j
    <3> QED
      BY <1>7, <1>8, <1>12, OneApart
  <2>2. \A u \in Threads : {u} \X Unstored(u, h)' = {u} \X Unstored(u, h)
    BY <1>9, <2>1, Zenon
  <2>3. QueuedLeft(h)' = QueuedLeft(h)
    BY <2>2, Zenon DEF QueuedLeft
  <2> QED
    BY <1>12, <2>3, Zenon
<1> QED
  BY <1>11, <1>12, Zenon

\* queues[index]->send: outside of the array only if another worker is at the
\* index; otherwise the report passes from the worker to a storing thread.
LEMMA SendStep ==
  ASSUME Inv, NEW w \in Workers, Send(w)
  PROVE  Inv'
<1> DEFINE rep == worker[w].rep
<1>1. /\ started /\ ended = "no" /\ worker[w].pc = "send" /\ Goto(w, "load")
      /\ raced' = (raced \/ \E v \in Workers : AtIndex(v))
      /\ UNCHANGED <<conf, started, thread_cnt, index, storer, dbVars, conns, reportVars, done>>
  BY Zenon DEF Send, Running
<1>2. /\ worker' \in [Workers -> WorkerState] /\ worker'[w].pc = "load" /\ worker'[w].rep = rep
      /\ \A v \in Workers : v # w => worker'[v] = worker[v]
  BY <1>1, SetPc, Zenon
<1>3. rep \in 1..MaxReports /\ rep \in 1..arrived
  <2>1. rep \in 1..arrived
    BY <1>1, InvParts, Zenon DEF WorkerInv
  <2> HIDE DEF rep
  <2> QED
    BY <2>1, NumberTypes, Constants
<1>4. index \in Nat /\ thread_cnt \in 0..MaxThreads
  BY <1>1, NumberTypes, Zenon
<1>5. /\ raced' \in BOOLEAN /\ db' = db /\ fails' = fails /\ arrived' = arrived
      /\ results' = results /\ ReportsStay /\ \A h : ReportsOn(h)' = ReportsOn(h)
  BY <1>1, ReportsSame, Zenon DEF dbVars
<1>6. \A v \in Workers : WorkerInv(v)'
  BY <1>1, <1>2, <1>5, InvParts, Zenon DEF WorkerInv
<1>7. CASE index < thread_cnt
  <2>1. /\ queues' = [queues EXCEPT ![index] = Append(@, rep)]
        /\ handed' = [handed EXCEPT ![index] = Append(@, rep)] /\ ended' = "no"
    BY <1>1, <1>7, Zenon DEF Send
  <2>2. index \in Threads
    BY <1>4, <1>7, Constants DEF Threads
  <2>3. PICK t \in Threads : t = index
    BY <2>2, Zenon
  <2>4. /\ queues' \in [Threads -> Seq(1..MaxReports)] /\ handed' \in [Threads -> Seq(1..MaxReports)]
        /\ \A u \in Threads : StorerInv(u)' /\ \A h : Stored(u, h)' = Stored(u, h)
        /\ \A u \in Threads : \A i \in 1..Len(handed[u]) :
             i \in 1..Len(handed'[u]) /\ handed'[u][i] = handed[u][i]
        /\ Len(handed[t]) + 1 \in 1..Len(handed'[t]) /\ handed'[t][Len(handed[t]) + 1] = rep
    BY <1>1, <1>3, <1>5, <2>1, <2>3, HandedOn, Zenon
  <2>5. TypeOK'
    BY <1>1, <1>2, <1>5, <2>1, <2>4, Zenon DEF Inv, TypeOK
  <2>6. CrashOnlyIfRaced'
    BY <2>1, Zenon DEF CrashOnlyIfRaced
  <2>7. IndexInv'
    <3>1. thread_cnt # 0
      BY <1>4, <1>7
    <3> QED
      BY <1>1, <1>2, <1>7, <3>1, Zenon DEF IndexInv, AtIndex
  <2>8. ASSUME NEW h \in Hosts
        PROVE  /\ OwnLeft(h)' = OwnLeft(h) /\ ToSend(h)' = ToSend(h) \ {w}
               /\ w \in ToSend(h) <=> Has(rep, h)
    BY <1>1, <1>2, <1>5, Zenon DEF OwnLeft, ToSend, Has
  <2>9. ASSUME NEW h \in Hosts PROVE RowInv(h)'
    <3>1. RowInv(h)
      BY <1>1, InvParts, Zenon
    <3>2. FromStorer(h) => FromStorer(h)'
      BY <1>5, <2>4, FromStorerKept, Zenon DEF SameFor
    <3>3. ASSUME FromWorker(h) PROVE FromWorker(h)' \/ FromStorer(h)'
      <4>1. PICK v \in ToSend(h) : worker[v].rep = db[h]
        BY <3>3, Zenon DEF FromWorker
      <4>2. CASE v = w
        <5>0. PICK j : j = Len(handed[t]) + 1
          BY Zenon
        <5>1. Stored(t, h)' = Stored(t, h) /\ handed'[t][j] = rep /\ j \in 1..Len(handed'[t])
          BY <2>4, <5>0, Zenon
        <5>2. /\ Stored(t, h) \in Nat /\ Stored(t, h) <= Len(handed[t])
              /\ handed[t] \in Seq(1..MaxReports)
          BY FinishedFacts, QueueTypes, Zenon
        <5>3. \A k \in (j + 1)..Stored(t, h)' : FALSE
          <6>1. Len(handed[t]) \in Nat
            BY <5>2
          <6>2. \A a, b \in Nat : a <= b => \A k \in ((b + 1) + 1)..a : FALSE
            OBVIOUS
          <6> QED
            BY <5>0, <5>1, <5>2, <6>1, <6>2, Zenon
        <5>4. handed'[t][j] = db'[h]
          BY <1>5, <4>1, <4>2, <5>1, Zenon
        <5>5. NoneOn(h, t, j + 1, Stored(t, h))'
          BY <5>3, Zenon DEF NoneOn
        <5> QED
          BY <5>1, <5>4, <5>5, Zenon DEF FromStorer
      <4>3. CASE v # w
        <5>1. v \in ToSend(h)' /\ worker'[v].rep = db'[h]
          BY <1>2, <1>5, <2>8, <4>1, <4>3, Zenon DEF ToSend
        <5> QED
          BY <5>1, Zenon DEF FromWorker
      <4> QED
        BY <4>2, <4>3, Zenon
    <3> QED
      BY <1>5, <2>8, <3>1, <3>2, <3>3, Zenon DEF RowInv
  <2>10. ASSUME NEW h \in Hosts PROVE CountInv(h)'
    <3> DEFINE x == <<t, Len(handed[t]) + 1>>
    <3>1. CountInv(h)
      BY <1>1, InvParts, Zenon
    <3>2. /\ Has(rep, h) => QueuedLeft(h)' = QueuedLeft(h) \cup {x} /\ x \notin QueuedLeft(h)
          /\ ~Has(rep, h) => QueuedLeft(h)' = QueuedLeft(h)
      BY <1>1, <1>3, <2>1, <2>3, QueuedMore, Zenon
    <3>3. CASE Has(rep, h)
      <4>1. IsFiniteSet(ToSend(h)) /\ IsFiniteSet(QueuedLeft(h))
        BY <3>1, Zenon DEF CountInv
      <4>2. IsFiniteSet(ToSend(h)') /\ Cardinality(ToSend(h)') = Cardinality(ToSend(h)) - 1
        <5>1. ToSend(h)' = ToSend(h) \ {w} /\ w \in ToSend(h)
          BY <2>8, <3>3, Zenon
        <5> QED
          BY <4>1, <5>1, OneLess, Zenon
      <4>3. IsFiniteSet(QueuedLeft(h)') /\ Cardinality(QueuedLeft(h)') = Cardinality(QueuedLeft(h)) + 1
        <5>1. QueuedLeft(h)' = QueuedLeft(h) \cup {x} /\ x \notin QueuedLeft(h)
          BY <3>2, <3>3, Zenon
        <5> HIDE DEF x
        <5> QED
          BY <4>1, <5>1, OneMore, Zenon
      <4>4. db[h] = 0 =>
              fails[h] + Cardinality(OwnLeft(h)) + (Cardinality(ToSend(h)) - 1)
                + (Cardinality(QueuedLeft(h)) + 1) >= 2 * Cardinality(ReportsOn(h))
        BY <1>1, CountBalance, Zenon
      <4> QED
        BY <1>5, <2>8, <3>1, <4>2, <4>3, <4>4, Zenon DEF CountInv
    <3>4. CASE ~Has(rep, h)
      <4>1. ToSend(h)' = ToSend(h)
        BY <2>8, <3>4
      <4> QED
        BY <1>5, <2>8, <3>1, <3>2, <3>4, <4>1, CountKept, Zenon
    <3> QED
      BY <3>3, <3>4, Zenon
  <2> QED
    BY <1>6, <2>4, <2>5, <2>6, <2>7, <2>9, <2>10, Zenon DEF Inv
<1>8. CASE ~(index < thread_cnt)
  <2>1. queues' = queues /\ handed' = handed /\ ended' = "crashed"
    BY <1>1, <1>8, Zenon DEF Send
  <2>2. TypeOK'
    BY <1>1, <1>2, <1>5, <2>1, Zenon DEF Inv, TypeOK
  <2>3. CrashOnlyIfRaced'
    BY <1>1, <1>8, InvParts, Zenon DEF CrashOnlyIfRaced, IndexInv, AtIndex
  <2>4. IndexInv'
    BY <1>1, <2>1, Zenon DEF IndexInv
  <2>5. SameStorage
    BY <1>1, <2>1, Zenon DEF SameStorage
  <2> QED
    BY <1>5, <1>6, <2>1, <2>2, <2>3, <2>4, <2>5, StorageKept, InvParts, Zenon DEF Inv
<1> QED
  BY <1>7, <1>8, Zenon

\* A step of a worker at the index that keeps what the index promises.
LEMMA AtIndexStep ==
  ASSUME Inv, NEW w \in Workers, Running, AtIndex(w), worker' \in [Workers -> WorkerState],
         \A v \in Workers : v # w => worker'[v] = worker[v],
         worker'[w].pc # "idle" => AtIndex(w)' /\ worker'[w].rep = worker[w].rep,
         index' \in Nat,
         thread_cnt # 0 /\ ~raced =>
           index' < thread_cnt \/ \E v \in Workers : worker'[v].pc \in {"mod", "wrap"},
         UNCHANGED <<conf, started, thread_cnt, queues, storer, dbVars, conns, reportVars,
                     ended, handed, done, raced>>
  PROVE  Inv'
<1>1. /\ started /\ ended = "no" /\ started' = started /\ ended' = ended /\ raced' = raced
      /\ started' /\ thread_cnt' = thread_cnt /\ db' = db /\ fails' = fails /\ arrived' = arrived
      /\ queues' = queues /\ storer' = storer /\ handed' = handed
      /\ results' = results /\ ReportsStay /\ \A h : ReportsOn(h)' = ReportsOn(h)
  BY ReportsSame, Zenon DEF Running, dbVars
<1>2. TypeOK'
  BY <1>1, Zenon DEF Inv, TypeOK
<1>3. CrashOnlyIfRaced'
  BY <1>1, Zenon DEF CrashOnlyIfRaced
<1>4. \A v \in Workers : AtIndex(v)' => AtIndex(v)
  BY Zenon DEF AtIndex
<1>5. IndexInv'
  <2>1. ended # "crashed" /\ ~raced /\ thread_cnt # 0 =>
          \A u, v \in Workers : AtIndex(u)' /\ AtIndex(v)' => u = v
    <3>1. ended # "crashed" /\ ~raced /\ thread_cnt # 0 =>
            \A u, v \in Workers : AtIndex(u) /\ AtIndex(v) => u = v
      BY InvParts, Zenon DEF IndexInv
    <3> QED
      BY <1>4, <3>1, Zenon
  <2>2. ended' # "crashed" /\ ~raced' /\ thread_cnt' # 0 =>
          /\ \A u, v \in Workers : AtIndex(u)' /\ AtIndex(v)' => u = v
          /\ index' < thread_cnt' \/ \E v \in Workers : worker'[v].pc \in {"mod", "wrap"}
    BY <1>1, <2>1
  <2>3. thread_cnt # 0
    BY <1>1, InvParts, Zenon DEF IndexInv
  <2> QED
    BY <1>1, <2>2, <2>3, Zenon DEF IndexInv
<1>6. /\ worker[w].pc # "idle" /\ worker[w].pc # "store" /\ worker[w].pc # "send"
      /\ worker'[w].pc # "store" /\ worker'[w].pc # "send"
  BY Zenon DEF AtIndex
<1>7. \A v \in Workers : WorkerInv(v)'
  <2>1. WorkerInv(w)'
    <3>1. worker'[w].pc # "idle" => worker'[w].rep \in 1..arrived
      BY <1>6, InvParts, Zenon DEF WorkerInv
    <3> QED
      BY <1>1, <1>6, <3>1, Zenon DEF WorkerInv
  <2>2. ASSUME NEW v \in Workers, v # w PROVE WorkerInv(v)'
    BY <1>1, <2>2, InvParts, Zenon DEF WorkerInv
  <2> QED
    BY <2>1, <2>2, Zenon
<1>8. SameStorage
  BY <1>1, Zenon DEF SameStorage
<1>9. ASSUME NEW h \in Hosts PROVE OwnLeft(h)' = OwnLeft(h) /\ ToSend(h)' = ToSend(h)
  BY <1>1, <1>6, Zenon DEF OwnLeft, ToSend, Has
<1>10. ASSUME NEW h \in Hosts PROVE RowInv(h)'
  <2>1. RowInv(h)
    BY <1>1, InvParts, Zenon
  <2>2. FromWorker(h) => FromWorker(h)'
    BY <1>1, <1>6, <1>9, Zenon DEF FromWorker, ToSend
  <2>3. FromStorer(h) => FromStorer(h)'
    BY <1>1, <1>8, StorageSame, FromStorerKept, Zenon
  <2> QED
    BY <1>1, <1>9, <2>1, <2>2, <2>3, Zenon DEF RowInv
<1>11. ASSUME NEW h \in Hosts PROVE CountInv(h)'
  <2>1. QueuedLeft(h)' = QueuedLeft(h)
    BY <1>1, <1>8, StorageSame, QueuedKept, Zenon
  <2> QED
    BY <1>1, <1>9, <2>1, InvParts, CountKept, Zenon
<1> QED
  BY <1>1, <1>2, <1>3, <1>5, <1>7, <1>8, <1>10, <1>11, StorageKept, InvParts, Zenon DEF Inv

\* The register and the position of a worker change.
LEMMA SetReg ==
  ASSUME Inv, NEW w \in Workers, NEW x \in Nat,
         NEW p \in {"idle", "store", "send", "load", "add", "mod", "wrap"},
         worker' = [worker EXCEPT ![w] = [worker[w] EXCEPT !.reg = x, !.pc = p]]
  PROVE  /\ worker' \in [Workers -> WorkerState]
         /\ worker'[w].pc = p /\ worker'[w].rep = worker[w].rep
         /\ \A v \in Workers : v # w => worker'[v] = worker[v]
<1> DEFINE r == [pc |-> p, rep |-> worker[w].rep, row |-> worker[w].row, reg |-> x]
           q == [pc |-> worker[w].pc, rep |-> worker[w].rep, row |-> worker[w].row, reg |-> x]
<1>1. worker[w] \in WorkerState
  BY ThreadTypes, Zenon
<1>2. [worker[w] EXCEPT !.reg = x] = q
  BY <1>1 DEF WorkerState
<1>3. [q EXCEPT !.pc = p] = r
  OBVIOUS
<1>4. r \in WorkerState /\ r.pc = p /\ r.rep = worker[w].rep
  BY <1>1, Zenon DEF WorkerState
<1>5. worker' = [worker EXCEPT ![w] = r]
  BY <1>2, <1>3, Zenon
<1> HIDE DEF r, q
<1> QED
  BY <1>4, <1>5, SetWorker, Zenon

\* The loads of the index.
LEMMA LoadIndexStep ==
  ASSUME Inv, NEW w \in Workers, Load_index(w)
  PROVE  Inv'
<1> DEFINE p == IF worker[w].pc = "load" THEN "add" ELSE "wrap"
<1>1. /\ Running /\ worker[w].pc \in {"load", "mod"}
      /\ UNCHANGED <<conf, started, thread_cnt, index, queues, storer, dbVars, conns, reportVars,
                     ended, handed, done, raced>>
  BY Zenon DEF Load_index
<1>2. worker' = [worker EXCEPT ![w] = [worker[w] EXCEPT !.reg = index, !.pc = p]]
  <2>1. worker \in [Workers -> WorkerState] /\ worker[w] \in WorkerState
    BY ThreadTypes, Zenon
  <2> QED
    BY <2>1, Zenon DEF Load_index, WorkerState
<1>3. index \in Nat /\ p \in {"idle", "store", "send", "load", "add", "mod", "wrap"}
  BY NumberTypes, Zenon
<1>4. (worker[w].pc = "load" /\ p = "add") \/ (worker[w].pc = "mod" /\ p = "wrap")
  BY <1>1, Zenon
<1> HIDE DEF p
<1>5. /\ worker' \in [Workers -> WorkerState]
      /\ worker'[w].pc = p /\ worker'[w].rep = worker[w].rep
      /\ \A v \in Workers : v # w => worker'[v] = worker[v]
  BY <1>2, <1>3, SetReg, Zenon
<1>6. thread_cnt # 0 /\ ~raced =>
        index' < thread_cnt \/ \E v \in Workers : worker'[v].pc \in {"mod", "wrap"}
  <2>1. thread_cnt # 0 /\ ~raced =>
          index < thread_cnt \/ \E v \in Workers : worker[v].pc \in {"mod", "wrap"}
    BY <1>1, InvParts, Zenon DEF IndexInv, Running
  <2>2. worker[w].pc \in {"mod", "wrap"} => worker'[w].pc \in {"mod", "wrap"}
    BY <1>4, <1>5, Zenon
  <2> QED
    BY <1>1, <1>5, <2>1, <2>2, Zenon
<1>7. AtIndex(w) /\ AtIndex(w)'
  BY <1>1, <1>4, <1>5, Zenon DEF AtIndex
<1>8. index' \in Nat
  BY <1>1, <1>3, Zenon
<1> QED
  BY <1>1, <1>5, <1>6, <1>7, <1>8, AtIndexStep, Zenon

\* The stores to the index: the second one brings it back into the array.
LEMMA StoreIndexStep ==
  ASSUME Inv, NEW w \in Workers, Store_index(w)
  PROVE  Inv'
<1>1. /\ Running /\ worker[w].pc \in {"add", "wrap"} /\ AtIndex(w)
      /\ UNCHANGED <<conf, started, thread_cnt, queues, storer, dbVars, conns, reportVars,
                     ended, handed, done, raced>>
  BY Zenon DEF Store_index, AtIndex
<1>2. worker \in [Workers -> WorkerState] /\ worker[w] \in WorkerState /\ worker[w].reg \in Nat
  BY ThreadTypes, WorkerFields, Zenon
<1>3. CASE worker[w].pc = "add"
  <2>1. index' = worker[w].reg + 1 /\ worker' = [worker EXCEPT ![w].reg = 0, ![w].pc = "mod"]
    BY <1>3, Zenon DEF Store_index
  <2>2. worker' = [worker EXCEPT ![w] = [worker[w] EXCEPT !.reg = 0, !.pc = "mod"]]
    BY <1>2, <2>1, Zenon DEF WorkerState
  <2>3. /\ worker' \in [Workers -> WorkerState]
        /\ worker'[w].pc = "mod" /\ worker'[w].rep = worker[w].rep
        /\ \A v \in Workers : v # w => worker'[v] = worker[v]
    BY <2>2, SetReg, Zenon
  <2>4. index' \in Nat
    BY <1>2, <2>1
  <2> QED
    BY <1>1, <2>3, <2>4, AtIndexStep, Zenon DEF AtIndex
<1>4. CASE worker[w].pc = "wrap"
  <2>1. index' = worker[w].reg % thread_cnt /\ worker' = [worker EXCEPT ![w] = IdleWorker]
    BY <1>4, Zenon DEF Store_index, Wrapped
  <2>2. IdleWorker \in WorkerState /\ IdleWorker.pc = "idle"
    BY Constants DEF IdleWorker, WorkerState
  <2>3. /\ worker' \in [Workers -> WorkerState] /\ worker'[w].pc = "idle"
        /\ \A v \in Workers : v # w => worker'[v] = worker[v]
    BY <2>1, <2>2, SetWorker, Zenon
  <2>4. thread_cnt \in Nat /\ thread_cnt # 0
    <3>1. thread_cnt # 0 /\ thread_cnt \in 0..MaxThreads
      BY <1>1, InvParts, NumberTypes, Zenon DEF IndexInv, Running
    <3> QED
      BY <3>1, Constants
  <2>5. index' \in Nat /\ index' < thread_cnt
    BY <1>2, <2>1, <2>4
  <2> QED
    BY <1>1, <2>3, <2>5, AtIndexStep, Zenon
<1> QED
  BY <1>1, <1>3, <1>4, Zenon

-----------------------------------------------------------------------------
(* main *)

\* The configuration is given up once it is read.
LEMMA NoConfiguration == <<>> \in Configurations
<1>1. 0 \in 0..MaxLines
  BY ReporterAssumption
<1>2. <<>> \in [1..0 -> Lines]
  OBVIOUS
<1> QED
  BY <1>1, <1>2, Zenon DEF Configurations

\* main starts the storing threads, or ends with what cannot be used.
LEMMA MainStep ==
  ASSUME Inv, Main
  PROVE  Inv'
<1> DEFINE l == Load(conf)
           cnt == ToInt(GetNumber(l.map, "reporter", "db_thread_cnt", DefaultCnt))
<1>1. /\ ~started /\ ended = "no" /\ cnt <= MaxThreads
      /\ UNCHANGED <<index, queues, worker, dbVars, conns, reportVars, handed, done, raced>>
  BY Zenon DEF Main
<1>2. \/ /\ l.fault \/ cnt \notin Nat
         /\ ended' = "crashed" /\ thread_cnt' = IF l.fault THEN 0 ELSE cnt
         /\ UNCHANGED <<conf, started, storer>>
      \/ /\ cnt \in Nat /\ conf' = <<>> /\ started' = TRUE /\ thread_cnt' = cnt /\ ended' = "no"
         /\ storer' = [t \in Threads |-> [storer[t] EXCEPT !.pc = IF t < cnt THEN "boot" ELSE "none"]]
  BY <1>1, Zenon DEF Main
<1> HIDE DEF l, cnt
<1>3. index = 0 /\ \A w \in Workers : worker[w].pc = "idle"
  BY <1>1, InvParts, Zenon DEF IndexInv, WorkerInv
<1>4. \A w \in Workers : ~AtIndex(w) /\ ~AtIndex(w)'
  BY <1>1, <1>3, Zenon DEF AtIndex
<1>5. \A w \in Workers : WorkerInv(w)'
  BY <1>1, <1>3, Zenon DEF WorkerInv
<1>6. /\ db' = db /\ fails' = fails
      /\ arrived' = arrived /\ results' = results /\ ReportsStay
  BY <1>1, ReportsSame, Zenon DEF dbVars
<1>7. CASE ended' = "crashed"
  <2>1. thread_cnt' \notin Nat \ {0} /\ UNCHANGED <<conf, started, storer>>
    BY <1>2, <1>7, Zenon
  <2>2. TypeOK'
    BY <1>1, <1>6, <1>7, <2>1, Zenon DEF Inv, TypeOK
  <2>3. CrashOnlyIfRaced' /\ IndexInv'
    BY <1>1, <1>3, <1>7, <2>1, Zenon DEF CrashOnlyIfRaced, IndexInv
  <2>4. SameStorage
    BY <1>1, <2>1, Zenon DEF SameStorage
  <2> QED
    BY <1>5, <1>6, <1>7, <2>2, <2>3, <2>4, StorageKept, InvParts, Zenon DEF Inv
<1>8. CASE ended' # "crashed"
  <2>1. /\ cnt \in Nat /\ conf' = <<>> /\ started' = TRUE /\ thread_cnt' = cnt /\ ended' = "no"
        /\ storer' = [t \in Threads |-> [storer[t] EXCEPT !.pc = IF t < cnt THEN "boot" ELSE "none"]]
    BY <1>2, <1>8, Zenon
  <2>2. cnt \in 0..MaxThreads
    BY <1>1, <2>1, Constants
  <2>3. ASSUME NEW t \in Threads
        PROVE  /\ storer'[t] \in StorerState
               /\ storer'[t].batch = storer[t].batch /\ storer'[t].row = storer[t].row
    <3>1. PICK p \in {"boot", "none"} : storer'[t] = [storer[t] EXCEPT !.pc = p]
      <4>1. storer'[t] = [storer[t] EXCEPT !.pc = IF t < cnt THEN "boot" ELSE "none"]
        BY <2>1, Zenon
      <4> QED
        BY <4>1, Zenon
    <3>2. storer[t] \in StorerState
      BY ThreadTypes, Zenon
    <3> QED
      BY <3>1, <3>2, Zenon DEF StorerState
  <2>4. storer' \in [Threads -> StorerState]
    BY <2>1, <2>3, Zenon
  <2>5. TypeOK'
    BY <1>1, <1>6, <2>1, <2>2, <2>4, NoConfiguration, Zenon DEF Inv, TypeOK
  <2>6. CrashOnlyIfRaced'
    BY <1>8, Zenon DEF CrashOnlyIfRaced
  <2>7. IndexInv'
    <3>1. cnt # 0 => 0 < cnt
      BY <2>1
    <3> QED
      BY <1>1, <1>3, <1>4, <2>1, <3>1, Zenon DEF IndexInv
  <2>8. SameStorage
    BY <1>1, <2>3, Zenon DEF SameStorage
  <2>9. ASSUME NEW h \in Hosts PROVE RowInv(h)'
    BY <1>1, <1>6, <2>8, StorageSame, FromStorerKept, RowKept, InvParts, Zenon
  <2>10. ASSUME NEW h \in Hosts PROVE CountInv(h)'
    BY <1>1, <1>6, <2>8, StorageCountKept, InvParts, Zenon
  <2> QED
    BY <1>5, <1>6, <2>5, <2>6, <2>7, <2>8, <2>9, <2>10, StorageKept, InvParts, Zenon DEF Inv
<1> QED
  BY <1>7, <1>8, Zenon

-----------------------------------------------------------------------------
(* The storing threads *)

\* A storing thread connects, or ends the program.
LEMMA StoreMainStep ==
  ASSUME Inv, NEW t \in Threads, StoreMain(t)
  PROVE  Inv'
<1> DEFINE r == [pc |-> "loop", batch |-> storer[t].batch, row |-> storer[t].row]
<1>1. /\ started /\ ended = "no" /\ storer' = [storer EXCEPT ![t].pc = "loop"]
      /\ UNCHANGED <<conf, started, thread_cnt, index, queues, worker, dbVars, reportVars,
                     handed, done, raced>>
  BY Zenon DEF StoreMain, Running
<1>2. \/ conns < DbLimit /\ conns' = conns + 1 /\ ended' = "no"
      \/ conns' = conns /\ ended' = "exited"
  BY <1>1, Zenon DEF StoreMain, Connect, CanConnect
<1>3. conns' \in 0..DbLimit /\ ended' \in {"no", "exited"} /\ ended' # "crashed"
  BY <1>2, NumberTypes, Constants
<1>4. storer[t] \in StorerState
  BY ThreadTypes, Zenon
<1>5. [storer[t] EXCEPT !.pc = "loop"] = r /\ r \in StorerState
  BY <1>4 DEF StorerState
<1>6. r.batch = storer[t].batch /\ r.row = storer[t].row
  BY Zenon
<1> HIDE DEF r
<1>7. storer' = [storer EXCEPT ![t] = r]
  BY <1>1, <1>5, Zenon
<1>8. /\ storer' \in [Threads -> StorerState] /\ storer'[t] = r
      /\ \A u \in Threads : u # t => storer'[u] = storer[u]
  BY <1>5, <1>7, SetStorer, Zenon
<1>9. SameStorage
  BY <1>1, <1>6, <1>8, Zenon DEF SameStorage
<1>10. /\ db' = db /\ fails' = fails
       /\ arrived' = arrived /\ results' = results /\ ReportsStay
  BY <1>1, ReportsSame, Zenon DEF dbVars
<1>11. TypeOK'
  BY <1>1, <1>3, <1>8, <1>10, Zenon DEF Inv, TypeOK
<1>12. CrashOnlyIfRaced' /\ IndexInv' /\ \A w \in Workers : WorkerInv(w)'
  BY <1>1, <1>3, <1>10, WorkersKept, Zenon DEF SameWorkers
<1>13. ASSUME NEW h \in Hosts PROVE RowInv(h)'
  BY <1>1, <1>9, <1>10, StorageSame, FromStorerKept, RowKept, InvParts, Zenon
<1>14. ASSUME NEW h \in Hosts PROVE CountInv(h)'
  BY <1>1, <1>9, <1>10, StorageCountKept, InvParts, Zenon
<1> QED
  BY <1>9, <1>10, <1>11, <1>12, <1>13, <1>14, StorageKept, InvParts, Zenon DEF Inv

\* A step of one storing thread: the other threads' invariants and progress stay.
LEMMA OthersKept ==
  ASSUME Inv, NEW t \in Threads, handed' = handed, arrived' = arrived,
         \A u \in Threads : u # t => storer'[u] = storer[u] /\ queues'[u] = queues[u],
         NEW u \in Threads, u # t
  PROVE  StorerInv(u)' /\ \A h : Stored(u, h)' = Stored(u, h)
<1>1. queues'[u] = queues[u] /\ storer'[u] = storer[u] /\ StorerInv(u)
  BY InvParts, Zenon
<1>2. Finished(u)' = Finished(u)
  BY <1>1, Zenon DEF Finished
<1>3. StorerInv(u)'
  BY <1>1, <1>2, Zenon DEF StorerInv
<1>4. \A h : Stored(u, h)' = Stored(u, h)
  BY <1>1, <1>2, Zenon DEF Stored
<1> QED
  BY <1>3, <1>4, Zenon

\* The two ways a storing thread's batch and row change.
LEMMA PutBatch ==
  ASSUME NEW r \in StorerState, NEW b \in Seq(1..MaxReports), NEW k \in Hosts
  PROVE  /\ [r EXCEPT !.batch = b] = [pc |-> r.pc, batch |-> b, row |-> r.row]
         /\ [r EXCEPT !.row = k] = [pc |-> r.pc, batch |-> r.batch, row |-> k]
         /\ [r EXCEPT !.row = k, !.batch = b] = [pc |-> r.pc, batch |-> b, row |-> k]
         /\ [pc |-> r.pc, batch |-> b, row |-> r.row] \in StorerState
         /\ [pc |-> r.pc, batch |-> r.batch, row |-> k] \in StorerState
         /\ [pc |-> r.pc, batch |-> b, row |-> k] \in StorerState
<1>1. [r EXCEPT !.batch = b] = [pc |-> r.pc, batch |-> b, row |-> r.row]
  BY DEF StorerState
<1>2. [r EXCEPT !.row = k] = [pc |-> r.pc, batch |-> r.batch, row |-> k]
  BY DEF StorerState
<1>3. [[pc |-> r.pc, batch |-> r.batch, row |-> k] EXCEPT !.batch = b]
        = [pc |-> r.pc, batch |-> b, row |-> k]
  OBVIOUS
<1>4. [r EXCEPT !.row = k, !.batch = b] = [pc |-> r.pc, batch |-> b, row |-> k]
  BY <1>2, <1>3, Zenon
<1>5. /\ [pc |-> r.pc, batch |-> b, row |-> r.row] \in StorerState
      /\ [pc |-> r.pc, batch |-> r.batch, row |-> k] \in StorerState
      /\ [pc |-> r.pc, batch |-> b, row |-> k] \in StorerState
  BY Zenon DEF StorerState
<1> QED
  BY <1>1, <1>2, <1>4, <1>5, Zenon

\* recv: the queue becomes the batch, and nothing more is stored by that.
LEMMA ThreadReportStep ==
  ASSUME Inv, NEW t \in Threads, ThreadReport(t)
  PROVE  Inv'
<1> DEFINE q == queues[t]
           s == handed[t]
           n == Finished(t)
           r == [pc |-> storer[t].pc, batch |-> q, row |-> storer[t].row]
<1>1. /\ started /\ ended = "no" /\ storer[t].batch = <<>>
      /\ storer' = [storer EXCEPT ![t].batch = q] /\ queues' = [queues EXCEPT ![t] = <<>>]
      /\ UNCHANGED <<conf, started, thread_cnt, index, worker, dbVars, conns, reportVars, ended,
                     handed, done, raced>>
  BY Zenon DEF ThreadReport, Running, Taken
<1>2. /\ storer[t] \in StorerState /\ q \in Seq(1..MaxReports)
      /\ queues' \in [Threads -> Seq(1..MaxReports)] /\ queues'[t] = <<>>
      /\ \A u \in Threads : u # t => queues'[u] = queues[u]
  <2>1. queues' = [queues EXCEPT ![t] = <<>>]
    BY <1>1, Zenon
  <2>2. storer[t] \in StorerState
    BY ThreadTypes, Zenon
  <2>3. queues \in [Threads -> Seq(1..MaxReports)] /\ <<>> \in Seq(1..MaxReports)
    BY QueueTypes
  <2> QED
    BY <2>1, <2>2, <2>3, Zenon
<1>3. storer[t].row = 1
  BY <1>1, InvParts, Zenon DEF StorerInv
<1>4. [storer[t] EXCEPT !.batch = q] = r /\ r \in StorerState
  <2>1. 1 \in Hosts
    BY Constants DEF Hosts
  <2> QED
    BY <1>2, <2>1, PutBatch, Zenon
<1>5. r.batch = q /\ r.row = 1
  BY <1>3, Zenon
<1> HIDE DEF r
<1>6. storer' = [storer EXCEPT ![t] = r]
  BY <1>1, <1>4, Zenon
<1>7. /\ storer' \in [Threads -> StorerState] /\ storer'[t] = r
      /\ \A u \in Threads : u # t => storer'[u] = storer[u]
  BY <1>4, <1>6, SetStorer, Zenon
<1>8. Finished(t)' = n /\ n \in Nat
  <2>1. n = Len(s) - Len(<<>>) - Len(q)
    BY <1>1, Zenon DEF Finished
  <2>2. Finished(t)' = Len(s) - Len(q) - Len(<<>>)
    BY <1>1, <1>2, <1>5, <1>7, Zenon DEF Finished
  <2>3. Len(s) \in Nat /\ Len(q) \in Nat /\ Len(<<>>) = 0
    BY <1>2, QueueTypes
  <2>4. n \in Nat
    BY InvParts, Zenon DEF StorerInv
  <2> HIDE DEF n, s, q
  <2> QED
    BY <2>1, <2>2, <2>3, <2>4
<1>9. StorerInv(t)'
  <2>1. \A i \in 1..Len(q) : q[i] = s[n + 0 + i]
    <3>1. \A i \in 1..Len(q) : q[i] = s[n + Len(<<>>) + i]
      BY <1>1, InvParts, Zenon DEF StorerInv
    <3>2. Len(<<>>) = 0
      BY Zenon
    <3> QED
      BY <3>1, <3>2, Zenon
  <2>2. \A i \in 1..Len(q) : n + 0 + i = n + i
    BY <1>2, <1>8
  <2>3. \A i \in 1..Len(q) : q[i] = s[n + i]
    BY <2>1, <2>2, Zenon
  <2>4. \A i \in 1..Len(<<>>) : FALSE
    OBVIOUS
  <2>5. \A i \in 1..Len(handed'[t]) : handed'[t][i] \in 1..arrived'
    BY <1>1, InvParts, Zenon DEF StorerInv, reportVars
  <2> QED
    BY <1>1, <1>2, <1>5, <1>7, <1>8, <2>3, <2>4, <2>5, Zenon DEF StorerInv
<1>10. \A h \in Hosts : Stored(t, h)' = Stored(t, h)
  <2>1. \A h \in Hosts : ~(h < 1)
    BY Constants DEF Hosts
  <2> QED
    BY <1>1, <1>5, <1>7, <1>8, <2>1, Zenon DEF Stored
<1>11. /\ db' = db /\ fails' = fails /\ arrived' = arrived
       /\ results' = results /\ ReportsStay /\ \A h : ReportsOn(h)' = ReportsOn(h)
  BY <1>1, ReportsSame, Zenon DEF dbVars
<1>12. \A u \in Threads : StorerInv(u)' /\ \A h \in Hosts : Stored(u, h)' = Stored(u, h)
  BY <1>1, <1>2, <1>7, <1>9, <1>10, <1>11, OthersKept, Zenon
<1>13. \A u \in Threads : \A h \in Hosts : SameFor(u, h)
  BY <1>1, <1>12, Zenon DEF SameFor
<1>14. TypeOK'
  BY <1>1, <1>2, <1>7, <1>11, Zenon DEF Inv, TypeOK
<1>15. CrashOnlyIfRaced' /\ IndexInv' /\ \A w \in Workers : WorkerInv(w)'
  BY <1>1, <1>11, WorkersKept, Zenon DEF SameWorkers
<1>16. ASSUME NEW h \in Hosts PROVE RowInv(h)'
  BY <1>1, <1>11, <1>13, FromStorerKept, RowKept, InvParts, Zenon
<1>17. ASSUME NEW h \in Hosts PROVE CountInv(h)'
  <2>1. OwnLeft(h)' = OwnLeft(h) /\ ToSend(h)' = ToSend(h)
    BY <1>1, <1>11, WorkersLeftKept, Zenon
  <2>2. QueuedLeft(h)' = QueuedLeft(h)
    BY <1>1, <1>11, <1>13, QueuedKept, Zenon
  <2> QED
    BY <1>1, <1>11, <2>1, <2>2, InvParts, CountKept, Zenon
<1> QED
  BY <1>12, <1>14, <1>15, <1>16, <1>17, Zenon DEF Inv

\* What Tail leaves of a batch.
LEMMA TailFacts ==
  ASSUME NEW b \in Seq(1..MaxReports), b # <<>>
  PROVE  /\ Len(b) \in Nat /\ Len(b) # 0 /\ Head(b) = b[1] /\ Head(b) \in 1..MaxReports
         /\ Tail(b) \in Seq(1..MaxReports) /\ Len(Tail(b)) = Len(b) - 1
         /\ \A i \in 1..Len(Tail(b)) : Tail(b)[i] = b[i + 1]
<1>1. Len(b) \in Nat /\ Len(b) # 0
  OBVIOUS
<1>2. Head(b) = b[1]
  OBVIOUS
<1>3. b[1] \in 1..MaxReports
  <2> DEFINE R == 1..MaxReports
  <2>1. b \in Seq(R) /\ 1 \in 1..Len(b)
    BY <1>1
  <2> HIDE DEF R
  <2>2. b[1] \in R
    BY <2>1
  <2> QED
    BY <2>2, Zenon DEF R
<1>4. Tail(b) \in Seq(1..MaxReports) /\ Len(Tail(b)) = Len(b) - 1
  OBVIOUS
<1>5. \A i \in 1..Len(Tail(b)) : Tail(b)[i] = b[i + 1]
  OBVIOUS
<1> QED
  BY <1>1, <1>2, <1>3, <1>4, <1>5, Zenon

\* The loop over a report's results goes on, or goes to the next report of the
\* batch: the host just served is one further, all others are where they were,
\* or one further over a report that has no result for them.
LEMMA StoredOn ==
  ASSUME Inv, NEW t \in Threads, storer[t].batch # <<>>, storer' \in [Threads -> StorerState],
         queues' = queues, handed' = handed, arrived' = arrived, NEW k, k = storer[t].row,
         NEW e, e = Head(storer[t].batch), NEW z \in 0..HostCnt, z = results[e],
         \/ k + 1 > z /\ storer'[t].row = 1 /\ storer'[t].batch = Tail(storer[t].batch)
         \/ ~(k + 1 > z) /\ storer'[t].row = k + 1 /\ storer'[t].batch = storer[t].batch
  PROVE  /\ StorerInv(t)'
         /\ Stored(t, k) = Finished(t) /\ Stored(t, k)' = Finished(t) + 1
         /\ \A h \in Hosts : h # k =>
              \/ Stored(t, h)' = Stored(t, h)
              \/ Stored(t, h) = Finished(t) /\ Stored(t, h)' = Finished(t) + 1 /\ ~Has(e, h)
         /\ Finished(t) + 1 \in 1..Len(handed[t])
         /\ handed[t][Finished(t) + 1] = e
<1> DEFINE b == storer[t].batch
           c == storer'[t].batch
           q == queues[t]
           s == handed[t]
           n == Finished(t)
<1>1. b \in Seq(1..MaxReports) /\ b # <<>> /\ k \in Hosts /\ c \in Seq(1..MaxReports)
  BY ThreadTypes, StorerFields, Zenon
<1>2. n \in Nat /\ Len(b) \in Nat /\ Len(q) \in Nat /\ Len(s) = n + Len(b) + Len(q)
  BY <1>1, FinishedFacts, Zenon
<1>3. /\ \A i \in 1..Len(b) : b[i] = s[n + i]
      /\ \A i \in 1..Len(q) : q[i] = s[n + Len(b) + i]
      /\ \A i \in 1..Len(s) : s[i] \in 1..arrived
  BY InvParts, Zenon DEF StorerInv
<1>4. Finished(t)' = Len(s) - Len(c) - Len(q)
  BY Zenon DEF Finished
<1>5. queues'[t] = q /\ handed'[t] = s
  BY Zenon
<1>6. /\ Len(b) # 0 /\ Head(b) = b[1] /\ Len(Tail(b)) = Len(b) - 1
      /\ \A i \in 1..Len(Tail(b)) : Tail(b)[i] = b[i + 1]
  BY <1>1, TailFacts, Zenon
<1>7. /\ \A h : Stored(t, h)' = IF c # <<>> /\ h < storer'[t].row THEN Finished(t)' + 1 ELSE Finished(t)'
      /\ \A h : Stored(t, h) = IF b # <<>> /\ h < k THEN n + 1 ELSE n
  BY Zenon DEF Stored
<1>8. k \in Nat /\ 1 <= k /\ k <= HostCnt /\ z \in Nat /\ \A h \in Hosts : h \in Nat /\ 1 <= h
  BY <1>1, Constants, SMTT(20) DEF Hosts
<1>9. n + 1 \in 1..Len(s) /\ s[n + 1] = e
  <2>1. n + 1 \in 1..Len(s) /\ 1 \in 1..Len(b)
    <3> HIDE DEF b, q, s, n
    <3> QED
      BY <1>2, <1>6
  <2>2. b[1] = s[n + 1]
    BY <1>3, <2>1, Zenon
  <2> QED
    BY <1>6, <2>1, <2>2, Zenon
<1>10. Stored(t, k) = n
  <2>1. ~(k < k)
    BY <1>8
  <2> QED
    BY <1>7, <2>1, Zenon
<1>11. CASE k + 1 > z
  <2>1. storer'[t].row = 1 /\ c = Tail(b)
    BY <1>11, Zenon
  <2>2. Finished(t)' = n + 1
    <3> HIDE DEF b, c, q, s, n
    <3> QED
      BY <1>2, <1>4, <1>6, <2>1
  <2>3. \A i \in 1..Len(c) : c[i] = s[(n + 1) + i]
    <3> TAKE i \in 1..Len(c)
    <3>1. i + 1 \in 1..Len(b) /\ n + (i + 1) = (n + 1) + i
      <4>1. i \in 1..(Len(b) - 1)
        BY <1>6, <2>1, Zenon
      <4> HIDE DEF b, n
      <4> QED
        BY <1>2, <4>1
    <3>2. c[i] = b[i + 1]
      BY <1>6, <2>1, Zenon
    <3>3. b[i + 1] = s[n + (i + 1)]
      BY <1>3, <3>1, Zenon
    <3> QED
      BY <3>1, <3>2, <3>3, Zenon
  <2>4. \A i \in 1..Len(q) : q[i] = s[(n + 1) + Len(c) + i]
    <3> TAKE i \in 1..Len(q)
    <3>1. (n + 1) + Len(c) + i = n + Len(b) + i
      <4> HIDE DEF b, c, n
      <4> QED
        BY <1>2, <1>6, <2>1
    <3> QED
      BY <1>3, <3>1, Zenon
  <2>5. n + 1 \in Nat
    BY <1>2
  <2>6. StorerInv(t)'
    BY <1>3, <1>5, <2>1, <2>2, <2>3, <2>4, <2>5, Zenon DEF StorerInv
  <2>7. \A h \in Hosts : ~(h < 1) /\ (h # k => h < k \/ ~(h <= z))
    BY <1>8, <1>11
  <2>8. \A h \in Hosts : Stored(t, h)' = n + 1
    BY <1>7, <2>1, <2>2, <2>7, Zenon
  <2>9. \A h \in Hosts : h # k =>
          Stored(t, h) = n + 1 \/ (Stored(t, h) = n /\ ~Has(e, h))
    BY <1>1, <1>7, <2>7, Zenon DEF Has
  <2> QED
    BY <1>1, <1>9, <1>10, <2>6, <2>8, <2>9, Zenon
<1>12. CASE ~(k + 1 > z)
  <2>1. storer'[t].row = k + 1 /\ c = b
    BY <1>12, Zenon
  <2>2. Finished(t)' = n
    <3> HIDE DEF b, c, q, s, n
    <3> QED
      BY <1>2, <1>4, <2>1
  <2>3. StorerInv(t)'
    BY <1>1, <1>2, <1>3, <1>5, <2>1, <2>2, ZenonT(60) DEF StorerInv
  <2>4. k < k + 1 /\ \A h \in Hosts : h # k => (h < k + 1 <=> h < k)
    BY <1>8
  <2>5. Stored(t, k)' = n + 1
    BY <1>1, <1>7, <2>1, <2>2, <2>4, Zenon
  <2>6. \A h \in Hosts : h # k => Stored(t, h)' = Stored(t, h)
    BY <1>1, <1>7, <2>1, <2>2, <2>4, Zenon
  <2> QED
    BY <1>9, <1>10, <2>3, <2>5, <2>6, Zenon
<1> QED
  BY <1>11, <1>12, Zenon

\* Once a report is stored for a host, one is less to store for it.
LEMMA QueuedLess ==
  ASSUME NEW t \in Threads, NEW h, NEW n, n \in Nat, n + 1 \in 1..Len(handed[t]), handed' = handed,
         results' = results, Len(handed[t]) \in Nat, Has(handed[t][n + 1], h),
         Stored(t, h) = n, Stored(t, h)' = n + 1,
         \A u \in Threads : u # t => Stored(u, h)' = Stored(u, h)
  PROVE  /\ QueuedLeft(h)' = QueuedLeft(h) \ {<<t, n + 1>>}
         /\ <<t, n + 1>> \in QueuedLeft(h)
<1> DEFINE J == [u \in Threads |-> Unstored(u, h)]
           K == [u \in Threads |-> Unstored(u, h)']
           j == n + 1
<1>1. \A i : i \in j..Len(handed[t]) <=> i \in (j + 1)..Len(handed[t]) \/ i = j
  OBVIOUS
<1>2. j \notin (j + 1)..Len(handed[t])
  OBVIOUS
<1>3. \A i : i \in Unstored(t, h) <=> i \in j..Len(handed[t]) /\ h <= results[handed[t][i]]
  BY Zenon DEF Unstored, Has
<1>4. \A i : i \in Unstored(t, h)' <=> i \in (j + 1)..Len(handed[t]) /\ h <= results[handed[t][i]]
  BY Zenon DEF Unstored, Has
<1>5. j \notin Unstored(t, h)' /\ j \in Unstored(t, h)
  <2>1. h <= results[handed[t][j]]
    BY Zenon DEF Has
  <2> HIDE DEF j
  <2> QED
    BY <1>1, <1>2, <1>3, <1>4, <2>1, Zenon
<1>6. \A i : i # j => (i \in Unstored(t, h) <=> i \in Unstored(t, h)')
  <2> HIDE DEF j
  <2> QED
    BY <1>1, <1>3, <1>4, Zenon
<1>7. Unstored(t, h) = Unstored(t, h)' \cup {j}
  <2> HIDE DEF j
  <2> QED
    BY <1>5, <1>6, OneApart
<1>8. \A u \in Threads : u # t => Unstored(u, h) = Unstored(u, h)'
  BY Zenon DEF Unstored, Has
<1>9. j \notin K[t] /\ J[t] = K[t] \cup {j} /\ \A u \in Threads : u # t => J[u] = K[u]
  BY <1>5, <1>7, <1>8, Zenon
<1>10. QueuedLeft(h) = Pairs(J) /\ QueuedLeft(h)' = Pairs(K)
  BY QueuedPairs, Zenon
<1> HIDE DEF J, K, j
<1>11. Pairs(J) = Pairs(K) \cup {<<t, j>>} /\ <<t, j>> \notin Pairs(K)
  BY <1>9, OnePairMore
<1> QED
  BY <1>10, <1>11, Zenon DEF j

\* A storing thread moves on: past the last result the report leaves the batch.
LEMMA StorerOn ==
  ASSUME NEW t \in Threads, storer \in [Threads -> StorerState], NEW k \in Hosts,
         NEW z \in 0..HostCnt, NEW b \in Seq(1..MaxReports), b = Tail(storer[t].batch),
         \/ k + 1 > z /\ storer' = [storer EXCEPT ![t].row = 1, ![t].batch = Tail(@)]
         \/ ~(k + 1 > z) /\ storer' = [storer EXCEPT ![t].row = k + 1]
  PROVE  /\ storer' \in [Threads -> StorerState]
         /\ \A u \in Threads : u # t => storer'[u] = storer[u]
         /\ \/ k + 1 > z /\ storer'[t].row = 1 /\ storer'[t].batch = b
            \/ ~(k + 1 > z) /\ storer'[t].row = k + 1 /\ storer'[t].batch = storer[t].batch
<1>1. 1 \in Hosts /\ (~(k + 1 > z) => k + 1 \in Hosts)
  BY Constants DEF Hosts
<1>2. PICK s \in StorerState : s = storer[t]
  BY Zenon
<1>3. CASE k + 1 > z
  <2> DEFINE r == [pc |-> s.pc, batch |-> b, row |-> 1]
  <2>1. [s EXCEPT !.row = 1, !.batch = b] = r /\ r \in StorerState
    <3>1. 1 \in Hosts
      BY <1>1, Zenon
    <3>2. [s EXCEPT !.row = 1, !.batch = b] = r
      BY <3>1, PutBatch, ZenonT(60)
    <3>3. r \in StorerState
      BY <3>1, PutBatch, Zenon
    <3> QED
      BY <3>2, <3>3, Zenon
  <2>2. storer' = [storer EXCEPT ![t] = [s EXCEPT !.row = 1, !.batch = b]]
    <3>1. storer' = [storer EXCEPT ![t].row = 1, ![t].batch = Tail(@)]
      BY <1>3, Zenon
    <3> QED
      BY <1>2, <3>1, Zenon DEF StorerState
  <2>3. r.row = 1 /\ r.batch = b
    BY Zenon
  <2> HIDE DEF r
  <2>4. storer' = [storer EXCEPT ![t] = r]
    BY <2>1, <2>2, Zenon
  <2> QED
    BY <1>1, <1>3, <2>1, <2>3, <2>4, Zenon
<1>4. CASE ~(k + 1 > z)
  <2> DEFINE r == [pc |-> s.pc, batch |-> s.batch, row |-> k + 1]
  <2>1. [s EXCEPT !.row = k + 1] = r /\ r \in StorerState
    <3>1. k + 1 \in Hosts
      BY <1>1, <1>4, Zenon
    <3> QED
      BY <3>1, PutBatch, Zenon
  <2>2. r.row = k + 1 /\ r.batch = storer[t].batch
    BY <1>2, Zenon
  <2> HIDE DEF r
  <2>3. storer' = [storer EXCEPT ![t] = r]
    BY <1>2, <1>4, <2>1, Zenon
  <2> QED
    BY <1>1, <1>4, <2>1, <2>2, <2>3, Zenon
<1> QED
  BY <1>3, <1>4, Zenon

\* A storing thread's store of one row.
LEMMA StoreQueuedStep ==
  ASSUME Inv, NEW t \in Threads, NEW ok \in BOOLEAN, StoreQueued(t, ok)
  PROVE  Inv'
<1>1. PICK k, e, n, z : /\ k = storer[t].row /\ e = Head(storer[t].batch) /\ n = Finished(t)
                        /\ z = results[e]
  BY Zenon
<1>2. /\ started /\ ended = "no" /\ storer[t].batch # <<>> /\ StoreRow(e, k, ok)
      /\ UNCHANGED <<conf, started, thread_cnt, index, queues, worker, conns, reportVars, ended,
                     handed, raced>>
  BY <1>1, Zenon DEF StoreQueued, Running
<1>3. \/ k + 1 > z /\ storer' = [storer EXCEPT ![t].row = 1, ![t].batch = Tail(@)]
      \/ ~(k + 1 > z) /\ storer' = [storer EXCEPT ![t].row = k + 1]
  BY <1>1, Zenon DEF StoreQueued, NextRow
<1>4. /\ storer[t] \in StorerState /\ storer[t].batch \in Seq(1..MaxReports) /\ k \in Hosts
  BY <1>1, ThreadTypes, StorerFields, Zenon
<1>5. e \in 1..MaxReports /\ Tail(storer[t].batch) \in Seq(1..MaxReports)
  BY <1>1, <1>2, <1>4, TailFacts, Zenon
<1>6. n \in Nat /\ Len(handed[t]) \in Nat /\ e # 0
  <2>1. n \in Nat
    BY <1>1, <1>4, FinishedFacts, Zenon
  <2>2. handed[t] \in Seq(1..MaxReports)
    BY QueueTypes, Zenon
  <2>3. Len(handed[t]) \in Nat
    BY <2>2
  <2>4. e # 0
    BY <1>5
  <2> QED
    BY <2>1, <2>3, <2>4, Zenon
<1>7. e \in 1..arrived /\ z \in 0..HostCnt
  <2>1. 1 \in 1..Len(storer[t].batch) /\ e = storer[t].batch[1]
    BY <1>1, <1>2, <1>4, TailFacts
  <2>2. storer[t].batch[1] = handed[t][n + 1]
    BY <1>1, <2>1, InvParts, Zenon DEF StorerInv
  <2>3. n + 1 \in 1..Len(handed[t])
    <3>1. /\ Len(storer[t].batch) \in Nat /\ Len(queues[t]) \in Nat
          /\ Len(handed[t]) = n + Len(storer[t].batch) + Len(queues[t])
      BY <1>1, <1>4, FinishedFacts, Zenon
    <3>2. \A i, b, q \in Nat : 1 \in 1..b => i + 1 \in 1..(i + b + q)
      OBVIOUS
    <3> QED
      BY <1>6, <2>1, <3>1, <3>2, Zenon
  <2>4. e \in 1..arrived
    BY <1>1, <2>1, <2>2, <2>3, InvParts, Zenon DEF StorerInv
  <2> QED
    BY <1>1, <2>4, ResultOf, Zenon
<1>8. /\ arrived' = arrived /\ results' = results /\ ReportsStay
      /\ \A h : ReportsOn(h)' = ReportsOn(h)
  BY <1>2, ReportsSame, Zenon
<1>9. /\ storer' \in [Threads -> StorerState]
      /\ \A u \in Threads : u # t => storer'[u] = storer[u]
      /\ \/ k + 1 > z /\ storer'[t].row = 1 /\ storer'[t].batch = Tail(storer[t].batch)
         \/ ~(k + 1 > z) /\ storer'[t].row = k + 1 /\ storer'[t].batch = storer[t].batch
  <2>1. storer \in [Threads -> StorerState]
    BY ThreadTypes, Zenon
  <2> QED
    BY <1>3, <1>4, <1>5, <1>7, <2>1, StorerOn, Zenon
<1>10. /\ StorerInv(t)' /\ Stored(t, k) = n /\ Stored(t, k)' = n + 1
       /\ \A h \in Hosts : h # k =>
            \/ Stored(t, h)' = Stored(t, h)
            \/ Stored(t, h) = n /\ Stored(t, h)' = n + 1 /\ ~Has(e, h)
       /\ n + 1 \in 1..Len(handed[t]) /\ handed[t][n + 1] = e
  <2>1. /\ storer[t].batch # <<>> /\ storer' \in [Threads -> StorerState]
        /\ queues' = queues /\ handed' = handed /\ arrived' = arrived
        /\ k = storer[t].row /\ e = Head(storer[t].batch) /\ z \in 0..HostCnt /\ z = results[e]
    BY <1>1, <1>2, <1>7, <1>8, <1>9, Zenon
  <2>2. \/ k + 1 > z /\ storer'[t].row = 1 /\ storer'[t].batch = Tail(storer[t].batch)
        \/ ~(k + 1 > z) /\ storer'[t].row = k + 1 /\ storer'[t].batch = storer[t].batch
    BY <1>9, Zenon
  <2>3. /\ StorerInv(t)'
        /\ Stored(t, k) = Finished(t) /\ Stored(t, k)' = Finished(t) + 1
        /\ \A h \in Hosts : h # k =>
             \/ Stored(t, h)' = Stored(t, h)
             \/ Stored(t, h) = Finished(t) /\ Stored(t, h)' = Finished(t) + 1 /\ ~Has(e, h)
        /\ Finished(t) + 1 \in 1..Len(handed[t])
        /\ handed[t][Finished(t) + 1] = e
    BY <2>1, <2>2, StoredOn, ZenonT(60)
  <2> QED
    BY <1>1, <2>3, Zenon
<1>11. /\ db' \in [Hosts -> 0..MaxReports] /\ fails' \in [Hosts -> 0..MaxFails]
       /\ \A h \in Hosts : h # k \/ ~Has(e, k) => db'[h] = db[h] /\ fails'[h] = fails[h]
       /\ Has(e, k) => /\ fails'[k] = 0 => db'[k] = e
                       /\ db'[k] = 0 => db[k] = 0 /\ fails'[k] = fails[k] + 1
                       /\ db'[k] \in {db[k], e}
  BY <1>2, <1>4, <1>5, StoreRowFacts, Zenon
<1>12. \A u \in Threads : u # t => StorerInv(u)' /\ \A h : Stored(u, h)' = Stored(u, h)
  BY <1>2, <1>8, <1>9, OthersKept, Zenon
<1>13. ASSUME NEW h \in Hosts, h # k \/ ~Has(e, k)
       PROVE  \A u \in Threads : SameFor(u, h)
  <2>1. n + 1 <= Len(handed[t])
    BY <1>6, <1>10
  <2>2. SameFor(t, h)
    BY <1>2, <1>10, <1>13, <2>1, Zenon DEF SameFor
  <2>3. \A u \in Threads : u # t => SameFor(u, h)
    BY <1>2, <1>12, Zenon DEF SameFor
  <2> QED
    BY <2>2, <2>3, Zenon
<1>14. TypeOK'
  BY <1>2, <1>8, <1>9, <1>11, Zenon DEF Inv, TypeOK
<1>15. CrashOnlyIfRaced' /\ IndexInv' /\ \A w \in Workers : WorkerInv(w)'
  BY <1>2, <1>8, WorkersKept, Zenon DEF SameWorkers
<1>16. ASSUME NEW h \in Hosts PROVE RowInv(h)'
  <2>1. RowInv(h)
    BY <1>2, InvParts, Zenon
  <2>2. CASE h = k /\ Has(e, k)
    <3>1. e \in ReportsOn(h)
      BY <1>7, <2>2, Zenon DEF ReportsOn
    <3>2. db'[h] # 0 => db'[h] \in ReportsOn(h)'
      BY <1>8, <1>11, <2>1, <2>2, <3>1, Zenon DEF RowInv
    <3>3. NoneOn(h, t, (n + 1) + 1, Stored(t, h))'
      <4>1. \A i \in ((n + 1) + 1)..(n + 1) : FALSE
        BY <1>6
      <4> QED
        BY <1>10, <2>2, <4>1, Zenon DEF NoneOn
    <3>4. fails'[h] = 0 => db'[h] = e /\ FromStorer(h)'
      BY <1>2, <1>10, <1>11, <2>2, <3>3, Zenon DEF FromStorer
    <3> QED
      BY <1>6, <3>2, <3>4, Zenon DEF RowInv
  <2>3. CASE h # k \/ ~Has(e, k)
    BY <1>2, <1>8, <1>11, <1>13, <2>1, <2>3, FromStorerKept, RowKept, Zenon
  <2> QED
    BY <2>2, <2>3, Zenon
<1>17. ASSUME NEW h \in Hosts PROVE CountInv(h)'
  <2>1. OwnLeft(h)' = OwnLeft(h) /\ ToSend(h)' = ToSend(h)
    BY <1>2, <1>8, WorkersLeftKept, Zenon
  <2>2. CountInv(h)
    BY <1>2, InvParts, Zenon
  <2>3. CASE h = k /\ Has(e, k)
    <3>1. QueuedLeft(h)' = QueuedLeft(h) \ {<<t, n + 1>>} /\ <<t, n + 1>> \in QueuedLeft(h)
      <4>1. Has(handed[t][n + 1], h) /\ Stored(t, h) = n /\ Stored(t, h)' = n + 1
        BY <1>10, <2>3, Zenon
      <4> QED
        BY <1>2, <1>6, <1>8, <1>10, <1>12, <4>1, QueuedLess, ZenonT(60)
    <3>2. /\ IsFiniteSet(QueuedLeft(h)')
          /\ Cardinality(QueuedLeft(h)') = Cardinality(QueuedLeft(h)) - 1
      BY <2>2, <3>1, OneLess, Zenon DEF CountInv
    <3>3. db[h] = 0 =>
            (fails[h] + 1) + Cardinality(OwnLeft(h)) + Cardinality(ToSend(h))
              + (Cardinality(QueuedLeft(h)) - 1) >= 2 * Cardinality(ReportsOn(h))
      BY <1>2, CountBalance, Zenon
    <3> QED
      BY <1>8, <1>11, <2>1, <2>2, <2>3, <3>2, <3>3, Zenon DEF CountInv
  <2>4. CASE h # k \/ ~Has(e, k)
    <3>1. QueuedLeft(h)' = QueuedLeft(h)
      BY <1>2, <1>8, <1>13, <2>4, QueuedKept, Zenon
    <3> QED
      BY <1>8, <1>11, <2>1, <2>2, <2>4, <3>1, CountKept, Zenon
  <2> QED
    BY <2>3, <2>4, Zenon
<1> QED
  BY <1>10, <1>12, <1>14, <1>15, <1>16, <1>17, Zenon DEF Inv

-----------------------------------------------------------------------------
(* The theorems *)

\* Nothing has arrived and nothing has been stored.
LEMMA InitInv ==
  ASSUME Init
  PROVE  Inv
<1>1. /\ conf \in Configurations /\ started = FALSE /\ thread_cnt = 0 /\ index = 0
      /\ queues = [t \in Threads |-> <<>>] /\ handed = [t \in Threads |-> <<>>]
      /\ worker = [w \in Workers |-> IdleWorker]
      /\ storer = [t \in Threads |-> [pc |-> "none", batch |-> <<>>, row |-> 1]]
      /\ db = [h \in Hosts |-> 0] /\ fails = [h \in Hosts |-> 0]
      /\ conns = 0 /\ arrived = 0 /\ results = <<>> /\ ended = "no" /\ raced = FALSE
  BY Zenon DEF Init
<1>2. IdleWorker \in WorkerState /\ IdleWorker.pc = "idle"
  BY Constants DEF IdleWorker, WorkerState
<1>3. [pc |-> "none", batch |-> <<>>, row |-> 1] \in StorerState
  BY Constants DEF StorerState, Hosts
<1>4. worker \in [Workers -> WorkerState] /\ \A w \in Workers : worker[w].pc = "idle"
  BY <1>1, <1>2, Zenon
<1>5. storer \in [Threads -> StorerState]
  BY <1>1, <1>3, Zenon
<1>6. \A t \in Threads : storer[t].batch = <<>> /\ storer[t].row = 1 /\ queues[t] = <<>> /\ handed[t] = <<>>
  BY <1>1, Zenon
<1>7. queues \in [Threads -> Seq(1..MaxReports)] /\ handed \in [Threads -> Seq(1..MaxReports)]
  BY <1>1
<1>8. db \in [Hosts -> 0..MaxReports] /\ fails \in [Hosts -> 0..MaxFails] /\ \A h \in Hosts : db[h] = 0
  BY <1>1, Constants
<1>9. /\ thread_cnt \in 0..MaxThreads /\ index \in Nat /\ conns \in 0..DbLimit
      /\ arrived \in 0..MaxReports /\ results \in Seq(0..HostCnt) /\ Len(results) = arrived
  BY <1>1, Constants
<1>10. TypeOK
  BY <1>1, <1>4, <1>5, <1>7, <1>8, <1>9, Zenon DEF TypeOK
<1>11. CrashOnlyIfRaced
  BY <1>1, Zenon DEF CrashOnlyIfRaced
<1>12. IndexInv
  BY <1>1, <1>4, Zenon DEF IndexInv, AtIndex
<1>13. \A w \in Workers : WorkerInv(w)
  BY <1>4, Zenon DEF WorkerInv
<1>14. ASSUME NEW t \in Threads PROVE StorerInv(t)
  <2>1. Len(<<>>) = 0 /\ 0 - 0 - 0 \in Nat /\ \A i \in 1..0 : FALSE
    OBVIOUS
  <2>2. Finished(t) = 0 - 0 - 0
    BY <1>6, <2>1, Zenon DEF Finished
  <2> QED
    BY <1>6, <2>1, <2>2, Zenon DEF StorerInv
<1>15. ASSUME NEW h \in Hosts PROVE ReportsOn(h) = {} /\ RowInv(h)
  <2>1. \A i \in 1..0 : FALSE
    OBVIOUS
  <2>2. ReportsOn(h) = {}
    BY <1>1, <2>1, Zenon DEF ReportsOn
  <2> QED
    BY <1>8, <2>2, Zenon DEF RowInv
<1>16. ASSUME NEW h \in Hosts PROVE CountInv(h)
  <2>1. OwnLeft(h) = {} /\ ToSend(h) = {}
    BY <1>4, Zenon DEF OwnLeft, ToSend
  <2>2. QueuedLeft(h) = {}
    <3>1. ASSUME NEW t \in Threads, NEW i \in (Stored(t, h) + 1)..Len(handed[t]) PROVE FALSE
      <4>1. Len(handed[t]) = 0 /\ Stored(t, h) = Finished(t)
        BY <1>6 DEF Stored
      <4>2. Finished(t) \in Nat
        BY <1>14, Zenon DEF StorerInv
      <4> QED
        BY <3>1, <4>1, <4>2
    <3> DEFINE J == [t \in Threads |-> Unstored(t, h)]
    <3>2. QueuedLeft(h) = Pairs(J)
      BY QueuedPairs, Zenon
    <3>3. \A t \in Threads : \A i : i \notin J[t]
      BY <3>1, Zenon DEF Unstored
    <3> HIDE DEF J
    <3>4. \A x \in Pairs(J) : \E t \in Threads : \E i \in J[t] : x = <<t, i>>
      BY InPairs, Zenon
    <3> QED
      BY <3>2, <3>3, <3>4, Zenon DEF J
  <2>3. IsFiniteSet({}) /\ Cardinality({}) = 0
    BY FS_EmptySet, Zenon
  <2>4. fails[h] = 0 /\ 0 + 0 + 0 + 0 >= 2 * 0
    BY <1>1
  <2> QED
    BY <1>15, <2>1, <2>2, <2>3, <2>4, Zenon DEF CountInv
<1> QED
  BY <1>10, <1>11, <1>12, <1>13, <1>14, <1>15, <1>16, Zenon DEF Inv

\* Every step keeps the invariant.
LEMMA NextInv ==
  ASSUME Inv, [Next]_vars
  PROVE  Inv'
<1>1. CASE Main
  BY <1>1, MainStep, Zenon
<1>2. ASSUME NEW w \in Workers, Request(w) PROVE Inv'
  BY <1>2, RequestStep, Zenon
<1>3. ASSUME NEW w \in Workers, Worker(w) PROVE Inv'
  BY <1>3, StoreOwnStep, SendStep, LoadIndexStep, StoreIndexStep, Zenon DEF Worker
<1>4. ASSUME NEW t \in Threads, Storer(t) PROVE Inv'
  BY <1>4, StoreMainStep, ThreadReportStep, StoreQueuedStep, Zenon DEF Storer
<1>5. CASE UNCHANGED vars
  <2>1. UNCHANGED <<conf, started, thread_cnt, index, queues, worker, storer, db, fails, conns,
                    reportVars, ended, handed, raced>>
    BY <1>5, Zenon DEF vars, dbVars
  <2>2. SameStorage /\ ReportsStay /\ arrived' = arrived /\ results' = results
    BY <2>1, ReportsSame, Zenon DEF SameStorage
  <2>3. TypeOK'
    BY <2>1, <2>2, Zenon DEF Inv, TypeOK
  <2>4. CrashOnlyIfRaced' /\ IndexInv' /\ \A w \in Workers : WorkerInv(w)'
    BY <2>1, <2>2, InvParts, Zenon DEF CrashOnlyIfRaced, IndexInv, WorkerInv, AtIndex
  <2>5. ended' # "crashed" => \A h \in Hosts : RowInv(h)'
    BY <2>1, <2>2, StorageSame, FromStorerKept, RowKept, InvParts, Zenon
  <2>6. ended' # "crashed" => \A h \in Hosts : CountInv(h)'
    BY <2>1, <2>2, StorageCountKept, InvParts, Zenon
  <2> QED
    BY <2>2, <2>3, <2>4, <2>5, <2>6, StorageKept, InvParts, Zenon DEF Inv
<1> QED
  BY <1>1, <1>2, <1>3, <1>4, <1>5, Zenon DEF Next

\* The invariant of the reporter.
THEOREM ReporterInvariance == Spec => []Inv
<1>1. Init => Inv
  BY InitInv, Zenon
<1>2. Inv /\ [Next]_vars => Inv'
  BY NextInv, Zenon
<1> QED
  BY <1>1, <1>2, PTL DEF Spec

\* get_report_status leaves the array of queues only when two workers are at
\* the static index at once, or when the configured number of threads is no
\* positive number.
THEOREM ArrayLeftOnlyInARace == Spec => []CrashOnlyIfRaced
<1>1. Inv => CrashOnlyIfRaced
  BY Zenon DEF Inv
<1> QED
  BY <1>1, ReporterInvariance, PTL

\* When all is done, a storing thread has stored all it was sent.
LEMMA AllStored ==
  ASSUME Inv, Quiet, NEW t \in Threads, NEW h \in Hosts
  PROVE  Stored(t, h) = Len(handed[t]) /\ Len(handed[t]) \in Nat
<1>1. queues[t] = <<>> /\ storer[t].batch = <<>>
  BY Zenon DEF Quiet
<1>2. Stored(t, h) = Finished(t) /\ Len(storer[t].batch) = Len(<<>>) /\ Len(queues[t]) = Len(<<>>)
  BY <1>1, Zenon DEF Stored
<1>3. Len(<<>>) = 0
  BY Zenon
<1> QED
  BY <1>2, <1>3, FinishedFacts

\* And nothing is left with the workers.
LEMMA NothingLeft ==
  ASSUME Quiet, NEW h
  PROVE  OwnLeft(h) = {} /\ ToSend(h) = {}
<1>1. \A w \in Workers : worker[w].pc = "idle"
  BY Zenon DEF Quiet
<1> QED
  BY <1>1, Zenon DEF OwnLeft, ToSend

\* When all reports are stored and no query for a host failed, the host's row
\* is from the last report on it of one of the storing threads.
THEOREM LastOfAThreadStays == Spec => []RowFromLastOfAThread
<1>1. Inv => RowFromLastOfAThread
  <2> SUFFICES ASSUME Inv, Quiet, NEW h \in Hosts, fails[h] = 0, ReportsOn(h) # {}
               PROVE  \E t \in Threads : \E i \in 1..Len(handed[t]) :
                        /\ handed[t][i] = db[h] /\ Has(db[h], h)
                        /\ NoneOn(h, t, i + 1, Len(handed[t]))
    BY Zenon DEF RowFromLastOfAThread
  <2>1. RowInv(h)
    BY InvParts, Zenon DEF Quiet, Running
  <2>2. db[h] # 0
    BY <2>1, NothingLeft, Zenon DEF RowInv
  <2>3. Has(db[h], h)
    BY <2>1, <2>2, Zenon DEF RowInv, ReportsOn
  <2>4. FromStorer(h)
    BY <2>1, <2>2, NothingLeft, Zenon DEF RowInv, FromWorker
  <2>5. PICK t \in Threads : \E i \in 1..Len(handed[t]) :
          handed[t][i] = db[h] /\ NoneOn(h, t, i + 1, Stored(t, h))
    BY <2>4, Zenon DEF FromStorer
  <2>6. Stored(t, h) = Len(handed[t])
    BY AllStored, Zenon
  <2> QED
    BY <2>3, <2>5, <2>6, Zenon
<1> QED
  BY <1>1, ReporterInvariance, PTL

\* When all is done, a host without a row is one for which both stores of every
\* report on it failed: no report is lost between get_report_status, the queues
\* and the storing threads.
THEOREM NoReportLost == Spec => []MissingOnlyIfAllFailed
<1>1. Inv => MissingOnlyIfAllFailed
  <2> SUFFICES ASSUME Inv, Quiet, NEW h \in Hosts, db[h] = 0
               PROVE  fails[h] >= 2 * Cardinality(ReportsOn(h))
    BY Zenon DEF MissingOnlyIfAllFailed
  <2>1. CountInv(h) /\ OwnLeft(h) = {} /\ ToSend(h) = {}
    BY InvParts, NothingLeft, Zenon DEF Quiet, Running
  <2> DEFINE J == [t \in Threads |-> Unstored(t, h)]
  <2>2. ASSUME NEW t \in Threads, NEW i PROVE i \notin J[t]
    <3>1. i \notin (Stored(t, h) + 1)..Len(handed[t])
      BY AllStored
    <3> QED
      BY <3>1, Zenon DEF Unstored
  <2>3. QueuedLeft(h) = Pairs(J)
    BY QueuedPairs, Zenon
  <2> HIDE DEF J
  <2>4. QueuedLeft(h) = {}
    <3>1. \A x \in Pairs(J) : \E t \in Threads : \E i \in J[t] : x = <<t, i>>
      BY InPairs, Zenon
    <3> QED
      BY <2>2, <2>3, <3>1, Zenon
  <2>5. Cardinality({}) = 0
    BY FS_EmptySet, Zenon
  <2>6. fails[h] + 0 + 0 + 0 >= 2 * Cardinality(ReportsOn(h))
    BY <2>1, <2>4, <2>5, Zenon DEF CountInv
  <2>7. fails[h] \in Nat
    BY DbTypes, Constants
  <2>8. Cardinality(ReportsOn(h)) \in Nat
    BY ReportsFinite, Zenon
  <2> QED
    BY <2>6, <2>7, <2>8
<1> QED
  BY <1>1, ReporterInvariance, PTL
=============================================================================
