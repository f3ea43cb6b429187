---------------------------- MODULE BufPoolProofs ----------------------------
(***************************************************************************)
(* Proofs that buffers are never shared, lost or misfiled and that         *)
(* alloc_buf returns what its caller asked for, for any number of threads, *)
(* buffers, capacities and initial lists.                                  *)
(***************************************************************************)
EXTENDS BufPool, FiniteSetTheorems, TLAPS

-----------------------------------------------------------------------------
(* Facts about the data *)

\* Every nonempty set of numbers has a lowest one.
LEMMA Lowest ==
  ASSUME NEW T \in SUBSET Nat, T # {}
  PROVE  \E x \in T : \A y \in T : x <= y
<1> DEFINE R == OpToRel(<, Nat)
<1>1. IsWellFoundedOn(R, Nat)
  BY NatLessThanWellFounded, Zenon
<1>2. \A a, b \in Nat : a < b => <<a, b>> \in R
  BY Zenon DEF OpToRel
<1> HIDE DEF R
<1>3. PICK x \in T : \A y \in T : ~(<<y, x>> \in R)
  BY <1>1, WFMin, Zenon
<1>4. ASSUME NEW y \in T PROVE x <= y
  <2>1. x \in Nat /\ y \in Nat
    BY Zenon
  <2>2. ~(y < x)
    BY <1>2, <1>3, <2>1, Zenon
  <2> QED
    BY <2>1, <2>2
<1> QED
  BY <1>4, Zenon

\* The capacity that alloc_buf's chain of comparisons picks is the smallest that
\* fits.
LEMMA SmallestFits ==
  ASSUME NEW n, Fitting(n) # {}
  PROVE  /\ SizeClass(n) \in Fitting(n) /\ SizeClass(n) \in Caps
         /\ \A c \in Fitting(n) : SizeClass(n) <= c
<1>1. Fitting(n) \in SUBSET Nat /\ Fitting(n) \subseteq Caps
  BY SizesAssumption, Zenon DEF Fitting
<1>2. \E c \in Fitting(n) : \A d \in Fitting(n) : c <= d
  BY <1>1, Lowest, Zenon
<1> QED
  BY <1>1, <1>2, Zenon DEF SizeClass

\* The buffers of a list.
LEMMA ListFacts ==
  ASSUME NEW q \in Seq(Bufs)
  PROVE  /\ Len(q) \in Nat /\ (q = <<>> <=> Len(q) = 0)
         /\ \A i \in 1..Len(q) : q[i] \in Bufs
  OBVIOUS

\* The rest of a list behind its first buffer.
LEMMA RestFacts ==
  ASSUME NEW q \in Seq(Bufs), q # <<>>
  PROVE  /\ Tail(q) \in Seq(Bufs) /\ Len(Tail(q)) = Len(q) - 1
         /\ \A i \in 1..Len(Tail(q)) : Tail(q)[i] = q[i + 1]
  OBVIOUS

\* A list with one more buffer in front.
LEMMA FrontFacts ==
  ASSUME NEW q \in Seq(Bufs), NEW x \in Bufs
  PROVE  /\ <<x>> \o q \in Seq(Bufs) /\ Len(<<x>> \o q) = Len(q) + 1
         /\ (<<x>> \o q)[1] = x
         /\ \A i \in 1..Len(q) : (<<x>> \o q)[i + 1] = q[i]
  OBVIOUS

\* The pointers of the pool.
LEMMA PoolType == Inv => /\ pool \in [Caps -> Bufs \cup {Null}] /\ next \in [Bufs -> Bufs \cup {Null}]
                         /\ cap \in [Bufs -> Caps \cup {0}] /\ dirty \in [Bufs -> BOOLEAN]
BY Zenon DEF Inv, TypeOK

\* The counter, the mutex and the process.
LEMMA MiscType == Inv => /\ totalMem \in Nat /\ mutex \in Threads \cup {Nobody} /\ exited \in BOOLEAN
BY Zenon DEF Inv, TypeOK

\* The threads' locals.
LEMMA ThreadType == Inv => /\ pc \in [Threads -> Pc] /\ want \in [Threads -> Sizes \cup {0}]
                           /\ ref \in [Threads -> Bufs \cup {Null}] /\ held \in [Threads -> SUBSET Bufs]
BY Zenon DEF Inv, TypeOK

\* What a thread owns was created.
LEMMA OwnedCreated == ASSUME Inv, NEW t \in Threads PROVE Owned(t) \subseteq Created
<1>1. held[t] \subseteq Created
  BY Zenon DEF Inv, OwnInv
<1>2. InHand(t) \subseteq Created
  BY Zenon DEF Inv, RefInv, InHand
<1> QED
  BY <1>1, <1>2, Zenon DEF Owned

\* A thread's own buffers are its alone, and on no list.
LEMMA OwnedAlone ==
  ASSUME Inv, NEW t \in Threads, NEW b \in Owned(t)
  PROVE  /\ b \in Bufs /\ ~Free(b) /\ \A u \in Threads : u # t => b \notin Owned(u)
<1>1. b \in Bufs
  BY OwnedCreated, Zenon DEF Created
<1>2. ~Free(b)
  BY Zenon DEF Free
<1>3. \A u \in Threads : u # t => b \notin Owned(u)
  BY Zenon DEF Inv, OwnInv
<1> QED
  BY <1>1, <1>2, <1>3, Zenon

\* A step that t takes changes nothing of the other threads.
OthersSame(t) ==
  \A u \in Threads : u # t =>
    pc'[u] = pc[u] /\ ref'[u] = ref[u] /\ held'[u] = held[u] /\ want'[u] = want[u]

\* The others own what they owned.
LEMMA OthersOwn ==
  ASSUME NEW t \in Threads, OthersSame(t), NEW u \in Threads, u # t
  PROVE  InHand(u)' = InHand(u) /\ Owned(u)' = Owned(u)
BY Zenon DEF OthersSame, InHand, Owned

\* Ownership stays exclusive when t takes nothing that another thread has.
LEMMA StillOwn ==
  ASSUME Inv, NEW t \in Threads, OthersSame(t), Created \subseteq Created',
         held'[t] \subseteq Created', InHand(t)' \cap held'[t] = {},
         \A u \in Threads : u # t => Owned(t)' \cap Owned(u) = {}
  PROVE  OwnInv'
<1>1. ASSUME NEW u \in Threads PROVE held'[u] \subseteq Created' /\ InHand(u)' \cap held'[u] = {}
  <2>1. CASE u = t
    BY <2>1, Zenon
  <2>2. CASE u # t
    <3>1. held'[u] = held[u] /\ InHand(u)' = InHand(u)
      BY <2>2, OthersOwn, Zenon DEF OthersSame
    <3>2. held[u] \subseteq Created /\ InHand(u) \cap held[u] = {}
      BY Zenon DEF Inv, OwnInv
    <3> QED
      BY <3>1, <3>2, Zenon
  <2> QED
    BY <2>1, <2>2, Zenon
<1>2. ASSUME NEW u \in Threads, NEW v \in Threads, u # v PROVE Owned(u)' \cap Owned(v)' = {}
  <2>1. CASE u = t
    BY <1>2, <2>1, OthersOwn, Zenon
  <2>2. CASE v = t
    BY <1>2, <2>2, OthersOwn, Zenon
  <2>3. CASE u # t /\ v # t
    <3>1. Owned(u)' = Owned(u) /\ Owned(v)' = Owned(v)
      BY <2>3, OthersOwn, Zenon
    <3>2. Owned(u) \cap Owned(v) = {}
      BY <1>2, Zenon DEF Inv, OwnInv
    <3> QED
      BY <3>1, <3>2, Zenon
  <2> QED
    BY <2>1, <2>2, <2>3, Zenon
<1> QED
  BY <1>1, <1>2, Zenon DEF OwnInv

\* The lists stay when their buffers do.
LEMMA ListsKept ==
  ASSUME Inv, pool' = pool,
         \A b \in Bufs : Free(b)' <=> Free(b),
         \A b \in Bufs : Free(b) => next'[b] = next[b] /\ cap'[b] = cap[b]
  PROVE  ListInv'
<1> SUFFICES ASSUME NEW c \in Caps PROVE \E s \in Seq(Bufs) : IsList(c, s)'
  BY Zenon DEF ListInv
<1>1. PICK s \in Seq(Bufs) : IsList(c, s)
  BY Zenon DEF Inv, ListInv
<1>2. \A i \in 1..Len(s) : s[i] \in Bufs /\ Free(s[i]) /\ cap[s[i]] = c
  BY <1>1, ListFacts, Zenon DEF IsList
<1>3. \A i \in 1..Len(s) : Free(s[i])' /\ cap'[s[i]] = c /\ next'[s[i]] = next[s[i]]
  BY <1>2, Zenon
<1>4. \A b \in Bufs : Free(b)' /\ cap'[b] = c => \E i \in 1..Len(s) : s[i] = b
  BY <1>1, Zenon DEF IsList
<1>5. IsList(c, s)'
  BY <1>1, <1>3, <1>4, Zenon DEF IsList
<1> QED
  BY <1>5, Zenon

\* Another thread's locals keep their worth when its buffers and, inside the
\* critical section, the heads stay.
LEMMA RefKept ==
  ASSUME Inv, NEW t \in Threads, OthersSame(t), NEW u \in Threads, u # t,
         \A b \in Owned(u) : next'[b] = next[b] /\ dirty'[b] = dirty[b] /\ cap'[b] = cap[b],
         mutex = u => pool' = pool
  PROVE  RefInv(u)'
<1>1. RefInv(u) /\ (pc[u] \in {"picked", "linked"} => mutex = u)
  BY Zenon DEF Inv, MutexInv
<1>2. pc'[u] = pc[u] /\ ref'[u] = ref[u] /\ want'[u] = want[u]
  BY Zenon DEF OthersSame
<1>3. CASE InHand(u) = {}
  <2>1. pc[u] \in {"unlinked", "returned", "revert", "relock", "linked"} => ref[u] = Null
    BY <1>3, Zenon DEF InHand
  <2>2. pc[u] \notin {"unlinked", "revert", "relock", "linked"}
    BY <1>1, <2>1, NamesAssumption, Zenon DEF RefInv, Created
  <2> QED
    BY <1>1, <1>2, <2>1, <2>2, Zenon DEF RefInv, Result
<1>4. CASE InHand(u) # {}
  <2>1. /\ pc[u] \in {"unlinked", "returned", "revert", "relock", "linked"} /\ ref[u] \in Owned(u)
        /\ ref[u] # Null
    BY <1>4, Zenon DEF InHand, Owned
  <2>2. PICK b \in Bufs : b = ref[u]
    BY <2>1, OwnedAlone, Zenon
  <2>3. next'[b] = next[b] /\ dirty'[b] = dirty[b] /\ cap'[b] = cap[b]
    BY <2>1, <2>2, Zenon
  <2>4. b \in Created => b \in Created'
    BY <2>3, Zenon DEF Created
  <2>5. Result(u) => Result(u)'
    BY <1>2, <2>2, <2>3, Zenon DEF Result
  <2> QED
    BY <1>1, <1>2, <2>1, <2>2, <2>3, <2>4, <2>5, Zenon DEF RefInv
<1> QED
  BY <1>3, <1>4, Zenon

\* The positions inside the critical section.
Inside == {"locked", "picked", "relock", "linked"}

\* The mutex is taken when it is free, given back by its owner, or left alone.
LEMMA MutexStep ==
  ASSUME Inv, NEW t \in Threads, NEW p \in Pc, pc' = [pc EXCEPT ![t] = p],
         \/ mutex' = mutex /\ (p \in Inside <=> pc[t] \in Inside)
         \/ mutex = Nobody /\ mutex' = t /\ p \in Inside
         \/ mutex' = Nobody /\ pc[t] \in Inside /\ p \notin Inside
  PROVE  MutexInv'
<1> SUFFICES ASSUME NEW u \in Threads PROVE pc'[u] \in Inside <=> mutex' = u
  BY Zenon DEF MutexInv, Inside
<1>1. \A v \in Threads : pc[v] \in Inside <=> mutex = v
  BY Zenon DEF Inv, MutexInv, Inside
<1>2. pc'[t] = p /\ \A v \in Threads : v # t => pc'[v] = pc[v]
  BY ThreadType, Zenon
<1>3. u # Nobody /\ t # Nobody
  BY NamesAssumption, Zenon
<1> QED
  BY <1>1, <1>2, <1>3

\* A step in which no buffer changes hands.
LEMMA SameHands ==
  ASSUME Inv, NEW t \in Threads, TypeOK', MutexInv', BelowLimit', OthersSame(t), RefInv(t)',
         pool' = pool, cap' = cap, Owned(t)' = Owned(t), InHand(t)' \cap held'[t] = {},
         \A b \in Bufs : b \notin Owned(t) => next'[b] = next[b] /\ dirty'[b] = dirty[b]
  PROVE  Inv'
<1>1. Created' = Created
  BY Zenon DEF Created
<1>2. \A u \in Threads : Owned(u)' = Owned(u)
  BY OthersOwn, Zenon
<1>3. ASSUME NEW b \in Bufs PROVE Free(b)' <=> Free(b)
  BY <1>1, <1>2, Zenon DEF Free
<1>4. \A b \in Bufs : Free(b) => next'[b] = next[b] /\ dirty'[b] = dirty[b] /\ cap'[b] = cap[b]
  BY Zenon DEF Free
<1>5. OwnInv'
  <2>1. held'[t] \subseteq Created'
    BY <1>1, OwnedCreated, Zenon DEF Owned
  <2>2. \A u \in Threads : u # t => Owned(t)' \cap Owned(u) = {}
    BY Zenon DEF Inv, OwnInv
  <2> QED
    BY <1>1, <2>1, <2>2, StillOwn, Zenon
<1>6. ListInv'
  BY <1>3, <1>4, ListsKept, Zenon
<1>7. CleanInv'
  BY <1>3, <1>4, Zenon DEF Inv, CleanInv
<1>8. ASSUME NEW u \in Threads PROVE RefInv(u)'
  <2>1. CASE u = t
    BY <2>1, Zenon
  <2>2. CASE u # t
    <3>1. \A b \in Owned(u) : b \in Bufs /\ b \notin Owned(t)
      BY <2>2, OwnedAlone, Zenon
    <3>2. \A b \in Owned(u) : next'[b] = next[b] /\ dirty'[b] = dirty[b] /\ cap'[b] = cap[b]
      BY <3>1, Zenon
    <3> QED
      BY <2>2, <3>2, RefKept, Zenon
  <2> QED
    BY <2>1, <2>2, Zenon
<1> QED
  BY <1>5, <1>6, <1>7, <1>8, Zenon DEF Inv

-----------------------------------------------------------------------------
(* alloc_buf *)

\* alloc_buf is entered, or gives up at once because nothing fits.
LEMMA AllocEnterStep ==
  ASSUME Inv, NEW t \in Threads, NEW n \in Sizes, AllocEnter(t, n) \/ AllocTooLarge(t, n)
  PROVE  Inv'
<1>1. PICK p : /\ pc[t] = "idle" /\ pc' = [pc EXCEPT ![t] = p] /\ want' = [want EXCEPT ![t] = n]
               /\ UNCHANGED <<pool, next, cap, dirty, totalMem, mutex, held, exited>>
               /\ \/ p = "alloc" /\ ref' = ref /\ Fitting(n) # {}
                  \/ p = "returned" /\ ref' = [ref EXCEPT ![t] = Null] /\ Fitting(n) = {}
  BY Zenon DEF AllocEnter, AllocTooLarge, Goto
<1>2. /\ pc' \in [Threads -> Pc] /\ pc'[t] = p /\ want' \in [Threads -> Sizes \cup {0}] /\ want'[t] = n
      /\ ref' \in [Threads -> Bufs \cup {Null}] /\ (p = "returned" => ref'[t] = Null)
      /\ p \in Pc /\ p \notin Inside
  BY <1>1, ThreadType, Zenon DEF Pc, Inside
<1>3. TypeOK'
  BY <1>1, <1>2, Zenon DEF Inv, TypeOK
<1>4. OthersSame(t)
  BY <1>1, ThreadType, Zenon DEF OthersSame
<1>5. MutexInv'
  BY <1>1, <1>2, MutexStep, Zenon DEF Inside
<1>6. Owned(t)' = Owned(t) /\ InHand(t)' = {}
  BY <1>1, <1>2, Zenon DEF Owned, InHand
<1>7. RefInv(t)'
  BY <1>1, <1>2, Zenon DEF RefInv, Result
<1>8. BelowLimit'
  BY <1>1, Zenon DEF Inv, BelowLimit
<1> QED
  BY <1>1, <1>3, <1>4, <1>5, <1>6, <1>7, <1>8, SameHands, Zenon

\* alloc_buf or revert takes the mutex.
LEMMA LockStep ==
  ASSUME Inv, NEW t \in Threads, AllocLock(t) \/ RevertLock(t)
  PROVE  Inv'
<1>1. PICK p : /\ pc' = [pc EXCEPT ![t] = p] /\ mutex = Nobody /\ mutex' = t
               /\ UNCHANGED <<pool, next, cap, dirty, totalMem, want, ref, held, exited>>
               /\ (pc[t] = "alloc" /\ p = "locked") \/ (pc[t] = "revert" /\ p = "relock")
  BY Zenon DEF AllocLock, RevertLock, Goto, Lock
<1>2. pc' \in [Threads -> Pc] /\ pc'[t] = p /\ p \in Pc /\ p \in Inside
  BY <1>1, ThreadType, Zenon DEF Pc, Inside
<1>3. TypeOK'
  BY <1>1, <1>2, Zenon DEF Inv, TypeOK
<1>4. OthersSame(t)
  BY <1>1, ThreadType, Zenon DEF OthersSame
<1>5. MutexInv'
  BY <1>1, <1>2, MutexStep, Zenon
<1>6. Owned(t)' = Owned(t) /\ InHand(t)' = InHand(t)
  BY <1>1, <1>2, Zenon DEF Owned, InHand
<1>7. RefInv(t)'
  <2>1. RefInv(t)
    BY Zenon DEF Inv
  <2> QED
    BY <1>1, <1>2, <2>1, Zenon DEF RefInv, Created
<1>8. BelowLimit' /\ InHand(t) \cap held[t] = {}
  BY <1>1, Zenon DEF Inv, BelowLimit, OwnInv
<1> QED
  BY <1>1, <1>3, <1>4, <1>5, <1>6, <1>7, <1>8, SameHands, Zenon

\* The process exits, or target is read.
LEMMA AllocPickStep ==
  ASSUME Inv, NEW t \in Threads, AllocExit(t) \/ AllocPick(t)
  PROVE  Inv'
<1>1. PICK p : /\ pc[t] = "locked" /\ pc' = [pc EXCEPT ![t] = p]
               /\ UNCHANGED <<pool, next, cap, dirty, totalMem, mutex, want, held>>
               /\ \/ p = "locked" /\ ref' = ref /\ exited' = TRUE
                  \/ /\ p = "picked" /\ ref' = [ref EXCEPT ![t] = pool[SizeClass(want[t])]]
                     /\ pool[SizeClass(want[t])] # Null /\ exited' = exited
  BY Zenon DEF AllocExit, AllocPick, Goto
<1>2. Fitting(want[t]) # {} /\ SizeClass(want[t]) \in Caps
  BY <1>1, SmallestFits, Zenon DEF Inv, RefInv
<1>3. /\ pc' \in [Threads -> Pc] /\ pc'[t] = p /\ p \in Pc /\ p \in Inside /\ pc[t] \in Inside
      /\ ref' \in [Threads -> Bufs \cup {Null}] /\ (p = "picked" => ref'[t] = pool[SizeClass(want[t])])
      /\ exited' \in BOOLEAN
  BY <1>1, <1>2, ThreadType, PoolType, MiscType, Zenon DEF Pc, Inside
<1>4. TypeOK'
  BY <1>1, <1>3, Zenon DEF Inv, TypeOK
<1>5. OthersSame(t)
  BY <1>1, ThreadType, Zenon DEF OthersSame
<1>6. MutexInv'
  BY <1>1, <1>3, MutexStep, Zenon
<1>7. Owned(t)' = Owned(t) /\ InHand(t)' = {}
  BY <1>1, <1>3, Zenon DEF Owned, InHand
<1>8. RefInv(t)'
  BY <1>1, <1>2, <1>3, Zenon DEF RefInv
<1>9. BelowLimit'
  BY <1>1, Zenon DEF Inv, BelowLimit
<1> QED
  BY <1>1, <1>4, <1>5, <1>6, <1>7, <1>8, <1>9, SameHands, Zenon

\* target->next is cleared outside the mutex; target is the caller's alone.
LEMMA AllocClearStep ==
  ASSUME Inv, NEW t \in Threads, AllocClear(t)
  PROVE  Inv'
<1>1. /\ pc[t] = "unlinked" /\ pc' = [pc EXCEPT ![t] = "returned"] /\ next' = [next EXCEPT ![ref[t]] = Null]
      /\ UNCHANGED <<pool, cap, dirty, totalMem, mutex, want, ref, held, exited>>
  BY Zenon DEF AllocClear, Goto
<1>2. /\ Fitting(want[t]) # {} /\ ref[t] \in Created /\ ~dirty[ref[t]]
      /\ cap[ref[t]] = SizeClass(want[t])
  BY <1>1, Zenon DEF Inv, RefInv
<1>3. ref[t] \in Bufs /\ ref[t] # Null /\ ref[t] \in InHand(t) /\ ref[t] \in Owned(t)
  BY <1>1, <1>2, NamesAssumption, Zenon DEF Created, InHand, Owned
<1>4. /\ pc' \in [Threads -> Pc] /\ pc'[t] = "returned" /\ next' \in [Bufs -> Bufs \cup {Null}]
      /\ next'[ref[t]] = Null /\ \A b \in Bufs : b # ref[t] => next'[b] = next[b]
  BY <1>1, <1>3, ThreadType, PoolType, Zenon DEF Pc
<1>5. TypeOK'
  BY <1>1, <1>4, Zenon DEF Inv, TypeOK
<1>6. OthersSame(t)
  BY <1>1, ThreadType, Zenon DEF OthersSame
<1>7. MutexInv'
  BY <1>1, MutexStep, Zenon DEF Inside, Pc
<1>8. Owned(t)' = Owned(t) /\ InHand(t)' = InHand(t)
  BY <1>1, <1>4, Zenon DEF Owned, InHand
<1>9. RefInv(t)'
  <2>1. SizeClass(want[t]) \in Fitting(want[t]) /\ \A c \in Fitting(want[t]) : SizeClass(want[t]) <= c
    BY <1>2, SmallestFits, Zenon
  <2>2. Result(t)'
    BY <1>1, <1>2, <1>3, <1>4, <2>1, Zenon DEF Result
  <2> QED
    BY <1>1, <1>2, <1>4, <2>2, Zenon DEF RefInv, Created
<1>10. BelowLimit' /\ InHand(t) \cap held[t] = {}
  BY <1>1, Zenon DEF Inv, BelowLimit, OwnInv
<1> QED
  BY <1>1, <1>3, <1>4, <1>5, <1>6, <1>7, <1>8, <1>9, <1>10, SameHands, Zenon

\* The caller stores what alloc_buf returned.
LEMMA KeepStep ==
  ASSUME Inv, NEW t \in Threads, Keep(t)
  PROVE  Inv'
<1>1. /\ pc[t] = "returned" /\ pc' = [pc EXCEPT ![t] = "idle"]
      /\ held' = [held EXCEPT ![t] = held[t] \cup ({ref[t]} \ {Null})]
      /\ want' = [want EXCEPT ![t] = 0] /\ ref' = [ref EXCEPT ![t] = Null]
      /\ UNCHANGED <<pool, next, cap, dirty, totalMem, mutex, exited>>
  BY Zenon DEF Keep, Goto, Forget
<1>2. /\ pc' \in [Threads -> Pc] /\ pc'[t] = "idle" /\ held' \in [Threads -> SUBSET Bufs]
      /\ held'[t] = held[t] \cup ({ref[t]} \ {Null})
      /\ want' \in [Threads -> Sizes \cup {0}] /\ ref' \in [Threads -> Bufs \cup {Null}]
  <2>1. ref[t] \in Bufs \cup {Null} /\ held[t] \in SUBSET Bufs
    BY ThreadType, Zenon
  <2>2. held[t] \cup ({ref[t]} \ {Null}) \in SUBSET Bufs
    BY <2>1, Zenon
  <2> QED
    BY <1>1, <2>2, ThreadType, Zenon DEF Pc
<1>3. TypeOK'
  BY <1>1, <1>2, Zenon DEF Inv, TypeOK
<1>4. OthersSame(t)
  BY <1>1, ThreadType, Zenon DEF OthersSame
<1>5. MutexInv'
  BY <1>1, MutexStep, Zenon DEF Inside, Pc
<1>6. Owned(t)' = Owned(t) /\ InHand(t)' = {}
  BY <1>1, <1>2, Zenon DEF Owned, InHand
<1>7. RefInv(t)'
  BY <1>2, Zenon DEF RefInv
<1>8. BelowLimit'
  BY <1>1, Zenon DEF Inv, BelowLimit
<1> QED
  BY <1>1, <1>3, <1>4, <1>5, <1>6, <1>7, <1>8, SameHands, Zenon

\* A connection uses its own buffer.
LEMMA UseStep ==
  ASSUME Inv, NEW t \in Threads, NEW b \in Bufs, Use(t, b)
  PROVE  Inv'
<1>1. /\ pc[t] = "idle" /\ pc' = [pc EXCEPT ![t] = "idle"] /\ b \in held[t]
      /\ dirty' = [dirty EXCEPT ![b] = TRUE]
      /\ UNCHANGED <<pool, next, cap, totalMem, mutex, want, ref, held, exited>>
  BY Zenon DEF Use, Goto
<1>2. /\ pc' \in [Threads -> Pc] /\ pc'[t] = "idle" /\ dirty' \in [Bufs -> BOOLEAN]
      /\ \A d \in Bufs : d # b => dirty'[d] = dirty[d]
  BY <1>1, ThreadType, PoolType, Zenon DEF Pc
<1>3. TypeOK'
  BY <1>1, <1>2, Zenon DEF Inv, TypeOK
<1>4. OthersSame(t)
  BY <1>1, ThreadType, Zenon DEF OthersSame
<1>5. MutexInv'
  BY <1>1, MutexStep, Zenon DEF Inside, Pc
<1>6. Owned(t)' = Owned(t) /\ InHand(t)' = {} /\ b \in Owned(t)
  BY <1>1, <1>2, Zenon DEF Owned, InHand
<1>7. RefInv(t)'
  BY <1>2, Zenon DEF RefInv
<1>8. BelowLimit'
  BY <1>1, Zenon DEF Inv, BelowLimit
<1> QED
  BY <1>1, <1>2, <1>3, <1>4, <1>5, <1>6, <1>7, <1>8, SameHands, Zenon

-----------------------------------------------------------------------------
(* revert *)

\* length and head are reset outside the mutex, while the buffer is still the
\* thread's.
LEMMA RevertResetStep ==
  ASSUME Inv, NEW t \in Threads, NEW b \in Bufs, RevertReset(t, b)
  PROVE  Inv'
<1>1. /\ pc[t] = "idle" /\ pc' = [pc EXCEPT ![t] = "revert"] /\ b \in held[t]
      /\ ref' = [ref EXCEPT ![t] = b] /\ held' = [held EXCEPT ![t] = held[t] \ {b}]
      /\ dirty' = [dirty EXCEPT ![b] = FALSE]
      /\ UNCHANGED <<pool, next, cap, totalMem, mutex, want, exited>>
  BY Zenon DEF RevertReset, Goto
<1>2. /\ pc' \in [Threads -> Pc] /\ pc'[t] = "revert" /\ dirty' \in [Bufs -> BOOLEAN] /\ ~dirty'[b]
      /\ \A d \in Bufs : d # b => dirty'[d] = dirty[d]
      /\ ref' \in [Threads -> Bufs \cup {Null}] /\ ref'[t] = b
      /\ held' \in [Threads -> SUBSET Bufs] /\ held'[t] = held[t] \ {b}
  BY <1>1, ThreadType, PoolType, Zenon DEF Pc
<1>3. TypeOK'
  BY <1>1, <1>2, Zenon DEF Inv, TypeOK
<1>4. OthersSame(t)
  BY <1>1, ThreadType, Zenon DEF OthersSame
<1>5. MutexInv'
  BY <1>1, MutexStep, Zenon DEF Inside, Pc
<1>6. Owned(t)' = Owned(t) /\ InHand(t)' = {b} /\ b \in Owned(t)
  BY <1>1, <1>2, NamesAssumption DEF Owned, InHand
<1>7. RefInv(t)'
  <2>1. b \in Created'
    BY <1>1, <1>6, OwnedCreated, Zenon DEF Created
  <2> QED
    BY <1>2, <2>1, Zenon DEF RefInv
<1>8. BelowLimit'
  BY <1>1, Zenon DEF Inv, BelowLimit
<1>9. /\ InHand(t)' \cap held'[t] = {}
      /\ \A d \in Bufs : d \notin Owned(t) => next'[d] = next[d] /\ dirty'[d] = dirty[d]
  BY <1>1, <1>2, <1>6, Zenon
<1> QED
  BY <1>1, <1>3, <1>4, <1>5, <1>6, <1>7, <1>8, <1>9, SameHands, Zenon

\* The head becomes the successor of the thread's buffer.
LEMMA RevertLinkStep ==
  ASSUME Inv, NEW t \in Threads, RevertLink(t)
  PROVE  Inv'
<1>1. /\ pc[t] = "relock" /\ pc' = [pc EXCEPT ![t] = "linked"]
      /\ next' = [next EXCEPT ![ref[t]] = pool[cap[ref[t]]]]
      /\ UNCHANGED <<pool, cap, dirty, totalMem, mutex, want, ref, held, exited>>
  BY Zenon DEF RevertLink, Goto
<1>2. ref[t] \in Created /\ ~dirty[ref[t]]
  BY <1>1, Zenon DEF Inv, RefInv
<1>3. /\ ref[t] \in Bufs /\ ref[t] # Null /\ ref[t] \in Owned(t) /\ cap[ref[t]] \in Caps
      /\ pool[cap[ref[t]]] \in Bufs \cup {Null}
  BY <1>1, <1>2, NamesAssumption, PoolType, Zenon DEF Created, InHand, Owned
<1>4. /\ pc' \in [Threads -> Pc] /\ pc'[t] = "linked" /\ next' \in [Bufs -> Bufs \cup {Null}]
      /\ next'[ref[t]] = pool[cap[ref[t]]] /\ \A b \in Bufs : b # ref[t] => next'[b] = next[b]
  BY <1>1, <1>3, ThreadType, PoolType, Zenon DEF Pc
<1>5. TypeOK'
  BY <1>1, <1>4, Zenon DEF Inv, TypeOK
<1>6. OthersSame(t)
  BY <1>1, ThreadType, Zenon DEF OthersSame
<1>7. MutexInv'
  BY <1>1, MutexStep, Zenon DEF Inside, Pc
<1>8. Owned(t)' = Owned(t) /\ InHand(t)' = InHand(t)
  BY <1>1, <1>4, Zenon DEF Owned, InHand
<1>9. RefInv(t)'
  BY <1>1, <1>2, <1>4, Zenon DEF RefInv, Created
<1>10. BelowLimit' /\ InHand(t) \cap held[t] = {}
  BY <1>1, Zenon DEF Inv, BelowLimit, OwnInv
<1> QED
  BY <1>1, <1>3, <1>4, <1>5, <1>6, <1>7, <1>8, <1>9, <1>10, SameHands, Zenon

-----------------------------------------------------------------------------
(* The steps that move a buffer between a list and a thread *)

\* The lists of the other capacities stay.
LEMMA OtherList ==
  ASSUME NEW c, NEW q \in Seq(Bufs), IsList(c, q), pool'[c] = pool[c], UNCHANGED <<next, cap>>,
         \A d \in Bufs : cap[d] = c => (Free(d)' <=> Free(d))
  PROVE  IsList(c, q)'
<1>1. \A i \in 1..Len(q) : q[i] \in Bufs /\ Free(q[i]) /\ cap[q[i]] = c
  BY ListFacts, Zenon DEF IsList
<1>2. \A i \in 1..Len(q) : Free(q[i])' /\ cap'[q[i]] = c
  BY <1>1, Zenon
<1>3. \A d \in Bufs : Free(d)' /\ cap'[d] = c => \E i \in 1..Len(q) : q[i] = d
  BY Zenon DEF IsList
<1> QED
  BY <1>2, <1>3, Zenon DEF IsList

\* Without its first buffer, the list is the rest.
LEMMA TailList ==
  ASSUME NEW c, NEW q \in Seq(Bufs), IsList(c, q), q # <<>>, pool'[c] = next[q[1]],
         UNCHANGED <<next, cap>>, \A d \in Bufs : Free(d)' <=> (Free(d) /\ d # q[1])
  PROVE  Tail(q) \in Seq(Bufs) /\ IsList(c, Tail(q))'
<1> DEFINE r == Tail(q)
<1>1. /\ r \in Seq(Bufs) /\ Len(r) = Len(q) - 1
      /\ \A i \in 1..Len(r) : r[i] = q[i + 1]
  BY RestFacts, Zenon
<1> HIDE DEF r
<1>0. Len(q) \in Nat /\ Len(r) \in Nat /\ Len(q) >= 1 /\ (r = <<>> <=> Len(r) = 0)
  <2>1. Len(q) \in Nat /\ (q = <<>> <=> Len(q) = 0)
    BY ListFacts, Zenon
  <2>2. Len(r) \in Nat /\ (r = <<>> <=> Len(r) = 0)
    BY <1>1, ListFacts, Zenon
  <2> QED
    BY <2>1, <2>2
<1>2. \A i \in 1..Len(r) : i \in Nat /\ r[i] = q[i + 1] /\ i + 1 \in 1..Len(q) /\ i + 1 # 1
  BY <1>0, <1>1
<1>3. \A i, j \in 1..Len(q) : q[i] = q[j] => i = j
  BY Zenon DEF IsList
<1>4. \A i \in 1..Len(q) : q[i] \in Bufs /\ Free(q[i]) /\ cap[q[i]] = c
  BY ListFacts, Zenon DEF IsList
<1>5. \A i \in 1..Len(q) : next[q[i]] = IF i = Len(q) THEN Null ELSE q[i + 1]
  BY Zenon DEF IsList
<1>6. 1 \in 1..Len(q)
  BY <1>0
<1>7. pool'[c] = IF r = <<>> THEN Null ELSE r[1]
  <2>1. next[q[1]] = IF 1 = Len(q) THEN Null ELSE q[1 + 1]
    BY <1>5, <1>6, Zenon
  <2>2. (r = <<>>) <=> (1 = Len(q))
    BY <1>0, <1>1
  <2>3. 1 # Len(q) => 1 \in 1..Len(r)
    BY <1>0, <1>1
  <2>4. 1 # Len(q) => r[1] = q[1 + 1]
    BY <1>1, <2>3, Zenon
  <2> QED
    BY <2>1, <2>2, <2>4, Zenon
<1>8. ASSUME NEW i \in 1..Len(r) PROVE next'[r[i]] = IF i = Len(r) THEN Null ELSE r[i + 1]
  <2>1. i + 1 \in 1..Len(q) /\ r[i] = q[i + 1]
    BY <1>2, Zenon
  <2>2. next[r[i]] = IF i + 1 = Len(q) THEN Null ELSE q[(i + 1) + 1]
    BY <1>5, <2>1, Zenon
  <2>3. (i = Len(r)) <=> (i + 1 = Len(q))
    BY <1>0, <1>1
  <2>4. i # Len(r) => i + 1 \in 1..Len(r)
    BY <1>0
  <2>5. i # Len(r) => r[i + 1] = q[(i + 1) + 1]
    BY <1>1, <2>4, Zenon
  <2> QED
    BY <2>2, <2>3, <2>5, Zenon
<1>9. \A i, j \in 1..Len(r) : r[i] = r[j] => i = j
  BY <1>2, <1>3
<1>10. ASSUME NEW i \in 1..Len(r) PROVE Free(r[i])' /\ cap'[r[i]] = c
  <2>1. q[i + 1] # q[1]
    BY <1>2, <1>3, <1>6, Zenon
  <2> QED
    BY <1>2, <1>4, <2>1, Zenon
<1>11. ASSUME NEW d \in Bufs, Free(d)', cap'[d] = c PROVE \E i \in 1..Len(r) : r[i] = d
  <2>1. Free(d) /\ d # q[1] /\ cap[d] = c
    BY <1>11, Zenon
  <2>2. PICK i \in 1..Len(q) : q[i] = d
    BY <2>1, Zenon DEF IsList
  <2>3. i - 1 \in 1..Len(r) /\ i = (i - 1) + 1
    BY <1>0, <1>1, <2>1, <2>2
  <2>4. r[i - 1] = d
    BY <1>1, <2>2, <2>3, Zenon
  <2> QED
    BY <2>3, <2>4, Zenon
<1>12. r \in Seq(Bufs) /\ IsList(c, r)'
  BY <1>1, <1>7, <1>8, <1>9, <1>10, <1>11, Zenon DEF IsList, r
<1> QED
  BY <1>12, Zenon DEF r

\* With a buffer linked in front, the list is that buffer and the old list.
LEMMA ConsList ==
  ASSUME NEW c, NEW q \in Seq(Bufs), IsList(c, q), NEW x \in Bufs, ~Free(x), next[x] = pool[c],
         cap[x] = c, pool'[c] = x, UNCHANGED <<next, cap>>,
         \A d \in Bufs : Free(d)' <=> (Free(d) \/ d = x)
  PROVE  \E r \in Seq(Bufs) : IsList(c, r)'
<1> DEFINE r == <<x>> \o q
<1>1. /\ r \in Seq(Bufs) /\ Len(r) = Len(q) + 1 /\ r[1] = x
      /\ \A i \in 1..Len(q) : r[i + 1] = q[i]
  BY FrontFacts, Zenon
<1> HIDE DEF r
<1>0. Len(q) \in Nat /\ Len(r) \in Nat /\ (q = <<>> <=> Len(q) = 0) /\ (r = <<>> <=> Len(r) = 0)
  <2>1. Len(q) \in Nat /\ (q = <<>> <=> Len(q) = 0)
    BY ListFacts, Zenon
  <2>2. Len(r) \in Nat /\ (r = <<>> <=> Len(r) = 0)
    BY <1>1, ListFacts, Zenon
  <2> QED
    BY <2>1, <2>2, Zenon
<1>2. ASSUME NEW i \in 1..Len(r), i # 1 PROVE i - 1 \in 1..Len(q) /\ r[i] = q[i - 1]
  <2>1. i - 1 \in 1..Len(q) /\ (i - 1) + 1 = i
    BY <1>0, <1>1, <1>2
  <2> QED
    BY <1>1, <2>1, Zenon
<1>3. \A i, j \in 1..Len(q) : q[i] = q[j] => i = j
  BY Zenon DEF IsList
<1>4. \A i \in 1..Len(q) : q[i] \in Bufs /\ Free(q[i]) /\ cap[q[i]] = c
  BY ListFacts, Zenon DEF IsList
<1>5. pool[c] = IF q = <<>> THEN Null ELSE q[1]
  BY Zenon DEF IsList
<1>6. 1 \in 1..Len(r) /\ r # <<>>
  BY <1>0, <1>1
<1>7. ASSUME NEW i \in 1..Len(r) PROVE next'[r[i]] = IF i = Len(r) THEN Null ELSE r[i + 1]
  <2>1. CASE i = 1
    <3>1. next'[r[i]] = IF q = <<>> THEN Null ELSE q[1]
      BY <1>1, <1>5, <2>1, Zenon
    <3>2. (q = <<>>) <=> (i = Len(r))
      BY <1>0, <1>1, <2>1
    <3>3. q # <<>> => 1 \in 1..Len(q)
      BY <1>0
    <3>4. q # <<>> => r[i + 1] = q[1]
      BY <1>1, <2>1, <3>3, Zenon
    <3> QED
      BY <3>1, <3>2, <3>4, Zenon
  <2>2. CASE i # 1
    <3>1. PICK j \in 1..Len(q) : j = i - 1
      BY <1>2, <2>2, Zenon
    <3>2. next[q[j]] = IF j = Len(q) THEN Null ELSE q[j + 1]
      BY Zenon DEF IsList
    <3>3. i = j + 1 /\ (j = Len(q) <=> i = Len(r)) /\ (j # Len(q) => j + 1 \in 1..Len(q))
      BY <1>0, <1>1, <2>2, <3>1
    <3>4. r[i] = q[j] /\ (j # Len(q) => r[i + 1] = q[j + 1])
      BY <1>1, <3>3, Zenon
    <3> QED
      BY <3>2, <3>3, <3>4, Zenon
  <2> QED
    BY <2>1, <2>2, Zenon
<1>8. ASSUME NEW i \in 1..Len(r), NEW j \in 1..Len(r), r[i] = r[j] PROVE i = j
  <2>1. \A k \in 1..Len(r) : k # 1 => r[k] # x
    BY <1>2, <1>4, Zenon
  <2>2. CASE i = 1 \/ j = 1
    BY <1>1, <1>8, <2>1, <2>2, Zenon
  <2>3. CASE i # 1 /\ j # 1
    <3>1. i - 1 \in 1..Len(q) /\ r[i] = q[i - 1]
      BY <1>2, <2>3, Zenon
    <3>2. j - 1 \in 1..Len(q) /\ r[j] = q[j - 1]
      BY <1>2, <2>3, Zenon
    <3>3. i - 1 = j - 1
      BY <1>3, <1>8, <3>1, <3>2, Zenon
    <3> QED
      BY <1>0, <3>3
  <2> QED
    BY <2>2, <2>3, Zenon
<1>9. ASSUME NEW i \in 1..Len(r) PROVE Free(r[i])' /\ cap'[r[i]] = c
  <2>1. r[i] \in Bufs /\ (Free(r[i]) \/ r[i] = x) /\ cap[r[i]] = c
    BY <1>1, <1>2, <1>4, Zenon
  <2> QED
    BY <2>1, Zenon
<1>10. ASSUME NEW d \in Bufs, Free(d)', cap'[d] = c PROVE \E i \in 1..Len(r) : r[i] = d
  <2>1. CASE d = x
    BY <1>1, <1>6, <2>1, Zenon
  <2>2. CASE d # x
    <3>1. PICK i \in 1..Len(q) : q[i] = d
      BY <1>10, <2>2, Zenon DEF IsList
    <3>2. i + 1 \in 1..Len(r)
      BY <1>0, <1>1
    <3> QED
      BY <1>1, <3>1, <3>2, Zenon
  <2> QED
    BY <2>1, <2>2, Zenon
<1>11. IsList(c, r)'
  BY <1>1, <1>6, <1>7, <1>8, <1>9, <1>10, Zenon DEF IsList
<1> QED
  BY <1>1, <1>11, Zenon

\* The list is empty: a new buffer goes to the caller.
LEMMA AllocNewStep ==
  ASSUME Inv, NEW t \in Threads, AllocNew(t)
  PROVE  Inv'
<1> DEFINE k == SizeClass(want[t])
<1>1. PICK b \in Bufs :
        /\ pc[t] = "locked" /\ pc' = [pc EXCEPT ![t] = "returned"]
        /\ totalMem + k \div Unit < MemLimit /\ totalMem' = totalMem + k \div Unit
        /\ cap[b] = 0 /\ cap' = [cap EXCEPT ![b] = k] /\ next' = [next EXCEPT ![b] = Null]
        /\ dirty' = [dirty EXCEPT ![b] = FALSE] /\ ref' = [ref EXCEPT ![t] = b]
        /\ mutex' = Nobody /\ UNCHANGED <<pool, want, held, exited>>
  BY Zenon DEF AllocNew, Goto, Unlock
<1>2. Fitting(want[t]) # {}
  BY <1>1, Zenon DEF Inv, RefInv
<1>3. k \in Fitting(want[t]) /\ k \in Caps /\ \A c \in Fitting(want[t]) : k <= c
  BY <1>2, SmallestFits, Zenon
<1> HIDE DEF k
<1>4. k # 0 /\ k \div Unit \in Nat
  BY <1>3, SizesAssumption
<1>5. /\ pc' \in [Threads -> Pc] /\ pc'[t] = "returned" /\ cap' \in [Bufs -> Caps \cup {0}] /\ cap'[b] = k
      /\ next' \in [Bufs -> Bufs \cup {Null}] /\ next'[b] = Null /\ dirty' \in [Bufs -> BOOLEAN] /\ ~dirty'[b]
      /\ ref' \in [Threads -> Bufs \cup {Null}] /\ ref'[t] = b /\ b # Null
      /\ \A d \in Bufs : d # b => cap'[d] = cap[d] /\ next'[d] = next[d] /\ dirty'[d] = dirty[d]
  BY <1>1, <1>3, ThreadType, PoolType, NamesAssumption, Zenon DEF Pc
<1>6. totalMem' \in Nat /\ mutex' \in Threads \cup {Nobody} /\ BelowLimit'
  BY <1>1, <1>4, MiscType DEF BelowLimit
<1>7. TypeOK'
  BY <1>1, <1>5, <1>6, Zenon DEF Inv, TypeOK
<1>8. OthersSame(t)
  BY <1>1, ThreadType, Zenon DEF OthersSame
<1>9. MutexInv'
  BY <1>1, MutexStep, Zenon DEF Inside, Pc
<1>10. b \notin Created /\ b \in Created' /\ \A d \in Bufs : d # b => (d \in Created' <=> d \in Created)
  BY <1>1, <1>4, <1>5, Zenon DEF Created
<1>11. \A u \in Threads : b \notin Owned(u)
  BY <1>10, OwnedCreated, Zenon
<1>12. InHand(t)' = {b} /\ held'[t] = held[t] /\ Owned(t)' = Owned(t) \cup {b} /\ held[t] \subseteq Owned(t)
  BY <1>1, <1>5 DEF Owned, InHand
<1>13. ASSUME NEW d \in Bufs PROVE Free(d)' <=> Free(d)
  <2>1. CASE d = b
    BY <2>1, <1>10, <1>12, Zenon DEF Free
  <2>2. CASE d # b
    <3>1. \A u \in Threads : d \in Owned(u)' <=> d \in Owned(u)
      BY <1>8, <1>12, <2>2, OthersOwn
    <3> QED
      BY <1>10, <2>2, <3>1, Zenon DEF Free
  <2> QED
    BY <2>1, <2>2, Zenon
<1>14. \A d \in Bufs : Free(d) => next'[d] = next[d] /\ cap'[d] = cap[d] /\ dirty'[d] = dirty[d]
  BY <1>5, <1>10, Zenon DEF Free
<1>15. OwnInv'
  <2>1. Created \subseteq Created' /\ held'[t] \subseteq Created'
    BY <1>10, <1>12, OwnedCreated, Zenon DEF Created
  <2>2. InHand(t)' \cap held'[t] = {}
    BY <1>11, <1>12, Zenon
  <2>3. \A u \in Threads : u # t => Owned(t)' \cap Owned(u) = {}
    BY <1>11, <1>12, Zenon DEF Inv, OwnInv
  <2> QED
    BY <1>8, <2>1, <2>2, <2>3, StillOwn, Zenon
<1>16. ListInv' /\ CleanInv'
  <2>1. ListInv'
    BY <1>1, <1>13, <1>14, ListsKept, Zenon
  <2>2. CleanInv'
    BY <1>13, <1>14, Zenon DEF Inv, CleanInv
  <2> QED
    BY <2>1, <2>2, Zenon
<1>17. ASSUME NEW u \in Threads PROVE RefInv(u)'
  <2>1. CASE u = t
    <3>1. Result(t)'
      BY <1>1, <1>2, <1>3, <1>5, Zenon DEF Result
    <3> QED
      BY <1>5, <1>10, <2>1, <3>1, Zenon DEF RefInv
  <2>2. CASE u # t
    <3>1. \A d \in Owned(u) : d \in Bufs /\ d # b
      BY <1>11, OwnedAlone, Zenon
    <3> QED
      BY <1>1, <1>5, <1>8, <2>2, <3>1, RefKept, Zenon
  <2> QED
    BY <2>1, <2>2, Zenon
<1> QED
  BY <1>6, <1>7, <1>9, <1>15, <1>16, <1>17, Zenon DEF Inv

\* The first buffer of the list becomes the caller's when the head is advanced.
LEMMA AllocUnlinkStep ==
  ASSUME Inv, NEW t \in Threads, AllocUnlink(t)
  PROVE  Inv'
<1> DEFINE k == SizeClass(want[t])
           x == ref[t]
<1>1. /\ pc[t] = "picked" /\ pc' = [pc EXCEPT ![t] = "unlinked"] /\ pool' = [pool EXCEPT ![k] = next[x]]
      /\ mutex' = Nobody /\ UNCHANGED <<next, cap, dirty, totalMem, want, ref, held, exited>>
  BY Zenon DEF AllocUnlink, Goto, Unlock
<1>2. Fitting(want[t]) # {} /\ x = pool[k] /\ x # Null /\ mutex = t
  BY <1>1, Zenon DEF Inv, RefInv, MutexInv
<1>3. k \in Caps
  BY <1>2, SmallestFits, Zenon
<1> HIDE DEF k, x
<1>4. PICK q \in Seq(Bufs) : IsList(k, q)
  BY <1>3, Zenon DEF Inv, ListInv
<1>5. q # <<>> /\ x = q[1] /\ 1 \in 1..Len(q)
  <2>1. q # <<>> /\ x = q[1]
    BY <1>2, <1>4, Zenon DEF IsList
  <2>2. Len(q) \in Nat /\ Len(q) # 0
    BY <2>1, ListFacts, Zenon
  <2> QED
    BY <2>1, <2>2
<1>6. x \in Bufs /\ Free(x) /\ cap[x] = k
  BY <1>4, <1>5, ListFacts, Zenon DEF IsList
<1>7. x \in Created /\ ~dirty[x] /\ \A u \in Threads : x \notin Owned(u)
  BY <1>6, Zenon DEF Free, Inv, CleanInv
<1>8. /\ pc' \in [Threads -> Pc] /\ pc'[t] = "unlinked" /\ pool' \in [Caps -> Bufs \cup {Null}]
      /\ pool'[k] = next[x] /\ \A c \in Caps : c # k => pool'[c] = pool[c]
  BY <1>1, <1>3, <1>6, ThreadType, PoolType, Zenon DEF Pc
<1>9. mutex' \in Threads \cup {Nobody} /\ BelowLimit'
  BY <1>1, Zenon DEF BelowLimit, Inv
<1>10. TypeOK'
  BY <1>1, <1>8, <1>9, Zenon DEF Inv, TypeOK
<1>11. OthersSame(t)
  BY <1>1, ThreadType, Zenon DEF OthersSame
<1>12. MutexInv'
  BY <1>1, MutexStep, Zenon DEF Inside, Pc
<1>13. InHand(t)' = {x} /\ held'[t] = held[t] /\ Owned(t)' = Owned(t) \cup {x} /\ held[t] \subseteq Owned(t)
  BY <1>1, <1>2, <1>8, Zenon DEF Owned, InHand, x
<1>14. Created' = Created
  BY <1>1, Zenon DEF Created
<1>15. ASSUME NEW d \in Bufs PROVE Free(d)' <=> (Free(d) /\ d # x)
  <2>1. CASE d = x
    BY <1>13, <2>1, Zenon DEF Free
  <2>2. CASE d # x
    <3>1. \A u \in Threads : d \in Owned(u)' <=> d \in Owned(u)
      BY <1>11, <1>13, <2>2, OthersOwn
    <3> QED
      BY <1>14, <2>2, <3>1, Zenon DEF Free
  <2> QED
    BY <2>1, <2>2, Zenon
<1>16. OwnInv'
  <2>1. Created \subseteq Created' /\ held'[t] \subseteq Created' /\ InHand(t)' \cap held'[t] = {}
    BY <1>7, <1>13, <1>14, OwnedCreated, Zenon
  <2>2. \A u \in Threads : u # t => Owned(t)' \cap Owned(u) = {}
    BY <1>7, <1>13, Zenon DEF Inv, OwnInv
  <2> QED
    BY <1>11, <2>1, <2>2, StillOwn, Zenon
<1>17. ListInv'
  <2> SUFFICES ASSUME NEW c \in Caps PROVE \E s \in Seq(Bufs) : IsList(c, s)'
    BY Zenon DEF ListInv
  <2>1. CASE c = k
    <3>1. IsList(c, q) /\ pool'[c] = next[q[1]] /\ UNCHANGED <<next, cap>> /\ \A d \in Bufs : Free(d)' <=> (Free(d) /\ d # q[1])
      <4>1. pool'[c] = next[q[1]] /\ UNCHANGED <<next, cap>>
        BY <1>1, <1>5, <1>8, <2>1, Zenon
      <4>2. \A d \in Bufs : Free(d)' <=> (Free(d) /\ d # q[1])
        BY <1>5, <1>15, Zenon
      <4> QED
        BY <1>4, <2>1, <4>1, <4>2, Zenon
    <3>2. Tail(q) \in Seq(Bufs) /\ IsList(c, Tail(q))'
      BY <1>5, <3>1, TailList, Zenon
    <3> QED
      BY <3>2, Zenon
  <2>2. CASE c # k
    <3>1. PICK s \in Seq(Bufs) : IsList(c, s)
      BY Zenon DEF Inv, ListInv
    <3>2. pool'[c] = pool[c] /\ UNCHANGED <<next, cap>> /\ \A d \in Bufs : cap[d] = c => (Free(d)' <=> Free(d))
      BY <1>1, <1>6, <1>8, <1>15, <2>2, Zenon
    <3>3. IsList(c, s)'
      BY <3>1, <3>2, OtherList, Zenon
    <3> QED
      BY <3>3, Zenon
  <2> QED
    BY <2>1, <2>2, Zenon
<1>18. CleanInv'
  BY <1>1, <1>15, Zenon DEF Inv, CleanInv
<1>19. ASSUME NEW u \in Threads PROVE RefInv(u)'
  <2>1. CASE u = t
    BY <1>1, <1>2, <1>6, <1>7, <1>8, <1>14, <2>1, Zenon DEF RefInv, x, k
  <2>2. CASE u # t
    BY <1>1, <1>2, <1>11, <2>2, RefKept, Zenon
  <2> QED
    BY <2>1, <2>2, Zenon
<1> QED
  BY <1>9, <1>10, <1>12, <1>16, <1>17, <1>18, <1>19, Zenon DEF Inv

\* The thread's buffer becomes the first of its list.
LEMMA RevertPushStep ==
  ASSUME Inv, NEW t \in Threads, RevertPush(t)
  PROVE  Inv'
<1> DEFINE x == ref[t]
           k == cap[x]
<1>1. /\ pc[t] = "linked" /\ pc' = [pc EXCEPT ![t] = "idle"] /\ pool' = [pool EXCEPT ![k] = x]
      /\ mutex' = Nobody /\ want' = [want EXCEPT ![t] = 0] /\ ref' = [ref EXCEPT ![t] = Null]
      /\ UNCHANGED <<next, cap, dirty, totalMem, held, exited>>
  BY Zenon DEF RevertPush, Goto, Unlock, Forget
<1>2. x \in Created /\ ~dirty[x] /\ next[x] = pool[k] /\ mutex = t
  BY <1>1, Zenon DEF Inv, RefInv, MutexInv
<1>3. x \in Bufs /\ x # Null /\ k \in Caps /\ InHand(t) = {x} /\ x \in Owned(t)
  BY <1>1, <1>2, NamesAssumption, PoolType, Zenon DEF Created, InHand, Owned
<1> HIDE DEF k, x
<1>4. /\ pc' \in [Threads -> Pc] /\ pc'[t] = "idle" /\ pool' \in [Caps -> Bufs \cup {Null}] /\ pool'[k] = x
      /\ (\A c \in Caps : c # k => pool'[c] = pool[c])
      /\ want' \in [Threads -> Sizes \cup {0}] /\ ref' \in [Threads -> Bufs \cup {Null}]
  BY <1>1, <1>3, ThreadType, PoolType, Zenon DEF Pc
<1>5. mutex' \in Threads \cup {Nobody} /\ BelowLimit'
  BY <1>1, Zenon DEF BelowLimit, Inv
<1>6. TypeOK'
  BY <1>1, <1>4, <1>5, Zenon DEF Inv, TypeOK
<1>7. OthersSame(t)
  BY <1>1, ThreadType, Zenon DEF OthersSame
<1>8. MutexInv'
  BY <1>1, MutexStep, Zenon DEF Inside, Pc
<1>9. InHand(t)' = {} /\ held'[t] = held[t] /\ Owned(t)' = Owned(t) \ {x} /\ held[t] \subseteq Owned(t)
  <2>1. x \notin held[t]
    BY <1>3, Zenon DEF Inv, OwnInv
  <2>2. InHand(t)' = {} /\ held' = held
    BY <1>1, <1>4, Zenon DEF InHand
  <2> QED
    BY <1>3, <2>1, <2>2, Zenon DEF Owned
<1>10. Created' = Created
  BY <1>1, Zenon DEF Created
<1>11. \A u \in Threads : u # t => x \notin Owned(u)
  BY <1>3, OwnedAlone, Zenon
<1>12. ASSUME NEW d \in Bufs PROVE Free(d)' <=> (Free(d) \/ d = x)
  <2>1. CASE d = x
    <3>1. \A u \in Threads : d \notin Owned(u)'
      BY <1>7, <1>9, <1>11, <2>1, OthersOwn, Zenon
    <3> QED
      BY <1>2, <1>10, <2>1, <3>1, Zenon DEF Free
  <2>2. CASE d # x
    <3>1. \A u \in Threads : d \in Owned(u)' <=> d \in Owned(u)
      BY <1>7, <1>9, <2>2, OthersOwn, Zenon
    <3> QED
      BY <1>10, <2>2, <3>1, Zenon DEF Free
  <2> QED
    BY <2>1, <2>2, Zenon
<1>13. OwnInv'
  <2>1. Created \subseteq Created' /\ held'[t] \subseteq Created' /\ InHand(t)' \cap held'[t] = {}
    BY <1>9, <1>10, OwnedCreated, Zenon
  <2>2. \A u \in Threads : u # t => Owned(t)' \cap Owned(u) = {}
    BY <1>9, Zenon DEF Inv, OwnInv
  <2> QED
    BY <1>7, <2>1, <2>2, StillOwn, Zenon
<1>14. ListInv'
  <2> SUFFICES ASSUME NEW c \in Caps PROVE \E s \in Seq(Bufs) : IsList(c, s)'
    BY Zenon DEF ListInv
  <2>1. PICK s \in Seq(Bufs) : IsList(c, s)
    BY Zenon DEF Inv, ListInv
  <2>2. UNCHANGED <<next, cap>>
    BY <1>1, Zenon
  <2>3. CASE c = k
    <3>1. /\ ~Free(x) /\ next[x] = pool[c] /\ cap[x] = c /\ pool'[c] = x
          /\ \A d \in Bufs : Free(d)' <=> (Free(d) \/ d = x)
      BY <1>2, <1>3, <1>4, <1>12, <2>3, OwnedAlone, Zenon DEF k
    <3> QED
      BY <1>3, <2>1, <2>2, <3>1, ConsList, Zenon
  <2>4. CASE c # k
    <3>1. pool'[c] = pool[c] /\ \A d \in Bufs : cap[d] = c => (Free(d)' <=> Free(d))
      BY <1>4, <1>12, <2>4, Zenon DEF k
    <3>2. IsList(c, s)'
      BY <2>1, <2>2, <3>1, OtherList, Zenon
    <3> QED
      BY <3>2, Zenon
  <2> QED
    BY <2>3, <2>4, Zenon
<1>15. CleanInv'
  BY <1>1, <1>2, <1>12, Zenon DEF Inv, CleanInv
<1>16. ASSUME NEW u \in Threads PROVE RefInv(u)'
  <2>1. CASE u = t
    BY <1>4, <2>1, Zenon DEF RefInv
  <2>2. CASE u # t
    BY <1>1, <1>2, <1>7, <2>2, RefKept, Zenon
  <2> QED
    BY <2>1, <2>2, Zenon
<1> QED
  BY <1>5, <1>6, <1>8, <1>13, <1>14, <1>15, <1>16, Zenon DEF Inv

-----------------------------------------------------------------------------
(* The lists that init_memmory builds *)

\* b is the i-th buffer created for c.
At(c, i, b) == c \in Caps /\ i \in 1..Len(InitList[c]) /\ InitList[c][i] = b

\* A buffer is created for one capacity, at one place.
LEMMA OnePlace ==
  ASSUME NEW b, NEW c, NEW d, NEW i, NEW j, At(c, i, b), At(d, j, b)
  PROVE  c = d /\ i = j
BY InitListAssumption, Zenon DEF At

\* What is created for a capacity.
LEMMA AtFacts ==
  ASSUME NEW b, NEW c, NEW i, At(c, i, b)
  PROVE  /\ c \in Caps /\ InitList[c] \in Seq(Bufs) /\ Len(InitList[c]) \in Nat
         /\ i \in 1..Len(InitList[c]) /\ b \in Bufs /\ InitList[c][i] = b
<1>1. c \in Caps /\ InitList[c] \in Seq(Bufs)
  BY InitListAssumption, Zenon DEF At
<1>2. Len(InitList[c]) \in Nat /\ \A j \in 1..Len(InitList[c]) : InitList[c][j] \in Bufs
  BY <1>1, ListFacts, Zenon
<1> QED
  BY <1>1, <1>2, Zenon DEF At

\* The capacity of a buffer on an initial list.
LEMMA InitCapOn ==
  ASSUME NEW b, NEW c, NEW i, At(c, i, b)
  PROVE  InitCap(b) = c
<1>1. \E d \in Caps : \E j \in 1..Len(InitList[d]) : InitList[d][j] = b
  BY Zenon DEF At
<1>2. \A d \in Caps : (\E j \in 1..Len(InitList[d]) : InitList[d][j] = b) => d = c
  BY OnePlace, Zenon DEF At
<1> QED
  BY <1>1, <1>2, Zenon DEF InitCap

\* The successor of a buffer on an initial list.
LEMMA InitNextOn ==
  ASSUME NEW b, NEW c, NEW i, At(c, i, b)
  PROVE  InitNext(b) = IF i = Len(InitList[c]) THEN Null ELSE InitList[c][i + 1]
<1>1. /\ c \in Caps /\ InitList[c] \in Seq(Bufs) /\ Len(InitList[c]) \in Nat
      /\ i \in 1..Len(InitList[c]) /\ b \in Bufs /\ InitList[c][i] = b
  BY AtFacts, Zenon
<1>2. ASSUME NEW d \in Caps, NEW j \in 1..Len(InitList[d]) - 1, InitList[d][j] = b
      PROVE  d = c /\ j = i /\ i # Len(InitList[c])
  <2>1. InitList[d] \in Seq(Bufs)
    BY InitListAssumption, Zenon
  <2>2. Len(InitList[d]) \in Nat
    BY <2>1, ListFacts, Zenon
  <2>3. j \in 1..Len(InitList[d]) /\ j # Len(InitList[d])
    BY <2>2
  <2>4. At(d, j, b)
    BY <1>2, <2>3, Zenon DEF At
  <2>5. d = c /\ j = i
    BY <2>4, OnePlace, Zenon
  <2> QED
    BY <2>3, <2>5, Zenon
<1>3. CASE i = Len(InitList[c])
  <2>1. ~\E d \in Caps : \E j \in 1..Len(InitList[d]) - 1 : InitList[d][j] = b
    BY <1>2, <1>3, Zenon
  <2> QED
    BY <1>3, <2>1, Zenon DEF InitNext
<1>4. CASE i # Len(InitList[c])
  <2> DEFINE n == InitList[c][i + 1]
             Follows(m) == \E d \in Caps : \E j \in 1..Len(InitList[d]) - 1 :
                             InitList[d][j] = b /\ InitList[d][j + 1] = m
  <2>1. i \in 1..Len(InitList[c]) - 1 /\ i + 1 \in 1..Len(InitList[c])
    BY <1>1, <1>4
  <2>2. n \in Bufs
    BY <1>1, <2>1, ListFacts, Zenon
  <2>3. Follows(n) /\ \E d \in Caps : \E j \in 1..Len(InitList[d]) - 1 : InitList[d][j] = b
    BY <1>1, <2>1, Zenon
  <2>4. \A m : Follows(m) => m = n
    BY <1>2, Zenon
  <2>5. InitNext(b) = CHOOSE m \in Bufs : Follows(m)
    BY <2>3, Zenon DEF InitNext
  <2> HIDE DEF n, Follows
  <2>6. InitNext(b) = n
    BY <2>2, <2>3, <2>4, <2>5, Zenon
  <2> QED
    BY <1>4, <2>6, Zenon DEF n
<1> QED
  BY <1>3, <1>4, Zenon

\* A buffer that the constructor does not create.
LEMMA InitOff ==
  ASSUME NEW b, \A c, i : ~At(c, i, b)
  PROVE  InitCap(b) = 0 /\ InitNext(b) = Null
<1>1. ~\E c \in Caps : \E i \in 1..Len(InitList[c]) : InitList[c][i] = b
  BY Zenon DEF At
<1>2. ASSUME NEW c \in Caps, NEW i \in 1..Len(InitList[c]) - 1 PROVE InitList[c][i] # b
  <2>1. InitList[c] \in Seq(Bufs)
    BY InitListAssumption, Zenon
  <2>2. Len(InitList[c]) \in Nat
    BY <2>1, ListFacts, Zenon
  <2>3. i \in 1..Len(InitList[c])
    BY <2>2
  <2> QED
    BY <1>1, <2>3, Zenon
<1> QED
  BY <1>1, <1>2, Zenon DEF InitCap, InitNext

\* The constructor's heap is well typed.
LEMMA InitHeap ==
  ASSUME NEW b \in Bufs
  PROVE  InitCap(b) \in Caps \cup {0} /\ InitNext(b) \in Bufs \cup {Null}
<1>1. CASE \A c, i : ~At(c, i, b)
  BY <1>1, InitOff, Zenon
<1>2. CASE \E c, i : At(c, i, b)
  <2>1. PICK c, i : At(c, i, b)
    BY <1>2, Zenon
  <2>2. InitCap(b) = c /\ InitNext(b) = IF i = Len(InitList[c]) THEN Null ELSE InitList[c][i + 1]
    BY <2>1, InitCapOn, InitNextOn, Zenon
  <2>3. /\ c \in Caps /\ InitList[c] \in Seq(Bufs) /\ Len(InitList[c]) \in Nat
        /\ i \in 1..Len(InitList[c])
    BY <2>1, AtFacts, Zenon
  <2>4. i # Len(InitList[c]) => i + 1 \in 1..Len(InitList[c])
    BY <2>3
  <2>5. i # Len(InitList[c]) => InitList[c][i + 1] \in Bufs
    BY <2>3, <2>4, ListFacts, Zenon
  <2> QED
    BY <2>2, <2>3, <2>5, Zenon
<1> QED
  BY <1>1, <1>2, Zenon

\* The lists the constructor builds are what the heads lead to.
LEMMA InitLists ==
  ASSUME Init, \A b \in Bufs : Free(b) <=> cap[b] # 0, NEW c \in Caps
  PROVE  InitList[c] \in Seq(Bufs) /\ IsList(c, InitList[c])
<1> DEFINE s == InitList[c]
<1>1. s \in Seq(Bufs) /\ s # <<>>
  BY InitListAssumption, Zenon
<1>2. \A i \in 1..Len(s) : At(c, i, s[i]) /\ s[i] \in Bufs
  BY <1>1, ListFacts, Zenon DEF At
<1>3. pool[c] = s[1]
  BY Zenon DEF Init
<1>4. ASSUME NEW i \in 1..Len(s)
      PROVE  next[s[i]] = (IF i = Len(s) THEN Null ELSE s[i + 1]) /\ cap[s[i]] = c
  <2>1. InitCap(s[i]) = c /\ InitNext(s[i]) = IF i = Len(s) THEN Null ELSE s[i + 1]
    BY <1>2, InitCapOn, InitNextOn, Zenon
  <2>2. s[i] \in Bufs
    BY <1>2, Zenon
  <2> HIDE DEF s
  <2>3. next[s[i]] = InitNext(s[i]) /\ cap[s[i]] = InitCap(s[i])
    BY <2>2, Zenon DEF Init
  <2> QED
    BY <2>1, <2>3, Zenon
<1>5. \A i, j \in 1..Len(s) : s[i] = s[j] => i = j
  BY <1>2, OnePlace, Zenon
<1>6. \A i \in 1..Len(s) : Free(s[i]) /\ cap[s[i]] = c
  <2>1. c # 0
    BY SizesAssumption, Zenon
  <2> QED
    BY <1>2, <1>4, <2>1, Zenon
<1>7. ASSUME NEW b \in Bufs, Free(b), cap[b] = c PROVE \E i \in 1..Len(s) : s[i] = b
  <2>1. InitCap(b) = c /\ c # 0
    BY <1>7, SizesAssumption, Zenon DEF Init
  <2>2. PICK d, i : At(d, i, b)
    BY <2>1, InitOff, Zenon
  <2>3. d = c
    BY <2>1, <2>2, InitCapOn, Zenon
  <2> QED
    BY <2>2, <2>3, Zenon DEF At
<1> QED
  BY <1>1, <1>3, <1>4, <1>5, <1>6, <1>7, Zenon DEF IsList

\* A list of a capacity takes finitely many Units.
LEMMA UnitsOfOne ==
  ASSUME NEW c \in Caps
  PROVE  /\ c \div Unit \in Nat
         /\ IsFiniteSet({c} \X ((1..Len(InitList[c])) \X (1..(c \div Unit))))
<1>1. Len(InitList[c]) \in Nat
  BY InitListAssumption, ListFacts, Zenon
<1>2. c \div Unit \in Nat
  BY SizesAssumption
<1>3. IsFiniteSet(1..Len(InitList[c])) /\ IsFiniteSet(1..(c \div Unit))
  <2> DEFINE n == Len(InitList[c])
             k == c \div Unit
  <2>1. 1 \in Int /\ n \in Int /\ k \in Int
    BY <1>1, <1>2
  <2> HIDE DEF n, k
  <2>2. IsFiniteSet(1..n) /\ IsFiniteSet(1..k)
    BY <2>1, FS_Interval, Zenon
  <2> QED
    BY <2>2, Zenon DEF n, k
<1> QED
  BY <1>2, <1>3, FS_Product, FS_Singleton, Zenon

\* The constructor's memory is finite.
LEMMA InitUnitsFinite == IsFiniteSet(InitUnits) /\ InitMem \in Nat
<1> DEFINE U(c) == {c} \X ((1..Len(InitList[c])) \X (1..(c \div Unit)))
           T == {U(c) : c \in Caps}
           f == [c \in Caps |-> U(c)]
<1>1. f \in Surjection(Caps, T)
  BY Zenon DEF Surjection
<1>2. IsFiniteSet(T)
  BY <1>1, FS_Surjection, SizesAssumption, Zenon
<1>3. \A V \in T : IsFiniteSet(V)
  BY UnitsOfOne, Zenon
<1>4. IsFiniteSet(UNION T)
  BY <1>2, <1>3, FS_UNION, Zenon
<1>5. IsFiniteSet(InitUnits)
  BY <1>4, Zenon DEF InitUnits
<1> QED
  BY <1>5, FS_CardinalityType, Zenon DEF InitMem

\* The constructor leaves a pool that satisfies the inductive invariant.
LEMMA BufInit == Init => Inv
<1> SUFFICES ASSUME Init PROVE Inv
  BY Zenon
<1>1. TypeOK
  <2>1. pool \in [Caps -> Bufs \cup {Null}]
    <3>1. \A c \in Caps : InitList[c] \in Seq(Bufs) /\ InitList[c] # <<>>
      BY InitListAssumption, Zenon
    <3>2. ASSUME NEW c \in Caps PROVE InitList[c][1] \in Bufs
      <4>1. Len(InitList[c]) \in Nat /\ Len(InitList[c]) # 0
        BY <3>1, ListFacts, Zenon
      <4>2. 1 \in 1..Len(InitList[c])
        BY <4>1
      <4> QED
        BY <3>1, <4>2, ListFacts, Zenon
    <3> QED
      BY <3>2, Zenon DEF Init
  <2>2. next \in [Bufs -> Bufs \cup {Null}] /\ cap \in [Bufs -> Caps \cup {0}]
    BY InitHeap, Zenon DEF Init
  <2>3. /\ dirty \in [Bufs -> BOOLEAN] /\ mutex \in Threads \cup {Nobody} /\ pc \in [Threads -> Pc]
        /\ want \in [Threads -> Sizes \cup {0}] /\ ref \in [Threads -> Bufs \cup {Null}]
        /\ held \in [Threads -> SUBSET Bufs] /\ exited \in BOOLEAN
    BY Zenon DEF Init, Pc
  <2>4. totalMem \in Nat
    BY InitUnitsFinite, Zenon DEF Init
  <2> QED
    BY <2>1, <2>2, <2>3, <2>4, Zenon DEF TypeOK
<1>2. \A t \in Threads : pc[t] = "idle" /\ held[t] = {} /\ Owned(t) = {} /\ InHand(t) = {}
  BY Zenon DEF Init, Owned, InHand
<1>3. \A b \in Bufs : Free(b) <=> cap[b] # 0
  BY <1>2, Zenon DEF Free, Created
<1>4. MutexInv
  BY <1>2, NamesAssumption, Zenon DEF MutexInv, Init
<1>5. OwnInv
  BY <1>2, Zenon DEF OwnInv
<1>6. ListInv
  BY <1>3, InitLists, Zenon DEF ListInv
<1>7. \A t \in Threads : RefInv(t)
  BY <1>2, Zenon DEF RefInv
<1>8. CleanInv
  BY Zenon DEF CleanInv, Init
<1>9. BelowLimit
  BY LimitAssumption, Zenon DEF BelowLimit, Init
<1> QED
  BY <1>1, <1>4, <1>5, <1>6, <1>7, <1>8, <1>9, Zenon DEF Inv

\* Every step keeps the invariant.
LEMMA BufNext == Inv /\ [Next]_vars => Inv'
<1> SUFFICES ASSUME Inv, [Next]_vars PROVE Inv'
  BY Zenon
<1>1. ASSUME NEW t \in Threads, Step(t) PROVE Inv'
  <2>1. ASSUME NEW n \in Sizes, AllocEnter(t, n) \/ AllocTooLarge(t, n) PROVE Inv'
    BY <2>1, AllocEnterStep, Zenon
  <2>2. CASE AllocLock(t) \/ RevertLock(t)
    BY <2>2, LockStep, Zenon
  <2>3. CASE AllocExit(t) \/ AllocPick(t)
    BY <2>3, AllocPickStep, Zenon
  <2>4. CASE AllocNew(t)
    BY <2>4, AllocNewStep, Zenon
  <2>5. CASE AllocUnlink(t)
    BY <2>5, AllocUnlinkStep, Zenon
  <2>6. CASE AllocClear(t)
    BY <2>6, AllocClearStep, Zenon
  <2>7. CASE Keep(t)
    BY <2>7, KeepStep, Zenon
  <2>8. ASSUME NEW b \in Bufs, Use(t, b) \/ RevertReset(t, b) PROVE Inv'
    BY <2>8, UseStep, RevertResetStep, Zenon
  <2>9. CASE RevertLink(t)
    BY <2>9, RevertLinkStep, Zenon
  <2>10. CASE RevertPush(t)
    BY <2>10, RevertPushStep, Zenon
  <2> QED
    BY <1>1, <2>1, <2>2, <2>3, <2>4, <2>5, <2>6, <2>7, <2>8, <2>9, <2>10, Zenon DEF Step
<1>2. CASE UNCHANGED vars
  BY <1>2 DEF vars, Inv, TypeOK, MutexInv, OwnInv, ListInv, IsList, RefInv, CleanInv, BelowLimit,
     Owned, InHand, Free, Created, Result
<1> QED
  BY <1>1, <1>2, Zenon DEF Next

-----------------------------------------------------------------------------
(* The theorems *)

\* The inductive invariant holds in every reachable state.
THEOREM BufInvariance == Spec => []Inv
  BY BufInit, BufNext, PTL DEF Spec

\* Two threads never own the same buffer, and no list head leads into a buffer
\* that a thread owns (buf_pool.cc, alloc_buf and revert), for any number of
\* threads and buffers.
THEOREM BuffersExclusive == Spec => []ExclusiveOwnership
<1>1. Inv => ExclusiveOwnership
  <2> SUFFICES ASSUME Inv PROVE ExclusiveOwnership
    BY Zenon
  <2>1. ASSUME NEW c \in Caps, NEW t \in Threads PROVE pool[c] \notin Owned(t)
    <3>1. PICK s \in Seq(Bufs) : IsList(c, s)
      BY Zenon DEF Inv, ListInv
    <3>2. CASE s = <<>>
      BY <3>1, <3>2, OwnedAlone, NamesAssumption DEF IsList
    <3>3. CASE s # <<>>
      <4>1. Len(s) \in Nat /\ Len(s) # 0
        BY <3>3, ListFacts, Zenon
      <4>2. 1 \in 1..Len(s)
        BY <4>1
      <4>3. pool[c] = s[1] /\ Free(s[1])
        BY <3>1, <3>3, <4>2, Zenon DEF IsList
      <4> QED
        BY <4>3, Zenon DEF Free
    <3> QED
      BY <3>2, <3>3, Zenon
  <2> QED
    BY <2>1, Zenon DEF ExclusiveOwnership, Inv, OwnInv
<1> QED
  BY <1>1, BufInvariance, PTL

\* alloc_buf(N) returns NULL exactly when no capacity fits, and otherwise an
\* empty unlinked buffer of the smallest capacity that fits, whatever the other
\* threads take and give back meanwhile.
THEOREM AllocReturns == Spec => []AllocResult
<1>1. Inv => AllocResult
  BY Zenon DEF Inv, RefInv, AllocResult
<1> QED
  BY <1>1, BufInvariance, PTL

\* The buffers that lie on a list are those that its head leads to.
LEMMA ListReached ==
  ASSUME NEW c, NEW s \in Seq(Bufs), IsList(c, s)
  PROVE  OnList(c) = {b \in Bufs : Free(b) /\ cap[b] = c}
<1>1. Len(s) \in Nat /\ (s = <<>> <=> Len(s) = 0) /\ \A i \in 1..Len(s) : s[i] \in Bufs /\ s[i] # Null
  BY ListFacts, NamesAssumption, Zenon
<1>2. pool[c] = IF s = <<>> THEN Null ELSE s[1]
  BY Zenon DEF IsList
<1>3. \A i \in 1..Len(s) : next[s[i]] = IF i = Len(s) THEN Null ELSE s[i + 1]
  BY Zenon DEF IsList
<1>4. ASSUME NEW b \in OnList(c) PROVE b \in Bufs /\ Free(b) /\ cap[b] = c
  <2> DEFINE S == {s[i] : i \in 1..Len(s)}
  <2>1. S \in SUBSET Bufs
    BY <1>1, Zenon
  <2>2. pool[c] # Null => pool[c] \in S
    <3>1. s # <<>> => 1 \in 1..Len(s)
      BY <1>1
    <3> QED
      BY <1>2, <3>1, Zenon
  <2>3. ASSUME NEW d \in S, next[d] # Null PROVE next[d] \in S
    <3>1. PICK i \in 1..Len(s) : d = s[i]
      BY Zenon
    <3>2. i # Len(s) /\ next[d] = s[i + 1]
      BY <1>3, <2>3, <3>1, Zenon
    <3>3. i + 1 \in 1..Len(s)
      BY <1>1, <3>2
    <3> QED
      BY <3>2, <3>3, Zenon
  <2>4. Closed(c, S)
    BY <2>2, <2>3, Zenon DEF Closed
  <2>5. b \in S
    BY <2>1, <2>4, Zenon DEF OnList
  <2>6. PICK i \in 1..Len(s) : b = s[i]
    BY <2>5, Zenon
  <2> QED
    BY <1>1, <2>6, Zenon DEF IsList
<1>5. ASSUME NEW b \in Bufs, Free(b), cap[b] = c, NEW S \in SUBSET Bufs, Closed(c, S) PROVE b \in S
  <2>1. PICK k \in 1..Len(s) : s[k] = b
    BY <1>5, Zenon DEF IsList
  <2> DEFINE T == {i \in 1..Len(s) : s[i] \notin S}
  <2>2. T \in SUBSET Nat
    BY <1>1
  <2>3. ASSUME T # {} PROVE FALSE
    <3>1. PICK x \in T : \A y \in T : x <= y
      BY <2>2, <2>3, Lowest, Zenon
    <3>2. x \in 1..Len(s) /\ s[x] \notin S
      BY Zenon
    <3>3. CASE x = 1
      <4>1. s # <<>>
        BY <1>1, <3>2
      <4>2. pool[c] = s[1] /\ s[1] # Null
        BY <1>1, <1>2, <3>2, <3>3, <4>1, Zenon
      <4> QED
        BY <1>5, <3>2, <3>3, <4>2, Zenon DEF Closed
    <3>4. CASE x # 1
      <4> DEFINE y == x - 1
      <4>1. y \in 1..Len(s) /\ y # Len(s) /\ y + 1 = x /\ ~(x <= y)
        BY <1>1, <3>2, <3>4
      <4> HIDE DEF y
      <4>2. s[y] \in S
        BY <3>1, <4>1, Zenon
      <4>3. next[s[y]] = s[x] /\ s[x] # Null
        BY <1>1, <1>3, <3>2, <4>1, Zenon
      <4> QED
        BY <1>5, <3>2, <4>2, <4>3, Zenon DEF Closed
    <3> QED
      BY <3>3, <3>4, Zenon
  <2> QED
    BY <2>1, <2>3, Zenon
<1>6. \A b : b \in OnList(c) <=> b \in Bufs /\ Free(b) /\ cap[b] = c
  BY <1>4, <1>5, Zenon DEF OnList
<1> QED
  BY <1>6, Zenon

\* No buffer is lost or misfiled: while no thread is in a critical section, the
\* list of a capacity holds exactly the buffers of that capacity that nobody owns.
THEOREM NothingLost == Spec => []NothingLeaks
<1>1. Inv => NothingLeaks
  <2> SUFFICES ASSUME Inv, NEW c \in Caps
               PROVE  OnList(c) = {b \in Created : cap[b] = c} \ UNION {Owned(t) : t \in Threads}
    BY Zenon DEF NothingLeaks
  <2>1. PICK s \in Seq(Bufs) : IsList(c, s)
    BY Zenon DEF Inv, ListInv
  <2>2. OnList(c) = {b \in Bufs : Free(b) /\ cap[b] = c}
    BY <2>1, ListReached, Zenon
  <2>3. ASSUME NEW b
        PROVE  (b \in Bufs /\ Free(b) /\ cap[b] = c)
                 <=> (b \in Created /\ cap[b] = c /\ \A t \in Threads : b \notin Owned(t))
    BY Zenon DEF Free, Created
  <2>4. OnList(c) = {b \in Created : cap[b] = c /\ \A t \in Threads : b \notin Owned(t)}
    BY <2>2, <2>3, Zenon
  <2> QED
    BY <2>4, Zenon
<1> QED
  BY <1>1, BufInvariance, PTL

-----------------------------------------------------------------------------
(* The accounting *)

\* A Unit of memory is a buffer that exists and a number within its capacity.
LEMMA InMemory ==
  ASSUME NEW x
  PROVE  x \in Memory <=>
           \E b \in Bufs : cap[b] # 0 /\ \E n \in 1..(cap[b] \div Unit) : x = <<b, n>>
<1>1. \A S, b : x \in {b} \X S <=> \E n \in S : x = <<b, n>>
  OBVIOUS
<1> QED
  BY <1>1 DEF Memory, Created

\* The constructor's Units, one for each of its buffers' Units.
LEMMA InInitUnits ==
  ASSUME NEW x
  PROVE  x \in InitUnits <=>
           \E c \in Caps : \E i \in 1..Len(InitList[c]), n \in 1..(c \div Unit) : x = <<c, <<i, n>>>>
<1>1. \A S, y, b : y \in {b} \X S <=> \E n \in S : y = <<b, n>>
  OBVIOUS
<1>2. \A S, T, y : y \in S \X T <=> \E i \in S, n \in T : y = <<i, n>>
  OBVIOUS
<1> QED
  BY <1>1, <1>2 DEF InitUnits

\* init_memmory counts what it allocates.
LEMMA MemoryInit == Init => MemoryInv
<1> SUFFICES ASSUME Init PROVE MemoryInv
  BY Zenon
<1> DEFINE f == [x \in InitUnits |-> <<InitList[x[1]][x[2][1]], x[2][2]>>]
<1>1. \A b \in Bufs : cap[b] = InitCap(b)
  BY Zenon DEF Init
<1>2. ASSUME NEW c \in Caps, NEW i \in 1..Len(InitList[c])
      PROVE  InitList[c][i] \in Bufs /\ cap[InitList[c][i]] = c /\ c # 0
  <2>1. InitList[c] \in Seq(Bufs)
    BY InitListAssumption, Zenon
  <2>2. InitList[c][i] \in Bufs
    BY <2>1, ListFacts, Zenon
  <2>3. InitCap(InitList[c][i]) = c
    BY InitCapOn, Zenon DEF At
  <2>4. c # 0
    BY SizesAssumption, Zenon
  <2> QED
    BY <1>1, <2>2, <2>3, <2>4, Zenon
<1>3. ASSUME NEW b \in Bufs, cap[b] # 0
      PROVE  \E c \in Caps : \E i \in 1..Len(InitList[c]) : InitList[c][i] = b
  BY <1>1, <1>3, InitOff, Zenon DEF At
<1>4. ASSUME NEW c \in Caps, NEW i \in 1..Len(InitList[c]), NEW n \in 1..(c \div Unit)
      PROVE  f[<<c, <<i, n>>>>] = <<InitList[c][i], n>> /\ <<InitList[c][i], n>> \in Memory
  <2>1. <<c, <<i, n>>>> \in InitUnits
    BY InInitUnits, Zenon
  <2>2. <<InitList[c][i], n>> \in Memory
    BY <1>2, InMemory, Zenon
  <2> QED
    BY <2>1, <2>2, Zenon
<1>5. DOMAIN f = InitUnits /\ f = [x \in InitUnits |-> f[x]]
  BY Zenon
<1> HIDE DEF f
<1>6. f \in [InitUnits -> Memory]
  <2>1. ASSUME NEW x \in InitUnits PROVE f[x] \in Memory
    <3>1. PICK c \in Caps : \E i \in 1..Len(InitList[c]), n \in 1..(c \div Unit) : x = <<c, <<i, n>>>>
      BY <2>1, InInitUnits, Zenon
    <3>2. PICK i \in 1..Len(InitList[c]), n \in 1..(c \div Unit) : x = <<c, <<i, n>>>>
      BY <3>1, Zenon
    <3>3. f[<<c, <<i, n>>>>] \in Memory
      BY <1>4, Zenon
    <3> QED
      BY <3>2, <3>3
  <2> QED
    BY <1>5, <2>1, Zenon
<1>7. ASSUME NEW x \in InitUnits, NEW y \in InitUnits, f[x] = f[y] PROVE x = y
  <2>1. PICK c \in Caps : \E i \in 1..Len(InitList[c]), n \in 1..(c \div Unit) : x = <<c, <<i, n>>>>
    BY InInitUnits, Zenon
  <2>2. PICK i \in 1..Len(InitList[c]), n \in 1..(c \div Unit) : x = <<c, <<i, n>>>>
    BY <2>1, Zenon
  <2>3. PICK d \in Caps : \E j \in 1..Len(InitList[d]), k \in 1..(d \div Unit) : y = <<d, <<j, k>>>>
    BY InInitUnits, Zenon
  <2>4. PICK j \in 1..Len(InitList[d]), k \in 1..(d \div Unit) : y = <<d, <<j, k>>>>
    BY <2>3, Zenon
  <2>5. <<InitList[c][i], n>> = <<InitList[d][j], k>>
    <3>1. f[<<c, <<i, n>>>>] = <<InitList[c][i], n>> /\ f[<<d, <<j, k>>>>] = <<InitList[d][j], k>>
      BY <1>4, Zenon
    <3> QED
      BY <1>7, <2>2, <2>4, <3>1
  <2>6. InitList[c][i] = InitList[d][j] /\ n = k
    BY <2>5, Zenon
  <2>7. c = d /\ i = j
    BY <2>6, InitListAssumption, Zenon
  <2> QED
    BY <2>2, <2>4, <2>6, <2>7, Zenon
<1>8. ASSUME NEW y \in Memory PROVE \E x \in InitUnits : f[x] = y
  <2>1. PICK b \in Bufs : cap[b] # 0 /\ \E n \in 1..(cap[b] \div Unit) : y = <<b, n>>
    BY InMemory, Zenon
  <2>2. PICK n \in 1..(cap[b] \div Unit) : y = <<b, n>>
    BY <2>1, Zenon
  <2>3. PICK c \in Caps : \E i \in 1..Len(InitList[c]) : InitList[c][i] = b
    BY <1>3, <2>1, Zenon
  <2>4. PICK i \in 1..Len(InitList[c]) : InitList[c][i] = b
    BY <2>3, Zenon
  <2>5. n \in 1..(c \div Unit)
    BY <1>2, <2>4, Zenon
  <2>6. <<c, <<i, n>>>> \in InitUnits /\ f[<<c, <<i, n>>>>] = y
    BY <1>4, <2>2, <2>4, <2>5, InInitUnits, Zenon
  <2> QED
    BY <2>6, Zenon
<1>9. ExistsBijection(InitUnits, Memory)
  <2>1. f \in Injection(InitUnits, Memory)
    BY <1>5, <1>6, <1>7, Zenon DEF Injection, IsInjective
  <2>2. f \in Surjection(InitUnits, Memory)
    BY <1>6, <1>8, Zenon DEF Surjection
  <2> QED
    BY <2>1, <2>2, Zenon DEF ExistsBijection, Bijection
<1>10. IsFiniteSet(Memory) /\ Cardinality(Memory) = InitMem
  BY <1>9, InitUnitsFinite, FS_Bijection, Zenon DEF InitMem
<1> QED
  BY <1>10, Zenon DEF MemoryInv, Init

\* alloc_buf adds the new buffer's capacity.
LEMMA MemoryGrows ==
  ASSUME Inv, MemoryInv, NEW t \in Threads, AllocNew(t)
  PROVE  MemoryInv'
<1>1. PICK k : k = SizeClass(want[t])
  BY Zenon
<1>2. PICK b \in Bufs :
        /\ pc[t] = "locked" /\ totalMem' = totalMem + k \div Unit
        /\ cap[b] = 0 /\ cap' = [cap EXCEPT ![b] = k]
  BY <1>1, Zenon DEF AllocNew, Goto
<1>3. k \in Caps
  <2>1. Fitting(want[t]) # {}
    BY <1>2, Zenon DEF Inv, RefInv
  <2> QED
    BY <1>1, <2>1, SmallestFits, Zenon
<1>4. PICK n : n = k \div Unit
  BY Zenon
<1>5. n \in Nat /\ k # 0
  BY <1>3, <1>4, SizesAssumption
<1>6. cap'[b] = k /\ \A d \in Bufs : d # b => cap'[d] = cap[d]
  BY <1>2, PoolType, Zenon
<1> DEFINE N == {b} \X (1..n)
<1>7. Memory' = Memory \cup N
  <2>1. ASSUME NEW x
        PROVE  x \in Memory' <=>
                 \E d \in Bufs : cap'[d] # 0 /\ \E i \in 1..(cap'[d] \div Unit) : x = <<d, i>>
    <3>1. \A S, d : x \in {d} \X S <=> \E i \in S : x = <<d, i>>
      OBVIOUS
    <3> QED
      BY <3>1 DEF Memory, Created
  <2>2. ASSUME NEW x PROVE x \in N <=> \E i \in 1..n : x = <<b, i>>
    OBVIOUS
  <2> HIDE DEF N
  <2>3. ASSUME NEW x \in Memory' PROVE x \in Memory \cup N
    <3>1. PICK d \in Bufs : cap'[d] # 0 /\ \E i \in 1..(cap'[d] \div Unit) : x = <<d, i>>
      BY <2>1, Zenon
    <3>2. CASE d = b
      BY <1>4, <1>6, <2>2, <3>1, <3>2, Zenon
    <3>3. CASE d # b
      BY <1>6, <3>1, <3>3, InMemory, Zenon
    <3> QED
      BY <3>2, <3>3, Zenon
  <2>4. ASSUME NEW x \in Memory PROVE x \in Memory'
    <3>1. PICK d \in Bufs : cap[d] # 0 /\ \E i \in 1..(cap[d] \div Unit) : x = <<d, i>>
      BY InMemory, Zenon
    <3>2. cap'[d] = cap[d]
      BY <1>2, <1>6, <3>1, Zenon
    <3> QED
      BY <2>1, <3>1, <3>2, Zenon
  <2>5. ASSUME NEW x \in N PROVE x \in Memory'
    BY <1>4, <1>5, <1>6, <2>1, <2>2, Zenon
  <2> QED
    BY <2>3, <2>4, <2>5, Zenon
<1>8. Memory \cap N = {}
  <2> SUFFICES ASSUME NEW x, x \in Memory, x \in N PROVE FALSE
    BY Zenon
  <2>1. PICK d \in Bufs : cap[d] # 0 /\ \E i \in 1..(cap[d] \div Unit) : x = <<d, i>>
    BY InMemory, Zenon
  <2>2. PICK i : x = <<d, i>>
    BY <2>1, Zenon
  <2>3. d = b
    BY <2>2
  <2> QED
    BY <1>2, <2>1, <2>3, Zenon
<1>9. IsFiniteSet(N) /\ Cardinality(N) = n
  <2>1. IsFiniteSet(1..n) /\ Cardinality(1..n) = n
    BY <1>5, FS_Interval
  <2>2. IsFiniteSet(N) /\ Cardinality(N) = Cardinality({b}) * Cardinality(1..n) /\ Cardinality({b}) = 1
    BY <2>1, FS_Product, FS_Singleton, Zenon
  <2>3. 1 * n = n
    BY <1>5
  <2> QED
    BY <2>1, <2>2, <2>3, Zenon
<1> HIDE DEF N
<1>10. /\ IsFiniteSet(Memory \cup N)
       /\ Cardinality(Memory \cup N) = Cardinality(Memory) + n - Cardinality({})
  <2>1. IsFiniteSet(Memory)
    BY Zenon DEF MemoryInv
  <2>2. /\ IsFiniteSet(Memory \cup N)
        /\ Cardinality(Memory \cup N)
             = Cardinality(Memory) + Cardinality(N) - Cardinality(Memory \cap N)
    BY <1>9, <2>1, FS_Union, Zenon
  <2> QED
    BY <1>8, <1>9, <2>2, Zenon
<1>11. Cardinality({}) = 0 /\ Cardinality(Memory) \in Nat
  BY FS_EmptySet, FS_CardinalityType, Zenon DEF MemoryInv
<1>12. Cardinality(Memory \cup N) = Cardinality(Memory) + n
  BY <1>5, <1>10, <1>11
<1>13. IsFiniteSet(Memory') /\ totalMem' = Cardinality(Memory')
  BY <1>2, <1>4, <1>7, <1>10, <1>12, Zenon DEF MemoryInv
<1> QED
  BY <1>13, Zenon DEF MemoryInv

\* Nothing else touches the counter or a capacity.
LEMMA MemoryNext == Inv /\ MemoryInv /\ [Next]_vars => MemoryInv'
<1> SUFFICES ASSUME Inv, MemoryInv, [Next]_vars PROVE MemoryInv'
  BY Zenon
<1>1. ASSUME UNCHANGED <<cap, totalMem>> PROVE MemoryInv'
  BY <1>1, Zenon DEF MemoryInv, Memory, Created
<1>2. ASSUME NEW t \in Threads, Step(t) PROVE MemoryInv'
  <2>1. CASE AllocNew(t)
    BY <2>1, MemoryGrows, Zenon
  <2>2. ASSUME NEW n \in Sizes, AllocEnter(t, n) \/ AllocTooLarge(t, n) PROVE MemoryInv'
    BY <1>1, <2>2, Zenon DEF AllocEnter, AllocTooLarge
  <2>3. CASE AllocLock(t) \/ RevertLock(t) \/ AllocExit(t) \/ AllocPick(t)
    BY <1>1, <2>3, Zenon DEF AllocLock, RevertLock, AllocExit, AllocPick
  <2>4. CASE AllocUnlink(t) \/ AllocClear(t) \/ Keep(t)
    BY <1>1, <2>4, Zenon DEF AllocUnlink, AllocClear, Keep
  <2>5. ASSUME NEW b \in Bufs, Use(t, b) \/ RevertReset(t, b) PROVE MemoryInv'
    BY <1>1, <2>5, Zenon DEF Use, RevertReset
  <2>6. CASE RevertLink(t) \/ RevertPush(t)
    BY <1>1, <2>6, Zenon DEF RevertLink, RevertPush
  <2> QED
    BY <1>2, <2>1, <2>2, <2>3, <2>4, <2>5, <2>6, Zenon DEF Step
<1>3. CASE UNCHANGED vars
  BY <1>1, <1>3, Zenon DEF vars
<1> QED
  BY <1>2, <1>3, Zenon DEF Next

\* _total_mem is the memory of all buffers that exist, though alloc_buf and the
\* constructor only ever add to it, and it never reaches the limit: alloc_buf
\* checks before it allocates.
THEOREM MemoryExact == Spec => []MemoryAccounted
<1>1. Inv /\ MemoryInv => MemoryAccounted
  BY Zenon DEF Inv, MemoryInv, BelowLimit, MemoryAccounted
<1> QED
  BY <1>1, MemoryInit, MemoryNext, BufInvariance, PTL DEF Spec
=============================================================================
