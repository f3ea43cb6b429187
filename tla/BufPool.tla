------------------------------- MODULE BufPool -------------------------------
(***************************************************************************)
(* buf_pool (reactor/src/buf_pool.cc): the process-wide pool of io_bufs,   *)
(* one singly linked free list per capacity, shared by every thread that   *)
(* owns a connection.  The lists are modelled as the code has them, a head *)
(* pointer per capacity and a next pointer per buffer, because what can go *)
(* wrong is a pointer followed or written outside the mutex: alloc_buf     *)
(* clears target->next after unlocking, revert resets length and head      *)
(* before locking.                                                         *)
(***************************************************************************)
EXTENDS Integers, FiniteSets, Sequences

CONSTANTS
  Threads,   \* threads that own connections
  Nobody,    \* "the mutex is free"
  Bufs,      \* io_buf objects that can exist
  Null,      \* the null pointer
  Caps,      \* MEM_CAP, the capacities
  Sizes,     \* values N that alloc_buf is called with
  Unit,      \* memory is accounted in this many bytes (1024)
  InitList,  \* per capacity, the list init_memmory builds
  MemLimit   \* EXTRA_MEM_LIMIT, in Units

\* _total_mem after the constructor: the sum of (c \div Unit) * Len(InitList[c])
\* over the capacities c, as a number of elements.
InitUnits == UNION {{c} \X ((1..Len(InitList[c])) \X (1..(c \div Unit))) : c \in Caps}
InitMem == Cardinality(InitUnits)

ASSUME NamesAssumption ==
  /\ Nobody \notin Threads
  /\ Null \notin Bufs

ASSUME SizesAssumption ==
  /\ Unit \in Nat \ {0}
  /\ Caps \subseteq Nat \ {0} /\ IsFiniteSet(Caps)
  /\ \A c \in Caps : c % Unit = 0
  /\ Sizes \subseteq Int

\* new io_buf returns distinct objects, and every list gets at least one.
ASSUME InitListAssumption ==
  /\ InitList \in [Caps -> Seq(Bufs)]
  /\ \A c \in Caps : InitList[c] # <<>>
  /\ \A c, d \in Caps : \A i \in 1..Len(InitList[c]), j \in 1..Len(InitList[d]) :
       InitList[c][i] = InitList[d][j] => c = d /\ i = j

ASSUME LimitAssumption ==
  /\ MemLimit \in Nat
  /\ InitMem < MemLimit

VARIABLES
  pool,      \* _pool: head of the free list of each capacity
  next,      \* io_buf::next
  cap,       \* io_buf::capacity; 0 for a buffer that was never created
  dirty,     \* io_buf::length or io_buf::head is not 0
  totalMem,  \* _total_mem
  mutex,     \* owner of _mutex
  pc,        \* where each thread is inside alloc_buf or revert
  want,      \* the argument N of each thread's alloc_buf
  ref,       \* the local target / new_buf / buf of each thread
  held,      \* buffers each thread's reactor_bufs point to
  exited     \* the process called exit(1)

vars == <<pool, next, cap, dirty, totalMem, mutex, pc, want, ref, held, exited>>

Pc == {"idle", "alloc", "locked", "picked", "unlinked", "returned",
       "revert", "relock", "linked"}

TypeOK ==
  /\ pool \in [Caps -> Bufs \cup {Null}]
  /\ next \in [Bufs -> Bufs \cup {Null}]
  /\ cap \in [Bufs -> Caps \cup {0}]
  /\ dirty \in [Bufs -> BOOLEAN]
  /\ totalMem \in Nat
  /\ mutex \in Threads \cup {Nobody}
  /\ pc \in [Threads -> Pc]
  /\ want \in [Threads -> Sizes \cup {0}]
  /\ ref \in [Threads -> Bufs \cup {Null}]
  /\ held \in [Threads -> SUBSET Bufs]
  /\ exited \in BOOLEAN

-----------------------------------------------------------------------------
\* The capacity for which init_memmory creates b, and b's successor there.
InitCap(b) ==
  IF \E c \in Caps : \E i \in 1..Len(InitList[c]) : InitList[c][i] = b
    THEN CHOOSE c \in Caps : \E i \in 1..Len(InitList[c]) : InitList[c][i] = b
    ELSE 0

InitNext(b) ==
  IF \E c \in Caps : \E i \in 1..Len(InitList[c]) - 1 : InitList[c][i] = b
    THEN CHOOSE n \in Bufs : \E c \in Caps : \E i \in 1..Len(InitList[c]) - 1 :
           InitList[c][i] = b /\ InitList[c][i + 1] = n
    ELSE Null

Init ==
  /\ pool = [c \in Caps |-> InitList[c][1]]
  /\ next = [b \in Bufs |-> InitNext(b)]
  /\ cap = [b \in Bufs |-> InitCap(b)]
  /\ dirty = [b \in Bufs |-> FALSE]
  /\ totalMem = InitMem
  /\ mutex = Nobody
  /\ pc = [t \in Threads |-> "idle"]
  /\ want = [t \in Threads |-> 0]
  /\ ref = [t \in Threads |-> Null]
  /\ held = [t \in Threads |-> {}]
  /\ exited = FALSE

Goto(t, from, to) ==
  /\ ~exited
  /\ pc[t] = from
  /\ pc' = [pc EXCEPT ![t] = to]

\* A mutant of Lock: the critical section is entered without waiting.
LockNoWait(t) == mutex' = t

Lock(t) == mutex = Nobody /\ mutex' = t

Unlock == mutex' = Nobody

\* The locals of alloc_buf and revert go out of scope.
Forget(t) ==
  /\ want' = [want EXCEPT ![t] = 0]
  /\ ref' = [ref EXCEPT ![t] = Null]

-----------------------------------------------------------------------------
(* alloc_buf *)

\* The capacities that fit N bytes, and the one the if-chain picks.
Fitting(n) == {c \in Caps : n <= c}

SizeClass(n) == CHOOSE c \in Fitting(n) : \A d \in Fitting(n) : c <= d

AllocEnter(t, n) ==
  /\ Fitting(n) # {}
  /\ Goto(t, "idle", "alloc")
  /\ want' = [want EXCEPT ![t] = n]
  /\ UNCHANGED <<pool, next, cap, dirty, totalMem, mutex, ref, held, exited>>

\* N is larger than every capacity: return NULL.
AllocTooLarge(t, n) ==
  /\ Fitting(n) = {}
  /\ Goto(t, "idle", "returned")
  /\ want' = [want EXCEPT ![t] = n]
  /\ ref' = [ref EXCEPT ![t] = Null]
  /\ UNCHANGED <<pool, next, cap, dirty, totalMem, mutex, held, exited>>

AllocLock(t) ==
  /\ Goto(t, "alloc", "locked")
  /\ Lock(t)
  /\ UNCHANGED <<pool, next, cap, dirty, totalMem, want, ref, held, exited>>

\* The list is empty and the limit would be reached: exit(1).
AllocExit(t) ==
  LET index == SizeClass(want[t]) IN
  /\ Goto(t, "locked", "locked")
  /\ pool[index] = Null
  /\ totalMem + index \div Unit >= MemLimit
  /\ exited' = TRUE
  /\ UNCHANGED <<pool, next, cap, dirty, totalMem, mutex, want, ref, held>>

\* A mutant of AllocNew: the new buffer is not added to _total_mem.
AllocNewUncounted(t) ==
  LET index == SizeClass(want[t]) IN
  /\ Goto(t, "locked", "returned")
  /\ pool[index] = Null
  /\ totalMem + index \div Unit < MemLimit
  /\ \E b \in Bufs :
       /\ cap[b] = 0
       /\ cap' = [cap EXCEPT ![b] = index]
       /\ next' = [next EXCEPT ![b] = Null]
       /\ dirty' = [dirty EXCEPT ![b] = FALSE]
       /\ ref' = [ref EXCEPT ![t] = b]
  /\ Unlock
  /\ UNCHANGED <<pool, totalMem, want, held, exited>>

\* The list is empty: a new io_buf, accounted before unlocking.
AllocNew(t) ==
  LET index == SizeClass(want[t]) IN
  /\ Goto(t, "locked", "returned")
  /\ pool[index] = Null
  /\ totalMem + index \div Unit < MemLimit
  /\ \E b \in Bufs :
       /\ cap[b] = 0
       /\ cap' = [cap EXCEPT ![b] = index]
       /\ next' = [next EXCEPT ![b] = Null]
       /\ dirty' = [dirty EXCEPT ![b] = FALSE]
       /\ ref' = [ref EXCEPT ![t] = b]
  /\ totalMem' = totalMem + index \div Unit
  /\ Unlock
  /\ UNCHANGED <<pool, want, held, exited>>

\* target = _pool[index]
AllocPick(t) ==
  LET index == SizeClass(want[t]) IN
  /\ Goto(t, "locked", "picked")
  /\ pool[index] # Null
  /\ ref' = [ref EXCEPT ![t] = pool[index]]
  /\ UNCHANGED <<pool, next, cap, dirty, totalMem, mutex, want, held, exited>>

\* _pool[index] = target->next, and unlock.
AllocUnlink(t) ==
  /\ Goto(t, "picked", "unlinked")
  /\ pool' = [pool EXCEPT ![SizeClass(want[t])] = next[ref[t]]]
  /\ Unlock
  /\ UNCHANGED <<next, cap, dirty, totalMem, want, ref, held, exited>>

\* target->next = NULL, outside the lock.
AllocClear(t) ==
  /\ Goto(t, "unlinked", "returned")
  /\ next' = [next EXCEPT ![ref[t]] = Null]
  /\ UNCHANGED <<pool, cap, dirty, totalMem, mutex, want, ref, held, exited>>

-----------------------------------------------------------------------------
(* The caller, a reactor_buf of the thread *)

\* _buf = alloc_buf(...), unless it is NULL.
Keep(t) ==
  /\ Goto(t, "returned", "idle")
  /\ held' = [held EXCEPT ![t] = @ \cup ({ref[t]} \ {Null})]
  /\ Forget(t)
  /\ UNCHANGED <<pool, next, cap, dirty, totalMem, mutex, exited>>

\* Data is read into, copied into or popped from the buffer.
Use(t, b) ==
  /\ Goto(t, "idle", "idle")
  /\ b \in held[t]
  /\ dirty' = [dirty EXCEPT ![b] = TRUE]
  /\ UNCHANGED <<pool, next, cap, totalMem, mutex, want, ref, held, exited>>

-----------------------------------------------------------------------------
(* revert *)

\* A mutant of RevertReset: length and head are left as they are.
RevertNoReset(t, b) ==
  /\ b \in held[t]
  /\ Goto(t, "idle", "revert")
  /\ ref' = [ref EXCEPT ![t] = b]
  /\ held' = [held EXCEPT ![t] = @ \ {b}]
  /\ UNCHANGED <<pool, next, cap, dirty, totalMem, mutex, want, exited>>

\* length = head = 0, outside the lock; the caller forgets its pointer.
RevertReset(t, b) ==
  /\ b \in held[t]
  /\ Goto(t, "idle", "revert")
  /\ ref' = [ref EXCEPT ![t] = b]
  /\ held' = [held EXCEPT ![t] = @ \ {b}]
  /\ dirty' = [dirty EXCEPT ![b] = FALSE]
  /\ UNCHANGED <<pool, next, cap, totalMem, mutex, want, exited>>

RevertLock(t) ==
  /\ Goto(t, "revert", "relock")
  /\ Lock(t)
  /\ UNCHANGED <<pool, next, cap, dirty, totalMem, want, ref, held, exited>>

\* A mutant of RevertLink: the rest of the list is not linked behind buf.
RevertLinkDropped(t) ==
  /\ Goto(t, "relock", "linked")
  /\ UNCHANGED <<pool, next, cap, dirty, totalMem, mutex, want, ref, held, exited>>

\* buf->next = _pool[index]
RevertLink(t) ==
  /\ Goto(t, "relock", "linked")
  /\ next' = [next EXCEPT ![ref[t]] = pool[cap[ref[t]]]]
  /\ UNCHANGED <<pool, cap, dirty, totalMem, mutex, want, ref, held, exited>>

\* _pool[index] = buf, and unlock.
RevertPush(t) ==
  /\ Goto(t, "linked", "idle")
  /\ pool' = [pool EXCEPT ![cap[ref[t]]] = ref[t]]
  /\ Unlock
  /\ Forget(t)
  /\ UNCHANGED <<next, cap, dirty, totalMem, held, exited>>

-----------------------------------------------------------------------------
Step(t) ==
  \/ \E n \in Sizes : AllocEnter(t, n) \/ AllocTooLarge(t, n)
  \/ AllocLock(t)
  \/ AllocExit(t)
  \/ AllocNew(t)
  \/ AllocPick(t)
  \/ AllocUnlink(t)
  \/ AllocClear(t)
  \/ Keep(t)
  \/ \E b \in Bufs : Use(t, b) \/ RevertReset(t, b)
  \/ RevertLock(t)
  \/ RevertLink(t)
  \/ RevertPush(t)

Next == \E t \in Threads : Step(t)

Spec == Init /\ [][Next]_vars

-----------------------------------------------------------------------------
(* Properties *)

Created == {b \in Bufs : cap[b] # 0}

\* The buffer a thread has taken off a list and not stored yet, or is about to
\* give back.
InHand(t) ==
  IF pc[t] \in {"unlinked", "returned", "revert", "relock", "linked"}
    THEN {ref[t]} \ {Null}
    ELSE {}

Owned(t) == held[t] \cup InHand(t)

\* A set of buffers that following pointers from the head of a list does not
\* leave, and the buffers that are reached that way.
Closed(c, S) ==
  /\ pool[c] # Null => pool[c] \in S
  /\ \A b \in S : next[b] # Null => next[b] \in S

OnList(c) == {b \in Bufs : \A S \in SUBSET Bufs : Closed(c, S) => b \in S}

\* A buffer that is on a free list, by elimination.
Free(b) == b \in Created /\ \A t \in Threads : b \notin Owned(t)

\* A buffer belongs to at most one thread, and no list head or free buffer
\* points to a buffer that a thread owns: two connections never share memory,
\* although next is cleared and length reset outside the mutex.
ExclusiveOwnership ==
  /\ \A t, u \in Threads : t # u => Owned(t) \cap Owned(u) = {}
  /\ \A t \in Threads : InHand(t) \cap held[t] = {}
  /\ mutex = Nobody =>
       \A c \in Caps, t \in Threads : pool[c] \notin Owned(t)

\* What alloc_buf has returned to t: NULL exactly when no capacity fits, else an
\* unlinked empty buffer of the smallest capacity that fits.
Result(t) ==
  /\ (ref[t] = Null) <=> (Fitting(want[t]) = {})
  /\ ref[t] # Null =>
       /\ cap[ref[t]] \in Fitting(want[t])
       /\ \A c \in Fitting(want[t]) : cap[ref[t]] <= c
       /\ ~dirty[ref[t]]
       /\ next[ref[t]] = Null

\* alloc_buf(N) gives each caller what it asked for (buf_pool.cc:53-100), though
\* other threads take and give back buffers all the while.
AllocResult == \A t \in Threads : pc[t] = "returned" => Result(t)

\* No buffer is ever lost or misfiled: outside critical sections the free list
\* of a capacity holds exactly the created buffers of that capacity that no
\* thread owns.
NothingLeaks ==
  mutex = Nobody =>
    \A c \in Caps :
      OnList(c) = {b \in Created : cap[b] = c} \ UNION {Owned(t) : t \in Threads}

\* The memory of the buffers that exist, Unit by Unit.
Memory == UNION {{b} \X (1..(cap[b] \div Unit)) : b \in Created}

\* _total_mem is what was really allocated, and stays below the limit.
MemoryAccounted ==
  /\ totalMem = Cardinality(Memory)
  /\ totalMem < MemLimit

\* The part of MemoryAccounted that alloc_buf's check is for.
BelowLimit == totalMem < MemLimit

-----------------------------------------------------------------------------
(* The inductive invariant behind the safety properties *)

\* Who is inside the critical section.
MutexInv ==
  \A t \in Threads :
    (pc[t] \in {"locked", "picked", "relock", "linked"}) <=> (mutex = t)

\* Who owns what.
OwnInv ==
  /\ \A t \in Threads : held[t] \subseteq Created
  /\ \A t, u \in Threads : t # u => Owned(t) \cap Owned(u) = {}
  /\ \A t \in Threads : InHand(t) \cap held[t] = {}

\* s is the free list of capacity c: linked from the head to Null, without
\* repetition, and exactly the free buffers of that capacity.
IsList(c, s) ==
  /\ pool[c] = IF s = <<>> THEN Null ELSE s[1]
  /\ \A i \in 1..Len(s) : next[s[i]] = IF i = Len(s) THEN Null ELSE s[i + 1]
  /\ \A i, j \in 1..Len(s) : s[i] = s[j] => i = j
  /\ \A i \in 1..Len(s) : Free(s[i]) /\ cap[s[i]] = c
  /\ \A b \in Bufs : Free(b) /\ cap[b] = c => \E i \in 1..Len(s) : s[i] = b

ListInv == \A c \in Caps : \E s \in Seq(Bufs) : IsList(c, s)

\* What each thread's locals are worth at each point.
RefInv(t) ==
  /\ pc[t] \in {"alloc", "locked", "picked", "unlinked"} => Fitting(want[t]) # {}
  /\ pc[t] = "picked" => ref[t] = pool[SizeClass(want[t])] /\ ref[t] # Null
  /\ pc[t] \in {"unlinked", "revert", "relock", "linked"} =>
       ref[t] \in Created /\ ~dirty[ref[t]]
  /\ pc[t] = "unlinked" => cap[ref[t]] = SizeClass(want[t])
  /\ pc[t] = "returned" => (ref[t] # Null => ref[t] \in Created) /\ Result(t)
  /\ pc[t] = "linked" => next[ref[t]] = pool[cap[ref[t]]]

\* Free buffers are empty.
CleanInv == \A b \in Bufs : Free(b) => ~dirty[b]

Inv ==
  /\ TypeOK
  /\ MutexInv
  /\ OwnInv
  /\ ListInv
  /\ \A t \in Threads : RefInv(t)
  /\ CleanInv
  /\ BelowLimit

\* The two halves of MemoryAccounted are kept apart: this one changes only where
\* a buffer is created.
MemoryInv == IsFiniteSet(Memory) /\ totalMem = Cardinality(Memory)
=============================================================================
