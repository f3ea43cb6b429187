---------------------------- MODULE ServerProofs ----------------------------
(***************************************************************************)
(* Proofs about tcp_server and about the DNS service that runs on it.      *)
(*                                                                         *)
(* The server: conns[] and _cur_conns are exact and events reach the       *)
(* connection they are for, for any number of threads, connections and     *)
(* descriptors and any size of the table.                                  *)
(*                                                                         *)
(* The service: _book_list is exact, push_change_task finds a live         *)
(* connection of its own loop, and no client is told older hosts than      *)
(* before, for any number of workers, connections, descriptors, modules    *)
(* and edits, with failing queries and edits in several statements.        *)
(***************************************************************************)
EXTENDS DnsService, TLAPS

\* The leaves are first-order; the ones that need arithmetic cite SMT.
USE Zenon

\* What the workers' queues carry.
Messages == Conns \cup {NewTask}

-----------------------------------------------------------------------------
(* Facts about the data *)

\* A null pointer is neither a connection nor a descriptor, a task is not a
\* connection, and the eventfd is not a connection's descriptor.
LEMMA Apart == None \notin Conns /\ None \notin Fds /\ NewTask \notin Conns /\ QueueFd \notin Fds
<1>1. None \notin Conns
  BY TcpAssumption, SMT DEF Conns
<1>2. None \notin Fds /\ QueueFd \notin Fds
  BY TcpAssumption DEF QueueFd
<1>3. NewTask \notin Conns
  BY TcpAssumption, SMT DEF Conns, NewTask
<1> QED
  BY <1>1, <1>2, <1>3

\* Appending to the queue appends to what is pending.
LEMMA ConcatAppend ==
  ASSUME NEW S, NEW s \in Seq(S), NEW t \in Seq(S), NEW x \in S
  PROVE  s \o Append(t, x) = Append(s \o t, x)
BY SMT

\* Taking the first task takes the first of what is pending.
LEMMA ConcatTail ==
  ASSUME NEW S, NEW s \in Seq(S), NEW t \in Seq(S), s # <<>>
  PROVE  /\ Tail(s) \o t = Tail(s \o t) /\ Head(s) = (s \o t)[1]
         /\ s \o t # <<>> /\ 1 \in 1..Len(s \o t)
BY SMT

\* Writing outside the domain of a function changes nothing.
LEMMA ExceptOutside ==
  ASSUME NEW A, NEW B, NEW f \in [A -> B], NEW x, x \notin A, NEW y
  PROVE  [f EXCEPT ![x] = y] = f
OBVIOUS

\* A connection that is not queued goes to another stage.
LEMMA QueuedKept ==
  ASSUME NEW m \in [Workers -> Seq(Messages)], NEW st \in [Conns -> Stages],
         NEW new \in [Conns -> Stages], QueuedOnce(m, st),
         \A k \in Conns : st[k] = "queued" => new[k] = "queued"
  PROVE  QueuedOnce(m, new)
BY DEF QueuedOnce

\* A connection is handed over.
LEMMA QueuedAdd ==
  ASSUME NEW m \in [Workers -> Seq(Messages)], NEW st \in [Conns -> Stages],
         NEW w \in Workers, NEW k \in Conns, QueuedOnce(m, st), st[k] # "queued",
         NEW n, n = [m EXCEPT ![w] = Append(@, k)],
         NEW new, new = [st EXCEPT ![k] = "queued"]
  PROVE  n \in [Workers -> Seq(Messages)] /\ QueuedOnce(n, new)
<1>1. k \in Messages /\ m[w] \in Seq(Messages)
  BY DEF Messages
<1>2. /\ Append(m[w], k) \in Seq(Messages) /\ Len(Append(m[w], k)) = Len(m[w]) + 1
      /\ \A i \in 1..Len(m[w]) : Append(m[w], k)[i] = m[w][i]
      /\ Append(m[w], k)[Len(m[w]) + 1] = k /\ Len(m[w]) \in Nat
  BY <1>1, SMT
<1>3. n[w] = Append(m[w], k) /\ n \in [Workers -> Seq(Messages)]
      /\ \A v \in Workers : v # w => n[v] = m[v]
  BY <1>2
<1>4. ASSUME NEW v \in Workers, NEW i \in 1..Len(n[v])
      PROVE  \/ v = w /\ i = Len(m[w]) + 1 /\ n[v][i] = k
             \/ i \in 1..Len(m[v]) /\ n[v][i] = m[v][i]
  BY <1>2, <1>3, <1>4, SMT
<1>5. ASSUME NEW v \in Workers, NEW i \in 1..Len(m[v]), m[v][i] \in Conns
      PROVE  m[v][i] # k /\ st[m[v][i]] = "queued"
  BY <1>5, SMT DEF QueuedOnce
<1>6. \A j \in Conns : st[j] = "queued" \/ j = k => new[j] = "queued"
  OBVIOUS
<1>7. ASSUME NEW v \in Workers, NEW i \in 1..Len(n[v]), n[v][i] \in Conns
      PROVE  new[n[v][i]] = "queued"
  BY <1>4, <1>5, <1>6, <1>7, SMT
<1>8. ASSUME NEW u \in Workers, NEW v \in Workers, NEW i \in 1..Len(n[u]), NEW j \in 1..Len(n[v]),
             n[u][i] \in Conns, n[u][i] = n[v][j]
      PROVE  u = v /\ i = j
  BY <1>4, <1>5, <1>8, SMT DEF QueuedOnce
<1> QED
  BY <1>3, <1>7, <1>8, SMT DEF QueuedOnce

\* A task is sent.
LEMMA QueuedTask ==
  ASSUME NEW m \in [Workers -> Seq(Messages)], NEW st \in [Conns -> Stages],
         NEW w \in Workers, QueuedOnce(m, st), NEW n, n = [m EXCEPT ![w] = Append(@, NewTask)]
  PROVE  n \in [Workers -> Seq(Messages)] /\ QueuedOnce(n, st)
<1>1. NewTask \in Messages /\ m[w] \in Seq(Messages) /\ NewTask \notin Conns
  BY Apart DEF Messages
<1>2. /\ Append(m[w], NewTask) \in Seq(Messages) /\ Len(Append(m[w], NewTask)) = Len(m[w]) + 1
      /\ \A i \in 1..Len(m[w]) : Append(m[w], NewTask)[i] = m[w][i]
      /\ Append(m[w], NewTask)[Len(m[w]) + 1] = NewTask /\ Len(m[w]) \in Nat
  BY <1>1, SMT
<1>3. n[w] = Append(m[w], NewTask) /\ n \in [Workers -> Seq(Messages)]
      /\ \A v \in Workers : v # w => n[v] = m[v]
  BY <1>2
<1>4. ASSUME NEW v \in Workers, NEW i \in 1..Len(n[v]), n[v][i] \in Conns
      PROVE  i \in 1..Len(m[v]) /\ n[v][i] = m[v][i]
  BY <1>1, <1>2, <1>3, <1>4, SMT
<1> QED
  BY <1>3, <1>4, SMT DEF QueuedOnce

\* The first message of a worker is taken.
LEMMA QueuedTake ==
  ASSUME NEW m \in [Workers -> Seq(Messages)], NEW st \in [Conns -> Stages],
         NEW w \in Workers, QueuedOnce(m, st), m[w] # <<>>,
         NEW n, n = [m EXCEPT ![w] = Tail(@)],
         NEW s \in Stages, NEW new, new = [st EXCEPT ![m[w][1]] = s]
  PROVE  n \in [Workers -> Seq(Messages)] /\ QueuedOnce(n, new)
<1>1. /\ Tail(m[w]) \in Seq(Messages) /\ Len(Tail(m[w])) = Len(m[w]) - 1
      /\ \A i \in 1..Len(Tail(m[w])) : Tail(m[w])[i] = m[w][i + 1]
      /\ Len(m[w]) \in Nat \ {0}
  BY SMT
<1>2. n[w] = Tail(m[w]) /\ n \in [Workers -> Seq(Messages)]
      /\ \A v \in Workers : v # w => n[v] = m[v]
  BY <1>1
<1>3. ASSUME NEW v \in Workers, NEW i \in 1..Len(n[v])
      PROVE  IF v = w THEN i + 1 \in 1..Len(m[v]) /\ n[v][i] = m[v][i + 1] /\ i \in Nat
                      ELSE i \in 1..Len(m[v]) /\ n[v][i] = m[v][i]
  BY <1>1, <1>2, <1>3, SMT
<1>4. 1 \in 1..Len(m[w])
  BY <1>1, SMT
<1>5. ASSUME NEW v \in Workers, NEW i \in 1..Len(n[v]), n[v][i] \in Conns
      PROVE  new[n[v][i]] = "queued"
  <2>1. n[v][i] # m[w][1] /\ st[n[v][i]] = "queued"
    <3>1. CASE v = w
      BY <1>3, <1>4, <1>5, <3>1, SMT DEF QueuedOnce
    <3>2. CASE v # w
      BY <1>3, <1>4, <1>5, <3>2, SMT DEF QueuedOnce
    <3> QED
      BY <3>1, <3>2
  <2> QED
    BY <1>5, <2>1
<1>6. ASSUME NEW u \in Workers, NEW v \in Workers, NEW i \in 1..Len(n[u]), NEW j \in 1..Len(n[v]),
             n[u][i] \in Conns, n[u][i] = n[v][j]
      PROVE  u = v /\ i = j
  <2>1. u = v
    BY <1>3, <1>6, SMT DEF QueuedOnce
  <2>2. CASE u = w
    BY <1>3, <1>6, <2>1, <2>2, SMT DEF QueuedOnce
  <2>3. CASE u # w
    BY <1>3, <1>6, <2>1, <2>3, SMT DEF QueuedOnce
  <2> QED
    BY <2>1, <2>2, <2>3
<1> QED
  BY <1>2, <1>5, <1>6, SMT DEF QueuedOnce

-----------------------------------------------------------------------------
(* The invariant *)

\* The connections and the kernel's sockets.
LEMMA StageType == ServerInv => /\ stage \in [Conns -> Stages]
                                /\ connfd \in [Conns -> Fds \cup {None}]
                                /\ sock \in [Fds -> Conns \cup {None}]
                                /\ backlog \in Seq(Conns)
BY DEF ServerInv, ServerType

\* The messages.
LEMMA QueueType == ServerInv => /\ queue \in [Workers -> Seq(Messages)]
                                /\ batch \in [Workers -> Seq(Messages)]
                                /\ pending \in [Workers -> Seq(Messages)]
                                /\ index \in 0..ThreadCnt /\ bpos \in 0..ThreadCnt
<1> SUFFICES ASSUME ServerInv
             PROVE  /\ queue \in [Workers -> Seq(Messages)]
                    /\ batch \in [Workers -> Seq(Messages)]
                    /\ pending \in [Workers -> Seq(Messages)]
                    /\ index \in 0..ThreadCnt /\ bpos \in 0..ThreadCnt
  OBVIOUS
<1>1. /\ queue \in [Workers -> Seq(Messages)] /\ batch \in [Workers -> Seq(Messages)]
      /\ index \in 0..ThreadCnt /\ bpos \in 0..ThreadCnt
  BY DEF ServerInv, ServerType, Messages
<1>2. \A w \in Workers : batch[w] \o queue[w] \in Seq(Messages)
  BY <1>1, SMT
<1> QED
  BY <1>1, <1>2 DEF pending

\* The event loops.
LEMMA LoopType == ServerInv => /\ fired \in [Workers -> SUBSET (Fds \cup {QueueFd})]
                               /\ wconn \in [Workers -> Conns \cup {None}]
                               /\ ioEvs \in [Workers -> [Fds -> Conns \cup {None}]]
                               /\ epoll \in [Workers -> SUBSET Fds]
BY DEF ServerInv, ServerType

\* Where the workers are.
WorkerPcs == {"poll", "dispatch", "tasks", "start", "increase",
              "closecb", "decrease", "del", "close", "run"}

\* The program counters of the workers.
LEMMA PcType == ServerInv => wpc \in [Workers -> WorkerPcs]
BY DEF ServerInv, ServerType, WorkerPcs

\* The table of connections.
LEMMA TableType == ServerInv => conns \in [Slots -> Conns \cup {None, Junk}]
BY DEF ServerInv, ServerType

\* A descriptor has a handler in one event loop at most.
LEMMA OneHandlerPerFd ==
  ASSUME ServerInv, NEW w \in Workers, NEW v \in Workers, v # w, NEW g \in Fds, ioEvs[w][g] # None
  PROVE  ioEvs[v][g] = None
<1>1. \A u, x \in Workers, f \in Fds : ioEvs[u][f] # None /\ ioEvs[x][f] # None => u = x
  BY DEF ServerInv, EventInv
<1> QED
  BY <1>1

\* The stages of a connection that a worker has seen and that has its
\* descriptor.
Handled == {"registered", "started", "live", "closing", "hooked", "uncounted", "removed"}

\* A connection with a handler, and one that a worker is busy with, is past the
\* queue.
LEMMA HandledOnly ==
  ASSUME ServerInv
  PROVE  /\ \A w \in Workers, f \in Fds : ioEvs[w][f] # None =>
               /\ ioEvs[w][f] \in Conns
               /\ stage[ioEvs[w][f]] \in Handled
         /\ \A w \in Workers : Busy(w) => wconn[w] \in Conns /\ stage[wconn[w]] \in Handled \ {"live"}
<1>1. ASSUME NEW w \in Workers, Busy(w)
      PROVE  wconn[w] \in Conns /\ stage[wconn[w]] \in Handled \ {"live"}
  BY <1>1 DEF ServerInv, WorkerInv, Busy, BusyPcs, AtStage, Handled
<1>2. ASSUME NEW w \in Workers, NEW f \in Fds, ioEvs[w][f] # None
      PROVE  ioEvs[w][f] \in Conns /\ stage[ioEvs[w][f]] \in Handled
  <2>1. ioEvs[w][f] \in Conns
    BY <1>2, LoopType
  <2>2. stage[ioEvs[w][f]] = "live" \/ (Busy(w) /\ wconn[w] = ioEvs[w][f])
    BY <1>2 DEF ServerInv, EventInv, Busy
  <2> QED
    BY <1>1, <2>1, <2>2 DEF Handled
<1> QED
  BY <1>1, <1>2

\* No two connections have the same descriptor.
LEMMA OneConnPerFd ==
  ASSUME ServerInv, NEW j \in Conns, NEW k \in Conns, stage[j] \in HoldsFd,
         connfd[j] = connfd[k]
  PROVE  j = k
<1>1. connfd[j] \in Fds /\ sock[connfd[j]] = j
  BY DEF ServerInv, SocketInv
<1>2. connfd[k] # None
  BY <1>1, Apart
<1> QED
  BY <1>1, <1>2 DEF ServerInv, SocketInv

\* Nothing is sent or received, and what is queued stays queued.
LEMMA PendingKept ==
  ASSUME ServerInv, queue' = queue, batch' = batch, stage' \in [Conns -> Stages],
         \A j \in Conns : stage[j] = "queued" => stage'[j] = "queued",
         \A w \in Workers : batch[w] # <<>> => wpc'[w] \in {"tasks", "start", "increase"}
  PROVE  PendingInv'
<1>1. pending' = pending
  BY DEF pending
<1>2. QueuedOnce(pending, stage)
  BY DEF ServerInv, PendingInv
<1>3. QueuedOnce(pending, stage')
  BY <1>2, StageType, QueueType, QueuedKept
<1> QED
  BY <1>1, <1>3 DEF PendingInv

-----------------------------------------------------------------------------
(* The main thread and the clients *)

\* What the event loops own.
loopVars == <<wpc, batch, fired, wconn, ioEvs, epoll>>
\* A step that concerns a connection no worker has seen yet disturbs neither the
\* loops nor the table.
LEMMA NotYetHandled ==
  ASSUME ServerInv, NEW k \in Conns, stage[k] \in {"none", "backlog", "accepted"},
         NEW s \in {"backlog", "accepted", "refused", "queued"},
         stage' = [stage EXCEPT ![k] = s],
         \A j \in Conns : j # k => connfd'[j] = connfd[j],
         SocketInv', UNCHANGED <<loopVars, tableVars>>
  PROVE  WorkerInv' /\ EventInv' /\ SlotInv' /\ TableExact' /\ DispatchToOwner'
<1>1. \A j \in Conns : j # k => stage'[j] = stage[j] /\ connfd'[j] = connfd[j]
  BY StageType
<1>2. stage'[k] = s
  BY StageType
<1>3. UNCHANGED <<wpc, batch, fired, wconn, ioEvs, epoll, conns, curConns>>
  BY DEF loopVars, tableVars
<1>4. stage[k] \notin Handled
  BY DEF Handled
<1>5. \A w \in Workers : Busy(w) => wconn[w] \in Conns /\ wconn[w] # k
  BY <1>4, HandledOnly
<1>6. \A w \in Workers, f \in Fds : ioEvs[w][f] # None => ioEvs[w][f] \in Conns /\ ioEvs[w][f] # k
  BY <1>4, HandledOnly
<1>7. WorkerInv'
  BY <1>1, <1>3, <1>5 DEF ServerInv, WorkerInv, Busy
<1>8. EventInv'
  BY <1>1, <1>3, <1>6, SMT DEF ServerInv, EventInv, Busy
<1>9. Counted' = Counted
  BY <1>1, <1>2 DEF Counted
<1>10. k \notin Counted /\ \A j \in Counted : j \in Conns
  BY DEF Counted
<1>11. SlotInv'
  BY <1>1, <1>3, <1>10 DEF ServerInv, SlotInv, TableExact
<1>12. TableExact'
  BY <1>1, <1>3, <1>9, <1>10 DEF ServerInv, TableExact
<1>13. DispatchToOwner'
  <2> SUFFICES ASSUME NEW w \in Workers, NEW f \in fired'[w] \ {QueueFd}
               PROVE  ioEvs'[w][f] # None /\ sock'[f] = ioEvs'[w][f] /\ stage'[ioEvs'[w][f]] = "live"
    BY DEF DispatchToOwner
  <2>1. f \in fired[w] \ {QueueFd} /\ f \in Fds /\ ioEvs'[w][f] = ioEvs[w][f]
    BY <1>3, LoopType
  <2>2. PICK j \in Conns : j = ioEvs[w][f] /\ j # k /\ stage[j] = "live" /\ connfd[j] = f
    BY <1>6, <2>1, SMT DEF ServerInv, DispatchToOwner, EventInv
  <2>3. stage'[j] = "live" /\ connfd'[j] = f
    BY <1>1, <2>2
  <2>4. sock'[f] = j
    BY <2>3 DEF SocketInv, HoldsFd
  <2> QED
    BY <2>1, <2>2, <2>3, <2>4, Apart
<1> QED
  BY <1>7, <1>8, <1>11, <1>12, <1>13

\* A step that touches nothing of the invariant but program counters outside it.
LEMMA ServerQuiet ==
  ASSUME ServerInv, UNCHANGED <<stage, connfd, sock, backlog, queue, loopVars, tableVars>>,
         index' \in 0..ThreadCnt, bpos' \in 0..ThreadCnt
  PROVE  ServerInv'
<1>1. UNCHANGED <<stage, connfd, sock, backlog, queue>>
      /\ UNCHANGED <<wpc, batch, fired, wconn, ioEvs, epoll, conns, curConns>>
  BY DEF loopVars, tableVars
<1>2. ServerType'
  BY <1>1 DEF ServerInv, ServerType
<1>3. SocketInv' /\ BacklogInv'
  BY <1>1 DEF ServerInv, SocketInv, BacklogInv
<1>4. PendingInv'
  <2>1. \A w \in Workers : batch[w] # <<>> => wpc'[w] \in {"tasks", "start", "increase"}
    BY <1>1 DEF ServerInv, PendingInv
  <2> QED
    BY <1>1, <2>1, StageType, PendingKept
<1>5. WorkerInv' /\ EventInv'
  BY <1>1, SMT DEF ServerInv, WorkerInv, EventInv, Busy
<1>6. SlotInv' /\ TableExact' /\ DispatchToOwner'
  BY <1>1, SMT DEF ServerInv, SlotInv, TableExact, Counted, DispatchToOwner
<1> QED
  BY <1>2, <1>3, <1>4, <1>5, <1>6 DEF ServerInv

\* A client connects.
LEMMA ConnectStep ==
  ASSUME ServerInv, NEW k \in Conns, Connect(k)
  PROVE  ServerInv'
<1>1. /\ stage[k] = "none" /\ stage' = [stage EXCEPT ![k] = "backlog"]
      /\ backlog' = Append(backlog, k)
      /\ UNCHANGED <<connfd, sock, queue, index, bpos>> /\ UNCHANGED <<loopVars, tableVars>>
  BY DEF Connect, acceptVars, workerVars, bcastVars, loopVars
<1>2. /\ stage' \in [Conns -> Stages] /\ stage'[k] = "backlog"
      /\ \A j \in Conns : j # k => stage'[j] = stage[j]
  BY <1>1, StageType DEF Stages
<1>3. SocketInv'
  BY <1>1, <1>2 DEF ServerInv, SocketInv, HoldsFd
<1>4. WorkerInv' /\ EventInv' /\ SlotInv' /\ TableExact' /\ DispatchToOwner'
  BY <1>1, <1>3, NotYetHandled
<1>5. /\ backlog' \in Seq(Conns) /\ Len(backlog') = Len(backlog) + 1
      /\ \A i \in 1..Len(backlog) : backlog'[i] = backlog[i]
      /\ backlog'[Len(backlog) + 1] = k /\ Len(backlog) \in Nat
  BY <1>1, StageType, SMT
<1>6. BacklogInv'
  <2>1. ASSUME NEW i \in 1..Len(backlog)
        PROVE  backlog[i] \in Conns /\ backlog[i] # k /\ stage[backlog[i]] = "backlog"
    BY <1>1, StageType, SMT DEF ServerInv, BacklogInv
  <2>2. ASSUME NEW i \in 1..Len(backlog') PROVE i = Len(backlog) + 1 \/ i \in 1..Len(backlog)
    BY <1>5, <2>2, SMT
  <2> QED
    BY <1>2, <1>5, <2>1, <2>2, SMT DEF ServerInv, BacklogInv
<1>7. PendingInv'
  <2>1. wpc' = wpc /\ batch' = batch
    BY <1>1 DEF loopVars
  <2>2. \A w \in Workers : batch[w] # <<>> => wpc'[w] \in {"tasks", "start", "increase"}
    BY <2>1 DEF ServerInv, PendingInv
  <2>3. \A j \in Conns : stage[j] = "queued" => stage'[j] = "queued"
    BY <1>1, <1>2
  <2> QED
    BY <1>1, <1>2, <2>1, <2>2, <2>3, PendingKept
<1>8. ServerType'
  BY <1>1, <1>2, <1>5 DEF ServerInv, ServerType, loopVars, tableVars
<1> QED
  BY <1>3, <1>4, <1>6, <1>7, <1>8 DEF ServerInv

\* The backlog does not change and what is in it stays there.
LEMMA BacklogKept ==
  ASSUME ServerInv, backlog' = backlog,
         \A j \in Conns : stage[j] = "backlog" => stage'[j] = "backlog"
  PROVE  BacklogInv'
<1>1. \A i \in 1..Len(backlog) : backlog[i] \in Conns
  BY StageType, SMT
<1> QED
  BY <1>1 DEF ServerInv, BacklogInv

\* do_accept closes a connection that is too many.
LEMMA RefuseStep ==
  ASSUME ServerInv, NEW k \in Conns, Refuse(k)
  PROVE  ServerInv'
<1>1. /\ stage[k] = "accepted" /\ stage' = [stage EXCEPT ![k] = "refused"]
      /\ sock' = [sock EXCEPT ![connfd[k]] = None]
      /\ connfd' = [connfd EXCEPT ![k] = None]
      /\ UNCHANGED <<backlog, queue, index, bpos>> /\ UNCHANGED <<loopVars, tableVars>>
  BY DEF Refuse, Accepted, workerVars, bcastVars, loopVars
<1>2. connfd[k] \in Fds /\ sock[connfd[k]] = k
  BY <1>1 DEF ServerInv, SocketInv, HoldsFd
<1>3. /\ stage' \in [Conns -> Stages] /\ connfd' \in [Conns -> Fds \cup {None}]
      /\ sock' \in [Fds -> Conns \cup {None}]
      /\ stage'[k] = "refused" /\ connfd'[k] = None
      /\ \A j \in Conns : j # k => stage'[j] = stage[j] /\ connfd'[j] = connfd[j]
      /\ \A g \in Fds : g # connfd[k] => sock'[g] = sock[g]
  BY <1>1, <1>2, StageType DEF Stages
<1>4. SocketInv'
  <2>1. ASSUME NEW j \in Conns, j # k
        PROVE  IF stage'[j] \in HoldsFd THEN connfd'[j] \in Fds /\ sock'[connfd'[j]] = j
                                        ELSE connfd'[j] = None
    <3>1. IF stage[j] \in HoldsFd THEN connfd[j] \in Fds /\ sock[connfd[j]] = j
                                  ELSE connfd[j] = None
      BY DEF ServerInv, SocketInv
    <3>2. stage[j] \in HoldsFd => connfd[j] # connfd[k]
      BY <1>2, <2>1, <3>1
    <3> QED
      BY <1>3, <2>1, <3>1, <3>2
  <2>2. stage'[k] \notin HoldsFd /\ connfd'[k] = None
    BY <1>3 DEF HoldsFd
  <2> QED
    BY <2>1, <2>2 DEF SocketInv
<1>5. WorkerInv' /\ EventInv' /\ SlotInv' /\ TableExact' /\ DispatchToOwner'
  BY <1>1, <1>3, <1>4, NotYetHandled
<1>6. BacklogInv'
  <2>1. \A j \in Conns : stage[j] = "backlog" => stage'[j] = "backlog"
    BY <1>1, <1>3
  <2> QED
    BY <1>1, <2>1, BacklogKept
<1>7. PendingInv'
  <2>1. wpc' = wpc /\ batch' = batch
    BY <1>1 DEF loopVars
  <2>2. \A w \in Workers : batch[w] # <<>> => wpc'[w] \in {"tasks", "start", "increase"}
    BY <2>1 DEF ServerInv, PendingInv
  <2>3. \A j \in Conns : stage[j] = "queued" => stage'[j] = "queued"
    BY <1>1, <1>3
  <2> QED
    BY <1>1, <1>3, <2>1, <2>2, <2>3, PendingKept
<1>8. ServerType'
  BY <1>1, <1>3 DEF ServerInv, ServerType, loopVars, tableVars
<1> QED
  BY <1>4, <1>5, <1>6, <1>7, <1>8 DEF ServerInv

\* A message is appended to a worker's queue.
LEMMA SentMessage ==
  ASSUME ServerInv, NEW w \in Workers, NEW x \in Messages, batch' = batch,
         queue' = [queue EXCEPT ![w] = Append(@, x)]
  PROVE  /\ queue' \in [Workers -> Seq(Messages)]
         /\ pending' = [pending EXCEPT ![w] = Append(@, x)]
<1>1. queue \in [Workers -> Seq(Messages)] /\ batch \in [Workers -> Seq(Messages)]
  BY QueueType
<1>2. Append(queue[w], x) \in Seq(Messages)
  BY <1>1, SMT
<1>3. batch[w] \o Append(queue[w], x) = Append(batch[w] \o queue[w], x)
  BY <1>1, ConcatAppend, SMT
<1>4. \A v \in Workers : queue'[v] = IF v = w THEN Append(queue[w], x) ELSE queue[v]
  BY <1>1
<1>5. ASSUME NEW v \in Workers
      PROVE  batch'[v] \o queue'[v] = IF v = w THEN Append(pending[w], x) ELSE pending[v]
  <2>1. pending[v] = batch[v] \o queue[v] /\ pending[w] = batch[w] \o queue[w]
    BY DEF pending
  <2>2. CASE v = w
    <3>1. batch'[v] \o queue'[v] = batch[w] \o Append(queue[w], x)
      BY <1>4, <2>2
    <3> QED
      BY <1>3, <2>1, <2>2, <3>1
  <2>3. CASE v # w
    BY <1>4, <2>1, <2>3
  <2> QED
    BY <2>2, <2>3
<1>6. pending' = [v \in Workers |-> IF v = w THEN Append(pending[w], x) ELSE pending[v]]
  BY <1>5 DEF pending
<1>7. pending' = [pending EXCEPT ![w] = Append(@, x)]
  BY <1>6, QueueType
<1> QED
  BY <1>1, <1>2, <1>7

\* do_accept hands a connection over to the next thread.
LEMMA HandOverStep ==
  ASSUME ServerInv, NEW k \in Conns, HandOver(k)
  PROVE  ServerInv'
<1>1. PICK w : w = NextThread + 1
  OBVIOUS
<1>2. /\ stage[k] = "accepted" /\ stage' = [stage EXCEPT ![k] = "queued"]
      /\ queue' = [queue EXCEPT ![w] = Append(@, k)] /\ index' = w
      /\ UNCHANGED <<connfd, sock, backlog, bpos>> /\ UNCHANGED <<loopVars, tableVars>>
  BY <1>1 DEF HandOver, Accepted, workerVars, bcastVars, loopVars
<1>3. w \in Workers /\ w \in 0..ThreadCnt
  BY <1>1, QueueType, TcpAssumption, SMT DEF NextThread, Workers
<1>4. /\ stage' \in [Conns -> Stages] /\ stage'[k] = "queued"
      /\ \A j \in Conns : j # k => stage'[j] = stage[j]
  BY <1>2, StageType DEF Stages
<1>5. SocketInv'
  BY <1>2, <1>4 DEF ServerInv, SocketInv, HoldsFd
<1>6. WorkerInv' /\ EventInv' /\ SlotInv' /\ TableExact' /\ DispatchToOwner'
  BY <1>2, <1>4, <1>5, NotYetHandled
<1>7. BacklogInv'
  <2>1. \A j \in Conns : stage[j] = "backlog" => stage'[j] = "backlog"
    BY <1>2, <1>4
  <2> QED
    BY <1>2, <2>1, BacklogKept
<1>8. batch' = batch /\ wpc' = wpc /\ k \in Messages
  BY <1>2 DEF loopVars, Messages
<1>9. queue' \in [Workers -> Seq(Messages)] /\ pending' = [pending EXCEPT ![w] = Append(@, k)]
  BY <1>2, <1>3, <1>8, SentMessage
<1>10. PendingInv'
  <2>1. QueuedOnce(pending, stage) /\ stage[k] # "queued"
    BY <1>2 DEF ServerInv, PendingInv
  <2>2. QueuedOnce(pending', stage')
    BY <1>2, <1>3, <1>9, <2>1, StageType, QueueType, QueuedAdd
  <2> QED
    BY <1>8, <2>2 DEF ServerInv, PendingInv
<1>11. ServerType'
  BY <1>2, <1>3, <1>4, <1>9 DEF ServerInv, ServerType, loopVars, tableVars, Messages
<1> QED
  BY <1>5, <1>6, <1>7, <1>10, <1>11 DEF ServerInv

\* send_task appends the task to one more queue.
LEMMA SendTaskStep ==
  ASSUME ServerInv, SendTask
  PROVE  ServerInv'
<1>1. /\ bpos > 0 /\ queue' = [queue EXCEPT ![bpos] = Append(@, NewTask)]
      /\ bpos' = IF bpos = ThreadCnt THEN 0 ELSE bpos + 1
      /\ UNCHANGED <<stage, connfd, sock, backlog, index>> /\ UNCHANGED <<loopVars, tableVars>>
  BY DEF SendTask, acceptVars, workerVars, loopVars
<1>2. bpos \in Workers /\ bpos' \in 0..ThreadCnt
  <2>1. bpos \in 0..ThreadCnt /\ ThreadCnt \in Nat \ {0}
    BY QueueType, TcpAssumption
  <2>2. bpos > 0 /\ bpos' = IF bpos = ThreadCnt THEN 0 ELSE bpos + 1
    BY <1>1
  <2> QED
    BY <2>1, <2>2, SMT DEF Workers
<1>3. batch' = batch /\ wpc' = wpc /\ NewTask \in Messages
  BY <1>1 DEF loopVars, Messages
<1>4. queue' \in [Workers -> Seq(Messages)] /\ pending' = [pending EXCEPT ![bpos] = Append(@, NewTask)]
  BY <1>1, <1>2, <1>3, SentMessage
<1>5. PendingInv'
  <2>1. QueuedOnce(pending, stage)
    BY DEF ServerInv, PendingInv
  <2>2. QueuedOnce(pending', stage)
    BY <1>2, <1>4, <2>1, StageType, QueueType, QueuedTask
  <2> QED
    BY <1>1, <1>3, <2>2 DEF ServerInv, PendingInv
<1>6. UNCHANGED <<wpc, batch, fired, wconn, ioEvs, epoll, conns, curConns>>
  BY <1>1 DEF loopVars, tableVars
<1>7. SocketInv' /\ BacklogInv'
  BY <1>1 DEF ServerInv, SocketInv, BacklogInv
<1>8. WorkerInv' /\ EventInv'
  BY <1>1, <1>6, SMT DEF ServerInv, WorkerInv, EventInv, Busy
<1>9. SlotInv' /\ TableExact' /\ DispatchToOwner'
  BY <1>1, <1>6 DEF ServerInv, SlotInv, TableExact, Counted, DispatchToOwner
<1>10. ServerType'
  BY <1>1, <1>2, <1>4, <1>6 DEF ServerInv, ServerType, Messages
<1> QED
  BY <1>5, <1>7, <1>8, <1>9, <1>10 DEF ServerInv

-----------------------------------------------------------------------------
(* The event loops *)

\* A worker that is not inside a callback of a connection goes on, and no
\* connection changes.
LEMMA IdleLoop ==
  ASSUME ServerInv, NEW w \in Workers, ~Busy(w), wpc' \in [Workers -> WorkerPcs],
         wpc'[w] \in {"poll", "dispatch", "tasks", "run"},
         \A v \in Workers : v # w => wpc'[v] = wpc[v],
         UNCHANGED <<stage, connfd, sock, backlog, wconn, ioEvs, epoll, tableVars, index, bpos>>,
         queue' \in [Workers -> Seq(Messages)], batch' \in [Workers -> Seq(Messages)],
         fired' \in [Workers -> SUBSET (Fds \cup {QueueFd})],
         PendingInv', DispatchToOwner'
  PROVE  ServerInv'
<1>1. UNCHANGED <<conns, curConns>>
  BY DEF tableVars
<1>2. ServerType'
  BY <1>1 DEF ServerInv, ServerType, Messages, WorkerPcs
<1>3. SocketInv' /\ BacklogInv'
  BY DEF ServerInv, SocketInv, BacklogInv
<1>4. \A v \in Workers : Busy(v)' => Busy(v) /\ v # w /\ wpc'[v] = wpc[v]
  BY DEF Busy, BusyPcs
<1>5. \A v \in Workers : Busy(v) => v # w /\ wpc'[v] = wpc[v]
  OBVIOUS
<1>6. WorkerInv'
  <2>1. wconn' = wconn /\ stage' = stage
    OBVIOUS
  <2> QED
    BY <1>4, <2>1 DEF ServerInv, WorkerInv
<1>7. EventInv'
  <2>1. UNCHANGED <<wconn, stage, ioEvs, connfd, epoll>>
    OBVIOUS
  <2>2. EventInv
    BY DEF ServerInv
  <2>3. ASSUME NEW v \in Workers, NEW f \in Fds, ioEvs[v][f] # None
        PROVE  /\ connfd[ioEvs[v][f]] = f
               /\ \/ stage[ioEvs[v][f]] = "live"
                  \/ wpc'[v] \in BusyPcs \ {"close"} /\ wconn[v] = ioEvs[v][f]
    <3>1. /\ connfd[ioEvs[v][f]] = f
          /\ \/ stage[ioEvs[v][f]] = "live"
             \/ wpc[v] \in BusyPcs \ {"close"} /\ wconn[v] = ioEvs[v][f]
      BY <2>2, <2>3 DEF EventInv
    <3>2. wpc[v] \in BusyPcs => wpc'[v] = wpc[v]
      BY <1>5 DEF Busy
    <3> QED
      BY <3>1, <3>2
  <2>4. \A v \in Workers, f \in Fds : ioEvs'[v][f] # None =>
          /\ connfd'[ioEvs'[v][f]] = f
          /\ \/ stage'[ioEvs'[v][f]] = "live"
             \/ wpc'[v] \in BusyPcs \ {"close"} /\ wconn'[v] = ioEvs'[v][f]
    BY <2>1, <2>3, SMT
  <2>5. /\ \A u, v \in Workers, f \in Fds : ioEvs'[u][f] # None /\ ioEvs'[v][f] # None => u = v
        /\ \A v \in Workers : \A f \in epoll'[v] : ioEvs'[v][f] # None
    BY <2>1, <2>2, SMT DEF EventInv
  <2> QED
    BY <2>4, <2>5 DEF EventInv
<1>8. SlotInv' /\ TableExact'
  BY <1>1 DEF ServerInv, SlotInv, TableExact, Counted
<1> QED
  BY <1>2, <1>3, <1>6, <1>7, <1>8 DEF ServerInv

\* Events are handled, none is added.
LEMMA FewerEvents ==
  ASSUME ServerInv, UNCHANGED <<stage, sock, ioEvs>>,
         \A w \in Workers : fired'[w] \subseteq fired[w]
  PROVE  DispatchToOwner'
BY DEF ServerInv, DispatchToOwner

\* epoll_wait returns the events of the loop.
LEMMA EpollWaitStep ==
  ASSUME ServerInv, NEW w \in Workers, EpollWait(w)
  PROVE  ServerInv'
<1>1. /\ wpc[w] = "poll" /\ fired' = [fired EXCEPT ![w] = Ready(w)]
      /\ wpc' = [wpc EXCEPT ![w] = "dispatch"]
      /\ UNCHANGED <<queue, batch>>
      /\ UNCHANGED <<stage, connfd, sock, backlog, wconn, ioEvs, epoll, tableVars, index, bpos>>
  BY DEF EpollWait, acceptVars, taskVars, bcastVars
<1>2. /\ ~Busy(w) /\ wpc' \in [Workers -> WorkerPcs] /\ wpc'[w] = "dispatch"
      /\ \A v \in Workers : v # w => wpc'[v] = wpc[v]
  BY <1>1, PcType DEF Busy, BusyPcs, WorkerPcs
<1>3. Ready(w) \in SUBSET (Fds \cup {QueueFd}) /\ Ready(w) \ {QueueFd} \subseteq epoll[w]
      /\ epoll[w] \subseteq Fds
  BY LoopType DEF Ready
<1>4. /\ fired' \in [Workers -> SUBSET (Fds \cup {QueueFd})] /\ fired'[w] = Ready(w)
      /\ \A v \in Workers : v # w => fired'[v] = fired[v]
  BY <1>1, <1>3, LoopType
<1>5. DispatchToOwner'
  <2> SUFFICES ASSUME NEW v \in Workers, NEW f \in fired'[v] \ {QueueFd}
               PROVE  ioEvs[v][f] # None /\ sock[f] = ioEvs[v][f] /\ stage[ioEvs[v][f]] = "live"
    BY <1>1 DEF DispatchToOwner
  <2>1. CASE v # w
    BY <1>4, <2>1 DEF ServerInv, DispatchToOwner
  <2>2. CASE v = w
    <3>1. f \in epoll[w] /\ f \in Fds
      BY <1>3, <1>4, <2>2
    <3>2. PICK k \in Conns : k = ioEvs[w][f] /\ k # None /\ connfd[k] = f /\ stage[k] = "live"
      BY <1>2, <3>1, HandledOnly, SMT DEF ServerInv, EventInv, Busy
    <3>3. sock[f] = k
      BY <3>2 DEF ServerInv, SocketInv, HoldsFd
    <3> QED
      BY <2>2, <3>2, <3>3
  <2> QED
    BY <2>1, <2>2
<1>6. PendingInv'
  <2>1. \A v \in Workers : batch[v] # <<>> => wpc'[v] \in {"tasks", "start", "increase"}
    BY <1>1, <1>2 DEF ServerInv, PendingInv
  <2> QED
    BY <1>1, <2>1, StageType, PendingKept
<1> QED
  BY <1>1, <1>2, <1>4, <1>5, <1>6, QueueType, IdleLoop

\* The loop of event_process, of deal_task_message and of execute_ready_task
\* comes to its end, a task runs, or data is read.
LEMMA LoopStep ==
  ASSUME ServerInv, NEW w \in Workers,
         \/ DispatchDone(w) \/ TasksDone(w) \/ RunTask(w)
         \/ \E f \in Fds : DoRead(w, f)
  PROVE  ServerInv'
<1>1. /\ wpc[w] \in {"dispatch", "tasks", "run"}
      /\ wpc[w] = "tasks" => batch[w] = <<>>
      /\ wpc' = wpc \/ \E p \in {"poll", "dispatch", "run"} : wpc' = [wpc EXCEPT ![w] = p]
      /\ UNCHANGED <<queue, batch>>
      /\ fired' = fired \/ \E f \in Fds : fired' = [fired EXCEPT ![w] = @ \ {f}]
      /\ UNCHANGED <<stage, connfd, sock, backlog, wconn, ioEvs, epoll, tableVars, index, bpos>>
  <2>1. CASE DispatchDone(w)
    BY <2>1 DEF DispatchDone, acceptVars, taskVars, bcastVars
  <2>2. CASE TasksDone(w)
    BY <2>2 DEF TasksDone, acceptVars, taskVars, bcastVars
  <2>3. CASE RunTask(w)
    BY <2>3 DEF RunTask, acceptVars, bcastVars
  <2>4. CASE \E f \in Fds : DoRead(w, f)
    BY <2>4 DEF DoRead, Fires, acceptVars, taskVars, bcastVars
  <2> QED
    BY <2>1, <2>2, <2>3, <2>4
<1>2. /\ ~Busy(w) /\ wpc' \in [Workers -> WorkerPcs] /\ wpc'[w] \in {"poll", "dispatch", "tasks", "run"}
      /\ \A v \in Workers : v # w => wpc'[v] = wpc[v]
  BY <1>1, PcType DEF Busy, BusyPcs, WorkerPcs
<1>3. /\ fired' \in [Workers -> SUBSET (Fds \cup {QueueFd})]
      /\ \A v \in Workers : fired'[v] \subseteq fired[v]
  <2>1. fired \in [Workers -> SUBSET (Fds \cup {QueueFd})]
    BY LoopType
  <2>2. CASE fired' = fired
    BY <2>1, <2>2
  <2>3. ASSUME NEW f \in Fds, fired' = [fired EXCEPT ![w] = @ \ {f}]
        PROVE  /\ fired' \in [Workers -> SUBSET (Fds \cup {QueueFd})]
               /\ \A v \in Workers : fired'[v] \subseteq fired[v]
    BY <2>1, <2>3
  <2> QED
    BY <1>1, <2>2, <2>3
<1>4. DispatchToOwner'
  BY <1>1, <1>3, FewerEvents
<1>5. PendingInv'
  <2>1. batch[w] = <<>>
    BY <1>1 DEF ServerInv, PendingInv
  <2>2. \A v \in Workers : batch[v] # <<>> => wpc'[v] \in {"tasks", "start", "increase"}
    BY <1>1, <1>2, <2>1 DEF ServerInv, PendingInv
  <2> QED
    BY <1>1, <2>2, StageType, PendingKept
<1> QED
  BY <1>1, <1>2, <1>3, <1>4, <1>5, QueueType, IdleLoop

\* deal_task_message swaps the queue out.
LEMMA RecvTasksStep ==
  ASSUME ServerInv, NEW w \in Workers, RecvTasks(w)
  PROVE  ServerInv'
<1>1. /\ wpc[w] = "dispatch" /\ wpc' = [wpc EXCEPT ![w] = "tasks"]
      /\ batch' = [batch EXCEPT ![w] = queue[w]]
      /\ queue' = [queue EXCEPT ![w] = <<>>]
      /\ fired' = [fired EXCEPT ![w] = @ \ {QueueFd}]
      /\ UNCHANGED <<stage, connfd, sock, backlog, wconn, ioEvs, epoll, tableVars, index, bpos>>
  BY DEF RecvTasks, acceptVars, taskVars, bcastVars
<1>2. /\ ~Busy(w) /\ wpc' \in [Workers -> WorkerPcs] /\ wpc'[w] = "tasks"
      /\ \A v \in Workers : v # w => wpc'[v] = wpc[v]
  BY <1>1, PcType DEF Busy, BusyPcs, WorkerPcs
<1>3. /\ fired' \in [Workers -> SUBSET (Fds \cup {QueueFd})]
      /\ \A v \in Workers : fired'[v] \subseteq fired[v]
  BY <1>1, LoopType
<1>4. /\ queue' \in [Workers -> Seq(Messages)] /\ batch' \in [Workers -> Seq(Messages)]
      /\ queue'[w] = <<>> /\ batch'[w] = queue[w]
      /\ \A v \in Workers : v # w => queue'[v] = queue[v] /\ batch'[v] = batch[v]
  BY <1>1, QueueType, SMT
<1>5. DispatchToOwner'
  BY <1>1, <1>3, FewerEvents
<1>6. PendingInv'
  <2>1. batch[w] = <<>>
    BY <1>1 DEF ServerInv, PendingInv
  <2>2. \A v \in Workers : batch'[v] # <<>> => wpc'[v] \in {"tasks", "start", "increase"}
    BY <1>2, <1>4 DEF ServerInv, PendingInv
  <2>3. ASSUME NEW v \in Workers PROVE batch'[v] \o queue'[v] = batch[v] \o queue[v]
    <3>1. CASE v = w
      <4>1. queue[w] \in Seq(Messages)
        BY QueueType
      <4>2. queue[w] \o <<>> = queue[w] /\ <<>> \o queue[w] = queue[w]
        BY <4>1, SMT
      <4> QED
        BY <1>4, <2>1, <3>1, <4>2
    <3>2. CASE v # w
      BY <1>4, <3>2
    <3> QED
      BY <3>1, <3>2
  <2>4. pending' = pending
    BY <2>3 DEF pending
  <2>5. QueuedOnce(pending, stage)
    BY DEF ServerInv, PendingInv
  <2>6. QueuedOnce(pending', stage')
    BY <1>1, <2>4, <2>5
  <2> QED
    BY <2>2, <2>6 DEF PendingInv
<1> QED
  BY <1>1, <1>2, <1>3, <1>4, <1>5, <1>6, IdleLoop

\* deal_task_message comes to its next task.
LEMMA TakenMessage ==
  ASSUME ServerInv, NEW w \in Workers, batch[w] # <<>>, queue' = queue,
         batch' = [batch EXCEPT ![w] = Tail(@)]
  PROVE  /\ batch' \in [Workers -> Seq(Messages)]
         /\ pending' = [pending EXCEPT ![w] = Tail(@)]
         /\ pending[w] # <<>> /\ 1 \in 1..Len(pending[w])
         /\ pending[w][1] = Head(batch[w]) /\ Head(batch[w]) \in Messages
         /\ \A v \in Workers : v # w => batch'[v] = batch[v]
<1>1. queue \in [Workers -> Seq(Messages)] /\ batch \in [Workers -> Seq(Messages)]
      /\ batch[w] \in Seq(Messages) /\ queue[w] \in Seq(Messages)
  BY QueueType
<1>2. Tail(batch[w]) \in Seq(Messages) /\ Head(batch[w]) \in Messages
  BY <1>1, SMT
<1>3. /\ Tail(batch[w]) \o queue[w] = Tail(batch[w] \o queue[w])
      /\ Head(batch[w]) = (batch[w] \o queue[w])[1]
      /\ batch[w] \o queue[w] # <<>> /\ 1 \in 1..Len(batch[w] \o queue[w])
  BY <1>1, ConcatTail
<1>4. pending[w] = batch[w] \o queue[w]
  BY DEF pending
<1>5. \A v \in Workers : batch'[v] = IF v = w THEN Tail(batch[w]) ELSE batch[v]
  BY <1>1
<1>6. ASSUME NEW v \in Workers
      PROVE  batch'[v] \o queue'[v] = IF v = w THEN Tail(pending[w]) ELSE pending[v]
  <2>1. CASE v = w
    BY <1>3, <1>4, <1>5, <2>1
  <2>2. CASE v # w
    <3>1. pending[v] = batch[v] \o queue[v]
      BY DEF pending
    <3> QED
      BY <1>5, <2>2, <3>1
  <2> QED
    BY <2>1, <2>2
<1>7. pending' = [v \in Workers |-> IF v = w THEN Tail(pending[w]) ELSE pending[v]]
  BY <1>6 DEF pending
<1>8. pending' = [pending EXCEPT ![w] = Tail(@)]
  BY <1>7, QueueType
<1> QED
  BY <1>1, <1>2, <1>3, <1>4, <1>5, <1>8

\* NEW_TASK: the task joins the loop's list.
LEMMA AddTaskStep ==
  ASSUME ServerInv, NEW w \in Workers, AddTask(w)
  PROVE  ServerInv'
<1>1. /\ wpc[w] = "tasks" /\ batch[w] # <<>> /\ Head(batch[w]) = NewTask
      /\ batch' = [batch EXCEPT ![w] = Tail(@)]
      /\ UNCHANGED <<queue, wpc, fired>>
      /\ UNCHANGED <<stage, connfd, sock, backlog, wconn, ioEvs, epoll, tableVars, index, bpos>>
  BY DEF AddTask, acceptVars, bcastVars
<1>2. /\ ~Busy(w) /\ wpc' \in [Workers -> WorkerPcs] /\ wpc'[w] = "tasks"
      /\ \A v \in Workers : v # w => wpc'[v] = wpc[v]
  BY <1>1, PcType DEF Busy, BusyPcs, WorkerPcs
<1>3. /\ batch' \in [Workers -> Seq(Messages)]
      /\ pending' = [pending EXCEPT ![w] = Tail(@)] /\ pending[w] # <<>>
      /\ pending[w][1] = Head(batch[w])
      /\ \A v \in Workers : v # w => batch'[v] = batch[v]
  BY <1>1, TakenMessage
<1>4. PendingInv'
  <2>1. QueuedOnce(pending, stage)
    BY DEF ServerInv, PendingInv
  <2>2. QueuedOnce(pending', stage)
    <3>1. stage = [stage EXCEPT ![pending[w][1]] = "queued"]
      <4>1. pending[w][1] \notin Conns /\ stage \in [Conns -> Stages]
        BY <1>1, <1>3, StageType, Apart
      <4> QED
        BY <4>1, ExceptOutside
    <3>2. "queued" \in Stages
      BY DEF Stages
    <3>3. PICK new : new = [stage EXCEPT ![pending[w][1]] = "queued"]
      OBVIOUS
    <3>4. QueuedOnce(pending', new)
      BY <1>3, <2>1, <3>2, <3>3, StageType, QueueType, QueuedTake
    <3> QED
      BY <3>1, <3>3, <3>4
  <2>3. \A v \in Workers : batch'[v] # <<>> => wpc'[v] \in {"tasks", "start", "increase"}
    BY <1>2, <1>3 DEF ServerInv, PendingInv
  <2> QED
    BY <1>1, <2>2, <2>3 DEF PendingInv
<1>5. DispatchToOwner'
  BY <1>1, FewerEvents
<1> QED
  BY <1>1, <1>2, <1>3, <1>4, <1>5, QueueType, LoopType, IdleLoop

-----------------------------------------------------------------------------
(* The constructor and clean_conn *)

\* Worker w moves on with connection k: the other workers are where they were.
LEMMA WorkerMoves ==
  ASSUME ServerInv, NEW w \in Workers, NEW k \in Conns,
         \A j \in Conns : j # k => stage'[j] = stage[j],
         \A v \in Workers : v # w => wpc'[v] = wpc[v] /\ wconn'[v] = wconn[v],
         \A v \in Workers : v # w /\ Busy(v) => wconn[v] # k,
         wpc'[w] \in BusyPcs => wconn'[w] = k /\ AtStage(wpc'[w], stage'[k])
  PROVE  WorkerInv'
<1>1. ASSUME NEW v \in Workers, v # w, wpc'[v] \in BusyPcs
      PROVE  /\ wconn'[v] \in Conns /\ wconn'[v] # k /\ Busy(v) /\ wconn'[v] = wconn[v]
             /\ AtStage(wpc'[v], stage'[wconn'[v]])
  <2>1. Busy(v) /\ wpc'[v] = wpc[v] /\ wconn'[v] = wconn[v] /\ wconn[v] # k
    BY <1>1 DEF Busy
  <2>2. wconn[v] \in Conns /\ AtStage(wpc[v], stage[wconn[v]])
    BY <2>1 DEF ServerInv, WorkerInv
  <2>3. stage'[wconn[v]] = stage[wconn[v]]
    BY <2>1, <2>2
  <2> QED
    BY <2>1, <2>2, <2>3
<1>2. ASSUME NEW v \in Workers, wpc'[v] \in BusyPcs
      PROVE  wconn'[v] \in Conns /\ AtStage(wpc'[v], stage'[wconn'[v]])
  BY <1>1, <1>2
<1>3. ASSUME NEW u \in Workers, NEW v \in Workers, wpc'[u] \in BusyPcs, wpc'[v] \in BusyPcs,
             wconn'[u] = wconn'[v]
      PROVE  u = v
  <2>1. CASE u # w /\ v # w
    BY <1>1, <1>3, <2>1 DEF ServerInv, WorkerInv
  <2>2. CASE u = w \/ v = w
    BY <1>1, <1>3, <2>2
  <2> QED
    BY <2>1, <2>2
<1> QED
  BY <1>2, <1>3 DEF WorkerInv, Busy

\* Loop w changes, for connection k only: the other loops are as they were.
LEMMA LoopMoves ==
  ASSUME ServerInv, NEW w \in Workers, NEW k \in Conns,
         \A j \in Conns : j # k => stage'[j] = stage[j] /\ connfd'[j] = connfd[j],
         \A v \in Workers : v # w => /\ wpc'[v] = wpc[v] /\ wconn'[v] = wconn[v]
                                     /\ ioEvs'[v] = ioEvs[v] /\ epoll'[v] = epoll[v],
         \A v \in Workers, f \in Fds : v # w => ioEvs[v][f] # k,
         \A f \in Fds : ioEvs'[w][f] # None =>
           /\ connfd'[ioEvs'[w][f]] = f
           /\ \/ stage'[ioEvs'[w][f]] = "live"
              \/ wpc'[w] \in BusyPcs \ {"close"} /\ wconn'[w] = ioEvs'[w][f],
         \A f \in Fds : ioEvs'[w][f] # None => \A v \in Workers : v # w => ioEvs[v][f] = None,
         epoll'[w] \subseteq Fds, \A f \in epoll'[w] : ioEvs'[w][f] # None
  PROVE  EventInv'
<1>1. ASSUME NEW v \in Workers, NEW f \in Fds, v # w, ioEvs'[v][f] # None
      PROVE  /\ connfd'[ioEvs'[v][f]] = f
             /\ \/ stage'[ioEvs'[v][f]] = "live"
                \/ wpc'[v] \in BusyPcs \ {"close"} /\ wconn'[v] = ioEvs'[v][f]
  <2>1. PICK j \in Conns : j = ioEvs[v][f] /\ j # k
    BY <1>1, HandledOnly, SMTT(20)
  <2>2. /\ connfd[j] = f
        /\ stage[j] = "live" \/ (wpc[v] \in BusyPcs \ {"close"} /\ wconn[v] = j)
    BY <1>1, <2>1, SMT DEF ServerInv, EventInv
  <2> QED
    BY <1>1, <2>1, <2>2, SMT
<1>2. ASSUME NEW u \in Workers, NEW v \in Workers, NEW f \in Fds,
             ioEvs'[u][f] # None, ioEvs'[v][f] # None
      PROVE  u = v
  <2>1. CASE u # w /\ v # w
    BY <1>2, <2>1, SMTT(20) DEF ServerInv, EventInv
  <2>2. CASE u = w \/ v = w
    BY <1>2, <2>2, SMT
  <2> QED
    BY <2>1, <2>2
<1>3. ASSUME NEW v \in Workers, NEW f \in epoll'[v] PROVE ioEvs'[v][f] # None
  BY <1>3, SMT DEF ServerInv, EventInv
<1> QED
  BY <1>1, <1>2, <1>3, SMTT(20) DEF EventInv

\* The events still to be dispatched are for connections other than k.
LEMMA EventsElsewhere ==
  ASSUME ServerInv, NEW k \in Conns, SocketInv',
         \A j \in Conns : j # k => stage'[j] = stage[j] /\ connfd'[j] = connfd[j],
         \A v \in Workers : \A f \in fired'[v] \ {QueueFd} :
           f \in fired[v] /\ ioEvs[v][f] # k /\ ioEvs'[v][f] = ioEvs[v][f]
  PROVE  DispatchToOwner'
<1> SUFFICES ASSUME NEW v \in Workers, NEW f \in fired'[v] \ {QueueFd}
             PROVE  ioEvs'[v][f] # None /\ sock'[f] = ioEvs'[v][f] /\ stage'[ioEvs'[v][f]] = "live"
  BY DEF DispatchToOwner
<1>1. f \in Fds /\ f \in fired[v] \ {QueueFd}
  BY LoopType
<1>2. PICK j \in Conns : j = ioEvs[v][f] /\ stage[j] = "live" /\ j # None /\ connfd[j] = f
  BY <1>1, HandledOnly, SMT DEF ServerInv, DispatchToOwner, EventInv
<1>3. j # k /\ ioEvs'[v][f] = j
  BY <1>2
<1>4. stage'[j] = "live" /\ connfd'[j] = f
  BY <1>2, <1>3
<1>5. sock'[f] = j
  BY <1>4 DEF SocketInv, HoldsFd
<1> QED
  BY <1>2, <1>3, <1>4, <1>5

\* The constructor registers the connection with the worker's loop; its
\* descriptor, even one that was used before, is in no loop.
LEMMA ConstructStep ==
  ASSUME ServerInv, NEW w \in Workers, Construct(w)
  PROVE  ServerInv'
<1>1. PICK k, f :
        /\ k = Head(batch[w]) /\ f = connfd[k] /\ k # NewTask
        /\ ioEvs' = [ioEvs EXCEPT ![w][f] = k]
        /\ epoll' = [epoll EXCEPT ![w] = IF ioEvs[w][f] = None THEN @ \cup {f} ELSE @]
        /\ stage' = [stage EXCEPT ![k] = "registered"]
        /\ wconn' = [wconn EXCEPT ![w] = k]
  BY DEF Construct
<1>2. /\ wpc[w] = "tasks" /\ batch[w] # <<>>
      /\ batch' = [batch EXCEPT ![w] = Tail(@)] /\ wpc' = [wpc EXCEPT ![w] = "start"]
      /\ UNCHANGED <<connfd, sock, backlog, queue, fired, conns, curConns, index, bpos>>
  BY DEF Construct, acceptVars, tableVars, taskVars, bcastVars
<1>3. /\ batch' \in [Workers -> Seq(Messages)]
      /\ pending' = [pending EXCEPT ![w] = Tail(@)] /\ pending[w] # <<>>
      /\ 1 \in 1..Len(pending[w]) /\ pending[w][1] = k /\ k \in Conns
      /\ \A v \in Workers : v # w => batch'[v] = batch[v]
  BY <1>1, <1>2, TakenMessage DEF Messages
<1>4. stage[k] = "queued"
  BY <1>3 DEF ServerInv, PendingInv, QueuedOnce
<1>5. f \in Fds /\ sock[f] = k /\ stage[k] \in HoldsFd /\ stage[k] \notin Handled
  BY <1>1, <1>3, <1>4 DEF ServerInv, SocketInv, HoldsFd, Handled
<1>6. ASSUME NEW v \in Workers PROVE ioEvs[v][f] = None
  <2> SUFFICES ASSUME ioEvs[v][f] # None PROVE FALSE
    OBVIOUS
  <2>1. PICK j \in Conns : j = ioEvs[v][f] /\ stage[j] \in Handled /\ connfd[j] = f
    BY <1>5, HandledOnly, SMT DEF ServerInv, EventInv
  <2> QED
    BY <1>1, <1>3, <1>5, <2>1, OneConnPerFd
<1>7. /\ stage' \in [Conns -> Stages] /\ stage'[k] = "registered"
      /\ \A j \in Conns : j # k => stage'[j] = stage[j]
  BY <1>1, <1>3, StageType DEF Stages
<1>8. /\ wpc' \in [Workers -> WorkerPcs] /\ wpc'[w] = "start"
      /\ wconn' \in [Workers -> Conns \cup {None}] /\ wconn'[w] = k
      /\ \A v \in Workers : v # w => wpc'[v] = wpc[v] /\ wconn'[v] = wconn[v]
  BY <1>1, <1>2, <1>3, PcType, LoopType DEF WorkerPcs
<1>9. ioEvs \in [Workers -> [Fds -> Conns \cup {None}]] /\ epoll \in [Workers -> SUBSET Fds]
  BY LoopType
<1>10. /\ ioEvs' \in [Workers -> [Fds -> Conns \cup {None}]] /\ ioEvs'[w][f] = k
       /\ \A v \in Workers, g \in Fds : v # w \/ g # f => ioEvs'[v][g] = ioEvs[v][g]
  BY <1>1, <1>3, <1>5, <1>9
<1>11. /\ epoll' \in [Workers -> SUBSET Fds] /\ epoll'[w] = epoll[w] \cup {f}
       /\ \A v \in Workers : v # w => epoll'[v] = epoll[v]
  BY <1>1, <1>5, <1>6, <1>9
<1>12. ServerType'
  BY <1>2, <1>3, <1>7, <1>8, <1>10, <1>11 DEF ServerInv, ServerType, Messages, WorkerPcs
<1>13. SocketInv'
  BY <1>2, <1>4, <1>7 DEF ServerInv, SocketInv, HoldsFd
<1>14. BacklogInv'
  <2>1. \A j \in Conns : stage[j] = "backlog" => stage'[j] = "backlog"
    BY <1>4, <1>7
  <2> QED
    BY <1>2, <2>1, BacklogKept
<1>15. PendingInv'
  <2>1. QueuedOnce(pending, stage)
    BY DEF ServerInv, PendingInv
  <2>2. /\ pending \in [Workers -> Seq(Messages)] /\ stage \in [Conns -> Stages]
        /\ stage' = [stage EXCEPT ![pending[w][1]] = "registered"] /\ "registered" \in Stages
        /\ pending' = [pending EXCEPT ![w] = Tail(@)] /\ pending[w] # <<>>
    BY <1>1, <1>3, StageType, QueueType DEF Stages
  <2>3. QueuedOnce(pending', stage')
    BY <2>1, <2>2, QueuedTake
  <2>4. \A v \in Workers : batch'[v] # <<>> => wpc'[v] \in {"tasks", "start", "increase"}
    BY <1>3, <1>8 DEF ServerInv, PendingInv
  <2> QED
    BY <2>3, <2>4 DEF PendingInv
<1>16. WorkerInv'
  <2>1. \A v \in Workers : v # w /\ Busy(v) => wconn[v] # k
    BY <1>5, HandledOnly
  <2>2. AtStage("start", "registered")
    BY DEF AtStage
  <2> QED
    BY <1>3, <1>7, <1>8, <2>1, <2>2, WorkerMoves, ZenonT(60)
<1>17. \A v \in Workers, g \in Fds : ioEvs[v][g] # k
  BY <1>3, <1>5, HandledOnly, Apart
<1>18. EventInv'
  <2>1. \A v \in Workers : v # w => /\ wpc'[v] = wpc[v] /\ wconn'[v] = wconn[v]
                                   /\ ioEvs'[v] = ioEvs[v] /\ epoll'[v] = epoll[v]
    BY <1>1, <1>8, <1>9, <1>11
  <2>2. ASSUME NEW g \in Fds, ioEvs'[w][g] # None
        PROVE  /\ connfd'[ioEvs'[w][g]] = g
               /\ \/ stage'[ioEvs'[w][g]] = "live"
                  \/ wpc'[w] \in BusyPcs \ {"close"} /\ wconn'[w] = ioEvs'[w][g]
    <3>1. CASE g = f
      BY <1>1, <1>2, <1>8, <1>10, <3>1 DEF BusyPcs
    <3>2. CASE g # f
      <4>1. PICK j \in Conns : j = ioEvs[w][g] /\ j = ioEvs'[w][g] /\ j # k /\ j # None
        BY <1>10, <1>17, <2>2, <3>2, HandledOnly
      <4>2. wpc[w] \notin BusyPcs
        BY <1>2 DEF BusyPcs
      <4>3. /\ connfd[ioEvs[w][g]] = g
            /\ stage[ioEvs[w][g]] = "live" \/ wpc[w] \in BusyPcs \ {"close"}
        BY <4>1 DEF ServerInv, EventInv
      <4> QED
        BY <1>2, <1>7, <4>1, <4>2, <4>3
    <3> QED
      BY <3>1, <3>2
  <2>3. ASSUME NEW g \in Fds, ioEvs'[w][g] # None, NEW v \in Workers, v # w
        PROVE  ioEvs[v][g] = None
    <3>1. CASE g = f
      BY <1>6, <3>1
    <3>2. CASE g # f
      <4>1. ioEvs[w][g] # None
        BY <1>10, <2>3, <3>2
      <4> QED
        BY <2>3, <4>1, OneHandlerPerFd
    <3> QED
      BY <3>1, <3>2
  <2>4. epoll'[w] \subseteq Fds /\ \A g \in epoll'[w] : ioEvs'[w][g] # None
    <3>1. epoll'[w] \subseteq Fds
      BY <1>11
    <3>2. ASSUME NEW g \in epoll'[w] PROVE ioEvs'[w][g] # None
      <4>1. CASE g = f
        BY <1>3, <1>10, <4>1, Apart
      <4>2. CASE g # f
        BY <1>9, <1>10, <1>11, <4>2, SMT DEF ServerInv, EventInv
      <4> QED
        BY <4>1, <4>2
    <3> QED
      BY <3>1, <3>2
  <2>5. \A j \in Conns : j # k => stage'[j] = stage[j] /\ connfd'[j] = connfd[j]
    BY <1>2, <1>7
  <2>6. k \in Conns /\ \A v \in Workers, g \in Fds : v # w => ioEvs[v][g] # k
    BY <1>3, <1>17
  <2> QED
    BY <2>1, <2>2, <2>3, <2>4, <2>5, <2>6, LoopMoves
<1>19. Counted' = Counted /\ k \notin Counted
  BY <1>4, <1>7 DEF Counted
<1>20. SlotInv' /\ TableExact'
  BY <1>2, <1>19 DEF ServerInv, SlotInv, TableExact
<1>21. DispatchToOwner'
  <2>1. \A j \in Conns : j # k => stage'[j] = stage[j] /\ connfd'[j] = connfd[j]
    BY <1>2, <1>7
  <2>2. ASSUME NEW v \in Workers, NEW g \in fired'[v] \ {QueueFd}
        PROVE  g \in fired[v] /\ ioEvs[v][g] # k /\ ioEvs'[v][g] = ioEvs[v][g]
    <3>1. g \in fired[v] /\ g \in Fds /\ ioEvs[v][g] # None
      BY <1>2, LoopType DEF ServerInv, DispatchToOwner
    <3>2. g # f
      BY <1>6, <3>1
    <3> QED
      BY <1>10, <1>17, <3>1, <3>2
  <2> QED
    BY <1>3, <1>13, <2>1, <2>2, EventsElsewhere
<1> QED
  BY <1>12, <1>13, <1>14, <1>15, <1>16, <1>18, <1>20, <1>21 DEF ServerInv

\* The connection that a worker is busy with is not live, is nobody else's and
\* has no event to be dispatched.
LEMMA BusyWith ==
  ASSUME ServerInv, NEW w \in Workers, Busy(w), NEW k, k = wconn[w]
  PROVE  /\ k \in Conns /\ stage[k] \in Handled \ {"live"} /\ AtStage(wpc[w], stage[k])
         /\ connfd[k] \in Fds /\ sock[connfd[k]] = k
         /\ \A v \in Workers : v # w /\ Busy(v) => wconn[v] # k
         /\ \A v \in Workers, f \in Fds : v # w => ioEvs[v][f] # k
         /\ \A v \in Workers : \A f \in fired[v] \ {QueueFd} : ioEvs[v][f] # k
         /\ batch[w] # <<>> => wpc[w] \in {"start", "increase"}
<1>1. k \in Conns /\ stage[k] \in Handled \ {"live"} /\ AtStage(wpc[w], stage[k])
  BY HandledOnly DEF ServerInv, WorkerInv
<1>2. connfd[k] \in Fds /\ sock[connfd[k]] = k
  BY <1>1 DEF ServerInv, SocketInv, HoldsFd, Handled
<1>3. \A v \in Workers : v # w /\ Busy(v) => wconn[v] # k
  BY DEF ServerInv, WorkerInv
<1>4. ASSUME NEW v \in Workers, NEW f \in Fds, v # w PROVE ioEvs[v][f] # k
  <2> SUFFICES ASSUME ioEvs[v][f] = k PROVE FALSE
    OBVIOUS
  <2>1. ioEvs[v][f] # None
    BY <1>1, Apart
  <2>2. stage[k] = "live" \/ (Busy(v) /\ wconn[v] = k)
    BY <2>1, SMTT(20) DEF ServerInv, EventInv, Busy
  <2> QED
    BY <1>1, <1>3, <1>4, <2>2
<1>5. \A v \in Workers : \A f \in fired[v] \ {QueueFd} : ioEvs[v][f] # k
  BY <1>1, SMT DEF ServerInv, DispatchToOwner
<1>6. batch[w] # <<>> => wpc[w] \in {"start", "increase"}
  BY DEF ServerInv, PendingInv, Busy, BusyPcs
<1> QED
  BY <1>1, <1>2, <1>3, <1>4, <1>5, <1>6

\* A worker takes its connection from one stage to the next; the loop's
\* descriptors stay.
LEMMA BusyStep ==
  ASSUME ServerInv, NEW w \in Workers, Busy(w), NEW k, k = wconn[w],
         NEW s \in Handled, NEW p \in WorkerPcs,
         stage' = [stage EXCEPT ![k] = s], wpc' = [wpc EXCEPT ![w] = p],
         UNCHANGED <<connfd, sock, backlog, queue, batch, fired, ioEvs, epoll, index, bpos>>,
         wconn' \in [Workers -> Conns \cup {None}],
         \A v \in Workers : v # w => wconn'[v] = wconn[v],
         p \in BusyPcs => wconn'[w] = k /\ AtStage(p, s),
         s = "live" \/ p \in BusyPcs \ {"close"},
         wpc[w] \in {"start", "increase"} => p \in {"tasks", "increase"},
         conns' \in [Slots -> Conns \cup {None, Junk}], SlotInv', TableExact'
  PROVE  ServerInv'
<1>1. /\ k \in Conns /\ stage[k] \in Handled \ {"live"}
      /\ \A v \in Workers : v # w /\ Busy(v) => wconn[v] # k
      /\ \A v \in Workers, f \in Fds : v # w => ioEvs[v][f] # k
      /\ \A v \in Workers : \A f \in fired[v] \ {QueueFd} : ioEvs[v][f] # k
      /\ batch[w] # <<>> => wpc[w] \in {"start", "increase"}
  BY BusyWith, SMT
<1>2. /\ stage' \in [Conns -> Stages] /\ stage'[k] = s
      /\ \A j \in Conns : j # k => stage'[j] = stage[j]
  BY <1>1, StageType DEF Handled, Stages
<1>3. /\ wpc' \in [Workers -> WorkerPcs] /\ wpc'[w] = p
      /\ \A v \in Workers : v # w => wpc'[v] = wpc[v]
  BY PcType
<1>4. ServerType'
  BY <1>2, <1>3 DEF ServerInv, ServerType, WorkerPcs
<1>5. SocketInv'
  BY <1>1, <1>2, ZenonT(60) DEF ServerInv, SocketInv, HoldsFd, Handled
<1>6. BacklogInv'
  <2>1. \A j \in Conns : stage[j] = "backlog" => stage'[j] = "backlog"
    BY <1>1, <1>2 DEF Handled
  <2> QED
    BY <2>1, BacklogKept
<1>7. PendingInv'
  <2>1. \A j \in Conns : stage[j] = "queued" => stage'[j] = "queued"
    BY <1>1, <1>2 DEF Handled
  <2>2. \A v \in Workers : batch[v] # <<>> => wpc'[v] \in {"tasks", "start", "increase"}
    BY <1>1, <1>3 DEF ServerInv, PendingInv
  <2> QED
    BY <1>2, <2>1, <2>2, PendingKept
<1>8. WorkerInv'
  <2>1. \A v \in Workers : v # w => wpc'[v] = wpc[v] /\ wconn'[v] = wconn[v]
    BY <1>3
  <2>2. wpc'[w] \in BusyPcs => wconn'[w] = k /\ AtStage(wpc'[w], stage'[k])
    BY <1>2, <1>3
  <2>3. /\ \A j \in Conns : j # k => stage'[j] = stage[j]
        /\ \A v \in Workers : v # w /\ Busy(v) => wconn[v] # k
    BY <1>1, <1>2
  <2> QED
    BY <1>1, <2>1, <2>2, <2>3, WorkerMoves, SMT
<1>9. EventInv'
  <2>1. \A v \in Workers : v # w => /\ wpc'[v] = wpc[v] /\ wconn'[v] = wconn[v]
                                   /\ ioEvs'[v] = ioEvs[v] /\ epoll'[v] = epoll[v]
    BY <1>3
  <2>2. \A j \in Conns : j # k => stage'[j] = stage[j] /\ connfd'[j] = connfd[j]
    BY <1>2
  <2>3. ASSUME NEW f \in Fds, ioEvs'[w][f] # None
        PROVE  /\ connfd'[ioEvs'[w][f]] = f
               /\ \/ stage'[ioEvs'[w][f]] = "live"
                  \/ wpc'[w] \in BusyPcs \ {"close"} /\ wconn'[w] = ioEvs'[w][f]
    <3>1. PICK j \in Conns : j = ioEvs[w][f] /\ j # None
      BY <2>3, HandledOnly
    <3>2. connfd[j] = f /\ (stage[j] = "live" \/ j = k)
      BY <3>1 DEF ServerInv, EventInv
    <3> QED
      BY <1>2, <1>3, <3>1, <3>2
  <2>4. ASSUME NEW f \in Fds, ioEvs'[w][f] # None, NEW v \in Workers, v # w
        PROVE  ioEvs[v][f] = None
    <3>1. ioEvs[w][f] # None
      BY <2>4
    <3> QED
      BY <2>4, <3>1, OneHandlerPerFd
  <2>5. epoll'[w] \subseteq Fds /\ \A f \in epoll'[w] : ioEvs'[w][f] # None
    BY LoopType DEF ServerInv, EventInv
  <2> QED
    BY <1>1, <2>1, <2>2, <2>3, <2>4, <2>5, LoopMoves, SMT
<1>10. DispatchToOwner'
  <2>1. \A j \in Conns : j # k => stage'[j] = stage[j] /\ connfd'[j] = connfd[j]
    BY <1>2
  <2>2. \A v \in Workers : \A f \in fired'[v] \ {QueueFd} :
          f \in fired[v] /\ ioEvs[v][f] # k /\ ioEvs'[v][f] = ioEvs[v][f]
    BY <1>1
  <2> QED
    BY <1>1, <1>5, <2>1, <2>2, EventsElsewhere
<1> QED
  BY <1>4, <1>5, <1>6, <1>7, <1>8, <1>9, <1>10 DEF ServerInv

\* conn_start_cb or conn_close_cb returns.
LEMMA HookStep ==
  ASSUME ServerInv, NEW w \in Workers, StartCb(w) \/ CloseCb(w)
  PROVE  ServerInv'
<1>1. PICK k : k = wconn[w]
  OBVIOUS
<1>2. PICK s, p :
        /\ \/ wpc[w] = "start" /\ s = "started" /\ p = "increase"
           \/ wpc[w] = "closecb" /\ s = "hooked" /\ p = "decrease"
        /\ stage' = [stage EXCEPT ![k] = s] /\ wpc' = [wpc EXCEPT ![w] = p]
        /\ UNCHANGED <<connfd, sock, backlog, queue, batch, fired, ioEvs, epoll, index, bpos>>
        /\ UNCHANGED <<wconn, conns, curConns>>
  BY <1>1 DEF StartCb, CloseCb, acceptVars, tableVars, taskVars, bcastVars
<1>3. /\ Busy(w) /\ s \in Handled /\ p \in WorkerPcs /\ p \in BusyPcs \ {"close"} /\ AtStage(p, s)
      /\ wpc[w] \in {"start", "increase"} => p \in {"tasks", "increase"}
  BY <1>2 DEF Busy, BusyPcs, Handled, WorkerPcs, AtStage
<1>4. k \in Conns /\ AtStage(wpc[w], stage[k])
  BY <1>1, <1>3, BusyWith
<1>5. stage' \in [Conns -> Stages] /\ stage'[k] = s /\ \A j \in Conns : j # k => stage'[j] = stage[j]
  BY <1>2, <1>4, StageType DEF Stages
<1>6. Counted' = Counted
  BY <1>2, <1>4, <1>5 DEF Counted, AtStage
<1>7. SlotInv' /\ TableExact'
  BY <1>2, <1>6 DEF ServerInv, SlotInv, TableExact
<1>8. /\ conns' \in [Slots -> Conns \cup {None, Junk}]
      /\ wconn' \in [Workers -> Conns \cup {None}] /\ wconn'[w] = k
      /\ \A v \in Workers : v # w => wconn'[v] = wconn[v]
  BY <1>1, <1>2, LoopType, TableType
<1> QED
  BY <1>1, <1>2, <1>3, <1>7, <1>8, BusyStep

\* do_read finds the connection gone and enters clean_conn: the handler that the
\* event names is the live connection of that descriptor.
LEMMA CleanConnStep ==
  ASSUME ServerInv, NEW w \in Workers, NEW f \in Fds, CleanConn(w, f)
  PROVE  ServerInv'
<1>1. PICK k : k = ioEvs[w][f]
  OBVIOUS
<1>2. /\ wpc[w] = "dispatch" /\ f \in fired[w] \ {QueueFd} /\ fired' = [fired EXCEPT ![w] = @ \ {f}]
      /\ stage' = [stage EXCEPT ![k] = "closing"] /\ wconn' = [wconn EXCEPT ![w] = k]
      /\ wpc' = [wpc EXCEPT ![w] = "closecb"]
      /\ UNCHANGED <<connfd, sock, backlog, queue, batch, ioEvs, epoll, index, bpos, conns, curConns>>
  BY <1>1 DEF CleanConn, Fires, acceptVars, tableVars, taskVars, bcastVars
<1>3. k \in Conns /\ k # None /\ stage[k] = "live" /\ connfd[k] = f
  <2>1. k # None /\ stage[k] = "live"
    BY <1>1, <1>2 DEF ServerInv, DispatchToOwner
  <2> QED
    BY <1>1, <2>1, LoopType, SMT DEF ServerInv, EventInv
<1>4. /\ stage' \in [Conns -> Stages] /\ stage'[k] = "closing"
      /\ \A j \in Conns : j # k => stage'[j] = stage[j] /\ connfd'[j] = connfd[j]
  BY <1>2, <1>3, StageType DEF Stages
<1>5. /\ wpc' \in [Workers -> WorkerPcs] /\ wpc'[w] = "closecb"
      /\ \A v \in Workers : v # w => wpc'[v] = wpc[v]
  BY <1>2, PcType DEF WorkerPcs
<1>6. /\ wconn' \in [Workers -> Conns \cup {None}] /\ wconn'[w] = k
      /\ \A v \in Workers : v # w => wconn'[v] = wconn[v]
      /\ fired' \in [Workers -> SUBSET (Fds \cup {QueueFd})] /\ fired'[w] = fired[w] \ {f}
      /\ \A v \in Workers : v # w => fired'[v] = fired[v]
  BY <1>2, <1>3, LoopType
<1>7. /\ \A v \in Workers : v # w /\ Busy(v) => wconn[v] # k
      /\ \A v \in Workers, g \in Fds : ioEvs[v][g] = k => v = w /\ g = f
  <2>1. \A v \in Workers : Busy(v) => wconn[v] # k
    BY <1>3, HandledOnly
  <2>2. ASSUME NEW v \in Workers, NEW g \in Fds, ioEvs[v][g] = k PROVE v = w /\ g = f
    BY <1>1, <1>3, <2>2, SMT DEF ServerInv, EventInv
  <2> QED
    BY <2>1, <2>2
<1>8. batch[w] = <<>>
  BY <1>2 DEF ServerInv, PendingInv
<1>9. ServerType'
  BY <1>2, <1>4, <1>5, <1>6 DEF ServerInv, ServerType, WorkerPcs
<1>10. SocketInv'
  BY <1>2, <1>3, <1>4 DEF ServerInv, SocketInv, HoldsFd
<1>11. BacklogInv'
  <2>1. \A j \in Conns : stage[j] = "backlog" => stage'[j] = "backlog"
    BY <1>3, <1>4
  <2> QED
    BY <1>2, <2>1, BacklogKept
<1>12. PendingInv'
  <2>1. \A j \in Conns : stage[j] = "queued" => stage'[j] = "queued"
    BY <1>3, <1>4
  <2>2. \A v \in Workers : batch[v] # <<>> => wpc'[v] \in {"tasks", "start", "increase"}
    BY <1>5, <1>8 DEF ServerInv, PendingInv
  <2> QED
    BY <1>2, <1>4, <2>1, <2>2, PendingKept
<1>13. WorkerInv'
  <2>1. AtStage("closecb", "closing")
    BY DEF AtStage
  <2>2. \A v \in Workers : v # w => wpc'[v] = wpc[v] /\ wconn'[v] = wconn[v]
    BY <1>5, <1>6
  <2>3. wpc'[w] \in BusyPcs => wconn'[w] = k /\ AtStage(wpc'[w], stage'[k])
    BY <1>4, <1>5, <1>6, <2>1
  <2>4. /\ \A j \in Conns : j # k => stage'[j] = stage[j]
        /\ \A v \in Workers : v # w /\ Busy(v) => wconn[v] # k
    BY <1>4, <1>7
  <2> QED
    BY <1>3, <2>2, <2>3, <2>4, WorkerMoves
<1>14. EventInv'
  <2>1. \A v \in Workers : v # w => /\ wpc'[v] = wpc[v] /\ wconn'[v] = wconn[v]
                                   /\ ioEvs'[v] = ioEvs[v] /\ epoll'[v] = epoll[v]
    BY <1>2, <1>5, <1>6
  <2>2. ASSUME NEW g \in Fds, ioEvs'[w][g] # None
        PROVE  /\ connfd'[ioEvs'[w][g]] = g
               /\ \/ stage'[ioEvs'[w][g]] = "live"
                  \/ wpc'[w] \in BusyPcs \ {"close"} /\ wconn'[w] = ioEvs'[w][g]
    <3>1. PICK j \in Conns : j = ioEvs[w][g] /\ j = ioEvs'[w][g] /\ j # None
      BY <1>2, <2>2, HandledOnly
    <3>2. wpc[w] \notin BusyPcs
      BY <1>2 DEF BusyPcs
    <3>3. connfd[j] = g /\ stage[j] = "live"
      <4>1. ioEvs[w][g] # None
        BY <3>1
      <4>2. /\ connfd[ioEvs[w][g]] = g
            /\ stage[ioEvs[w][g]] = "live" \/ wpc[w] \in BusyPcs \ {"close"}
        BY <4>1 DEF ServerInv, EventInv
      <4> QED
        BY <3>1, <3>2, <4>2
    <3>4. "closecb" \in BusyPcs \ {"close"}
      BY DEF BusyPcs
    <3>5. connfd'[j] = g /\ (stage'[j] = "live" \/ j = k)
      BY <1>2, <1>4, <3>3
    <3> QED
      BY <1>5, <1>6, <3>1, <3>4, <3>5
  <2>3. ASSUME NEW g \in Fds, ioEvs'[w][g] # None, NEW v \in Workers, v # w
        PROVE  ioEvs[v][g] = None
    <3>1. ioEvs[w][g] # None
      BY <1>2, <2>3
    <3> QED
      BY <2>3, <3>1, OneHandlerPerFd
  <2>4. epoll'[w] \subseteq Fds /\ \A g \in epoll'[w] : ioEvs'[w][g] # None
    BY <1>2, LoopType DEF ServerInv, EventInv
  <2>5. \A v \in Workers, g \in Fds : v # w => ioEvs[v][g] # k
    BY <1>7
  <2> QED
    BY <1>3, <1>4, <2>1, <2>2, <2>3, <2>4, <2>5, LoopMoves, ZenonT(60)
<1>15. SlotInv' /\ TableExact'
  <2>1. Counted' = Counted
    BY <1>3, <1>4 DEF Counted
  <2> QED
    BY <1>2, <2>1 DEF ServerInv, SlotInv, TableExact
<1>16. DispatchToOwner'
  <2>1. ASSUME NEW v \in Workers, NEW g \in fired'[v] \ {QueueFd}
        PROVE  g \in fired[v] /\ ioEvs[v][g] # k /\ ioEvs'[v][g] = ioEvs[v][g]
    <3>1. g \in fired[v] /\ g \in Fds /\ (v = w => g # f)
      BY <1>6, LoopType
    <3> QED
      BY <1>2, <1>7, <3>1
  <2> QED
    BY <1>3, <1>4, <1>10, <2>1, EventsElsewhere
<1> QED
  BY <1>9, <1>10, <1>11, <1>12, <1>13, <1>14, <1>15, <1>16 DEF ServerInv

\* clean_conn takes the descriptor out of the loop.
LEMMA DelEventStep ==
  ASSUME ServerInv, NEW w \in Workers, DelEvent(w)
  PROVE  ServerInv'
<1>1. PICK k, f : k = wconn[w] /\ f = connfd[k]
  OBVIOUS
<1>2. /\ wpc[w] = "del" /\ wpc' = [wpc EXCEPT ![w] = "close"]
      /\ ioEvs' = [ioEvs EXCEPT ![w][f] = None] /\ epoll' = [epoll EXCEPT ![w] = @ \ {f}]
      /\ stage' = [stage EXCEPT ![k] = "removed"]
      /\ UNCHANGED <<connfd, sock, backlog, queue, batch, fired, wconn, index, bpos, conns, curConns>>
  BY <1>1 DEF DelEvent, acceptVars, tableVars, taskVars, bcastVars
<1>3. Busy(w)
  BY <1>2 DEF Busy, BusyPcs
<1>4. /\ k \in Conns /\ stage[k] = "uncounted" /\ f \in Fds
      /\ \A v \in Workers : v # w /\ Busy(v) => wconn[v] # k
      /\ \A v \in Workers, g \in Fds : v # w => ioEvs[v][g] # k
      /\ \A v \in Workers : \A g \in fired[v] \ {QueueFd} : ioEvs[v][g] # k
      /\ batch[w] = <<>>
  <2>1. /\ k \in Conns /\ AtStage(wpc[w], stage[k]) /\ connfd[k] \in Fds
        /\ \A v \in Workers : v # w /\ Busy(v) => wconn[v] # k
        /\ \A v \in Workers, g \in Fds : v # w => ioEvs[v][g] # k
        /\ \A v \in Workers : \A g \in fired[v] \ {QueueFd} : ioEvs[v][g] # k
        /\ batch[w] # <<>> => wpc[w] \in {"start", "increase"}
    BY <1>1, <1>3, BusyWith
  <2>2. stage[k] = "uncounted"
    BY <1>2, <2>1 DEF AtStage
  <2>3. batch[w] = <<>>
    BY <1>2, <2>1
  <2> QED
    BY <1>1, <2>1, <2>2, <2>3
<1>5. /\ stage' \in [Conns -> Stages] /\ stage'[k] = "removed"
      /\ \A j \in Conns : j # k => stage'[j] = stage[j] /\ connfd'[j] = connfd[j]
  BY <1>2, <1>4, StageType DEF Stages
<1>6. /\ wpc' \in [Workers -> WorkerPcs] /\ wpc'[w] = "close"
      /\ \A v \in Workers : v # w => wpc'[v] = wpc[v]
  BY <1>2, PcType DEF WorkerPcs
<1>7. /\ ioEvs' \in [Workers -> [Fds -> Conns \cup {None}]]
      /\ ioEvs'[w][f] = None /\ \A g \in Fds : g # f => ioEvs'[w][g] = ioEvs[w][g]
      /\ \A v \in Workers : v # w => ioEvs'[v] = ioEvs[v]
  BY <1>2, <1>4, LoopType
<1>8. /\ epoll' \in [Workers -> SUBSET Fds] /\ epoll'[w] = epoll[w] \ {f}
      /\ \A v \in Workers : v # w => epoll'[v] = epoll[v]
  BY <1>2, LoopType
<1>9. ServerType'
  BY <1>2, <1>5, <1>6, <1>7, <1>8 DEF ServerInv, ServerType, WorkerPcs
<1>10. SocketInv'
  BY <1>2, <1>4, <1>5 DEF ServerInv, SocketInv, HoldsFd
<1>11. BacklogInv'
  <2>1. \A j \in Conns : stage[j] = "backlog" => stage'[j] = "backlog"
    BY <1>4, <1>5
  <2> QED
    BY <1>2, <2>1, BacklogKept
<1>12. PendingInv'
  <2>1. \A j \in Conns : stage[j] = "queued" => stage'[j] = "queued"
    BY <1>4, <1>5
  <2>2. \A v \in Workers : batch[v] # <<>> => wpc'[v] \in {"tasks", "start", "increase"}
    BY <1>4, <1>6 DEF ServerInv, PendingInv
  <2> QED
    BY <1>2, <1>5, <2>1, <2>2, PendingKept
<1>13. WorkerInv'
  <2>1. AtStage("close", "removed")
    BY DEF AtStage
  <2>2. \A v \in Workers : v # w => wpc'[v] = wpc[v] /\ wconn'[v] = wconn[v]
    BY <1>2, <1>6
  <2>3. wpc'[w] \in BusyPcs => wconn'[w] = k /\ AtStage(wpc'[w], stage'[k])
    BY <1>1, <1>2, <1>4, <1>5, <1>6, <2>1
  <2>4. /\ \A j \in Conns : j # k => stage'[j] = stage[j]
        /\ \A v \in Workers : v # w /\ Busy(v) => wconn[v] # k
    BY <1>4, <1>5
  <2> QED
    BY <1>4, <2>2, <2>3, <2>4, WorkerMoves
<1>14. EventInv'
  <2>1. \A v \in Workers : v # w => /\ wpc'[v] = wpc[v] /\ wconn'[v] = wconn[v]
                                   /\ ioEvs'[v] = ioEvs[v] /\ epoll'[v] = epoll[v]
    BY <1>2, <1>6, <1>7, <1>8
  <2>2. ASSUME NEW g \in Fds, ioEvs'[w][g] # None
        PROVE  /\ connfd'[ioEvs'[w][g]] = g
               /\ \/ stage'[ioEvs'[w][g]] = "live"
                  \/ wpc'[w] \in BusyPcs \ {"close"} /\ wconn'[w] = ioEvs'[w][g]
    <3>1. g # f /\ ioEvs'[w][g] = ioEvs[w][g]
      BY <1>7, <2>2
    <3>2. PICK j \in Conns : j = ioEvs[w][g] /\ j # None
      BY <2>2, <3>1, HandledOnly
    <3>3. connfd[j] = g /\ (stage[j] = "live" \/ j = k)
      BY <1>1, <3>2 DEF ServerInv, EventInv
    <3>4. j # k
      BY <1>1, <3>1, <3>3
    <3> QED
      BY <1>5, <3>1, <3>2, <3>3, <3>4
  <2>3. ASSUME NEW g \in Fds, ioEvs'[w][g] # None, NEW v \in Workers, v # w
        PROVE  ioEvs[v][g] = None
    <3>1. ioEvs[w][g] # None
      BY <1>7, <2>3
    <3> QED
      BY <2>3, <3>1, OneHandlerPerFd
  <2>4. epoll'[w] \subseteq Fds /\ \A g \in epoll'[w] : ioEvs'[w][g] # None
    <3>1. epoll'[w] \subseteq Fds
      BY <1>8
    <3>2. ASSUME NEW g \in epoll'[w] PROVE ioEvs'[w][g] # None
      <4>1. g \in Fds /\ g # f /\ g \in epoll[w]
        BY <1>8
      <4> QED
        BY <1>7, <4>1, SMT DEF ServerInv, EventInv
    <3> QED
      BY <3>1, <3>2
  <2> QED
    BY <1>4, <1>5, <2>1, <2>2, <2>3, <2>4, LoopMoves, ZenonT(60)
<1>15. SlotInv' /\ TableExact'
  <2>1. Counted' = Counted
    BY <1>4, <1>5 DEF Counted
  <2> QED
    BY <1>2, <2>1 DEF ServerInv, SlotInv, TableExact
<1>16. DispatchToOwner'
  <2>1. ASSUME NEW v \in Workers, NEW g \in fired'[v] \ {QueueFd}
        PROVE  g \in fired[v] /\ ioEvs[v][g] # k /\ ioEvs'[v][g] = ioEvs[v][g]
    <3>1. PICK j \in Conns : j = ioEvs[v][g] /\ j # k /\ stage[j] = "live" /\ j # None
      BY <1>2, <1>4, LoopType, HandledOnly, SMT DEF ServerInv, DispatchToOwner
    <3>2. g \in Fds /\ g \in fired[v] /\ connfd[j] = g
      BY <1>2, <3>1, LoopType, ZenonT(60) DEF ServerInv, EventInv
    <3>3. g # f
      BY <1>1, <1>4, <3>1, <3>2, OneConnPerFd DEF HoldsFd
    <3> QED
      BY <1>7, <3>1, <3>2, <3>3
  <2> QED
    BY <1>4, <1>5, <1>10, <2>1, EventsElsewhere
<1> QED
  BY <1>9, <1>10, <1>11, <1>12, <1>13, <1>14, <1>15, <1>16 DEF ServerInv

\* close(fd): nothing refers to the connection any more.
LEMMA CloseFdStep ==
  ASSUME ServerInv, NEW w \in Workers, CloseFd(w)
  PROVE  ServerInv'
<1>1. PICK k, f : k = wconn[w] /\ f = connfd[k]
  OBVIOUS
<1>2. /\ wpc[w] = "close" /\ wpc' = [wpc EXCEPT ![w] = "dispatch"]
      /\ sock' = [sock EXCEPT ![f] = None] /\ connfd' = [connfd EXCEPT ![k] = None]
      /\ stage' = [stage EXCEPT ![k] = "closed"] /\ wconn' = [wconn EXCEPT ![w] = None]
      /\ UNCHANGED <<backlog, queue, batch, fired, ioEvs, epoll, index, bpos, conns, curConns>>
  BY <1>1 DEF CloseFd, acceptVars, tableVars, taskVars, bcastVars
<1>3. Busy(w)
  BY <1>2 DEF Busy, BusyPcs
<1>4. /\ k \in Conns /\ stage[k] = "removed" /\ f \in Fds
      /\ \A v \in Workers : v # w /\ Busy(v) => wconn[v] # k
      /\ \A v \in Workers, g \in Fds : v # w => ioEvs[v][g] # k
      /\ \A v \in Workers : \A g \in fired[v] \ {QueueFd} : ioEvs[v][g] # k
      /\ batch[w] = <<>>
  <2>1. /\ k \in Conns /\ AtStage(wpc[w], stage[k]) /\ connfd[k] \in Fds
        /\ \A v \in Workers : v # w /\ Busy(v) => wconn[v] # k
        /\ \A v \in Workers, g \in Fds : v # w => ioEvs[v][g] # k
        /\ \A v \in Workers : \A g \in fired[v] \ {QueueFd} : ioEvs[v][g] # k
        /\ batch[w] # <<>> => wpc[w] \in {"start", "increase"}
    BY <1>1, <1>3, BusyWith
  <2>2. stage[k] = "removed"
    BY <1>2, <2>1 DEF AtStage
  <2>3. batch[w] = <<>>
    BY <1>2, <2>1
  <2> QED
    BY <1>1, <2>1, <2>2, <2>3
<1>5. /\ stage' \in [Conns -> Stages] /\ stage'[k] = "closed"
      /\ connfd' \in [Conns -> Fds \cup {None}] /\ connfd'[k] = None
      /\ \A j \in Conns : j # k => stage'[j] = stage[j] /\ connfd'[j] = connfd[j]
  BY <1>2, <1>4, StageType DEF Stages
<1>6. sock' \in [Fds -> Conns \cup {None}] /\ \A g \in Fds : g # f => sock'[g] = sock[g]
  BY <1>2, <1>4, StageType
<1>7. /\ wpc' \in [Workers -> WorkerPcs] /\ wpc'[w] = "dispatch"
      /\ \A v \in Workers : v # w => wpc'[v] = wpc[v]
  BY <1>2, PcType DEF WorkerPcs
<1>8. /\ wconn' \in [Workers -> Conns \cup {None}]
      /\ \A v \in Workers : v # w => wconn'[v] = wconn[v]
  BY <1>2, LoopType
<1>9. ServerType'
  BY <1>2, <1>5, <1>6, <1>7, <1>8 DEF ServerInv, ServerType, WorkerPcs
<1>10. SocketInv'
  <2> SUFFICES ASSUME NEW j \in Conns
               PROVE  IF stage'[j] \in HoldsFd THEN connfd'[j] \in Fds /\ sock'[connfd'[j]] = j
                                               ELSE connfd'[j] = None
    BY DEF SocketInv
  <2>1. CASE j = k
    BY <1>5, <2>1 DEF HoldsFd
  <2>2. CASE j # k
    <3>1. stage'[j] = stage[j] /\ connfd'[j] = connfd[j]
      BY <1>5, <2>2
    <3>2. stage[j] \in HoldsFd => connfd[j] # f
      BY <1>1, <1>4, <2>2, OneConnPerFd
    <3> QED
      BY <1>6, <3>1, <3>2 DEF ServerInv, SocketInv
  <2> QED
    BY <2>1, <2>2
<1>11. BacklogInv'
  <2>1. \A j \in Conns : stage[j] = "backlog" => stage'[j] = "backlog"
    BY <1>4, <1>5
  <2> QED
    BY <1>2, <2>1, BacklogKept
<1>12. PendingInv'
  <2>1. \A j \in Conns : stage[j] = "queued" => stage'[j] = "queued"
    BY <1>4, <1>5
  <2>2. \A v \in Workers : batch[v] # <<>> => wpc'[v] \in {"tasks", "start", "increase"}
    BY <1>4, <1>7 DEF ServerInv, PendingInv
  <2> QED
    BY <1>2, <1>5, <2>1, <2>2, PendingKept
<1>13. WorkerInv'
  <2>1. "dispatch" \notin BusyPcs
    BY DEF BusyPcs
  <2>2. \A v \in Workers : v # w => wpc'[v] = wpc[v] /\ wconn'[v] = wconn[v]
    BY <1>7, <1>8
  <2>3. wpc'[w] \in BusyPcs => wconn'[w] = k /\ AtStage(wpc'[w], stage'[k])
    BY <1>7, <2>1
  <2>4. /\ \A j \in Conns : j # k => stage'[j] = stage[j]
        /\ \A v \in Workers : v # w /\ Busy(v) => wconn[v] # k
    BY <1>4, <1>5
  <2> QED
    BY <1>4, <2>2, <2>3, <2>4, WorkerMoves
<1>14. EventInv'
  <2>1. \A v \in Workers : v # w => /\ wpc'[v] = wpc[v] /\ wconn'[v] = wconn[v]
                                   /\ ioEvs'[v] = ioEvs[v] /\ epoll'[v] = epoll[v]
    BY <1>2, <1>7, <1>8
  <2>2. ASSUME NEW g \in Fds, ioEvs'[w][g] # None
        PROVE  connfd'[ioEvs'[w][g]] = g /\ stage'[ioEvs'[w][g]] = "live"
    <3>1. PICK j \in Conns : j = ioEvs[w][g] /\ j = ioEvs'[w][g] /\ j # None
      BY <1>2, <2>2, HandledOnly
    <3>2. connfd[ioEvs[w][g]] = g /\ stage[ioEvs[w][g]] = "live"
      BY <1>2, <3>1 DEF ServerInv, EventInv
    <3> QED
      BY <1>4, <1>5, <3>1, <3>2
  <2>3. ASSUME NEW g \in Fds, ioEvs'[w][g] # None, NEW v \in Workers, v # w
        PROVE  ioEvs[v][g] = None
    <3>1. ioEvs[w][g] # None
      BY <1>2, <2>3
    <3> QED
      BY <2>3, <3>1, OneHandlerPerFd
  <2>4. epoll'[w] \subseteq Fds /\ \A g \in epoll'[w] : ioEvs'[w][g] # None
    BY <1>2, LoopType DEF ServerInv, EventInv
  <2> QED
    BY <1>4, <1>5, <2>1, <2>2, <2>3, <2>4, LoopMoves, ZenonT(60)
<1>15. Counted' = Counted /\ k \notin Counted /\ Counted \subseteq Conns
  BY <1>4, <1>5 DEF Counted
<1>16. SlotInv'
  <2> SUFFICES ASSUME NEW i \in Slots, conns'[i] \in Conns PROVE connfd'[conns'[i]] = i
    BY DEF SlotInv
  <2>1. conns'[i] = conns[i] /\ conns[i] \in Conns
    BY <1>2
  <2>2. conns[i] \in Counted /\ connfd[conns[i]] = i
    BY <2>1 DEF ServerInv, TableExact, SlotInv
  <2> QED
    BY <1>5, <1>15, <2>1, <2>2
<1>17. TableExact'
  <2>1. \A j \in Counted : connfd'[j] = connfd[j]
    BY <1>5, <1>15
  <2> QED
    BY <1>2, <1>15, <2>1 DEF ServerInv, TableExact
<1>18. DispatchToOwner'
  <2>1. \A v \in Workers : \A g \in fired'[v] \ {QueueFd} :
          g \in fired[v] /\ ioEvs[v][g] # k /\ ioEvs'[v][g] = ioEvs[v][g]
    BY <1>2, <1>4
  <2> QED
    BY <1>4, <1>5, <1>10, <2>1, EventsElsewhere
<1> QED
  BY <1>9, <1>10, <1>11, <1>12, <1>13, <1>14, <1>16, <1>17, <1>18 DEF ServerInv

-----------------------------------------------------------------------------
\* The steps that concern neither descriptors nor loops nor messages.
LEMMA QuietStep ==
  ASSUME ServerInv,
         \/ AcceptWakeup \/ GetConnNum \/ BroadcastBegin
         \/ \E k \in Conns, what \in {"data", "gone"} : ClientActs(k, what)
         \/ UNCHANGED serverVars
  PROVE  ServerInv'
<1>1. /\ UNCHANGED <<stage, connfd, sock, backlog, queue, loopVars, tableVars>>
      /\ index' = index /\ bpos' \in {bpos, 1}
  BY DEF AcceptWakeup, GetConnNum, BroadcastBegin, ClientActs, acceptVars, workerVars, tableVars,
         bcastVars, loopVars, serverVars
<1>2. index' \in 0..ThreadCnt /\ bpos' \in 0..ThreadCnt
  BY <1>1, QueueType, TcpAssumption, SMT
<1> QED
  BY <1>1, <1>2, ServerQuiet

-----------------------------------------------------------------------------
(* The DNS service *)

\* Where a callback of the service can be.
Positions == {"none", "subscribe", "hosts", "reply", "push", "pushhosts"}

-----------------------------------------------------------------------------
(* What the parts of the invariant say *)

\* The tables of hosts.
LEMMA DataType == DnsInv => /\ dbData \in [Mods -> Nat] /\ served \in [Mods -> Nat]
                            /\ kdata \in [Mods -> Nat] /\ klist \subseteq Mods
BY DEF DnsInv, DnsType

\* The subscriptions.
LEMMA SubType == DnsInv => /\ subs \in [Conns -> SUBSET Mods] /\ book \subseteq Mods \X Fds
                           /\ push \subseteq Fds \X Mods
BY DEF DnsInv, DnsType

\* What the workers are doing.
LEMMA CallType == DnsInv => /\ dpc \in [Workers -> Positions]
                            /\ dreq \in [Workers -> {<<>>} \cup ((Conns \cup Fds) \X Mods)]
                            /\ need \in [Workers -> SUBSET (Fds \X Mods)]
                            /\ dval \in [Workers -> Nat]
                            /\ view \in [Conns -> [Mods -> Nat]]
BY DEF DnsInv, DnsType, Positions

\* The connections in the loop of a worker that neither constructs nor cleans
\* up are live, and found under their own descriptor.
LEMMA InLoopLive ==
  ASSUME ServerInv, NEW w \in Workers, ~Busy(w), NEW k \in InLoop(w)
  PROVE  /\ k \in Conns /\ stage[k] = "live" /\ connfd[k] \in Fds
         /\ ioEvs[w][connfd[k]] = k
<1>1. PICK f \in Fds : ioEvs[w][f] = k /\ k # None
  BY DEF InLoop
<1>2. k \in Conns
  BY <1>1, HandledOnly
<1>3. connfd[ioEvs[w][f]] = f /\ stage[ioEvs[w][f]] = "live"
  BY <1>1 DEF ServerInv, EventInv, Busy
<1> QED
  BY <1>1, <1>2, <1>3

\* A connection is in one loop only.
LEMMA OneLoop ==
  ASSUME ServerInv, NEW v \in Workers, NEW w \in Workers, NEW k \in InLoop(v), k \in InLoop(w)
  PROVE  v = w
<1>1. PICK f \in Fds : ioEvs[v][f] = k /\ k # None
  BY DEF InLoop
<1>2. PICK g \in Fds : ioEvs[w][g] = k
  BY DEF InLoop
<1>3. connfd[ioEvs[v][f]] = f /\ connfd[ioEvs[w][g]] = g
  BY <1>1, <1>2 DEF ServerInv, EventInv
<1>4. f = g
  BY <1>1, <1>2, <1>3
<1> QED
  BY <1>1, <1>2, <1>4, SMT DEF ServerInv, EventInv

\* A worker inside get_route or push_change_task is not busy with construction
\* or clean-up, and the connection it talks to is live and of its own loop.
LEMMA Talking ==
  ASSUME DnsInv, NEW w \in Workers, dpc[w] \in Positions \ {"none"}
  PROVE  /\ ~Busy(w)
         /\ dpc[w] # "push" =>
              /\ Told(w) \in Conns /\ stage[Told(w)] = "live" /\ connfd[Told(w)] \in Fds
              /\ Told(w) \in InLoop(w) /\ dreq[w][2] \in Mods
<1>1. ~Busy(w)
  BY DEF DnsInv, CallInv, Positions, Busy, BusyPcs
<1>2. ServerInv
  BY DEF DnsInv
<1>3. dpc[w] # "push" => Told(w) \in InLoop(w) /\ dreq[w][2] \in Mods
  BY DEF DnsInv, CallInv, Positions
<1> QED
  BY <1>1, <1>2, <1>3, InLoopLive

\* An entry that push_change_task has taken names a live connection of the loop,
\* and conns[fd] is that connection.
LEMMA Pushing ==
  ASSUME DnsInv, NEW w \in Workers, NEW e \in need[w]
  PROVE  /\ e \in Fds \X Mods /\ wpc[w] = "run"
         /\ ioEvs[w][e[1]] \in Conns /\ ioEvs[w][e[1]] \in InLoop(w)
         /\ stage[ioEvs[w][e[1]]] = "live" /\ connfd[ioEvs[w][e[1]]] = e[1]
         /\ e[1] \in Slots => conns[e[1]] = ioEvs[w][e[1]]
<1>1. e \in Fds \X Mods
  BY CallType
<1>2. wpc[w] = "run" /\ ioEvs[w][e[1]] # None
  BY DEF DnsInv, NeedInv, CallInv
<1>3. ServerInv /\ ~Busy(w) /\ e[1] \in Fds
  BY <1>1, <1>2 DEF DnsInv, Busy, BusyPcs
<1>4. PICK k : k = ioEvs[w][e[1]]
  OBVIOUS
<1>5. k \in InLoop(w)
  BY <1>2, <1>3, <1>4 DEF InLoop
<1>6. k \in Conns /\ stage[k] = "live"
  BY <1>3, <1>5, InLoopLive
<1>7. connfd[k] = e[1]
  BY <1>2, <1>3, <1>4 DEF ServerInv, EventInv
<1>8. e[1] \in Slots => conns[e[1]] = k
  BY <1>3, <1>6, <1>7 DEF ServerInv, TableExact, Counted
<1> QED
  BY <1>1, <1>2, <1>4, <1>5, <1>6, <1>7, <1>8

\* What push_change_task finds in conns[fd] is what the property says.
LEMMA OwnConnection == DnsInv => PushToOwnConnection
<1> SUFFICES ASSUME DnsInv, NEW w \in Workers, NEW e \in need[w], e[1] \in Slots
             PROVE  /\ conns[e[1]] \in Conns
                    /\ stage[conns[e[1]]] = "live"
                    /\ ioEvs[w][e[1]] = conns[e[1]]
  BY DEF PushToOwnConnection
<1>1. PICK k : k = ioEvs[w][e[1]]
  OBVIOUS
<1>2. k \in Conns /\ stage[k] = "live" /\ conns[e[1]] = k
  BY <1>1, Pushing
<1> QED
  BY <1>1, <1>2

-----------------------------------------------------------------------------
(* What the server's own steps leave alone *)

\* Connections that may have subscriptions keep their descriptor, and stay so.
SubscribersStay ==
  \A k \in Conns : stage[k] \in {"live", "closing"} =>
    connfd'[k] = connfd[k] /\ stage'[k] \in {"live", "closing"}

\* A worker's loop and position are changed by that worker alone.
OthersStay(w) == \A v \in Workers : v # w => wpc'[v] = wpc[v] /\ ioEvs'[v] = ioEvs[v]

\* A step that takes connection k, which has no subscriptions, to another stage.
LEMMA StageMoves ==
  ASSUME ServerInv, NEW k \in Conns, NEW s, stage' = [stage EXCEPT ![k] = s],
         \A j \in Conns : j # k => connfd'[j] = connfd[j],
         stage[k] \notin {"live", "closing"}
  PROVE  SubscribersStay
<1>1. \A j \in Conns : j # k => stage'[j] = stage[j]
  BY StageType
<1> QED
  BY <1>1 DEF SubscribersStay

\* Constructing a connection.
LEMMA ConstructLocal ==
  ASSUME ServerInv, NEW w \in Workers, Construct(w)
  PROVE  SubscribersStay /\ OthersStay(w)
<1>1. PICK k, f :
        /\ k = Head(batch[w]) /\ k # NewTask
        /\ ioEvs' = [ioEvs EXCEPT ![w][f] = k] /\ stage' = [stage EXCEPT ![k] = "registered"]
  BY DEF Construct
<1>2. /\ wpc[w] = "tasks" /\ batch[w] # <<>> /\ batch' = [batch EXCEPT ![w] = Tail(@)]
      /\ wpc' = [wpc EXCEPT ![w] = "start"] /\ queue' = queue /\ connfd' = connfd
  BY DEF Construct
<1>3. 1 \in 1..Len(pending[w]) /\ pending[w][1] = k /\ k \in Conns
  BY <1>1, <1>2, TakenMessage DEF Messages
<1>4. stage[k] = "queued"
  BY <1>3 DEF ServerInv, PendingInv, QueuedOnce
<1>5. OthersStay(w)
  BY <1>1, <1>2, LoopType, PcType DEF OthersStay
<1> QED
  BY <1>1, <1>2, <1>3, <1>4, <1>5, StageMoves

\* The constructor's last step and clean_conn after its hook.
LEMMA CleanUpLocal ==
  ASSUME ServerInv, NEW w \in Workers,
         StartCb(w) \/ Increase(w) \/ Decrease(w) \/ DelEvent(w) \/ CloseFd(w)
  PROVE  SubscribersStay /\ OthersStay(w)
<1>1. PICK k, s, p :
        /\ k = wconn[w] /\ wpc[w] \in {"start", "increase", "decrease", "del", "close"}
        /\ stage' = [stage EXCEPT ![k] = s] /\ wpc' = [wpc EXCEPT ![w] = p]
        /\ connfd' = connfd \/ connfd' = [connfd EXCEPT ![k] = None]
        /\ ioEvs' = ioEvs \/ ioEvs' = [ioEvs EXCEPT ![w][connfd[k]] = None]
  BY SMTT(20) DEF StartCb, Increase, Decrease, DelEvent, CloseFd
<1>2. Busy(w)
  BY <1>1 DEF Busy, BusyPcs
<1>3. k \in Conns /\ stage[k] \notin {"live", "closing"}
  BY <1>1, <1>2, BusyWith, SMT DEF AtStage
<1>4. \A j \in Conns : j # k => connfd'[j] = connfd[j]
  BY <1>1, StageType
<1>5. OthersStay(w)
  BY <1>1, LoopType, PcType DEF OthersStay
<1> QED
  BY <1>1, <1>3, <1>4, <1>5, StageMoves

\* Entering clean_conn.
LEMMA CleanConnLocal ==
  ASSUME ServerInv, NEW w \in Workers, NEW f \in Fds, CleanConn(w, f)
  PROVE  SubscribersStay /\ OthersStay(w)
<1>1. /\ stage' = [stage EXCEPT ![ioEvs[w][f]] = "closing"] /\ wpc' = [wpc EXCEPT ![w] = "closecb"]
      /\ ioEvs' = ioEvs /\ connfd' = connfd
  BY DEF CleanConn
<1>2. \A k \in Conns : stage'[k] \in {stage[k], "closing"}
  BY <1>1, StageType
<1> QED
  BY <1>1, <1>2, PcType DEF SubscribersStay, OthersStay

\* The steps of the loop that take no connection further.
LEMMA LoopLocal ==
  ASSUME ServerInv, NEW w \in Workers,
         \/ EpollWait(w) \/ DispatchDone(w) \/ RecvTasks(w) \/ AddTask(w) \/ TasksDone(w)
         \/ RunTask(w) \/ \E f \in Fds : DoRead(w, f)
  PROVE  SubscribersStay /\ OthersStay(w) /\ ioEvs' = ioEvs /\ stage' = stage /\ connfd' = connfd
<1>1. /\ wpc' = wpc \/ \E p : wpc' = [wpc EXCEPT ![w] = p]
      /\ ioEvs' = ioEvs /\ stage' = stage /\ connfd' = connfd
  BY DEF EpollWait, DispatchDone, RecvTasks, AddTask, TasksDone, RunTask, DoRead
<1> QED
  BY <1>1, PcType DEF SubscribersStay, OthersStay

\* The main thread, the clients and a broadcast.
LEMMA AcceptLocal ==
  ASSUME ServerInv, Acceptor \/ (\E k \in Conns : Client(k)) \/ BroadcastBegin \/ SendTask
  PROVE  SubscribersStay /\ UNCHANGED <<wpc, ioEvs>>
<1>1. UNCHANGED <<wpc, ioEvs>>
  BY DEF Acceptor, Client, BroadcastBegin, SendTask, AcceptWakeup, Accept, GetConnNum, Refuse, HandOver,
         Connect, ClientActs, workerVars
<1>2. CASE Accept
  <2>1. PICK k, f : /\ k = Head(backlog) /\ stage' = [stage EXCEPT ![k] = "accepted"]
                    /\ connfd' = [connfd EXCEPT ![k] = f] /\ backlog # <<>>
    BY <1>2 DEF Accept
  <2>2. 1 \in 1..Len(backlog) /\ k = backlog[1] /\ k \in Conns
    BY <2>1, StageType, SMT
  <2>3. k \in Conns /\ stage[k] = "backlog"
    BY <2>2 DEF ServerInv, BacklogInv
  <2>4. \A j \in Conns : j # k => connfd'[j] = connfd[j]
    BY <2>1, StageType
  <2> QED
    BY <1>1, <2>1, <2>3, <2>4, StageMoves
<1>3. ASSUME NEW k \in Conns, Refuse(k) \/ HandOver(k) \/ Connect(k) PROVE SubscribersStay
  <2>1. /\ stage[k] \in {"none", "accepted"} /\ \E s : stage' = [stage EXCEPT ![k] = s]
        /\ connfd' = connfd \/ connfd' = [connfd EXCEPT ![k] = None]
    BY <1>3 DEF Refuse, HandOver, Connect, Accepted
  <2>2. \A j \in Conns : j # k => connfd'[j] = connfd[j]
    BY <2>1, StageType
  <2> QED
    BY <2>1, <2>2, StageMoves
<1>4. CASE stage' = stage /\ connfd' = connfd
  BY <1>1, <1>4 DEF SubscribersStay
<1>5. ASSUME NEW k \in Conns, NEW what \in {"data", "gone"}, ClientActs(k, what)
      PROVE  stage' = stage /\ connfd' = connfd
  BY <1>5 DEF ClientActs
<1>6. (AcceptWakeup \/ GetConnNum \/ BroadcastBegin \/ SendTask) => stage' = stage /\ connfd' = connfd
  BY DEF AcceptWakeup, GetConnNum, BroadcastBegin, SendTask
<1> QED
  BY <1>1, <1>2, <1>3, <1>4, <1>5, <1>6 DEF Acceptor, Client

-----------------------------------------------------------------------------
(* Steps outside get_route and push_change_task *)

\* No call is in progress where something changes, and what is served grows.
LEMMA Bystander ==
  ASSUME DnsInv, ServerInv', UNCHANGED <<subs, book>>, UNCHANGED <<dpc, dreq, need, dval, view>>,
         push' \subseteq Fds \X Mods, klist' \subseteq Mods,
         dbData' \in [Mods -> Nat], served' \in [Mods -> Nat], kdata' \in [Mods -> Nat],
         DataInv', \A m \in Mods : served[m] <= served'[m],
         \A k \in Conns : subs[k] # {} => connfd'[k] = connfd[k] /\ stage'[k] \in {"live", "closing"},
         \A v \in Workers : dpc[v] # "none" => wpc'[v] = wpc[v] /\ ioEvs'[v] = ioEvs[v]
  PROVE  DnsInv'
<1>1. DnsType'
  BY DEF DnsInv, DnsType
<1>2. SubsInv'
  BY DEF DnsInv, SubsInv
<1>3. BookExact'
  <2> SUFFICES ASSUME NEW m \in Mods, NEW f \in Fds
               PROVE  <<m, f>> \in book <=> \E k \in Conns : connfd'[k] = f /\ m \in subs[k]
    BY ZenonT(60) DEF BookExact
  <2>1. \A k \in Conns : m \in subs[k] => connfd'[k] = connfd[k]
    OBVIOUS
  <2>2. <<m, f>> \in book <=> \E k \in Conns : connfd[k] = f /\ m \in subs[k]
    BY DEF DnsInv, BookExact
  <2> QED
    BY <2>1, <2>2
<1>4. ASSUME NEW w \in Workers PROVE CallInv(w)' /\ NeedInv(w)' /\ HeldInv(w)'
  <2>1. CallInv(w) /\ NeedInv(w) /\ HeldInv(w)
    BY DEF DnsInv
  <2>2. CASE dpc[w] = "none"
    BY <2>1, <2>2 DEF CallInv, NeedInv, HeldInv
  <2>3. CASE dpc[w] # "none"
    <3>1. wpc'[w] = wpc[w] /\ ioEvs'[w] = ioEvs[w]
      BY <2>3
    <3>2. Told(w)' = Told(w) /\ InLoop(w)' = InLoop(w)
      BY <3>1, ZenonT(60) DEF Told, InLoop
    <3>3. CallInv(w)'
      BY <2>1, <3>1, <3>2 DEF CallInv
    <3>4. NeedInv(w)'
      BY <2>1, <3>1 DEF NeedInv
    <3>5. HeldInv(w)'
      <4> SUFFICES ASSUME dpc[w] \in {"reply", "pushhosts"}
                   PROVE  view[Told(w)][dreq[w][2]] <= dval[w] /\ dval[w] <= served'[dreq[w][2]]
        BY <3>2 DEF HeldInv
      <4>1. view[Told(w)][dreq[w][2]] <= dval[w] /\ dval[w] <= served[dreq[w][2]]
        BY <2>1 DEF HeldInv
      <4>2. dreq[w][2] \in Mods
        BY <2>1 DEF CallInv
      <4>3. /\ dval[w] \in Nat /\ served[dreq[w][2]] \in Nat /\ served'[dreq[w][2]] \in Nat
            /\ served[dreq[w][2]] <= served'[dreq[w][2]]
        BY <4>2, CallType, DataType
      <4> QED
        BY <4>1, <4>3, SMT
    <3> QED
      BY <3>3, <3>4, <3>5
  <2> QED
    BY <2>2, <2>3
<1>5. ViewInv'
  <2> SUFFICES ASSUME NEW k \in Conns, NEW m \in Mods PROVE view[k][m] <= served'[m]
    BY DEF ViewInv
  <2>1. view[k][m] <= served[m] /\ served[m] <= served'[m]
    BY DEF DnsInv, ViewInv
  <2>2. view[k][m] \in Nat /\ served[m] \in Nat /\ served'[m] \in Nat
    BY CallType, DataType
  <2> QED
    BY <2>1, <2>2, SMT
<1> QED
  BY <1>1, <1>2, <1>3, <1>4, <1>5 DEF DnsInv

\* The server stands still.
LEMMA ServerStill ==
  ASSUME DnsInv, UNCHANGED serverVars
  PROVE  /\ ServerInv' /\ UNCHANGED <<stage, connfd, wpc, ioEvs, conns>>
         /\ \A k \in Conns : subs[k] # {} => connfd'[k] = connfd[k] /\ stage'[k] \in {"live", "closing"}
<1>1. UNCHANGED <<stage, connfd, wpc, ioEvs, conns>>
  BY DEF serverVars
<1>2. ServerInv'
  BY QuietStep DEF DnsInv
<1>3. \A k \in Conns : subs[k] # {} => stage[k] \in {"live", "closing"}
  BY DEF DnsInv, SubsInv
<1> QED
  BY <1>1, <1>2, <1>3

\* Subscribers stay subscribers when their connections stay.
LEMMA SubscribersKept ==
  ASSUME DnsInv, SubscribersStay
  PROVE  \A k \in Conns : subs[k] # {} => connfd'[k] = connfd[k] /\ stage'[k] \in {"live", "closing"}
BY DEF DnsInv, SubsInv, SubscribersStay

\* Edits of the database, in one transaction or statement by statement.
LEMMA EditorStep ==
  ASSUME DnsInv, Editor
  PROVE  DnsInv'
<1>1. /\ UNCHANGED checkVars /\ UNCHANGED subVars /\ UNCHANGED callVars /\ UNCHANGED serverVars
      /\ dbData' = dbData \/ \E m \in Mods : dbData' = [dbData EXCEPT ![m] = @ + 1]
  BY DEF Editor, EditInTransaction, ScriptRows, ScriptVersion, ScriptChange, EditRows
<1>2. /\ UNCHANGED <<served, kpc, kdata, klist>> /\ UNCHANGED <<subs, book, push>>
      /\ UNCHANGED <<dpc, dreq, need, dval, view>>
  BY <1>1 DEF checkVars, subVars, callVars
<1>3. dbData' \in [Mods -> Nat] /\ \A m \in Mods : dbData[m] <= dbData'[m]
  BY <1>1, DataType, SMT
<1>4. DataInv'
  <2> SUFFICES ASSUME NEW m \in Mods
               PROVE  served[m] <= dbData'[m] /\ kdata[m] <= dbData'[m] /\ (kpc = "swap" => served[m] <= kdata[m])
    BY <1>2 DEF DataInv
  <2>1. served[m] <= dbData[m] /\ kdata[m] <= dbData[m] /\ (kpc = "swap" => served[m] <= kdata[m])
    BY DEF DnsInv, DataInv
  <2>2. served[m] \in Nat /\ kdata[m] \in Nat /\ dbData[m] \in Nat /\ dbData'[m] \in Nat
    BY <1>3, DataType
  <2> QED
    BY <1>3, <2>1, <2>2, SMT
<1>5. /\ push' \subseteq Fds \X Mods /\ klist' \subseteq Mods
      /\ served' \in [Mods -> Nat] /\ kdata' \in [Mods -> Nat] /\ \A m \in Mods : served[m] <= served'[m]
  BY <1>2, DataType, SubType, SMT
<1> QED
  BY <1>1, <1>2, <1>3, <1>4, <1>5, ServerStill, Bystander

\* The steps of the checking thread that neither load nor swap the table.
LEMMA CheckerStep ==
  ASSUME DnsInv, KBoot \/ KNewVersion \/ KTimeout \/ KLoadFails \/ KLoadChanges \/ KRemoveChanges
  PROVE  DnsInv'
<1>1. /\ UNCHANGED subVars /\ UNCHANGED callVars /\ UNCHANGED serverVars
      /\ UNCHANGED <<served, kdata>> /\ dbData' = dbData
      /\ kpc' # "swap" /\ (klist' \subseteq Mods \/ klist' = klist)
  BY DEF KBoot, KNewVersion, KTimeout, KLoadFails, KLoadChanges, KRemoveChanges, KGoto, AfterReload, dbVars
<1>2. UNCHANGED <<subs, book, push>> /\ UNCHANGED <<dpc, dreq, need, dval, view>>
  BY <1>1 DEF subVars, callVars
<1>3. DataInv'
  BY <1>1 DEF DnsInv, DataInv
<1>4. /\ push' \subseteq Fds \X Mods /\ klist' \subseteq Mods /\ dbData' \in [Mods -> Nat]
      /\ served' \in [Mods -> Nat] /\ kdata' \in [Mods -> Nat] /\ \A m \in Mods : served[m] <= served'[m]
  BY <1>1, <1>2, DataType, SubType, SMT
<1> QED
  BY <1>1, <1>2, <1>3, <1>4, ServerStill, Bystander

\* load_route_data reads the database, and swap serves what was read: by then
\* an older table is served, as only this thread swaps.
LEMMA ReloadStep ==
  ASSUME DnsInv, KLoad \/ KSwap
  PROVE  DnsInv'
<1>1. /\ UNCHANGED subVars /\ UNCHANGED callVars /\ UNCHANGED serverVars
      /\ dbData' = dbData /\ klist' = klist
      /\ \/ kdata' = dbData /\ served' = served
         \/ kdata' = kdata /\ served' = kdata /\ kpc = "swap" /\ kpc' # "swap"
  BY DEF KLoad, KSwap, KGoto, AfterReload, dbVars
<1>2. UNCHANGED <<subs, book, push>> /\ UNCHANGED <<dpc, dreq, need, dval, view>>
  BY <1>1 DEF subVars, callVars
<1>3. /\ push' \subseteq Fds \X Mods /\ klist' \subseteq Mods /\ dbData' \in [Mods -> Nat]
      /\ served' \in [Mods -> Nat] /\ kdata' \in [Mods -> Nat]
  BY <1>1, <1>2, DataType, SubType
<1>4. ASSUME NEW m \in Mods
      PROVE  /\ served'[m] <= dbData[m] /\ kdata'[m] <= dbData[m]
             /\ kpc' = "swap" => served'[m] <= kdata'[m]
             /\ served[m] <= served'[m]
  <2>1. served[m] <= dbData[m] /\ kdata[m] <= dbData[m] /\ (kpc = "swap" => served[m] <= kdata[m])
    BY DEF DnsInv, DataInv
  <2>2. served[m] \in Nat /\ kdata[m] \in Nat /\ dbData[m] \in Nat
    BY DataType
  <2> QED
    BY <1>1, <2>1, <2>2, SMT
<1>5. DataInv'
  BY <1>1, <1>4 DEF DataInv
<1> QED
  BY <1>1, <1>2, <1>3, <1>4, <1>5, ServerStill, Bystander

\* publish, and the broadcast that follows it.
LEMMA PublishStep ==
  ASSUME DnsInv, KPublish \/ KSendTask
  PROVE  DnsInv'
<1>1. /\ BroadcastBegin \/ SendTask
      /\ UNCHANGED <<served, kdata>> /\ UNCHANGED dbVars /\ UNCHANGED <<subs, book>> /\ UNCHANGED callVars
      /\ kpc' # "swap" /\ (klist' = klist \/ klist' = {})
      /\ push' = push \/ push' = push \cup {e \in Fds \X klist : <<e[2], e[1]>> \in book}
  BY DEF KPublish, KSendTask, KGoto, subVars
<1>2. UNCHANGED <<dpc, dreq, need, dval, view>> /\ dbData' = dbData
  BY <1>1 DEF callVars, dbVars
<1>3. DataInv'
  BY <1>1, <1>2 DEF DnsInv, DataInv
<1>4. /\ klist' \subseteq Mods /\ dbData' \in [Mods -> Nat]
      /\ served' \in [Mods -> Nat] /\ kdata' \in [Mods -> Nat] /\ \A m \in Mods : served[m] <= served'[m]
  BY <1>1, <1>2, DataType, SMT
<1>5. push' \subseteq Fds \X Mods
  BY <1>1, DataType, SubType
<1>6. ServerInv
  BY DEF DnsInv
<1>7. ServerInv'
  BY <1>1, <1>6, QuietStep, SendTaskStep
<1>8. SubscribersStay /\ UNCHANGED <<wpc, ioEvs>>
  BY <1>1, <1>6, AcceptLocal
<1> QED
  BY <1>1, <1>2, <1>3, <1>4, <1>5, <1>7, <1>8, SubscribersKept, Bystander

\* Only the server moves, and no worker in the middle of a call does.
LEMMA ServerAlone ==
  ASSUME DnsInv, ServerInv', UNCHANGED dnsVars,
         \A k \in Conns : subs[k] # {} => connfd'[k] = connfd[k] /\ stage'[k] \in {"live", "closing"},
         \A v \in Workers : dpc[v] # "none" => wpc'[v] = wpc[v] /\ ioEvs'[v] = ioEvs[v]
  PROVE  DnsInv'
<1>1. /\ UNCHANGED <<dbData, served, kpc, kdata, klist>> /\ UNCHANGED <<subs, book>> /\ push' = push
      /\ UNCHANGED <<dpc, dreq, need, dval, view>>
  BY DEF dnsVars, dbVars, checkVars, subVars, callVars
<1>2. DataInv'
  BY <1>1 DEF DnsInv, DataInv
<1>3. /\ push' \subseteq Fds \X Mods /\ klist' \subseteq Mods /\ dbData' \in [Mods -> Nat]
      /\ served' \in [Mods -> Nat] /\ kdata' \in [Mods -> Nat] /\ \A m \in Mods : served[m] <= served'[m]
  BY <1>1, DataType, SubType, SMT
<1> QED
  BY <1>1, <1>2, <1>3, Bystander

\* A worker that constructs or cleans up is not inside a call.
LEMMA BusyNotCalling == ASSUME DnsInv, NEW w \in Workers, Busy(w) PROVE dpc[w] = "none"
BY Talking, CallType

\* create_subscribe gives the connection an empty sub_list; it had no
\* subscriptions before.
LEMMA CreateSubscribeStep ==
  ASSUME DnsInv, NEW w \in Workers, CreateSubscribe(w)
  PROVE  DnsInv'
<1>1. ServerInv
  BY DEF DnsInv
<1>2. PICK k : k = wconn[w]
  OBVIOUS
<1>3. /\ StartCb(w) /\ wpc[w] = "start" /\ subs' = [subs EXCEPT ![k] = {}]
      /\ UNCHANGED <<book, push>> /\ UNCHANGED <<dbVars, checkVars, callVars>>
  BY <1>2 DEF CreateSubscribe, StartCb
<1>4. Busy(w)
  BY <1>3 DEF Busy, BusyPcs
<1>5. k \in Conns /\ stage[k] = "registered"
  BY <1>1, <1>2, <1>3, <1>4, BusyWith, SMT DEF AtStage
<1>6. subs[k] = {}
  BY <1>5 DEF DnsInv, SubsInv
<1>7. subs' = subs
  BY <1>3, <1>5, <1>6, SubType
<1>8. UNCHANGED dnsVars
  BY <1>3, <1>7 DEF dnsVars, subVars
<1>9. ServerInv' /\ SubscribersStay /\ OthersStay(w)
  BY <1>1, <1>3, HookStep, CleanUpLocal
<1>10. \A v \in Workers : dpc[v] # "none" => wpc'[v] = wpc[v] /\ ioEvs'[v] = ioEvs[v]
  BY <1>4, <1>9, BusyNotCalling DEF OthersStay
<1> QED
  BY <1>8, <1>9, <1>10, SubscribersKept, ServerAlone

\* clear_subscribe returns with no subscription left.
LEMMA ClearSubscribeDoneStep ==
  ASSUME DnsInv, NEW w \in Workers, ClearSubscribeDone(w)
  PROVE  DnsInv'
<1>1. ServerInv
  BY DEF DnsInv
<1>2. PICK k : k = wconn[w]
  OBVIOUS
<1>3. CloseCb(w) /\ subs[k] = {} /\ UNCHANGED dnsVars
  BY <1>2 DEF ClearSubscribeDone
<1>4. /\ wpc[w] = "closecb" /\ stage' = [stage EXCEPT ![k] = "hooked"]
      /\ wpc' = [wpc EXCEPT ![w] = "decrease"] /\ ioEvs' = ioEvs /\ connfd' = connfd
  BY <1>2, <1>3 DEF CloseCb
<1>5. Busy(w)
  BY <1>4 DEF Busy, BusyPcs
<1>6. \A j \in Conns : j # k => stage'[j] = stage[j]
  BY <1>1, <1>4, StageType
<1>7. \A j \in Conns : subs[j] # {} => connfd'[j] = connfd[j] /\ stage'[j] \in {"live", "closing"}
  BY <1>3, <1>4, <1>6 DEF DnsInv, SubsInv
<1>8. \A v \in Workers : dpc[v] # "none" => wpc'[v] = wpc[v] /\ ioEvs'[v] = ioEvs[v]
  BY <1>1, <1>4, <1>5, BusyNotCalling, PcType
<1>9. ServerInv'
  BY <1>1, <1>3, HookStep
<1> QED
  BY <1>3, <1>7, <1>8, <1>9, ServerAlone

-----------------------------------------------------------------------------
(* get_route, push_change_task and unsubscribe *)

\* A worker's call takes a step: the other workers' calls are about other
\* connections, as no connection is in two loops.
LEMMA WorkerActs ==
  ASSUME DnsInv, ServerInv', NEW w \in Workers, ioEvs' = ioEvs,
         UNCHANGED <<dbData, served, kpc, kdata>>,
         DnsType', SubsInv', BookExact', CallInv(w)', NeedInv(w)', HeldInv(w)', ViewInv',
         \A v \in Workers : v # w =>
           /\ wpc'[v] = wpc[v] /\ dpc'[v] = dpc[v] /\ dreq'[v] = dreq[v]
           /\ need'[v] = need[v] /\ dval'[v] = dval[v],
         \A k \in Conns : k \notin InLoop(w) => view'[k] = view[k]
  PROVE  DnsInv'
<1>1. ASSUME NEW v \in Workers, v # w PROVE CallInv(v)' /\ NeedInv(v)' /\ HeldInv(v)'
  <2>1. CallInv(v) /\ NeedInv(v) /\ HeldInv(v) /\ ServerInv
    BY DEF DnsInv
  <2>2. /\ wpc'[v] = wpc[v] /\ dpc'[v] = dpc[v] /\ dreq'[v] = dreq[v]
        /\ need'[v] = need[v] /\ dval'[v] = dval[v]
    BY <1>1
  <2>3. Told(v)' = Told(v) /\ InLoop(v)' = InLoop(v)
    BY <2>2 DEF Told, InLoop
  <2>4. CallInv(v)' /\ NeedInv(v)'
    BY <2>1, <2>2, <2>3 DEF CallInv, NeedInv
  <2>5. HeldInv(v)'
    <3> SUFFICES ASSUME dpc[v] \in {"reply", "pushhosts"}
                 PROVE  view'[Told(v)][dreq[v][2]] <= dval[v] /\ dval[v] <= served[dreq[v][2]]
      BY <2>2, <2>3 DEF HeldInv
    <3>1. dpc[v] \in Positions \ {"none"} /\ dpc[v] # "push"
      BY DEF Positions
    <3>2. Told(v) \in Conns /\ Told(v) \in InLoop(v)
      BY <3>1, Talking
    <3>3. Told(v) \notin InLoop(w)
      BY <1>1, <2>1, <3>2, OneLoop
    <3>4. view'[Told(v)] = view[Told(v)]
      BY <3>2, <3>3
    <3> QED
      BY <2>1, <3>4 DEF HeldInv
  <2> QED
    BY <2>4, <2>5
<1>2. DataInv'
  BY DEF DnsInv, DataInv
<1> QED
  BY <1>1, <1>2 DEF DnsInv

\* Neither subscriptions nor connections change.
LEMMA SubsSame == ASSUME DnsInv, UNCHANGED <<subs, book, stage, connfd>> PROVE SubsInv' /\ BookExact'
BY DEF DnsInv, SubsInv, BookExact

\* A worker sends the hosts that it holds: the connection, which is of its own
\* loop, is told nothing older than before and nothing newer than is served.
LEMMA Tell ==
  ASSUME DnsInv, NEW w \in Workers, dpc[w] \in {"reply", "pushhosts"},
         view' = [view EXCEPT ![Told(w)][dreq[w][2]] = dval[w]]
  PROVE  /\ view' \in [Conns -> [Mods -> Nat]]
         /\ \A k \in Conns : k \notin InLoop(w) => view'[k] = view[k]
         /\ \A k \in Conns, m \in Mods : view'[k][m] >= view[k][m] /\ view'[k][m] <= served[m]
<1>1. PICK j, n : j = Told(w) /\ n = dreq[w][2]
  OBVIOUS
<1>2. j \in Conns /\ j \in InLoop(w) /\ n \in Mods
  <2>1. dpc[w] \in Positions \ {"none"} /\ dpc[w] # "push"
    BY DEF Positions
  <2> QED
    BY <1>1, <2>1, Talking
<1>3. view[j][n] <= dval[w] /\ dval[w] <= served[n] /\ dval[w] \in Nat
  BY <1>1, CallType DEF DnsInv, HeldInv
<1>4. /\ view' \in [Conns -> [Mods -> Nat]] /\ view'[j][n] = dval[w]
      /\ \A k \in Conns : k # j => view'[k] = view[k]
      /\ \A m \in Mods : m # n => view'[j][m] = view[j][m]
  BY <1>1, <1>2, <1>3, CallType
<1>5. ASSUME NEW k \in Conns, NEW m \in Mods PROVE view'[k][m] >= view[k][m] /\ view'[k][m] <= served[m]
  <2>1. view[k][m] \in Nat /\ view[k][m] <= served[m] /\ served[m] \in Nat
    BY CallType, DataType DEF DnsInv, ViewInv
  <2>2. CASE k = j /\ m = n
    BY <1>3, <1>4, <2>1, <2>2
  <2>3. CASE ~(k = j /\ m = n)
    BY <1>4, <2>1, <2>3, SMT
  <2> QED
    BY <2>2, <2>3
<1> QED
  BY <1>2, <1>4, <1>5

\* A request is dispatched to a live connection of the loop.
LEMMA RequestStep ==
  ASSUME DnsInv, NEW w \in Workers, NEW f \in Fds, NEW m \in Mods, Request(w, f, m)
  PROVE  DnsInv'
<1>1. ServerInv
  BY DEF DnsInv
<1>2. PICK k : k = ioEvs[w][f]
  OBVIOUS
<1>3. /\ dpc[w] = "none" /\ dpc' = [dpc EXCEPT ![w] = "subscribe"] /\ DoRead(w, f)
      /\ dreq' = [dreq EXCEPT ![w] = <<k, m>>] /\ UNCHANGED <<need, dval, view>>
      /\ UNCHANGED dbVars /\ UNCHANGED checkVars /\ UNCHANGED subVars
  BY <1>2 DEF Request, DGoto
<1>4. /\ UNCHANGED <<dbData, served, kpc, kdata, klist>> /\ UNCHANGED <<subs, book, push>>
  BY <1>3 DEF dbVars, checkVars, subVars
<1>5. /\ wpc[w] = "dispatch" /\ f \in fired[w] \ {QueueFd} /\ UNCHANGED <<stage, connfd>> /\ wpc' = wpc
      /\ ioEvs' = ioEvs
  BY <1>3 DEF DoRead, Fires
<1>6. k # None /\ k \in InLoop(w) /\ k \in Conns
  BY <1>1, <1>2, <1>5, HandledOnly DEF ServerInv, DispatchToOwner, InLoop
<1>7. /\ dpc' \in [Workers -> Positions] /\ dpc'[w] = "subscribe"
      /\ dreq' \in [Workers -> {<<>>} \cup ((Conns \cup Fds) \X Mods)] /\ dreq'[w] = <<k, m>>
      /\ \A v \in Workers : v # w => dpc'[v] = dpc[v] /\ dreq'[v] = dreq[v]
  BY <1>3, <1>6, CallType DEF Positions
<1>8. DnsType'
  BY <1>3, <1>4, <1>7 DEF DnsInv, DnsType, Positions
<1>9. CallInv(w)' /\ NeedInv(w)' /\ HeldInv(w)'
  <2>1. Told(w)' = k /\ InLoop(w)' = InLoop(w) /\ dreq'[w][2] = m
    <3>1. dreq'[w][1] = k /\ dreq'[w][2] = m
      BY <1>7, SMT
    <3> QED
      BY <1>5, <1>7, <3>1 DEF Told, InLoop
  <2>2. need[w] = {}
    BY <1>3 DEF DnsInv, NeedInv
  <2> QED
    BY <1>3, <1>5, <1>6, <1>7, <2>1, <2>2 DEF CallInv, NeedInv, HeldInv
<1>10. ViewInv'
  BY <1>3, <1>4 DEF DnsInv, ViewInv
<1>11. ServerInv'
  BY <1>1, <1>3, LoopStep
<1>12. SubsInv' /\ BookExact'
  BY <1>4, <1>5, SubsSame
<1> QED
  BY <1>3, <1>4, <1>5, <1>7, <1>8, <1>9, <1>10, <1>11, <1>12, WorkerActs

\* get_route subscribes the connection.
LEMMA SubscribeStep ==
  ASSUME DnsInv, NEW w \in Workers, Subscribe(w)
  PROVE  DnsInv'
<1>1. PICK k, m, g : k = dreq[w][1] /\ m = dreq[w][2] /\ g = connfd[k]
  OBVIOUS
<1>2. /\ dpc[w] = "subscribe" /\ dpc' = [dpc EXCEPT ![w] = "hosts"]
      /\ subs' = [subs EXCEPT ![k] = @ \cup {m}]
      /\ book' = IF m \in subs[k] THEN book ELSE book \cup {<<m, g>>}
      /\ push' = push /\ UNCHANGED <<dreq, need, dval, view>>
      /\ UNCHANGED dbVars /\ UNCHANGED checkVars /\ UNCHANGED serverVars
  BY <1>1 DEF Subscribe, DGoto
<1>3. UNCHANGED <<dbData, served, kpc, kdata, klist>>
  BY <1>2 DEF dbVars, checkVars
<1>4. ServerInv' /\ UNCHANGED <<stage, connfd, wpc, ioEvs, conns>>
  BY <1>2, ServerStill
<1>5. k \in Conns /\ k \in InLoop(w) /\ m \in Mods /\ stage[k] = "live" /\ g \in Fds /\ Told(w) = k
  <2>1. dpc[w] \in Positions \ {"none"} /\ dpc[w] # "push" /\ Told(w) = k
    BY <1>1, <1>2 DEF Positions, Told
  <2> QED
    BY <1>1, <2>1, Talking
<1>6. /\ subs' \in [Conns -> SUBSET Mods] /\ subs'[k] = subs[k] \cup {m}
      /\ \A j \in Conns : j # k => subs'[j] = subs[j]
  BY <1>2, <1>5, SubType
<1>7. book' \subseteq Mods \X Fds
  BY <1>2, <1>5, SubType, SMT
<1>8. SubsInv'
  BY <1>4, <1>5, <1>6 DEF DnsInv, SubsInv
<1>9. BookExact'
  <2> SUFFICES ASSUME NEW n \in Mods, NEW f \in Fds
               PROVE  <<n, f>> \in book' <=> \E j \in Conns : connfd[j] = f /\ n \in subs'[j]
    BY <1>4 DEF BookExact
  <2>1. <<n, f>> \in book <=> \E j \in Conns : connfd[j] = f /\ n \in subs[j]
    BY DEF DnsInv, BookExact
  <2>2. CASE n = m /\ f = g
    <3>1. connfd[k] = f /\ n \in subs'[k]
      BY <1>1, <1>6, <2>2
    <3>2. <<n, f>> \in book'
      BY <1>1, <1>2, <1>5, <2>1, <2>2
    <3> QED
      BY <1>5, <3>1, <3>2
  <2>3. CASE ~(n = m /\ f = g)
    <3>1. <<n, f>> \in book' <=> <<n, f>> \in book
      BY <1>2, <2>3
    <3>2. \A j \in Conns : connfd[j] = f => (n \in subs'[j] <=> n \in subs[j])
      BY <1>1, <1>6, <2>3
    <3> QED
      BY <2>1, <3>1, <3>2
  <2> QED
    BY <2>2, <2>3
<1>10. /\ dpc' \in [Workers -> Positions] /\ dpc'[w] = "hosts"
       /\ \A v \in Workers : v # w => dpc'[v] = dpc[v]
  BY <1>2, CallType DEF Positions
<1>11. DnsType'
  BY <1>2, <1>3, <1>6, <1>7, <1>10 DEF DnsInv, DnsType, Positions
<1>12. CallInv(w)' /\ NeedInv(w)' /\ HeldInv(w)'
  <2>1. Told(w)' = k /\ InLoop(w)' = InLoop(w)
    BY <1>1, <1>2, <1>4, <1>10 DEF Told, InLoop
  <2>2. need[w] = {} /\ wpc[w] = "dispatch"
    BY <1>2 DEF DnsInv, NeedInv, CallInv
  <2> QED
    BY <1>1, <1>2, <1>4, <1>5, <1>10, <2>1, <2>2 DEF CallInv, NeedInv, HeldInv
<1>13. ViewInv'
  BY <1>2, <1>3 DEF DnsInv, ViewInv
<1> QED
  BY <1>2, <1>3, <1>4, <1>8, <1>9, <1>10, <1>11, <1>12, <1>13, WorkerActs

\* get_route reads the hosts.
LEMMA GetHostsStep ==
  ASSUME DnsInv, NEW w \in Workers, GetHosts(w)
  PROVE  DnsInv'
<1>1. PICK k, m : k = dreq[w][1] /\ m = dreq[w][2]
  OBVIOUS
<1>2. /\ dpc[w] = "hosts" /\ dpc' = [dpc EXCEPT ![w] = "reply"]
      /\ dval' = [dval EXCEPT ![w] = served[m]] /\ UNCHANGED <<dreq, need, view>>
      /\ UNCHANGED dbVars /\ UNCHANGED checkVars /\ UNCHANGED subVars /\ UNCHANGED serverVars
  BY <1>1 DEF GetHosts, DGoto
<1>3. UNCHANGED <<dbData, served, kpc, kdata, klist>> /\ UNCHANGED <<subs, book, push>>
  BY <1>2 DEF dbVars, checkVars, subVars
<1>4. ServerInv' /\ UNCHANGED <<stage, connfd, wpc, ioEvs, conns>>
  BY <1>2, ServerStill
<1>5. k \in Conns /\ k \in InLoop(w) /\ m \in Mods
  <2>1. dpc[w] \in Positions \ {"none"} /\ dpc[w] # "push" /\ Told(w) = k
    BY <1>1, <1>2 DEF Positions, Told
  <2> QED
    BY <1>1, <2>1, Talking
<1>6. /\ dpc' \in [Workers -> Positions] /\ dpc'[w] = "reply"
      /\ dval' \in [Workers -> Nat] /\ dval'[w] = served[m] /\ served[m] \in Nat
      /\ \A v \in Workers : v # w => dpc'[v] = dpc[v] /\ dval'[v] = dval[v]
  BY <1>2, <1>5, CallType, DataType DEF Positions
<1>7. DnsType'
  BY <1>2, <1>3, <1>6 DEF DnsInv, DnsType, Positions
<1>8. CallInv(w)' /\ NeedInv(w)' /\ HeldInv(w)'
  <2>1. Told(w)' = k /\ InLoop(w)' = InLoop(w)
    <3>1. ioEvs' = ioEvs /\ dreq' = dreq /\ dpc'[w] = "reply"
      BY <1>2, <1>4, <1>6
    <3> QED
      BY <1>1, <3>1 DEF Told, InLoop
  <2>2. need[w] = {} /\ wpc[w] = "dispatch"
    BY <1>2 DEF DnsInv, NeedInv, CallInv
  <2>3. view[k][m] <= served[m]
    BY <1>5 DEF DnsInv, ViewInv
  <2>4. HeldInv(w)'
    <3>1. /\ view'[Told(w)'][dreq'[w][2]] = view[k][m] /\ dval'[w] = served[m]
          /\ served'[dreq'[w][2]] = served[m] /\ served[m] <= served[m]
      BY <1>1, <1>2, <1>3, <1>6, <2>1, SMT
    <3> QED
      BY <2>3, <3>1 DEF HeldInv
  <2> QED
    BY <1>1, <1>2, <1>4, <1>5, <1>6, <2>1, <2>2, <2>4 DEF CallInv, NeedInv
<1>9. ViewInv'
  BY <1>2, <1>3 DEF DnsInv, ViewInv
<1>10. SubsInv' /\ BookExact'
  BY <1>3, <1>4, SubsSame
<1> QED
  BY <1>2, <1>3, <1>4, <1>6, <1>7, <1>8, <1>9, <1>10, WorkerActs

\* get_route sends the answer.
LEMMA ReplyStep ==
  ASSUME DnsInv, NEW w \in Workers, Reply(w)
  PROVE  DnsInv'
<1>1. /\ dpc[w] = "reply" /\ dpc' = [dpc EXCEPT ![w] = "none"]
      /\ view' = [view EXCEPT ![dreq[w][1]][dreq[w][2]] = dval[w]]
      /\ dreq' = [dreq EXCEPT ![w] = <<>>] /\ dval' = [dval EXCEPT ![w] = 0] /\ need' = need
      /\ UNCHANGED dbVars /\ UNCHANGED checkVars /\ UNCHANGED subVars /\ UNCHANGED serverVars
  BY DEF Reply, DGoto
<1>2. UNCHANGED <<dbData, served, kpc, kdata, klist>> /\ UNCHANGED <<subs, book, push>>
  BY <1>1 DEF dbVars, checkVars, subVars
<1>3. ServerInv' /\ UNCHANGED <<stage, connfd, wpc, ioEvs, conns>>
  BY <1>1, ServerStill
<1>4. Told(w) = dreq[w][1]
  BY <1>1 DEF Told
<1>5. /\ view' \in [Conns -> [Mods -> Nat]]
      /\ \A k \in Conns : k \notin InLoop(w) => view'[k] = view[k]
      /\ \A k \in Conns, m \in Mods : view'[k][m] <= served[m]
  BY <1>1, <1>4, Tell
<1>6. /\ dpc' \in [Workers -> Positions] /\ dpc'[w] = "none" /\ dval' \in [Workers -> Nat]
      /\ dreq' \in [Workers -> {<<>>} \cup ((Conns \cup Fds) \X Mods)]
      /\ \A v \in Workers : v # w => dpc'[v] = dpc[v] /\ dreq'[v] = dreq[v] /\ dval'[v] = dval[v]
  BY <1>1, CallType DEF Positions
<1>7. DnsType'
  BY <1>1, <1>2, <1>5, <1>6 DEF DnsInv, DnsType, Positions
<1>8. CallInv(w)' /\ NeedInv(w)' /\ HeldInv(w)'
  <2>1. need[w] = {}
    BY <1>1 DEF DnsInv, NeedInv
  <2> QED
    BY <1>1, <1>6, <2>1 DEF CallInv, NeedInv, HeldInv
<1>9. ViewInv'
  BY <1>2, <1>5 DEF ViewInv
<1>10. SubsInv' /\ BookExact'
  BY <1>2, <1>3, SubsSame
<1> QED
  BY <1>1, <1>2, <1>3, <1>5, <1>6, <1>7, <1>8, <1>9, <1>10, WorkerActs

\* make_publish_map takes entries of descriptors of the worker's own loop,
\* however early its loop ends.
LEMMA MakePublishMapStep ==
  ASSUME DnsInv, NEW w \in Workers, MakePublishMap(w)
  PROVE  DnsInv'
<1>1. PICK fds, mine :
        /\ fds \in SUBSET mine /\ mine \subseteq epoll[w]
        /\ need' = [need EXCEPT ![w] = {e \in push : e[1] \in fds}]
        /\ push' = {e \in push : e[1] \notin fds}
  BY DEF MakePublishMap
<1>2. /\ wpc[w] = "run" /\ dpc[w] = "none" /\ dpc' = [dpc EXCEPT ![w] = "push"]
      /\ UNCHANGED <<subs, book, dreq, dval, view>>
      /\ UNCHANGED dbVars /\ UNCHANGED checkVars /\ UNCHANGED serverVars
  BY DEF MakePublishMap, DGoto
<1>3. UNCHANGED <<dbData, served, kpc, kdata, klist>>
  BY <1>2 DEF dbVars, checkVars
<1>4. ServerInv' /\ UNCHANGED <<stage, connfd, wpc, ioEvs, conns>>
  BY <1>2, ServerStill
<1>5. push' \subseteq Fds \X Mods
  BY <1>1, SubType
<1>6. /\ dpc' \in [Workers -> Positions] /\ dpc'[w] = "push"
      /\ need' \in [Workers -> SUBSET (Fds \X Mods)] /\ need'[w] = {e \in push : e[1] \in fds}
      /\ \A v \in Workers : v # w => dpc'[v] = dpc[v] /\ need'[v] = need[v]
  BY <1>1, <1>2, CallType, SubType DEF Positions
<1>7. DnsType'
  BY <1>2, <1>3, <1>5, <1>6 DEF DnsInv, DnsType, Positions
<1>8. CallInv(w)' /\ NeedInv(w)' /\ HeldInv(w)'
  <2>1. \A e \in need'[w] : ioEvs[w][e[1]] # None
    <3>1. \A f \in epoll[w] : ioEvs[w][f] # None
      BY DEF DnsInv, ServerInv, EventInv
    <3>2. \A e \in need'[w] : e[1] \in epoll[w]
      BY <1>1, <1>6
    <3> QED
      BY <3>1, <3>2
  <2> QED
    BY <1>2, <1>4, <1>6, <2>1 DEF CallInv, NeedInv, HeldInv
<1>9. ViewInv'
  BY <1>2, <1>3 DEF DnsInv, ViewInv
<1>10. SubsInv' /\ BookExact'
  BY <1>2, <1>4, SubsSame
<1> QED
  BY <1>2, <1>3, <1>4, <1>6, <1>7, <1>8, <1>9, <1>10, WorkerActs

\* push_change_task reads the hosts for an entry.
LEMMA PushGetHostsStep ==
  ASSUME DnsInv, NEW w \in Workers, NEW f \in Fds, NEW m \in Mods, PushGetHosts(w, f, m)
  PROVE  DnsInv'
<1>1. /\ dpc[w] = "push" /\ dpc' = [dpc EXCEPT ![w] = "pushhosts"] /\ <<f, m>> \in need[w]
      /\ dreq' = [dreq EXCEPT ![w] = <<f, m>>] /\ dval' = [dval EXCEPT ![w] = served[m]]
      /\ UNCHANGED <<need, view>>
      /\ UNCHANGED dbVars /\ UNCHANGED checkVars /\ UNCHANGED subVars /\ UNCHANGED serverVars
  BY DEF PushGetHosts, DGoto
<1>2. UNCHANGED <<dbData, served, kpc, kdata, klist>> /\ UNCHANGED <<subs, book, push>>
  BY <1>1 DEF dbVars, checkVars, subVars
<1>3. ServerInv' /\ UNCHANGED <<stage, connfd, wpc, ioEvs, conns>>
  BY <1>1, ServerStill
<1>4. PICK k : k = ioEvs[w][f]
  OBVIOUS
<1>5. k \in Conns /\ k \in InLoop(w) /\ wpc[w] = "run"
  <2>1. PICK e : e = <<f, m>>
    OBVIOUS
  <2>2. e \in need[w] /\ e[1] = f
    BY <1>1, <2>1
  <2> QED
    BY <1>4, <2>2, Pushing
<1>6. /\ dpc' \in [Workers -> Positions] /\ dpc'[w] = "pushhosts"
      /\ dreq' \in [Workers -> {<<>>} \cup ((Conns \cup Fds) \X Mods)] /\ dreq'[w] = <<f, m>>
      /\ dval' \in [Workers -> Nat] /\ dval'[w] = served[m] /\ served[m] \in Nat
      /\ \A v \in Workers : v # w => dpc'[v] = dpc[v] /\ dreq'[v] = dreq[v] /\ dval'[v] = dval[v]
  BY <1>1, CallType, DataType DEF Positions
<1>7. DnsType'
  BY <1>1, <1>2, <1>6 DEF DnsInv, DnsType, Positions
<1>8. Told(w)' = k /\ InLoop(w)' = InLoop(w) /\ dreq'[w][2] = m
  <2>1. dreq'[w][1] = f /\ dreq'[w][2] = m
    BY <1>6, SMT
  <2> QED
    BY <1>3, <1>4, <1>6, <2>1 DEF Told, InLoop
<1>9. CallInv(w)'
  BY <1>1, <1>3, <1>5, <1>6, <1>8 DEF CallInv
<1>10. NeedInv(w)'
  BY <1>1, <1>3, <1>6 DEF DnsInv, NeedInv
<1>11. HeldInv(w)'
  <2>1. view[k][m] <= served[m]
    BY <1>5 DEF DnsInv, ViewInv
  <2>2. /\ view'[Told(w)'][dreq'[w][2]] = view[k][m] /\ dval'[w] = served[m]
        /\ served'[dreq'[w][2]] = served[m]
    BY <1>1, <1>2, <1>6, <1>8
  <2>3. served[m] <= served[m]
    BY <1>6, SMT
  <2> QED
    BY <2>1, <2>2, <2>3 DEF HeldInv
<1>12. ViewInv'
  BY <1>1, <1>2 DEF DnsInv, ViewInv
<1>13. SubsInv' /\ BookExact'
  BY <1>2, <1>3, SubsSame
<1> QED
  BY <1>1, <1>2, <1>3, <1>6, <1>7, <1>9, <1>10, <1>11, <1>12, <1>13, WorkerActs

\* What push_change_task sends: to the connection of its own loop, or nothing
\* when the array has no slot for the descriptor.
LEMMA PushTells ==
  ASSUME DnsInv, NEW w \in Workers, PushSend(w)
  PROVE  \/ view' = view
         \/ view' = [view EXCEPT ![Told(w)][dreq[w][2]] = dval[w]]
<1>1. PICK f, m : f = dreq[w][1] /\ m = dreq[w][2]
  OBVIOUS
<1>2. /\ dpc[w] = "pushhosts"
      /\ view' = IF f \in Slots /\ conns[f] \in Conns THEN [view EXCEPT ![conns[f]][m] = dval[w]] ELSE view
  BY <1>1 DEF PushSend, DGoto
<1>3. dreq[w] \in need[w] /\ Told(w) = ioEvs[w][f]
  BY <1>1, <1>2 DEF DnsInv, CallInv, Told
<1>4. f \in Slots => conns[f] = Told(w)
  BY <1>1, <1>3, Pushing
<1> QED
  BY <1>1, <1>2, <1>4

\* push_change_task sends.
LEMMA PushSendStep ==
  ASSUME DnsInv, NEW w \in Workers, PushSend(w)
  PROVE  DnsInv'
<1>1. /\ dpc[w] = "pushhosts" /\ dpc' = [dpc EXCEPT ![w] = "push"]
      /\ \E e : need' = [need EXCEPT ![w] = @ \ {e}]
      /\ dreq' = [dreq EXCEPT ![w] = <<>>] /\ dval' = [dval EXCEPT ![w] = 0]
      /\ UNCHANGED dbVars /\ UNCHANGED checkVars /\ UNCHANGED subVars /\ UNCHANGED serverVars
  BY DEF PushSend, DGoto
<1>2. UNCHANGED <<dbData, served, kpc, kdata, klist>> /\ UNCHANGED <<subs, book, push>>
  BY <1>1 DEF dbVars, checkVars, subVars
<1>3. ServerInv' /\ UNCHANGED <<stage, connfd, wpc, ioEvs, conns>>
  BY <1>1, ServerStill
<1>4. /\ view' \in [Conns -> [Mods -> Nat]]
      /\ \A k \in Conns : k \notin InLoop(w) => view'[k] = view[k]
      /\ \A k \in Conns, m \in Mods : view'[k][m] <= served[m]
  <2>1. CASE view' = view
    BY <2>1, CallType DEF DnsInv, ViewInv
  <2>2. CASE view' = [view EXCEPT ![Told(w)][dreq[w][2]] = dval[w]]
    BY <1>1, <2>2, Tell
  <2> QED
    BY <2>1, <2>2, PushTells
<1>5. /\ dpc' \in [Workers -> Positions] /\ dpc'[w] = "push" /\ dval' \in [Workers -> Nat]
      /\ dreq' \in [Workers -> {<<>>} \cup ((Conns \cup Fds) \X Mods)]
      /\ \A v \in Workers : v # w => dpc'[v] = dpc[v] /\ dreq'[v] = dreq[v] /\ dval'[v] = dval[v]
  BY <1>1, CallType DEF Positions
<1>6. /\ need' \in [Workers -> SUBSET (Fds \X Mods)] /\ need'[w] \subseteq need[w]
      /\ \A v \in Workers : v # w => need'[v] = need[v]
  BY <1>1, CallType, SMT
<1>7. DnsType'
  BY <1>2, <1>4, <1>5, <1>6 DEF DnsInv, DnsType, Positions
<1>8. CallInv(w)' /\ NeedInv(w)' /\ HeldInv(w)'
  <2>1. wpc[w] = "run" /\ \A e \in need[w] : ioEvs[w][e[1]] # None
    BY <1>1 DEF DnsInv, NeedInv, CallInv
  <2> QED
    BY <1>3, <1>5, <1>6, <2>1 DEF CallInv, NeedInv, HeldInv
<1>9. ViewInv'
  BY <1>2, <1>4 DEF ViewInv
<1>10. SubsInv' /\ BookExact'
  BY <1>2, <1>3, SubsSame
<1> QED
  BY <1>2, <1>3, <1>4, <1>5, <1>6, <1>7, <1>8, <1>9, <1>10, WorkerActs

\* push_change_task returns with nothing left to push.
LEMMA PushDoneStep ==
  ASSUME DnsInv, NEW w \in Workers, PushDone(w)
  PROVE  DnsInv'
<1>1. /\ dpc[w] = "push" /\ dpc' = [dpc EXCEPT ![w] = "none"] /\ need[w] = {} /\ RunTask(w)
      /\ UNCHANGED <<dreq, need, dval, view>>
      /\ UNCHANGED dbVars /\ UNCHANGED checkVars /\ UNCHANGED subVars
  BY DEF PushDone, DGoto
<1>2. UNCHANGED <<dbData, served, kpc, kdata, klist>> /\ UNCHANGED <<subs, book, push>>
  BY <1>1 DEF dbVars, checkVars, subVars
<1>3. ServerInv
  BY DEF DnsInv
<1>4. ServerInv' /\ OthersStay(w) /\ ioEvs' = ioEvs /\ stage' = stage /\ connfd' = connfd
  BY <1>1, <1>3, LoopStep, LoopLocal
<1>5. /\ dpc' \in [Workers -> Positions] /\ dpc'[w] = "none"
      /\ \A v \in Workers : v # w => dpc'[v] = dpc[v]
  BY <1>1, CallType DEF Positions
<1>6. DnsType'
  BY <1>1, <1>2, <1>5 DEF DnsInv, DnsType, Positions
<1>7. CallInv(w)' /\ NeedInv(w)' /\ HeldInv(w)'
  BY <1>1, <1>5 DEF CallInv, NeedInv, HeldInv
<1>8. ViewInv'
  BY <1>1, <1>2 DEF DnsInv, ViewInv
<1>9. SubsInv' /\ BookExact'
  BY <1>2, <1>4, SubsSame
<1>10. \A v \in Workers : v # w => wpc'[v] = wpc[v]
  BY <1>4 DEF OthersStay
<1> QED
  BY <1>1, <1>2, <1>4, <1>5, <1>6, <1>7, <1>8, <1>9, <1>10, WorkerActs

\* unsubscribe(mod, fd) in clear_subscribe: the descriptor is this connection's
\* and no other's, so no other subscription goes with it.
LEMMA UnsubscribeStep ==
  ASSUME DnsInv, NEW w \in Workers, NEW m \in Mods, Unsubscribe(w, m)
  PROVE  DnsInv'
<1>1. PICK k, g : k = wconn[w] /\ g = connfd[k]
  OBVIOUS
<1>2. /\ wpc[w] = "closecb" /\ subs' = [subs EXCEPT ![k] = @ \ {m}] /\ book' = book \ {<<m, g>>}
      /\ push' = push /\ UNCHANGED dbVars /\ UNCHANGED checkVars /\ UNCHANGED callVars
      /\ UNCHANGED serverVars
  BY <1>1 DEF Unsubscribe
<1>3. UNCHANGED <<dbData, served, kpc, kdata, klist>> /\ UNCHANGED <<dpc, dreq, need, dval, view>>
  BY <1>2 DEF dbVars, checkVars, callVars
<1>4. ServerInv' /\ UNCHANGED <<stage, connfd, wpc, ioEvs, conns>>
  BY <1>2, ServerStill
<1>5. ServerInv /\ Busy(w)
  BY <1>2 DEF DnsInv, Busy, BusyPcs
<1>6. k \in Conns /\ stage[k] = "closing"
  BY <1>1, <1>2, <1>5, BusyWith DEF AtStage
<1>7. /\ subs' \in [Conns -> SUBSET Mods] /\ subs'[k] = subs[k] \ {m}
      /\ \A j \in Conns : j # k => subs'[j] = subs[j]
  BY <1>2, <1>6, SubType
<1>8. book' \subseteq Mods \X Fds
  BY <1>2, SubType
<1>9. SubsInv'
  BY <1>4, <1>6, <1>7 DEF DnsInv, SubsInv
<1>10. BookExact'
  <2> SUFFICES ASSUME NEW n \in Mods, NEW f \in Fds
               PROVE  <<n, f>> \in book' <=> \E j \in Conns : connfd[j] = f /\ n \in subs'[j]
    BY <1>4 DEF BookExact
  <2>1. <<n, f>> \in book <=> \E j \in Conns : connfd[j] = f /\ n \in subs[j]
    BY DEF DnsInv, BookExact
  <2>2. CASE n = m /\ f = g
    <3>1. <<n, f>> \notin book'
      BY <1>2, <2>2
    <3>2. ASSUME NEW j \in Conns, connfd[j] = f PROVE n \notin subs'[j]
      <4>1. j = k
        BY <1>1, <1>5, <1>6, <2>2, <3>2, OneConnPerFd DEF HoldsFd
      <4> QED
        BY <1>7, <2>2, <4>1
    <3> QED
      BY <3>1, <3>2
  <2>3. CASE ~(n = m /\ f = g)
    <3>1. <<n, f>> \in book' <=> <<n, f>> \in book
      BY <1>2, <2>3
    <3>2. \A j \in Conns : connfd[j] = f => (n \in subs'[j] <=> n \in subs[j])
      BY <1>1, <1>7, <2>3
    <3> QED
      BY <2>1, <3>1, <3>2
  <2> QED
    BY <2>2, <2>3
<1>11. DnsType'
  BY <1>2, <1>3, <1>7, <1>8 DEF DnsInv, DnsType
<1>12. CallInv(w)' /\ NeedInv(w)' /\ HeldInv(w)'
  <2>1. dpc[w] = "none" /\ need[w] = {}
    BY <1>5, BusyNotCalling DEF DnsInv, NeedInv
  <2> QED
    BY <1>3, <2>1 DEF CallInv, NeedInv, HeldInv
<1>13. ViewInv'
  BY <1>3 DEF DnsInv, ViewInv
<1> QED
  BY <1>3, <1>4, <1>9, <1>10, <1>11, <1>12, <1>13, WorkerActs

-----------------------------------------------------------------------------
(* The steps of the server that pick a descriptor or count connections,    *)
(* and what follows for the service                                        *)

INSTANCE FiniteSetTheorems

\* Free descriptors have a lowest one.
LEMMA Lowest ==
  ASSUME NEW T \in SUBSET Nat, T # {}
  PROVE  \E x \in T : \A y \in T : x <= y
<1> DEFINE R == OpToRel(<, Nat)
<1>1. IsWellFoundedOn(R, Nat)
  BY NatLessThanWellFounded
<1>2. \A a, b \in Nat : a < b => <<a, b>> \in R
  BY DEF OpToRel
<1> HIDE DEF R
<1>3. PICK x \in T : \A y \in T : ~(<<y, x>> \in R)
  BY <1>1, WFMin
<1>4. ASSUME NEW y \in T PROVE x <= y
  <2>1. x \in Nat /\ y \in Nat
    OBVIOUS
  <2>2. ~(y < x)
    BY <1>2, <1>3, <2>1
  <2> QED
    BY <2>1, <2>2, SMT
<1> QED
  BY <1>4

\* The counted connections are finitely many.
LEMMA CountedFinite == IsFiniteSet(Conns) /\ \A S \in SUBSET Conns : IsFiniteSet(S)
<1>1. IsFiniteSet(1..MaxAccepts)
  BY FS_Interval, TcpAssumption, SMT
<1> QED
  BY <1>1, FS_Subset DEF Conns

\* The server's initial state satisfies the invariant.
LEMMA ServerInit == Init => ServerInv
<1> SUFFICES ASSUME Init PROVE ServerInv
  OBVIOUS
<1>1. ServerType
  BY TcpAssumption, SMT DEF Init, ServerType, Stages
<1>2. SocketInv
  BY DEF Init, SocketInv, HoldsFd
<1>3. BacklogInv
  BY SMTT(20) DEF Init, BacklogInv
<1>4. PendingInv
  <2>1. \A w \in Workers : pending[w] = <<>>
    BY SMT DEF Init, pending
  <2>2. \A w \in Workers : batch[w] = <<>>
    BY DEF Init
  <2> QED
    BY <2>1, <2>2, SMTT(20) DEF PendingInv, QueuedOnce
<1>5. WorkerInv
  BY DEF Init, WorkerInv, Busy, BusyPcs
<1>6. EventInv
  BY DEF Init, EventInv
<1>7. SlotInv
  BY TcpAssumption, SMT DEF Init, SlotInv, Junk, Conns
<1>8. TableExact
  <2>1. Counted = {}
    BY DEF Init, Counted
  <2>2. \A i \in Slots : conns[i] \notin Conns
    BY TcpAssumption, SMT DEF Init, Junk, Conns
  <2> QED
    BY <2>1, <2>2, FS_EmptySet DEF Init, TableExact
<1>9. DispatchToOwner
  BY DEF Init, DispatchToOwner
<1> QED
  BY <1>1, <1>2, <1>3, <1>4, <1>5, <1>6, <1>7, <1>8, <1>9 DEF ServerInv

\* accept() takes the first connection of listen's queue and gives it the lowest
\* free descriptor.
LEMMA AcceptStep ==
  ASSUME ServerInv, Accept
  PROVE  ServerInv'
<1>1. PICK k, f :
        /\ k = Head(backlog) /\ f = CHOOSE d \in FreeFds : \A g \in FreeFds : d <= g
        /\ stage' = [stage EXCEPT ![k] = "accepted"]
        /\ connfd' = [connfd EXCEPT ![k] = f] /\ sock' = [sock EXCEPT ![f] = k]
  BY DEF Accept
<1>2. /\ backlog # <<>> /\ FreeFds # {} /\ backlog' = Tail(backlog)
      /\ UNCHANGED <<queue, index, bpos>> /\ UNCHANGED <<loopVars, tableVars>>
  BY DEF Accept, workerVars, bcastVars, loopVars
<1>3. f \in FreeFds
  <2>1. FreeFds \in SUBSET Nat
    BY TcpAssumption DEF FreeFds
  <2> QED
    BY <1>1, <1>2, <2>1, Lowest
<1>4. f \in Fds /\ sock[f] = None
  BY <1>3 DEF FreeFds
<1>5. /\ k \in Conns /\ k = backlog[1] /\ Len(backlog) \in Nat \ {0}
      /\ backlog' \in Seq(Conns) /\ Len(backlog') = Len(backlog) - 1
      /\ \A i \in 1..Len(backlog') : backlog'[i] = backlog[i + 1]
  BY <1>1, <1>2, StageType, SMTT(20)
<1>6. stage[k] = "backlog"
  BY <1>5, SMT DEF ServerInv, BacklogInv
<1>7. /\ stage' \in [Conns -> Stages] /\ connfd' \in [Conns -> Fds \cup {None}]
      /\ sock' \in [Fds -> Conns \cup {None}]
      /\ stage'[k] = "accepted" /\ connfd'[k] = f /\ sock'[f] = k
      /\ \A j \in Conns : j # k => stage'[j] = stage[j] /\ connfd'[j] = connfd[j]
      /\ \A g \in Fds : g # f => sock'[g] = sock[g]
  BY <1>1, <1>4, <1>5, StageType DEF Stages
<1>8. SocketInv'
  <2>1. ASSUME NEW j \in Conns, j # k
        PROVE  IF stage'[j] \in HoldsFd THEN connfd'[j] \in Fds /\ sock'[connfd'[j]] = j
                                        ELSE connfd'[j] = None
    <3>1. IF stage[j] \in HoldsFd THEN connfd[j] \in Fds /\ sock[connfd[j]] = j
                                  ELSE connfd[j] = None
      BY DEF ServerInv, SocketInv
    <3>2. stage[j] \in HoldsFd => connfd[j] # f
      BY <1>4, <3>1, Apart
    <3> QED
      BY <1>7, <2>1, <3>1, <3>2
  <2>2. stage'[k] \in HoldsFd /\ connfd'[k] \in Fds /\ sock'[connfd'[k]] = k
    BY <1>4, <1>7 DEF HoldsFd
  <2> QED
    BY <2>1, <2>2 DEF SocketInv
<1>9. WorkerInv' /\ EventInv' /\ SlotInv' /\ TableExact' /\ DispatchToOwner'
  BY <1>1, <1>2, <1>5, <1>6, <1>7, <1>8, NotYetHandled
<1>10. BacklogInv'
  <2>1. ASSUME NEW i \in 1..Len(backlog')
        PROVE  /\ i + 1 \in 1..Len(backlog) /\ backlog'[i] = backlog[i + 1]
               /\ backlog'[i] \in Conns /\ backlog'[i] # k
    <3>1. /\ i + 1 \in 1..Len(backlog) /\ backlog'[i] = backlog[i + 1]
          /\ 1 \in 1..Len(backlog) /\ i + 1 # 1
      BY <1>5, SMT
    <3>2. backlog[i + 1] \in Conns
      BY <3>1, StageType, SMT
    <3>3. backlog[i + 1] # backlog[1]
      BY <3>1 DEF ServerInv, BacklogInv
    <3> QED
      BY <1>5, <3>1, <3>2, <3>3
  <2>2. ASSUME NEW i \in 1..Len(backlog') PROVE stage'[backlog'[i]] = "backlog"
    BY <1>7, <2>1, SMTT(20) DEF ServerInv, BacklogInv
  <2>3. ASSUME NEW i \in 1..Len(backlog'), NEW j \in 1..Len(backlog'), backlog'[i] = backlog'[j]
        PROVE  i = j
    <3>1. i + 1 = j + 1
      BY <2>1, <2>3 DEF ServerInv, BacklogInv
    <3> QED
      BY <3>1, SMT
  <2> QED
    BY <2>2, <2>3 DEF BacklogInv
<1>11. PendingInv'
  <2>1. wpc' = wpc /\ batch' = batch
    BY <1>2 DEF loopVars
  <2>2. \A w \in Workers : batch[w] # <<>> => wpc'[w] \in {"tasks", "start", "increase"}
    BY <2>1 DEF ServerInv, PendingInv
  <2>3. \A j \in Conns : stage[j] = "queued" => stage'[j] = "queued"
    BY <1>6, <1>7
  <2> QED
    BY <1>2, <1>7, <2>1, <2>2, <2>3, PendingKept
<1>12. ServerType'
  BY <1>2, <1>5, <1>7 DEF ServerInv, ServerType, loopVars, tableVars
<1> QED
  BY <1>8, <1>9, <1>10, <1>11, <1>12 DEF ServerInv

\* increase_conn: the slot of the descriptor is free of other connections.
LEMMA IncreaseStep ==
  ASSUME ServerInv, NEW w \in Workers, Increase(w)
  PROVE  ServerInv'
<1>1. PICK k, f : k = wconn[w] /\ f = connfd[k]
  OBVIOUS
<1>2. /\ wpc[w] = "increase" /\ wpc' = [wpc EXCEPT ![w] = "tasks"]
      /\ conns' = [conns EXCEPT ![f] = k] /\ curConns' = curConns + 1
      /\ stage' = [stage EXCEPT ![k] = "live"] /\ wconn' = [wconn EXCEPT ![w] = None]
      /\ UNCHANGED <<connfd, sock, backlog, queue, batch, fired, ioEvs, epoll, index, bpos>>
  BY <1>1 DEF Increase, acceptVars, taskVars, bcastVars
<1>3. Busy(w)
  BY <1>2 DEF Busy, BusyPcs
<1>4. k \in Conns /\ stage[k] = "started" /\ f \in Fds
  BY <1>1, <1>2, <1>3, BusyWith DEF AtStage
<1>5. stage' \in [Conns -> Stages] /\ stage'[k] = "live" /\ \A j \in Conns : j # k => stage'[j] = stage[j]
  BY <1>2, <1>4, StageType DEF Stages
<1>6. Counted' = Counted \cup {k} /\ k \notin Counted
  BY <1>4, <1>5 DEF Counted
<1>7. /\ conns' \in [Slots -> Conns \cup {None, Junk}]
      /\ f \in Slots => conns'[f] = k
      /\ \A i \in Slots : i # f => conns'[i] = conns[i]
  BY <1>2, <1>4, TableType
<1>8. ASSUME NEW j \in Conns, j # k, stage[j] \in HoldsFd PROVE connfd[j] # f
  BY <1>1, <1>4, <1>8, OneConnPerFd
<1>9. SlotInv'
  BY <1>1, <1>2, <1>7 DEF ServerInv, SlotInv
<1>10. TableExact'
  <2>1. ASSUME NEW j \in Counted', connfd'[j] \in Slots PROVE conns'[connfd'[j]] = j
    <3>1. CASE j = k
      BY <1>1, <1>2, <1>7, <2>1, <3>1
    <3>2. CASE j # k
      <4>1. j \in Counted /\ j \in Conns /\ stage[j] \in HoldsFd
        BY <1>6, <3>2 DEF Counted, HoldsFd
      <4>2. connfd[j] # f /\ connfd'[j] = connfd[j]
        BY <1>2, <1>8, <3>2, <4>1
      <4>3. conns[connfd[j]] = j
        BY <2>1, <4>1, <4>2 DEF ServerInv, TableExact
      <4> QED
        BY <1>7, <2>1, <4>2, <4>3
    <3> QED
      BY <3>1, <3>2
  <2>2. ASSUME NEW i \in Slots, conns'[i] \in Conns PROVE conns'[i] \in Counted'
    BY <1>6, <1>7, <2>2 DEF ServerInv, TableExact
  <2>3. curConns' = Cardinality(Counted')
    <3>1. IsFiniteSet(Counted)
      BY CountedFinite DEF Counted
    <3>2. Cardinality(Counted \cup {k}) = Cardinality(Counted) + 1
      BY <1>6, <3>1, FS_AddElement
    <3>3. curConns = Cardinality(Counted)
      BY DEF ServerInv, TableExact
    <3> QED
      BY <1>2, <1>6, <3>2, <3>3
  <2> QED
    BY <2>1, <2>2, <2>3 DEF TableExact
<1>11. /\ wconn' \in [Workers -> Conns \cup {None}]
       /\ \A v \in Workers : v # w => wconn'[v] = wconn[v]
       /\ "live" \in Handled /\ "tasks" \in WorkerPcs /\ "tasks" \notin BusyPcs
  BY <1>2, LoopType DEF Handled, WorkerPcs, BusyPcs
<1> QED
  BY <1>1, <1>2, <1>3, <1>7, <1>9, <1>10, <1>11, BusyStep

\* decrease_conn: the slot that is cleared holds this very connection.
LEMMA DecreaseStep ==
  ASSUME ServerInv, NEW w \in Workers, Decrease(w)
  PROVE  ServerInv'
<1>1. PICK k, f : k = wconn[w] /\ f = connfd[k]
  OBVIOUS
<1>2. /\ wpc[w] = "decrease" /\ wpc' = [wpc EXCEPT ![w] = "del"]
      /\ conns' = [conns EXCEPT ![f] = None] /\ curConns' = curConns - 1
      /\ stage' = [stage EXCEPT ![k] = "uncounted"] /\ wconn' = wconn
      /\ UNCHANGED <<connfd, sock, backlog, queue, batch, fired, ioEvs, epoll, index, bpos>>
  BY <1>1 DEF Decrease, acceptVars, taskVars, bcastVars
<1>3. Busy(w)
  BY <1>2 DEF Busy, BusyPcs
<1>4. k \in Conns /\ stage[k] = "hooked" /\ f \in Fds
  BY <1>1, <1>2, <1>3, BusyWith DEF AtStage
<1>5. stage' \in [Conns -> Stages] /\ stage'[k] = "uncounted" /\ \A j \in Conns : j # k => stage'[j] = stage[j]
  BY <1>2, <1>4, StageType DEF Stages
<1>6. Counted' = Counted \ {k} /\ k \in Counted
  BY <1>4, <1>5 DEF Counted
<1>7. /\ conns' \in [Slots -> Conns \cup {None, Junk}]
      /\ f \in Slots => conns'[f] = None
      /\ \A i \in Slots : i # f => conns'[i] = conns[i]
  BY <1>2, TableType
<1>8. SlotInv'
  BY <1>2, <1>7, Apart DEF ServerInv, SlotInv
<1>9. TableExact'
  <2>1. ASSUME NEW j \in Counted', connfd'[j] \in Slots PROVE conns'[connfd'[j]] = j
    <3>1. j # k /\ j \in Counted /\ j \in Conns /\ stage[j] \in HoldsFd
      BY <1>6 DEF Counted, HoldsFd
    <3>2. connfd[j] # f /\ connfd'[j] = connfd[j]
      BY <1>1, <1>2, <1>4, <3>1, OneConnPerFd
    <3>3. conns[connfd[j]] = j
      BY <2>1, <3>1, <3>2 DEF ServerInv, TableExact
    <3> QED
      BY <1>7, <2>1, <3>2, <3>3
  <2>2. ASSUME NEW i \in Slots, conns'[i] \in Conns PROVE conns'[i] \in Counted'
    <3>1. i # f /\ conns'[i] = conns[i] /\ conns[i] \in Conns
      BY <1>7, <2>2, Apart
    <3>2. conns[i] \in Counted /\ connfd[conns[i]] = i
      BY <3>1 DEF ServerInv, TableExact, SlotInv
    <3>3. conns[i] # k
      BY <1>1, <3>1, <3>2
    <3> QED
      BY <1>6, <3>1, <3>2, <3>3
  <2>3. curConns' = Cardinality(Counted')
    <3>1. IsFiniteSet(Counted)
      BY CountedFinite DEF Counted
    <3>2. Cardinality(Counted \ {k}) = Cardinality(Counted) - 1
      BY <1>6, <3>1, FS_RemoveElement
    <3>3. curConns = Cardinality(Counted)
      BY DEF ServerInv, TableExact
    <3> QED
      BY <1>2, <1>6, <3>2, <3>3
  <2> QED
    BY <2>1, <2>2, <2>3 DEF TableExact
<1>10. /\ wconn' \in [Workers -> Conns \cup {None}] /\ wconn'[w] = k
       /\ \A v \in Workers : v # w => wconn'[v] = wconn[v]
       /\ "uncounted" \in Handled /\ "del" \in WorkerPcs /\ "del" \in BusyPcs \ {"close"}
       /\ AtStage("del", "uncounted")
  BY <1>1, <1>2, LoopType DEF Handled, WorkerPcs, BusyPcs, AtStage
<1> QED
  BY <1>1, <1>2, <1>3, <1>7, <1>8, <1>9, <1>10, BusyStep

\* Every step of the server keeps the invariant.
LEMMA ServerNext == ServerInv /\ [Next]_serverVars => ServerInv'
<1> SUFFICES ASSUME ServerInv, [Next]_serverVars PROVE ServerInv'
  OBVIOUS
<1>1. CASE Acceptor
  <2>1. CASE AcceptWakeup \/ GetConnNum
    BY <2>1, QuietStep
  <2>2. CASE Accept
    BY <2>2, AcceptStep
  <2>3. ASSUME NEW k \in Conns, Refuse(k) PROVE ServerInv'
    BY <2>3, RefuseStep
  <2>4. ASSUME NEW k \in Conns, HandOver(k) PROVE ServerInv'
    BY <2>4, HandOverStep
  <2> QED
    BY <1>1, <2>1, <2>2, <2>3, <2>4 DEF Acceptor
<1>2. CASE BroadcastBegin \/ UNCHANGED serverVars
  BY <1>2, QuietStep
<1>3. CASE SendTask
  BY <1>3, SendTaskStep
<1>4. ASSUME NEW w \in Workers, Worker(w) PROVE ServerInv'
  <2>1. CASE EpollWait(w)
    BY <2>1, EpollWaitStep
  <2>2. CASE DispatchDone(w) \/ TasksDone(w) \/ RunTask(w) \/ \E f \in Fds : DoRead(w, f)
    BY <2>2, LoopStep
  <2>3. CASE RecvTasks(w)
    BY <2>3, RecvTasksStep
  <2>4. CASE AddTask(w)
    BY <2>4, AddTaskStep
  <2>5. CASE Construct(w)
    BY <2>5, ConstructStep
  <2>6. CASE StartCb(w) \/ CloseCb(w)
    BY <2>6, HookStep
  <2>7. CASE Increase(w)
    BY <2>7, IncreaseStep
  <2>8. ASSUME NEW f \in Fds, CleanConn(w, f) PROVE ServerInv'
    BY <2>8, CleanConnStep
  <2>9. CASE Decrease(w)
    BY <2>9, DecreaseStep
  <2>10. CASE DelEvent(w)
    BY <2>10, DelEventStep
  <2>11. CASE CloseFd(w)
    BY <2>11, CloseFdStep
  <2> QED
    BY <1>4, <2>1, <2>2, <2>3, <2>4, <2>5, <2>6, <2>7, <2>8, <2>9, <2>10, <2>11 DEF Worker
<1>5. ASSUME NEW k \in Conns, Client(k) PROVE ServerInv'
  BY <1>5, ConnectStep, QuietStep DEF Client
<1> QED
  BY <1>1, <1>2, <1>3, <1>4, <1>5 DEF Next

\* The initial state satisfies the invariant.
LEMMA DnsInitInv == DnsInit => DnsInv
<1> SUFFICES ASSUME DnsInit PROVE DnsInv
  OBVIOUS
<1>1. ServerInv
  BY ServerInit DEF DnsInit
<1>2. DnsType
  BY DEF DnsInit, DnsType
<1>3. DataInv /\ SubsInv /\ BookExact
  BY SMT DEF DnsInit, DataInv, SubsInv, BookExact
<1>4. ASSUME NEW w \in Workers PROVE CallInv(w) /\ NeedInv(w) /\ HeldInv(w)
  BY DEF DnsInit, CallInv, NeedInv, HeldInv
<1>5. ViewInv
  BY SMT DEF DnsInit, ViewInv
<1> QED
  BY <1>1, <1>2, <1>3, <1>4, <1>5 DEF DnsInv

\* The steps of the event loop that the service takes no part in.
LEMMA ServerStepInv ==
  ASSUME DnsInv, NEW w \in Workers, ServerStep(w)
  PROVE  DnsInv'
<1>1. ServerInv
  BY DEF DnsInv
<1>2. dpc[w] = "none" /\ UNCHANGED dnsVars
  BY DEF ServerStep
<1>3. ServerInv' /\ SubscribersStay /\ OthersStay(w)
  <2>1. CASE EpollWait(w)
    BY <1>1, <2>1, EpollWaitStep, LoopLocal
  <2>2. CASE DispatchDone(w) \/ TasksDone(w)
    BY <1>1, <2>2, LoopStep, LoopLocal
  <2>3. CASE RecvTasks(w)
    BY <1>1, <2>3, RecvTasksStep, LoopLocal
  <2>4. CASE AddTask(w)
    BY <1>1, <2>4, AddTaskStep, LoopLocal
  <2>5. CASE Construct(w)
    BY <1>1, <2>5, ConstructStep, ConstructLocal
  <2>6. CASE Increase(w)
    BY <1>1, <2>6, IncreaseStep, CleanUpLocal
  <2>7. ASSUME NEW f \in Fds, CleanConn(w, f) PROVE ServerInv' /\ SubscribersStay /\ OthersStay(w)
    BY <1>1, <2>7, CleanConnStep, CleanConnLocal
  <2>8. CASE Decrease(w)
    BY <1>1, <2>8, DecreaseStep, CleanUpLocal
  <2>9. CASE DelEvent(w)
    BY <1>1, <2>9, DelEventStep, CleanUpLocal
  <2>10. CASE CloseFd(w)
    BY <1>1, <2>10, CloseFdStep, CleanUpLocal
  <2> QED
    BY <2>1, <2>2, <2>3, <2>4, <2>5, <2>6, <2>7, <2>8, <2>9, <2>10 DEF ServerStep
<1>4. \A v \in Workers : dpc[v] # "none" => wpc'[v] = wpc[v] /\ ioEvs'[v] = ioEvs[v]
  BY <1>2, <1>3 DEF OthersStay
<1> QED
  BY <1>2, <1>3, <1>4, SubscribersKept, ServerAlone

\* The main thread and the clients.
LEMMA AcceptorInv ==
  ASSUME DnsInv, Acceptor \/ (\E k \in Conns : Client(k)), UNCHANGED dnsVars
  PROVE  DnsInv'
<1>1. ServerInv
  BY DEF DnsInv
<1>2. ServerInv'
  BY <1>1, ServerNext DEF Next
<1>3. SubscribersStay /\ UNCHANGED <<wpc, ioEvs>>
  BY <1>1, AcceptLocal
<1> QED
  BY <1>2, <1>3, SubscribersKept, ServerAlone

-----------------------------------------------------------------------------
(* The theorems about the server *)

\* The inductive invariant holds in every state of the server, for any number of
\* workers, descriptors, connections and broadcasts.
THEOREM ServerInvariance == Spec => []ServerInv
BY ServerInit, ServerNext, PTL DEF Spec

\* increase_conn and decrease_conn keep conns[] and cur_conns exact: a counted
\* connection is in the slot of its descriptor, a connection found in the table
\* is a counted one, and the counter is their number.
THEOREM ConnTableExact == Spec => []TableExact
<1>1. ServerInv => TableExact
  BY DEF ServerInv
<1> QED
  BY <1>1, ServerInvariance, PTL

\* event_process never dispatches an event to a connection that clean_conn has
\* finished with, or to another one than the socket's.
THEOREM EventsReachTheirConnection == Spec => []DispatchToOwner
<1>1. ServerInv => DispatchToOwner
  BY DEF ServerInv
<1> QED
  BY <1>1, ServerInvariance, PTL

-----------------------------------------------------------------------------
(* The theorems about the service *)

\* Every step of the service keeps the invariant.
LEMMA DnsNextInv == DnsInv /\ [DnsNext]_allVars => DnsInv'
<1> SUFFICES ASSUME DnsInv, [DnsNext]_allVars PROVE DnsInv'
  OBVIOUS
<1>1. CASE Editor
  BY <1>1, EditorStep
<1>2. CASE CheckRouteChanges
  BY <1>2, CheckerStep, ReloadStep, PublishStep DEF CheckRouteChanges
<1>3. ASSUME NEW w \in Workers, ServerStep(w) PROVE DnsInv'
  BY <1>3, ServerStepInv
<1>4. ASSUME NEW w \in Workers, ServiceStep(w) PROVE DnsInv'
  <2>1. ASSUME NEW f \in Fds, NEW m \in Mods, Request(w, f, m) PROVE DnsInv'
    BY <2>1, RequestStep
  <2>2. ASSUME NEW f \in Fds, NEW m \in Mods, PushGetHosts(w, f, m) PROVE DnsInv'
    BY <2>2, PushGetHostsStep
  <2>3. CASE Subscribe(w)
    BY <2>3, SubscribeStep
  <2>4. CASE GetHosts(w)
    BY <2>4, GetHostsStep
  <2>5. CASE Reply(w)
    BY <2>5, ReplyStep
  <2>6. CASE MakePublishMap(w)
    BY <2>6, MakePublishMapStep
  <2>7. CASE PushSend(w)
    BY <2>7, PushSendStep
  <2>8. CASE PushDone(w)
    BY <2>8, PushDoneStep
  <2>9. CASE CreateSubscribe(w)
    BY <2>9, CreateSubscribeStep
  <2>10. ASSUME NEW m \in Mods, Unsubscribe(w, m) PROVE DnsInv'
    BY <2>10, UnsubscribeStep
  <2>11. CASE ClearSubscribeDone(w)
    BY <2>11, ClearSubscribeDoneStep
  <2> QED
    BY <1>4, <2>1, <2>2, <2>3, <2>4, <2>5, <2>6, <2>7, <2>8, <2>9, <2>10, <2>11 DEF ServiceStep
<1>5. CASE (Acceptor \/ \E k \in Conns : Client(k)) /\ UNCHANGED dnsVars
  BY <1>5, AcceptorInv
<1>6. CASE UNCHANGED allVars
  <2>1. UNCHANGED serverVars /\ UNCHANGED dnsVars
    BY <1>6 DEF allVars
  <2> QED
    BY <2>1, ServerStill, ServerAlone
<1> QED
  BY <1>1, <1>2, <1>3, <1>4, <1>5, <1>6 DEF DnsNext

\* The inductive invariant holds in every state of the service.
THEOREM DnsInvariance == DnsSpec => []DnsInv
BY DnsInitInv, DnsNextInv, PTL DEF DnsSpec

\* subscribe, unsubscribe and clear_subscribe keep _book_list exact: it holds a
\* module and a descriptor just when the connection that has the descriptor now
\* has subscribed to the module.
THEOREM SubscriptionsExact == DnsSpec => []BookExact
<1>1. DnsInv => BookExact
  BY DEF DnsInv
<1> QED
  BY <1>1, DnsInvariance, PTL

\* push_change_task, which reads conns[fd] without the lock, finds a live
\* connection of its own event loop.
THEOREM PushesStayInTheLoop == DnsSpec => []PushToOwnConnection
BY OwnConnection, DnsInvariance, PTL

\* No answer of get_route and no push tells a connection of older hosts than it
\* was told before.
THEOREM NewsNeverGoesBack == DnsSpec => NeverToldOlder
<1>1. DnsInv /\ [DnsNext]_allVars => [\A k \in Conns, m \in Mods : view'[k][m] >= view[k][m]]_allVars
  <2> SUFFICES ASSUME DnsInv, DnsNext, NEW k \in Conns, NEW m \in Mods
               PROVE  view'[k][m] >= view[k][m]
    OBVIOUS
  <2>1. CASE view' = view
    BY <2>1, CallType, SMT
  <2>2. ASSUME NEW w \in Workers, Reply(w) PROVE view'[k][m] >= view[k][m]
    <3>1. dpc[w] = "reply" /\ view' = [view EXCEPT ![Told(w)][dreq[w][2]] = dval[w]]
      BY <2>2 DEF Reply, DGoto, Told
    <3> QED
      BY <3>1, Tell
  <2>3. ASSUME NEW w \in Workers, PushSend(w) PROVE view'[k][m] >= view[k][m]
    <3>1. dpc[w] = "pushhosts"
      BY <2>3 DEF PushSend, DGoto
    <3> QED
      BY <2>1, <2>3, <3>1, PushTells, Tell
  <2>4. Editor \/ CheckRouteChanges => view' = view
    BY DEF Editor, EditInTransaction, ScriptRows, ScriptVersion, ScriptChange, CheckRouteChanges, KBoot,
           KNewVersion, KTimeout, KLoad, KLoadFails, KSwap, KLoadChanges, KPublish, KSendTask,
           KRemoveChanges, callVars
  <2>5. ASSUME NEW w \in Workers, ServerStep(w) PROVE view' = view
    BY <2>5 DEF ServerStep, dnsVars, callVars
  <2>6. ASSUME NEW w \in Workers, ServiceStep(w), ~Reply(w), ~PushSend(w) PROVE view' = view
    BY <2>6 DEF ServiceStep, Request, PushGetHosts, Subscribe, GetHosts, MakePublishMap, PushDone,
                CreateSubscribe, Unsubscribe, ClearSubscribeDone, dnsVars, callVars
  <2>7. UNCHANGED dnsVars => view' = view
    BY DEF dnsVars, callVars
  <2> QED
    BY <2>1, <2>2, <2>3, <2>4, <2>5, <2>6, <2>7 DEF DnsNext
<1> QED
  BY <1>1, DnsInvariance, PTL DEF DnsSpec, NeverToldOlder
=============================================================================
