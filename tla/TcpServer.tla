------------------------------ MODULE TcpServer ------------------------------
(***************************************************************************)
(* The life of a connection: tcp_server::do_accept in the main thread, the *)
(* thread_pool's queues, the tcp_conn constructor and clean_conn in the    *)
(* worker threads, the event_loops that dispatch to them, and the table    *)
(* conns[] with its count, shared by all.  The kernel gives an accepted    *)
(* socket the lowest free descriptor, so a descriptor closed by one worker *)
(* soon names a connection of another one.  A third kind of thread (in the *)
(* DNS service the one that checks the database) broadcasts tasks to all   *)
(* workers with thread_pool::send_task.                                    *)
(*                                                                         *)
(* A thread_queue is a FIFO here (module ThreadQueue shows that it is);    *)
(* increase_conn, decrease_conn and get_conn_num are single steps because  *)
(* each is one critical section of _conns_mutex.                           *)
(***************************************************************************)
EXTENDS Integers, Sequences, FiniteSets

CONSTANTS
  ThreadCnt, \* _thread_cnt
  MaxAccepts,\* bound: connections that clients ever make
  Fds,       \* descriptors that accept can return (up to the process limit)
  MaxConns,  \* _max_conns
  MaxBroadcasts, \* bound: calls of send_task
  MaxArrivals,   \* bound: connections and calls of send_task together
  None       \* null pointer, no descriptor

ASSUME TcpAssumption ==
  /\ ThreadCnt \in Nat \ {0}
  /\ MaxAccepts \in Nat
  /\ Fds \subseteq Nat \ {0}
  /\ MaxConns \in Nat
  /\ MaxBroadcasts \in Nat
  /\ MaxArrivals \in Nat
  /\ None \notin Nat

\* The pool's threads in the order of _queues; connections in the order the
\* clients make them.
Workers == 1..ThreadCnt
Conns == 1..MaxAccepts

\* The worker's eventfd, kept apart from the descriptors of connections.
QueueFd == 0

\* A NEW_TASK message; a NEW_CONN message is the connection itself.
NewTask == 0

\* conns = new tcp_conn*[_max_conns + 3]
Slots == 0..(MaxConns + 2)

\* What an uninitialised slot of conns holds.
Junk == -1

VARIABLES
  stage,     \* how far each connection is in its life
  connfd,    \* the descriptor of each connection, None before and after
  sock,      \* kernel: the connection behind each open descriptor
  peer,      \* what the client did that the server has not read yet
  backlog,   \* kernel: connections waiting in listen's queue
  conns,     \* tcp_server::conns
  curConns,  \* _cur_conns
  apc,       \* where the main thread is in do_accept
  acur,      \* do_accept's local cur_conns
  index,     \* thread_pool::_index
  queue,     \* _queues: messages sent to each worker
  bpos,      \* send_task's loop: the next queue, or 0
  broadcasts,\* send_task calls so far
  wpc,       \* where each worker is
  batch,     \* deal_task_message's local tasks
  fired,     \* _fired_evs not handled yet
  ready,     \* number of _read_tasks of each worker
  ran,       \* history: tasks each worker has run
  wconn,     \* the connection whose callback runs
  ioEvs,     \* _io_evs of each worker: descriptor to callback argument
  epoll      \* kernel: descriptors in each worker's epoll set

serverVars == <<stage, connfd, sock, peer, backlog, conns, curConns, apc, acur,
                index, queue, bpos, broadcasts, wpc, batch, fired, ready, ran,
                wconn, ioEvs, epoll>>

Stages == {"none", "backlog", "accepted", "queued", "registered", "started",
           "live", "closing", "hooked", "uncounted", "removed", "closed", "refused"}

TypeOK ==
  /\ stage \in [Conns -> Stages]
  /\ connfd \in [Conns -> Fds \cup {None}]
  /\ sock \in [Fds -> Conns \cup {None}]
  /\ peer \in [Conns -> {"quiet", "data", "gone"}]
  /\ backlog \in Seq(Conns)
  /\ conns \in [Slots -> Conns \cup {None, Junk}]
  /\ curConns \in Nat
  /\ apc \in {"poll", "accept", "count", "decide"}
  /\ acur \in Nat
  /\ index \in 0..ThreadCnt
  /\ queue \in [Workers -> Seq(Conns \cup {NewTask})]
  /\ bpos \in 0..ThreadCnt
  /\ broadcasts \in 0..MaxBroadcasts
  /\ wpc \in [Workers -> {"poll", "dispatch", "tasks", "start", "increase",
                          "closecb", "decrease", "del", "close", "run"}]
  /\ batch \in [Workers -> Seq(Conns \cup {NewTask})]
  /\ fired \in [Workers -> SUBSET (Fds \cup {QueueFd})]
  /\ ready \in [Workers -> 0..MaxBroadcasts]
  /\ ran \in [Workers -> 0..MaxBroadcasts]
  /\ wconn \in [Workers -> Conns \cup {None}]
  /\ ioEvs \in [Workers -> [Fds -> Conns \cup {None}]]
  /\ epoll \in [Workers -> SUBSET Fds]

Init ==
  /\ stage = [k \in Conns |-> "none"]
  /\ connfd = [k \in Conns |-> None]
  /\ sock = [f \in Fds |-> None]
  /\ peer = [k \in Conns |-> "quiet"]
  /\ backlog = <<>>
  /\ conns = [i \in Slots |-> Junk]
  /\ curConns = 0
  /\ apc = "poll"
  /\ acur = 0
  /\ index = 0
  /\ queue = [w \in Workers |-> <<>>]
  /\ bpos = 0
  /\ broadcasts = 0
  /\ wpc = [w \in Workers |-> "poll"]
  /\ batch = [w \in Workers |-> <<>>]
  /\ fired = [w \in Workers |-> {}]
  /\ ready = [w \in Workers |-> 0]
  /\ ran = [w \in Workers |-> 0]
  /\ wconn = [w \in Workers |-> None]
  /\ ioEvs = [w \in Workers |-> [f \in Fds |-> None]]
  /\ epoll = [w \in Workers |-> {}]

acceptVars == <<apc, acur, index>>
workerVars == <<wpc, batch, fired, ready, ran, wconn, ioEvs, epoll>>
tableVars == <<conns, curConns>>
bcastVars == <<bpos, broadcasts>>
taskVars == <<ready, ran, bcastVars>>

-----------------------------------------------------------------------------
(* Clients *)

Arrivals == Cardinality({k \in Conns : stage[k] # "none"}) + broadcasts

Connect(k) ==
  /\ stage[k] = "none"
  /\ Arrivals < MaxArrivals
  /\ \A j \in 1..(k - 1) : stage[j] # "none"
  /\ stage' = [stage EXCEPT ![k] = "backlog"]
  /\ backlog' = Append(backlog, k)
  /\ UNCHANGED <<connfd, sock, peer, queue, acceptVars, workerVars, tableVars, bcastVars>>

ClientActs(k, what) ==
  /\ stage[k] \notin {"none", "closed", "refused"}
  /\ peer[k] = "quiet"
  /\ peer' = [peer EXCEPT ![k] = what]
  /\ UNCHANGED <<stage, connfd, sock, backlog, queue, acceptVars, workerVars, tableVars, bcastVars>>

-----------------------------------------------------------------------------
(* tcp_server::do_accept, in the main thread *)

AcceptWakeup ==
  /\ apc = "poll"
  /\ backlog # <<>>
  /\ apc' = "accept"
  /\ UNCHANGED <<stage, connfd, sock, peer, backlog, acur, index, queue,
                 workerVars, tableVars, bcastVars>>

FreeFds == {f \in Fds : sock[f] = None}

\* accept(): with no free descriptor it fails with EMFILE and the loop tries
\* again, so the step simply waits.
Accept ==
  /\ apc = "accept"
  /\ backlog # <<>>
  /\ FreeFds # {}
  /\ LET k == Head(backlog)
         f == CHOOSE f \in FreeFds : \A g \in FreeFds : f <= g
     IN /\ stage' = [stage EXCEPT ![k] = "accepted"]
        /\ connfd' = [connfd EXCEPT ![k] = f]
        /\ sock' = [sock EXCEPT ![f] = k]
  /\ backlog' = Tail(backlog)
  /\ apc' = "count"
  /\ UNCHANGED <<peer, acur, index, queue, workerVars, tableVars, bcastVars>>

\* get_conn_num(&cur_conns)
GetConnNum ==
  /\ apc = "count"
  /\ acur' = curConns
  /\ apc' = "decide"
  /\ UNCHANGED <<stage, connfd, sock, peer, backlog, index, queue, workerVars, tableVars, bcastVars>>

\* The connection do_accept has in hand.
Accepted(k) == stage[k] = "accepted"

\* Too many connections: close(connfd).
Refuse(k) ==
  /\ apc = "decide"
  /\ Accepted(k)
  /\ acur >= MaxConns
  /\ stage' = [stage EXCEPT ![k] = "refused"]
  /\ sock' = [sock EXCEPT ![connfd[k]] = None]
  /\ connfd' = [connfd EXCEPT ![k] = None]
  /\ acur' = 0
  /\ apc' = "poll"
  /\ UNCHANGED <<peer, backlog, index, queue, workerVars, tableVars, bcastVars>>

\* thread_pool::get_thread: the index of the queue it returns.
NextThread == IF index = ThreadCnt THEN 0 ELSE index

\* get_thread()'s queue, then queue->send(NEW_CONN).
HandOver(k) ==
  /\ apc = "decide"
  /\ Accepted(k)
  /\ acur < MaxConns
  /\ queue' = [queue EXCEPT ![NextThread + 1] = Append(@, k)]
  /\ index' = NextThread + 1
  /\ stage' = [stage EXCEPT ![k] = "queued"]
  /\ acur' = 0
  /\ apc' = "poll"
  /\ UNCHANGED <<connfd, sock, peer, backlog, workerVars, tableVars, bcastVars>>

-----------------------------------------------------------------------------
(* event_loop::event_process, in worker w *)

\* Level-triggered readiness of the eventfd and of the sockets.
Ready(w) ==
  {f \in epoll[w] : sock[f] # None /\ peer[sock[f]] # "quiet"}
    \cup (IF queue[w] = <<>> THEN {} ELSE {QueueFd})

EpollWait(w) ==
  /\ wpc[w] = "poll"
  /\ Ready(w) # {}
  /\ fired' = [fired EXCEPT ![w] = Ready(w)]
  /\ wpc' = [wpc EXCEPT ![w] = "dispatch"]
  /\ UNCHANGED <<stage, connfd, sock, peer, backlog, queue, batch, wconn, ioEvs,
                 epoll, acceptVars, tableVars, taskVars>>

\* All events are handled; execute_ready_task is next.
DispatchDone(w) ==
  /\ wpc[w] = "dispatch"
  /\ fired[w] = {}
  /\ wpc' = [wpc EXCEPT ![w] = IF ready[w] = 0 THEN "poll" ELSE "run"]
  /\ UNCHANGED <<stage, connfd, sock, peer, backlog, queue, batch, fired, wconn,
                 ioEvs, epoll, acceptVars, tableVars, taskVars>>

\* A mutant of RecvTasks: only the first of the tasks is kept.
RecvOneTask(w) ==
  /\ wpc[w] = "dispatch"
  /\ QueueFd \in fired[w]
  /\ batch' = [batch EXCEPT ![w] = <<Head(queue[w])>>]
  /\ queue' = [queue EXCEPT ![w] = <<>>]
  /\ fired' = [fired EXCEPT ![w] = @ \ {QueueFd}]
  /\ wpc' = [wpc EXCEPT ![w] = "tasks"]
  /\ UNCHANGED <<stage, connfd, sock, peer, backlog, wconn, ioEvs, epoll,
                 acceptVars, tableVars, taskVars>>

\* deal_task_message: recv swaps the whole queue out.
RecvTasks(w) ==
  /\ wpc[w] = "dispatch"
  /\ QueueFd \in fired[w]
  /\ batch' = [batch EXCEPT ![w] = queue[w]]
  /\ queue' = [queue EXCEPT ![w] = <<>>]
  /\ fired' = [fired EXCEPT ![w] = @ \ {QueueFd}]
  /\ wpc' = [wpc EXCEPT ![w] = "tasks"]
  /\ UNCHANGED <<stage, connfd, sock, peer, backlog, wconn, ioEvs, epoll,
                 acceptVars, tableVars, taskVars>>

\* NEW_TASK: loop->add_task
AddTask(w) ==
  /\ wpc[w] = "tasks"
  /\ batch[w] # <<>>
  /\ Head(batch[w]) = NewTask
  /\ ready' = [ready EXCEPT ![w] = @ + 1]
  /\ batch' = [batch EXCEPT ![w] = Tail(@)]
  /\ UNCHANGED <<stage, connfd, sock, peer, backlog, queue, wpc, fired, ran, wconn,
                 ioEvs, epoll, acceptVars, tableVars, bcastVars>>

TasksDone(w) ==
  /\ wpc[w] = "tasks"
  /\ batch[w] = <<>>
  /\ wpc' = [wpc EXCEPT ![w] = "dispatch"]
  /\ UNCHANGED <<stage, connfd, sock, peer, backlog, queue, batch, fired, wconn,
                 ioEvs, epoll, acceptVars, tableVars, taskVars>>

\* A mutant of RunTask: _read_tasks is cleared after its first task.
RunTaskClears(w) ==
  /\ wpc[w] = "run"
  /\ ran' = [ran EXCEPT ![w] = @ + 1]
  /\ ready' = [ready EXCEPT ![w] = 0]
  /\ wpc' = [wpc EXCEPT ![w] = "poll"]
  /\ UNCHANGED <<stage, connfd, sock, peer, backlog, queue, batch, fired, wconn,
                 ioEvs, epoll, acceptVars, tableVars, bcastVars>>

\* execute_ready_task: one task runs.
RunTask(w) ==
  /\ wpc[w] = "run"
  /\ ran' = [ran EXCEPT ![w] = @ + 1]
  /\ ready' = [ready EXCEPT ![w] = @ - 1]
  /\ wpc' = [wpc EXCEPT ![w] = IF ready[w] = 1 THEN "poll" ELSE "run"]
  /\ UNCHANGED <<stage, connfd, sock, peer, backlog, queue, batch, fired, wconn,
                 ioEvs, epoll, acceptVars, tableVars, bcastVars>>

-----------------------------------------------------------------------------
(* thread_pool::send_task, in the thread that broadcasts *)

BroadcastBegin ==
  /\ bpos = 0
  /\ broadcasts < MaxBroadcasts
  /\ Arrivals < MaxArrivals
  /\ broadcasts' = broadcasts + 1
  /\ bpos' = 1
  /\ UNCHANGED <<stage, connfd, sock, peer, backlog, queue, acceptVars, workerVars,
                 tableVars>>

\* One turn of the loop: _queues[i]->send(task).
SendTask ==
  /\ bpos > 0
  /\ queue' = [queue EXCEPT ![bpos] = Append(@, NewTask)]
  /\ bpos' = IF bpos = ThreadCnt THEN 0 ELSE bpos + 1
  /\ UNCHANGED <<stage, connfd, sock, peer, backlog, broadcasts, acceptVars,
                 workerVars, tableVars>>

-----------------------------------------------------------------------------
(* tcp_conn::tcp_conn, in worker w *)

\* add_io_event: a descriptor already in _io_evs is modified, not added, and
\* epoll_ctl then fails for one that the kernel has dropped.
Construct(w) ==
  /\ wpc[w] = "tasks"
  /\ batch[w] # <<>>
  /\ Head(batch[w]) # NewTask
  /\ LET k == Head(batch[w])
         f == connfd[k]
     IN /\ ioEvs' = [ioEvs EXCEPT ![w][f] = k]
        /\ epoll' = [epoll EXCEPT ![w] =
                       IF ioEvs[w][f] = None THEN @ \cup {f} ELSE @]
        /\ stage' = [stage EXCEPT ![k] = "registered"]
        /\ wconn' = [wconn EXCEPT ![w] = k]
  /\ batch' = [batch EXCEPT ![w] = Tail(@)]
  /\ wpc' = [wpc EXCEPT ![w] = "start"]
  /\ UNCHANGED <<connfd, sock, peer, backlog, queue, fired, acceptVars, tableVars, taskVars>>

\* conn_start_cb returns.
StartCb(w) ==
  /\ wpc[w] = "start"
  /\ stage' = [stage EXCEPT ![wconn[w]] = "started"]
  /\ wpc' = [wpc EXCEPT ![w] = "increase"]
  /\ UNCHANGED <<connfd, sock, peer, backlog, queue, batch, fired, wconn, ioEvs,
                 epoll, acceptVars, tableVars, taskVars>>

\* increase_conn.  A descriptor past the end of conns overwrites memory that
\* does not belong to the array; what that breaks is not followed.
Increase(w) ==
  /\ wpc[w] = "increase"
  /\ conns' = [conns EXCEPT ![connfd[wconn[w]]] = wconn[w]]
  /\ curConns' = curConns + 1
  /\ stage' = [stage EXCEPT ![wconn[w]] = "live"]
  /\ wconn' = [wconn EXCEPT ![w] = None]
  /\ wpc' = [wpc EXCEPT ![w] = "tasks"]
  /\ UNCHANGED <<connfd, sock, peer, backlog, queue, batch, fired, ioEvs, epoll,
                 acceptVars, taskVars>>

-----------------------------------------------------------------------------
(* tcp_conn::do_read and clean_conn, in worker w *)

\* A mutant of Fires: the event stays in the list of fired events.
FiresAgain(w, f) ==
  /\ wpc[w] = "dispatch"
  /\ f \in fired[w] \ {QueueFd}
  /\ UNCHANGED fired

\* event_process comes to the event of descriptor f; the callback's argument is
\* ioEvs[w][f].
Fires(w, f) ==
  /\ wpc[w] = "dispatch"
  /\ f \in fired[w] \ {QueueFd}
  /\ fired' = [fired EXCEPT ![w] = @ \ {f}]

\* Well-formed data is consumed.
DoRead(w, f) ==
  /\ Fires(w, f)
  /\ peer[ioEvs[w][f]] = "data"
  /\ peer' = [peer EXCEPT ![ioEvs[w][f]] = "quiet"]
  /\ UNCHANGED <<stage, connfd, sock, backlog, queue, wpc, batch, wconn, ioEvs,
                 epoll, acceptVars, tableVars, taskVars>>

\* The peer has closed, or sent a header with an impossible length, or the
\* read failed: clean_conn.
CleanConn(w, f) ==
  /\ Fires(w, f)
  /\ peer[ioEvs[w][f]] \in {"data", "gone"}
  /\ stage' = [stage EXCEPT ![ioEvs[w][f]] = "closing"]
  /\ wconn' = [wconn EXCEPT ![w] = ioEvs[w][f]]
  /\ wpc' = [wpc EXCEPT ![w] = "closecb"]
  /\ UNCHANGED <<connfd, sock, peer, backlog, queue, batch, ioEvs, epoll,
                 acceptVars, tableVars, taskVars>>

\* A mutant of CloseCb: the descriptor is closed first, as a tidy-up might do.
CloseCbAfterClose(w) ==
  /\ wpc[w] = "closecb"
  /\ stage' = [stage EXCEPT ![wconn[w]] = "hooked"]
  /\ sock' = [sock EXCEPT ![connfd[wconn[w]]] = None]
  /\ wpc' = [wpc EXCEPT ![w] = "decrease"]
  /\ UNCHANGED <<connfd, peer, backlog, queue, batch, fired, wconn, ioEvs, epoll,
                 acceptVars, tableVars, taskVars>>

\* conn_close_cb returns.
CloseCb(w) ==
  /\ wpc[w] = "closecb"
  /\ stage' = [stage EXCEPT ![wconn[w]] = "hooked"]
  /\ wpc' = [wpc EXCEPT ![w] = "decrease"]
  /\ UNCHANGED <<connfd, sock, peer, backlog, queue, batch, fired, wconn, ioEvs,
                 epoll, acceptVars, tableVars, taskVars>>

\* decrease_conn
Decrease(w) ==
  /\ wpc[w] = "decrease"
  /\ conns' = [conns EXCEPT ![connfd[wconn[w]]] = None]
  /\ curConns' = curConns - 1
  /\ stage' = [stage EXCEPT ![wconn[w]] = "uncounted"]
  /\ wpc' = [wpc EXCEPT ![w] = "del"]
  /\ UNCHANGED <<connfd, sock, peer, backlog, queue, batch, fired, wconn, ioEvs,
                 epoll, acceptVars, taskVars>>

\* A mutant of DelEvent: the descriptor is left in _io_evs.
DelEventKernelOnly(w) ==
  /\ wpc[w] = "del"
  /\ epoll' = [epoll EXCEPT ![w] = @ \ {connfd[wconn[w]]}]
  /\ stage' = [stage EXCEPT ![wconn[w]] = "removed"]
  /\ wpc' = [wpc EXCEPT ![w] = "close"]
  /\ UNCHANGED <<connfd, sock, peer, backlog, queue, batch, fired, wconn, ioEvs,
                 acceptVars, tableVars, taskVars>>

\* _loop->del_io_event(_connfd), then both buffers are cleared.
DelEvent(w) ==
  /\ wpc[w] = "del"
  /\ ioEvs' = [ioEvs EXCEPT ![w][connfd[wconn[w]]] = None]
  /\ epoll' = [epoll EXCEPT ![w] = @ \ {connfd[wconn[w]]}]
  /\ stage' = [stage EXCEPT ![wconn[w]] = "removed"]
  /\ wpc' = [wpc EXCEPT ![w] = "close"]
  /\ UNCHANGED <<connfd, sock, peer, backlog, queue, batch, fired, wconn,
                 acceptVars, tableVars, taskVars>>

\* _connfd = -1, then close(fd); the kernel drops what was not read.
CloseFd(w) ==
  /\ wpc[w] = "close"
  /\ peer' = [peer EXCEPT ![wconn[w]] = "quiet"]
  /\ sock' = [sock EXCEPT ![connfd[wconn[w]]] = None]
  /\ connfd' = [connfd EXCEPT ![wconn[w]] = None]
  /\ stage' = [stage EXCEPT ![wconn[w]] = "closed"]
  /\ wconn' = [wconn EXCEPT ![w] = None]
  /\ wpc' = [wpc EXCEPT ![w] = "dispatch"]
  /\ UNCHANGED <<backlog, queue, batch, fired, ioEvs, epoll, acceptVars,
                 tableVars, taskVars>>

-----------------------------------------------------------------------------
Acceptor ==
  \/ AcceptWakeup
  \/ Accept
  \/ GetConnNum
  \/ \E k \in Conns : Refuse(k) \/ HandOver(k)

Worker(w) ==
  \/ EpollWait(w)
  \/ DispatchDone(w)
  \/ RecvTasks(w)
  \/ AddTask(w)
  \/ TasksDone(w)
  \/ RunTask(w)
  \/ Construct(w)
  \/ StartCb(w)
  \/ Increase(w)
  \/ \E f \in Fds : DoRead(w, f) \/ CleanConn(w, f)
  \/ CloseCb(w)
  \/ Decrease(w)
  \/ DelEvent(w)
  \/ CloseFd(w)

Client(k) == Connect(k) \/ \E what \in {"data", "gone"} : ClientActs(k, what)

Next ==
  \/ Acceptor
  \/ BroadcastBegin
  \/ SendTask
  \/ \E w \in Workers : Worker(w)
  \/ \E k \in Conns : Client(k)

Spec == Init /\ [][Next]_serverVars

\* Every thread that can run runs; clients do what they like.
Fairness ==
  /\ WF_serverVars(Acceptor)
  /\ WF_serverVars(SendTask)
  /\ \A w \in Workers : WF_serverVars(Worker(w))

FairSpec == Spec /\ Fairness

-----------------------------------------------------------------------------
(* Properties *)

\* Connections that increase_conn has counted and decrease_conn has not.
Counted == {k \in Conns : stage[k] \in {"live", "closing", "hooked"}}

\* conns[] and _cur_conns are exact at every moment: each counted connection
\* is in the slot of its descriptor (if the array has one), no slot points to
\* any other connection, and the count is their number, although descriptors
\* are reused at once and constructors and clean_conn of different workers
\* interleave.
TableExact ==
  /\ \A k \in Counted : connfd[k] \in Slots => conns[connfd[k]] = k
  /\ \A i \in Slots : conns[i] \in Conns => conns[i] \in Counted
  /\ curConns = Cardinality(Counted)

\* event_process's assertion (event_loop.cc:23) and more: an event still to be
\* dispatched has a handler, which is the connection whose socket the kernel
\* has behind that descriptor, and that connection is fully constructed.
DispatchToOwner ==
  \A w \in Workers : \A f \in fired[w] \ {QueueFd} :
    /\ ioEvs[w][f] # None
    /\ sock[f] = ioEvs[w][f]
    /\ stage[ioEvs[w][f]] = "live"

\* A connection that was handed over is eventually served by its worker, even
\* when its descriptor was used before.
HandedOverIsServed ==
  \A k \in Conns : stage[k] = "queued" ~> stage[k] = "live"

\* A connection whose client has gone is eventually taken apart and its
\* descriptor given back.
GoneIsCleaned ==
  \A k \in Conns :
    (stage[k] = "live" /\ peer[k] = "gone") ~> (stage[k] = "closed")

\* A worker that has run fewer tasks than were broadcast catches up: each
\* broadcast is run by every worker.
BroadcastReachesAll ==
  \A w \in Workers : (ran[w] < broadcasts) ~> (ran[w] = broadcasts)

\* What do_accept's test, and the configured maxConn, are for: never more than
\* _max_conns connections.
AtMostMaxConns == curConns <= MaxConns

-----------------------------------------------------------------------------
(* The inductive invariant behind TableExact and DispatchToOwner *)

\* What the argument needs of the types.
ServerType ==
  /\ stage \in [Conns -> Stages]
  /\ connfd \in [Conns -> Fds \cup {None}]
  /\ sock \in [Fds -> Conns \cup {None}]
  /\ backlog \in Seq(Conns)
  /\ conns \in [Slots -> Conns \cup {None, Junk}]
  /\ index \in 0..ThreadCnt
  /\ queue \in [Workers -> Seq(Conns \cup {NewTask})]
  /\ bpos \in 0..ThreadCnt
  /\ wpc \in [Workers -> {"poll", "dispatch", "tasks", "start", "increase",
                          "closecb", "decrease", "del", "close", "run"}]
  /\ batch \in [Workers -> Seq(Conns \cup {NewTask})]
  /\ fired \in [Workers -> SUBSET (Fds \cup {QueueFd})]
  /\ wconn \in [Workers -> Conns \cup {None}]
  /\ ioEvs \in [Workers -> [Fds -> Conns \cup {None}]]
  /\ epoll \in [Workers -> SUBSET Fds]

\* The stages in which a connection has a descriptor.
HoldsFd == {"accepted", "queued", "registered", "started", "live", "closing",
            "hooked", "uncounted", "removed"}

\* A connection with a descriptor is the one that the kernel has behind it, so
\* no two connections have the same.
SocketInv ==
  \A k \in Conns :
    IF stage[k] \in HoldsFd THEN connfd[k] \in Fds /\ sock[connfd[k]] = k
                            ELSE connfd[k] = None

\* listen's queue holds connections that are not accepted yet, each once.
BacklogInv ==
  /\ \A i \in 1..Len(backlog) : stage[backlog[i]] = "backlog"
  /\ \A i, j \in 1..Len(backlog) : backlog[i] = backlog[j] => i = j

\* The messages that each worker has still to look at.
pending == [w \in Workers |-> batch[w] \o queue[w]]

\* The connections among the messages m are queued ones, each of them once.
QueuedOnce(m, st) ==
  /\ \A w \in Workers : \A i \in 1..Len(m[w]) : m[w][i] \in Conns => st[m[w][i]] = "queued"
  /\ \A v, w \in Workers : \A i \in 1..Len(m[v]), j \in 1..Len(m[w]) :
       m[v][i] \in Conns /\ m[v][i] = m[w][j] => v = w /\ i = j

\* A connection is handed over to one worker, once; recv is called when the
\* tasks of the last recv have been dealt with.
PendingInv ==
  /\ QueuedOnce(pending, stage)
  /\ \A w \in Workers : batch[w] # <<>> => wpc[w] \in {"tasks", "start", "increase"}

\* A worker is inside the constructor or inside clean_conn, for wconn[w].
BusyPcs == {"start", "increase", "closecb", "decrease", "del", "close"}
Busy(w) == wpc[w] \in BusyPcs

\* The stage of the connection that a worker at pc is busy with.
AtStage(pc, st) ==
  /\ pc = "start" => st = "registered"
  /\ pc = "increase" => st = "started"
  /\ pc = "closecb" => st = "closing"
  /\ pc = "decrease" => st = "hooked"
  /\ pc = "del" => st = "uncounted"
  /\ pc = "close" => st = "removed"

\* The stage of the connection says where its worker is, and no other worker is
\* at work on it.
WorkerInv ==
  /\ \A w \in Workers : Busy(w) => wconn[w] \in Conns /\ AtStage(wpc[w], stage[wconn[w]])
  /\ \A v, w \in Workers : Busy(v) /\ Busy(w) /\ wconn[v] = wconn[w] => v = w

\* A descriptor in a loop belongs to that loop alone, and its handler is the
\* connection that has the descriptor: live, or the one that the loop's worker
\* is constructing or cleaning up.
EventInv ==
  /\ \A w \in Workers, f \in Fds : ioEvs[w][f] # None =>
       /\ connfd[ioEvs[w][f]] = f
       /\ \/ stage[ioEvs[w][f]] = "live"
          \/ wpc[w] \in BusyPcs \ {"close"} /\ wconn[w] = ioEvs[w][f]
  /\ \A v, w \in Workers, f \in Fds : ioEvs[v][f] # None /\ ioEvs[w][f] # None => v = w
  /\ \A w \in Workers : \A f \in epoll[w] : ioEvs[w][f] # None

\* A connection in conns[] is in the slot of its own descriptor.
SlotInv == \A i \in Slots : conns[i] \in Conns => connfd[conns[i]] = i

ServerInv ==
  /\ ServerType
  /\ SocketInv
  /\ BacklogInv
  /\ PendingInv
  /\ WorkerInv
  /\ EventInv
  /\ SlotInv
  /\ TableExact
  /\ DispatchToOwner
=============================================================================
