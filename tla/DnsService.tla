----------------------------- MODULE DnsService -----------------------------
(***************************************************************************)
(* The DNS service: dns_service.cc and subscribe.cc on top of TcpServer.   *)
(* A client's request subscribes its connection to a module and answers    *)
(* with the module's hosts; the checking thread notices edits of the       *)
(* database, publishes the changed modules to the subscribers' entries of  *)
(* _push_list and broadcasts push_change_task to the workers, each of      *)
(* which pushes to the connections of its own loop.                        *)
(*                                                                         *)
(* The hosts of a module are abstracted to the number of edits they        *)
(* contain, and get_hosts reads one atomic table, which module RouteStore  *)
(* justifies.  Operations of subscribe_list are single steps, each being   *)
(* one critical section (publish holds both locks).                        *)
(***************************************************************************)
EXTENDS TcpServer

CONSTANTS
  Mods,        \* (modid, cmdid) keys
  MaxEdits,    \* bound: edits of each module
  InitVersions,\* what the uninitialised _version may hold
  Transactions,\* edits are one transaction; else three statements, as in
               \* base/sql/test_insert_dns.sql
  SameSecond,  \* two edits may carry the same time stamp as version
  DbFails,     \* queries of the checking thread may fail
  EarlyEdits   \* edits may precede the thread's start

\* The last version number within the bound.
MaxVersion == MaxEdits * Cardinality(Mods)

ASSUME DnsAssumption ==
  /\ MaxEdits \in Nat
  /\ InitVersions \subseteq Nat
  /\ {Transactions, SameSecond, DbFails, EarlyEdits} \subseteq BOOLEAN

VARIABLES
  dbData,    \* RouteData: edits contained in each module's rows
  dbVersion, \* RouteVersion
  changes,   \* RouteChange: pairs of module and version
  epc,       \* where the editing script is
  emod,      \* the module that it edits
  served,    \* what get_hosts answers from
  kpc,       \* where the checking thread is
  kwhy,      \* why it reloads; "version" when it does not
  kver,      \* _version
  kdata,     \* rows loaded and not swapped in yet
  klist,     \* check_route_changes' local changes
  subs,      \* each connection's sub_list (net_connection::param)
  book,      \* _book_list: pairs of module and descriptor
  push,      \* _push_list: pairs of descriptor and module
  dpc,       \* where a worker is inside get_route or push_change_task
  dreq,      \* the request it answers: connection and module
  need,      \* push_change_task's need_publish
  dval,      \* the hosts it has read
  view       \* history: what each connection was last told of each module

dbVars == <<dbData, dbVersion, changes, epc, emod>>
checkVars == <<served, kpc, kwhy, kver, kdata, klist>>
subVars == <<subs, book, push>>
callVars == <<dpc, dreq, need, dval, view>>
dnsVars == <<dbVars, checkVars, subVars, callVars>>
allVars == <<serverVars, dnsVars>>

DnsTypeOK ==
  /\ TypeOK
  /\ dbData \in [Mods -> 1..(MaxEdits + 1)]
  /\ dbVersion \in 0..MaxVersion
  /\ changes \subseteq Mods \X (0..MaxVersion)
  /\ epc \in {"idle", "version", "change"}
  /\ emod \in Mods
  /\ served \in [Mods -> 1..(MaxEdits + 1)]
  /\ kpc \in {"boot", "sleep", "load", "swap", "changes", "publish", "send", "remove"}
  /\ kwhy \in {"version", "timeout"}
  /\ kver \in (0..MaxVersion) \cup InitVersions
  /\ kdata \in [Mods -> 1..(MaxEdits + 1)]
  /\ klist \subseteq Mods
  /\ subs \in [Conns -> SUBSET Mods]
  /\ book \subseteq Mods \X Fds
  /\ push \subseteq Fds \X Mods
  /\ dpc \in [Workers -> {"none", "subscribe", "hosts", "reply", "push", "pushhosts"}]
  /\ dreq \in [Workers -> {<<>>} \cup ((Conns \cup Fds) \X Mods)]
  /\ need \in [Workers -> SUBSET (Fds \X Mods)]
  /\ dval \in [Workers -> 0..(MaxEdits + 1)]
  /\ view \in [Conns -> [Mods -> 0..(MaxEdits + 1)]]

DnsInit ==
  /\ Init
  /\ dbData = [m \in Mods |-> 1]
  /\ dbVersion = 0
  /\ changes = {}
  /\ epc = "idle"
  /\ emod = CHOOSE m \in Mods : TRUE
  /\ served = [m \in Mods |-> 1]
  /\ kpc = "boot"
  /\ kwhy = "version"
  /\ kver \in InitVersions
  /\ kdata = [m \in Mods |-> 1]
  /\ klist = {}
  /\ subs = [k \in Conns |-> {}]
  /\ book = {}
  /\ push = {}
  /\ dpc = [w \in Workers |-> "none"]
  /\ dreq = [w \in Workers |-> <<>>]
  /\ need = [w \in Workers |-> {}]
  /\ dval = [w \in Workers |-> 0]
  /\ view = [k \in Conns |-> [m \in Mods |-> 0]]

-----------------------------------------------------------------------------
(* Whoever edits the database *)

EditRows(m) ==
  /\ epc = "idle"
  /\ EarlyEdits \/ kpc # "boot"
  /\ dbData[m] <= MaxEdits
  /\ dbData' = [dbData EXCEPT ![m] = @ + 1]

\* The version of an edit: a new time stamp, or the last one again.
Stamp(v) == v = dbVersion + 1 \/ (SameSecond /\ v = dbVersion /\ v > 0)

EditInTransaction(m, v) ==
  /\ Transactions
  /\ EditRows(m)
  /\ Stamp(v)
  /\ dbVersion' = v
  /\ changes' = changes \cup {<<m, v>>}
  /\ UNCHANGED <<epc, emod, checkVars, subVars, callVars, serverVars>>

ScriptRows(m) ==
  /\ ~Transactions
  /\ EditRows(m)
  /\ epc' = "version"
  /\ emod' = m
  /\ UNCHANGED <<dbVersion, changes, checkVars, subVars, callVars, serverVars>>

ScriptVersion ==
  /\ epc = "version"
  /\ dbVersion' = dbVersion + 1
  /\ epc' = "change"
  /\ UNCHANGED <<dbData, changes, emod, checkVars, subVars, callVars, serverVars>>

ScriptChange ==
  /\ epc = "change"
  /\ changes' = changes \cup {<<emod, dbVersion>>}
  /\ epc' = "idle"
  /\ UNCHANGED <<dbData, dbVersion, emod, checkVars, subVars, callVars, serverVars>>

Editor ==
  \/ \E m \in Mods, v \in 0..MaxVersion : EditInTransaction(m, v)
  \/ \E m \in Mods : ScriptRows(m)
  \/ ScriptVersion
  \/ ScriptChange

-----------------------------------------------------------------------------
(* check_route_changes *)

KGoto(from, to) == kpc = from /\ kpc' = to

AfterReload == IF kwhy = "version" THEN "changes" ELSE "sleep"

\* remove_changes(true)
KBoot ==
  /\ KGoto("boot", "sleep")
  /\ \/ changes' = {}
     \/ DbFails /\ UNCHANGED changes
  /\ UNCHANGED <<dbData, dbVersion, epc, emod, served, kwhy, kver, kdata, klist,
                 subVars, callVars, serverVars>>

\* load_version returns 1
KNewVersion ==
  /\ KGoto("sleep", "load")
  /\ dbVersion # kver
  /\ kver' = dbVersion
  /\ kwhy' = "version"
  /\ UNCHANGED <<served, kdata, klist, dbVars, subVars, callVars, serverVars>>

\* load_version returns 0 or -1, and wait_time has passed.
KTimeout ==
  /\ KGoto("sleep", "load")
  /\ DbFails \/ dbVersion = kver
  /\ kwhy' = "timeout"
  /\ UNCHANGED <<served, kver, kdata, klist, dbVars, subVars, callVars, serverVars>>

\* load_route_data returns 0
KLoad ==
  /\ KGoto("load", "swap")
  /\ kdata' = dbData
  /\ UNCHANGED <<served, kwhy, kver, klist, dbVars, subVars, callVars, serverVars>>

\* load_route_data returns -1
KLoadFails ==
  /\ DbFails
  /\ KGoto("load", AfterReload)
  /\ kwhy' = "version"
  /\ UNCHANGED <<served, kver, kdata, klist, dbVars, subVars, callVars, serverVars>>

KSwap ==
  /\ KGoto("swap", AfterReload)
  /\ served' = kdata
  /\ kwhy' = "version"
  /\ UNCHANGED <<kver, kdata, klist, dbVars, subVars, callVars, serverVars>>

\* load_changes: the rows up to _version, or none when the query fails.
KLoadChanges ==
  /\ KGoto("changes", "publish")
  /\ \/ klist' = {m \in Mods : \E v \in 0..kver : <<m, v>> \in changes}
     \/ DbFails /\ klist' = {}
  /\ UNCHANGED <<served, kwhy, kver, kdata, dbVars, subVars, callVars, serverVars>>

\* publish: entries for the subscribers, then send_task.
KPublish ==
  /\ KGoto("publish", "send")
  /\ push' = push \cup {e \in Fds \X klist : <<e[2], e[1]>> \in book}
  /\ BroadcastBegin
  /\ klist' = {}
  /\ UNCHANGED <<served, kwhy, kver, kdata, subs, book, dbVars, callVars>>

KSendTask ==
  /\ kpc = "send"
  /\ SendTask
  /\ kpc' = IF bpos' = 0 THEN "remove" ELSE "send"
  /\ UNCHANGED <<served, kwhy, kver, kdata, klist, dbVars, subVars, callVars>>

\* A mutant of KRemoveChanges: rows newer than _version are deleted as well.
KRemoveAll ==
  /\ KGoto("remove", "sleep")
  /\ changes' = {}
  /\ UNCHANGED <<dbData, dbVersion, epc, emod, served, kwhy, kver, kdata, klist,
                 subVars, callVars, serverVars>>

\* remove_changes(false)
KRemoveChanges ==
  /\ KGoto("remove", "sleep")
  /\ \/ changes' = {c \in changes : c[2] > kver}
     \/ DbFails /\ UNCHANGED changes
  /\ UNCHANGED <<dbData, dbVersion, epc, emod, served, kwhy, kver, kdata, klist,
                 subVars, callVars, serverVars>>

CheckRouteChanges ==
  \/ KBoot
  \/ KNewVersion
  \/ KTimeout
  \/ KLoad
  \/ KLoadFails
  \/ KSwap
  \/ KLoadChanges
  \/ KPublish
  \/ KSendTask
  \/ KRemoveChanges

-----------------------------------------------------------------------------
(* get_route, in worker w *)

DGoto(w, from, to) == dpc[w] = from /\ dpc' = [dpc EXCEPT ![w] = to]

\* A message of connection k asks for module m.
Request(w, f, m) ==
  /\ DGoto(w, "none", "subscribe")
  /\ DoRead(w, f)
  /\ dreq' = [dreq EXCEPT ![w] = <<ioEvs[w][f], m>>]
  /\ UNCHANGED <<need, dval, view, dbVars, checkVars, subVars>>

Subscribe(w) ==
  /\ DGoto(w, "subscribe", "hosts")
  /\ LET k == dreq[w][1]
         m == dreq[w][2]
     IN /\ subs' = [subs EXCEPT ![k] = @ \cup {m}]
        /\ book' = IF m \in subs[k] THEN book ELSE book \cup {<<m, connfd[k]>>}
  /\ UNCHANGED <<push, dreq, need, dval, view, dbVars, checkVars, serverVars>>

GetHosts(w) ==
  /\ DGoto(w, "hosts", "reply")
  /\ dval' = [dval EXCEPT ![w] = served[dreq[w][2]]]
  /\ UNCHANGED <<dreq, need, view, dbVars, checkVars, subVars, serverVars>>

\* send_message
Reply(w) ==
  /\ DGoto(w, "reply", "none")
  /\ view' = [view EXCEPT ![dreq[w][1]][dreq[w][2]] = dval[w]]
  /\ dreq' = [dreq EXCEPT ![w] = <<>>]
  /\ dval' = [dval EXCEPT ![w] = 0]
  /\ UNCHANGED <<need, dbVars, checkVars, subVars, serverVars>>

-----------------------------------------------------------------------------
(* push_change_task, in worker w *)

\* A mutant of MakePublishMap: the descriptors of the loop are not consulted.
MakePublishMapAnyFd(w) ==
  /\ wpc[w] = "run"
  /\ DGoto(w, "none", "push")
  /\ need' = [need EXCEPT ![w] = push]
  /\ push' = {}
  /\ UNCHANGED <<subs, book, dreq, dval, view, dbVars, checkVars, serverVars>>

\* make_publish_map moves the entries of the loop's own descriptors.  It
\* erases the element its iterator stands on and then increments it, which is
\* undefined: the loop may end after any number of erased entries.
MakePublishMap(w) ==
  /\ wpc[w] = "run"
  /\ DGoto(w, "none", "push")
  /\ LET mine == {e[1] : e \in push} \cap epoll[w] IN
     \E fds \in SUBSET mine :
       /\ mine # {} => fds # {}
       /\ need' = [need EXCEPT ![w] = {e \in push : e[1] \in fds}]
       /\ push' = {e \in push : e[1] \notin fds}
  /\ UNCHANGED <<subs, book, dreq, dval, view, dbVars, checkVars, serverVars>>

PushGetHosts(w, f, m) ==
  /\ DGoto(w, "push", "pushhosts")
  /\ <<f, m>> \in need[w]
  /\ dreq' = [dreq EXCEPT ![w] = <<f, m>>]
  /\ dval' = [dval EXCEPT ![w] = served[m]]
  /\ UNCHANGED <<need, view, dbVars, checkVars, subVars, serverVars>>

\* conn = tcp_server::conns[fd], without the lock; send_message unless NULL.
PushSend(w) ==
  /\ DGoto(w, "pushhosts", "push")
  /\ LET f == dreq[w][1]
         m == dreq[w][2]
     IN /\ view' = IF f \in Slots /\ conns[f] \in Conns
                     THEN [view EXCEPT ![conns[f]][m] = dval[w]]
                     ELSE view
        /\ need' = [need EXCEPT ![w] = @ \ {<<f, m>>}]
  /\ dreq' = [dreq EXCEPT ![w] = <<>>]
  /\ dval' = [dval EXCEPT ![w] = 0]
  /\ UNCHANGED <<dbVars, checkVars, subVars, serverVars>>

PushDone(w) ==
  /\ DGoto(w, "push", "none")
  /\ need[w] = {}
  /\ RunTask(w)
  /\ UNCHANGED <<dreq, need, dval, view, dbVars, checkVars, subVars>>

-----------------------------------------------------------------------------
(* The connection hooks *)

\* create_subscribe
CreateSubscribe(w) ==
  /\ StartCb(w)
  /\ subs' = [subs EXCEPT ![wconn[w]] = {}]
  /\ UNCHANGED <<book, push, dbVars, checkVars, callVars>>

\* A mutant of Unsubscribe: _book_list is left alone.
UnsubscribeKeepsBook(w, m) ==
  /\ wpc[w] = "closecb"
  /\ m \in subs[wconn[w]]
  /\ subs' = [subs EXCEPT ![wconn[w]] = @ \ {m}]
  /\ UNCHANGED <<book, push, dbVars, checkVars, callVars, serverVars>>

\* clear_subscribe: one turn of its loop, unsubscribe(mod, fd).
Unsubscribe(w, m) ==
  /\ wpc[w] = "closecb"
  /\ m \in subs[wconn[w]]
  /\ subs' = [subs EXCEPT ![wconn[w]] = @ \ {m}]
  /\ book' = book \ {<<m, connfd[wconn[w]]>>}
  /\ UNCHANGED <<push, dbVars, checkVars, callVars, serverVars>>

ClearSubscribeDone(w) ==
  /\ wpc[w] = "closecb"
  /\ subs[wconn[w]] = {}
  /\ CloseCb(w)
  /\ UNCHANGED dnsVars

-----------------------------------------------------------------------------
\* Steps of the server that the service does not take part in.
ServerStep(w) ==
  /\ \/ EpollWait(w)
     \/ DispatchDone(w)
     \/ RecvTasks(w)
     \/ AddTask(w)
     \/ TasksDone(w)
     \/ Construct(w)
     \/ Increase(w)
     \/ \E f \in Fds : CleanConn(w, f)
     \/ Decrease(w)
     \/ DelEvent(w)
     \/ CloseFd(w)
  /\ dpc[w] = "none"
  /\ UNCHANGED dnsVars

ServiceStep(w) ==
  \/ \E f \in Fds, m \in Mods : Request(w, f, m) \/ PushGetHosts(w, f, m)
  \/ Subscribe(w)
  \/ GetHosts(w)
  \/ Reply(w)
  \/ MakePublishMap(w)
  \/ PushSend(w)
  \/ PushDone(w)
  \/ CreateSubscribe(w)
  \/ \E m \in Mods : Unsubscribe(w, m)
  \/ ClearSubscribeDone(w)

DnsNext ==
  \/ Editor
  \/ CheckRouteChanges
  \/ \E w \in Workers : ServerStep(w) \/ ServiceStep(w)
  \/ (Acceptor \/ \E k \in Conns : Client(k)) /\ UNCHANGED dnsVars

DnsSpec == DnsInit /\ [][DnsNext]_allVars

-----------------------------------------------------------------------------
(* Properties *)

\* _book_list is exact: it holds a module and a descriptor just when the
\* connection that now has the descriptor has subscribed to the module, so a
\* reused descriptor never inherits subscriptions.
BookExact ==
  \A m \in Mods, f \in Fds :
    <<m, f>> \in book <=> \E k \in Conns : connfd[k] = f /\ m \in subs[k]

\* push_change_task reads conns[fd] without the lock; still, what it finds is
\* a connection that is on line and belongs to the worker's own loop.
PushToOwnConnection ==
  \A w \in Workers : \A e \in need[w] :
    e[1] \in Slots =>
      /\ conns[e[1]] \in Conns
      /\ stage[conns[e[1]]] = "live"
      /\ ioEvs[w][e[1]] = conns[e[1]]

\* Modules are pushed to clients that subscribed to them ("the subscribed
\* clients of the modified modid/cmdid", dns_service.cc:100).
PushOnlyToSubscribers ==
  \A w \in Workers : \A e \in need[w] :
    e[1] \in Slots /\ conns[e[1]] \in Conns => e[2] \in subs[conns[e[1]]]

\* A subscriber that was told something older than the database holds.
Stale(k, m) ==
  stage[k] = "live" /\ m \in subs[k] /\ view[k][m] \in 1..(dbData[m] - 1)

\* Worker w will yet call make_publish_map.
TaskComing(w) ==
  \/ bpos \in 1..w
  \/ \E i \in DOMAIN queue[w] : queue[w][i] = NewTask
  \/ \E i \in DOMAIN batch[w] : batch[w][i] = NewTask
  \/ ready[w] > (IF dpc[w] \in {"push", "pushhosts"} THEN 1 ELSE 0)

\* What is still going to repair the subscriber's view.
OnItsWay(k, m) ==
  \/ epc # "idle" /\ emod = m
  \/ /\ \E v \in 0..MaxVersion : <<m, v>> \in changes
     /\ dbVersion # kver \/ (kwhy = "version" /\ kpc \in {"load", "swap", "changes"})
  \/ kpc = "publish" /\ m \in klist
  \/ \E w \in Workers :
       /\ ioEvs[w][connfd[k]] = k
       /\ \/ <<connfd[k], m>> \in push /\ TaskComing(w)
          \/ <<connfd[k], m>> \in need[w]
          \/ dreq[w] = <<k, m>> /\ dpc[w] \in {"subscribe", "hosts", "reply"}

\* No update is lost: a subscriber that has missed an edit always has a change
\* row, a publish, a push entry with a task to come, or an answer on its way.
NoLostUpdate == \A k \in Conns, m \in Mods : Stale(k, m) => OnItsWay(k, m)

\* A connection is never told of older hosts than it was told before, though
\* answers and pushes read the table and send in separate steps.
NeverToldOlder ==
  [][\A k \in Conns, m \in Mods : view'[k][m] >= view[k][m]]_allVars

-----------------------------------------------------------------------------
(* The inductive invariant behind BookExact, PushToOwnConnection and          *)
(* NeverToldOlder                                                             *)

DnsType ==
  /\ dbData \in [Mods -> Nat]
  /\ served \in [Mods -> Nat]
  /\ kdata \in [Mods -> Nat]
  /\ klist \subseteq Mods
  /\ subs \in [Conns -> SUBSET Mods]
  /\ book \subseteq Mods \X Fds
  /\ push \subseteq Fds \X Mods
  /\ dpc \in [Workers -> {"none", "subscribe", "hosts", "reply", "push", "pushhosts"}]
  /\ dreq \in [Workers -> {<<>>} \cup ((Conns \cup Fds) \X Mods)]
  /\ need \in [Workers -> SUBSET (Fds \X Mods)]
  /\ dval \in [Workers -> Nat]
  /\ view \in [Conns -> [Mods -> Nat]]

\* The table that is served is never ahead of the database nor of a reload.
DataInv ==
  \A m \in Mods :
    /\ served[m] <= dbData[m]
    /\ kdata[m] <= dbData[m]
    /\ kpc = "swap" => served[m] <= kdata[m]

\* Subscriptions come with the first request and go with clear_subscribe.
SubsInv == \A k \in Conns : subs[k] # {} => stage[k] \in {"live", "closing"}

\* The connections of worker w's loop.
InLoop(w) == {ioEvs[w][f] : f \in Fds} \ {None}

\* The connection that worker w is going to answer or to push to.
Told(w) == IF dpc[w] \in {"push", "pushhosts"} THEN ioEvs[w][dreq[w][1]] ELSE dreq[w][1]

\* Inside get_route the worker is in event_process, inside push_change_task it
\* runs its tasks; either way it talks to connections of its own loop.
CallInv(w) ==
  /\ dpc[w] \in {"subscribe", "hosts", "reply"} => wpc[w] = "dispatch"
  /\ dpc[w] \in {"push", "pushhosts"} => wpc[w] = "run"
  /\ dpc[w] \in {"subscribe", "hosts", "reply", "pushhosts"} =>
       Told(w) \in InLoop(w) /\ dreq[w][2] \in Mods
  /\ dpc[w] = "pushhosts" => dreq[w] \in need[w]

\* The entries that make_publish_map took are for descriptors of the loop.
NeedInv(w) ==
  /\ need[w] # {} => dpc[w] \in {"push", "pushhosts"}
  /\ \A e \in need[w] : ioEvs[w][e[1]] # None

\* The hosts that a worker has read and not sent yet are not older than what
\* the connection was told before.
HeldInv(w) ==
  dpc[w] \in {"reply", "pushhosts"} =>
    view[Told(w)][dreq[w][2]] <= dval[w] /\ dval[w] <= served[dreq[w][2]]

\* Nobody was told more than is served.
ViewInv == \A k \in Conns, m \in Mods : view[k][m] <= served[m]

DnsInv ==
  /\ ServerInv
  /\ DnsType
  /\ DataInv
  /\ SubsInv
  /\ BookExact
  /\ \A w \in Workers : CallInv(w) /\ NeedInv(w) /\ HeldInv(w)
  /\ ViewInv
=============================================================================
