# Rins: a TLA+ verification development

Rins is a remote name service written in C++.  A DNS service maps a module
(`modid`, `cmdid`) to the hosts that serve it, a load-balancing agent on each
machine picks a host for local clients, and a report service stores call
statistics.  All of them run on one hand-written reactor: event loops, a thread
pool, message queues between threads, pooled buffers and TCP/UDP endpoints.

## 1. The parts of the system

| Part | Source | Role |
|---|---|---|
| thread_queue | `reactor/include/thread_queue.h` | locked queue + eventfd, the only channel between threads |
| thread_pool | `reactor/src/thread_pool.cc` | worker threads, round-robin choice, task broadcast |
| event_loop | `reactor/src/event_loop.cc` | epoll loop, callbacks per fd, deferred tasks |
| tcp_server | `reactor/src/tcp_server.cc` | accept, connection table `conns[]`, connection count |
| tcp_conn | `reactor/src/tcp_conn.cc` | one connection: framing, buffered output, start and close hooks |
| buf_pool, io_buf | `reactor/src/buf_pool.cc`, `io_buf.cc` | free lists of buffers in seven sizes, shared by all threads |
| reactor_buf | `reactor/src/reactor_buf.cc` | input and output buffers of a connection |
| tcp_client | `reactor/src/tcp_client.cc` | outgoing connection with reconnect |
| udp_server, udp_client | `reactor/src/udp_*.cc` | datagram endpoints |
| config_file | `reactor/src/config_file.cc` | ini-style configuration |
| dns_route | `dns/src/dns_route.cc` | route tables, double-buffered under a rwlock, loaded from MySQL |
| subscribe_list | `dns/src/subscribe.cc` | who subscribed to which module, pending pushes |
| dns_service | `dns/src/dns_service.cc` | request handler, connection hooks, change-checking thread |
| route_lb, load_balance | `load_balance_agent/src/route_lb.cc`, `load_balance.cc` | the agent's host cache |
| agent threads | `load_balance_agent/src/{agent_udp_server,dns_client,report_client,main_server}.cc` | UDP front end, DNS and report back ends |
| reporter | `report/src/*.cc`, `report/include/store_thread.h` | report service and its DB threads |
| client API | `api/cpp/src/rins_api.cc` | get_host over UDP |
| generated messages | `base/proto/rins.pb.{cc,h}` | accessors, serialising and parsing |

How they interact: the main thread of a server accepts a connection and sends
it through a thread_queue to a worker of the thread_pool.  The worker's
event_loop constructs the tcp_conn, reads and writes it and tears it down.  In
the DNS service a further thread polls the database, swaps new routes in and
broadcasts a push task to all workers.  Shared between the threads are the
queues, the buffer pool, the connection table, the two route maps and the
subscription lists.  The reporter is such a server too, with threads of its own
that store what the workers hand them.  The agent reaches the DNS service and
the reporter through a tcp_client each, fed by a thread_queue, and clients reach
the agent through the API and a udp_server.

## 2. The modules

| Module | Models | Its promise |
|---|---|---|
| `ThreadQueue` | `send` and `recv`, statement by statement, with the mutex and the eventfd counter | `Mailbox`: all messages, once, in order |
| `BufPool` | `alloc_buf` and `revert` at the level of pointers | exclusive, clean buffers of the right capacity |
| `TcpConn` | one connection down to the bytes: `do_read`, `do_write`, `send_message`, both buffers, the event mask, the router | whole requests in order, exact replies |
| `TcpServer` | `do_accept`, thread_pool, worker loops, `tcp_conn` constructor and `clean_conn`, `conns[]`, broadcasts | exact table, events reach their owner |
| `RouteStore` | class `route` and the checking thread's reload, with readers and an editor of the database | `RouteTable`: one snapshot, replaced atomically |
| `DnsService` | `get_route`, the connection hooks, `subscribe_list`, publishing and pushing; EXTENDS `TcpServer` | subscribers hear of every edit |
| `Proto` | the generated classes of `rins.proto`, on bytes | whole messages come back, cuts are noticed |
| `TcpClient` | connecting, reconnecting, both buffers, and the agent callbacks that drain a queue into the client | whole requests in order, also across connections |
| `RinsApi` | `rins_client::get_host`, `udp_server` and the agent's `get_host_cb` | a call gets the answer to itself |
| `ConfigFile` | `load` and the accessors, with a reference definition of what the text means | operators for `Reporter` |
| `Reporter` | `get_report_status`, the unlocked index, the storing threads; EXTENDS `ConfigFile` | every report is stored |

`Mailbox` and `RouteTable` are abstract specifications that `ThreadQueue` and
`RouteStore` are shown to implement.  The other modules use what was shown
there: `TcpServer` has a FIFO where the code has a thread_queue, and
`DnsService` has one atomic table where the code has two maps.  `MC*` modules
give the constants their values for TLC.  `*Proofs` modules hold the theorems.

### State and actions

Variables carry the names of the members they stand for, and the declaration of
each says which member that is.  Variables marked *history* record what
happened and are read by properties only.  A program counter per thread
(`spc`, `cpc`, `pc`, `wpc`, `apc`, `kpc`, ...) names the place in a handler
where another thread may step in.  A handler that is one critical section is
one action; a handler that touches shared state outside a lock has an action for
each access.  Operators called `...Short`, `...NoLock`, `...Late` and so on,
introduced by "A mutant of", are broken variants used to confirm that a
property can fail.  No specification uses them.

* **ThreadQueue.** `SendLock, SendPush, SendNotify, SendUnlock` are the four
  statements of `send`; `RecvLock, RecvRead, RecvSwap, RecvUnlock` those of
  `recv`; `Handle` is a turn of the callback's loop.  `SendNotify` fails when
  the counter is full, as a non-blocking eventfd does.  `Register` is the
  consumer's late `set_callback`.
* **BufPool.** `cap`, `next`, `pool` are the fields and list heads.  The
  unlocked writes (`AllocClear`, `RevertReset`) are steps of their own.
  `AllocExit` is `exit(1)` at the limit.
* **TcpConn.** A byte is a pair of message and position.  A `reactor_buf` is the
  empty sequence (null) or one record of capacity, head and unprocessed bytes.
  `Arrive` cuts the stream anywhere, `WriteSome` lets `write` take any number of
  bytes, `HandleMessage` is one turn of `do_read`'s loop.  A failing assertion,
  those of `read_data`, `send_data` and `write2fd` that the buffer is at its
  front included, sets `pc` to "aborted".  When `send_data` writes past the end of its buffer
  `pc` becomes "overrun" and the connection stops: what follows is undefined.
* **TcpServer.** `stage` is how far a connection is.  `Accept` gives out the
  lowest free descriptor, as the kernel does, so descriptors are reused at once.
  `EpollWait` takes a batch of events; the callbacks then run one by one.
  `RecvTasks` takes all that is queued; `RunTask` runs one of the tasks that were
  collected.
* **RouteStore.** `maps` and `data` are the two maps and `_data_map`.  `Clear`,
  `Query`, `Insert` rebuild the spare map without a lock, row by row; `Swap`
  takes the write lock.  `QueryFails` covers a failing query and one without
  rows.  `_version` is not initialised in the code and starts with any value;
  RouteData starts with any rows, or none.
* **DnsService.** The hosts of a module are the number of edits they contain.
  `Request, Subscribe, GetHosts, Reply` are `get_route`; `MakePublishMap,
  PushGetHosts, PushSend, PushDone` are `push_change_task`; `K...` actions are
  `check_route_changes`.  Edits are transactions or the three statements of
  `base/sql/test_insert_dns.sql`.
* **Proto.** A class is the list of its fields, and each generated function,
  one block per field in the code, is written once over that list.  Bytes are
  numbers; a varint is cut into groups and a negative int32 is widened as the
  library does.  `Set` and `Add` build a message, `Receive(n)` parses its first
  `n` bytes into a new or used object, `Relay` parses it as another class.
* **TcpClient.** `mask` and `wcb` are the entry in `_io_evs`.  `CleanConn` is
  `clean_conn` with `do_connect`, whose three outcomes are parameters.  A write
  error leaves `pc` at "write": the loop of `do_write` goes on with the new
  socket.  `NewRequest` takes the queue, as `recv` does; `SendNext` is a turn of
  the callback's loop.  The callbacks are uninitialised until they are set;
  calling one that is not is a choice that ends the program.
* **RinsApi.** A call is `Send`, then a wait that `RecvAnswer`, `RecvRefused` or
  `RecvInterrupted` ends or continues.  `RecvAnswer` is one turn of the loop with
  its tests in the code's order: the id (`WrongId`), the body (`Unparsable`), the
  sequence number (`Older`), and after the loop `Matches`.  `Receive` is one
  `recvfrom` of `udp_server::do_read`, which overwrites `_read_buf` (`cur`) and
  `_client_addr` (`addr`); `Answer` is the handler that answers there.  It
  answers with one of `Replies`: "response" is `ID_GetHostResponse`, which
  `get_host` expects, "msgid" the id of the request, which `get_host_cb` passes
  back.  `Crash` is `get_host_cb`'s call through its null user data, which ends
  the agent with all its servers.  `BrokenAnswer` stands for a server that is not
  in the repository.  Datagrams carry the call they belong to, which only
  properties read.
* **Reporter.** `Main` reads the configuration and starts the threads.
  `Load_index` and `Store_index` are the loads and stores of `index++` and of
  the remainder, which the build without optimisation keeps apart.  `Connect` is
  the constructor of `store_report`, which has no counterpart that disconnects.
  A report has results for the first `results[r]` hosts: none, if it was empty
  or did not parse, as the outcome of parsing is ignored.

## 3. The runs

Passing runs:

| Run | Instance | What it shows |
|---|---|---|
| `thread_queue` | 2 senders, 4 sends, eventfd full at 2 | `NoLostWakeup`, `AllDelivered`, refinement of `Mailbox` |
| `buf_pool` | 2 threads, 2 capacities, 3 buffers, 2 more before the limit | `ExclusiveOwnership`, `AllocResult`, `NothingLeaks`, `MemoryAccounted` |
| `tcp_conn` | four peers, buffers of 8 and 16 bytes, header of 2 | `RequestsIntact`, `RepliesIntact`, `AssertionsHold`, `RequestsAnswered` |
| `tcp_server` | 2 workers, 3 arrivals of which 2 broadcasts, 3 descriptors, limit 2 | `TableExact`, `DispatchToOwner`, `HandedOverIsServed`, `GoneIsCleaned`, `BroadcastReachesAll` |
| `route_store` | 2 modules, 1 reader, any initial rows, 2 edits, failing queries | `IteratorIsSafe`, `FreshEventually`, refinement of `RouteTable` |
| `dns_service` | 2 workers, 1 connection, 2 edits in transactions | `NoLostUpdate` |
| `dns_faults` | 2 workers, 2 connections on 1 descriptor, script edits, edits before the start, failing queries | `BookExact`, `PushToOwnConnection`, `NeverToldOlder` |
| `proto` | all classes, int32 of 12 bits sent as 26, up to 2 rows, every cut | `SizeExact`, `RoundTrip`, `CutIsDetected`, `MergeAgrees`, `UnknownKept` |
| `tcp_client` | 3 requests, 2 replies per connection, 1 close, frames of 3 bytes, send buffer of 2 | `RepliesWhole`, `RequestsWhole`, `Drained` |
| `rins_api` | 2 clients with 3 calls and 1, 2 ports, both replies, 2 faults, `_seqid` modulo 2 | `RightAnswer`, `FailsOnlyForCause`, `Returns` |
| `reporter` | 2 workers, up to 2 storing threads, 2 reports on up to 2 hosts, all configurations of up to 3 lines | `ConfigAgrees`, `CrashOnlyIfRaced`, `MissingOnlyIfAllFailed`, `RowFromLastOfAThread`, `ReportsAreStored` |

The runs leave out what says little or is proved for all values of the
constants.  `TypeOK` (`DnsTypeOK` in `DnsService`) states the ranges of the
variables in each module; it is a theorem where section 4 names `TypeCorrect`,
part of the proved invariant of `BufPool`, `TcpConn` and `Reporter`, and for the others it
holds on the run's instance when `INVARIANT TypeOK` is added to the
configuration.  `FifoDelivery`, `ServedIsSnapshot` and `NeverOlder`
are theorems (section 4), and so are `InputFits` and `EventsArmed` of `TcpConn`.

`NoLostUpdate` depends on its assumptions, which are constants of the module.
TLC also finds it violated when two edits carry the same time stamp
(`SameSecond`), when a query fails (`DbFails`), and when an edit precedes the
start of the checking thread (`EarlyEdits`).  Each is a one-line change of
`DnsService.cfg`.

Several properties of the newer modules name the case in which the code does
not keep them, so that the rest can be relied on: `RepliesWhole` and
`RequestsWhole` except after a reply or a request was cut, `Returns` except
after a loss (there is no timeout), `RightAnswer` and `FailsOnlyForCause` until
`_seqid` has come round, `CrashOnlyIfRaced` except after a race on the index or
with an unusable configuration.  Those cases occur in the runs.

One run ends in a counterexample.  `tcp_client_reconnect` checks `Reconnects`:
a client whose server accepts is connected again, as the comments at
`tcp_client.cc:207` and `:219` say.  After a write error `do_write` goes on with
the new socket; if its handshake is done by then, the output is written and line
203 removes EPOLLOUT, under which `connection_delay` was waiting.  The client
stays unconnected and refuses every message.

### Known deviations

Further disagreements between the code and a text of the repository, each with a
configuration that makes TLC print the counterexample
(`tlc -config <file> <MC module>`):

| Configuration | Module, property | The code | The text |
|---|---|---|---|
| `TcpServerMax.cfg` | `MCTcpServer`, `AtMostMaxConns` | more than `_max_conns` connections get in, because the count lags behind `accept` | `tcp_server.cc:150`, `dns.conf:2` |
| `RouteStoreEmpty.cfg` | `MCRouteStore`, `FreshEventually` | after the last row is deleted the old hosts are served for ever | `dns_service.cc:93` |
| `DnsScript.cfg` | `MCDnsService`, `NoLostUpdate` | a check between the script's statements consumes the version without the change row; nobody is told | `dns_service.cc:100` |
| `DnsPushReuse.cfg` | `MCDnsService`, `PushOnlyToSubscribers` | a push entry outlives its connection and reaches the next one on that descriptor | `dns_service.cc:100` |
| `DnsErase.cfg` | `MCDnsService`, `NoLostUpdate` | `make_publish_map` increments the iterator it has erased; when the loop ends there, the entry of another subscriber of the same loop stays in `_push_list` with no task to come | `dns_service.cc:100` |
| `TcpConnFits.cfg` | `MCTcpConn`, `OutputFits` | `send_data` replaces the output buffer by one without room for the bytes it already holds, and writes past its end | `io_buf.h:18` |

### Bounds

* Two threads of each racing kind suffice for the pairwise races the locks are
  for; section 4 lists what is proved for any number.
* Four sends with an eventfd limit of two reach the failing write, and a message
  sent before `Register`.
* Three connections over the lowest free descriptor reach a descriptor closed by
  one worker and reused by the other while both hold a batch of events.
  `MaxArrivals` bounds connections and broadcasts together.  With two broadcasts
  a worker may find both tasks, or a connection and a task, in its queue at once.
* The byte lengths in `TcpConn` keep the order of the real ones (header < small
  buffer < frame < large buffer) so that the input grows from one class to the
  next, meets the largest, and exceeds the limit.  Replies in the passing run
  always fit the first output buffer; outgrowing it is the business of
  `TcpConnFits.cfg`.  Requests have bodies: an empty one at the end of the input
  trips the assertion at `reactor_buf.cc:19`.
* One module and one connection with two edits reach an edit during the reload
  and during the push of the previous one.
* `Proto` keeps the sizes apart that matter: small, unsigned and negative values
  take one, two and four bytes, and a sub-message may be empty.
* Frames longer than `TcpClient`'s send buffer are written in pieces, two of
  them fill the output buffer, and one close is enough for output that waits
  across connections.
* `_seqid` modulo 2 with three calls comes round once.  A queue of two overflows
  with two clients and a foreign datagram.  Two faults let two calls be
  interrupted and leave two late answers to the third, of either id.
* Two reports in two workers reach every interleaving of the index's loads and
  stores; three connections to the database are fewer than two threads and two
  reports need.

### Fairness

Liveness assumes weak fairness of each thread's steps: a thread that can run
runs.  Nothing is assumed of clients, senders and editors, except that a peer
that stays reads what it is sent (`PeerReceives` in `TcpConn`, `ServerReads` in
`TcpClient`) and that a connection attempt is answered (`Answer`).  `RouteStore`
also needs strong fairness twice: a database asked again and again does not
fail for ever (`Query`), and the readers do not hold the lock between them for
ever (`Swap`; a default rwlock does not guarantee this under permanent load, so
it is an assumption about the load).

## 4. What is proved

For every value of the constants (any number of threads, connections,
descriptors, buffers, messages, rows, edits, clients and reports) that satisfies
the `ASSUME`s of the module.  These say that bounds are naturals, that sizes are
positive, that names are distinct, in `BufPool` that the capacities are finitely
many and that the constructor's lists do not share buffers and stay below the
limit, in `TcpConn` that some buffer holds a header and that the frames of a
peer's stream follow one another, and in `TcpClient` that `_ibuf` has room for what
a socket's receive buffer holds and one reply: `do_read` ends the program
otherwise.

Each argument has the same shape.  The property is not inductive; an invariant
(`Inv`, `ServerInv`, `DnsInv`, at the end of the component's module) adds what
the actions rely on.  One lemma per action shows that it is kept, the property
follows from it, and `PTL` puts the pieces together.  TLC checked each of these
invariants on the run's instance before it was proved.

| Module | Theorems | What the invariant adds, and why |
|---|---|---|
| `ThreadQueueProofs` | `TypeCorrect`, `WakeupNeverLost`, `DeliveredInOrder`, `ImplementsMailbox` | `NoLostWakeup` speaks of the free mutex only.  `MutexInv` says who owns it, `WakeInv` where the counter is positive inside the critical sections, `BatchInv` when the consumer's local queue is empty (the swap would otherwise put old messages back) |
| `RouteStoreProofs` | `TypeCorrect`, `SnapshotServed`, `IteratorsSafe`, `NeverGoesBack`, `ImplementsTable` | `SpareInv`: what the spare map and the rows still to be inserted amount to at each point of the reload, and that they are no older than what is served.  A swap then keeps both the snapshot and the order |
| `BufPoolProofs` | `BuffersExclusive`, `AllocReturns`, `NothingLost`, `MemoryExact` | `ListInv`: each free list is a sequence of distinct buffers, linked from the head to null, that are exactly the free ones of its capacity.  `RefInv` says what a thread's local pointer is worth at each point, in particular between the unlock and the unlocked write.  `MemoryInv`: `_total_mem` is the number of units in the buffers that exist, counted as a set |
| `TcpConnProofs` | `RequestsDelivered`, `RepliesDelivered`, `NoAssertionFails`, `InputBounded`, `NoOutputForgotten` | `ReadInv`: between two turns of `do_read`'s loop there is a request such that all before it are done with and the input buffer and the socket hold the stream from its first byte on.  `FrontInv`: the buffers are at the front of their memory where `read_data` and `send_data` assert it.  `ReplyInv` says the same of the replies on their way out |
| `TcpClientProofs` | `RepliesSeen`, `RequestsSent` | `InputInv`: less than a header is left in `_ibuf` when the loop is not parsing, so what is read next always fits.  `ArmInv`: `EPOLLIN` is set only on a connection and `do_write` is registered only while output waits, except inside `do_write` itself, which is what `do_read` and `do_write` assert |
| `ServerProofs`, on `TcpServer` | `ConnTableExact`, `EventsReachTheirConnection` | `SocketInv` ties descriptors to connections in both directions, `PendingInv` says that a connection is handed over once, `WorkerInv` that its stage names the one worker at work on it, `EventInv` that a handler in a loop belongs to that loop alone.  Reuse of a descriptor is safe because it leaves the loop before it is closed |
| `ServerProofs`, on `DnsService` | `SubscriptionsExact`, `PushesStayInTheLoop`, `NewsNeverGoesBack` | `ServerInv`, and: who may hold subscriptions (`SubsInv`), that a handler talks to connections of its own loop only (`CallInv`, `NeedInv`), and that the hosts it has read and not yet sent lie between what the connection was told and what is served (`HeldInv`, `ViewInv`, `DataInv`) |
| `RinsApiProofs` | `TypeCorrect`, `RightAnswerReturned`, `FailuresHaveCause`, `AnswersNeedResponseId` | `Genuine`: what each datagram on its way says of the call it belongs to.  `RequestInv`: the request a server handles came from its `_client_addr`, though every datagram overwrites that; so `AnswerInv`: an answer waits in the socket of the client that asked.  `SeqInv`: `_seqid` is the number of the call modulo its range |
| `ReporterProofs` | `ArrayLeftOnlyInARace`, `LastOfAThreadStays`, `NoReportLost` | `StorerInv`: a thread's batch and queue are the end of what it was sent; `RowInv`: where the row of a host comes from.  `CountInv` counts: failed stores, own stores still to come, reports still to be sent and reports sent but not stored are, for a host without a row, together at least two per report with a result for it |

`ServerProofs` speaks of two specifications: `DnsService` EXTENDS `TcpServer`, and
the step lemmas of its first half (stated for the parts of an action that the two
share) are used for both.  The theorems about the server alone rest on
`TcpAssumption` only.  `ImplementsMailbox` and `ImplementsTable` are refinements,
step by step: the detailed action is a step of the abstract specification or
changes nothing it sees.  `NewsNeverGoesBack` is an
action property.

The free lists of `BufPool` are followed from the head through `next`; that the
buffers reached are those of `ListInv`'s sequence is shown with the least element
of a set of positions (`WFMin`), which replaces an induction.  The streams of
`TcpConn` and `TcpClient` are functions from positions to bytes, not repeated
concatenations, for the same reason.  In `TcpConn` each request carries the number
of bytes before it, and which request a byte belongs to is again found as the
least one.  In `TcpClient` all requests have one length and so have all replies,
and a division finds the frame.  That is what a lost connection needs: when it
is not lost within a frame, the output that waits is as many whole frames as its
length says, those of the last accepted requests (`Waiting`).

`RepliesSeen` speaks of the time before a body is handled that has not arrived or
a connection is lost with bytes in `_ibuf` (`cut`), and `RequestsSent` of the time
before a connection is lost within a frame (`torn`): the code keeps the rest of
either.  Both histories are set by the step that does it, so the theorems say that
nothing else spoils a stream.

`RequestsDelivered`, `InputBounded` and `NoOutputForgotten` hold for every
`Requests`, `Caps` and `ReplyLen`.  `RepliesDelivered` assumes `RepliesFit`: some buffer of the pool
holds the body of a reply.  Without it `send_message` takes the header back from
the wrong end of the output.  `NoAssertionFails` also assumes `BodiesThere`, that
no request has an empty body (see the bounds in section 3).  TLC checked `Inv` with
and without `RepliesFit`.  All five speak of the time before an overrun, which
`TcpConnFits.cfg` shows to be possible.

Only model-checked:

* all liveness properties, as fairness and ENABLED are outside the prover;
* what needs induction over data: `ConfigAgrees` (a fold over the lines of a
  file) and everything about `Proto` (recursion over fields and bytes);
* `NoLostUpdate`, which has no proof for all values of the constants because it
  is not true of them: besides `Transactions` and no faults it needs a single
  subscriber in each loop (`DnsErase.cfg` above).

## 5. Reproducing

`tlc -workers 2 -config <run's cfg> <run's module>` for a run, `tlapm
<module>Proofs.tla` for the proofs.  `PROJECT.json` maps each definition to the
lines it models and lists the hazards with the properties that address them.

## 6. Not modelled

* **The agent's request path** behind `get_host_cb` (`route_lb.cc`,
  `load_balance.cc`).  It cannot be reached in the program as it is:
  `get_host_cb` is registered without user data (`agent_udp_server.cc:38`) and
  calls `get_host` through that null pointer (line 26) for the first request.
  `deal_recv_route` is registered under `ID_GetHostResponse`
  (`dns_client.cc:50`) while the DNS service answers with `ID_GetRouteResponse`,
  so no host list is ever filled.  A model would describe a different program.
  `RinsApi` has what `get_host_cb` does with a datagram: it ends the agent
  (`Crash`), or, where the null object is not noticed, answers with the request's
  id (line 30), to which `get_host` reports an error; `AnswersNeedResponseId`
  shows that with such answers no call succeeds.  Reading the rest shows more that
  a repair would have to look at: `deal_recv_route` parses with `msgid` as
  the length (`dns_client.cc:31`), the threads read their index from a variable
  that has gone out of scope (`agent_udp_server.cc:49`), and `(modid + cmdid) % 3` is negative
  for negative sums.
* **`do_accept` without a thread pool** (`tcp_server.cc:160-168`).  With a
  `threadNum` that is not positive the constructor does not assign `_thread_pool`
  at all, so whether this branch is taken is undefined.  `TcpServer` assumes at
  least one worker.
* **udp_client.**  Only its test program uses it.
* **The API's `port` argument** is passed by value, so a caller never sees the
  port that was returned.  Answers shorter than a header, of which the code would
  parse a negative length, are left out.
* **MySQL** beyond the outcomes of a query and the number of connections; arenas,
  reflection and swapping in the generated code; `get_bool`, `get_float` and
  `get_string_list` of `config_file`, which no program calls; logging.
* A connection attempt that fails in `connection_delay` is not repeated by the
  code, and `Reconnects` does not ask for it.
* Set-up code is the initial state, except in `Reporter`.
