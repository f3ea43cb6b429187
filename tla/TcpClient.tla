----------------------------- MODULE TcpClient -----------------------------
(***************************************************************************)
(* tcp_client: a connection that is made without blocking, used by one     *)
(* loop thread, and made again when it is lost.  The user of the client is *)
(* the agent's dns_client or report_client: a thread_queue whose callback  *)
(* sends what other threads have queued.                                   *)
(*                                                                         *)
(* A byte is <<message, position>>, its place in the frame of a request or *)
(* of a reply.  The server and the kernel's side of the socket are the     *)
(* environment: it accepts or refuses, takes what is written, sends        *)
(* replies in pieces of any size and may close at any time.                *)
(*                                                                         *)
(* The constructor leaves both callbacks uninitialised.  One that is not   *)
(* set (the agent's clients set none, no program sets the close callback)  *)
(* may be null or not, and a call through it ends the program.             *)
(***************************************************************************)
EXTENDS Integers, Sequences

CONSTANTS
  HeadLen,    \* MESSAGE_HEAD_LEN
  ReqLen,     \* body length of a request
  RepLen,     \* body length of a reply
  Capacity,   \* of _ibuf and of _obuf: 4194304
  RcvBuf,     \* the socket's receive buffer
  SndBuf,     \* and its send buffer
  OnStart,    \* whether the start callback is set; it sends a request
  MayRefuse,  \* whether the server may refuse a connection
  MaxReqs,    \* bound on the requests
  MaxReps,    \* on the replies of a connection
  MaxCloses   \* and on the connections the server closes

ASSUME ClientAssumption ==
  /\ {HeadLen, ReqLen, RepLen, SndBuf} \subseteq Nat \ {0}
  /\ {MaxReqs, MaxReps, MaxCloses, Capacity, RcvBuf} \subseteq Nat
  /\ {OnStart, MayRefuse} \subseteq BOOLEAN
  /\ RcvBuf + HeadLen + RepLen <= Capacity

VARIABLES
  queue,      \* requests in the thread_queue
  batch,      \* the local queue of its callback
  asked,      \* number of requests made
  sock,       \* the socket: "syn", "est", "refused" or "shut"
  connected,
  mask,       \* the descriptor's mask in _io_evs
  wcb,        \* its write callback: "delay" (connection_delay) or "write"
  ibuf,       \* _ibuf
  obuf,       \* _obuf
  pc,         \* where the loop is
  inb,        \* bytes that have arrived and are not read
  coming,     \* bytes of replies that have not arrived
  room,       \* free bytes of the send buffer
  closes,     \* number of connections the server has closed
  calls,      \* history: bodies the router was called with, on this connection
  reps,       \* history: number of replies of this connection
  sent,       \* history: bytes written on this connection
  accepted,   \* history: requests whose frame is in sent or in obuf
  cut,        \* history: a body was handled before it had arrived
  torn        \* history: a connection was lost within a frame

loopVars == <<connected, mask, wcb, ibuf, obuf, pc>>
netVars == <<sock, inb, coming, room, closes, reps>>
histVars == <<calls, sent, accepted, cut, torn>>
vars == <<queue, batch, asked, loopVars, netVars, histVars>>

-----------------------------------------------------------------------------
Frame(m, len) == [i \in 1..(HeadLen + len) |-> <<m, i>>]
Drop(s, n) == SubSeq(s, n + 1, Len(s))
Prefix(s, n) == IF n < Len(s) THEN SubSeq(s, 1, n) ELSE s
Suffix(s, n) == IF n < Len(s) THEN Drop(s, Len(s) - n) ELSE s

\* The frames of the messages ms, end to end.
Frames(ms, len) ==
  LET size == HeadLen + len
  IN [k \in 1..(size * Len(ms)) |-> <<ms[((k - 1) \div size) + 1], ((k - 1) % size) + 1>>]

\* The first n replies of the server on a connection.
Replies(n) == Frames([k \in 1..n |-> k], RepLen)

\* The bytes that are left begin within a frame.
WithinFrame(s) == s # <<>> /\ s[1][2] # 1

\* A program that has ended, or whose buffer is garbled, is followed no further.
Stopped == pc \in {"aborted", "garbled", "exited"}

\* send_message, on the part r of the state that it changes
SendMessage(r, m) ==
  IF ~r.connected \/ ReqLen + HeadLen > Capacity - Len(r.obuf) THEN r
  ELSE [r EXCEPT !.obuf = @ \o Frame(m, ReqLen),
                 !.accepted = Append(@, m),
                 !.mask = IF r.obuf = <<>> THEN @ \cup {"out"} ELSE @,
                 !.wcb = IF r.obuf = <<>> THEN "write" ELSE @]

Part == [connected |-> connected, obuf |-> obuf, mask |-> mask, wcb |-> wcb,
         accepted |-> accepted]

SetPart(r) ==
  /\ connected' = r.connected
  /\ obuf' = r.obuf
  /\ mask' = r.mask
  /\ wcb' = r.wcb
  /\ accepted' = r.accepted

\* The connection is there: the start callback, EPOLLIN, and EPOLLOUT when
\* output waits.
Established(r) ==
  LET up == [r EXCEPT !.connected = TRUE]
      started == IF OnStart /\ asked < MaxReqs THEN SendMessage(up, asked + 1) ELSE up
  IN [started EXCEPT !.mask = @ \cup {"in"} \cup (IF started.obuf # <<>> THEN {"out"} ELSE {}),
                     !.wcb = IF started.obuf # <<>> THEN "write" ELSE @]

AskedAfterStart == IF OnStart /\ asked < MaxReqs THEN asked + 1 ELSE asked

-----------------------------------------------------------------------------
Byte == Nat \X Nat

\* The type invariant.
TypeOK ==
  /\ {queue, batch, accepted} \subseteq Seq(Nat) /\ asked \in Nat
  /\ sock \in {"syn", "est", "refused", "shut"}
  /\ {connected, cut, torn} \subseteq BOOLEAN
  /\ mask \subseteq {"in", "out"}
  /\ wcb \in {"none", "delay", "write"}
  /\ pc \in {"poll", "drain", "parse", "write", "aborted", "garbled", "exited"}
  /\ {ibuf, obuf, inb, coming, sent} \subseteq Seq(Byte)
  /\ calls \in Seq(Seq(Byte))
  /\ room \in 0..SndBuf
  /\ {closes, reps} \subseteq Nat

\* The constructor: do_connect finds EINPROGRESS.
Init ==
  /\ queue = <<>> /\ batch = <<>> /\ asked = 0
  /\ sock = "syn"
  /\ connected = FALSE
  /\ mask = {"out"} /\ wcb = "delay"
  /\ ibuf = <<>> /\ obuf = <<>>
  /\ pc = "poll"
  /\ inb = <<>> /\ coming = <<>>
  /\ room = SndBuf
  /\ closes = 0 /\ reps = 0
  /\ calls = <<>> /\ sent = <<>> /\ accepted = <<>>
  /\ cut = FALSE /\ torn = FALSE

-----------------------------------------------------------------------------
(* The environment *)

\* Another thread: dns_queue->send.
Enqueue ==
  /\ ~Stopped
  /\ asked < MaxReqs
  /\ asked' = asked + 1
  /\ queue' = Append(queue, asked + 1)
  /\ UNCHANGED <<batch, loopVars, netVars, histVars>>

Answer(how) ==
  /\ ~Stopped
  /\ sock = "syn"
  /\ sock' = how
  /\ UNCHANGED <<queue, batch, asked, loopVars, inb, coming, room, closes, reps, histVars>>

ServerReplies ==
  /\ ~Stopped
  /\ sock = "est"
  /\ reps < MaxReps
  /\ reps' = reps + 1
  /\ coming' = coming \o Frame(reps + 1, RepLen)
  /\ UNCHANGED <<queue, batch, asked, loopVars, sock, inb, room, closes, histVars>>

Arrive(n) ==
  /\ ~Stopped
  /\ sock = "est"
  /\ n <= Len(coming) /\ Len(inb) + n <= RcvBuf
  /\ inb' = inb \o Prefix(coming, n)
  /\ coming' = Drop(coming, n)
  /\ UNCHANGED <<queue, batch, asked, loopVars, sock, room, closes, reps, histVars>>

ServerReads ==
  /\ ~Stopped
  /\ sock = "est"
  /\ room < SndBuf
  /\ room' = SndBuf
  /\ UNCHANGED <<queue, batch, asked, loopVars, sock, inb, coming, closes, reps, histVars>>

ServerCloses ==
  /\ ~Stopped
  /\ sock = "est"
  /\ closes < MaxCloses
  /\ closes' = closes + 1
  /\ sock' = "shut"
  /\ coming' = <<>>
  /\ UNCHANGED <<queue, batch, asked, loopVars, inb, room, reps, histVars>>

-----------------------------------------------------------------------------
\* new_dns_request, new_report_request: all that is queued is taken at once,
\* and each is sent, or dropped by send_message.
NewRequest ==
  /\ pc = "poll"
  /\ queue # <<>>
  /\ batch' = queue
  /\ queue' = <<>>
  /\ pc' = "drain"
  /\ UNCHANGED <<asked, connected, mask, wcb, ibuf, obuf, netVars, histVars>>

SendNext ==
  /\ pc = "drain"
  /\ batch # <<>>
  /\ SetPart(SendMessage(Part, Head(batch)))
  /\ batch' = Tail(batch)
  /\ UNCHANGED <<queue, asked, ibuf, pc, netVars, calls, sent, cut, torn>>

SendDone ==
  /\ pc = "drain"
  /\ batch = <<>>
  /\ pc' = "poll"
  /\ UNCHANGED <<queue, batch, asked, connected, mask, wcb, ibuf, obuf, netVars, histVars>>

Results == {"ok", "error"} \cup (IF OnStart THEN {} ELSE {"wild"})

\* connection_delay: all events are deleted; SO_ERROR tells the outcome, and
\* on failure nothing more is done.  A start callback that is not set may be
\* called all the same.
ConnectionDelay(res) ==
  /\ pc = "poll"
  /\ "out" \in mask /\ wcb = "delay"
  /\ sock \in (IF res = "error" THEN {"refused", "shut"} ELSE {"est", "shut"})
  /\ LET r == [Part EXCEPT !.mask = {}, !.wcb = "none"]
     IN CASE res = "ok" ->
               /\ SetPart(Established(r)) /\ sock' = sock
               /\ asked' = AskedAfterStart /\ pc' = pc
          [] res = "wild" ->
               /\ SetPart([r EXCEPT !.connected = TRUE]) /\ sock' = sock
               /\ asked' = asked /\ pc' = "exited"
          [] res = "error" ->
               /\ SetPart(r) /\ sock' = "refused"
               /\ asked' = asked /\ pc' = pc
  /\ UNCHANGED <<queue, batch, ibuf, inb, coming, room, closes, reps, calls, sent, cut, torn>>

-----------------------------------------------------------------------------
(* clean_conn and do_connect *)

\* The requests whose frames are still to be sent as a whole.
Waiting == Suffix(accepted, Len(obuf) \div (HeadLen + ReqLen))

\* del_io_event and close; connect is in progress, succeeds at once or fails,
\* and with it the program, as it does when the close callback is a wild one.
\* The buffers keep what they hold.
CleanConn(how) ==
  /\ LET r == [Part EXCEPT !.connected = FALSE, !.mask = {}, !.wcb = "none",
                           !.accepted = Waiting]
     IN CASE how = "now" ->
               /\ SetPart(Established(r)) /\ sock' = "est"
               /\ asked' = AskedAfterStart /\ pc' = pc
          [] how = "later" ->
               /\ SetPart([r EXCEPT !.mask = {"out"}, !.wcb = "delay"]) /\ sock' = "syn"
               /\ asked' = asked /\ pc' = pc
          [] how = "error" ->
               /\ SetPart(r) /\ sock' = "refused"
               /\ asked' = asked /\ pc' = "exited"
  /\ inb' = <<>> /\ coming' = <<>> /\ room' = SndBuf /\ reps' = 0
  /\ calls' = <<>> /\ sent' = <<>>
  /\ cut' = (cut \/ ibuf # <<>>)
  /\ torn' = (torn \/ WithinFrame(obuf))
  /\ UNCHANGED <<queue, batch, ibuf, closes>>

-----------------------------------------------------------------------------
(* do_read *)

Readable == "in" \in mask /\ (inb # <<>> \/ sock = "shut")

\* All that FIONREAD counts is read.
ReadSome ==
  /\ pc = "poll"
  /\ Readable
  /\ inb # <<>>
  /\ IF connected /\ Len(inb) <= Capacity - Len(ibuf)
       THEN ibuf' = ibuf \o inb /\ inb' = <<>> /\ pc' = "parse"
       ELSE pc' = "aborted" /\ UNCHANGED <<ibuf, inb>>
  /\ UNCHANGED <<queue, batch, asked, connected, mask, wcb, obuf, sock, coming, room,
                 closes, reps, histVars>>

\* read() returns 0: closed by the peer
ReadEof(how) ==
  /\ pc = "poll"
  /\ Readable
  /\ inb = <<>>
  /\ CleanConn(how)

HasHead == pc = "parse" /\ Len(ibuf) >= HeadLen

\* The reply whose header the buffer begins with; 0 if it begins elsewhere.
HeadOf == LET m == ibuf[1][1]
          IN IF Prefix(ibuf, HeadLen) = Prefix(Frame(m, RepLen), HeadLen) THEN m ELSE 0

\* A mutant of PopBody: nothing is popped.
PopBodyNone(rest) == rest

\* io_buf::pop only complains when there are fewer bytes.
PopBody(rest) == IF RepLen > Len(rest) THEN rest ELSE Drop(rest, RepLen)

\* The header is popped, the callback gets the body, also when a part of it is
\* missing, and the body is popped.
HandleMessage ==
  /\ HasHead
  /\ HeadOf # 0
  /\ LET rest == Drop(ibuf, HeadLen) IN
       /\ calls' = Append(calls, Prefix(rest, RepLen))
       /\ ibuf' = PopBody(rest)
       /\ cut' = (cut \/ Len(rest) < RepLen)
  /\ UNCHANGED <<queue, batch, asked, connected, mask, wcb, obuf, pc, netVars, sent, accepted, torn>>

\* Bytes of a body are taken for a header: its id and length are arbitrary, and
\* so is all that follows.
Garbled ==
  /\ HasHead
  /\ HeadOf = 0
  /\ pc' = "garbled"
  /\ UNCHANGED <<queue, batch, asked, connected, mask, wcb, ibuf, obuf, netVars, histVars>>

\* No header is left: adjust.
ReadDone ==
  /\ pc = "parse"
  /\ Len(ibuf) < HeadLen
  /\ pc' = "poll"
  /\ UNCHANGED <<queue, batch, asked, connected, mask, wcb, ibuf, obuf, netVars, histVars>>

-----------------------------------------------------------------------------
(* do_write *)

\* A mutant of WriteReady: the socket must have room for all the output.
WriteReadyAll ==
  /\ pc = "poll"
  /\ "out" \in mask /\ wcb = "write"
  /\ ~Readable
  /\ sock = "shut" \/ room >= Len(obuf)
  /\ pc' = IF obuf # <<>> THEN "write" ELSE "aborted"
  /\ UNCHANGED <<queue, batch, asked, connected, mask, wcb, ibuf, obuf, netVars, histVars>>

\* event_process looks at EPOLLOUT only when EPOLLIN is not set.
WriteReady ==
  /\ pc = "poll"
  /\ "out" \in mask /\ wcb = "write"
  /\ ~Readable
  /\ sock = "shut" \/ room > 0
  /\ pc' = IF obuf # <<>> THEN "write" ELSE "aborted"
  /\ UNCHANGED <<queue, batch, asked, connected, mask, wcb, ibuf, obuf, netVars, histVars>>

\* A mutant of WriteSome: the rest is forgotten.
WriteSomeLossy(n) ==
  /\ pc = "write"
  /\ sock \in {"est", "shut"}
  /\ n <= Len(obuf) /\ n <= room
  /\ sent' = sent \o Prefix(obuf, n)
  /\ obuf' = <<>>
  /\ room' = room - n
  /\ UNCHANGED <<queue, batch, asked, connected, mask, wcb, ibuf, pc, sock, inb, coming, closes,
                 reps, calls, accepted, cut, torn>>

WriteSome(n) ==
  /\ pc = "write"
  /\ sock \in {"est", "shut"}
  /\ n <= Len(obuf) /\ n <= room
  /\ sent' = sent \o Prefix(obuf, n)
  /\ obuf' = Drop(obuf, n)
  /\ room' = room - n
  /\ UNCHANGED <<queue, batch, asked, connected, mask, wcb, ibuf, pc, sock, inb, coming, closes,
                 reps, calls, accepted, cut, torn>>

\* The connection has failed: clean_conn, and the loop goes on with the new
\* socket.
WriteError(how) ==
  /\ pc = "write"
  /\ obuf # <<>>
  /\ sock \in {"shut", "refused"}
  /\ CleanConn(how)

\* All is written, or EAGAIN; a mask that becomes empty removes the descriptor.
WriteDone ==
  /\ pc = "write"
  /\ obuf = <<>> \/ sock = "syn" \/ room = 0
  /\ mask' = IF obuf = <<>> THEN mask \ {"out"} ELSE mask
  /\ wcb' = IF mask' = {} THEN "none" ELSE wcb
  /\ pc' = "poll"
  /\ UNCHANGED <<queue, batch, asked, connected, ibuf, obuf, netVars, histVars>>

-----------------------------------------------------------------------------
Outcomes == {"later", "now", "error"}

Loop ==
  \/ NewRequest
  \/ SendNext
  \/ SendDone
  \/ \E res \in Results : ConnectionDelay(res)
  \/ ReadSome
  \/ \E how \in Outcomes : ReadEof(how)
  \/ HandleMessage
  \/ Garbled
  \/ ReadDone
  \/ WriteReady
  \/ \E n \in 1..SndBuf : WriteSome(n)
  \/ \E how \in Outcomes : WriteError(how)
  \/ WriteDone

Server ==
  \/ Answer("est")
  \/ MayRefuse /\ Answer("refused")
  \/ ServerReplies
  \/ \E n \in 1..RcvBuf : Arrive(n)
  \/ ServerReads
  \/ ServerCloses

Next == Loop \/ Enqueue \/ Server

Spec == Init /\ [][Next]_vars

\* The loop runs, the server answers a connection attempt and reads what it is
\* sent.
FairSpec ==
  /\ Spec
  /\ WF_vars(Loop)
  /\ WF_vars(Answer("est"))
  /\ WF_vars(ServerReads)

-----------------------------------------------------------------------------
(* Properties *)

\* The input buffer, the socket and the network hold the replies behind the
\* first p bytes: all of them, unless the connection is lost.
Unread(p) ==
  LET some == p + Len(ibuf) + Len(inb)
      all == some + Len(coming)
  IN /\ all <= Len(Replies(reps))
     /\ sock \in {"syn", "est"} => all = Len(Replies(reps))
     /\ \A i \in 1..Len(ibuf) : ibuf[i] = Replies(reps)[p + i]
     /\ \A i \in 1..Len(inb) : inb[i] = Replies(reps)[p + Len(ibuf) + i]
     /\ \A i \in 1..Len(coming) : coming[i] = Replies(reps)[some + i]

\* As long as no read ends within a body and no connection is lost within a
\* reply, the callbacks see the replies of the connection, whole and in order;
\* a read may end within a header.
RepliesWhole ==
  ~cut =>
    /\ \A k \in 1..Len(calls) : calls[k] = Drop(Frame(k, RepLen), HeadLen)
    /\ Unread((HeadLen + RepLen) * Len(calls))

\* As long as no connection is lost within a frame, what is written on a
\* connection and what waits are the frames of accepted requests, in order and
\* once, the ones left over by the connection before included; and do_read and
\* do_write are called only on a connection and with output, as they assert.
RequestsWhole ==
  /\ ~torn => sent \o obuf = Frames(accepted, ReqLen)
  /\ pc # "aborted"

\* Accepted output is written, unless the connection is lost.
Drained == (connected /\ obuf # <<>>) ~> (obuf = <<>> \/ ~connected \/ Stopped)

\* clean_conn makes the connection again (tcp_client.cc:219): a client without a
\* connection gets one from a server that accepts, or connection_delay reports
\* the failure.
Reconnects == ~connected ~> (connected \/ Stopped \/ sock = "refused")

-----------------------------------------------------------------------------
(* The inductive invariant behind RepliesWhole and RequestsWhole *)

\* Between two reads less than a header is left; a read takes no more than the
\* socket's buffer.
InputInv ==
  /\ Len(inb) <= RcvBuf
  /\ pc \in {"poll", "drain", "write"} => Len(ibuf) < HeadLen

\* The loop reads when there is a connection, and do_write is called when there
\* is output.
ArmInv ==
  /\ "in" \in mask => connected
  /\ pc \in {"poll", "drain", "parse"} /\ "out" \in mask /\ wcb = "write" => obuf # <<>>

Inv ==
  /\ TypeOK
  /\ InputInv
  /\ ArmInv
  /\ RepliesWhole
  /\ RequestsWhole
=============================================================================
