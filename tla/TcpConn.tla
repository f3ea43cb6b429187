------------------------------ MODULE TcpConn ------------------------------
(***************************************************************************)
(* One connection at the level of its buffers: tcp_conn::do_read,          *)
(* do_write and send_message over input_buf, output_buf and io_buf, the    *)
(* event mask that event_loop keeps for the descriptor, and the kernel's   *)
(* two socket buffers.  Frames arrive in pieces of any size and replies    *)
(* leave in pieces of any size.                                            *)
(*                                                                         *)
(* A byte is <<message, position>>: its place in the frame of a message.   *)
(* A callback in the router answers each request of a registered id with   *)
(* one reply.  The buffer pool is module BufPool; here alloc_buf only      *)
(* fixes a capacity.                                                       *)
(***************************************************************************)
EXTENDS Integers, Sequences

CONSTANTS
  HeadLen,   \* MESSAGE_HEAD_LEN
  Limit,     \* MESSAGE_LENGTH_LIMIT
  Caps,      \* capacities of the pool's buffers
  Requests,  \* the peers: sequences of requests, each with the length of its
             \* body, whether a callback is registered for its id, and how many
             \* bytes of the stream come before it
  ReplyLen,  \* body length of a reply
  SockBuf    \* size of the socket's send buffer

ASSUME ConnAssumption ==
  /\ HeadLen \in Nat \ {0}
  /\ Limit \in Nat
  /\ Caps \subseteq Nat \ {0} /\ \E c \in Caps : HeadLen <= c
  /\ Requests \subseteq Seq([len : Nat, known : BOOLEAN, at : Nat])
  /\ ReplyLen \in Nat
  /\ SockBuf \in Nat \ {0}

\* The frames of a stream follow one another.
ASSUME StreamAssumption ==
  \A r \in Requests : \A m \in 1..Len(r) :
    r[m].at = IF m = 1 THEN 0 ELSE r[m - 1].at + HeadLen + r[m - 1].len

VARIABLES
  peer,      \* the requests of this connection's peer
  arrived,   \* bytes of the requests that have reached the kernel
  wire,      \* of these, what read() has not taken
  gone,      \* the peer has closed
  open,      \* _connfd # -1
  mask,      \* the descriptor's mask in _io_evs
  ibuf,      \* _ibuf: at most one buffer, as a sequence
  obuf,      \* _obuf
  pc,        \* where the loop is
  out,       \* bytes written that the peer has not received
  got,       \* history: bytes the peer has received
  handled,   \* history: the requests and bodies the router was called with
  replies    \* history: the requests whose reply send_message accepted

peerVars == <<peer, arrived, gone>>
histVars == <<handled, replies>>
vars == <<peerVars, wire, open, mask, ibuf, obuf, pc, out, got, histVars>>

-----------------------------------------------------------------------------
(* Bytes and buffers *)

Frame(m, len) == [i \in 1..(HeadLen + len) |-> <<m, i>>]

\* The bytes before the m-th request; before the one after the last, all.
Before(m) ==
  IF m <= Len(peer) THEN peer[m].at
  ELSE IF peer = <<>> THEN 0 ELSE peer[m - 1].at + HeadLen + peer[m - 1].len

\* The frames of the requests, and those of the replies, end to end.
Stream ==
  [k \in 1..Before(Len(peer) + 1) |->
     LET m == CHOOSE m \in 1..Len(peer) : Before(m) < k /\ k <= Before(m + 1)
     IN <<m, k - Before(m)>>]

ReplyStream ==
  LET size == HeadLen + ReplyLen
  IN [k \in 1..(size * Len(replies)) |->
        <<replies[((k - 1) \div size) + 1], ((k - 1) % size) + 1>>]

Prefix(s, n) == IF n < Len(s) THEN SubSeq(s, 1, n) ELSE s
Drop(s, n) == SubSeq(s, n + 1, Len(s))

\* A reactor_buf is <<>> (_buf is null) or <<b>>, an io_buf without its unused
\* bytes.
Length(rb) == IF rb = <<>> THEN 0 ELSE Len(rb[1].data)

\* alloc_buf(n): the capacity of the buffer, or 0 for NULL.
Alloc(n) ==
  LET fit == {c \in Caps : c >= n}
  IN IF fit = {} THEN 0 ELSE CHOOSE c \in fit : \A d \in fit : c <= d

\* io_buf::pop
IoPop(rb, n) == <<[rb[1] EXCEPT !.head = @ + n, !.data = Drop(@, n)]>>

\* reactor_buf::pop, when its assertion holds
Pop(rb, n) == IF n = Length(rb) THEN <<>> ELSE IoPop(rb, n)

\* adjust
Adjust(rb) == IF rb = <<>> THEN rb ELSE <<[rb[1] EXCEPT !.head = 0]>>

\* input_buf::read_data: the capacity of the buffer that is read into.
Room(rb, n) ==
  IF rb = <<>> THEN Alloc(n)
  ELSE IF rb[1].cap - Length(rb) < n THEN Alloc(n + Length(rb))
  ELSE rb[1].cap

Content(rb) == IF rb = <<>> THEN <<>> ELSE rb[1].data

Filled(cap, rb, bytes) == <<[cap |-> cap, head |-> 0, data |-> Content(rb) \o bytes]>>

\* output_buf::send_data.  Its new buffer has room for the new bytes, not for
\* the old ones.
OutRoom(rb, n) ==
  IF rb = <<>> THEN Alloc(n)
  ELSE IF rb[1].cap - Length(rb) < n THEN Alloc(n)
  ELSE rb[1].cap

SendData(rb, bytes) == Filled(OutRoom(rb, Len(bytes)), rb, bytes)

\* send_data writes past the end of its buffer.
Overruns(rb, n) == OutRoom(rb, n) # 0 /\ Length(rb) + n > OutRoom(rb, n)

Header(m) == Prefix(Frame(m, ReplyLen), HeadLen)
Body(m) == Drop(Frame(m, ReplyLen), HeadLen)

-----------------------------------------------------------------------------
Byte == Nat \X Nat

IsBuffer(rb) == rb \in Seq([cap : Caps, head : Nat, data : Seq(Byte)]) /\ Len(rb) <= 1

\* The type invariant.
TypeOK ==
  /\ peer \in Requests
  /\ arrived \in 0..Len(Stream)
  /\ {gone, open} \subseteq BOOLEAN
  /\ mask \subseteq {"in", "out"}
  /\ IsBuffer(ibuf) /\ IsBuffer(obuf)
  /\ pc \in {"poll", "parse", "write", "aborted", "overrun"}
  /\ {wire, out, got} \subseteq Seq(Byte)
  /\ handled \in Seq([msg : Nat, body : Seq(Byte)])
  /\ replies \in Seq(Nat)

Init ==
  /\ peer \in Requests
  /\ arrived = 0
  /\ wire = <<>>
  /\ gone = FALSE
  /\ open = TRUE
  /\ mask = {"in"}
  /\ ibuf = <<>>
  /\ obuf = <<>>
  /\ pc = "poll"
  /\ out = <<>>
  /\ got = <<>>
  /\ handled = <<>>
  /\ replies = <<>>

-----------------------------------------------------------------------------
(* The peer and the network *)

Arrive(n) ==
  /\ ~gone
  /\ n \in 1..(Len(Stream) - arrived)
  /\ arrived' = arrived + n
  /\ wire' = wire \o SubSeq(Stream, arrived + 1, arrived + n)
  /\ UNCHANGED <<peer, gone, open, mask, ibuf, obuf, pc, out, got, histVars>>

PeerReceives ==
  /\ ~gone
  /\ out # <<>>
  /\ got' = got \o out
  /\ out' = <<>>
  /\ UNCHANGED <<peerVars, wire, open, mask, ibuf, obuf, pc, histVars>>

PeerCloses ==
  /\ ~gone
  /\ gone' = TRUE
  /\ UNCHANGED <<peer, arrived, wire, open, mask, ibuf, obuf, pc, out, got, histVars>>

-----------------------------------------------------------------------------
\* clean_conn
Clean ==
  /\ open' = FALSE
  /\ mask' = {}
  /\ ibuf' = <<>>
  /\ obuf' = <<>>
  /\ pc' = "poll"
  /\ wire' = <<>>
  /\ UNCHANGED <<out, got, peerVars, histVars>>

\* The assertion of read_data, send_data and write2fd.
AtFront(rb) == rb # <<>> => rb[1].head = 0

\* An assertion fails.
Abort ==
  /\ pc' = "aborted"
  /\ UNCHANGED <<peerVars, wire, open, mask, ibuf, obuf, out, got, histVars>>

(* tcp_conn::do_read *)

Readable == "in" \in mask /\ (wire # <<>> \/ gone)

\* read_data takes all that FIONREAD has counted; bytes that come later stay.
ReadData ==
  /\ pc = "poll"
  /\ Readable
  /\ wire # <<>>
  /\ Room(ibuf, Len(wire)) # 0
  /\ IF AtFront(ibuf)
       THEN /\ ibuf' = Filled(Room(ibuf, Len(wire)), ibuf, wire)
            /\ wire' = <<>>
            /\ pc' = "parse"
            /\ UNCHANGED <<peerVars, open, mask, obuf, out, got, histVars>>
       ELSE Abort

\* Too much for any buffer, or end of file.
ReadFails ==
  /\ pc = "poll"
  /\ Readable
  /\ wire = <<>> \/ Room(ibuf, Len(wire)) = 0
  /\ IF AtFront(ibuf) THEN Clean ELSE Abort

\* The message whose header the input buffer starts with, or 0.
HeadOf(rb) ==
  LET m == Content(rb)[1][1]
  IN IF Prefix(Content(rb), HeadLen) = [i \in 1..HeadLen |-> <<m, i>>] THEN m ELSE 0

HasHead == pc = "parse" /\ Length(ibuf) >= HeadLen

\* head.length
BodyLen(m) == peer[m].len

\* send_message: active_epollout
Activate == Length(obuf) = 0

\* send_message: the header, the body, or on failure the header's roll-back,
\* which takes bytes from the front of the buffer.
SendMessage(m) ==
  LET head == SendData(obuf, Header(m)) IN
  IF OutRoom(head, ReplyLen) = 0
    THEN obuf' = Pop(head, HeadLen) /\ UNCHANGED <<mask, replies>>
    ELSE /\ obuf' = SendData(head, Body(m))
         /\ mask' = IF Activate THEN mask \cup {"out"} ELSE mask
         /\ replies' = Append(replies, m)

\* What the build does after that is undefined, and the model stops there.
SendOverruns(m) == Overruns(obuf, HeadLen) \/ Overruns(SendData(obuf, Header(m)), ReplyLen)

\* msg_router::call: the callback gets the body and sends the reply; an id that
\* is not registered is skipped.
Call(m, body) ==
  IF peer[m].known
    THEN handled' = Append(handled, [msg |-> m, body |-> body]) /\ SendMessage(m)
    ELSE UNCHANGED <<obuf, mask, histVars>>

\* A mutant of HasFrame: the body may be incomplete.
HasFramePart ==
  /\ HasHead
  /\ HeadOf(ibuf) # 0
  /\ BodyLen(HeadOf(ibuf)) <= Limit
  /\ Length(ibuf) > HeadLen

\* The frame is complete.
HasFrame ==
  /\ HasHead
  /\ HeadOf(ibuf) # 0
  /\ BodyLen(HeadOf(ibuf)) <= Limit
  /\ Length(ibuf) >= HeadLen + BodyLen(HeadOf(ibuf))

\* One turn of the loop: pop the header, call the router, pop the body.  The
\* second pop asserts that there is a buffer with so many bytes.
HandleMessage ==
  /\ HasFrame
  /\ LET m == HeadOf(ibuf)
         rest == Pop(ibuf, HeadLen)
         n == BodyLen(m)
         there == rest # <<>> /\ n <= Length(rest)
     IN IF peer[m].known /\ ~AtFront(obuf)
          THEN Abort
          ELSE /\ Call(m, Prefix(Content(rest), n))
               /\ ibuf' = IF there THEN Pop(rest, n) ELSE rest
               /\ pc' = IF peer[m].known /\ SendOverruns(m) THEN "overrun"
                        ELSE IF there THEN pc ELSE "aborted"
               /\ UNCHANGED <<peerVars, wire, open, out, got>>

\* data format error, need close
BadHeader ==
  /\ HasHead
  /\ HeadOf(ibuf) = 0 \/ BodyLen(HeadOf(ibuf)) > Limit
  /\ Clean

NoFrame ==
  \/ pc = "parse" /\ Length(ibuf) < HeadLen
  \/ HasHead /\ HeadOf(ibuf) # 0 /\ BodyLen(HeadOf(ibuf)) <= Limit /\ ~HasFrame

\* A mutant of ParseDone: the rest is not moved to the front.
ParseDoneNoAdjust ==
  /\ NoFrame
  /\ pc' = "poll"
  /\ UNCHANGED <<peerVars, wire, open, mask, ibuf, obuf, out, got, histVars>>

\* No complete frame is left: adjust.
ParseDone ==
  /\ NoFrame
  /\ ibuf' = Adjust(ibuf)
  /\ pc' = "poll"
  /\ UNCHANGED <<peerVars, wire, open, mask, obuf, out, got, histVars>>

-----------------------------------------------------------------------------
(* tcp_conn::do_write *)

\* event_process looks at EPOLLOUT only when EPOLLIN is not set.
WriteReady ==
  /\ pc = "poll"
  /\ "out" \in mask
  /\ ~Readable
  /\ Len(out) < SockBuf
  /\ pc' = "write"
  /\ UNCHANGED <<peerVars, wire, open, mask, ibuf, obuf, out, got, histVars>>

\* A mutant of WriteSome: what write() did not take is dropped.
WriteAll(n) ==
  /\ pc = "write"
  /\ n \in 1..Length(obuf)
  /\ Len(out) + n <= SockBuf
  /\ out' = out \o Prefix(Content(obuf), n)
  /\ obuf' = <<[obuf[1] EXCEPT !.data = <<>>]>>
  /\ UNCHANGED <<peerVars, wire, open, mask, ibuf, pc, got, histVars>>

\* write2fd: io_buf::pop and adjust; an empty buffer is kept.
WriteSome(n) ==
  /\ pc = "write"
  /\ n \in 1..Length(obuf)
  /\ Len(out) + n <= SockBuf
  /\ IF AtFront(obuf)
       THEN /\ out' = out \o Prefix(Content(obuf), n)
            /\ obuf' = Adjust(IoPop(obuf, n))
            /\ UNCHANGED <<peerVars, wire, open, mask, ibuf, pc, got, histVars>>
       ELSE Abort

\* The peer is gone: write2fd returns -1.
WriteFails ==
  /\ pc = "write"
  /\ Length(obuf) > 0
  /\ gone
  /\ IF AtFront(obuf) THEN Clean ELSE Abort

\* A mutant of WriteDone: all events of the descriptor are deleted.
WriteDoneDelAll ==
  /\ pc = "write"
  /\ Length(obuf) = 0 \/ Len(out) = SockBuf
  /\ mask' = IF Length(obuf) = 0 THEN {} ELSE mask
  /\ pc' = "poll"
  /\ UNCHANGED <<peerVars, wire, open, ibuf, obuf, out, got, histVars>>

\* All is written, or write2fd returns 0 (EAGAIN).
WriteDone ==
  /\ pc = "write"
  /\ Length(obuf) = 0 \/ Len(out) = SockBuf
  /\ IF Length(obuf) = 0 \/ AtFront(obuf)
       THEN /\ mask' = IF Length(obuf) = 0 THEN mask \ {"out"} ELSE mask
            /\ pc' = "poll"
            /\ UNCHANGED <<peerVars, wire, open, ibuf, obuf, out, got, histVars>>
       ELSE Abort

-----------------------------------------------------------------------------
Loop ==
  \/ ReadData
  \/ ReadFails
  \/ HandleMessage
  \/ BadHeader
  \/ ParseDone
  \/ WriteReady
  \/ \E n \in 1..SockBuf : WriteSome(n)
  \/ WriteFails
  \/ WriteDone

Peer ==
  \/ \E n \in 1..Len(Stream) : Arrive(n)
  \/ PeerReceives
  \/ PeerCloses

Next == Loop \/ Peer

Spec == Init /\ [][Next]_vars

\* The loop runs; a peer that has not closed reads what it is sent.
FairSpec == Spec /\ WF_vars(Loop) /\ WF_vars(PeerReceives)

-----------------------------------------------------------------------------
(* Properties *)

\* The callbacks see the bodies of the registered requests, each one whole,
\* once and in the order of the stream, however the stream is cut into reads.
RequestsIntact ==
  \A k \in 1..Len(handled) :
    LET m == handled[k].msg IN
    /\ m \in 1..Len(peer) /\ peer[m].known
    /\ handled[k].body = Drop(Frame(m, peer[m].len), HeadLen)
    /\ \A j \in 1..(k - 1) : handled[j].msg < m
    /\ \A q \in 1..(m - 1) : peer[q].known => \E j \in 1..(k - 1) : handled[j].msg = q

\* Every request that was handled has its reply, in the same order.  What the
\* peer has received, what the kernel holds and what waits in the output buffer
\* are together exactly the frames of the replies.
RepliesHeld ==
  /\ replies = [k \in 1..Len(handled) |-> handled[k].msg]
  /\ open => got \o out \o Content(obuf) = ReplyStream

\* The replies are exact until send_data overruns its buffer.
RepliesIntact == pc # "overrun" => RepliesHeld

\* The loop waits for input as long as the connection is open, and for room to
\* write as long as output waits.
EventsArmed == open => "in" \in mask /\ (Length(obuf) > 0 => "out" \in mask)

\* The assertions of reactor_buf hold (no empty bodies, see the README).
AssertionsHold == pc # "aborted"

\* A peer that has sent its requests and stays receives the reply to each of
\* the registered ones, unless the server closes the connection.
RequestsAnswered ==
  (arrived = Len(Stream)) ~>
    \/ gone \/ ~open
    \/ /\ got = ReplyStream
       /\ \A m \in 1..Len(peer) : peer[m].known => \E k \in 1..Len(replies) : replies[k] = m

\* The output buffer holds no more than its capacity, "the capacity of the
\* buffer" (io_buf.h:18).
OutputFits == obuf # <<>> => obuf[1].head + Length(obuf) <= obuf[1].cap

-----------------------------------------------------------------------------
(* The inductive invariant behind the safety properties *)

\* The pool has buffers for the reply, and no request has an empty body.
RepliesFit == \E c \in Caps : HeadLen <= c /\ ReplyLen <= c
BodiesThere == \A r \in Requests : \A m \in 1..Len(r) : r[m].len > 0

\* The input buffer and the kernel hold what arrived behind the first p bytes.
Unread(p) ==
  /\ p + Length(ibuf) + Len(wire) = arrived
  /\ \A i \in 1..Length(ibuf) : Content(ibuf)[i] = Stream[p + i]
  /\ \A i \in 1..Len(wire) : wire[i] = Stream[p + Length(ibuf) + i]

\* The requests before the m-th are done with.
DoneBefore(m) ==
  /\ \A k \in 1..Len(handled) : handled[k].msg < m
  /\ \A q \in 1..(m - 1) : peer[q].known => \E k \in 1..Len(handled) : handled[k].msg = q

\* Between two turns of do_read's loop the input starts with a frame.
ReadInv ==
  open /\ pc # "aborted" =>
    \E m \in 1..(Len(peer) + 1) : Unread(Before(m)) /\ DoneBefore(m)

\* The buffers are at the front of their memory when they are read into.
FrontInv == pc \in {"poll", "write"} => AtFront(ibuf)

\* What was read fits the input buffer.
InputFits == ibuf # <<>> => ibuf[1].head + Length(ibuf) <= ibuf[1].cap

\* After clean_conn the loop knows nothing of the descriptor.
ClosedInv == ~open => mask = {} /\ pc = "poll" /\ ibuf = <<>>

\* With room for the replies, they are intact and send_message's assertion
\* holds.
ReplyInv == RepliesFit => RepliesHeld /\ AtFront(obuf)

\* Without empty bodies, the assertions of do_read hold too.
AbortInv == RepliesFit /\ BodiesThere => AssertionsHold

Inv ==
  /\ TypeOK
  /\ RequestsIntact
  /\ ReadInv
  /\ FrontInv
  /\ InputFits
  /\ ClosedInv
  /\ ReplyInv
  /\ AbortInv
=============================================================================
