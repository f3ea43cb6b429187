------------------------------ MODULE RinsApi ------------------------------
(***************************************************************************)
(* rins_client::get_host and the udp_server it talks to: a call sends one  *)
(* datagram to one of the agent's ports and waits, without a timeout, for  *)
(* the answer with its sequence number.                                    *)
(*                                                                         *)
(* Clients are processes with a socket per port; a port is served by one   *)
(* thread of the agent.  Sockets are bounded queues.  A datagram is lost   *)
(* when a queue is full or the agent ends; a wait may be interrupted by a  *)
(* signal; a datagram to a port without a server makes the next call on    *)
(* that socket fail.                                                       *)
(*                                                                         *)
(* What the handler behind udp_server does is a choice: it answers with    *)
(* ID_GetHostResponse, as rins.proto says and get_host expects; with the   *)
(* id of the request, as get_host_cb does; or it ends the process, as      *)
(* get_host_cb's call through the null user data does.  Nothing in the     *)
(* repository answers with a body that does not parse, which get_host      *)
(* tests: such an answer is one of the faults.  Every datagram carries the *)
(* client and the number of the call it belongs to, which the program      *)
(* cannot see.                                                             *)
(***************************************************************************)
EXTENDS Integers, Sequences, Functions

CONSTANTS
  Clients,
  Other,     \* an address that is no client's
  Keys,      \* pairs of modid and cmdid
  Ports,
  PortOf,    \* (modid + cmdid) % 3
  Replies,   \* the ids a handler may answer with
  SeqMod,    \* 2^32: _seqid is a uint32_t
  QueueLen,  \* datagrams a socket holds
  MaxCalls,  \* bound on the calls of a client,
  Calls,     \* of each one,
  MaxFaults  \* and on interrupts, ends of the agent, foreign datagrams
             \* and broken answers

ASSUME ApiAssumption ==
  /\ Other \notin Clients /\ Keys # {}
  /\ PortOf \in [Keys -> Ports]
  /\ Replies \subseteq {"response", "msgid"}
  /\ SeqMod \in Nat \ {0} /\ QueueLen \in Nat \ {0}
  /\ MaxCalls \in Nat /\ MaxFaults \in Nat
  /\ Calls \in [Clients -> 0..MaxCalls]

VARIABLES
  seqid,    \* _seqid of each client
  call,     \* the call a client is in
  box,      \* datagrams in the client's sockets
  err,      \* sockets with a pending ECONNREFUSED
  up,       \* ports that have a server
  inq,      \* datagrams in the server's sockets
  cur,      \* _read_buf of each server, while its datagram is handled
  addr,     \* _client_addr of each server
  faults,
  made,     \* number of calls of each client
  lost      \* history: clients whose request or answer was lost

cliVars == <<seqid, call, made>>
srvVars == <<up, inq, cur, addr>>
vars == <<cliVars, srvVars, box, err, faults, lost>>

AnyKey == CHOOSE k \in Keys : TRUE

Datagrams == [kind : {"request", "foreign", "response", "msgid", "broken"},
              from : Clients \cup {Other}, n : 0..MaxCalls, seq : 0..(SeqMod - 1), key : Keys]

Request(c, k) == [kind |-> "request", from |-> c, n |-> made[c] + 1, seq |-> seqid[c], key |-> k]
Foreign == [kind |-> "foreign", from |-> Other, n |-> 0, seq |-> 0, key |-> AnyKey]

Idle == [state |-> "idle", seq |-> 0, key |-> AnyKey, ret |-> "none", by |-> Foreign]

\* The type invariant.
TypeOK ==
  /\ seqid \in [Clients -> 0..(SeqMod - 1)]
  /\ call \in [Clients -> [state : {"idle", "waiting"}, seq : 0..(SeqMod - 1), key : Keys,
                           ret : {"none", "refused", "interrupted", "error", "answer"},
                           by : Datagrams]]
  /\ box \in [Clients -> [Ports -> Seq(Datagrams)]]
  /\ \A c \in Clients, p \in Ports : Len(box[c][p]) <= QueueLen
  /\ err \subseteq Clients \X Ports
  /\ up \subseteq Ports
  /\ inq \in [Ports -> Seq(Datagrams)]
  /\ \A p \in Ports : Len(inq[p]) <= QueueLen
  /\ cur \in [Ports -> Datagrams]
  /\ addr \in [Ports -> Clients \cup {Other}]
  /\ faults \in 0..MaxFaults
  /\ made \in [Clients -> 0..MaxCalls]
  /\ lost \subseteq Clients

Init ==
  /\ seqid = [c \in Clients |-> 0]
  /\ call = [c \in Clients |-> Idle]
  /\ box = [c \in Clients |-> [p \in Ports |-> <<>>]]
  /\ err = {}
  /\ up = Ports
  /\ inq = [p \in Ports |-> <<>>]
  /\ cur = [p \in Ports |-> Foreign]
  /\ addr = [p \in Ports |-> Other]
  /\ faults = 0
  /\ made = [c \in Clients |-> 0]
  /\ lost = {}

-----------------------------------------------------------------------------
(* get_host *)

NextSeq(s) == (s + 1) % SeqMod

\* From the start to the wait: sendto fails when an error is pending, and does
\* not see that the server's socket is full or that there is no server.
Send(c, k) ==
  LET p == PortOf[k] IN
  /\ call[c].state = "idle" /\ made[c] < Calls[c]
  /\ made' = [made EXCEPT ![c] = @ + 1]
  /\ seqid' = [seqid EXCEPT ![c] = NextSeq(@)]
  /\ call' = [call EXCEPT ![c] =
       [state |-> IF <<c, p>> \in err THEN "idle" ELSE "waiting",
        seq |-> seqid[c], key |-> k,
        ret |-> IF <<c, p>> \in err THEN "refused" ELSE "none", by |-> Foreign]]
  /\ IF <<c, p>> \in err
       THEN err' = err \ {<<c, p>>} /\ UNCHANGED <<inq, lost>>
       ELSE
            /\ err' = IF p \in up THEN err ELSE err \cup {<<c, p>>}
            /\ IF p \in up /\ Len(inq[p]) < QueueLen
                 THEN inq' = [inq EXCEPT ![p] = Append(@, Request(c, k))] /\ lost' = lost \ {c}
                 ELSE inq' = inq /\ lost' = IF p \in up THEN lost \cup {c} ELSE lost \ {c}
  /\ UNCHANGED <<box, up, cur, addr, faults>>

\* get_host returns.
Return(c, ret, by) ==
  /\ call' = [call EXCEPT ![c] = [state |-> "idle", seq |-> @.seq, key |-> @.key,
                                  ret |-> ret, by |-> by]]
  /\ lost' = lost \ {c}

\* recvfrom reports the refused datagram.
RecvRefused(c) ==
  LET p == PortOf[call[c].key] IN
  /\ call[c].state = "waiting"
  /\ <<c, p>> \in err
  /\ err' = err \ {<<c, p>>}
  /\ Return(c, "refused", Foreign)
  /\ UNCHANGED <<seqid, made, box, srvVars, faults>>

\* recvfrom fails with EINTR, which is an error like any other.
RecvInterrupted(c) ==
  /\ call[c].state = "waiting"
  /\ faults < MaxFaults
  /\ faults' = faults + 1
  /\ Return(c, "interrupted", Foreign)
  /\ UNCHANGED <<seqid, made, box, err, srvVars>>

\* if (head.id != rins::ID_GetHostResponse)
WrongId(r) == r.kind = "msgid"

\* ParseFromArray fails.
Unparsable(r) == r.kind = "broken"

\* A mutant of Older: the first answer is taken.
OlderNever(r, seq) == FALSE

\* A mutant of Older: the answer itself is taken for an older one.
OlderOrEqual(r, seq) == r.seq <= seq

\* while (resp.seq() < seq)
Older(r, seq) == r.seq < seq

\* A mutant of Matches: only modid and cmdid are compared.
MatchesKey(r, seq, k) == r.key = k

Matches(r, seq, k) == r.seq = seq /\ r.key = k

\* One turn of the loop: recvfrom, the tests of the message's id and body, and
\* of its sequence number, which skips an older answer.
RecvAnswer(c) ==
  LET k == call[c].key
      p == PortOf[k]
      r == Head(box[c][p])
  IN
  /\ call[c].state = "waiting"
  /\ <<c, p>> \notin err
  /\ box[c][p] # <<>>
  /\ box' = [box EXCEPT ![c][p] = Tail(@)]
  /\ IF WrongId(r) \/ Unparsable(r) THEN Return(c, "error", r)
     ELSE IF Older(r, call[c].seq) THEN UNCHANGED <<call, lost>>
     ELSE Return(c, IF Matches(r, call[c].seq, k) THEN "answer" ELSE "error", r)
  /\ UNCHANGED <<seqid, made, err, srvVars, faults>>

-----------------------------------------------------------------------------
(* udp_server and its handler *)

\* The datagram has the length its header gives, and an id with a handler.
Accepted(d) == d.kind = "request"

\* recvfrom overwrites _read_buf and _client_addr, also with a datagram that the
\* loop then passes over.
Receive(p) ==
  /\ p \in up
  /\ ~Accepted(cur[p])
  /\ inq[p] # <<>>
  /\ cur' = [cur EXCEPT ![p] = Head(inq[p])]
  /\ addr' = [addr EXCEPT ![p] = Head(inq[p]).from]
  /\ inq' = [inq EXCEPT ![p] = Tail(@)]
  /\ UNCHANGED <<cliVars, up, box, err, faults, lost>>

\* The clients that wait for one of these datagrams, or for the answer to it.
Awaiting(D) == {c \in Clients : /\ call[c].state = "waiting"
                                /\ \E d \in D : d.from = c /\ d.n = made[c]}

\* udp_server::send_message to _client_addr: sendto does not see that the socket
\* is full.
SendMessage(p, d) ==
  LET to == addr[p]
      fits == to \in Clients /\ Len(box[to][p]) < QueueLen
  IN
  /\ box' = IF fits THEN [box EXCEPT ![to][p] = Append(@, d)] ELSE box
  /\ lost' = IF fits THEN lost ELSE lost \cup Awaiting({d})

\* The handler answers: seq, modid and cmdid of the request are copied, and
\* do_read goes on to the next recvfrom.
AnswerWith(p, kind) ==
  /\ p \in up
  /\ Accepted(cur[p])
  /\ SendMessage(p, [cur[p] EXCEPT !.kind = kind])
  /\ cur' = [cur EXCEPT ![p] = Foreign]
  /\ UNCHANGED <<cliVars, up, inq, addr, err>>

Answer(p) == UNCHANGED faults /\ \E kind \in Replies : AnswerWith(p, kind)

\* The agent's process ends, and with it all its servers and what their sockets
\* hold.
AgentEnds ==
  /\ faults < MaxFaults
  /\ faults' = faults + 1
  /\ up' = {}
  /\ inq' = [p \in Ports |-> <<>>]
  /\ cur' = [p \in Ports |-> Foreign]
  /\ lost' = lost \cup Awaiting(Range(cur) \cup UNION {Range(inq[p]) : p \in Ports})
  /\ UNCHANGED <<cliVars, addr, box, err>>

\* The handler calls get_host of a null route_lb.
Crash(p) ==
  /\ p \in up
  /\ Accepted(cur[p])
  /\ AgentEnds

\* The constructor clears _client_addr.
Start(p) ==
  /\ p \notin up
  /\ up' = up \cup {p}
  /\ addr' = [addr EXCEPT ![p] = Other]
  /\ UNCHANGED <<cliVars, inq, cur, box, err, faults, lost>>

-----------------------------------------------------------------------------
(* The environment *)

\* A datagram of another program, whose length is not the one its header gives.
ForeignDatagram(p) ==
  /\ p \in up
  /\ faults < MaxFaults
  /\ Len(inq[p]) < QueueLen
  /\ faults' = faults + 1
  /\ inq' = [inq EXCEPT ![p] = Append(@, Foreign)]
  /\ UNCHANGED <<cliVars, up, cur, addr, box, err, lost>>

\* The answer has a body that does not parse.
BrokenAnswer(p) ==
  /\ faults < MaxFaults
  /\ faults' = faults + 1
  /\ AnswerWith(p, "broken")

\* The agent is stopped from outside.
Kill == up # {} /\ AgentEnds

-----------------------------------------------------------------------------
Client(c) ==
  \/ \E k \in Keys : Send(c, k)
  \/ RecvRefused(c)
  \/ RecvInterrupted(c)
  \/ RecvAnswer(c)

Server(p) == Receive(p) \/ Answer(p) \/ Crash(p)

Next ==
  \/ \E c \in Clients : Client(c)
  \/ \E p \in Ports : Server(p) \/ Start(p) \/ ForeignDatagram(p) \/ BrokenAnswer(p)
  \/ Kill

Spec == Init /\ [][Next]_vars

\* A waiting client takes what arrives, and a server's loop runs.
FairSpec ==
  /\ Spec
  /\ \A c \in Clients : WF_vars(RecvRefused(c) \/ RecvAnswer(c))
  /\ \A p \in Ports : WF_vars(Server(p))

-----------------------------------------------------------------------------
(* Properties *)

\* An answer that get_host returns was given to this very call of this client,
\* though _client_addr is shared and overwritten by every datagram; once _seqid
\* has come round it may also be the one to a call whole rounds before.
RightAnswer ==
  \A c \in Clients : call[c].ret = "answer" =>
    /\ call[c].by.from = c
    /\ call[c].by.kind = "response"
    /\ call[c].by.n \in {made[c] - i * SeqMod : i \in 0..(made[c] \div SeqMod)}

\* A datagram makes get_host fail only when its id is wrong or its body does not
\* parse, which is so for a late one, too, or when it is late and _seqid has come
\* round.  Other late answers, of calls that were interrupted, are skipped, and
\* the call's own answer is never refused.
FailsOnlyForCause ==
  \A c \in Clients : call[c].ret = "error" =>
    \/ call[c].by.kind # "response"
    \/ call[c].by.n < made[c] /\ made[c] > SeqMod

\* get_host returns a host only if handlers answer with ID_GetHostResponse: with
\* get_host_cb, which answers with the id of the request, no call succeeds.
NeedsResponseId ==
  (\E c \in Clients : call[c].ret = "answer") => "response" \in Replies

\* A call returns, unless its request or its answer was lost: then it waits for
\* ever, as there is no timeout.
Returns == \A c \in Clients : (call[c].state = "waiting") ~> (call[c].state = "idle" \/ c \in lost)

-----------------------------------------------------------------------------
(* The inductive invariant behind the safety properties *)

\* The sequence number of a client's n-th call.
SeqOf(n) == (n - 1) % SeqMod

\* _seqid is the number of the next call; the call a client is in, or was last
\* in, carries the one before.
SeqInv ==
  \A c \in Clients :
    /\ seqid[c] = SeqOf(made[c] + 1)
    /\ made[c] > 0 => call[c].seq = SeqOf(made[c])
    /\ made[c] = 0 => call[c].state = "idle"
    /\ call[c].state = "waiting" => call[c].ret = "none"

\* What a datagram that get_host of client c sent says of its call; the answer
\* to it says the same.
Genuine(d, c) ==
  /\ d.from = c
  /\ d.n \in 1..made[c]
  /\ d.seq = SeqOf(d.n)
  /\ d.n = made[c] => d.key = call[c].key

\* Requests come from clients, and the one a running server handles came from
\* its _client_addr.
RequestInv ==
  /\ \A p \in Ports : \A i \in 1..Len(inq[p]) :
       Accepted(inq[p][i]) => inq[p][i].from \in Clients /\ Genuine(inq[p][i], inq[p][i].from)
  /\ \A p \in Ports :
       Accepted(cur[p]) => p \in up /\ addr[p] \in Clients /\ Genuine(cur[p], addr[p])

\* An answer waits in the socket of the client that asked.
AnswerInv ==
  \A c \in Clients, p \in Ports : \A i \in 1..Len(box[c][p]) :
    Genuine(box[c][p][i], c) /\ box[c][p][i].kind \in Replies \cup {"broken"}

Inv ==
  /\ TypeOK
  /\ SeqInv
  /\ RequestInv
  /\ AnswerInv
  /\ RightAnswer
  /\ FailsOnlyForCause
  /\ NeedsResponseId
=============================================================================
