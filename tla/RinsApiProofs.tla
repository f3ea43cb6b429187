---------------------------- MODULE RinsApiProofs ----------------------------
(***************************************************************************)
(* Proofs that get_host returns the answer to its own call, fails for an   *)
(* answer only with a cause, and needs a handler that answers with the id  *)
(* it expects: for any clients, keys, ports, queue lengths, faults and     *)
(* width of the sequence number.                                           *)
(***************************************************************************)
EXTENDS RinsApi, TLAPS

-----------------------------------------------------------------------------
(* Counting modulo m *)

\* Division with remainder.
LEMMA DivMod ==
  ASSUME NEW a \in Nat, NEW m \in Nat \ {0}
  PROVE  /\ a = m * (a \div m) + (a % m)
         /\ a % m \in 0..(m - 1)
         /\ a \div m \in Nat
OBVIOUS

\* The remainder is determined by the quotient.
LEMMA ModUnique ==
  ASSUME NEW q \in Nat, NEW r \in Nat, NEW m \in Nat \ {0}, r < m
  PROVE  (m * q + r) % m = r
OBVIOUS

\* Before the counter comes round the remainder is the number itself.
LEMMA ModSmall ==
  ASSUME NEW a \in Nat, NEW m \in Nat \ {0}, a < m
  PROVE  a % m = a
OBVIOUS

\* Adding one modulo m, as ++_seqid does, keeps the remainder of the count.
LEMMA ModSucc ==
  ASSUME NEW a \in Nat, NEW m \in Nat \ {0}
  PROVE  ((a % m) + 1) % m = (a + 1) % m
<1> DEFINE q == a \div m
           r == a % m
<1>1. a = m * q + r /\ q \in Nat /\ r \in Nat /\ r < m
  BY DivMod
<1> HIDE DEF q, r
<1>2. CASE r + 1 < m
  <2>1. (m * q + (r + 1)) % m = r + 1
    BY <1>1, <1>2, ModUnique
  <2>2. (r + 1) % m = r + 1
    BY <1>1, <1>2, ModSmall
  <2> QED
    BY <1>1, <2>1, <2>2 DEF r
<1>3. CASE r + 1 = m
  <2>1. (m * (q + 1) + 0) % m = 0 /\ (m * 1 + 0) % m = 0
    BY <1>1, ModUnique
  <2>2. a + 1 = m * (q + 1) + 0 /\ r + 1 = m * 1 + 0
    BY <1>1, <1>3
  <2> QED
    BY <2>1, <2>2, Zenon DEF r
<1> QED
  BY <1>1, <1>2, <1>3

\* Numbers with the same remainder are whole rounds apart.
LEMMA ModRounds ==
  ASSUME NEW a \in Nat, NEW b \in Nat, NEW m \in Nat \ {0}, a <= b, a % m = b % m
  PROVE  \E i \in 0..(b \div m) : a = b - i * m
<1> DEFINE p == a \div m
           q == b \div m
           r == a % m
<1>1. a = m * p + r /\ p \in Nat /\ r \in 0..(m - 1)
  BY DivMod, Zenon
<1>2. b = m * q + (b % m) /\ q \in Nat
  BY DivMod, Zenon
<1>3. b = m * q + r
  BY <1>2, Zenon
<1> HIDE DEF p, q, r
<1>4. m * p <= m * q
  BY <1>1, <1>2, <1>3
<1>5. p <= q
  BY <1>1, <1>2, <1>4
<1>6. q - p \in 0..q /\ a = b - (q - p) * m
  BY <1>1, <1>2, <1>3, <1>5
<1> QED
  BY <1>6, Zenon DEF q

-----------------------------------------------------------------------------
(* Bounded queues *)

\* A datagram put into a socket that is not full.
LEMMA BoundedAppend ==
  ASSUME NEW S, NEW Q, NEW q \in [Q -> Seq(S)], NEW n \in Nat,
         \A a \in Q : Len(q[a]) <= n,
         NEW b \in Q, NEW x \in S, Len(q[b]) < n
  PROVE  LET r == [q EXCEPT ![b] = Append(@, x)]
         IN  r \in [Q -> Seq(S)] /\ \A a \in Q : Len(r[a]) <= n
<1>1. Append(q[b], x) \in Seq(S) /\ Len(Append(q[b], x)) = Len(q[b]) + 1
  OBVIOUS
<1> QED
  BY <1>1

\* A datagram taken from a socket.
LEMMA BoundedTail ==
  ASSUME NEW S, NEW Q, NEW q \in [Q -> Seq(S)], NEW n \in Nat,
         \A a \in Q : Len(q[a]) <= n,
         NEW b \in Q, q[b] # <<>>
  PROVE  LET r == [q EXCEPT ![b] = Tail(@)]
         IN  r \in [Q -> Seq(S)] /\ \A a \in Q : Len(r[a]) <= n
<1>1. Tail(q[b]) \in Seq(S) /\ Len(Tail(q[b])) = Len(q[b]) - 1
  OBVIOUS
<1> QED
  BY <1>1

\* One socket of one client changes.
LEMMA SocketUpdate ==
  ASSUME NEW A, NEW B, NEW S, NEW f \in [A -> [B -> S]], NEW a \in A, NEW b \in B,
         NEW x \in S, NEW g, g = [f EXCEPT ![a][b] = x]
  PROVE  /\ g \in [A -> [B -> S]]
         /\ g[a][b] = x
         /\ \A c \in A, d \in B : c # a \/ d # b => g[c][d] = f[c][d]
BY Zenon

-----------------------------------------------------------------------------
(* The invariant *)

\* The key that stands for any key is one.
LEMMA Defaults == AnyKey \in Keys
BY ApiAssumption, Zenon DEF AnyKey

\* A datagram of another program is a datagram, and no request.
LEMMA ForeignType == Foreign \in Datagrams /\ Foreign.kind = "foreign" /\ ~Accepted(Foreign)
<1>1. 0 \in 0..MaxCalls /\ 0 \in 0..(SeqMod - 1)
  BY ApiAssumption
<1>2. Foreign \in Datagrams
  BY <1>1, Defaults, Zenon DEF Foreign, Datagrams
<1>3. Foreign.kind = "foreign"
  BY Zenon DEF Foreign
<1>4. "foreign" # "request"
  OBVIOUS
<1> QED
  BY <1>2, <1>3, <1>4, Zenon DEF Accepted

\* The values of get_host's locals, as the type invariant gives them.
CallRecords ==
  [state : {"idle", "waiting"}, seq : 0..(SeqMod - 1), key : Keys,
   ret : {"none", "refused", "interrupted", "error", "answer"},
   by : Datagrams]

\* The locals of get_host.
LEMMA CallType == Inv => call \in [Clients -> CallRecords]
BY Zenon DEF Inv, TypeOK, CallRecords

\* The number of calls made, and _seqid.
LEMMA CountType == Inv => /\ made \in [Clients -> 0..MaxCalls]
                          /\ seqid \in [Clients -> 0..(SeqMod - 1)]
BY Zenon DEF Inv, TypeOK

\* The sockets of the clients.
LEMMA BoxType == Inv => /\ box \in [Clients -> [Ports -> Seq(Datagrams)]]
                        /\ \A c \in Clients, p \in Ports : Len(box[c][p]) <= QueueLen
BY Zenon DEF Inv, TypeOK

\* The sockets of the servers.
LEMMA InqType == Inv => /\ inq \in [Ports -> Seq(Datagrams)]
                        /\ \A p \in Ports : Len(inq[p]) <= QueueLen
BY Zenon DEF Inv, TypeOK

\* _read_buf and _client_addr of the servers.
LEMMA ServerType == Inv => /\ cur \in [Ports -> Datagrams]
                           /\ addr \in [Ports -> Clients \cup {Other}]
                           /\ up \subseteq Ports
BY Zenon DEF Inv, TypeOK

\* The pending errors, the faults so far and the clients whose datagram was lost.
LEMMA NetType == Inv => /\ err \subseteq Clients \X Ports
                        /\ faults \in 0..MaxFaults
                        /\ lost \subseteq Clients
BY Zenon DEF Inv, TypeOK

\* The initial state satisfies the inductive invariant.
LEMMA InitInv == Init => Inv
<1> SUFFICES ASSUME Init PROVE Inv
  BY Zenon
<1> USE ApiAssumption, Defaults, ForeignType DEF Init, Idle
<1>1. TypeOK
  <2>1. Idle \in CallRecords
    BY DEF CallRecords
  <2>2. call \in [Clients -> CallRecords]
    BY <2>1, Zenon
  <2> HIDE DEF Idle
  <2> QED
    BY <2>2 DEF TypeOK, CallRecords
<1>2. SeqInv
  <2>1. SeqOf(1) = 0
    BY ModSmall DEF SeqOf
  <2>2. ASSUME NEW c \in Clients
        PROVE  made[c] = 0 /\ seqid[c] = 0 /\ call[c].state = "idle"
    BY Zenon
  <2> HIDE DEF Init
  <2>3. ASSUME NEW c \in Clients
        PROVE  seqid[c] = SeqOf(made[c] + 1) /\ ~(made[c] > 0)
    BY <2>1, <2>2
  <2> QED
    BY <2>2, <2>3, Zenon DEF SeqInv
<1>3. AnswerInv
  BY DEF AnswerInv
<1>4. RequestInv
  BY DEF RequestInv
<1>5. RightAnswer /\ FailsOnlyForCause /\ NeedsResponseId
  BY Zenon DEF RightAnswer, FailsOnlyForCause, NeedsResponseId
<1> QED
  BY <1>1, <1>2, <1>3, <1>4, <1>5, Zenon DEF Inv

\* The number after the one of call n is that of call n + 1.
LEMMA NextSeqOf ==
  ASSUME NEW n \in Nat \ {0}
  PROVE  NextSeq(SeqOf(n)) = SeqOf(n + 1) /\ SeqOf(n) \in 0..(SeqMod - 1)
<1> DEFINE a == n - 1
<1>1. a \in Nat /\ (n + 1) - 1 = a + 1
  OBVIOUS
<1> HIDE DEF a
<1>2. a % SeqMod \in 0..(SeqMod - 1)
  BY <1>1, DivMod, ApiAssumption, Zenon
<1>3. ((a % SeqMod) + 1) % SeqMod = (a + 1) % SeqMod
  BY <1>1, ModSucc, ApiAssumption, Zenon
<1> QED
  BY <1>1, <1>2, <1>3, Zenon DEF SeqOf, NextSeq, a

\* The requests of the next state, one by one.
LEMMA RequestsKept ==
  ASSUME ASSUME NEW q \in Ports, NEW i \in 1..Len(inq'[q]), NEW e, e = inq'[q][i], Accepted(e)
         PROVE  e.from \in Clients /\ Genuine(e, e.from)',
         ASSUME NEW q \in Ports, NEW e, NEW b, e = cur'[q], b = addr'[q], Accepted(e)
         PROVE  q \in up' /\ b \in Clients /\ Genuine(e, b)'
  PROVE  RequestInv'
<1>1. ASSUME NEW q \in Ports, NEW i \in 1..Len(inq'[q]), Accepted(inq'[q][i])
      PROVE  inq'[q][i].from \in Clients /\ Genuine(inq[q][i], inq[q][i].from)'
  <2>1. PICK e : e = inq'[q][i]
    OBVIOUS
  <2>2. Accepted(e)
    BY <1>1, <2>1, Zenon
  <2>3. e.from \in Clients /\ Genuine(e, e.from)'
    BY <2>1, <2>2, Zenon
  <2> QED
    BY <2>1, <2>3, Zenon DEF Genuine
<1>2. ASSUME NEW q \in Ports, Accepted(cur'[q])
      PROVE  q \in up' /\ addr'[q] \in Clients /\ Genuine(cur[q], addr[q])'
  <2>1. PICK e, b : e = cur'[q] /\ b = addr'[q]
    OBVIOUS
  <2>2. Accepted(e)
    BY <1>2, <2>1, Zenon
  <2>3. q \in up' /\ b \in Clients /\ Genuine(e, b)'
    BY <2>1, <2>2, Zenon
  <2> QED
    BY <2>1, <2>3, Zenon DEF Genuine
<1> QED
  BY <1>1, <1>2, Zenon DEF RequestInv, Accepted

\* The start of get_host.
LEMMA SendStep ==
  ASSUME Inv, NEW c \in Clients, NEW k \in Keys, Send(c, k)
  PROVE  Inv'
<1> DEFINE p == PortOf[k]
           refused == <<c, p>> \in err
           new == [state |-> IF refused THEN "idle" ELSE "waiting", seq |-> seqid[c], key |-> k,
                   ret |-> IF refused THEN "refused" ELSE "none", by |-> Foreign]
<1>1. made[c] < Calls[c] /\ made' = [made EXCEPT ![c] = @ + 1]
  BY Zenon DEF Send
<1>2. seqid' = [seqid EXCEPT ![c] = NextSeq(@)]
  BY Zenon DEF Send
<1>3. call' = [call EXCEPT ![c] = new]
  BY Zenon DEF Send
<1>4. \/ inq' = inq
      \/ Len(inq[p]) < QueueLen /\ inq' = [inq EXCEPT ![p] = Append(@, Request(c, k))]
  BY Zenon DEF Send
<1>5. /\ \/ err' = err \ {<<c, p>>}
         \/ err' = err
         \/ err' = err \cup {<<c, p>>}
      /\ lost' = lost \/ lost' = lost \ {c} \/ lost' = lost \cup {c}
      /\ UNCHANGED <<box, up, cur, addr, faults>>
  BY Zenon DEF Send
<1>6. made \in [Clients -> 0..MaxCalls] /\ made[c] + 1 \in 1..MaxCalls
  BY <1>1, CountType, ApiAssumption
<1>7. /\ seqid \in [Clients -> 0..(SeqMod - 1)]
      /\ seqid[c] = SeqOf(made[c] + 1)
      /\ NextSeq(seqid[c]) = SeqOf(made[c] + 2)
      /\ SeqOf(made[c] + 2) \in 0..(SeqMod - 1)
  BY <1>6, CountType, NextSeqOf DEF Inv, SeqInv
<1>8. PICK d \in Datagrams : d = Request(c, k)
  <2>1. made[c] + 1 \in 0..MaxCalls /\ seqid[c] \in 0..(SeqMod - 1)
    BY <1>6, <1>7
  <2>2. c \in Clients \cup {Other}
    BY Zenon
  <2> QED
    BY <2>1, <2>2, Zenon DEF Request, Datagrams
<1>9. d.from = c /\ d.n = made[c] + 1 /\ d.seq = SeqOf(made[c] + 1) /\ d.key = k
  BY <1>7, <1>8, Zenon DEF Request
<1>10. /\ p \in Ports
       /\ \/ inq' = inq
          \/ Len(inq[p]) < QueueLen /\ inq' = [inq EXCEPT ![p] = Append(@, d)]
  BY <1>4, <1>8, ApiAssumption, Zenon
<1>11. /\ new.seq = seqid[c] /\ new.key = k
       /\ new.ret \in {"refused", "none"}
       /\ new.state = "waiting" => new.ret = "none"
  BY Zenon
<1>12. new \in CallRecords
  BY <1>7, ForeignType DEF CallRecords
<1>13. call' = [call EXCEPT ![c] = new] /\ call \in [Clients -> CallRecords]
  BY <1>3, CallType, Zenon
<1> HIDE DEF p, new
<1>14. TypeOK'
  <2>1. err' \subseteq Clients \X Ports /\ lost' \subseteq Clients
    BY <1>5, <1>10, NetType
  <2>2. inq' \in [Ports -> Seq(Datagrams)] /\ \A q \in Ports : Len(inq'[q]) <= QueueLen
    <3>1. CASE inq' = inq
      BY <3>1, InqType, Zenon
    <3>2. CASE Len(inq[p]) < QueueLen /\ inq' = [inq EXCEPT ![p] = Append(@, d)]
      <4>1. QueueLen \in Nat
        BY ApiAssumption, Zenon
      <4> QED
        BY <1>10, <3>2, <4>1, InqType, BoundedAppend
    <3> QED
      BY <1>10, <3>1, <3>2, Zenon
  <2>3. made' \in [Clients -> 0..MaxCalls] /\ seqid' \in [Clients -> 0..(SeqMod - 1)]
    BY <1>1, <1>2, <1>6, <1>7
  <2>4. call' \in [Clients -> CallRecords]
    BY <1>12, <1>13, Zenon
  <2> QED
    BY <1>5, <2>1, <2>2, <2>3, <2>4, Zenon DEF Inv, TypeOK, CallRecords
<1>15. SeqInv'
  BY <1>1, <1>2, <1>6, <1>7, <1>11, <1>13 DEF Inv, SeqInv
<1>16. ASSUME NEW b \in Clients, NEW e, Genuine(e, b) PROVE Genuine(e, b)'
  <2>1. CASE b = c
    BY <1>1, <1>6, <1>16, <2>1 DEF Genuine
  <2>2. CASE b # c
    <3>1. made'[b] = made[b] /\ call'[b] = call[b]
      BY <1>1, <1>6, <1>13, <2>2, Zenon
    <3> QED
      BY <1>16, <3>1, Zenon DEF Genuine
  <2> QED
    BY <2>1, <2>2, Zenon
<1>17. Genuine(d, c)'
  <2>1. made'[c] = made[c] + 1 /\ call'[c].key = k
    BY <1>1, <1>6, <1>11, <1>13, Zenon
  <2> QED
    BY <1>6, <1>9, <2>1 DEF Genuine
<1>18. RequestInv'
  <2>1. ASSUME NEW q \in Ports, NEW i \in 1..Len(inq'[q])
        PROVE  inq'[q][i] = d \/ (i \in 1..Len(inq[q]) /\ inq'[q][i] = inq[q][i])
    <3>1. CASE inq' = inq
      BY <2>1, <3>1, Zenon
    <3>2. CASE inq' = [inq EXCEPT ![p] = Append(@, d)]
      <4>1. inq \in [Ports -> Seq(Datagrams)] /\ inq[p] \in Seq(Datagrams)
        BY <1>10, InqType, Zenon
      <4> QED
        BY <2>1, <3>2, <4>1
    <3> QED
      BY <1>10, <3>1, <3>2, Zenon
  <2>2. ASSUME NEW q \in Ports, NEW i \in 1..Len(inq'[q]), NEW e, e = inq'[q][i], Accepted(e)
        PROVE  e.from \in Clients /\ Genuine(e, e.from)'
    <3>1. CASE e = d
      BY <1>9, <1>17, <3>1, Zenon
    <3>2. CASE i \in 1..Len(inq[q]) /\ e = inq[q][i]
      BY <1>16, <2>2, <3>2, Zenon DEF Inv, RequestInv
    <3> QED
      BY <2>1, <2>2, <3>1, <3>2, Zenon
  <2>3. ASSUME NEW q \in Ports, NEW e, NEW b, e = cur'[q], b = addr'[q], Accepted(e)
        PROVE  q \in up' /\ b \in Clients /\ Genuine(e, b)'
    BY <1>5, <1>16, <2>3, Zenon DEF Inv, RequestInv
  <2> QED
    BY <2>2, <2>3, RequestsKept, Zenon
<1>19. AnswerInv'
  BY <1>5, <1>16, Zenon DEF Inv, AnswerInv
<1>20. RightAnswer' /\ FailsOnlyForCause' /\ NeedsResponseId'
  <2>1. ASSUME NEW b \in Clients, b # c
        PROVE  made'[b] = made[b] /\ call'[b] = call[b]
    BY <1>1, <1>6, <1>13, <2>1, Zenon
  <2>2. call'[c].ret # "answer" /\ call'[c].ret # "error"
    BY <1>11, <1>13, Zenon
  <2>3. RightAnswer'
    BY <2>1, <2>2 DEF Inv, RightAnswer
  <2>4. FailsOnlyForCause'
    BY <2>1, <2>2, Zenon DEF Inv, FailsOnlyForCause
  <2>5. NeedsResponseId'
    BY <2>1, <2>2, Zenon DEF Inv, NeedsResponseId
  <2> QED
    BY <2>3, <2>4, <2>5, Zenon
<1> QED
  BY <1>14, <1>15, <1>18, <1>19, <1>20, Zenon DEF Inv

\* A datagram stays genuine while no new call is made.
LEMMA GenuineKept ==
  ASSUME NEW c \in Clients, NEW e, Genuine(e, c), made' = made,
         \A b \in Clients : call'[b].key = call[b].key
  PROVE  Genuine(e, c)'
BY Zenon DEF Genuine

\* A step that leaves the servers alone and makes no new call.
LEMMA ServersAlone ==
  ASSUME Inv, UNCHANGED <<made, up, inq, cur, addr>>,
         \A b \in Clients : call'[b].key = call[b].key
  PROVE  RequestInv'
<1>1. ASSUME NEW q \in Ports, NEW i \in 1..Len(inq'[q]), NEW e, e = inq'[q][i], Accepted(e)
      PROVE  e.from \in Clients /\ Genuine(e, e.from)'
  <2>1. e.from \in Clients /\ Genuine(e, e.from)
    BY <1>1, Zenon DEF Inv, RequestInv
  <2> QED
    BY <2>1, GenuineKept, Zenon
<1>2. ASSUME NEW q \in Ports, NEW e, NEW b, e = cur'[q], b = addr'[q], Accepted(e)
      PROVE  q \in up' /\ b \in Clients /\ Genuine(e, b)'
  <2>1. q \in up' /\ b \in Clients /\ Genuine(e, b)
    BY <1>2, Zenon DEF Inv, RequestInv
  <2> QED
    BY <2>1, GenuineKept, Zenon
<1> QED
  BY <1>1, <1>2, RequestsKept, Zenon

\* What get_host writes when it returns.
LEMMA ReturnedRecord ==
  ASSUME NEW old \in CallRecords,
         NEW ret \in {"refused", "interrupted", "error", "answer"},
         NEW by \in Datagrams,
         NEW new, new = [state |-> "idle", seq |-> old.seq, key |-> old.key,
                         ret |-> ret, by |-> by]
  PROVE  /\ new \in CallRecords
         /\ new.state = "idle" /\ new.ret = ret /\ new.by = by
         /\ new.key = old.key /\ new.seq = old.seq
BY Zenon DEF CallRecords

\* The return of get_host, with whatever it returns.
LEMMA ReturnStep ==
  ASSUME Inv, NEW c \in Clients, call[c].state = "waiting",
         NEW ret \in {"refused", "interrupted", "error", "answer"},
         NEW by \in Datagrams,
         Return(c, ret, by), UNCHANGED <<made, seqid>>,
         ret = "answer" => /\ by.from = c
                           /\ by.kind = "response" /\ "response" \in Replies
                           /\ by.n \in {made[c] - i * SeqMod : i \in 0..(made[c] \div SeqMod)},
         ret = "error" => by.kind # "response" \/ (by.n < made[c] /\ made[c] > SeqMod)
  PROVE  /\ call' \in [Clients -> CallRecords]
         /\ \A b \in Clients : call'[b].key = call[b].key
         /\ SeqInv' /\ RightAnswer' /\ FailsOnlyForCause' /\ NeedsResponseId'
         /\ lost' \subseteq Clients
<1>1. call \in [Clients -> CallRecords]
  BY CallType, Zenon
<1>2. call' = [call EXCEPT ![c] = [state |-> "idle", seq |-> @.seq, key |-> @.key,
                                    ret |-> ret, by |-> by]]
  BY Zenon DEF Return
<1>3. PICK new : new = [state |-> "idle", seq |-> call[c].seq, key |-> call[c].key,
                        ret |-> ret, by |-> by]
  BY Zenon
<1>4. /\ new \in CallRecords
      /\ new.state = "idle" /\ new.ret = ret /\ new.by = by
      /\ new.key = call[c].key /\ new.seq = call[c].seq
  <2>1. call[c] \in CallRecords
    BY <1>1, Zenon
  <2> QED
    BY <1>3, <2>1, ReturnedRecord
<1>5. call' = [call EXCEPT ![c] = new]
  BY <1>1, <1>2, <1>3, Zenon
<1>6. call' \in [Clients -> CallRecords] /\ \A b \in Clients : call'[b].key = call[b].key
  BY <1>1, <1>4, <1>5, Zenon
<1>7. ASSUME NEW b \in Clients, b # c PROVE call'[b] = call[b]
  BY <1>1, <1>5, <1>7, Zenon
<1>8. /\ call'[c].ret = ret /\ call'[c].by = by
      /\ call'[c].state = "idle" /\ call'[c].seq = call[c].seq
  BY <1>1, <1>4, <1>5, Zenon
<1>9. SeqInv'
  BY <1>7, <1>8 DEF Inv, SeqInv
<1>10. RightAnswer'
  BY <1>7, <1>8 DEF Inv, RightAnswer
<1>11. FailsOnlyForCause'
  BY <1>7, <1>8 DEF Inv, FailsOnlyForCause
<1>12. NeedsResponseId'
  BY <1>7, <1>8, Zenon DEF Inv, NeedsResponseId
<1>13. lost' \subseteq Clients
  BY NetType, Zenon DEF Return
<1> QED
  BY <1>6, <1>9, <1>10, <1>11, <1>12, <1>13, Zenon

\* The answers that wait in the next state, one by one.
LEMMA AnswersKept ==
  ASSUME ASSUME NEW b \in Clients, NEW q \in Ports, NEW i \in 1..Len(box'[b][q]),
                NEW e, e = box'[b][q][i]
         PROVE  Genuine(e, b)' /\ e.kind \in Replies \cup {"broken"}
  PROVE  AnswerInv'
<1>1. ASSUME NEW b \in Clients, NEW q \in Ports, NEW i \in 1..Len(box'[b][q])
      PROVE  Genuine(box[b][q][i], b)' /\ box'[b][q][i].kind \in Replies \cup {"broken"}
  <2>1. PICK e : e = box'[b][q][i]
    OBVIOUS
  <2>2. Genuine(e, b)' /\ e.kind \in Replies \cup {"broken"}
    BY <2>1, Zenon
  <2> QED
    BY <2>1, <2>2, Zenon DEF Genuine
<1> QED
  BY <1>1, Zenon DEF AnswerInv

\* The answers that wait stay genuine while no new call is made.
LEMMA BoxesAlone ==
  ASSUME Inv, UNCHANGED <<made, box>>,
         \A b \in Clients : call'[b].key = call[b].key
  PROVE  AnswerInv'
<1>1. ASSUME NEW b \in Clients, NEW q \in Ports, NEW i \in 1..Len(box'[b][q]),
             NEW e, e = box'[b][q][i]
      PROVE  Genuine(e, b)' /\ e.kind \in Replies \cup {"broken"}
  <2>1. Genuine(e, b) /\ e.kind \in Replies \cup {"broken"}
    BY <1>1, Zenon DEF Inv, AnswerInv
  <2> QED
    BY <2>1, GenuineKept, Zenon
<1> QED
  BY <1>1, AnswersKept, Zenon

\* recvfrom fails: a refused datagram, or a signal.
LEMMA RecvFailsStep ==
  ASSUME Inv, NEW c \in Clients, RecvRefused(c) \/ RecvInterrupted(c)
  PROVE  Inv'
<1>1. /\ call[c].state = "waiting"
      /\ UNCHANGED <<made, seqid, box, up, inq, cur, addr>>
      /\ \E ret \in {"refused", "interrupted"} : Return(c, ret, Foreign)
  BY Zenon DEF RecvRefused, RecvInterrupted, srvVars
<1>2. err' \subseteq Clients \X Ports /\ faults' \in 0..MaxFaults
  <2>1. \/ faults' = faults /\ err' \subseteq err
        \/ faults < MaxFaults /\ faults' = faults + 1 /\ err' = err
    BY Zenon DEF RecvRefused, RecvInterrupted
  <2> QED
    BY <2>1, NetType, ApiAssumption
<1>3. /\ call' \in [Clients -> CallRecords]
      /\ \A b \in Clients : call'[b].key = call[b].key
      /\ SeqInv' /\ RightAnswer' /\ FailsOnlyForCause' /\ NeedsResponseId'
      /\ lost' \subseteq Clients
  <2>1. PICK ret \in {"refused", "interrupted"} : Return(c, ret, Foreign)
    BY <1>1, Zenon
  <2>2. /\ ret \in {"refused", "interrupted", "error", "answer"}
        /\ ret # "answer" /\ ret # "error"
    BY Zenon
  <2> QED
    BY <1>1, <2>1, <2>2, ForeignType, ReturnStep, Zenon
<1>4. TypeOK'
  BY <1>1, <1>2, <1>3, Zenon DEF Inv, TypeOK, CallRecords
<1>5. RequestInv'
  BY <1>1, <1>3, ServersAlone, Zenon
<1>6. AnswerInv'
  BY <1>1, <1>3, BoxesAlone, Zenon
<1> QED
  BY <1>3, <1>4, <1>5, <1>6, Zenon DEF Inv

\* The first datagram of a socket is taken out.
LEMMA BoxTaken ==
  ASSUME Inv, NEW c \in Clients, NEW p \in Ports, box[c][p] # <<>>,
         box' = [box EXCEPT ![c][p] = Tail(@)], UNCHANGED made,
         \A b \in Clients : call'[b].key = call[b].key
  PROVE  /\ box' \in [Clients -> [Ports -> Seq(Datagrams)]]
         /\ \A b \in Clients, q \in Ports : Len(box'[b][q]) <= QueueLen
         /\ AnswerInv'
<1> DEFINE s == box[c][p]
           t == Tail(s)
<1>1. s \in Seq(Datagrams) /\ Len(s) <= QueueLen
  BY BoxType, Zenon
<1>2. /\ t \in Seq(Datagrams) /\ Len(t) = Len(s) - 1
      /\ \A i \in 1..Len(t) : i + 1 \in 1..Len(s) /\ t[i] = s[i + 1]
  BY <1>1
<1>3. box \in [Clients -> [Ports -> Seq(Datagrams)]]
  BY BoxType, Zenon
<1>4. /\ box' \in [Clients -> [Ports -> Seq(Datagrams)]]
      /\ box'[c][p] = t
      /\ \A b \in Clients, q \in Ports : b # c \/ q # p => box'[b][q] = box[b][q]
  BY <1>2, <1>3, SocketUpdate, Zenon
<1> HIDE DEF t
<1>5. Len(t) <= QueueLen
  BY <1>1, <1>2, ApiAssumption
<1>6. \A b \in Clients, q \in Ports : Len(box'[b][q]) <= QueueLen
  BY <1>4, <1>5, BoxType, Zenon
<1>7. ASSUME NEW b \in Clients, NEW q \in Ports, NEW i \in 1..Len(box'[b][q])
      PROVE  \E j \in 1..Len(box[b][q]) : box'[b][q][i] = box[b][q][j]
  <2>1. CASE b = c /\ q = p
    BY <1>2, <1>4, <1>7, <2>1
  <2>2. CASE ~(b = c /\ q = p)
    BY <1>4, <1>7, <2>2, Zenon
  <2> QED
    BY <2>1, <2>2, Zenon
<1>8. AnswerInv'
  <2>1. ASSUME NEW b \in Clients, NEW q \in Ports, NEW i \in 1..Len(box'[b][q]),
               NEW e, e = box'[b][q][i]
        PROVE  Genuine(e, b)' /\ e.kind \in Replies \cup {"broken"}
    <3>1. PICK j \in 1..Len(box[b][q]) : e = box[b][q][j]
      BY <1>7, <2>1, Zenon
    <3>2. Genuine(e, b) /\ e.kind \in Replies \cup {"broken"}
      BY <3>1, Zenon DEF Inv, AnswerInv
    <3> QED
      BY <3>2, GenuineKept, Zenon
  <2> QED
    BY <2>1, AnswersKept, Zenon
<1> QED
  BY <1>4, <1>6, <1>8, Zenon

\* In the first round of _seqid no two calls have the same number.
LEMMA FirstRound ==
  ASSUME NEW n \in 1..SeqMod
  PROVE  SeqOf(n) = n - 1
<1>1. n - 1 \in Nat /\ n - 1 < SeqMod
  BY ApiAssumption
<1> QED
  BY <1>1, ModSmall, ApiAssumption, Zenon DEF SeqOf

\* Calls with the same number are whole rounds apart.
LEMMA SameSeq ==
  ASSUME NEW m \in Nat, NEW n \in 1..m, SeqOf(n) = SeqOf(m)
  PROVE  n \in {m - i * SeqMod : i \in 0..(m \div SeqMod)}
<1> DEFINE a == n - 1
           b == m - 1
<1>1. a \in Nat /\ b \in Nat /\ a <= b /\ n = a + 1 /\ m = b + 1
  OBVIOUS
<1>2. a % SeqMod = b % SeqMod
  BY Zenon DEF SeqOf
<1> HIDE DEF a, b
<1>3. PICK i \in 0..(b \div SeqMod) : a = b - i * SeqMod
  <2>1. SeqMod \in Nat \ {0}
    BY ApiAssumption, Zenon
  <2> QED
    BY <1>1, <1>2, <2>1, ModRounds, ZenonT(60)
<1>4. b \div SeqMod \in Nat /\ m \div SeqMod \in Nat
  <2>1. SeqMod \in Nat \ {0}
    BY ApiAssumption, Zenon
  <2> QED
    BY <1>1, <2>1, DivMod, Zenon
<1>5. b \div SeqMod <= m \div SeqMod
  <2>1. PICK q \in Nat, r \in 0..(SeqMod - 1) : b = SeqMod * q + r /\ q = b \div SeqMod
    BY <1>1, DivMod, ApiAssumption, ZenonT(60)
  <2>2. PICK p \in Nat, t \in 0..(SeqMod - 1) : m = SeqMod * p + t /\ p = m \div SeqMod
    BY DivMod, ApiAssumption, ZenonT(60)
  <2>3. SeqMod * q < SeqMod * (p + 1)
    BY <1>1, <2>1, <2>2, ApiAssumption
  <2>4. q < p + 1
    BY <2>3, ApiAssumption
  <2> QED
    BY <2>1, <2>2, <2>4
<1>6. i \in 0..(m \div SeqMod)
  BY <1>4, <1>5
<1>7. n = m - i * SeqMod
  <2>1. i * SeqMod \in Int
    BY <1>4, ApiAssumption
  <2> QED
    BY <1>1, <1>3, <2>1
<1> QED
  BY <1>6, <1>7, Zenon

\* One turn of the loop that waits for the answer.
LEMMA RecvAnswerStep ==
  ASSUME Inv, NEW c \in Clients, RecvAnswer(c)
  PROVE  Inv'
<1>1. call[c] \in CallRecords
  BY CallType, Zenon
<1>2. PICK k \in Keys : k = call[c].key
  BY <1>1, Zenon DEF CallRecords
<1>3. PICK p \in Ports : p = PortOf[k]
  BY ApiAssumption, Zenon
<1>4. PICK r : r = Head(box[c][p])
  BY Zenon
<1>5. /\ call[c].state = "waiting"
      /\ box[c][p] # <<>>
      /\ box' = [box EXCEPT ![c][p] = Tail(@)]
      /\ UNCHANGED <<seqid, made, err, up, inq, cur, addr, faults>>
      /\ \/ UNCHANGED <<call, lost>>
         \/ (WrongId(r) \/ Unparsable(r)) /\ Return(c, "error", r)
         \/ /\ ~WrongId(r) /\ ~Unparsable(r) /\ Matches(r, call[c].seq, k)
            /\ Return(c, "answer", r)
         \/ /\ ~Older(r, call[c].seq) /\ ~Matches(r, call[c].seq, k)
            /\ Return(c, "error", r)
  BY <1>2, <1>3, <1>4, Zenon DEF RecvAnswer, srvVars
<1>6. r \in Datagrams /\ Genuine(r, c) /\ r.kind \in Replies \cup {"broken"}
  <2>1. box[c][p] \in Seq(Datagrams)
    BY BoxType, Zenon
  <2>2. r = box[c][p][1] /\ 1 \in 1..Len(box[c][p]) /\ r \in Datagrams
    BY <1>4, <1>5, <2>1
  <2> QED
    BY <2>2, Zenon DEF Inv, AnswerInv
<1>7. /\ made[c] \in 1..MaxCalls /\ call[c].seq = SeqOf(made[c])
      /\ r.from = c
      /\ r.n \in 1..made[c] /\ r.seq = SeqOf(r.n)
      /\ r.n = made[c] => r.key = k
  <2>1. made[c] \in 0..MaxCalls
    BY CountType, Zenon
  <2>2. made[c] # 0
    BY <1>5, Zenon DEF Inv, SeqInv
  <2>3. call[c].seq = SeqOf(made[c])
    BY <2>1, <2>2, ApiAssumption DEF Inv, SeqInv
  <2> QED
    BY <1>2, <1>6, <2>1, <2>2, <2>3, ApiAssumption DEF Genuine
<1>8. /\ call' \in [Clients -> CallRecords]
      /\ \A b \in Clients : call'[b].key = call[b].key
      /\ SeqInv' /\ RightAnswer' /\ FailsOnlyForCause' /\ NeedsResponseId'
      /\ lost' \subseteq Clients
  <2>1. CASE UNCHANGED <<call, lost>>
    <3>1. SeqInv' /\ RightAnswer'
      BY <1>5, <2>1 DEF Inv, SeqInv, RightAnswer
    <3>2. FailsOnlyForCause' /\ NeedsResponseId'
      BY <1>5, <2>1, Zenon DEF Inv, FailsOnlyForCause, NeedsResponseId
    <3> QED
      BY <2>1, <3>1, <3>2, CallType, NetType, Zenon
  <2>2. CASE (WrongId(r) \/ Unparsable(r)) /\ Return(c, "error", r)
    <3>1. r.kind # "response"
      BY <2>2 DEF WrongId, Unparsable
    <3> QED
      BY <1>5, <1>6, <2>2, <3>1, ReturnStep, Zenon
  <2>3. CASE /\ ~WrongId(r) /\ ~Unparsable(r) /\ Matches(r, call[c].seq, k)
             /\ Return(c, "answer", r)
    <3>1. SeqOf(r.n) = SeqOf(made[c])
      BY <1>7, <2>3, Zenon DEF Matches
    <3>2. r.n \in {made[c] - i * SeqMod : i \in 0..(made[c] \div SeqMod)}
      <4>1. made[c] \in Nat
        BY <1>7, ApiAssumption
      <4> QED
        BY <1>7, <3>1, <4>1, SameSeq, Zenon
    <3>3. r.kind = "response" /\ "response" \in Replies
      BY <1>6, <2>3, ApiAssumption, Zenon DEF WrongId, Unparsable
    <3> QED
      BY <1>5, <1>6, <1>7, <2>3, <3>2, <3>3, ReturnStep, Zenon
  <2>4. CASE /\ ~Older(r, call[c].seq) /\ ~Matches(r, call[c].seq, k)
             /\ Return(c, "error", r)
    <3>1. r.n # made[c]
      BY <1>7, <2>4, Zenon DEF Matches
    <3>2. r.n < made[c]
      BY <1>7, <3>1, ApiAssumption
    <3>3. made[c] > SeqMod
      <4> SUFFICES ASSUME ~(made[c] > SeqMod) PROVE FALSE
        BY Zenon
      <4>1. made[c] \in 1..SeqMod /\ r.n \in 1..SeqMod
        BY <1>7, ApiAssumption
      <4>2. r.seq = r.n - 1 /\ call[c].seq = made[c] - 1
        BY <1>7, <4>1, FirstRound, Zenon
      <4> QED
        BY <2>4, <3>2, <4>1, <4>2, ApiAssumption DEF Older
    <3> QED
      BY <1>5, <1>6, <2>4, <3>2, <3>3, ReturnStep, Zenon
  <2> QED
    BY <1>5, <2>1, <2>2, <2>3, <2>4, Zenon
<1>9. /\ box' \in [Clients -> [Ports -> Seq(Datagrams)]]
      /\ \A b \in Clients, q \in Ports : Len(box'[b][q]) <= QueueLen
      /\ AnswerInv'
  BY <1>5, <1>8, BoxTaken, Zenon
<1>10. RequestInv'
  BY <1>5, <1>8, ServersAlone, Zenon
<1>11. TypeOK'
  BY <1>5, <1>8, <1>9, Zenon DEF Inv, TypeOK, CallRecords
<1> QED
  BY <1>8, <1>9, <1>10, <1>11, Zenon DEF Inv

\* A step of the servers that leaves the clients alone; the sockets of the
\* servers may change.
LEMMA ServerSide ==
  ASSUME Inv, UNCHANGED <<seqid, call, made, err>>,
         box' \in [Clients -> [Ports -> Seq(Datagrams)]],
         \A c \in Clients, p \in Ports : Len(box'[c][p]) <= QueueLen,
         inq' \in [Ports -> Seq(Datagrams)], \A p \in Ports : Len(inq'[p]) <= QueueLen,
         cur' \in [Ports -> Datagrams], addr' \in [Ports -> Clients \cup {Other}],
         up' \subseteq Ports, faults' \in 0..MaxFaults, lost' \subseteq Clients,
         RequestInv', AnswerInv'
  PROVE  Inv'
<1>1. TypeOK'
  BY Zenon DEF Inv, TypeOK
<1>2. SeqInv'
  BY Zenon DEF Inv, SeqInv
<1>3. RightAnswer'
  <2>1. RightAnswer
    BY Zenon DEF Inv
  <2> QED
    BY <2>1, SMTT(20) DEF RightAnswer
<1>4. FailsOnlyForCause'
  BY Zenon DEF Inv, FailsOnlyForCause
<1>5. NeedsResponseId'
  BY Zenon DEF Inv, NeedsResponseId
<1> QED
  BY <1>1, <1>2, <1>3, <1>4, <1>5, Zenon DEF Inv

\* recvfrom of a server.
LEMMA ReceiveStep ==
  ASSUME Inv, NEW p \in Ports, Receive(p)
  PROVE  Inv'
<1>1. PICK d : d = Head(inq[p])
  BY Zenon
<1>2. /\ p \in up /\ inq[p] # <<>>
      /\ cur' = [cur EXCEPT ![p] = d]
      /\ addr' = [addr EXCEPT ![p] = d.from]
      /\ inq' = [inq EXCEPT ![p] = Tail(@)]
      /\ UNCHANGED <<seqid, call, made, up, box, err, faults, lost>>
  BY <1>1, Zenon DEF Receive, cliVars
<1>3. inq \in [Ports -> Seq(Datagrams)] /\ inq[p] \in Seq(Datagrams)
  BY InqType, Zenon
<1>4. d = inq[p][1] /\ 1 \in 1..Len(inq[p]) /\ d \in Datagrams
  BY <1>1, <1>2, <1>3
<1>5. d.from \in Clients \cup {Other}
  BY <1>4, Zenon DEF Datagrams
<1>6. cur' \in [Ports -> Datagrams] /\ addr' \in [Ports -> Clients \cup {Other}]
  BY <1>2, <1>4, <1>5, ServerType, Zenon
<1>7. inq' \in [Ports -> Seq(Datagrams)] /\ \A q \in Ports : Len(inq'[q]) <= QueueLen
  <2>1. QueueLen \in Nat
    BY ApiAssumption, Zenon
  <2> QED
    BY <1>2, <1>3, <2>1, InqType, BoundedTail, Zenon
<1>8. RequestInv'
  <2>1. ASSUME NEW q \in Ports, NEW i \in 1..Len(inq'[q]), NEW e, e = inq'[q][i], Accepted(e)
        PROVE  e.from \in Clients /\ Genuine(e, e.from)'
    <3>1. PICK j \in 1..Len(inq[q]) : e = inq[q][j]
      <4> DEFINE t == Tail(inq[p])
      <4>1. \A n \in 1..Len(t) : n + 1 \in 1..Len(inq[p]) /\ t[n] = inq[p][n + 1]
        BY <1>3
      <4>2. inq'[q] = IF q = p THEN t ELSE inq[q]
        BY <1>2, <1>3, Zenon
      <4> HIDE DEF t
      <4> QED
        BY <2>1, <4>1, <4>2, Zenon
    <3>2. e.from \in Clients /\ Genuine(e, e.from)
      BY <2>1, <3>1, Zenon DEF Inv, RequestInv
    <3> QED
      BY <1>2, <3>2, GenuineKept, Zenon
  <2>2. ASSUME NEW q \in Ports, NEW e, NEW b, e = cur'[q], b = addr'[q], Accepted(e)
        PROVE  q \in up' /\ b \in Clients /\ Genuine(e, b)'
    <3>1. q \in up' /\ b \in Clients /\ Genuine(e, b)
      <4>1. CASE q = p
        <5>1. e = d /\ b = d.from
          BY <1>2, <2>2, <4>1, ServerType, Zenon
        <5> QED
          BY <1>2, <1>4, <2>2, <4>1, <5>1, Zenon DEF Inv, RequestInv
      <4>2. CASE q # p
        <5>1. e = cur[q] /\ b = addr[q]
          BY <1>2, <2>2, <4>2, ServerType, Zenon
        <5> QED
          BY <1>2, <2>2, <5>1, Zenon DEF Inv, RequestInv
      <4> QED
        BY <4>1, <4>2, Zenon
    <3> QED
      BY <1>2, <3>1, GenuineKept, Zenon
  <2> QED
    BY <2>1, <2>2, RequestsKept, Zenon
<1>9. AnswerInv'
  BY <1>2, BoxesAlone, Zenon
<1> QED
  BY <1>2, <1>6, <1>7, <1>8, <1>9, BoxType, ServerType, NetType, ServerSide, Zenon

\* The handler answers.
LEMMA AnswerStep ==
  ASSUME Inv, NEW p \in Ports, NEW kind \in Replies \cup {"broken"}, AnswerWith(p, kind),
         faults' \in 0..MaxFaults
  PROVE  Inv'
<1>1. PICK d : d = [cur[p] EXCEPT !.kind = kind]
  BY Zenon
<1>2. PICK c : c = addr[p]
  BY Zenon
<1>3. /\ Accepted(cur[p])
      /\ cur' = [cur EXCEPT ![p] = Foreign]
      /\ UNCHANGED <<seqid, call, made, up, inq, addr, err>>
      /\ \/ box' = box
         \/ Len(box[c][p]) < QueueLen /\ box' = [box EXCEPT ![c][p] = Append(@, d)]
      /\ lost' \subseteq lost \cup Clients
  BY <1>1, <1>2, Zenon DEF AnswerWith, SendMessage, Awaiting, cliVars
<1>4. cur[p] \in Datagrams /\ c \in Clients /\ Genuine(cur[p], c)
  BY <1>2, <1>3, ServerType, Zenon DEF Inv, RequestInv
<1>5. /\ d \in Datagrams /\ d.kind = kind
      /\ d.from = cur[p].from /\ d.n = cur[p].n /\ d.seq = cur[p].seq /\ d.key = cur[p].key
  <2>1. kind \in {"request", "foreign", "response", "msgid", "broken"}
    BY ApiAssumption, Zenon
  <2> QED
    BY <1>1, <1>4, <2>1 DEF Datagrams
<1>6. Genuine(d, c)
  BY <1>4, <1>5, Zenon DEF Genuine
<1>7. cur' \in [Ports -> Datagrams]
  BY <1>3, ForeignType, ServerType, Zenon
<1>8. RequestInv'
  <2>1. ASSUME NEW q \in Ports, NEW i \in 1..Len(inq'[q]), NEW e, e = inq'[q][i], Accepted(e)
        PROVE  e.from \in Clients /\ Genuine(e, e.from)'
    <3>1. e.from \in Clients /\ Genuine(e, e.from)
      BY <1>3, <2>1, Zenon DEF Inv, RequestInv
    <3> QED
      BY <1>3, <3>1, GenuineKept, Zenon
  <2>2. ASSUME NEW q \in Ports, NEW e, NEW b, e = cur'[q], b = addr'[q], Accepted(e)
        PROVE  q \in up' /\ b \in Clients /\ Genuine(e, b)'
    <3>1. q # p
      BY <1>3, <2>2, ForeignType, ServerType, Zenon
    <3>2. e = cur[q] /\ b = addr[q]
      BY <1>3, <2>2, <3>1, ServerType, Zenon
    <3>3. q \in up' /\ b \in Clients /\ Genuine(e, b)
      BY <1>3, <2>2, <3>2, Zenon DEF Inv, RequestInv
    <3> QED
      BY <1>3, <3>3, GenuineKept, Zenon
  <2> QED
    BY <2>1, <2>2, RequestsKept, Zenon
<1>9. /\ box' \in [Clients -> [Ports -> Seq(Datagrams)]]
      /\ \A b \in Clients, q \in Ports : Len(box'[b][q]) <= QueueLen
      /\ AnswerInv'
  <2>1. CASE box' = box
    BY <1>3, <2>1, BoxType, BoxesAlone, Zenon
  <2>2. CASE Len(box[c][p]) < QueueLen /\ box' = [box EXCEPT ![c][p] = Append(@, d)]
    <3> DEFINE s == box[c][p]
               t == Append(s, d)
    <3>1. box \in [Clients -> [Ports -> Seq(Datagrams)]] /\ s \in Seq(Datagrams)
      BY <1>4, BoxType, Zenon
    <3>2. /\ t \in Seq(Datagrams) /\ Len(t) = Len(s) + 1
          /\ \A i \in 1..Len(s) : t[i] = s[i]
          /\ t[Len(s) + 1] = d
      BY <1>5, <3>1
    <3>3. /\ box' \in [Clients -> [Ports -> Seq(Datagrams)]]
          /\ box'[c][p] = t
          /\ \A b \in Clients, q \in Ports : b # c \/ q # p => box'[b][q] = box[b][q]
      BY <1>4, <2>2, <3>1, <3>2, SocketUpdate, Zenon
    <3> HIDE DEF t
    <3>4. Len(t) <= QueueLen
      BY <2>2, <3>1, <3>2, ApiAssumption
    <3>5. \A b \in Clients, q \in Ports : Len(box'[b][q]) <= QueueLen
      BY <3>3, <3>4, BoxType, Zenon
    <3>6. ASSUME NEW b \in Clients, NEW q \in Ports, NEW i \in 1..Len(box'[b][q])
          PROVE  \/ b = c /\ box'[b][q][i] = d
                 \/ \E j \in 1..Len(box[b][q]) : box'[b][q][i] = box[b][q][j]
      <4>1. CASE b = c /\ q = p
        <5>1. box'[b][q] = t /\ box[b][q] = s
          BY <3>3, <4>1, Zenon
        <5>2. i \in 1..Len(s) \/ i = Len(s) + 1
          BY <3>1, <3>2, <3>6, <5>1
        <5> QED
          BY <3>2, <4>1, <5>1, <5>2, Zenon
      <4>2. CASE ~(b = c /\ q = p)
        BY <3>3, <3>6, <4>2, Zenon
      <4> QED
        BY <4>1, <4>2, Zenon
    <3>7. ASSUME NEW b \in Clients, NEW q \in Ports, NEW i \in 1..Len(box'[b][q]),
                 NEW e, e = box'[b][q][i]
          PROVE  Genuine(e, b)' /\ e.kind \in Replies \cup {"broken"}
      <4>1. Genuine(e, b) /\ e.kind \in Replies \cup {"broken"}
        <5>1. CASE b = c /\ e = d
          BY <1>5, <1>6, <5>1, Zenon
        <5>2. CASE \E j \in 1..Len(box[b][q]) : e = box[b][q][j]
          BY <5>2, Zenon DEF Inv, AnswerInv
        <5> QED
          BY <3>6, <3>7, <5>1, <5>2, Zenon
      <4> QED
        BY <1>3, <4>1, GenuineKept, Zenon
    <3>8. AnswerInv'
      BY <3>7, AnswersKept, Zenon
    <3> QED
      BY <3>3, <3>5, <3>8, Zenon
  <2> QED
    BY <1>3, <2>1, <2>2, Zenon
<1>10. lost' \subseteq Clients
  BY <1>3, NetType, Zenon
<1> QED
  BY <1>3, <1>7, <1>8, <1>9, <1>10, InqType, ServerType, ServerSide, Zenon

\* The agent ends: its handler crashes, or it is stopped.
LEMMA AgentEndsStep ==
  ASSUME Inv, AgentEnds
  PROVE  Inv'
<1>1. /\ faults < MaxFaults /\ faults' = faults + 1
      /\ up' = {} /\ inq' = [p \in Ports |-> <<>>] /\ cur' = [p \in Ports |-> Foreign]
      /\ UNCHANGED <<seqid, call, made, addr, box, err>>
  BY Zenon DEF AgentEnds, cliVars
<1>2. lost' \subseteq lost \cup Clients
  BY Zenon DEF AgentEnds, Awaiting
<1>3. inq' \in [Ports -> Seq(Datagrams)] /\ \A q \in Ports : Len(inq'[q]) <= QueueLen
  BY <1>1, ApiAssumption
<1>4. RequestInv'
  <2>1. ASSUME NEW q \in Ports PROVE 1..Len(inq'[q]) = {} /\ cur'[q] = Foreign
    BY <1>1, <2>1
  <2>2. ASSUME NEW q \in Ports, NEW i \in 1..Len(inq'[q]), NEW e, e = inq'[q][i], Accepted(e)
        PROVE  e.from \in Clients /\ Genuine(e, e.from)'
    BY <2>1, <2>2, Zenon
  <2>3. ASSUME NEW q \in Ports, NEW e, NEW b, e = cur'[q], b = addr'[q], Accepted(e)
        PROVE  q \in up' /\ b \in Clients /\ Genuine(e, b)'
    BY <2>1, <2>3, ForeignType, Zenon
  <2> QED
    BY <2>2, <2>3, RequestsKept, Zenon
<1>5. AnswerInv'
  BY <1>1, BoxesAlone, Zenon
<1>6. faults' \in 0..MaxFaults
  BY <1>1, NetType, ApiAssumption
<1>7. lost' \subseteq Clients /\ up' \subseteq Ports
  BY <1>1, <1>2, NetType, Zenon
<1>8. cur' \in [Ports -> Datagrams]
  BY <1>1, ForeignType, Zenon
<1> QED
  BY <1>1, <1>3, <1>4, <1>5, <1>6, <1>7, <1>8, BoxType, ServerType, ServerSide, Zenon

\* A server is started again.
LEMMA StartStep ==
  ASSUME Inv, NEW p \in Ports, Start(p)
  PROVE  Inv'
<1>1. /\ p \notin up /\ up' = up \cup {p} /\ addr' = [addr EXCEPT ![p] = Other]
      /\ UNCHANGED <<seqid, call, made, inq, cur, box, err, faults, lost>>
  BY Zenon DEF Start, cliVars
<1>2. up' \subseteq Ports /\ addr' \in [Ports -> Clients \cup {Other}]
  BY <1>1, ServerType, Zenon
<1>3. RequestInv'
  <2>1. ASSUME NEW q \in Ports, NEW i \in 1..Len(inq'[q]), NEW e, e = inq'[q][i], Accepted(e)
        PROVE  e.from \in Clients /\ Genuine(e, e.from)'
    <3>1. e.from \in Clients /\ Genuine(e, e.from)
      BY <1>1, <2>1, Zenon DEF Inv, RequestInv
    <3> QED
      BY <1>1, <3>1, GenuineKept, Zenon
  <2>2. ASSUME NEW q \in Ports, NEW e, NEW b, e = cur'[q], b = addr'[q], Accepted(e)
        PROVE  q \in up' /\ b \in Clients /\ Genuine(e, b)'
    <3>1. e = cur[q] /\ q \in up /\ q # p
      BY <1>1, <2>2, Zenon DEF Inv, RequestInv
    <3>2. b = addr[q] /\ q \in up'
      BY <1>1, <2>2, <3>1, ServerType, Zenon
    <3>3. b \in Clients /\ Genuine(e, b)
      BY <2>2, <3>1, <3>2, Zenon DEF Inv, RequestInv
    <3> QED
      BY <1>1, <3>2, <3>3, GenuineKept, Zenon
  <2> QED
    BY <2>1, <2>2, RequestsKept, Zenon
<1>4. AnswerInv'
  BY <1>1, BoxesAlone, Zenon
<1> QED
  BY <1>1, <1>2, <1>3, <1>4, BoxType, InqType, ServerType, NetType, ServerSide, Zenon

\* A datagram of another program arrives.
LEMMA ForeignStep ==
  ASSUME Inv, NEW p \in Ports, ForeignDatagram(p)
  PROVE  Inv'
<1>1. PICK d \in Datagrams : d = Foreign /\ ~Accepted(d)
  BY ForeignType, Zenon
<1>2. /\ faults < MaxFaults /\ faults' = faults + 1
      /\ Len(inq[p]) < QueueLen /\ inq' = [inq EXCEPT ![p] = Append(@, d)]
      /\ UNCHANGED <<seqid, call, made, up, cur, addr, box, err, lost>>
  BY <1>1, Zenon DEF ForeignDatagram, cliVars
<1>3. inq' \in [Ports -> Seq(Datagrams)] /\ \A q \in Ports : Len(inq'[q]) <= QueueLen
  <2>1. QueueLen \in Nat
    BY ApiAssumption, Zenon
  <2> QED
    BY <1>2, <2>1, InqType, BoundedAppend
<1>4. RequestInv'
  <2>1. ASSUME NEW q \in Ports, NEW i \in 1..Len(inq'[q]), NEW e, e = inq'[q][i], Accepted(e)
        PROVE  e.from \in Clients /\ Genuine(e, e.from)'
    <3>1. inq \in [Ports -> Seq(Datagrams)] /\ inq[p] \in Seq(Datagrams)
      BY InqType, Zenon
    <3>2. e = d \/ (i \in 1..Len(inq[q]) /\ e = inq[q][i])
      BY <1>2, <2>1, <3>1
    <3>3. e.from \in Clients /\ Genuine(e, e.from)
      BY <1>1, <2>1, <3>2, Zenon DEF Inv, RequestInv
    <3> QED
      BY <1>2, <3>3, GenuineKept, Zenon
  <2>2. ASSUME NEW q \in Ports, NEW e, NEW b, e = cur'[q], b = addr'[q], Accepted(e)
        PROVE  q \in up' /\ b \in Clients /\ Genuine(e, b)'
    <3>1. q \in up' /\ b \in Clients /\ Genuine(e, b)
      BY <1>2, <2>2, Zenon DEF Inv, RequestInv
    <3> QED
      BY <1>2, <3>1, GenuineKept, Zenon
  <2> QED
    BY <2>1, <2>2, RequestsKept, Zenon
<1>5. AnswerInv'
  BY <1>2, BoxesAlone, Zenon
<1>6. faults' \in 0..MaxFaults
  BY <1>2, NetType, ApiAssumption
<1> QED
  BY <1>2, <1>3, <1>4, <1>5, <1>6, BoxType, ServerType, NetType, ServerSide, Zenon

-----------------------------------------------------------------------------
(* The theorems *)

\* Every step of get_host, of udp_server and of the network keeps the invariant.
LEMMA NextInv == Inv /\ [Next]_vars => Inv'
<1> SUFFICES ASSUME Inv, [Next]_vars PROVE Inv'
  BY Zenon
<1>1. ASSUME NEW c \in Clients, Client(c) PROVE Inv'
  BY <1>1, SendStep, RecvFailsStep, RecvAnswerStep, Zenon DEF Client
<1>2. ASSUME NEW p \in Ports, Server(p) PROVE Inv'
  <2>1. CASE Answer(p)
    <3>1. PICK kind \in Replies : AnswerWith(p, kind)
      BY <2>1, Zenon DEF Answer
    <3>2. faults' \in 0..MaxFaults
      BY <2>1, NetType, Zenon DEF Answer
    <3> QED
      BY <3>1, <3>2, AnswerStep, Zenon
  <2> QED
    BY <1>2, <2>1, ReceiveStep, AgentEndsStep, Zenon DEF Server, Crash
<1>3. ASSUME NEW p \in Ports, BrokenAnswer(p) PROVE Inv'
  <2>1. faults' \in 0..MaxFaults
    <3>1. faults < MaxFaults /\ faults' = faults + 1
      BY <1>3, Zenon DEF BrokenAnswer
    <3> QED
      BY <3>1, NetType, ApiAssumption
  <2> QED
    BY <1>3, <2>1, AnswerStep, Zenon DEF BrokenAnswer
<1>4. CASE UNCHANGED vars
  <2>1. UNCHANGED <<seqid, call, made, box, err, inq, cur, addr, up, faults, lost>>
    BY <1>4, Zenon DEF vars, cliVars, srvVars
  <2>2. RequestInv' /\ AnswerInv'
    BY <2>1, ServersAlone, BoxesAlone, Zenon
  <2> QED
    BY <2>1, <2>2, BoxType, InqType, ServerType, NetType, ServerSide, Zenon
<1> QED
  BY <1>1, <1>2, <1>3, <1>4, StartStep, ForeignStep, AgentEndsStep, Zenon DEF Next, Kill

\* The inductive invariant holds in every reachable state.
THEOREM Invariance == Spec => []Inv
BY InitInv, NextInv, PTL DEF Spec

\* The locals of get_host and the queues of the sockets stay within their types
\* and bounds.
THEOREM TypeCorrect == Spec => []TypeOK
<1>1. Inv => TypeOK
  BY Zenon DEF Inv
<1> QED
  BY <1>1, Invariance, PTL

\* An answer that get_host returns was given to this very call of this client, or
\* to one a whole number of rounds of _seqid before it: for any number of clients,
\* keys and servers, and whatever was interrupted, lost or restarted.
THEOREM RightAnswerReturned == Spec => []RightAnswer
<1>1. Inv => RightAnswer
  BY Zenon DEF Inv
<1> QED
  BY <1>1, Invariance, PTL

\* A datagram makes get_host fail only if its id is wrong or its body broken, or
\* if it is a late answer once _seqid has come round: get_host never refuses its
\* own answer and skips the other late ones.
THEOREM FailuresHaveCause == Spec => []FailsOnlyForCause
<1>1. Inv => FailsOnlyForCause
  BY Zenon DEF Inv
<1> QED
  BY <1>1, Invariance, PTL

\* With handlers that answer as get_host_cb does, with the id of the request, no
\* call of get_host ever returns an answer.
THEOREM AnswersNeedResponseId == Spec => []NeedsResponseId
<1>1. Inv => NeedsResponseId
  BY Zenon DEF Inv
<1> QED
  BY <1>1, Invariance, PTL
=============================================================================
