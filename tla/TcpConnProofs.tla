--------------------------- MODULE TcpConnProofs ---------------------------
(***************************************************************************)
(* Proofs about a connection's byte streams, for any requests, buffer      *)
(* capacities and sizes, and any cutting of the streams into reads and     *)
(* writes: the callbacks see whole requests in order, the peer gets the    *)
(* frames of the replies, and the assertions of reactor_buf hold.          *)
(***************************************************************************)
EXTENDS TcpConn, WellFoundedInduction, TLAPS

-----------------------------------------------------------------------------
(* The stream of the requests *)

\* Every nonempty set of numbers has a lowest one.
LEMMA Lowest ==
  ASSUME NEW T \in SUBSET Nat, T # {}
  PROVE  \E x \in T : \A y \in T : x <= y
<1> DEFINE R == OpToRel(<, Nat)
<1>1. IsWellFoundedOn(R, Nat)
  BY NatLessThanWellFounded, Zenon
<1>2. \A a, b \in Nat : a < b => <<a, b>> \in R
  BY Zenon DEF OpToRel
<1> HIDE DEF R
<1>3. PICK x \in T : \A y \in T : ~(<<y, x>> \in R)
  BY <1>1, WFMin, Zenon
<1>4. ASSUME NEW y \in T PROVE x <= y
  <2>1. x \in Nat /\ y \in Nat
    BY Zenon
  <2>2. ~(y < x)
    BY <1>2, <1>3, <2>1, Zenon
  <2> QED
    BY <2>1, <2>2
<1> QED
  BY <1>4, Zenon

\* The elements of a sequence.
LEMMA ElementType ==
  ASSUME NEW S, NEW s \in Seq(S)
  PROVE  Len(s) \in Nat /\ \A m \in 1..Len(s) : s[m] \in S
OBVIOUS

\* The sizes.
LEMMA Sizes ==
  /\ HeadLen \in Nat /\ HeadLen > 0 /\ ReplyLen \in Nat /\ SockBuf \in Nat
  /\ \A c \in Caps : c \in Nat /\ c > 0
  /\ \E c \in Caps : HeadLen <= c
BY ConnAssumption

\* What is known of the requests.
LEMMA PeerType ==
  ASSUME peer \in Requests
  PROVE  /\ Len(peer) \in Nat /\ (peer = <<>> <=> Len(peer) = 0)
         /\ \A m \in 1..Len(peer) :
              peer[m].len \in Nat /\ peer[m].at \in Nat /\ peer[m].known \in BOOLEAN
<1>1. peer \in Seq([len : Nat, known : BOOLEAN, at : Nat])
  BY ConnAssumption, Zenon
<1>2. Len(peer) \in Nat /\ (peer = <<>> <=> Len(peer) = 0)
  BY <1>1
<1>3. \A m \in 1..Len(peer) : peer[m] \in [len : Nat, known : BOOLEAN, at : Nat]
  BY <1>1, ElementType, Zenon
<1>4. \A x \in [len : Nat, known : BOOLEAN, at : Nat] :
        x.len \in Nat /\ x.at \in Nat /\ x.known \in BOOLEAN
  BY Zenon
<1> QED
  BY <1>2, <1>3, <1>4, Zenon

\* A request starts where the one before it ends.
LEMMA BeforeStep ==
  ASSUME peer \in Requests
  PROVE  /\ Before(1) = 0
         /\ \A m \in 1..(Len(peer) + 1) : Before(m) \in Nat
         /\ \A m \in 1..Len(peer) : Before(m + 1) = Before(m) + HeadLen + peer[m].len
<1>1. \A m \in 1..Len(peer) :
        peer[m].at = IF m = 1 THEN 0 ELSE peer[m - 1].at + HeadLen + peer[m - 1].len
  BY StreamAssumption, Zenon
<1>2. \A m \in 1..Len(peer) : Before(m) = peer[m].at
  BY PeerType DEF Before
<1>3. ASSUME NEW m \in 1..Len(peer)
      PROVE  Before(m + 1) = peer[m].at + HeadLen + peer[m].len
  <2>1. CASE m = Len(peer)
    BY <2>1, PeerType DEF Before
  <2>2. CASE m # Len(peer)
    <3>1. m + 1 \in 1..Len(peer) /\ m + 1 # 1 /\ (m + 1) - 1 = m
      BY <2>2, PeerType
    <3> QED
      BY <1>1, <1>2, <3>1
  <2> QED
    BY <2>1, <2>2, Zenon
<1>4. Before(1) = 0
  BY <1>1, PeerType DEF Before
<1>5. ASSUME NEW m \in 1..(Len(peer) + 1) PROVE Before(m) \in Nat
  <2>1. CASE m \in 1..Len(peer)
    BY <1>2, <2>1, PeerType, Zenon
  <2>2. CASE m = Len(peer) + 1
    <3>1. CASE Len(peer) = 0
      BY <1>4, <2>2, <3>1
    <3>2. CASE Len(peer) # 0
      <4>1. Len(peer) \in 1..Len(peer)
        BY <3>2, PeerType
      <4>2. peer[Len(peer)].at \in Nat /\ peer[Len(peer)].len \in Nat /\ HeadLen \in Nat
        BY <4>1, PeerType, Sizes, Zenon
      <4>3. Before(Len(peer) + 1) = peer[Len(peer)].at + HeadLen + peer[Len(peer)].len
        BY <1>3, <4>1, Zenon
      <4> QED
        BY <2>2, <4>2, <4>3
    <3> QED
      BY <3>1, <3>2, Zenon
  <2> QED
    BY <2>1, <2>2, PeerType
<1> QED
  BY <1>2, <1>3, <1>4, <1>5, Zenon

\* Later requests start behind earlier ones.
LEMMA BeforeGrows ==
  ASSUME peer \in Requests, NEW m \in 1..Len(peer), NEW q \in 1..(Len(peer) + 1), m < q
  PROVE  Before(m + 1) <= Before(q)
<1> DEFINE T == {x \in 1..(Len(peer) + 1) : m < x /\ ~(Before(m + 1) <= Before(x))}
<1> SUFFICES ASSUME T # {} PROVE FALSE
  BY Zenon
<1>1. T \in SUBSET Nat
  BY PeerType
<1>2. PICK x \in T : \A y \in T : x <= y
  BY <1>1, Lowest, Zenon
<1>3. x \in 1..(Len(peer) + 1) /\ m < x /\ ~(Before(m + 1) <= Before(x)) /\ m + 1 \in 1..(Len(peer) + 1)
  BY PeerType
<1>4. x # m + 1
  BY <1>3, BeforeStep
<1>5. x - 1 \in 1..Len(peer) /\ x - 1 \in 1..(Len(peer) + 1) /\ m < x - 1 /\ ~(x <= x - 1) /\ (x - 1) + 1 = x
  BY <1>3, <1>4, PeerType
<1>6. Before(m + 1) <= Before(x - 1)
  BY <1>2, <1>5, Zenon
<1>7. Before(x) = Before(x - 1) + HeadLen + peer[x - 1].len
  BY <1>5, BeforeStep
<1> QED
  <2>1. /\ Before(m + 1) \in Nat /\ Before(x - 1) \in Nat /\ Before(x) \in Nat
        /\ peer[x - 1].len \in Nat /\ HeadLen \in Nat
    BY <1>3, <1>5, BeforeStep, PeerType, Sizes, Zenon
  <2> HIDE DEF T
  <2> QED
    BY <1>3, <1>6, <1>7, <2>1, SMTT(20)

\* Every byte is in a frame.
LEMMA Covered ==
  ASSUME peer \in Requests, NEW k \in 1..Before(Len(peer) + 1)
  PROVE  \E m \in 1..Len(peer) : Before(m) < k /\ k <= Before(m + 1)
<1> DEFINE T == {x \in 1..(Len(peer) + 1) : k <= Before(x)}
<1>1. T \in SUBSET Nat
  BY PeerType
<1>2. Len(peer) + 1 \in T
  BY PeerType, BeforeStep
<1>3. PICK x \in T : \A y \in T : x <= y
  BY <1>1, <1>2, Lowest, Zenon
<1>4. x \in 1..(Len(peer) + 1) /\ k <= Before(x)
  BY Zenon
<1>5. x # 1
  BY <1>4, BeforeStep
<1>6. x - 1 \in 1..Len(peer) /\ x - 1 \in 1..(Len(peer) + 1) /\ ~(x <= x - 1) /\ (x - 1) + 1 = x
  BY <1>4, <1>5, PeerType
<1>7. ~(k <= Before(x - 1))
  BY <1>3, <1>6, Zenon
<1>8. Before(x - 1) < k
  BY <1>6, <1>7, BeforeStep
<1> QED
  BY <1>4, <1>6, <1>8, Zenon

\* The bytes of a frame, in the stream.
LEMMA StreamAt ==
  ASSUME peer \in Requests, NEW m \in 1..Len(peer), NEW i \in 1..(HeadLen + peer[m].len)
  PROVE  /\ Before(m) + i \in 1..Before(Len(peer) + 1)
         /\ Stream[Before(m) + i] = <<m, i>>
<1> DEFINE k == Before(m) + i
           P(q) == Before(q) < k /\ k <= Before(q + 1)
<1>1. /\ Len(peer) \in Nat /\ HeadLen \in Nat /\ peer[m].len \in Nat
      /\ m \in 1..(Len(peer) + 1) /\ m + 1 \in 1..(Len(peer) + 1) /\ Len(peer) + 1 \in 1..(Len(peer) + 1)
  BY PeerType, Sizes
<1>2. /\ Before(m) \in Nat /\ Before(m + 1) = Before(m) + HeadLen + peer[m].len
      /\ Before(Len(peer) + 1) \in Nat
  BY <1>1, BeforeStep, Zenon
<1>3. P(m)
  BY <1>1, <1>2
<1>4. k \in 1..Before(Len(peer) + 1)
  <2>1. m < Len(peer) + 1
    BY <1>1
  <2>2. Before(m + 1) <= Before(Len(peer) + 1)
    BY <1>1, <2>1, BeforeGrows, Zenon
  <2>3. \A a, b, c, d, e \in Nat : \A j \in 1..(c + d) : b = a + c + d /\ b <= e => a + j \in 1..e
    OBVIOUS
  <2>4. Before(m + 1) \in Nat
    BY <1>1, BeforeStep, Zenon
  <2> QED
    BY <1>1, <1>2, <2>2, <2>3, <2>4, Zenon
<1>5. ASSUME NEW q \in 1..Len(peer), P(q) PROVE q = m
  <2>1. /\ q \in 1..(Len(peer) + 1) /\ q + 1 \in 1..(Len(peer) + 1)
    BY <1>1
  <2>2. Before(q) \in Nat /\ Before(q + 1) \in Nat
    BY <2>1, BeforeStep, Zenon
  <2>3. k \in Nat /\ \A a, b, c \in Nat : a <= b /\ b < c => ~(c <= a)
    BY <1>2
  <2>4. CASE q < m
    <3>1. Before(q + 1) <= Before(m)
      BY <1>1, <2>4, BeforeGrows, Zenon
    <3> QED
      BY <1>2, <1>3, <1>5, <2>2, <2>3, <3>1, Zenon
  <2>5. CASE m < q
    <3>1. Before(m + 1) <= Before(q)
      BY <2>1, <2>5, BeforeGrows, Zenon
    <3>2. Before(m + 1) \in Nat
      BY <1>1, BeforeStep, Zenon
    <3> QED
      BY <1>3, <1>5, <2>2, <2>3, <3>1, <3>2, Zenon
  <2> QED
    BY <1>1, <2>4, <2>5
<1>6. (CHOOSE q \in 1..Len(peer) : P(q)) = m
  <2> HIDE DEF P
  <2> QED
    BY <1>3, <1>5, Zenon
<1>7. Stream[k] = <<m, k - Before(m)>>
  <2> HIDE DEF k
  <2>1. Stream[k] = <<CHOOSE q \in 1..Len(peer) : P(q), k - Before(CHOOSE q \in 1..Len(peer) : P(q))>>
    BY <1>4, Zenon DEF Stream
  <2> QED
    BY <1>6, <2>1, Zenon
<1>8. k - Before(m) = i
  BY <1>1, <1>2
<1> QED
  BY <1>4, <1>7, <1>8, Zenon

\* The stream is a sequence of bytes.
LEMMA StreamType ==
  ASSUME peer \in Requests
  PROVE  Stream \in Seq(Byte) /\ Len(Stream) = Before(Len(peer) + 1) /\ Len(Stream) \in Nat
<1>1. Before(Len(peer) + 1) \in Nat
  BY PeerType, BeforeStep
<1>2. ASSUME NEW k \in 1..Before(Len(peer) + 1) PROVE Stream[k] \in Byte
  <2>1. PICK q \in 1..Len(peer) : Before(q) < k /\ k <= Before(q + 1)
    BY Covered, Zenon
  <2>2. /\ Before(q) \in Nat /\ Before(q + 1) = Before(q) + HeadLen + peer[q].len
        /\ HeadLen \in Nat /\ peer[q].len \in Nat
    BY PeerType, BeforeStep, Sizes
  <2>3. PICK i \in 1..(HeadLen + peer[q].len) : k = Before(q) + i
    <3>1. k - Before(q) \in 1..(HeadLen + peer[q].len) /\ k = Before(q) + (k - Before(q))
      BY <1>1, <2>1, <2>2, SMTT(20)
    <3> QED
      BY <3>1, Zenon
  <2>4. Stream[k] = <<q, i>>
    BY <2>3, StreamAt, Zenon
  <2>5. q \in Nat /\ i \in Nat
    BY <2>2, PeerType
  <2> QED
    BY <2>4, <2>5 DEF Byte
<1> DEFINE e(k) ==
             LET m == CHOOSE m \in 1..Len(peer) : Before(m) < k /\ k <= Before(m + 1)
             IN <<m, k - Before(m)>>
<1>3. Stream = [k \in 1..Before(Len(peer) + 1) |-> e(k)]
  BY Zenon DEF Stream
<1> HIDE DEF e
<1>4. Stream \in [1..Before(Len(peer) + 1) -> Byte]
  BY <1>2, <1>3, Zenon
<1> DEFINE n == Before(Len(peer) + 1)
<1> HIDE DEF n
<1>5. n \in Nat /\ Stream \in [1..n -> Byte]
  BY <1>1, <1>4, Zenon DEF n
<1>6. Stream \in Seq(Byte) /\ Len(Stream) = n
  BY <1>5
<1> QED
  BY <1>5, <1>6, Zenon DEF n

-----------------------------------------------------------------------------
(* Sequences *)

\* Sequences with the same elements are equal.
LEMMA SameElements ==
  ASSUME NEW S, NEW s \in Seq(S), NEW t \in Seq(S), Len(s) = Len(t),
         \A i \in 1..Len(s) : s[i] = t[i]
  PROVE  s = t
OBVIOUS

\* Concatenation.
LEMMA Concat ==
  ASSUME NEW S, NEW s \in Seq(S), NEW t \in Seq(S)
  PROVE  s \o t \in Seq(S) /\ Len(s \o t) = Len(s) + Len(t)
OBVIOUS

\* The elements of a concatenation.
LEMMA ConcatAt ==
  ASSUME NEW S, NEW s \in Seq(S), NEW t \in Seq(S)
  PROVE  /\ \A i \in 1..Len(s) : (s \o t)[i] = s[i]
         /\ \A i \in 1..Len(t) : (s \o t)[Len(s) + i] = t[i]
OBVIOUS

\* Concatenation may be read from either side.
LEMMA ConcatTwice ==
  \A s, t, u \in Seq(Byte) : (s \o t) \o u = s \o (t \o u)
OBVIOUS

\* Nothing is added.
LEMMA ConcatEmpty ==
  ASSUME NEW S, NEW s \in Seq(S)
  PROVE  s \o <<>> = s /\ <<>> \o s = s /\ <<>> \in Seq(S)
OBVIOUS

\* The rest of a sequence.
LEMMA Dropped ==
  ASSUME NEW S, NEW s \in Seq(S), NEW n \in 0..Len(s)
  PROVE  /\ Drop(s, n) \in Seq(S)
         /\ Len(Drop(s, n)) = Len(s) - n
         /\ \A i \in 1..(Len(s) - n) : Drop(s, n)[i] = s[n + i]
BY DEF Drop

\* The start of a sequence.
LEMMA Prefixed ==
  ASSUME NEW S, NEW s \in Seq(S), NEW n \in 0..Len(s)
  PROVE  /\ Prefix(s, n) \in Seq(S)
         /\ Len(Prefix(s, n)) = n
         /\ \A i \in 1..n : Prefix(s, n)[i] = s[i]
BY DEF Prefix

\* What is taken and what is left make the whole.
LEMMA CutAndJoined ==
  ASSUME NEW S, NEW s \in Seq(S), NEW n \in 0..Len(s)
  PROVE  Prefix(s, n) \o Drop(s, n) = s
<1> DEFINE p == Prefix(s, n)
           d == Drop(s, n)
<1>1. p \in Seq(S) /\ Len(p) = n /\ \A i \in 1..n : p[i] = s[i]
  BY Prefixed, Zenon
<1>2. d \in Seq(S) /\ Len(d) = Len(s) - n /\ \A i \in 1..(Len(s) - n) : d[i] = s[n + i]
  BY Dropped, Zenon
<1> HIDE DEF p, d
<1>3. p \o d \in Seq(S) /\ Len(p \o d) = n + (Len(s) - n) /\ Len(s) \in Nat
  BY <1>1, <1>2, Concat, ElementType, Zenon
<1> DEFINE c == p \o d
<1>7. (\A i \in 1..n : c[i] = p[i]) /\ (\A i \in 1..(Len(s) - n) : c[n + i] = d[i])
  BY <1>1, <1>2, ConcatAt
<1> HIDE DEF c
<1>4. ASSUME NEW i \in 1..Len(c) PROVE c[i] = s[i]
  <2>1. Len(c) = n + (Len(s) - n)
    BY <1>3, Zenon DEF c
  <2>2. CASE i <= n
    <3>1. i \in 1..n
      BY <2>2
    <3> QED
      BY <1>1, <1>7, <3>1, Zenon
  <2>3. CASE ~(i <= n)
    <3>1. i - n \in 1..(Len(s) - n) /\ n + (i - n) = i
      BY <1>3, <2>1, <2>3
    <3> QED
      BY <1>2, <1>7, <3>1, Zenon
  <2> QED
    BY <2>2, <2>3, Zenon
<1>5. Len(p \o d) = Len(s)
  BY <1>3
<1>6. p \o d = s
  BY <1>3, <1>4, <1>5, SameElements, Zenon DEF c
<1> QED
  BY <1>6, Zenon DEF p, d

\* A function on 1..n is a sequence.
LEMMA FrameType ==
  ASSUME NEW m \in Nat, NEW n \in Nat
  PROVE  /\ Frame(m, n) \in Seq(Byte)
         /\ Len(Frame(m, n)) = HeadLen + n
         /\ \A i \in 1..(HeadLen + n) : Frame(m, n)[i] = <<m, i>>
BY Sizes DEF Frame, Byte

\* A sequence of one element.
LEMMA OneElement ==
  ASSUME NEW S, NEW s \in Seq(S), Len(s) <= 1, s # <<>>
  PROVE  s = <<s[1]>> /\ s[1] \in S
<1>1. Len(s) = 1 /\ s[1] \in S
  OBVIOUS
<1>2. <<s[1]>> \in Seq(S) /\ Len(<<s[1]>>) = 1 /\ <<s[1]>>[1] = s[1]
  BY <1>1
<1>3. \A i \in 1..1 : i = 1
  OBVIOUS
<1> QED
  BY <1>1, <1>2, <1>3, SameElements, Zenon

-----------------------------------------------------------------------------
(* Buffers *)

\* A buffer without bytes, and one with.
LEMMA BufferParts ==
  ASSUME NEW rb, IsBuffer(rb)
  PROVE  /\ Content(rb) \in Seq(Byte)
         /\ Length(rb) = Len(Content(rb))
         /\ Length(rb) \in Nat
         /\ rb # <<>> => /\ rb = <<rb[1]>>
                         /\ rb[1] \in [cap : Caps, head : Nat, data : Seq(Byte)]
                         /\ rb[1].cap \in Caps /\ rb[1].cap \in Nat /\ rb[1].cap > 0
                         /\ rb[1].head \in Nat /\ rb[1].data \in Seq(Byte)
                         /\ Content(rb) = rb[1].data
<1> DEFINE B == [cap : Caps, head : Nat, data : Seq(Byte)]
<1>1. CASE rb = <<>>
  <2>1. Content(rb) = <<>> /\ Length(rb) = 0
    BY <1>1, Zenon DEF Content, Length
  <2>2. <<>> \in Seq(Byte) /\ Len(<<>>) = 0 /\ 0 \in Nat
    OBVIOUS
  <2> QED
    BY <1>1, <2>1, <2>2, Zenon
<1>2. CASE rb # <<>>
  <2>1. rb \in Seq(B) /\ Len(rb) <= 1
    BY Zenon DEF IsBuffer
  <2>3. rb = <<rb[1]>> /\ rb[1] \in B
    <3> HIDE DEF B
    <3> QED
      BY <1>2, <2>1, OneElement, Zenon
  <2>4. \A x \in B : x.cap \in Caps /\ x.head \in Nat /\ x.data \in Seq(Byte)
    BY Zenon
  <2>5. Content(rb) = rb[1].data /\ Length(rb) = Len(rb[1].data)
    BY <1>2, Zenon DEF Content, Length
  <2>6. \A s \in Seq(Byte) : Len(s) \in Nat
    OBVIOUS
  <2> QED
    BY <2>3, <2>4, <2>5, <2>6, Sizes, Zenon
<1> QED
  BY <1>1, <1>2, Zenon

\* A record makes a buffer.
LEMMA BufferMade ==
  ASSUME NEW c \in Caps, NEW h \in Nat, NEW d \in Seq(Byte),
         NEW rb, rb = <<[cap |-> c, head |-> h, data |-> d]>>
  PROVE  /\ IsBuffer(rb) /\ rb # <<>>
         /\ rb[1].cap = c /\ rb[1].head = h
         /\ Content(rb) = d /\ Length(rb) = Len(d)
<1> DEFINE B == [cap : Caps, head : Nat, data : Seq(Byte)]
           b == [cap |-> c, head |-> h, data |-> d]
<1>1. b \in B /\ b.cap = c /\ b.head = h /\ b.data = d
  BY Zenon
<1> HIDE DEF b
<1>2. <<b>> # <<>> /\ <<b>>[1] = b /\ Len(<<b>>) = 1
  OBVIOUS
<1>3. <<b>> \in Seq(B)
  <2> HIDE DEF B
  <2> QED
    BY <1>1
<1>4. IsBuffer(<<b>>)
  BY <1>2, <1>3 DEF IsBuffer
<1>5. Content(<<b>>) = d /\ Length(<<b>>) = Len(d)
  BY <1>1, <1>2, Zenon DEF Content, Length
<1> QED
  BY <1>1, <1>2, <1>4, <1>5, Zenon DEF b

\* No buffer.
LEMMA NoBuffer == IsBuffer(<<>>) /\ Content(<<>>) = <<>> /\ Length(<<>>) = 0 /\ AtFront(<<>>)
BY DEF IsBuffer, Content, Length, AtFront

\* alloc_buf returns the smallest buffer that is large enough.
LEMMA Allocated ==
  ASSUME NEW n \in Nat
  PROVE  /\ Alloc(n) # 0 => Alloc(n) \in Caps /\ Alloc(n) >= n
         /\ (\E c \in Caps : n <= c) => Alloc(n) # 0
<1> DEFINE fit == {c \in Caps : c >= n}
<1>1. fit \in SUBSET Nat
  BY Sizes
<1>2. CASE fit = {}
  <2>1. Alloc(n) = 0
    BY <1>2, Zenon DEF Alloc
  <2>2. ~ \E c \in Caps : n <= c
    BY <1>2, Sizes
  <2> QED
    BY <2>1, <2>2, Zenon
<1>3. CASE fit # {}
  <2>1. \E x \in fit : \A y \in fit : x <= y
    <3> HIDE DEF fit
    <3> QED
      BY <1>1, <1>3, Lowest, Zenon
  <2>2. Alloc(n) \in fit
    <3>1. Alloc(n) = CHOOSE x \in fit : \A y \in fit : x <= y
      BY <1>3, Zenon DEF Alloc
    <3> HIDE DEF fit
    <3> QED
      BY <2>1, <3>1, Zenon
  <2>3. Alloc(n) \in Caps /\ Alloc(n) >= n
    BY <2>2, Zenon
  <2> QED
    BY <2>3, Sizes
<1> QED
  BY <1>2, <1>3, Zenon

\* io_buf::pop moves the head behind the bytes it takes.
LEMMA IoPopped ==
  ASSUME NEW rb, IsBuffer(rb), rb # <<>>, NEW n \in 0..Length(rb)
  PROVE  /\ IsBuffer(IoPop(rb, n))
         /\ Content(IoPop(rb, n)) = Drop(Content(rb), n)
         /\ Length(IoPop(rb, n)) = Length(rb) - n
         /\ IoPop(rb, n)[1].cap = rb[1].cap /\ IoPop(rb, n)[1].head = rb[1].head + n
<1>1. Content(rb) \in Seq(Byte) /\ Length(rb) = Len(Content(rb)) /\ Length(rb) \in Nat
  BY BufferParts, Zenon
<1>2. /\ rb[1] \in [cap : Caps, head : Nat, data : Seq(Byte)]
      /\ rb[1].cap \in Caps /\ rb[1].head \in Nat /\ rb[1].data = Content(rb)
  BY BufferParts, Zenon
<1>3. IoPop(rb, n) = <<[cap |-> rb[1].cap, head |-> rb[1].head + n, data |-> Drop(Content(rb), n)]>>
  <2>1. IoPop(rb, n) = <<[rb[1] EXCEPT !.head = @ + n, !.data = Drop(@, n)]>>
    BY Zenon DEF IoPop
  <2>2. [rb[1] EXCEPT !.head = @ + n] = [cap |-> rb[1].cap, head |-> rb[1].head + n, data |-> rb[1].data]
    BY <1>2
  <2>3. [[cap |-> rb[1].cap, head |-> rb[1].head + n, data |-> rb[1].data] EXCEPT !.data = Drop(@, n)]
          = [cap |-> rb[1].cap, head |-> rb[1].head + n, data |-> Drop(rb[1].data, n)]
    OBVIOUS
  <2> QED
    BY <1>2, <2>1, <2>2, <2>3, Zenon
<1>4. rb[1].head + n \in Nat /\ Drop(Content(rb), n) \in Seq(Byte) /\ Len(Drop(Content(rb), n)) = Length(rb) - n
  BY <1>1, <1>2, Dropped
<1> DEFINE c == rb[1].cap
           h == rb[1].head + n
           d == Drop(Content(rb), n)
           q == IoPop(rb, n)
<1>5. c \in Caps /\ h \in Nat /\ d \in Seq(Byte) /\ q = <<[cap |-> c, head |-> h, data |-> d]>>
  BY <1>2, <1>3, <1>4, Zenon
<1> HIDE DEF c, h, d, q
<1>6. IsBuffer(q) /\ q[1].cap = c /\ q[1].head = h /\ Content(q) = d /\ Length(q) = Len(d)
  BY <1>5, BufferMade
<1> QED
  BY <1>4, <1>6, Zenon DEF c, h, d, q

\* reactor_buf::pop takes bytes from the front.
LEMMA Popped ==
  ASSUME NEW rb, IsBuffer(rb), NEW n \in 0..Length(rb)
  PROVE  /\ IsBuffer(Pop(rb, n))
         /\ Content(Pop(rb, n)) = Drop(Content(rb), n)
         /\ Length(Pop(rb, n)) = Length(rb) - n
         /\ Pop(rb, n) # <<>> => /\ rb # <<>> /\ Pop(rb, n)[1].cap = rb[1].cap
                                 /\ Pop(rb, n)[1].head = rb[1].head + n
<1>1. Content(rb) \in Seq(Byte) /\ Length(rb) = Len(Content(rb)) /\ Length(rb) \in Nat
  BY BufferParts, Zenon
<1>2. CASE n = Length(rb)
  <2>1. Pop(rb, n) = <<>>
    BY <1>2, Zenon DEF Pop
  <2>2. Drop(Content(rb), n) = <<>>
    BY <1>1, <1>2, Dropped
  <2>3. Length(rb) - n = 0
    BY <1>1, <1>2
  <2> QED
    BY <2>1, <2>2, <2>3, NoBuffer, Zenon
<1>3. CASE n # Length(rb)
  <2>1. rb # <<>>
    BY <1>3, NoBuffer
  <2>2. Pop(rb, n) = IoPop(rb, n)
    BY <1>3, Zenon DEF Pop
  <2> QED
    BY <2>1, <2>2, IoPopped, Zenon
<1> QED
  BY <1>2, <1>3, Zenon

\* adjust moves the bytes to the front of the memory.
LEMMA Adjusted ==
  ASSUME NEW rb, IsBuffer(rb)
  PROVE  /\ IsBuffer(Adjust(rb)) /\ AtFront(Adjust(rb))
         /\ Content(Adjust(rb)) = Content(rb)
         /\ Length(Adjust(rb)) = Length(rb)
         /\ Adjust(rb) # <<>> => rb # <<>> /\ Adjust(rb)[1].cap = rb[1].cap /\ Adjust(rb)[1].head = 0
<1>1. CASE rb = <<>>
  BY <1>1, NoBuffer, Zenon DEF Adjust
<1>2. CASE rb # <<>>
  <2>1. /\ rb[1] \in [cap : Caps, head : Nat, data : Seq(Byte)]
        /\ rb[1].cap \in Caps /\ rb[1].data = Content(rb)
        /\ Content(rb) \in Seq(Byte) /\ Length(rb) = Len(Content(rb))
    BY <1>2, BufferParts, Zenon
  <2>2. Adjust(rb) = <<[cap |-> rb[1].cap, head |-> 0, data |-> Content(rb)]>>
    <3>1. Adjust(rb) = <<[rb[1] EXCEPT !.head = 0]>>
      BY <1>2, Zenon DEF Adjust
    <3>2. \A x \in [cap : Caps, head : Nat, data : Seq(Byte)] :
            [x EXCEPT !.head = 0] = [cap |-> x.cap, head |-> 0, data |-> x.data]
      OBVIOUS
    <3> QED
      BY <2>1, <3>1, <3>2
  <2>3. 0 \in Nat
    OBVIOUS
  <2>4. /\ IsBuffer(Adjust(rb)) /\ Adjust(rb)[1].cap = rb[1].cap /\ Adjust(rb)[1].head = 0
        /\ Content(Adjust(rb)) = Content(rb) /\ Length(Adjust(rb)) = Len(Content(rb))
    <3> DEFINE c == rb[1].cap
               d == Content(rb)
               q == Adjust(rb)
    <3>1. c \in Caps /\ d \in Seq(Byte) /\ q = <<[cap |-> c, head |-> 0, data |-> d]>>
      BY <2>1, <2>2, Zenon
    <3> HIDE DEF c, d, q
    <3>2. IsBuffer(q) /\ q[1].cap = c /\ q[1].head = 0 /\ Content(q) = d /\ Length(q) = Len(d)
      BY <2>3, <3>1, BufferMade
    <3> QED
      BY <3>2, Zenon DEF c, d, q
  <2> QED
    BY <1>2, <2>1, <2>4, Zenon DEF AtFront
<1> QED
  BY <1>1, <1>2, Zenon

\* A buffer with new bytes behind the old ones.
LEMMA FilledUp ==
  ASSUME NEW rb, IsBuffer(rb), NEW c \in Caps, NEW bytes \in Seq(Byte)
  PROVE  /\ IsBuffer(Filled(c, rb, bytes)) /\ AtFront(Filled(c, rb, bytes))
         /\ Filled(c, rb, bytes) # <<>>
         /\ Filled(c, rb, bytes)[1].cap = c /\ Filled(c, rb, bytes)[1].head = 0
         /\ Content(Filled(c, rb, bytes)) = Content(rb) \o bytes
         /\ Length(Filled(c, rb, bytes)) = Length(rb) + Len(bytes)
<1>1. Content(rb) \in Seq(Byte) /\ Length(rb) = Len(Content(rb))
  BY BufferParts, Zenon
<1>2. Content(rb) \o bytes \in Seq(Byte) /\ Len(Content(rb) \o bytes) = Length(rb) + Len(bytes) /\ 0 \in Nat
  BY <1>1, Concat
<1>3. Filled(c, rb, bytes) = <<[cap |-> c, head |-> 0, data |-> Content(rb) \o bytes]>>
  BY Zenon DEF Filled
<1> DEFINE d == Content(rb) \o bytes
           q == Filled(c, rb, bytes)
<1>4. d \in Seq(Byte) /\ 0 \in Nat /\ q = <<[cap |-> c, head |-> 0, data |-> d]>>
  BY <1>2, <1>3, Zenon
<1> HIDE DEF d, q
<1>5. IsBuffer(q) /\ q # <<>> /\ q[1].cap = c /\ q[1].head = 0 /\ Content(q) = d /\ Length(q) = Len(d)
  BY <1>4, BufferMade
<1>6. AtFront(q)
  BY <1>5, Zenon DEF AtFront
<1> QED
  BY <1>2, <1>5, <1>6, Zenon DEF d, q

-----------------------------------------------------------------------------
(* What a step leaves alone *)

\* The parts of the invariant.
LEMMA InvParts ==
  ASSUME Inv
  PROVE  /\ TypeOK /\ RequestsIntact /\ ReadInv /\ FrontInv
         /\ InputFits /\ ClosedInv /\ ReplyInv /\ AbortInv
BY Zenon DEF Inv

\* The types of the variables.
LEMMA Types ==
  ASSUME Inv
  PROVE  /\ peer \in Requests
         /\ arrived \in 0..Len(Stream) /\ arrived \in Nat
         /\ gone \in BOOLEAN /\ open \in BOOLEAN
         /\ mask \subseteq {"in", "out"}
         /\ IsBuffer(ibuf) /\ IsBuffer(obuf)
         /\ pc \in {"poll", "parse", "write", "aborted", "overrun"}
         /\ wire \in Seq(Byte) /\ out \in Seq(Byte) /\ got \in Seq(Byte)
         /\ handled \in Seq([msg : Nat, body : Seq(Byte)])
         /\ replies \in Seq(Nat)
<1>1. TypeOK
  BY InvParts, Zenon
<1>2. arrived \in Nat
  <2>1. peer \in Requests /\ arrived \in 0..Len(Stream)
    BY <1>1, Zenon DEF TypeOK
  <2> QED
    BY <2>1, StreamType
<1> QED
  BY <1>1, <1>2, Zenon DEF TypeOK

\* The stream is that of the peer.
LEMMA StreamKept ==
  ASSUME peer' = peer
  PROVE  Stream' = Stream /\ \A m : Before(m)' = Before(m)
<1>1. \A m : Before(m)' = Before(m)
  BY Zenon DEF Before
<1> DEFINE B(p, m) == IF m <= Len(p) THEN p[m].at
                      ELSE IF p = <<>> THEN 0 ELSE p[m - 1].at + HeadLen + p[m - 1].len
           F(p) == [k \in 1..B(p, Len(p) + 1) |->
                      LET m == CHOOSE m \in 1..Len(p) : B(p, m) < k /\ k <= B(p, m + 1)
                      IN <<m, k - B(p, m)>>]
<1>2. Stream = F(peer) /\ Stream' = F(peer')
  BY Zenon DEF Stream, Before
<1>3. Stream' = Stream
  <2> HIDE DEF F
  <2> QED
    BY <1>2, Zenon
<1> QED
  BY <1>1, <1>3, Zenon

\* The types of the next state, from those of what changes.
LEMMA TypesNext ==
  ASSUME Inv, peer' = peer,
         arrived' \in 0..Len(Stream),
         gone' \in BOOLEAN, open' \in BOOLEAN,
         mask' \subseteq {"in", "out"},
         IsBuffer(ibuf'), IsBuffer(obuf'),
         pc' \in {"poll", "parse", "write", "aborted", "overrun"},
         wire' \in Seq(Byte), out' \in Seq(Byte), got' \in Seq(Byte),
         handled' \in Seq([msg : Nat, body : Seq(Byte)]),
         replies' \in Seq(Nat)
  PROVE  TypeOK'
<1>1. peer' \in Requests /\ Stream' = Stream
  BY Types, StreamKept, Zenon
<1> QED
  BY <1>1, Zenon DEF TypeOK, IsBuffer

\* The history of the requests.
LEMMA RequestsKept ==
  ASSUME Inv, peer' = peer, handled' = handled
  PROVE  RequestsIntact'
<1>1. RequestsIntact
  BY InvParts, Zenon
<1> QED
  BY <1>1 DEF RequestsIntact

\* What waits in the input and is to be handled.
LEMMA ReadKept ==
  ASSUME Inv, peer' = peer, handled' = handled, arrived' = arrived, wire' = wire,
         Content(ibuf)' = Content(ibuf), Length(ibuf)' = Length(ibuf),
         open' = open, pc' # "aborted" => pc # "aborted"
  PROVE  ReadInv'
<1> SUFFICES ASSUME open', pc' # "aborted"
             PROVE  \E m \in 1..(Len(peer') + 1) : Unread(Before(m))' /\ DoneBefore(m)'
  BY Zenon DEF ReadInv
<1>1. PICK m \in 1..(Len(peer) + 1) : Unread(Before(m)) /\ DoneBefore(m)
  BY InvParts, Zenon DEF ReadInv
<1>2. Before(m)' = Before(m) /\ Stream' = Stream
  BY StreamKept, Zenon
<1>3. Unread(Before(m))'
  BY <1>1, <1>2, Zenon DEF Unread
<1>4. DoneBefore(m)'
  BY <1>1, Zenon DEF DoneBefore
<1> QED
  BY <1>3, <1>4, Zenon

\* The stream of the replies is that of the requests answered.
LEMMA ReplyStreamKept ==
  ASSUME replies' = replies
  PROVE  ReplyStream' = ReplyStream
BY Zenon DEF ReplyStream

\* What was sent and is to be sent.
LEMMA RepliesKept ==
  ASSUME Inv, handled' = handled, replies' = replies, AtFront(obuf) => AtFront(obuf)',
         open' => open /\ (got \o out \o Content(obuf))' = got \o out \o Content(obuf)
  PROVE  ReplyInv'
<1> SUFFICES ASSUME RepliesFit PROVE RepliesHeld' /\ AtFront(obuf)'
  BY Zenon DEF ReplyInv, RepliesFit
<1>1. RepliesHeld /\ AtFront(obuf)
  BY InvParts, Zenon DEF ReplyInv
<1>2. RepliesHeld'
  BY <1>1, ReplyStreamKept, Zenon DEF RepliesHeld
<1> QED
  BY <1>1, <1>2, Zenon

\* The assertions that held.
LEMMA AbortKept ==
  ASSUME Inv, pc' # "aborted"
  PROVE  AbortInv'
BY Zenon DEF AbortInv, AssertionsHold

\* The input buffer.
LEMMA FrontKept ==
  ASSUME Inv, ibuf' = ibuf, pc' \in {"poll", "write"} => pc \in {"poll", "write"}
  PROVE  FrontInv' /\ InputFits'
<1>1. FrontInv /\ InputFits
  BY InvParts, Zenon
<1> QED
  BY <1>1, Zenon DEF FrontInv, InputFits, AtFront, Length

\* A connection that was closed, or is open.
LEMMA ClosedKept ==
  ASSUME Inv, open' = open, open \/ (mask' = mask /\ pc' = pc /\ ibuf' = ibuf)
  PROVE  ClosedInv'
<1>1. ClosedInv
  BY InvParts, Zenon
<1> QED
  BY <1>1, Zenon DEF ClosedInv

-----------------------------------------------------------------------------
(* The peer, and the end of the connection *)

\* The peer reads what it was sent.
LEMMA PeerReceivesStep ==
  ASSUME Inv, PeerReceives
  PROVE  Inv'
<1>1. /\ got' = got \o out /\ out' = <<>>
      /\ peer' = peer /\ arrived' = arrived /\ gone' = gone /\ wire' = wire /\ open' = open /\ mask' = mask
      /\ ibuf' = ibuf /\ obuf' = obuf /\ pc' = pc /\ handled' = handled /\ replies' = replies
  BY Zenon DEF PeerReceives, peerVars, histVars
<1>2. /\ got \in Seq(Byte) /\ out \in Seq(Byte)
      /\ got \o out \in Seq(Byte) /\ <<>> \in Seq(Byte) /\ (got \o out) \o <<>> = got \o out
  BY Types
<1>3. TypeOK'
  BY <1>1, <1>2, Types, TypesNext, Zenon
<1>4. RequestsIntact'
  BY <1>1, RequestsKept, Zenon
<1>5. ReadInv'
  BY <1>1, ReadKept, Zenon
<1>6. FrontInv' /\ InputFits'
  BY <1>1, FrontKept, Zenon
<1>7. ClosedInv'
  BY <1>1, ClosedKept, Zenon
<1>8. ReplyInv'
  <2>1. (got \o out \o Content(obuf))' = got \o out \o Content(obuf)
    BY <1>1, <1>2, Zenon
  <2>2. AtFront(obuf)' = AtFront(obuf)
    BY <1>1, Zenon
  <2> QED
    BY <1>1, <2>1, <2>2, RepliesKept, Zenon
<1>9. AbortInv'
  BY <1>1, InvParts, Zenon DEF AbortInv, AssertionsHold
<1> QED
  BY <1>3, <1>4, <1>5, <1>6, <1>7, <1>8, <1>9, Zenon DEF Inv

\* The peer closes.
LEMMA PeerClosesStep ==
  ASSUME Inv, PeerCloses
  PROVE  Inv'
<1>1. /\ got' = got /\ out' = out /\ gone' = TRUE
      /\ peer' = peer /\ arrived' = arrived /\ wire' = wire /\ open' = open /\ mask' = mask
      /\ ibuf' = ibuf /\ obuf' = obuf /\ pc' = pc /\ handled' = handled /\ replies' = replies
  BY Zenon DEF PeerCloses, histVars
<1>2. TypeOK'
  BY <1>1, Types, TypesNext, Zenon
<1>3. RequestsIntact'
  BY <1>1, RequestsKept, Zenon
<1>4. ReadInv'
  BY <1>1, ReadKept, Zenon
<1>5. FrontInv' /\ InputFits'
  BY <1>1, FrontKept, Zenon
<1>6. ClosedInv'
  BY <1>1, ClosedKept, Zenon
<1>7. ReplyInv'
  BY <1>1, RepliesKept, Zenon
<1>8. AbortInv'
  BY <1>1, InvParts, Zenon DEF AbortInv, AssertionsHold
<1> QED
  BY <1>2, <1>3, <1>4, <1>5, <1>6, <1>7, <1>8, Zenon DEF Inv

\* clean_conn: what was handled and sent is history.
LEMMA CleanStep ==
  ASSUME Inv, Clean
  PROVE  Inv'
<1>1. /\ open' = FALSE /\ mask' = {} /\ ibuf' = <<>> /\ obuf' = <<>> /\ pc' = "poll" /\ wire' = <<>>
      /\ got' = got /\ out' = out /\ gone' = gone /\ peer' = peer /\ arrived' = arrived
      /\ handled' = handled /\ replies' = replies
  BY Zenon DEF Clean, peerVars, histVars
<1>2. <<>> \in Seq(Byte)
  OBVIOUS
<1>3. TypeOK'
  BY <1>1, <1>2, Types, TypesNext, NoBuffer, Zenon
<1>4. RequestsIntact'
  BY <1>1, RequestsKept, Zenon
<1>5. ReadInv'
  BY <1>1, Zenon DEF ReadInv
<1>6. FrontInv' /\ InputFits'
  BY <1>1, Zenon DEF FrontInv, InputFits, AtFront
<1>7. ClosedInv'
  BY <1>1, Zenon DEF ClosedInv
<1>8. ReplyInv'
  <2>1. AtFront(obuf)'
    BY <1>1, Zenon DEF AtFront
  <2> QED
    BY <1>1, <2>1, RepliesKept, Zenon
<1>9. AbortInv'
  <2>1. pc' # "aborted"
    BY <1>1
  <2> QED
    BY <2>1, AbortKept, Zenon
<1> QED
  BY <1>3, <1>4, <1>5, <1>6, <1>7, <1>8, <1>9, Zenon DEF Inv

\* A piece of a sequence.
LEMMA Piece ==
  ASSUME NEW S, NEW s \in Seq(S), NEW a \in Nat, NEW n \in 1..(Len(s) - a)
  PROVE  /\ SubSeq(s, a + 1, a + n) \in Seq(S)
         /\ Len(SubSeq(s, a + 1, a + n)) = n
         /\ \A i \in 1..n : SubSeq(s, a + 1, a + n)[i] = s[a + i]
OBVIOUS

\* Bytes that follow others in a stream.
LEMMA Follow ==
  ASSUME NEW S, NEW s \in Seq(S), NEW t \in Seq(S), NEW T, NEW p \in Nat,
         \A i \in 1..Len(s) : s[i] = T[p + i],
         \A i \in 1..Len(t) : t[i] = T[p + Len(s) + i]
  PROVE  \A i \in 1..Len(s \o t) : (s \o t)[i] = T[p + i]
<1> SUFFICES ASSUME NEW i \in 1..Len(s \o t) PROVE (s \o t)[i] = T[p + i]
  BY Zenon
<1>1. Len(s) \in Nat /\ Len(t) \in Nat /\ Len(s \o t) = Len(s) + Len(t)
  OBVIOUS
<1>2. CASE i <= Len(s)
  <2>1. i \in 1..Len(s)
    BY <1>1, <1>2
  <2>2. (s \o t)[i] = s[i]
    BY <2>1, ConcatAt, Zenon
  <2>3. s[i] = T[p + i]
    BY <2>1, Zenon
  <2> QED
    BY <2>2, <2>3, Zenon
<1>3. CASE ~(i <= Len(s))
  <2>1. i - Len(s) \in 1..Len(t) /\ Len(s) + (i - Len(s)) = i /\ p + Len(s) + (i - Len(s)) = p + i
    BY <1>1, <1>3
  <2>2. (s \o t)[Len(s) + (i - Len(s))] = t[i - Len(s)]
    BY <2>1, ConcatAt
  <2>3. t[i - Len(s)] = T[p + Len(s) + (i - Len(s))]
    BY <2>1, Zenon
  <2> QED
    BY <2>1, <2>2, <2>3, Zenon
<1> QED
  BY <1>2, <1>3, Zenon

\* Where the next frame starts in the stream.
LEMMA Position ==
  ASSUME Inv, NEW m \in 1..(Len(peer) + 1)
  PROVE  /\ Before(m) \in Nat /\ Stream \in Seq(Byte) /\ Len(Stream) \in Nat /\ arrived <= Len(Stream)
         /\ Content(ibuf) \in Seq(Byte) /\ Length(ibuf) = Len(Content(ibuf)) /\ Length(ibuf) \in Nat
         /\ wire \in Seq(Byte) /\ Len(wire) \in Nat /\ arrived \in Nat
<1>1. peer \in Requests /\ IsBuffer(ibuf) /\ wire \in Seq(Byte) /\ arrived \in 0..Len(Stream) /\ arrived \in Nat
  BY Types, Zenon
<1>2. Before(m) \in Nat /\ Stream \in Seq(Byte) /\ Len(Stream) \in Nat
  BY <1>1, BeforeStep, StreamType, Zenon
<1>3. Content(ibuf) \in Seq(Byte) /\ Length(ibuf) = Len(Content(ibuf)) /\ Length(ibuf) \in Nat
  BY <1>1, BufferParts, Zenon
<1>4. arrived <= Len(Stream) /\ Len(wire) \in Nat
  BY <1>1, <1>2
<1> QED
  BY <1>1, <1>2, <1>3, <1>4, Zenon

\* The next bytes of the stream reach the kernel.
LEMMA ArriveStep ==
  ASSUME Inv, NEW n, Arrive(n)
  PROVE  Inv'
<1> DEFINE new == SubSeq(Stream, arrived + 1, arrived + n)
<1>1. /\ n \in 1..(Len(Stream) - arrived) /\ arrived' = arrived + n /\ wire' = wire \o new
      /\ got' = got /\ out' = out /\ gone' = gone /\ peer' = peer /\ open' = open /\ mask' = mask
      /\ ibuf' = ibuf /\ obuf' = obuf /\ pc' = pc /\ handled' = handled /\ replies' = replies
  BY Zenon DEF Arrive, histVars
<1>2. peer \in Requests /\ arrived \in Nat /\ wire \in Seq(Byte)
  BY Types, Zenon
<1>3. Stream \in Seq(Byte) /\ Len(Stream) \in Nat
  BY <1>2, StreamType, Zenon
<1>4. new \in Seq(Byte) /\ Len(new) = n /\ \A i \in 1..n : new[i] = Stream[arrived + i]
  BY <1>1, <1>2, <1>3, Piece, Zenon
<1> HIDE DEF new
<1>5. arrived' \in 0..Len(Stream) /\ wire' \in Seq(Byte) /\ Len(wire') = Len(wire) + n
  <2>1. \A a, l \in Nat : \A k \in 1..(l - a) : a + k \in 0..l
    OBVIOUS
  <2>2. wire \o new \in Seq(Byte) /\ Len(wire \o new) = Len(wire) + Len(new)
    BY <1>2, <1>4, Concat, Zenon
  <2> QED
    BY <1>1, <1>2, <1>3, <1>4, <2>1, <2>2, Zenon
<1>6. TypeOK'
  BY <1>1, <1>5, Types, TypesNext, Zenon
<1>7. RequestsIntact'
  BY <1>1, RequestsKept, Zenon
<1>8. ReadInv'
  <2> SUFFICES ASSUME open', pc' # "aborted"
               PROVE  \E m \in 1..(Len(peer') + 1) : Unread(Before(m))' /\ DoneBefore(m)'
    BY Zenon DEF ReadInv
  <2>1. PICK m \in 1..(Len(peer) + 1) : Unread(Before(m)) /\ DoneBefore(m)
    BY <1>1, InvParts, Zenon DEF ReadInv
  <2>2. Before(m)' = Before(m) /\ Stream' = Stream
    BY <1>1, StreamKept, Zenon
  <2>3. Before(m) \in Nat /\ Length(ibuf) \in Nat /\ Len(wire) \in Nat
    BY Position, Zenon
  <2>4. /\ Before(m) + Length(ibuf) + Len(wire) = arrived
        /\ \A i \in 1..Length(ibuf) : Content(ibuf)[i] = Stream[Before(m) + i]
        /\ \A i \in 1..Len(wire) : wire[i] = Stream[Before(m) + Length(ibuf) + i]
    BY <2>1, Zenon DEF Unread
  <2>5. Before(m) + Length(ibuf) + Len(wire') = arrived'
    <3>2. n \in Int /\ Before(m) \in Int /\ Length(ibuf) \in Int /\ Len(wire) \in Int
      BY <1>1, <2>3
    <3>3. Before(m) + Length(ibuf) + (Len(wire) + n) = (Before(m) + Length(ibuf) + Len(wire)) + n
      BY <3>2
    <3> QED
      BY <1>1, <1>5, <2>4, <3>3, Zenon
  <2>6. \A i \in 1..Len(wire') : wire'[i] = Stream[Before(m) + Length(ibuf) + i]
    <3> DEFINE p == Before(m) + Length(ibuf)
    <3>1. p \in Nat
      BY <2>3
    <3>2. p + Len(wire) = arrived /\ \A i \in 1..Len(wire) : wire[i] = Stream[p + i]
      BY <2>4, Zenon
    <3> HIDE DEF p
    <3>3. \A i \in 1..Len(new) : new[i] = Stream[p + Len(wire) + i]
      BY <1>4, <3>2, Zenon
    <3>4. \A i \in 1..Len(wire \o new) : (wire \o new)[i] = Stream[p + i]
      BY <1>2, <1>4, <3>1, <3>2, <3>3, Follow
    <3> QED
      BY <1>1, <3>4, Zenon DEF p
  <2>7. Unread(Before(m))'
    BY <1>1, <2>2, <2>4, <2>5, <2>6, Zenon DEF Unread
  <2>8. DoneBefore(m)'
    BY <1>1, <2>1, Zenon DEF DoneBefore
  <2> QED
    BY <1>1, <2>7, <2>8, Zenon
<1>9. FrontInv' /\ InputFits'
  BY <1>1, FrontKept, Zenon
<1>10. ClosedInv'
  BY <1>1, ClosedKept, Zenon
<1>11. ReplyInv'
  BY <1>1, RepliesKept, Zenon
<1>12. AbortInv'
  BY <1>1, InvParts, Zenon DEF AbortInv, AssertionsHold
<1> QED
  BY <1>6, <1>7, <1>8, <1>9, <1>10, <1>11, <1>12, Zenon DEF Inv

-----------------------------------------------------------------------------
(* do_read *)

\* The buffer that read_data reads into has room for what it holds and what is
\* in the kernel.
LEMMA RoomEnough ==
  ASSUME NEW rb, IsBuffer(rb), NEW n \in Nat, Room(rb, n) # 0
  PROVE  Room(rb, n) \in Caps /\ Length(rb) + n <= Room(rb, n)
<1>1. Length(rb) \in Nat
  BY BufferParts, Zenon
<1>2. CASE rb = <<>>
  <2>1. Room(rb, n) = Alloc(n) /\ Length(rb) = 0
    BY <1>2, Zenon DEF Room, Length
  <2>2. Alloc(n) \in Caps /\ Alloc(n) >= n
    BY <2>1, Allocated, Zenon
  <2>3. Alloc(n) \in Nat
    BY <2>2, Sizes, Zenon
  <2> QED
    BY <2>1, <2>2, <2>3
<1>3. CASE rb # <<>> /\ rb[1].cap - Length(rb) < n
  <2>1. Room(rb, n) = Alloc(n + Length(rb))
    BY <1>3, Zenon DEF Room
  <2>2. n + Length(rb) \in Nat
    BY <1>1
  <2>3. Alloc(n + Length(rb)) \in Caps /\ Alloc(n + Length(rb)) >= n + Length(rb)
    BY <2>1, <2>2, Allocated, Zenon
  <2>4. Alloc(n + Length(rb)) \in Nat
    BY <2>3, Sizes, Zenon
  <2> QED
    BY <1>1, <2>1, <2>3, <2>4
<1>4. CASE rb # <<>> /\ ~(rb[1].cap - Length(rb) < n)
  <2>1. Room(rb, n) = rb[1].cap
    BY <1>4, Zenon DEF Room
  <2>2. rb[1].cap \in Caps /\ rb[1].cap \in Nat
    BY <1>4, BufferParts, Zenon
  <2> QED
    BY <1>1, <1>4, <2>1, <2>2
<1> QED
  BY <1>2, <1>3, <1>4, Zenon

\* A connection that is closed is not polled.
LEMMA OpenWhen ==
  ASSUME Inv, mask # {} \/ pc # "poll"
  PROVE  open
BY InvParts, Zenon DEF ClosedInv

\* read_data: the bytes in the kernel move behind those in the input buffer.
LEMMA ReadDataStep ==
  ASSUME Inv, ReadData
  PROVE  Inv'
<1> DEFINE cap == Room(ibuf, Len(wire))
<1>1. AtFront(ibuf)
  BY InvParts, Zenon DEF FrontInv, ReadData
<1>2. /\ ibuf' = Filled(cap, ibuf, wire) /\ wire' = <<>> /\ pc' = "parse" /\ cap # 0 /\ pc = "poll"
      /\ got' = got /\ out' = out /\ gone' = gone /\ peer' = peer /\ arrived' = arrived /\ open' = open
      /\ mask' = mask /\ obuf' = obuf /\ handled' = handled /\ replies' = replies
  BY <1>1, Zenon DEF ReadData, peerVars, histVars
<1>3. IsBuffer(ibuf) /\ wire \in Seq(Byte) /\ peer \in Requests
  BY Types, Zenon
<1>4. Len(wire) \in Nat /\ <<>> \in Seq(Byte) /\ Len(<<>>) = 0
  BY <1>3
<1>5. cap \in Caps /\ Length(ibuf) + Len(wire) <= cap
  BY <1>2, <1>3, <1>4, RoomEnough, Zenon
<1> HIDE DEF cap
<1>6. /\ IsBuffer(ibuf') /\ AtFront(ibuf') /\ ibuf'[1].cap = cap /\ ibuf'[1].head = 0
      /\ Content(ibuf') = Content(ibuf) \o wire /\ Length(ibuf') = Length(ibuf) + Len(wire)
  <2>1. LET q == Filled(cap, ibuf, wire) IN
        /\ IsBuffer(q) /\ AtFront(q) /\ q[1].cap = cap /\ q[1].head = 0
        /\ Content(q) = Content(ibuf) \o wire /\ Length(q) = Length(ibuf) + Len(wire)
    BY <1>3, <1>5, FilledUp, Zenon
  <2> QED
    BY <1>2, <2>1, Zenon
<1>7. open
  <2>1. mask # {}
    BY Zenon DEF ReadData, Readable
  <2> QED
    BY <2>1, OpenWhen, Zenon
<1>8. TypeOK'
  BY <1>2, <1>4, <1>6, Types, TypesNext, Zenon
<1>9. RequestsIntact'
  BY <1>2, RequestsKept, Zenon
<1>10. ReadInv'
  <2>1. PICK m \in 1..(Len(peer) + 1) : Unread(Before(m)) /\ DoneBefore(m)
    <3>1. pc # "aborted"
      BY <1>2
    <3> QED
      BY <1>7, <3>1, InvParts, Zenon DEF ReadInv
  <2>2. Before(m)' = Before(m) /\ Stream' = Stream
    BY <1>2, StreamKept, Zenon
  <2>3. /\ Before(m) \in Nat /\ Length(ibuf) \in Nat /\ Content(ibuf) \in Seq(Byte)
        /\ Length(ibuf) = Len(Content(ibuf))
    BY Position, Zenon
  <2>4. /\ Before(m) + Length(ibuf) + Len(wire) = arrived
        /\ \A i \in 1..Length(ibuf) : Content(ibuf)[i] = Stream[Before(m) + i]
        /\ \A i \in 1..Len(wire) : wire[i] = Stream[Before(m) + Length(ibuf) + i]
    BY <2>1, Zenon DEF Unread
  <2>5. Before(m) + Length(ibuf') + Len(wire') = arrived
    <3>1. Before(m) + (Length(ibuf) + Len(wire)) + 0 = Before(m) + Length(ibuf) + Len(wire)
      BY <1>4, <2>3
    <3> QED
      BY <1>2, <1>4, <1>6, <2>4, <3>1, Zenon
  <2>6. \A i \in 1..Length(ibuf') : Content(ibuf')[i] = Stream[Before(m) + i]
    <3> DEFINE s == Content(ibuf)
               p == Before(m)
    <3>1. /\ s \in Seq(Byte) /\ p \in Nat /\ \A i \in 1..Len(s) : s[i] = Stream[p + i]
          /\ \A i \in 1..Len(wire) : wire[i] = Stream[p + Len(s) + i]
      BY <2>3, <2>4, Zenon
    <3> HIDE DEF s, p
    <3>2. \A i \in 1..Len(s \o wire) : (s \o wire)[i] = Stream[p + i]
      BY <1>3, <3>1, Follow
    <3>3. Len(s \o wire) = Len(s) + Len(wire)
      BY <1>3, <3>1, Concat, Zenon
    <3> QED
      BY <1>6, <2>3, <3>2, <3>3, Zenon DEF s, p
  <2>7. \A i \in 1..Len(wire') : FALSE
    BY <1>2
  <2>8. Unread(Before(m))'
    BY <1>2, <2>2, <2>5, <2>6, <2>7, Zenon DEF Unread
  <2>9. DoneBefore(m)'
    BY <1>2, <2>1, Zenon DEF DoneBefore
  <2> QED
    BY <1>2, <2>8, <2>9, Zenon DEF ReadInv
<1>11. FrontInv' /\ InputFits'
  <2>1. FrontInv'
    BY <1>6, Zenon DEF FrontInv, AtFront
  <2>2. Length(ibuf) \in Nat /\ cap \in Nat
    BY <1>3, <1>5, BufferParts, Sizes, Zenon
  <2>3. 0 + (Length(ibuf) + Len(wire)) <= cap
    BY <1>4, <1>5, <2>2
  <2>4. InputFits'
    BY <1>6, <2>3, Zenon DEF InputFits
  <2> QED
    BY <2>1, <2>4, Zenon
<1>12. ClosedInv'
  BY <1>2, <1>7, Zenon DEF ClosedInv
<1>13. ReplyInv'
  BY <1>2, RepliesKept, Zenon
<1>14. AbortInv'
  <2>1. pc' # "aborted"
    BY <1>2
  <2> QED
    BY <2>1, AbortKept, Zenon
<1> QED
  BY <1>8, <1>9, <1>10, <1>11, <1>12, <1>13, <1>14, Zenon DEF Inv

\* Too much for any buffer, or the end of the stream.
LEMMA ReadFailsStep ==
  ASSUME Inv, ReadFails
  PROVE  Inv'
<1>1. AtFront(ibuf)
  BY InvParts, Zenon DEF FrontInv, ReadFails
<1>2. Clean
  BY <1>1, Zenon DEF ReadFails
<1> QED
  BY <1>2, CleanStep, Zenon

\* A header with a length out of range.
LEMMA BadHeaderStep ==
  ASSUME Inv, BadHeader
  PROVE  Inv'
<1>1. Clean
  BY Zenon DEF BadHeader
<1> QED
  BY <1>1, CleanStep, Zenon

\* The loop of do_read is done: the rest of a frame moves to the front.
LEMMA ParseDoneStep ==
  ASSUME Inv, ParseDone
  PROVE  Inv'
<1>1. /\ ibuf' = Adjust(ibuf) /\ pc' = "poll" /\ pc = "parse"
      /\ got' = got /\ out' = out /\ gone' = gone /\ peer' = peer /\ arrived' = arrived /\ open' = open
      /\ wire' = wire /\ mask' = mask /\ obuf' = obuf /\ handled' = handled /\ replies' = replies
  BY Zenon DEF ParseDone, NoFrame, HasHead, peerVars, histVars
<1>2. pc # "poll" /\ pc # "aborted" /\ pc' # "aborted"
  BY <1>1
<1>3. /\ IsBuffer(ibuf') /\ AtFront(ibuf') /\ Content(ibuf') = Content(ibuf) /\ Length(ibuf') = Length(ibuf)
      /\ ibuf' # <<>> => ibuf # <<>> /\ ibuf'[1].cap = ibuf[1].cap /\ ibuf'[1].head = 0
  <2>1. IsBuffer(ibuf)
    BY Types, Zenon
  <2>2. LET q == Adjust(ibuf) IN
        /\ IsBuffer(q) /\ AtFront(q) /\ Content(q) = Content(ibuf) /\ Length(q) = Length(ibuf)
        /\ q # <<>> => ibuf # <<>> /\ q[1].cap = ibuf[1].cap /\ q[1].head = 0
    BY <2>1, Adjusted, Zenon
  <2> QED
    BY <1>1, <2>2, Zenon
<1>4. open
  BY <1>2, OpenWhen, Zenon
<1>5. TypeOK'
  BY <1>1, <1>3, Types, TypesNext, Zenon
<1>6. RequestsIntact'
  BY <1>1, RequestsKept, Zenon
<1>7. ReadInv'
  <2>1. Content(ibuf)' = Content(ibuf) /\ Length(ibuf)' = Length(ibuf)
    BY <1>3, Zenon
  <2> QED
    BY <1>1, <1>2, <2>1, ReadKept, Zenon
<1>8. FrontInv' /\ InputFits'
  <2>1. FrontInv'
    BY <1>3, Zenon DEF FrontInv, AtFront
  <2>2. ASSUME ibuf' # <<>> PROVE ibuf'[1].head + Length(ibuf') <= ibuf'[1].cap
    <3>1. /\ ibuf # <<>> /\ ibuf'[1].cap = ibuf[1].cap /\ ibuf'[1].head = 0 /\ IsBuffer(ibuf)
          /\ Length(ibuf') = Length(ibuf)
      BY <1>3, <2>2, Types, Zenon
    <3>2. ibuf[1].head + Length(ibuf) <= ibuf[1].cap
      BY <3>1, InvParts, Zenon DEF InputFits
    <3>3. ibuf[1].head \in Nat /\ Length(ibuf) \in Nat /\ ibuf[1].cap \in Nat
      BY <3>1, BufferParts, Zenon
    <3>4. 0 + Length(ibuf) <= ibuf[1].cap
      BY <3>2, <3>3
    <3> QED
      BY <3>1, <3>4, Zenon
  <2> QED
    BY <2>1, <2>2, Zenon DEF InputFits, Length
<1>9. ClosedInv'
  BY <1>1, <1>4, ClosedKept, Zenon
<1>10. ReplyInv'
  BY <1>1, RepliesKept, Zenon
<1>11. AbortInv'
  BY <1>2, AbortKept, Zenon
<1> QED
  BY <1>5, <1>6, <1>7, <1>8, <1>9, <1>10, <1>11, Zenon DEF Inv

-----------------------------------------------------------------------------
(* do_write *)

\* The loop sees that the socket can be written to.
LEMMA WriteReadyStep ==
  ASSUME Inv, WriteReady
  PROVE  Inv'
<1>1. /\ pc = "poll" /\ pc' = "write" /\ "out" \in mask
      /\ got' = got /\ out' = out /\ gone' = gone /\ peer' = peer /\ arrived' = arrived /\ open' = open
      /\ wire' = wire /\ mask' = mask /\ ibuf' = ibuf /\ obuf' = obuf
      /\ handled' = handled /\ replies' = replies
  BY Zenon DEF WriteReady, peerVars, histVars
<1>2. pc # "aborted" /\ pc' # "aborted" /\ pc \in {"poll", "write"}
  BY <1>1
<1>3. open
  BY <1>1, OpenWhen, Zenon
<1>4. TypeOK'
  BY <1>1, Types, TypesNext, Zenon
<1>5. RequestsIntact'
  BY <1>1, RequestsKept, Zenon
<1>6. ReadInv'
  BY <1>1, <1>2, ReadKept, Zenon
<1>7. FrontInv' /\ InputFits'
  BY <1>1, <1>2, FrontKept, Zenon
<1>8. ClosedInv'
  BY <1>1, <1>3, ClosedKept, Zenon
<1>9. ReplyInv'
  BY <1>1, RepliesKept, Zenon
<1>10. AbortInv'
  BY <1>2, AbortKept, Zenon
<1> QED
  BY <1>4, <1>5, <1>6, <1>7, <1>8, <1>9, <1>10, Zenon DEF Inv

\* The assertion of send_data or write2fd fails.
LEMMA AbortStep ==
  ASSUME Inv, Abort, open, ~AtFront(obuf)
  PROVE  Inv'
<1>1. /\ pc' = "aborted" /\ got' = got /\ out' = out /\ gone' = gone /\ peer' = peer /\ arrived' = arrived
      /\ open' = open /\ wire' = wire /\ mask' = mask /\ ibuf' = ibuf /\ obuf' = obuf
      /\ handled' = handled /\ replies' = replies
  BY Zenon DEF Abort, peerVars, histVars
<1>2. ~(pc' \in {"poll", "write"}) /\ pc' \in {"poll", "parse", "write", "aborted", "overrun"}
  BY <1>1
<1>3. TypeOK'
  BY <1>1, <1>2, Types, TypesNext, Zenon
<1>4. RequestsIntact'
  BY <1>1, RequestsKept, Zenon
<1>5. ReadInv'
  BY <1>1, Zenon DEF ReadInv
<1>6. FrontInv' /\ InputFits'
  BY <1>1, <1>2, FrontKept, Zenon
<1>7. ClosedInv'
  BY <1>1, ClosedKept, Zenon
<1>8. ReplyInv'
  BY <1>1, RepliesKept, Zenon
<1>9. AbortInv'
  <2>1. ~RepliesFit
    BY InvParts, Zenon DEF ReplyInv
  <2> QED
    BY <2>1, Zenon DEF AbortInv, RepliesFit
<1> QED
  BY <1>3, <1>4, <1>5, <1>6, <1>7, <1>8, <1>9, Zenon DEF Inv

\* do_write runs for an open connection only.
LEMMA WriteIsOpen ==
  ASSUME Inv, pc = "write"
  PROVE  open
<1>1. pc # "poll"
  OBVIOUS
<1> QED
  BY <1>1, OpenWhen, Zenon

\* do_write is done; EPOLLOUT is deleted when nothing waits.
LEMMA WrittenStep ==
  ASSUME Inv, WriteDone, Length(obuf) = 0 \/ AtFront(obuf)
  PROVE  Inv'
<1>1. /\ pc = "write" /\ pc' = "poll" /\ mask' = IF Length(obuf) = 0 THEN mask \ {"out"} ELSE mask
      /\ got' = got /\ out' = out /\ gone' = gone /\ peer' = peer /\ arrived' = arrived /\ open' = open
      /\ wire' = wire /\ ibuf' = ibuf /\ obuf' = obuf /\ handled' = handled /\ replies' = replies
  BY Zenon DEF WriteDone, peerVars, histVars
<1>2. pc # "poll" /\ pc # "aborted" /\ pc' # "aborted" /\ pc \in {"poll", "write"}
  BY <1>1
<1>3. open
  BY <1>2, OpenWhen, Zenon
<1>4. TypeOK'
  <2>1. mask' \subseteq {"in", "out"}
    BY <1>1, Types, Zenon
  <2> QED
    BY <1>1, <2>1, Types, TypesNext, Zenon
<1>5. RequestsIntact'
  BY <1>1, RequestsKept, Zenon
<1>6. ReadInv'
  BY <1>1, <1>2, ReadKept, Zenon
<1>7. FrontInv' /\ InputFits'
  BY <1>1, <1>2, FrontKept, Zenon
<1>8. ClosedInv'
  BY <1>1, <1>3, ClosedKept, Zenon
<1>9. ReplyInv'
  BY <1>1, RepliesKept, Zenon
<1>10. AbortInv'
  BY <1>2, AbortKept, Zenon
<1> QED
  BY <1>4, <1>5, <1>6, <1>7, <1>8, <1>9, <1>10, Zenon DEF Inv

\* The same with the assertion of write2fd, which is not reached when nothing
\* waits.
LEMMA WriteDoneStep ==
  ASSUME Inv, WriteDone
  PROVE  Inv'
<1>1. CASE Length(obuf) = 0 \/ AtFront(obuf)
  BY <1>1, WrittenStep, Zenon
<1>2. CASE ~(Length(obuf) = 0 \/ AtFront(obuf))
  <2>1. Abort /\ pc = "write"
    BY <1>2, Zenon DEF WriteDone
  <2>2. open
    BY <2>1, WriteIsOpen, Zenon
  <2> QED
    BY <1>2, <2>1, <2>2, AbortStep, Zenon
<1> QED
  BY <1>1, <1>2, Zenon

\* What was received, is in the kernel and is in the output buffer.
Sent(g, o, b) == g \o o \o b

\* It does not matter where the cut is.
LEMMA CutAnywhere ==
  ASSUME NEW g \in Seq(Byte), NEW o \in Seq(Byte), NEW p \in Seq(Byte), NEW d \in Seq(Byte)
  PROVE  Sent(g, o \o p, d) = Sent(g, o, p \o d)
<1>1. g \o o \in Seq(Byte)
  BY Concat, Zenon
<1>2. (g \o o) \o p = g \o (o \o p)
  BY ConcatTwice, ZenonT(60)
<1>3. ((g \o o) \o p) \o d = (g \o o) \o (p \o d)
  BY <1>1, ConcatTwice, Zenon
<1> QED
  BY <1>2, <1>3 DEF Sent

\* The bytes that move from the output buffer to the kernel.
LEMMA Moved ==
  ASSUME NEW g \in Seq(Byte), NEW o \in Seq(Byte), NEW b \in Seq(Byte), NEW n \in 0..Len(b)
  PROVE  Sent(g, o \o Prefix(b, n), Drop(b, n)) = Sent(g, o, b)
<1> DEFINE p == Prefix(b, n)
           d == Drop(b, n)
<1>1. p \in Seq(Byte) /\ d \in Seq(Byte)
  BY Prefixed, Dropped, Zenon
<1>2. p \o d = b
  BY CutAndJoined, Zenon
<1> HIDE DEF p, d
<1>3. Sent(g, o \o p, d) = Sent(g, o, p \o d)
  BY <1>1, CutAnywhere
<1> QED
  BY <1>2, <1>3, Zenon DEF p, d

\* write2fd: what write() takes goes to the kernel, the rest stays.
LEMMA SomeWrittenStep ==
  ASSUME Inv, NEW n, WriteSome(n), AtFront(obuf)
  PROVE  Inv'
<1>1. /\ pc = "write" /\ n \in 1..Length(obuf)
      /\ out' = out \o Prefix(Content(obuf), n) /\ obuf' = Adjust(IoPop(obuf, n))
      /\ got' = got /\ pc' = pc /\ gone' = gone /\ peer' = peer /\ arrived' = arrived /\ open' = open
      /\ wire' = wire /\ mask' = mask /\ ibuf' = ibuf /\ handled' = handled /\ replies' = replies
  BY Zenon DEF WriteSome, peerVars, histVars
<1>2. pc # "poll" /\ pc # "aborted" /\ pc' # "aborted"
  BY <1>1
<1>3. IsBuffer(obuf) /\ out \in Seq(Byte) /\ got \in Seq(Byte)
  BY Types, Zenon
<1>4. Content(obuf) \in Seq(Byte) /\ Length(obuf) = Len(Content(obuf)) /\ Length(obuf) \in Nat
  BY <1>3, BufferParts, Zenon
<1>5. n \in 0..Len(Content(obuf)) /\ Length(obuf) # 0
  BY <1>1, <1>4
<1>6. obuf # <<>>
  BY <1>5, NoBuffer, Zenon
<1> DEFINE b == Content(obuf)
           d == Drop(b, n)
           p == Prefix(b, n)
<1>8. d \in Seq(Byte) /\ p \in Seq(Byte)
  BY <1>4, <1>5, Dropped, Prefixed, Zenon
<1>9. IsBuffer(obuf') /\ AtFront(obuf') /\ Content(obuf') = d
  <2>1. n \in 0..Length(obuf)
    BY <1>4, <1>5
  <2>2. IsBuffer(IoPop(obuf, n)) /\ Content(IoPop(obuf, n)) = d
    BY <1>3, <1>6, <2>1, IoPopped, Zenon
  <2> QED
    BY <1>1, <2>2, Adjusted, Zenon
<1>10. open
  BY <1>2, OpenWhen, Zenon
<1>11. TypeOK'
  <2>1. out' \in Seq(Byte)
    BY <1>1, <1>3, <1>8, Concat, Zenon
  <2> QED
    BY <1>1, <1>9, <2>1, Types, TypesNext, Zenon
<1>12. RequestsIntact'
  BY <1>1, RequestsKept, Zenon
<1>13. ReadInv'
  BY <1>1, <1>2, ReadKept, Zenon
<1>14. FrontInv' /\ InputFits'
  BY <1>1, FrontKept, Zenon
<1>15. ClosedInv'
  BY <1>1, <1>10, ClosedKept, Zenon
<1>16. ReplyInv'
  <2>1. Sent(got, out \o p, d) = Sent(got, out, b)
    BY <1>3, <1>4, <1>5, Moved, Zenon
  <2>2. Sent(got', out', Content(obuf')) = Sent(got, out, Content(obuf))
    BY <1>1, <1>9, <2>1, Zenon
  <2>4. (got \o out \o Content(obuf))' = got \o out \o Content(obuf)
    BY <2>2, Zenon DEF Sent
  <2>3. AtFront(obuf) => AtFront(obuf)'
    BY <1>9, Zenon DEF AtFront
  <2> QED
    BY <1>1, <1>10, <2>3, <2>4, RepliesKept, Zenon
<1>17. AbortInv'
  BY <1>2, AbortKept, Zenon
<1> QED
  BY <1>11, <1>12, <1>13, <1>14, <1>15, <1>16, <1>17, Zenon DEF Inv

\* The same with the assertion of write2fd.
LEMMA WriteSomeStep ==
  ASSUME Inv, NEW n, WriteSome(n)
  PROVE  Inv'
<1>1. CASE AtFront(obuf)
  BY <1>1, SomeWrittenStep, Zenon
<1>2. CASE ~AtFront(obuf)
  <2>1. Abort /\ pc = "write"
    BY <1>2, Zenon DEF WriteSome
  <2>2. open
    BY <2>1, WriteIsOpen, Zenon
  <2> QED
    BY <1>2, <2>1, <2>2, AbortStep, Zenon
<1> QED
  BY <1>1, <1>2, Zenon

\* The peer is gone.
LEMMA WriteFailsStep ==
  ASSUME Inv, WriteFails
  PROVE  Inv'
<1>1. CASE AtFront(obuf)
  <2>1. Clean
    BY <1>1, Zenon DEF WriteFails
  <2> QED
    BY <2>1, CleanStep, Zenon
<1>2. CASE ~AtFront(obuf)
  <2>1. Abort /\ pc = "write"
    BY <1>2, Zenon DEF WriteFails
  <2>2. open
    BY <2>1, WriteIsOpen, Zenon
  <2> QED
    BY <1>2, <2>1, <2>2, AbortStep, Zenon
<1> QED
  BY <1>1, <1>2, Zenon

-----------------------------------------------------------------------------
(* The stream of the replies *)

\* Multiples of a size are apart by the size.
LEMMA Multiples ==
  ASSUME NEW F \in Nat, F > 0, NEW a \in Int, NEW b \in Int, a < b
  PROVE  F * a + F <= F * b
<1>1. F * (b - a - 1) >= 0
  <2>1. b - a - 1 \in Nat
    OBVIOUS
  <2> QED
    BY <2>1
<1>2. F * (b - a - 1) = F * b - F * a - F
  OBVIOUS
<1> QED
  BY <1>1, <1>2

\* Quotient and remainder.
LEMMA QuotientRemainder ==
  ASSUME NEW F \in Nat, F > 0, NEW q \in Nat, NEW r \in 0..(F - 1)
  PROVE  (F * q + r) \div F = q /\ (F * q + r) % F = r
<1> DEFINE x == F * q + r
           d == x \div F
           e == x % F
<1>1. x \in Nat /\ F * q \in Nat
  OBVIOUS
<1> HIDE DEF x
<1>2. d \in Int /\ e \in 0..(F - 1) /\ x = F * d + e
  BY <1>1
<1> HIDE DEF d, e
<1>3. d = q
  <2>1. ~(d < q)
    BY <1>2, Multiples DEF x
  <2>2. ~(q < d)
    BY <1>2, Multiples DEF x
  <2> QED
    BY <1>2, <2>1, <2>2
<1>4. e = r
  BY <1>2, <1>3 DEF x
<1> QED
  BY <1>3, <1>4 DEF d, e, x

\* The frames, of size F, of the replies to the requests of a sequence.
Frames(F, r) ==
  [k \in 1..(F * Len(r)) |-> <<r[((k - 1) \div F) + 1], ((k - 1) % F) + 1>>]

\* Each byte belongs to one of the replies.
LEMMA WhichReply ==
  ASSUME NEW F \in Nat, F > 0, NEW n \in Nat, NEW k \in 1..(F * n)
  PROVE  ((k - 1) \div F) + 1 \in 1..n /\ ((k - 1) % F) + 1 \in 1..F
<1> DEFINE x == k - 1
           d == x \div F
           e == x % F
<1>1. F * n \in Nat
  OBVIOUS
<1>2. x \in Nat /\ x < F * n
  BY <1>1
<1> HIDE DEF x
<1>3. d \in Nat /\ e \in 0..(F - 1) /\ x = F * d + e
  BY <1>2
<1> HIDE DEF d, e
<1>4. d < n
  <2> SUFFICES ASSUME ~(d < n) PROVE FALSE
    BY Zenon
  <2>1. n - 1 < d /\ n - 1 \in Int
    BY <1>3
  <2>2. F * (n - 1) + F <= F * d
    BY <1>3, <2>1, Multiples
  <2>3. F * (n - 1) + F = F * n
    OBVIOUS
  <2>4. F * d \in Nat
    BY <1>3
  <2> QED
    BY <1>1, <1>2, <1>3, <2>2, <2>3, <2>4
<1>5. d + 1 \in 1..n /\ e + 1 \in 1..F
  BY <1>3, <1>4
<1> QED
  BY <1>5, Zenon DEF d, e, x

\* They are bytes.
LEMMA FramesType ==
  ASSUME NEW F \in Nat, F > 0, NEW r \in Seq(Nat)
  PROVE  Frames(F, r) \in Seq(Byte) /\ Len(Frames(F, r)) = F * Len(r) /\ F * Len(r) \in Nat
<1> DEFINE n == Len(r)
           e(k) == <<r[((k - 1) \div F) + 1], ((k - 1) % F) + 1>>
<1>1. n \in Nat /\ F * n \in Nat /\ \A i \in 1..n : r[i] \in Nat
  OBVIOUS
<1>2. ASSUME NEW k \in 1..(F * n) PROVE e(k) \in Byte
  <2>1. ((k - 1) \div F) + 1 \in 1..n /\ ((k - 1) % F) + 1 \in 1..F
    BY <1>1, WhichReply, Zenon
  <2>2. \A i \in 1..F : i \in Nat
    OBVIOUS
  <2>3. r[((k - 1) \div F) + 1] \in Nat /\ ((k - 1) % F) + 1 \in Nat
    BY <1>1, <2>1, <2>2, Zenon
  <2>4. \A a, b \in Nat : <<a, b>> \in Byte
    BY DEF Byte
  <2> QED
    BY <2>3, <2>4, Zenon
<1> HIDE DEF e
<1> DEFINE N == F * n
           f == [k \in 1..N |-> e(k)]
<1>3. f \in [1..N -> Byte] /\ N \in Nat
  BY <1>1, <1>2, Zenon
<1>4. Frames(F, r) = f
  BY Zenon DEF Frames, e
<1> HIDE DEF N, f
<1>5. f \in Seq(Byte) /\ Len(f) = N
  BY <1>3
<1> QED
  BY <1>3, <1>4, <1>5, Zenon DEF N

\* One more reply: one more frame at the end.
LEMMA FramesAppend ==
  ASSUME NEW r \in Seq(Nat), NEW m \in Nat
  PROVE  LET F == HeadLen + ReplyLen
         IN Frames(F, Append(r, m)) = Frames(F, r) \o Frame(m, ReplyLen)
<1> DEFINE F == HeadLen + ReplyLen
           n == Len(r)
           a == Append(r, m)
           s == Frames(F, r)
           t == Frame(m, ReplyLen)
           u == Frames(F, a)
<1>1. F \in Nat /\ F > 0 /\ ReplyLen \in Nat
  BY Sizes
<1>2. n \in Nat /\ a \in Seq(Nat) /\ Len(a) = n + 1 /\ a[n + 1] = m /\ \A i \in 1..n : a[i] = r[i]
  OBVIOUS
<1>3. t \in Seq(Byte) /\ Len(t) = F /\ \A i \in 1..F : t[i] = <<m, i>>
  BY <1>1, FrameType, Zenon
<1> HIDE DEF F, a, t
<1>4. /\ s \in Seq(Byte) /\ Len(s) = F * n /\ F * n \in Nat
      /\ \A k \in 1..(F * n) : s[k] = <<r[((k - 1) \div F) + 1], ((k - 1) % F) + 1>>
  <2>1. \A k \in 1..(F * n) : s[k] = <<r[((k - 1) \div F) + 1], ((k - 1) % F) + 1>>
    BY Zenon DEF Frames
  <2> QED
    BY <1>1, <2>1, FramesType, Zenon
<1>5. /\ u \in Seq(Byte) /\ Len(u) = F * Len(a)
      /\ \A k \in 1..(F * Len(a)) : u[k] = <<a[((k - 1) \div F) + 1], ((k - 1) % F) + 1>>
  <2>1. \A k \in 1..(F * Len(a)) : u[k] = <<a[((k - 1) \div F) + 1], ((k - 1) % F) + 1>>
    BY Zenon DEF Frames
  <2> QED
    BY <1>1, <1>2, <2>1, FramesType, Zenon
<1> HIDE DEF s, u
<1>6. F * Len(a) = F * n + F
  BY <1>1, <1>2
<1>7. /\ s \o t \in Seq(Byte) /\ Len(s \o t) = Len(s) + Len(t)
      /\ \A i \in 1..Len(s) : (s \o t)[i] = s[i]
      /\ \A i \in 1..Len(t) : (s \o t)[Len(s) + i] = t[i]
  <2>1. s \in Seq(Byte) /\ t \in Seq(Byte)
    BY <1>3, <1>4, Zenon
  <2>2. s \o t \in Seq(Byte) /\ Len(s \o t) = Len(s) + Len(t)
    BY <2>1, Concat, Zenon
  <2>3. \A i \in 1..Len(s) : (s \o t)[i] = s[i]
    BY <2>1
  <2>4. \A i \in 1..Len(t) : (s \o t)[Len(s) + i] = t[i]
    BY <2>1
  <2> QED
    BY <2>2, <2>3, <2>4, Zenon
<1>8. ASSUME NEW k \in 1..Len(u) PROVE u[k] = (s \o t)[k]
  <2>1. k \in 1..(F * n + F)
    BY <1>5, <1>6, Zenon
  <2>2. u[k] = <<a[((k - 1) \div F) + 1], ((k - 1) % F) + 1>>
    BY <1>5, Zenon
  <2>3. CASE k <= F * n
    <3>1. k \in 1..(F * n)
      BY <1>4, <2>1, <2>3
    <3>2. ((k - 1) \div F) + 1 \in 1..n
      BY <1>1, <1>2, <3>1, WhichReply, Zenon
    <3>3. u[k] = s[k]
      BY <1>2, <1>4, <2>2, <3>1, <3>2, Zenon
    <3>4. (s \o t)[k] = s[k]
      BY <1>4, <1>7, <3>1, Zenon
    <3> QED
      BY <3>3, <3>4, Zenon
  <2>4. CASE ~(k <= F * n)
    <3> DEFINE i == k - F * n
    <3>1. i \in 1..F /\ k = F * n + i /\ i - 1 \in 0..(F - 1) /\ k - 1 = F * n + (i - 1) /\ (i - 1) + 1 = i
      BY <1>1, <1>4, <2>1, <2>4
    <3> HIDE DEF i
    <3>2. (k - 1) \div F = n /\ (k - 1) % F = i - 1
      <4>1. (F * n + (i - 1)) \div F = n /\ (F * n + (i - 1)) % F = i - 1
        BY <1>1, <1>2, <3>1, QuotientRemainder, Zenon
      <4> QED
        BY <3>1, <4>1, Zenon
    <3>3. u[k] = <<m, i>>
      BY <1>2, <2>2, <3>1, <3>2, Zenon
    <3>4. (s \o t)[Len(s) + i] = t[i]
      BY <1>3, <1>7, <3>1, Zenon
    <3> QED
      BY <1>3, <1>4, <3>1, <3>3, <3>4, Zenon
  <2> QED
    BY <2>3, <2>4, Zenon
<1>9. u = s \o t
  <2>1. Len(u) = Len(s \o t)
    BY <1>3, <1>4, <1>5, <1>6, <1>7, Zenon
  <2> QED
    BY <1>5, <1>7, <1>8, <2>1, SameElements, Zenon
<1> QED
  BY <1>9, Zenon DEF F, a, s, t, u

\* The stream of the replies.
LEMMA ReplyStreamType ==
  ASSUME Inv
  PROVE  ReplyStream = Frames(HeadLen + ReplyLen, replies) /\ ReplyStream \in Seq(Byte)
<1>1. ReplyStream = Frames(HeadLen + ReplyLen, replies)
  BY Zenon DEF ReplyStream, Frames
<1>2. HeadLen + ReplyLen \in Nat /\ HeadLen + ReplyLen > 0
  BY Sizes
<1> QED
  BY <1>1, <1>2, FramesType, Types, Zenon

-----------------------------------------------------------------------------
(* send_message *)

\* send_data finds a buffer when the pool has one for the new bytes.
LEMMA OutRoomFound ==
  ASSUME NEW rb, IsBuffer(rb), NEW n \in Nat
  PROVE  /\ OutRoom(rb, n) # 0 => OutRoom(rb, n) \in Caps
         /\ (\E c \in Caps : n <= c) => OutRoom(rb, n) # 0
<1>1. CASE OutRoom(rb, n) = Alloc(n)
  BY <1>1, Allocated, Zenon
<1>2. CASE rb # <<>> /\ OutRoom(rb, n) = rb[1].cap
  <2>1. rb[1].cap \in Caps /\ rb[1].cap \in Nat /\ rb[1].cap > 0
    BY <1>2, BufferParts, Zenon
  <2>2. rb[1].cap # 0
    BY <2>1
  <2> QED
    BY <1>2, <2>1, <2>2, Zenon
<1> QED
  BY <1>1, <1>2, Zenon DEF OutRoom

\* send_data appends.
LEMMA DataSent ==
  ASSUME NEW rb, IsBuffer(rb), NEW bytes \in Seq(Byte), OutRoom(rb, Len(bytes)) # 0
  PROVE  /\ IsBuffer(SendData(rb, bytes)) /\ AtFront(SendData(rb, bytes))
         /\ Content(SendData(rb, bytes)) = Content(rb) \o bytes
         /\ Length(SendData(rb, bytes)) = Length(rb) + Len(bytes)
<1> DEFINE c == OutRoom(rb, Len(bytes))
<1>1. Len(bytes) \in Nat
  OBVIOUS
<1>2. c \in Caps
  BY <1>1, OutRoomFound, Zenon
<1>3. SendData(rb, bytes) = Filled(c, rb, bytes)
  BY Zenon DEF SendData
<1> HIDE DEF c
<1>4. LET q == Filled(c, rb, bytes) IN
      /\ IsBuffer(q) /\ AtFront(q) /\ Content(q) = Content(rb) \o bytes
      /\ Length(q) = Length(rb) + Len(bytes)
  BY <1>2, FilledUp, Zenon
<1> QED
  BY <1>3, <1>4, Zenon

\* The header and the body of a reply.
LEMMA ReplyParts ==
  ASSUME NEW m \in Nat
  PROVE  /\ Header(m) \in Seq(Byte) /\ Len(Header(m)) = HeadLen
         /\ Body(m) \in Seq(Byte) /\ Len(Body(m)) = ReplyLen
         /\ Header(m) \o Body(m) = Frame(m, ReplyLen)
<1> DEFINE f == Frame(m, ReplyLen)
<1>1. f \in Seq(Byte) /\ Len(f) = HeadLen + ReplyLen
  BY Sizes, FrameType, Zenon
<1>2. HeadLen \in 0..Len(f) /\ Len(f) - HeadLen = ReplyLen
  BY <1>1, Sizes
<1> HIDE DEF f
<1>3. Prefix(f, HeadLen) \in Seq(Byte) /\ Len(Prefix(f, HeadLen)) = HeadLen
  BY <1>1, <1>2, Prefixed, Zenon
<1>4. Drop(f, HeadLen) \in Seq(Byte) /\ Len(Drop(f, HeadLen)) = ReplyLen
  BY <1>1, <1>2, Dropped, Zenon
<1>5. Prefix(f, HeadLen) \o Drop(f, HeadLen) = f
  BY <1>1, <1>2, CutAndJoined, Zenon
<1> QED
  BY <1>3, <1>4, <1>5, Zenon DEF f, Header, Body

\* send_message: with room for the reply, its frame is appended to the output.
LEMMA MessageSent ==
  ASSUME Inv, NEW m \in Nat, SendMessage(m)
  PROVE  /\ IsBuffer(obuf') /\ mask' \subseteq {"in", "out"} /\ replies' \in Seq(Nat)
         /\ RepliesFit => /\ AtFront(obuf') /\ replies' = Append(replies, m)
                          /\ Content(obuf') = Content(obuf) \o Frame(m, ReplyLen)
<1> DEFINE head == SendData(obuf, Header(m))
           body == Body(m)
<1>1. IsBuffer(obuf) /\ mask \subseteq {"in", "out"} /\ replies \in Seq(Nat)
  BY Types, Zenon
<1>2. /\ Header(m) \in Seq(Byte) /\ Len(Header(m)) = HeadLen
      /\ body \in Seq(Byte) /\ Len(body) = ReplyLen
      /\ Header(m) \o body = Frame(m, ReplyLen)
  BY ReplyParts, Zenon
<1>3. /\ Content(obuf) \in Seq(Byte) /\ Length(obuf) \in Nat
      /\ HeadLen \in Nat /\ ReplyLen \in Nat
  BY <1>1, BufferParts, Sizes, Zenon
<1>4. OutRoom(obuf, Len(Header(m))) # 0
  BY <1>1, <1>2, <1>3, Sizes, OutRoomFound, Zenon
<1>5. /\ IsBuffer(head) /\ Content(head) = Content(obuf) \o Header(m)
      /\ Length(head) = Length(obuf) + HeadLen
  BY <1>1, <1>2, <1>4, DataSent, Zenon
<1>6. CASE OutRoom(head, ReplyLen) = 0
  <2>1. obuf' = Pop(head, HeadLen) /\ mask' = mask /\ replies' = replies
    BY <1>6, Zenon DEF SendMessage
  <2> HIDE DEF head
  <2>2. HeadLen \in 0..Length(head)
    BY <1>3, <1>5
  <2>3. IsBuffer(obuf')
    BY <1>5, <2>1, <2>2, Popped, Zenon
  <2>4. ~RepliesFit
    <3>1. ~ \E c \in Caps : ReplyLen <= c
      BY <1>3, <1>5, <1>6, OutRoomFound, Zenon
    <3> QED
      BY <3>1, Zenon DEF RepliesFit
  <2> QED
    BY <1>1, <2>1, <2>3, <2>4, Zenon
<1>7. CASE OutRoom(head, ReplyLen) # 0
  <2>1. /\ obuf' = SendData(head, body) /\ replies' = Append(replies, m)
        /\ mask' = IF Activate THEN mask \cup {"out"} ELSE mask
    BY <1>7, Zenon DEF SendMessage
  <2>2. mask' \subseteq {"in", "out"}
    BY <1>1, <2>1, Zenon
  <2>3. replies' \in Seq(Nat)
    BY <1>1, <2>1
  <2> HIDE DEF head, body
  <2>4. IsBuffer(obuf') /\ AtFront(obuf') /\ Content(obuf') = Content(head) \o body
    <3>1. LET q == SendData(head, body) IN
          IsBuffer(q) /\ AtFront(q) /\ Content(q) = Content(head) \o body
      BY <1>2, <1>5, <1>7, DataSent, Zenon
    <3> QED
      BY <2>1, <3>1, Zenon
  <2>5. (Content(obuf) \o Header(m)) \o body = Content(obuf) \o (Header(m) \o body)
    BY <1>2, <1>3, ConcatTwice, Zenon
  <2>6. Content(obuf') = Content(obuf) \o Frame(m, ReplyLen)
    BY <1>2, <1>5, <2>4, <2>5, Zenon
  <2> QED
    BY <2>1, <2>2, <2>3, <2>4, <2>6, Zenon
<1> QED
  BY <1>6, <1>7, Zenon

-----------------------------------------------------------------------------
(* The loop of do_read *)

\* The header at the front of the input is that of the next request.
LEMMA HeadFound ==
  ASSUME Inv, NEW m \in 1..(Len(peer) + 1), Unread(Before(m)), Length(ibuf) >= HeadLen
  PROVE  /\ m \in 1..Len(peer)
         /\ \A i \in 1..Length(ibuf) : i <= HeadLen + peer[m].len => Content(ibuf)[i] = <<m, i>>
         /\ HeadOf(ibuf) = m
<1> DEFINE s == Content(ibuf)
<1>1. peer \in Requests /\ HeadLen \in Nat /\ HeadLen > 0
  BY Types, Sizes, Zenon
<1>2. /\ Before(m) \in Nat /\ arrived <= Len(Stream) /\ s \in Seq(Byte) /\ Length(ibuf) = Len(s)
      /\ Len(s) \in Nat /\ Len(wire) \in Nat /\ arrived \in Nat /\ Len(Stream) \in Nat
  BY Position, Zenon
<1>3. Before(m) + Len(s) + Len(wire) = arrived /\ \A i \in 1..Len(s) : s[i] = Stream[Before(m) + i]
  BY <1>2, Zenon DEF Unread
<1>4. Len(s) >= HeadLen
  BY <1>2, Zenon
<1> HIDE DEF s
<1>5. m \in 1..Len(peer)
  <2>1. Before(m) # Len(Stream)
    BY <1>1, <1>2, <1>3, <1>4
  <2>2. m # Len(peer) + 1
    BY <1>1, <2>1, StreamType, Zenon
  <2>3. Len(peer) \in Nat
    BY <1>1, PeerType, Zenon
  <2> QED
    BY <2>2, <2>3
<1>6. peer[m].len \in Nat
  BY <1>1, <1>5, PeerType, Zenon
<1>7. ASSUME NEW i \in 1..Len(s), i <= HeadLen + peer[m].len PROVE s[i] = <<m, i>>
  <2>1. i \in 1..(HeadLen + peer[m].len)
    BY <1>1, <1>2, <1>6, <1>7
  <2>2. Stream[Before(m) + i] = <<m, i>>
    BY <1>1, <1>5, <2>1, StreamAt, Zenon
  <2> QED
    BY <1>3, <2>2, Zenon
<1>8. s[1] = <<m, 1>>
  <2>1. 1 \in 1..Len(s) /\ 1 <= HeadLen + peer[m].len
    BY <1>1, <1>2, <1>4, <1>6
  <2> QED
    BY <1>7, <2>1, Zenon
<1>9. s[1][1] = m
  BY <1>8
<1>10. Prefix(s, HeadLen) = [i \in 1..HeadLen |-> <<m, i>>]
  <2> DEFINE p == Prefix(s, HeadLen)
             h == [i \in 1..HeadLen |-> <<m, i>>]
  <2>1. HeadLen \in 0..Len(s)
    BY <1>1, <1>2, <1>4
  <2>2. p \in Seq(Byte) /\ Len(p) = HeadLen /\ \A i \in 1..HeadLen : p[i] = s[i]
    BY <1>2, <2>1, Prefixed, Zenon
  <2>3. h \in Seq(Byte) /\ Len(h) = HeadLen /\ \A i \in 1..HeadLen : h[i] = <<m, i>>
    <3>1. m \in Nat
      BY <1>5
    <3> QED
      BY <1>1, <3>1 DEF Byte
  <2>4. ASSUME NEW i \in 1..HeadLen PROVE p[i] = h[i]
    <3>1. i \in 1..Len(s) /\ i <= HeadLen + peer[m].len
      BY <1>1, <1>2, <1>4, <1>6, SMTT(20)
    <3>2. s[i] = <<m, i>>
      BY <1>7, <3>1, Zenon
    <3> QED
      BY <2>2, <2>3, <3>2, Zenon
  <2> HIDE DEF p, h
  <2>5. p = h
    BY <2>2, <2>3, <2>4, SameElements, Zenon
  <2> QED
    BY <2>5, Zenon DEF p, h
<1>11. HeadOf(ibuf) = m
  BY <1>9, <1>10, Zenon DEF HeadOf, s
<1> QED
  BY <1>2, <1>5, <1>7, <1>11, Zenon DEF s

\* The body behind the header is that of the request.
LEMMA BodyFound ==
  ASSUME Inv, NEW m \in 1..Len(peer), NEW n, n = peer[m].len,
         \A i \in 1..Length(ibuf) : i <= HeadLen + peer[m].len => Content(ibuf)[i] = <<m, i>>,
         Length(ibuf) >= HeadLen + n, NEW rest, rest = Pop(ibuf, HeadLen)
  PROVE  /\ n \in Nat /\ IsBuffer(rest) /\ Length(rest) = Length(ibuf) - HeadLen /\ n \in 0..Length(rest)
         /\ Content(rest) = Drop(Content(ibuf), HeadLen)
         /\ rest # <<>> => /\ ibuf # <<>> /\ rest[1].cap = ibuf[1].cap
                           /\ rest[1].head = ibuf[1].head + HeadLen
         /\ Prefix(Content(rest), n) = Drop(Frame(m, n), HeadLen)
         /\ Drop(Frame(m, n), HeadLen) \in Seq(Byte)
<1> DEFINE s == Content(ibuf)
           f == Frame(m, n)
           r == Content(rest)
<1>1. IsBuffer(ibuf) /\ peer \in Requests /\ HeadLen \in Nat
  BY Types, Sizes, Zenon
<1>2. n \in Nat
  BY <1>1, PeerType, Zenon
<1>3. s \in Seq(Byte) /\ Length(ibuf) = Len(s) /\ Len(s) \in Nat
  BY <1>1, BufferParts, Zenon
<1>4. HeadLen \in 0..Length(ibuf)
  BY <1>1, <1>2, <1>3
<1>5. /\ IsBuffer(rest) /\ Length(rest) = Length(ibuf) - HeadLen /\ r = Drop(s, HeadLen)
      /\ rest # <<>> => /\ ibuf # <<>> /\ rest[1].cap = ibuf[1].cap
                        /\ rest[1].head = ibuf[1].head + HeadLen
  <2>1. LET q == Pop(ibuf, HeadLen) IN
        /\ IsBuffer(q) /\ Length(q) = Length(ibuf) - HeadLen /\ Content(q) = Drop(Content(ibuf), HeadLen)
        /\ q # <<>> => /\ ibuf # <<>> /\ q[1].cap = ibuf[1].cap
                       /\ q[1].head = ibuf[1].head + HeadLen
    BY <1>1, <1>4, Popped, Zenon
  <2> QED
    BY <2>1, Zenon
<1>6. n \in 0..Length(rest)
  <2>1. \A a, b, c \in Nat : a >= b + c => c \in 0..(a - b)
    OBVIOUS
  <2>2. Length(ibuf) \in Nat
    BY <1>3, Zenon
  <2> QED
    BY <1>1, <1>2, <1>5, <2>1, <2>2, Zenon
<1>7. f \in Seq(Byte) /\ Len(f) = HeadLen + n /\ \A i \in 1..(HeadLen + n) : f[i] = <<m, i>>
  <2>1. m \in Nat
    OBVIOUS
  <2> QED
    BY <1>2, <2>1, FrameType, Zenon
<1>8. \A i \in 1..Len(s) : i <= HeadLen + n => s[i] = <<m, i>>
  BY <1>3, Zenon
<1> HIDE DEF s, f, r
<1>9. HeadLen \in 0..Len(f) /\ Len(f) - HeadLen = n
  BY <1>1, <1>2, <1>7
<1> DEFINE b == Prefix(r, n)
           d == Drop(f, HeadLen)
<1>10. d \in Seq(Byte) /\ Len(d) = n /\ \A i \in 1..n : d[i] = f[HeadLen + i]
  BY <1>7, <1>9, Dropped, Zenon
<1>11. r \in Seq(Byte) /\ Len(r) = Length(rest) /\ \A i \in 1..(Len(s) - HeadLen) : r[i] = s[HeadLen + i]
  <2>1. r \in Seq(Byte) /\ Length(rest) = Len(r)
    BY <1>5, BufferParts, Zenon DEF r
  <2>2. HeadLen \in 0..Len(s)
    BY <1>3, <1>4, Zenon
  <2>3. \A i \in 1..(Len(s) - HeadLen) : Drop(s, HeadLen)[i] = s[HeadLen + i]
    BY <1>3, <2>2, Dropped, Zenon
  <2> QED
    BY <1>5, <2>1, <2>3, Zenon
<1>12. b \in Seq(Byte) /\ Len(b) = n /\ \A i \in 1..n : b[i] = r[i]
  <2>1. n \in 0..Len(r)
    BY <1>6, <1>11, Zenon
  <2> QED
    BY <1>11, <2>1, Prefixed, Zenon
<1> HIDE DEF b, d
<1>13. ASSUME NEW i \in 1..Len(b) PROVE b[i] = d[i]
  <2>1. /\ i \in 1..n /\ i \in 1..(Len(s) - HeadLen) /\ HeadLen + i \in 1..Len(s)
        /\ HeadLen + i \in 1..(HeadLen + n) /\ HeadLen + i <= HeadLen + n
    BY <1>1, <1>2, <1>3, <1>12
  <2>2. b[i] = s[HeadLen + i] /\ d[i] = f[HeadLen + i]
    BY <1>10, <1>11, <1>12, <2>1, Zenon
  <2> QED
    BY <1>7, <1>8, <2>1, <2>2, Zenon
<1>14. b = d
  BY <1>10, <1>12, <1>13, SameElements, Zenon
<1> QED
  BY <1>2, <1>5, <1>6, <1>10, <1>14, Zenon DEF b, d, f, r, s

\* One more request in the history.
LEMMA HandledNext ==
  ASSUME Inv, NEW m \in Nat, NEW body \in Seq(Byte),
         handled' = Append(handled, [msg |-> m, body |-> body])
  PROVE  /\ handled' \in Seq([msg : Nat, body : Seq(Byte)])
         /\ Len(handled) \in Nat /\ Len(handled') = Len(handled) + 1
         /\ \A k \in 1..Len(handled) : handled'[k] = handled[k]
         /\ handled'[Len(handled) + 1].msg = m /\ handled'[Len(handled) + 1].body = body
<1> DEFINE R == [msg : Nat, body : Seq(Byte)]
           e == [msg |-> m, body |-> body]
<1>1. handled \in Seq(R) /\ e \in R /\ e.msg = m /\ e.body = body
  BY Types, Zenon
<1> HIDE DEF R, e
<1>2. ASSUME NEW S, NEW s \in Seq(S), NEW x \in S
      PROVE  /\ Append(s, x) \in Seq(S) /\ Len(s) \in Nat /\ Len(Append(s, x)) = Len(s) + 1
             /\ \A k \in 1..Len(s) : Append(s, x)[k] = s[k]
             /\ Append(s, x)[Len(s) + 1] = x
  OBVIOUS
<1>3. /\ Append(handled, e) \in Seq(R) /\ Len(handled) \in Nat
      /\ Len(Append(handled, e)) = Len(handled) + 1
      /\ \A k \in 1..Len(handled) : Append(handled, e)[k] = handled[k]
      /\ Append(handled, e)[Len(handled) + 1] = e
  BY <1>1, <1>2
<1>4. handled' = Append(handled, e)
  BY Zenon DEF e
<1> QED
  BY <1>1, <1>3, <1>4, Zenon DEF R

\* The router is called with the next request.
LEMMA RequestsNext ==
  ASSUME Inv, peer' = peer, NEW m \in 1..Len(peer), peer[m].known, DoneBefore(m),
         handled' = Append(handled, [msg |-> m, body |-> Drop(Frame(m, peer[m].len), HeadLen)]),
         Drop(Frame(m, peer[m].len), HeadLen) \in Seq(Byte)
  PROVE  RequestsIntact' /\ DoneBefore(m + 1)'
<1> DEFINE L == Len(handled)
           B == Drop(Frame(m, peer[m].len), HeadLen)
<1>1. Len(peer) \in Nat /\ m \in Nat
  BY Types, PeerType
<1>2. /\ L \in Nat /\ Len(handled') = L + 1
      /\ \A k \in 1..L : handled'[k] = handled[k]
      /\ handled'[L + 1].msg = m /\ handled'[L + 1].body = B
  BY <1>1, HandledNext, Zenon
<1> HIDE DEF L
<1>3. /\ \A k \in 1..L : handled[k].msg < m
      /\ \A q \in 1..(m - 1) : peer[q].known => \E k \in 1..L : handled[k].msg = q
  BY Zenon DEF DoneBefore, L
<1>4. ASSUME NEW k \in 1..Len(handled')
      PROVE  LET x == handled'[k].msg IN
             /\ x \in 1..Len(peer') /\ peer'[x].known
             /\ handled'[k].body = Drop(Frame(x, peer'[x].len), HeadLen)
             /\ \A j \in 1..(k - 1) : handled'[j].msg < x
             /\ \A q \in 1..(x - 1) : peer'[q].known => \E j \in 1..(k - 1) : handled'[j].msg = q
  <2>1. CASE k \in 1..L
    <3> DEFINE x == handled[k].msg
    <3>1. handled'[k] = handled[k] /\ \A j \in 1..(k - 1) : handled'[j] = handled[j]
      <4>1. \A j \in 1..(k - 1) : j \in 1..L
        BY <1>2, <2>1
      <4> QED
        BY <1>2, <2>1, <4>1, Zenon
    <3>2. /\ x \in 1..Len(peer) /\ peer[x].known
          /\ handled[k].body = Drop(Frame(x, peer[x].len), HeadLen)
          /\ \A j \in 1..(k - 1) : handled[j].msg < x
          /\ \A q \in 1..(x - 1) : peer[q].known => \E j \in 1..(k - 1) : handled[j].msg = q
      BY <2>1, InvParts, Zenon DEF RequestsIntact, L
    <3>3. handled'[k].msg = x /\ handled'[k].body = handled[k].body
      BY <3>1, Zenon
    <3> HIDE DEF x
    <3>4. \A j \in 1..(k - 1) : handled'[j].msg = handled[j].msg
      BY <3>1, Zenon
    <3>5. \A q \in 1..(x - 1) : peer[q].known => \E j \in 1..(k - 1) : handled'[j].msg = q
      BY <3>2, <3>4, Zenon
    <3> QED
      BY <3>2, <3>3, <3>4, <3>5, Zenon
  <2>2. CASE k = L + 1
    <3>1. k - 1 = L
      BY <1>2, <2>2
    <3>2. handled'[k].msg = m /\ handled'[k].body = B
      BY <1>2, <2>2, Zenon
    <3>3. \A j \in 1..L : handled'[j].msg = handled[j].msg
      BY <1>2, Zenon
    <3>4. \A q \in 1..(m - 1) : peer[q].known => \E j \in 1..L : handled'[j].msg = q
      BY <1>3, <3>3, Zenon
    <3>5. \A j \in 1..L : handled'[j].msg < m
      BY <1>3, <3>3, Zenon
    <3> QED
      BY <3>1, <3>2, <3>4, <3>5, Zenon
  <2> QED
    BY <1>2, <2>1, <2>2, SMTT(20)
<1>5. RequestsIntact'
  BY <1>4, Zenon DEF RequestsIntact
<1>6. \A k \in 1..Len(handled') : handled'[k].msg < m + 1
  <2> SUFFICES ASSUME NEW k \in 1..Len(handled') PROVE handled'[k].msg < m + 1
    BY Zenon
  <2>1. CASE k \in 1..L
    <3>1. handled'[k].msg = handled[k].msg /\ handled[k].msg < m
      BY <1>2, <1>3, <2>1, Zenon
    <3>2. handled'[k].msg \in 1..Len(peer)
      BY <1>4, Zenon
    <3> QED
      BY <1>1, <3>1, <3>2
  <2>2. CASE k = L + 1
    BY <1>1, <1>2, <2>2
  <2> QED
    BY <1>2, <2>1, <2>2
<1>7. \A q \in 1..((m + 1) - 1) : peer[q].known => \E k \in 1..Len(handled') : handled'[k].msg = q
  <2> SUFFICES ASSUME NEW q \in 1..((m + 1) - 1), peer[q].known
               PROVE  \E k \in 1..Len(handled') : handled'[k].msg = q
    BY Zenon
  <2>1. CASE q = m
    <3>1. L + 1 \in 1..Len(handled')
      BY <1>2
    <3> QED
      BY <1>2, <2>1, <3>1, Zenon
  <2>2. CASE q # m
    <3>1. q \in 1..(m - 1)
      BY <1>1, <2>2
    <3>2. PICK k \in 1..L : handled[k].msg = q
      BY <1>3, <3>1, Zenon
    <3>3. k \in 1..Len(handled') /\ handled'[k] = handled[k]
      BY <1>2
    <3> QED
      BY <3>2, <3>3, Zenon
  <2> QED
    BY <2>1, <2>2, Zenon
<1> QED
  BY <1>5, <1>6, <1>7, Zenon DEF DoneBefore

\* A request that no callback is registered for is done with.
LEMMA RequestSkipped ==
  ASSUME Inv, peer' = peer, NEW m \in 1..Len(peer), ~peer[m].known, DoneBefore(m), handled' = handled
  PROVE  RequestsIntact' /\ DoneBefore(m + 1)'
<1>1. RequestsIntact'
  BY RequestsKept, Zenon
<1>2. m \in Nat /\ Len(peer) \in Nat
  BY Types, PeerType
<1>3. /\ \A k \in 1..Len(handled) : handled[k].msg < m
      /\ \A q \in 1..(m - 1) : peer[q].known => \E k \in 1..Len(handled) : handled[k].msg = q
  BY Zenon DEF DoneBefore
<1>4. ASSUME NEW k \in 1..Len(handled) PROVE handled[k].msg < m + 1
  <2>1. handled[k].msg \in 1..Len(peer)
    BY InvParts, Zenon DEF RequestsIntact
  <2>2. handled[k].msg < m
    BY <1>3, Zenon
  <2> QED
    BY <1>2, <2>1, <2>2
<1>5. ASSUME NEW q \in 1..((m + 1) - 1), peer[q].known
      PROVE  \E k \in 1..Len(handled) : handled[k].msg = q
  <2>1. q # m
    BY <1>5
  <2>2. q \in 1..(m - 1)
    BY <1>2, <2>1
  <2> QED
    BY <1>3, <1>5, <2>2, Zenon
<1> QED
  BY <1>1, <1>4, <1>5, Zenon DEF DoneBefore

\* The replies are those to the requests handled, one more of each.
LEMMA ReplyListNext ==
  ASSUME Inv, NEW m \in Nat, NEW body \in Seq(Byte), replies = [k \in 1..Len(handled) |-> handled[k].msg],
         handled' = Append(handled, [msg |-> m, body |-> body]), replies' = Append(replies, m)
  PROVE  replies' = [k \in 1..Len(handled') |-> handled'[k].msg]
<1> DEFINE L == Len(handled)
           e(k) == handled'[k].msg
           f == [k \in 1..(L + 1) |-> e(k)]
<1>1. /\ L \in Nat /\ Len(handled') = L + 1 /\ \A k \in 1..L : handled'[k] = handled[k]
      /\ handled'[L + 1].msg = m
  BY HandledNext, Zenon
<1>2. replies \in Seq(Nat)
  BY Types, Zenon
<1>3. Len(replies) = L /\ \A k \in 1..L : replies[k] = handled[k].msg
  BY <1>1
<1> DEFINE a == Append(replies, m)
<1>4. a \in Seq(Nat) /\ Len(a) = L + 1 /\ a[L + 1] = m /\ \A k \in 1..L : a[k] = replies[k]
  BY <1>2, <1>3
<1> HIDE DEF L, a
<1>5. ASSUME NEW k \in 1..(L + 1) PROVE e(k) = a[k]
  <2>1. CASE k \in 1..L
    BY <1>1, <1>3, <1>4, <2>1, ZenonT(60)
  <2>2. CASE k = L + 1
    BY <1>1, <1>4, <2>2, Zenon
  <2> QED
    BY <1>1, <2>1, <2>2
<1>6. \A k \in 1..(L + 1) : a[k] \in Nat
  BY <1>4, ElementType, Zenon
<1> HIDE DEF e
<1> DEFINE N == L + 1
<1>7. f \in [1..N -> Nat] /\ N \in Nat /\ \A k \in 1..N : f[k] = a[k]
  <2>1. N \in Nat
    BY <1>1
  <2> QED
    BY <1>5, <1>6, <2>1, Zenon
<1>8. Len(a) = N
  BY <1>4, Zenon
<1> HIDE DEF N, f
<1>9. f \in Seq(Nat) /\ Len(f) = N
  BY <1>7
<1>10. a = f
  BY <1>4, <1>7, <1>8, <1>9, SameElements, Zenon
<1> QED
  BY <1>1, <1>10, Zenon DEF a, f, e, N, L

\* The callback's reply goes behind those that were sent.
LEMMA RepliesNext ==
  ASSUME Inv, NEW m \in Nat, NEW body \in Seq(Byte), SendMessage(m),
         handled' = Append(handled, [msg |-> m, body |-> body]),
         open' = open, got' = got, out' = out
  PROVE  ReplyInv'
<1> SUFFICES ASSUME RepliesFit PROVE RepliesHeld' /\ AtFront(obuf)'
  BY Zenon DEF ReplyInv, RepliesFit
<1>1. /\ AtFront(obuf') /\ replies' = Append(replies, m)
      /\ Content(obuf') = Content(obuf) \o Frame(m, ReplyLen)
  BY MessageSent, Zenon
<1>2. RepliesHeld
  BY InvParts, Zenon DEF ReplyInv
<1>3. replies' = [k \in 1..Len(handled') |-> handled'[k].msg]
  BY <1>1, <1>2, ReplyListNext, Zenon DEF RepliesHeld
<1>4. ASSUME open PROVE got \o out \o Content(obuf') = ReplyStream'
  <2> DEFINE x == got \o out
             c == Content(obuf)
             f == Frame(m, ReplyLen)
  <2>1. got \in Seq(Byte) /\ out \in Seq(Byte) /\ IsBuffer(obuf) /\ replies \in Seq(Nat)
    BY Types, Zenon
  <2>2. x \in Seq(Byte) /\ c \in Seq(Byte) /\ f \in Seq(Byte)
    BY <2>1, Concat, BufferParts, FrameType, Sizes, Zenon
  <2>3. x \o c = ReplyStream
    BY <1>2, <1>4, Zenon DEF RepliesHeld
  <2>4. ReplyStream' = ReplyStream \o f
    <3>1. ReplyStream = Frames(HeadLen + ReplyLen, replies)
      BY ReplyStreamType, Zenon
    <3>2. ReplyStream' = Frames(HeadLen + ReplyLen, replies')
      BY Zenon DEF ReplyStream, Frames
    <3>3. Frames(HeadLen + ReplyLen, Append(replies, m)) = Frames(HeadLen + ReplyLen, replies) \o f
      BY <2>1, FramesAppend, Zenon
    <3> QED
      BY <1>1, <3>1, <3>2, <3>3, Zenon
  <2> HIDE DEF x, c, f
  <2>5. (x \o c) \o f = x \o (c \o f)
    BY <2>2, ConcatTwice, ZenonT(60)
  <2>6. x \o (c \o f) = ReplyStream'
    BY <2>3, <2>4, <2>5, Zenon
  <2> QED
    BY <1>1, <2>6, Zenon DEF x, c, f
<1> QED
  BY <1>1, <1>3, <1>4, Zenon DEF RepliesHeld

\* What is left of a frame's buffer fits it.
LEMMA PoppedFits ==
  ASSUME NEW rb, IsBuffer(rb), rb # <<>> => rb[1].head + Length(rb) <= rb[1].cap, NEW n \in 0..Length(rb)
  PROVE  LET q == Pop(rb, n) IN q # <<>> => q[1].head + Length(q) <= q[1].cap
<1> DEFINE q == Pop(rb, n)
<1> SUFFICES ASSUME q # <<>> PROVE q[1].head + Length(q) <= q[1].cap
  BY Zenon
<1>1. /\ Length(q) = Length(rb) - n /\ rb # <<>> /\ q[1].cap = rb[1].cap /\ q[1].head = rb[1].head + n
  BY Popped, Zenon
<1>2. Length(rb) \in Nat /\ rb[1].head \in Nat /\ rb[1].cap \in Nat
  BY <1>1, BufferParts, Zenon
<1>3. (rb[1].head + n) + (Length(rb) - n) <= rb[1].cap
  BY <1>1, <1>2
<1> QED
  BY <1>1, <1>3, Zenon

\* Behind a frame comes the next one.
LEMMA FrameDone ==
  ASSUME Inv, peer' = peer, arrived' = arrived, wire' = wire, NEW m \in 1..Len(peer), Unread(Before(m)),
         NEW n, n = peer[m].len, n \in Nat, Length(ibuf) >= HeadLen + n,
         NEW rest, IsBuffer(rest), Length(rest) = Length(ibuf) - HeadLen,
         Content(rest) = Drop(Content(ibuf), HeadLen), ibuf' = Pop(rest, n)
  PROVE  Unread(Before(m + 1))'
<1> DEFINE s == Content(ibuf)
           r == Content(rest)
           t == Content(ibuf')
           p == Before(m)
           l == Length(ibuf)
           l2 == Length(ibuf')
           w == Len(wire)
<1>1. peer \in Requests /\ HeadLen \in Nat /\ Len(peer) \in Nat
  BY Types, Sizes, PeerType, Zenon
<1>2. m \in 1..(Len(peer) + 1)
  BY <1>1
<1>3. /\ p \in Nat /\ s \in Seq(Byte) /\ l = Len(s) /\ l \in Nat /\ w \in Nat /\ arrived \in Nat
  BY <1>2, Position, Zenon
<1>4. Before(m + 1) = p + HeadLen + n
  BY <1>1, BeforeStep, Zenon
<1>5. Before(m + 1)' = Before(m + 1) /\ Stream' = Stream
  BY StreamKept, Zenon
<1>6. /\ p + l + w = arrived /\ \A i \in 1..l : s[i] = Stream[p + i]
      /\ \A i \in 1..w : wire[i] = Stream[p + l + i]
  BY Zenon DEF Unread
<1>7. l >= HeadLen + n /\ Length(rest) = l - HeadLen
  OBVIOUS
<1>8. Length(rest) = Len(r) /\ r \in Seq(Byte)
  BY BufferParts, Zenon
<1>9. n \in 0..Length(rest)
  BY <1>1, <1>3, <1>7
<1>10. t = Drop(r, n) /\ l2 = Length(rest) - n
  BY <1>9, Popped, Zenon
<1>11. HeadLen \in 0..Len(s) /\ n \in 0..Len(r)
  BY <1>1, <1>3, <1>7, <1>8, <1>9
<1>12. \A i \in 1..(Len(s) - HeadLen) : r[i] = s[HeadLen + i]
  BY <1>3, <1>11, Dropped, Zenon
<1>13. \A i \in 1..(Len(r) - n) : t[i] = r[n + i]
  <2> HIDE DEF r, t
  <2>2. r \in Seq(Byte) /\ n \in 0..Len(r)
    BY <1>8, <1>11, Zenon
  <2>1. \A i \in 1..(Len(r) - n) : Drop(r, n)[i] = r[n + i]
    BY <2>2, Dropped, ZenonT(60)
  <2> QED
    BY <1>10, <2>1, Zenon
<1> HIDE DEF s, r, t, p, l, l2, w
<1>14. /\ (p + HeadLen + n) + l2 = p + l /\ l2 \in Nat /\ l2 = (l - HeadLen) - n
       /\ Len(r) - n = l2 /\ Len(s) - HeadLen = l - HeadLen
  <2>1. l2 = (l - HeadLen) - n /\ Len(r) - n = l2 /\ Len(s) - HeadLen = l - HeadLen
    BY <1>3, <1>7, <1>8, <1>10, Zenon
  <2>2. \A a, b, c, d \in Nat : b + c <= d => (a + b + c) + ((d - b) - c) = a + d /\ (d - b) - c \in Nat
    OBVIOUS
  <2>3. p \in Nat /\ HeadLen \in Nat /\ n \in Nat /\ l \in Nat /\ HeadLen + n <= l
    BY <1>1, <1>3, <1>7
  <2>4. (p + HeadLen + n) + ((l - HeadLen) - n) = p + l /\ (l - HeadLen) - n \in Nat
    <3>1. \A c, d \in Nat : HeadLen + c <= d => (p + HeadLen + c) + ((d - HeadLen) - c) = p + d /\ (d - HeadLen) - c \in Nat
      BY <2>2, <2>3, Zenon
    <3> QED
      BY <2>3, <3>1, Zenon
  <2> QED
    BY <2>1, <2>4, Zenon
<1>15. ASSUME NEW i \in 1..l2 PROVE t[i] = Stream[(p + HeadLen + n) + i]
  <2>1. /\ n + i \in 1..(l - HeadLen) /\ HeadLen + (n + i) \in 1..l
        /\ p + (HeadLen + (n + i)) = (p + HeadLen + n) + i
    <3>1. i \in 1..((l - HeadLen) - n)
      BY <1>14, Zenon
    <3>2. p \in Nat /\ HeadLen \in Nat /\ n \in Nat /\ l \in Nat /\ l >= HeadLen + n
      BY <1>1, <1>3, <1>7, Zenon
    <3>5. \A b, c, d \in Nat : \A j \in 1..((d - b) - c) :
            j \in Nat /\ c + j \in 1..(d - b) /\ b + (c + j) \in 1..d
      OBVIOUS
    <3>3. i \in Nat /\ n + i \in 1..(l - HeadLen) /\ HeadLen + (n + i) \in 1..l
      BY <3>1, <3>2, <3>5, Zenon
    <3>6. \A a, b, c, d \in Nat : a + (b + (c + d)) = (a + b + c) + d
      OBVIOUS
    <3>4. p + (HeadLen + (n + i)) = (p + HeadLen + n) + i
      <4>1. \A c, d \in Nat : p + (HeadLen + (c + d)) = (p + HeadLen + c) + d
        BY <3>2, <3>6, Zenon
      <4> QED
        BY <3>2, <3>3, <4>1, Zenon
    <3> QED
      BY <3>3, <3>4, Zenon
  <2>2. t[i] = r[n + i]
    BY <1>13, <1>14, Zenon
  <2>3. r[n + i] = s[HeadLen + (n + i)]
    BY <1>12, <1>14, <2>1, Zenon
  <2>4. s[HeadLen + (n + i)] = Stream[p + (HeadLen + (n + i))]
    BY <1>6, <2>1, Zenon
  <2> QED
    BY <2>1, <2>2, <2>3, <2>4, Zenon
<1>16. /\ (p + HeadLen + n) + l2 + w = arrived
       /\ \A i \in 1..w : wire[i] = Stream[(p + HeadLen + n) + l2 + i]
  BY <1>6, <1>14, Zenon
<1> DEFINE b == Before(m + 1)
<1>17. /\ b + l2 + w = arrived
       /\ \A i \in 1..l2 : t[i] = Stream[b + i]
       /\ \A i \in 1..w : wire[i] = Stream[b + l2 + i]
  BY <1>4, <1>15, <1>16, Zenon
<1>18. /\ Before(m + 1)' + Length(ibuf') + Len(wire') = arrived'
       /\ \A i \in 1..Length(ibuf') : Content(ibuf')[i] = Stream'[Before(m + 1)' + i]
       /\ \A i \in 1..Len(wire') : wire'[i] = Stream'[Before(m + 1)' + Length(ibuf') + i]
  BY <1>5, <1>17, Zenon DEF t, l2, w
<1> QED
  BY <1>18, Zenon DEF Unread

\* msg_router::call: what the callback changes.
LEMMA Called ==
  ASSUME Inv, peer' = peer, open' = open, got' = got, out' = out, NEW m \in 1..Len(peer), DoneBefore(m),
         NEW body, body = Drop(Frame(m, peer[m].len), HeadLen), body \in Seq(Byte), Call(m, body)
  PROVE  /\ IsBuffer(obuf') /\ mask' \subseteq {"in", "out"}
         /\ handled' \in Seq([msg : Nat, body : Seq(Byte)]) /\ replies' \in Seq(Nat)
         /\ RequestsIntact' /\ DoneBefore(m + 1)' /\ ReplyInv'
<1>1. m \in Nat
  OBVIOUS
<1>2. CASE peer[m].known
  <2>1. handled' = Append(handled, [msg |-> m, body |-> body]) /\ SendMessage(m)
    BY <1>2, Zenon DEF Call
  <2>2. RequestsIntact' /\ DoneBefore(m + 1)'
    BY <1>2, <2>1, RequestsNext, Zenon
  <2>3. handled' \in Seq([msg : Nat, body : Seq(Byte)])
    BY <1>1, <2>1, HandledNext, Zenon
  <2>4. IsBuffer(obuf') /\ mask' \subseteq {"in", "out"} /\ replies' \in Seq(Nat)
    BY <1>1, <2>1, MessageSent, Zenon
  <2>5. ReplyInv'
    BY <1>1, <2>1, RepliesNext, Zenon
  <2> QED
    BY <2>2, <2>3, <2>4, <2>5, Zenon
<1>3. CASE ~peer[m].known
  <2>1. obuf' = obuf /\ mask' = mask /\ handled' = handled /\ replies' = replies
    BY <1>3, Zenon DEF Call, histVars
  <2>2. RequestsIntact' /\ DoneBefore(m + 1)'
    BY <1>3, <2>1, RequestSkipped, Zenon
  <2>3. ReplyInv'
    BY <2>1, RepliesKept, Zenon
  <2> QED
    BY <2>1, <2>2, <2>3, Types, Zenon
<1> QED
  BY <1>2, <1>3, Zenon

\* One turn of the loop: the header is popped, the router is called with the
\* body, the body is popped.
LEMMA HandleMessageStep ==
  ASSUME Inv, HandleMessage
  PROVE  Inv'
<1> DEFINE m == HeadOf(ibuf)
           rest == Pop(ibuf, HeadLen)
           n == BodyLen(m)
           body == Prefix(Content(rest), n)
<1>1. pc = "parse" /\ Length(ibuf) >= HeadLen /\ Length(ibuf) >= HeadLen + n
  BY Zenon DEF HandleMessage, HasFrame, HasHead
<1>2. pc # "poll" /\ pc # "aborted" /\ ~(pc \in {"poll", "write"})
  BY <1>1
<1>3. open
  BY <1>2, OpenWhen, Zenon
<1>4. PICK q \in 1..(Len(peer) + 1) : Unread(Before(q)) /\ DoneBefore(q)
  BY <1>2, <1>3, InvParts, Zenon DEF ReadInv
<1>5. /\ q \in 1..Len(peer) /\ m = q
      /\ \A i \in 1..Length(ibuf) : i <= HeadLen + peer[q].len => Content(ibuf)[i] = <<q, i>>
  BY <1>1, <1>4, HeadFound, Zenon
<1>6. n = peer[q].len
  BY <1>5, Zenon DEF BodyLen
<1>7. IF peer[m].known /\ ~AtFront(obuf)
        THEN Abort
        ELSE /\ Call(m, body)
             /\ ibuf' = IF rest # <<>> /\ n <= Length(rest) THEN Pop(rest, n) ELSE rest
             /\ pc' = IF peer[m].known /\ SendOverruns(m) THEN "overrun"
                      ELSE IF rest # <<>> /\ n <= Length(rest) THEN pc ELSE "aborted"
             /\ UNCHANGED <<peerVars, wire, open, out, got>>
  BY Zenon DEF HandleMessage
<1> HIDE DEF m
<1>8. /\ n \in Nat /\ IsBuffer(rest) /\ Length(rest) = Length(ibuf) - HeadLen /\ n \in 0..Length(rest)
      /\ Content(rest) = Drop(Content(ibuf), HeadLen)
      /\ body = Drop(Frame(q, n), HeadLen) /\ body \in Seq(Byte)
  <2> DEFINE r == rest
             k == n
  <2>1. r = Pop(ibuf, HeadLen) /\ k = peer[q].len /\ Length(ibuf) >= HeadLen + k
    BY <1>1, <1>6, Zenon
  <2> HIDE DEF r, k
  <2>2. /\ k \in Nat /\ IsBuffer(r) /\ Length(r) = Length(ibuf) - HeadLen /\ k \in 0..Length(r)
        /\ Content(r) = Drop(Content(ibuf), HeadLen)
        /\ Prefix(Content(r), k) = Drop(Frame(q, k), HeadLen) /\ Drop(Frame(q, k), HeadLen) \in Seq(Byte)
    BY <1>5, <2>1, BodyFound, Zenon
  <2> QED
    BY <2>2, Zenon DEF r, k
<1>9. CASE peer[m].known /\ ~AtFront(obuf)
  BY <1>3, <1>7, <1>9, AbortStep, Zenon
<1>10. CASE ~(peer[m].known /\ ~AtFront(obuf))
  <2>1. /\ Call(q, body)
        /\ ibuf' = IF rest # <<>> /\ n <= Length(rest) THEN Pop(rest, n) ELSE rest
        /\ pc' = IF peer[m].known /\ SendOverruns(m) THEN "overrun"
                 ELSE IF rest # <<>> /\ n <= Length(rest) THEN pc ELSE "aborted"
        /\ peer' = peer /\ arrived' = arrived /\ gone' = gone /\ wire' = wire /\ open' = open
        /\ out' = out /\ got' = got
    BY <1>5, <1>7, <1>10, Zenon DEF peerVars
  <2>2. /\ IsBuffer(obuf') /\ mask' \subseteq {"in", "out"}
        /\ handled' \in Seq([msg : Nat, body : Seq(Byte)]) /\ replies' \in Seq(Nat)
        /\ RequestsIntact' /\ DoneBefore(q + 1)' /\ ReplyInv'
    <3> DEFINE b == body
    <3>1. b = Drop(Frame(q, peer[q].len), HeadLen) /\ b \in Seq(Byte) /\ Call(q, b)
      BY <1>6, <1>8, <2>1, Zenon
    <3> HIDE DEF b
    <3> QED
      BY <1>4, <1>5, <2>1, <3>1, Called, Zenon
  <2>3. ibuf # <<>> => ibuf[1].head + Length(ibuf) <= ibuf[1].cap
    BY InvParts, Zenon DEF InputFits
  <2>4. HeadLen \in 0..Length(ibuf) /\ IsBuffer(ibuf)
    <3>1. IsBuffer(ibuf) /\ HeadLen \in Nat
      BY Types, Sizes, Zenon
    <3>2. Length(ibuf) \in Nat
      BY <3>1, BufferParts, Zenon
    <3> QED
      BY <1>1, <3>1, <3>2
  <2>5. rest # <<>> => rest[1].head + Length(rest) <= rest[1].cap
    BY <2>3, <2>4, PoppedFits, Zenon
  <2> HIDE DEF rest, n, body
  <2>6. n <= Length(rest) /\ (rest = <<>> => n = 0 /\ n = Length(rest))
    <3>1. n <= Length(rest) /\ Length(rest) \in Nat
      BY <1>8, BufferParts
    <3>2. rest = <<>> => Length(rest) = 0
      BY NoBuffer, Zenon
    <3> QED
      BY <1>8, <3>1, <3>2
  <2>7. ibuf' = Pop(rest, n)
    BY <2>1, <2>6, Zenon DEF Pop
  <2>8. pc' \in {"parse", "overrun", "aborted"} /\ (pc' = "aborted" => rest = <<>>)
    BY <1>1, <2>1, <2>6, Zenon
  <2>9. TypeOK'
    <3>1. IsBuffer(ibuf')
      BY <1>8, <2>7, Popped, Zenon
    <3>2. pc' \in {"poll", "parse", "write", "aborted", "overrun"}
      BY <2>8, Zenon
    <3> QED
      BY <2>1, <2>2, <3>1, <3>2, Types, TypesNext, Zenon
  <2>10. ReadInv'
    <3>1. q + 1 \in 1..(Len(peer) + 1)
      BY <1>5, Types, PeerType
    <3>2. Length(ibuf) >= HeadLen + n
      BY <1>1, Zenon DEF n
    <3>3. Unread(Before(q + 1))'
      BY <1>4, <1>5, <1>6, <1>8, <2>1, <2>7, <3>2, FrameDone, Zenon
    <3> QED
      BY <2>1, <2>2, <3>1, <3>3, Zenon DEF ReadInv
  <2>11. FrontInv'
    BY <2>8, Zenon DEF FrontInv
  <2>12. InputFits'
    <3>1. LET b == Pop(rest, n) IN b # <<>> => b[1].head + Length(b) <= b[1].cap
      BY <1>8, <2>5, PoppedFits, Zenon
    <3> QED
      BY <2>7, <3>1, Zenon DEF InputFits
  <2>13. ClosedInv'
    BY <1>3, <2>1, ClosedKept, Zenon
  <2>14. AbortInv'
    <3>1. CASE pc' # "aborted"
      BY <3>1, AbortKept, Zenon
    <3>2. CASE pc' = "aborted"
      <4>1. ~(peer[q].len > 0)
        BY <1>6, <2>6, <2>8, <3>2
      <4>2. ~BodiesThere
        BY <1>5, <4>1, Types, Zenon DEF BodiesThere
      <4> QED
        BY <4>2, Zenon DEF AbortInv, BodiesThere
    <3> QED
      BY <3>1, <3>2, Zenon
  <2> QED
    BY <2>2, <2>9, <2>10, <2>11, <2>12, <2>13, <2>14, Zenon DEF Inv
<1> QED
  BY <1>9, <1>10, Zenon

-----------------------------------------------------------------------------
(* The theorems *)

\* The connection starts with no byte read and no reply owed.
LEMMA InitInv ==
  ASSUME Init
  PROVE  Inv
<1>1. /\ peer \in Requests /\ arrived = 0 /\ wire = <<>> /\ gone = FALSE /\ open = TRUE /\ mask = {"in"}
      /\ ibuf = <<>> /\ obuf = <<>> /\ pc = "poll" /\ out = <<>> /\ got = <<>> /\ handled = <<>>
      /\ replies = <<>>
  BY Zenon DEF Init
<1>2. /\ Len(wire) = 0 /\ Length(ibuf) = 0 /\ Len(handled) = 0 /\ Len(replies) = 0
      /\ IsBuffer(ibuf) /\ IsBuffer(obuf) /\ AtFront(ibuf) /\ AtFront(obuf) /\ Content(obuf) = <<>>
  BY <1>1, NoBuffer
<1>3. Len(peer) \in Nat /\ 1 \in 1..(Len(peer) + 1) /\ Len(peer) + 1 \in 1..(Len(peer) + 1)
  BY <1>1, PeerType
<1>4. TypeOK
  <2>1. arrived \in 0..Len(Stream)
    <3>1. Before(Len(peer) + 1) \in Nat
      BY <1>1, <1>3, BeforeStep, Zenon
    <3>2. Len(Stream) \in Nat
      BY <1>1, StreamType
    <3> QED
      BY <1>1, <3>2
  <2>2. {gone, open} \subseteq BOOLEAN /\ mask \subseteq {"in", "out"}
    BY <1>1, Zenon
  <2>3. pc \in {"poll", "parse", "write", "aborted", "overrun"}
    BY <1>1
  <2>4. {wire, out, got} \subseteq Seq(Byte)
    BY <1>1
  <2>5. handled \in Seq([msg : Nat, body : Seq(Byte)]) /\ replies \in Seq(Nat)
    BY <1>1
  <2> QED
    BY <1>1, <1>2, <2>1, <2>2, <2>3, <2>4, <2>5, Zenon DEF TypeOK
<1>5. \A k \in 1..0 : FALSE
  OBVIOUS
<1>6. RequestsIntact
  BY <1>2, <1>5, Zenon DEF RequestsIntact
<1>7. ReadInv
  <2>1. Before(1) = 0
    BY <1>1, BeforeStep, Zenon
  <2>2. 0 + 0 + 0 = 0 /\ 1..(1 - 1) = 1..0
    OBVIOUS
  <2>3. Unread(Before(1))
    BY <1>1, <1>2, <1>5, <2>1, <2>2, Zenon DEF Unread
  <2>4. DoneBefore(1)
    BY <1>2, <1>5, <2>2, Zenon DEF DoneBefore
  <2> QED
    BY <1>3, <2>3, <2>4, Zenon DEF ReadInv
<1>8. FrontInv
  BY <1>2, Zenon DEF FrontInv
<1>9. InputFits
  BY <1>1, Zenon DEF InputFits
<1>10. ClosedInv
  BY <1>1, Zenon DEF ClosedInv
<1>11. ReplyInv
  <2>1. replies = [k \in 1..Len(handled) |-> handled[k].msg]
    BY <1>1, <1>2
  <2>2. ReplyStream = <<>>
    <3>1. HeadLen + ReplyLen \in Nat
      BY Sizes
    <3>2. (HeadLen + ReplyLen) * Len(replies) = 0
      BY <1>2, <3>1
    <3> QED
      BY <3>2 DEF ReplyStream
  <2>3. got \o out \o Content(obuf) = <<>>
    BY <1>1, <1>2
  <2> QED
    BY <1>2, <2>1, <2>2, <2>3, Zenon DEF ReplyInv, RepliesHeld
<1>12. AbortInv
  <2>1. AssertionsHold
    BY <1>1 DEF AssertionsHold
  <2> QED
    BY <2>1, Zenon DEF AbortInv
<1> QED
  BY <1>4, <1>6, <1>7, <1>8, <1>9, <1>10, <1>11, <1>12, Zenon DEF Inv

\* A step of nobody.
LEMMA NobodySteps ==
  ASSUME Inv, UNCHANGED vars
  PROVE  Inv'
<1>1. /\ peer' = peer /\ arrived' = arrived /\ gone' = gone /\ wire' = wire /\ open' = open
      /\ mask' = mask /\ ibuf' = ibuf /\ obuf' = obuf /\ pc' = pc /\ out' = out /\ got' = got
      /\ handled' = handled /\ replies' = replies
  BY Zenon DEF vars, peerVars, histVars
<1>2. TypeOK'
  BY <1>1, Types, TypesNext, Zenon
<1>3. RequestsIntact'
  BY <1>1, RequestsKept, Zenon
<1>4. ReadInv'
  BY <1>1, ReadKept, Zenon
<1>5. FrontInv' /\ InputFits'
  BY <1>1, FrontKept, Zenon
<1>6. ClosedInv'
  BY <1>1, ClosedKept, Zenon
<1>7. ReplyInv'
  BY <1>1, RepliesKept, Zenon
<1>8. AbortInv'
  BY <1>1, InvParts, Zenon DEF AbortInv, AssertionsHold, RepliesFit, BodiesThere
<1> QED
  BY <1>2, <1>3, <1>4, <1>5, <1>6, <1>7, <1>8, Zenon DEF Inv

\* Every step of the loop and of the peer keeps the invariant.
LEMMA NextInv ==
  ASSUME Inv, [Next]_vars
  PROVE  Inv'
<1>1. CASE ReadData
  BY <1>1, ReadDataStep, Zenon
<1>2. CASE ReadFails
  BY <1>2, ReadFailsStep, Zenon
<1>3. CASE HandleMessage
  BY <1>3, HandleMessageStep, Zenon
<1>4. CASE BadHeader
  BY <1>4, BadHeaderStep, Zenon
<1>5. CASE ParseDone
  BY <1>5, ParseDoneStep, Zenon
<1>6. CASE WriteReady
  BY <1>6, WriteReadyStep, Zenon
<1>7. CASE \E n \in 1..SockBuf : WriteSome(n)
  BY <1>7, WriteSomeStep, Zenon
<1>8. CASE WriteFails
  BY <1>8, WriteFailsStep, Zenon
<1>9. CASE WriteDone
  BY <1>9, WriteDoneStep, Zenon
<1>10. CASE \E n \in 1..Len(Stream) : Arrive(n)
  BY <1>10, ArriveStep, Zenon
<1>11. CASE PeerReceives
  BY <1>11, PeerReceivesStep, Zenon
<1>12. CASE PeerCloses
  BY <1>12, PeerClosesStep, Zenon
<1>13. CASE UNCHANGED vars
  BY <1>13, NobodySteps, Zenon
<1> QED
  BY <1>1, <1>2, <1>3, <1>4, <1>5, <1>6, <1>7, <1>8, <1>9, <1>10, <1>11, <1>12, <1>13, Zenon
  DEF Next, Loop, Peer

\* The invariant of tcp_conn: between two turns of do_read's loop the input
\* buffer starts with the head of the first request that is not done with.
THEOREM ConnInvariance == Spec => []Inv
<1>1. Init => Inv
  BY InitInv, Zenon
<1>2. Inv /\ [Next]_vars => Inv'
  BY NextInv, Zenon
<1> QED
  BY <1>1, <1>2, PTL DEF Spec

\* do_read hands every registered request to its callback with its own body,
\* once and in the order of the stream, however the stream is cut into reads
\* and whatever the sizes of the frames and of the pool's buffers.
THEOREM RequestsDelivered == Spec => []RequestsIntact
<1>1. Inv => RequestsIntact
  BY InvParts, Zenon
<1> QED
  BY <1>1, ConnInvariance, PTL

\* read_data takes no more from the socket than its buffer has room for.
THEOREM InputBounded == Spec => []InputFits
<1>1. Inv => InputFits
  BY InvParts, Zenon
<1> QED
  BY <1>1, ConnInvariance, PTL

\* When a buffer of the pool holds a reply and until send_data overruns its
\* buffer, what send_message has written is what the peer has received, what the
\* socket holds and what the output buffer holds, one reply for each request
\* handled and in their order.
THEOREM RepliesDelivered ==
  ASSUME RepliesFit
  PROVE  Spec => []RepliesIntact
<1>1. Inv => RepliesIntact
  BY InvParts, Zenon DEF ReplyInv, RepliesIntact
<1> QED
  BY <1>1, ConnInvariance, PTL

\* When moreover no request has an empty body, no assertion of reactor_buf
\* fails: neither those of pop nor the one of send_message.
THEOREM NoAssertionFails ==
  ASSUME RepliesFit, BodiesThere
  PROVE  Spec => []AssertionsHold
<1>1. Inv => AssertionsHold
  BY InvParts, Zenon DEF AbortInv
<1> QED
  BY <1>1, ConnInvariance, PTL

\* send_message leaves EPOLLOUT set when it leaves output.
LEMMA MessageArms ==
  ASSUME Inv, NEW m \in Nat, SendMessage(m), Length(obuf) > 0 => "out" \in mask
  PROVE  mask \subseteq mask' /\ (Length(obuf') > 0 => "out" \in mask')
<1> DEFINE head == SendData(obuf, Header(m))
<1>1. IsBuffer(obuf) /\ Length(obuf) \in Nat /\ HeadLen \in Nat
  BY Types, BufferParts, Sizes, Zenon
<1>2. /\ Header(m) \in Seq(Byte) /\ Len(Header(m)) = HeadLen
  BY ReplyParts, Zenon
<1>3. OutRoom(obuf, Len(Header(m))) # 0
  BY <1>1, <1>2, Sizes, OutRoomFound, Zenon
<1>4. IsBuffer(head) /\ Length(head) = Length(obuf) + HeadLen
  BY <1>1, <1>2, <1>3, DataSent, Zenon
<1>5. CASE OutRoom(head, ReplyLen) = 0
  <2>1. obuf' = Pop(head, HeadLen) /\ mask' = mask
    BY <1>5, Zenon DEF SendMessage
  <2> HIDE DEF head
  <2>2. HeadLen \in 0..Length(head) /\ Length(head) - HeadLen = Length(obuf)
    BY <1>1, <1>4
  <2>3. Length(obuf') = Length(obuf)
    BY <1>4, <2>1, <2>2, Popped, Zenon
  <2> QED
    BY <2>1, <2>3, Zenon
<1>6. CASE OutRoom(head, ReplyLen) # 0
  <2>1. mask' = IF Activate THEN mask \cup {"out"} ELSE mask
    BY <1>6, Zenon DEF SendMessage
  <2>2. Activate \/ Length(obuf) > 0
    BY <1>1 DEF Activate
  <2> QED
    BY <2>1, <2>2, Zenon
<1> QED
  BY <1>5, <1>6, Zenon

\* No step leaves an open connection without the events it needs.
LEMMA ArmedNext ==
  ASSUME Inv, EventsArmed, [Next]_vars
  PROVE  EventsArmed'
<1>1. CASE Clean
  BY <1>1, Zenon DEF Clean, EventsArmed
<1>2. CASE mask' = mask /\ obuf' = obuf /\ open' = open
  BY <1>2, Zenon DEF EventsArmed, Length
<1>3. CASE Abort
  BY <1>2, <1>3, Zenon DEF Abort
<1>4. CASE ReadData
  BY <1>2, <1>3, <1>4, Zenon DEF ReadData
<1>5. CASE ReadFails
  BY <1>1, <1>3, <1>5, Zenon DEF ReadFails
<1>6. CASE HandleMessage
  <2> DEFINE m == HeadOf(ibuf)
  <2>1. CASE Abort
    BY <1>3, <2>1, Zenon
  <2>2. CASE \E body : Call(m, body) /\ open' = open
    <3>1. CASE ~peer[m].known
      BY <1>2, <2>2, <3>1, Zenon DEF Call
    <3>2. CASE peer[m].known
      <4>1. SendMessage(m) /\ open' = open
        BY <2>2, <3>2, Zenon DEF Call
      <4>2. m \in Nat
        <5>1. pc = "parse" /\ Length(ibuf) >= HeadLen
          BY <1>6, Zenon DEF HandleMessage, HasFrame, HasHead
        <5>2. pc # "poll" /\ pc # "aborted"
          BY <5>1
        <5>3. PICK q \in 1..(Len(peer) + 1) : Unread(Before(q))
          BY <5>2, OpenWhen, InvParts, Zenon DEF ReadInv
        <5>4. m = q /\ q \in 1..Len(peer)
          BY <5>1, <5>3, HeadFound, Zenon
        <5> QED
          BY <5>4
      <4> HIDE DEF m
      <4>3. open => mask \subseteq mask' /\ (Length(obuf') > 0 => "out" \in mask')
        BY <4>1, <4>2, MessageArms, Zenon DEF EventsArmed
      <4> QED
        BY <4>1, <4>3, Zenon DEF EventsArmed, Length
    <3> QED
      BY <3>1, <3>2, Zenon
  <2> QED
    BY <1>6, <2>1, <2>2, Zenon DEF HandleMessage
<1>7. CASE BadHeader
  BY <1>1, <1>7, Zenon DEF BadHeader
<1>8. CASE ParseDone
  BY <1>2, <1>8, Zenon DEF ParseDone
<1>9. CASE WriteReady
  BY <1>2, <1>9, Zenon DEF WriteReady
<1>10. CASE \E n \in 1..SockBuf : WriteSome(n)
  <2>1. PICK n : n \in 1..Length(obuf) /\ mask' = mask /\ open' = open
    BY <1>10, Zenon DEF WriteSome, Abort
  <2>2. IsBuffer(obuf) /\ Length(obuf) \in Nat
    BY Types, BufferParts, Zenon
  <2>3. Length(obuf) > 0
    BY <2>1, <2>2
  <2> QED
    BY <2>1, <2>3, Zenon DEF EventsArmed
<1>11. CASE WriteFails
  <2>1. CASE AtFront(obuf)
    BY <1>1, <1>11, <2>1, Zenon DEF WriteFails
  <2>2. CASE ~AtFront(obuf)
    BY <1>2, <1>11, <2>2, Zenon DEF WriteFails, Abort
  <2> QED
    BY <2>1, <2>2, Zenon
<1>12. CASE WriteDone
  <2>1. CASE Length(obuf) = 0 \/ AtFront(obuf)
    <3>1. mask' = IF Length(obuf) = 0 THEN mask \ {"out"} ELSE mask
      BY <1>12, <2>1, Zenon DEF WriteDone
    <3>2. obuf' = obuf /\ open' = open /\ "in" # "out"
      BY <1>12, <2>1, Zenon DEF WriteDone
    <3>3. Length(obuf) = 0 => ~(Length(obuf) > 0)
      OBVIOUS
    <3> QED
      BY <3>1, <3>2, <3>3, Zenon DEF EventsArmed, Length
  <2>2. CASE ~(Length(obuf) = 0 \/ AtFront(obuf))
    BY <1>2, <1>12, <2>2, Zenon DEF WriteDone, Abort
  <2> QED
    BY <2>1, <2>2, Zenon
<1>13. CASE Peer
  BY <1>2, <1>13, Zenon DEF Peer, Arrive, PeerReceives, PeerCloses
<1>14. CASE UNCHANGED vars
  BY <1>2, <1>14, Zenon DEF vars
<1> QED
  BY <1>4, <1>5, <1>6, <1>7, <1>8, <1>9, <1>10, <1>11, <1>12, <1>13, <1>14, Zenon DEF Next, Loop

\* send_message adds EPOLLOUT only when the output was empty and do_write
\* deletes it only when all is written; between them no output is left that the
\* loop does not wait to write, and EPOLLIN is never lost with it.
THEOREM NoOutputForgotten == Spec => []EventsArmed
<1>1. Init => EventsArmed
  <2>1. ASSUME Init PROVE EventsArmed
    <3>1. mask = {"in"} /\ obuf = <<>>
      BY <2>1, Zenon DEF Init
    <3>2. ~(Length(obuf) > 0)
      BY <3>1, NoBuffer
    <3> QED
      BY <3>1, <3>2, Zenon DEF EventsArmed
  <2> QED
    BY <2>1, Zenon
<1>2. Inv /\ EventsArmed /\ [Next]_vars => EventsArmed'
  BY ArmedNext, Zenon
<1> QED
  BY <1>1, <1>2, ConnInvariance, PTL DEF Spec
=============================================================================
