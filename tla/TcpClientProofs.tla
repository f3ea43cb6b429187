-------------------------- MODULE TcpClientProofs --------------------------
(***************************************************************************)
(* Proofs about the streams of a client, over all its connections, for any *)
(* sizes of messages and buffers and any cutting of the streams into reads *)
(* and writes: the callbacks see whole replies in order, the server gets   *)
(* the frames of accepted requests, and do_read's and do_write's           *)
(* assertions hold.                                                        *)
(***************************************************************************)
EXTENDS TcpClient, TLAPS

-----------------------------------------------------------------------------
(* Sequences *)

\* The sizes.
LEMMA Sizes ==
  /\ HeadLen \in Nat /\ HeadLen > 0 /\ ReqLen \in Nat /\ RepLen \in Nat /\ RepLen > 0
  /\ Capacity \in Nat /\ RcvBuf \in Nat /\ SndBuf \in Nat
  /\ RcvBuf + HeadLen + RepLen <= Capacity
BY ClientAssumption

\* The elements of a sequence.
LEMMA ElementType ==
  ASSUME NEW S, NEW s \in Seq(S)
  PROVE  Len(s) \in Nat /\ \A m \in 1..Len(s) : s[m] \in S
OBVIOUS

\* Sequences with the same elements are equal.
LEMMA SameElements ==
  ASSUME NEW S, NEW s \in Seq(S), NEW t \in Seq(S), Len(s) = Len(t),
         \A i \in 1..Len(s) : s[i] = t[i]
  PROVE  s = t
OBVIOUS

\* Concatenation.
LEMMA Concat ==
  ASSUME NEW S, NEW s \in Seq(S), NEW t \in Seq(S)
  PROVE  s \o t \in Seq(S) /\ Len(s \o t) = Len(s) + Len(t)
OBVIOUS

\* The elements of a concatenation.
LEMMA ConcatAt ==
  ASSUME NEW S, NEW s \in Seq(S), NEW t \in Seq(S)
  PROVE  /\ \A i \in 1..Len(s) : (s \o t)[i] = s[i]
         /\ \A i \in 1..Len(t) : (s \o t)[Len(s) + i] = t[i]
OBVIOUS

\* Concatenation may be read from either side.
LEMMA ConcatTwice ==
  \A s, t, u \in Seq(Byte) : (s \o t) \o u = s \o (t \o u)
OBVIOUS

\* Nothing is added.
LEMMA ConcatEmpty ==
  ASSUME NEW S, NEW s \in Seq(S)
  PROVE  s \o <<>> = s /\ <<>> \o s = s /\ <<>> \in Seq(S)
OBVIOUS

\* The rest of a sequence.
LEMMA Dropped ==
  ASSUME NEW S, NEW s \in Seq(S), NEW n \in 0..Len(s)
  PROVE  /\ Drop(s, n) \in Seq(S)
         /\ Len(Drop(s, n)) = Len(s) - n
         /\ \A i \in 1..(Len(s) - n) : Drop(s, n)[i] = s[n + i]
BY DEF Drop

\* The start of a sequence.
LEMMA Prefixed ==
  ASSUME NEW S, NEW s \in Seq(S), NEW n \in 0..Len(s)
  PROVE  /\ Prefix(s, n) \in Seq(S)
         /\ Len(Prefix(s, n)) = n
         /\ \A i \in 1..n : Prefix(s, n)[i] = s[i]
BY DEF Prefix

\* What is taken and what is left make the whole.
LEMMA CutAndJoined ==
  ASSUME NEW S, NEW s \in Seq(S), NEW n \in 0..Len(s)
  PROVE  Prefix(s, n) \o Drop(s, n) = s
<1> DEFINE p == Prefix(s, n)
           d == Drop(s, n)
<1>1. p \in Seq(S) /\ Len(p) = n /\ \A i \in 1..n : p[i] = s[i]
  BY Prefixed, Zenon
<1>2. d \in Seq(S) /\ Len(d) = Len(s) - n /\ \A i \in 1..(Len(s) - n) : d[i] = s[n + i]
  BY Dropped, Zenon
<1> HIDE DEF p, d
<1>3. p \o d \in Seq(S) /\ Len(p \o d) = n + (Len(s) - n) /\ Len(s) \in Nat
  BY <1>1, <1>2, Concat, ElementType, Zenon
<1> DEFINE c == p \o d
<1>7. (\A i \in 1..n : c[i] = p[i]) /\ (\A i \in 1..(Len(s) - n) : c[n + i] = d[i])
  BY <1>1, <1>2, ConcatAt
<1> HIDE DEF c
<1>4. ASSUME NEW i \in 1..Len(c) PROVE c[i] = s[i]
  <2>1. Len(c) = n + (Len(s) - n)
    BY <1>3, Zenon DEF c
  <2>2. CASE i <= n
    <3>1. i \in 1..n
      BY <2>2
    <3> QED
      BY <1>1, <1>7, <3>1, Zenon
  <2>3. CASE ~(i <= n)
    <3>1. i - n \in 1..(Len(s) - n) /\ n + (i - n) = i
      BY <1>3, <2>1, <2>3
    <3> QED
      BY <1>2, <1>7, <3>1, Zenon
  <2> QED
    BY <2>2, <2>3, Zenon
<1>5. Len(p \o d) = Len(s)
  BY <1>3
<1>6. p \o d = s
  BY <1>3, <1>4, <1>5, SameElements, Zenon DEF c
<1> QED
  BY <1>6, Zenon DEF p, d

\* A function on 1..n is a sequence.
LEMMA FrameType ==
  ASSUME NEW m \in Nat, NEW n \in Nat
  PROVE  /\ Frame(m, n) \in Seq(Byte)
         /\ Len(Frame(m, n)) = HeadLen + n
         /\ \A i \in 1..(HeadLen + n) : Frame(m, n)[i] = <<m, i>>
BY Sizes DEF Frame, Byte

\* A piece of a stream, behind its first p bytes.
Piece(s, T, p) == \A i \in 1..Len(s) : s[i] = T[p + i]

\* Bytes that follow others in a stream.
LEMMA Follow ==
  ASSUME NEW s \in Seq(Byte), NEW t \in Seq(Byte), NEW T, NEW p \in Nat,
         Piece(s, T, p), Piece(t, T, p + Len(s))
  PROVE  Piece(s \o t, T, p)
<1> SUFFICES ASSUME NEW i \in 1..Len(s \o t) PROVE (s \o t)[i] = T[p + i]
  BY Zenon DEF Piece
<1>1. Len(s) \in Nat /\ Len(t) \in Nat /\ Len(s \o t) = Len(s) + Len(t)
  OBVIOUS
<1>2. CASE i <= Len(s)
  <2>1. i \in 1..Len(s)
    BY <1>1, <1>2
  <2>2. (s \o t)[i] = s[i]
    BY <2>1, ConcatAt, Zenon
  <2>3. s[i] = T[p + i]
    BY <2>1, Zenon DEF Piece
  <2> QED
    BY <2>2, <2>3, Zenon
<1>3. CASE ~(i <= Len(s))
  <2>1. i - Len(s) \in 1..Len(t) /\ Len(s) + (i - Len(s)) = i /\ p + Len(s) + (i - Len(s)) = p + i
    BY <1>1, <1>3
  <2>2. (s \o t)[Len(s) + (i - Len(s))] = t[i - Len(s)]
    BY <2>1, ConcatAt
  <2>3. t[i - Len(s)] = T[p + Len(s) + (i - Len(s))]
    BY <2>1, Zenon DEF Piece
  <2> QED
    BY <2>1, <2>2, <2>3, Zenon
<1> QED
  BY <1>2, <1>3, Zenon

\* Multiples of a size are apart by the size.
LEMMA Multiples ==
  ASSUME NEW F \in Nat, F > 0, NEW a \in Int, NEW b \in Int, a < b
  PROVE  F * a + F <= F * b
<1>1. F * (b - a - 1) >= 0
  <2>1. b - a - 1 \in Nat
    OBVIOUS
  <2> QED
    BY <2>1
<1>2. F * (b - a - 1) = F * b - F * a - F
  OBVIOUS
<1> QED
  BY <1>1, <1>2

\* Quotient and remainder.
LEMMA QuotientRemainder ==
  ASSUME NEW F \in Nat, F > 0, NEW q \in Nat, NEW r \in 0..(F - 1)
  PROVE  (F * q + r) \div F = q /\ (F * q + r) % F = r
<1> DEFINE x == F * q + r
           d == x \div F
           e == x % F
<1>1. x \in Nat /\ F * q \in Nat
  OBVIOUS
<1> HIDE DEF x
<1>2. d \in Int /\ e \in 0..(F - 1) /\ x = F * d + e
  BY <1>1
<1> HIDE DEF d, e
<1>3. d = q
  <2>1. ~(d < q)
    BY <1>2, Multiples DEF x
  <2>2. ~(q < d)
    BY <1>2, Multiples DEF x
  <2> QED
    BY <1>2, <2>1, <2>2
<1>4. e = r
  BY <1>2, <1>3 DEF x
<1> QED
  BY <1>3, <1>4 DEF d, e, x

\* Each byte belongs to one of the messages.
LEMMA WhichFrame ==
  ASSUME NEW F \in Nat, F > 0, NEW n \in Nat, NEW k \in 1..(F * n)
  PROVE  ((k - 1) \div F) + 1 \in 1..n /\ ((k - 1) % F) + 1 \in 1..F
<1> DEFINE x == k - 1
           d == x \div F
           e == x % F
<1>1. F * n \in Nat
  OBVIOUS
<1>2. x \in Nat /\ x < F * n
  BY <1>1
<1> HIDE DEF x
<1>3. d \in Nat /\ e \in 0..(F - 1) /\ x = F * d + e
  BY <1>2
<1> HIDE DEF d, e
<1>4. d < n
  <2> SUFFICES ASSUME ~(d < n) PROVE FALSE
    BY Zenon
  <2>1. n - 1 < d /\ n - 1 \in Int
    BY <1>3
  <2>2. F * (n - 1) + F <= F * d
    BY <1>3, <2>1, Multiples
  <2>3. F * (n - 1) + F = F * n
    OBVIOUS
  <2>4. F * d \in Nat
    BY <1>3
  <2> QED
    BY <1>1, <1>2, <1>3, <2>2, <2>3, <2>4
<1>5. d + 1 \in 1..n /\ e + 1 \in 1..F
  BY <1>3, <1>4
<1> QED
  BY <1>5, Zenon DEF d, e, x

\* They are bytes.
LEMMA FramesType ==
  ASSUME NEW len \in Nat, NEW r \in Seq(Nat)
  PROVE  LET F == HeadLen + len IN
         /\ Frames(r, len) \in Seq(Byte) /\ Len(Frames(r, len)) = F * Len(r) /\ F * Len(r) \in Nat
         /\ \A k \in 1..(F * Len(r)) :
              Frames(r, len)[k] = <<r[((k - 1) \div F) + 1], ((k - 1) % F) + 1>>
<1> DEFINE F == HeadLen + len
           n == Len(r)
           e(k) == <<r[((k - 1) \div F) + 1], ((k - 1) % F) + 1>>
           N == F * n
           f == [k \in 1..N |-> e(k)]
<1>1. F \in Nat /\ F > 0
  BY Sizes
<1>2. Frames(r, len) = f
  BY Zenon DEF Frames
<1> HIDE DEF F
<1>3. n \in Nat /\ N \in Nat /\ \A i \in 1..n : r[i] \in Nat
  BY <1>1
<1>4. ASSUME NEW k \in 1..N PROVE e(k) \in Byte
  <2>1. ((k - 1) \div F) + 1 \in 1..n /\ ((k - 1) % F) + 1 \in 1..F
    BY <1>1, <1>3, WhichFrame, Zenon
  <2>2. \A i \in 1..F : i \in Nat
    BY <1>1
  <2>3. r[((k - 1) \div F) + 1] \in Nat /\ ((k - 1) % F) + 1 \in Nat
    BY <1>3, <2>1, <2>2, Zenon
  <2>4. \A a, b \in Nat : <<a, b>> \in Byte
    BY DEF Byte
  <2> QED
    BY <2>3, <2>4, Zenon
<1> HIDE DEF e
<1>5. f \in [1..N -> Byte] /\ \A k \in 1..N : f[k] = e(k)
  BY <1>4, Zenon
<1> HIDE DEF N, f
<1>6. f \in Seq(Byte) /\ Len(f) = N
  BY <1>3, <1>5
<1> QED
  BY <1>2, <1>3, <1>5, <1>6, Zenon DEF N, e, F

\* One more message: one more frame at the end.
LEMMA FramesAppend ==
  ASSUME NEW len \in Nat, NEW r \in Seq(Nat), NEW m \in Nat
  PROVE  Frames(Append(r, m), len) = Frames(r, len) \o Frame(m, len)
<1> DEFINE F == HeadLen + len
           n == Len(r)
           a == Append(r, m)
           s == Frames(r, len)
           t == Frame(m, len)
           u == Frames(a, len)
<1>1. F \in Nat /\ F > 0
  BY Sizes
<1>2. n \in Nat /\ a \in Seq(Nat) /\ Len(a) = n + 1 /\ a[n + 1] = m /\ \A i \in 1..n : a[i] = r[i]
  OBVIOUS
<1>3. t \in Seq(Byte) /\ Len(t) = F /\ \A i \in 1..F : t[i] = <<m, i>>
  BY <1>1, FrameType, Zenon
<1> HIDE DEF F, a, t
<1>4. /\ s \in Seq(Byte) /\ Len(s) = F * n /\ F * n \in Nat
      /\ \A k \in 1..(F * n) : s[k] = <<r[((k - 1) \div F) + 1], ((k - 1) % F) + 1>>
  BY FramesType, Zenon DEF F
<1>5. /\ u \in Seq(Byte) /\ Len(u) = F * Len(a)
      /\ \A k \in 1..(F * Len(a)) : u[k] = <<a[((k - 1) \div F) + 1], ((k - 1) % F) + 1>>
  BY <1>2, FramesType, Zenon DEF F
<1> HIDE DEF s, u
<1>6. F * Len(a) = F * n + F
  BY <1>1, <1>2
<1>7. /\ s \o t \in Seq(Byte) /\ Len(s \o t) = Len(s) + Len(t)
      /\ \A i \in 1..Len(s) : (s \o t)[i] = s[i]
      /\ \A i \in 1..Len(t) : (s \o t)[Len(s) + i] = t[i]
  <2>1. s \in Seq(Byte) /\ t \in Seq(Byte)
    BY <1>3, <1>4, Zenon
  <2>2. s \o t \in Seq(Byte) /\ Len(s \o t) = Len(s) + Len(t)
    BY <2>1, Concat, Zenon
  <2>3. \A i \in 1..Len(s) : (s \o t)[i] = s[i]
    BY <2>1
  <2>4. \A i \in 1..Len(t) : (s \o t)[Len(s) + i] = t[i]
    BY <2>1
  <2> QED
    BY <2>2, <2>3, <2>4, Zenon
<1>8. ASSUME NEW k \in 1..Len(u) PROVE u[k] = (s \o t)[k]
  <2>1. k \in 1..(F * n + F)
    BY <1>5, <1>6, Zenon
  <2>2. u[k] = <<a[((k - 1) \div F) + 1], ((k - 1) % F) + 1>>
    BY <1>5, Zenon
  <2>3. CASE k <= F * n
    <3>1. k \in 1..(F * n)
      BY <1>4, <2>1, <2>3
    <3>2. ((k - 1) \div F) + 1 \in 1..n
      BY <1>1, <1>2, <3>1, WhichFrame, Zenon
    <3>3. u[k] = s[k]
      BY <1>2, <1>4, <2>2, <3>1, <3>2, Zenon
    <3>4. (s \o t)[k] = s[k]
      BY <1>4, <1>7, <3>1, Zenon
    <3> QED
      BY <3>3, <3>4, Zenon
  <2>4. CASE ~(k <= F * n)
    <3> DEFINE i == k - F * n
    <3>1. i \in 1..F /\ k = F * n + i /\ i - 1 \in 0..(F - 1) /\ k - 1 = F * n + (i - 1) /\ (i - 1) + 1 = i
      BY <1>1, <1>4, <2>1, <2>4
    <3> HIDE DEF i
    <3>2. (k - 1) \div F = n /\ (k - 1) % F = i - 1
      <4>1. (F * n + (i - 1)) \div F = n /\ (F * n + (i - 1)) % F = i - 1
        BY <1>1, <1>2, <3>1, QuotientRemainder, Zenon
      <4> QED
        BY <3>1, <4>1, Zenon
    <3>3. u[k] = <<m, i>>
      BY <1>2, <2>2, <3>1, <3>2, Zenon
    <3>4. (s \o t)[Len(s) + i] = t[i]
      BY <1>3, <1>7, <3>1, Zenon
    <3> QED
      BY <1>3, <1>4, <3>1, <3>3, <3>4, Zenon
  <2> QED
    BY <2>3, <2>4, Zenon
<1>9. u = s \o t
  <2>1. Len(u) = Len(s \o t)
    BY <1>3, <1>4, <1>5, <1>6, <1>7, Zenon
  <2> QED
    BY <1>5, <1>7, <1>8, <2>1, SameElements, Zenon
<1> QED
  BY <1>9, Zenon DEF F, a, s, t, u

\* A frame starts at each multiple of the size.
LEMMA ByteOfFrame ==
  ASSUME NEW F \in Nat, F > 0, NEW d \in Nat, NEW k \in Nat \ {0}
  PROVE  /\ ((F * d + (k - 1)) \div F) + 1 = d + ((k - 1) \div F) + 1
         /\ (F * d + (k - 1)) % F = (k - 1) % F
<1> DEFINE q == (k - 1) \div F
           e == (k - 1) % F
<1>1. q \in Nat /\ e \in 0..(F - 1) /\ k - 1 = F * q + e
  OBVIOUS
<1> HIDE DEF q, e
<1>2. d + q \in Nat /\ F * d + (k - 1) = F * (d + q) + e
  BY <1>1
<1>3. (F * (d + q) + e) \div F = d + q /\ (F * (d + q) + e) % F = e
  BY <1>1, <1>2, QuotientRemainder, Zenon
<1>4. (F * d + (k - 1)) \div F = d + q /\ (F * d + (k - 1)) % F = e
  BY <1>2, <1>3, Zenon
<1>5. (d + q) + 1 = d + q + 1
  OBVIOUS
<1> QED
  BY <1>4, <1>5, Zenon DEF q, e

\* Behind the first d frames are the frames of the messages that follow.
LEMMA FramesFrom ==
  ASSUME NEW len \in Nat, NEW r \in Seq(Nat), NEW d \in 0..Len(r)
  PROVE  Drop(Frames(r, len), (HeadLen + len) * d) = Frames(Drop(r, d), len)
<1> DEFINE F == HeadLen + len
           n == Len(r)
           a == Drop(r, d)
           s == Frames(r, len)
           t == Drop(s, F * d)
           u == Frames(a, len)
<1>1. F \in Nat /\ F > 0 /\ n \in Nat /\ d \in Nat
  BY Sizes
<1>2. a \in Seq(Nat) /\ Len(a) = n - d /\ \A i \in 1..(n - d) : a[i] = r[d + i]
  BY Dropped, Zenon
<1>3. /\ s \in Seq(Byte) /\ Len(s) = F * n /\ F * n \in Nat
      /\ \A k \in 1..(F * n) : s[k] = <<r[((k - 1) \div F) + 1], ((k - 1) % F) + 1>>
  BY FramesType, Zenon
<1>4. /\ u \in Seq(Byte) /\ Len(u) = F * Len(a) /\ F * Len(a) \in Nat
      /\ \A k \in 1..(F * Len(a)) : u[k] = <<a[((k - 1) \div F) + 1], ((k - 1) % F) + 1>>
  BY <1>2, FramesType, Zenon
<1> HIDE DEF F, a, s, u
<1>5. F * Len(a) = F * n - F * d /\ F * d \in Nat
  BY <1>1, <1>2
<1>6. F * d \in 0..(F * n)
  BY <1>3, <1>4, <1>5
<1>7. /\ t \in Seq(Byte) /\ Len(t) = F * n - F * d
      /\ \A k \in 1..(F * n - F * d) : t[k] = s[F * d + k]
  <2> DEFINE x == F * d
  <2>1. x \in 0..Len(s)
    BY <1>3, <1>6, Zenon
  <2> HIDE DEF x
  <2>2. /\ Drop(s, x) \in Seq(Byte) /\ Len(Drop(s, x)) = Len(s) - x
        /\ \A k \in 1..(Len(s) - x) : Drop(s, x)[k] = s[x + k]
    BY <1>3, <2>1, Dropped, Zenon
  <2> QED
    BY <1>3, <2>2, Zenon DEF x
<1> HIDE DEF t
<1>8. ASSUME NEW k \in 1..Len(t) PROVE t[k] = u[k]
  <2>1. k \in Nat \ {0} /\ F * d + k \in 1..(F * n) /\ k \in 1..(F * n - F * d) /\ k \in 1..(F * Len(a))
    BY <1>3, <1>5, <1>6, <1>7
  <2> DEFINE q == ((k - 1) \div F) + 1
             e == ((k - 1) % F) + 1
  <2>2. q \in 1..Len(a)
    BY <1>1, <1>2, <2>1, WhichFrame, ElementType, Zenon
  <2>3. u[k] = <<r[d + q], e>>
    <3>1. q \in 1..(n - d)
      BY <1>2, <2>2, Zenon
    <3> QED
      BY <1>2, <1>4, <2>1, <3>1, Zenon
  <2>4. t[k] = <<r[((F * d + (k - 1)) \div F) + 1], ((F * d + (k - 1)) % F) + 1>>
    <3>1. t[k] = s[F * d + k]
      BY <1>7, <2>1, Zenon
    <3> DEFINE x == F * d + k
    <3>2. x \in 1..(F * n)
      BY <2>1, Zenon
    <3>4. x - 1 = F * d + (k - 1)
      BY <1>5, <2>1
    <3> HIDE DEF x
    <3>3. s[x] = <<r[((x - 1) \div F) + 1], ((x - 1) % F) + 1>>
      BY <1>3, <3>2, Zenon
    <3> QED
      BY <3>1, <3>3, <3>4, Zenon DEF x
  <2>5. ((F * d + (k - 1)) \div F) + 1 = d + ((k - 1) \div F) + 1 /\ (F * d + (k - 1)) % F = (k - 1) % F
    BY <1>1, <2>1, ByteOfFrame, Zenon
  <2>6. d + ((k - 1) \div F) + 1 = d + q
    <3>1. \A x, y \in Int : x + y + 1 = x + (y + 1)
      OBVIOUS
    <3>2. (k - 1) \div F \in Int /\ d \in Int
      BY <1>1, <2>1
    <3> QED
      BY <3>1, <3>2, Zenon
  <2> QED
    BY <2>3, <2>4, <2>5, <2>6, Zenon
<1>9. Len(t) = Len(u)
  BY <1>4, <1>5, <1>7, Zenon
<1>10. t = u
  BY <1>4, <1>7, <1>8, <1>9, SameElements, Zenon
<1> QED
  BY <1>10, Zenon DEF t, u, s, a, F

\* What is left behind a first part.
LEMMA DropFirst ==
  ASSUME NEW s \in Seq(Byte), NEW t \in Seq(Byte)
  PROVE  Drop(s \o t, Len(s)) = t
<1> DEFINE c == s \o t
           d == Drop(c, Len(s))
<1>1. c \in Seq(Byte) /\ Len(c) = Len(s) + Len(t) /\ \A i \in 1..Len(t) : c[Len(s) + i] = t[i]
  BY Concat, ConcatAt
<1> HIDE DEF c
<1>2. Len(s) \in 0..Len(c) /\ Len(c) - Len(s) = Len(t)
  <2>1. \A a, b \in Nat : a \in 0..(a + b) /\ (a + b) - a = b
    OBVIOUS
  <2>2. Len(s) \in Nat /\ Len(t) \in Nat
    OBVIOUS
  <2> QED
    BY <1>1, <2>1, <2>2, Zenon
<1>3. d \in Seq(Byte) /\ Len(d) = Len(t) /\ \A i \in 1..Len(t) : d[i] = c[Len(s) + i]
  <2>1. /\ d \in Seq(Byte) /\ Len(d) = Len(c) - Len(s)
        /\ \A i \in 1..(Len(c) - Len(s)) : d[i] = c[Len(s) + i]
    BY <1>1, <1>2, Dropped, Zenon
  <2> QED
    BY <1>2, <2>1, Zenon
<1> HIDE DEF d
<1>4. d = t
  BY <1>1, <1>3, SameElements, Zenon
<1> QED
  BY <1>4, Zenon DEF d, c
-----------------------------------------------------------------------------
(* send_message and the start of a connection *)

Parts == [connected : BOOLEAN, obuf : Seq(Byte), mask : SUBSET {"in", "out"},
          wcb : {"none", "delay", "write"}, accepted : Seq(Nat)]

\* The loop reads and writes with this part of the state as ArmInv says.
Armed(r) ==
  /\ "in" \in r.mask => r.connected
  /\ "out" \in r.mask /\ r.wcb = "write" => r.obuf # <<>>

\* Behind s, the output makes up the frames of the accepted requests.
Framed(s, r) == s \o r.obuf = Frames(r.accepted, ReqLen)

\* The parts of a part.
LEMMA PartFields ==
  ASSUME NEW r \in Parts
  PROVE  /\ r.connected \in BOOLEAN /\ r.obuf \in Seq(Byte) /\ r.mask \in SUBSET {"in", "out"}
         /\ r.wcb \in {"none", "delay", "write"} /\ r.accepted \in Seq(Nat)
BY Zenon DEF Parts

\* A frame that is put behind the output belongs to the request that is then
\* accepted.
LEMMA FramedAppend ==
  ASSUME NEW s \in Seq(Byte), NEW b \in Seq(Byte), NEW a \in Seq(Nat), NEW m \in Nat,
         s \o b = Frames(a, ReqLen)
  PROVE  s \o (b \o Frame(m, ReqLen)) = Frames(Append(a, m), ReqLen)
<1>1. ReqLen \in Nat
  BY Sizes
<1>2. Frame(m, ReqLen) \in Seq(Byte)
  BY <1>1, FrameType, Zenon
<1>3. (s \o b) \o Frame(m, ReqLen) = s \o (b \o Frame(m, ReqLen))
  BY <1>2, ConcatTwice, Zenon
<1>4. Frames(Append(a, m), ReqLen) = Frames(a, ReqLen) \o Frame(m, ReqLen)
  BY <1>1, FramesAppend, Zenon
<1> QED
  BY <1>3, <1>4, Zenon

\* There is no empty frame.
LEMMA FrameNotEmpty ==
  ASSUME NEW b \in Seq(Byte), NEW m \in Nat
  PROVE  b \o Frame(m, ReqLen) \in Seq(Byte) /\ b \o Frame(m, ReqLen) # <<>>
<1>1. ReqLen \in Nat /\ HeadLen \in Nat /\ HeadLen > 0
  BY Sizes
<1> DEFINE f == Frame(m, ReqLen)
<1>2. f \in Seq(Byte) /\ Len(f) = HeadLen + ReqLen
  BY <1>1, FrameType, Zenon
<1> HIDE DEF f
<1>3. b \o f \in Seq(Byte) /\ Len(b \o f) = Len(b) + Len(f) /\ Len(b) \in Nat
  BY <1>2, Concat
<1>4. Len(b \o f) > 0
  BY <1>1, <1>2, <1>3
<1>5. b \o f # <<>>
  BY <1>4
<1> QED
  BY <1>3, <1>5, Zenon DEF f

\* send_message drops the request, or appends its frame and asks for EPOLLOUT.
LEMMA SendMessageKeeps ==
  ASSUME NEW r \in Parts, NEW m \in Nat
  PROVE  LET q == SendMessage(r, m) IN
         /\ q \in Parts
         /\ Armed(r) => Armed(q)
         /\ q.connected = r.connected
         /\ \A s \in Seq(Byte) : Framed(s, r) => Framed(s, q)
         /\ r.mask = {} => q.mask \subseteq {"out"} /\ ("out" \in q.mask => q.obuf # <<>>)
<1> DEFINE q == SendMessage(r, m)
<1>1. /\ r.connected \in BOOLEAN /\ r.obuf \in Seq(Byte) /\ r.mask \in SUBSET {"in", "out"}
      /\ r.wcb \in {"none", "delay", "write"} /\ r.accepted \in Seq(Nat)
  BY PartFields, Zenon
<1>2. CASE q = r
  <2>1. r.mask = {} => q.mask \subseteq {"out"} /\ "out" \notin q.mask
    BY <1>2, Zenon
  <2> QED
    BY <1>2, <2>1, Zenon
<1>3. CASE q = [r EXCEPT !.obuf = @ \o Frame(m, ReqLen),
                         !.accepted = Append(@, m),
                         !.mask = IF r.obuf = <<>> THEN @ \cup {"out"} ELSE @,
                         !.wcb = IF r.obuf = <<>> THEN "write" ELSE @]
  <2> DEFINE b == r.obuf \o Frame(m, ReqLen)
             a == Append(r.accepted, m)
             k == IF r.obuf = <<>> THEN r.mask \cup {"out"} ELSE r.mask
             w == IF r.obuf = <<>> THEN "write" ELSE r.wcb
  <2>1. b \in Seq(Byte) /\ b # <<>>
    BY <1>1, FrameNotEmpty, Zenon
  <2>2. a \in Seq(Nat)
    BY <1>1
  <2>3. /\ k \in SUBSET {"in", "out"} /\ w \in {"none", "delay", "write"}
        /\ ("in" \in k => "in" \in r.mask) /\ (r.mask = {} => k \subseteq {"out"})
    BY <1>1
  <2>4. ASSUME NEW s \in Seq(Byte), Framed(s, r) PROVE s \o b = Frames(a, ReqLen)
    BY <1>1, <2>4, FramedAppend, Zenon DEF Framed
  <2>5. q = [connected |-> r.connected, obuf |-> b, mask |-> k, wcb |-> w, accepted |-> a]
    <3>1. q = [r EXCEPT !.obuf = b, !.accepted = a, !.mask = k, !.wcb = w]
      BY <1>3, Zenon
    <3> HIDE DEF q, b, a, k, w
    <3> QED
      BY <3>1, Zenon DEF Parts
  <2> HIDE DEF q, b, a, k, w
  <2>6. q \in Parts /\ q.connected = r.connected /\ q.obuf = b /\ q.mask = k /\ q.wcb = w /\ q.accepted = a
    BY <1>1, <2>1, <2>2, <2>3, <2>5 DEF Parts
  <2>7. Armed(r) => Armed(q)
    BY <2>1, <2>3, <2>6, Zenon DEF Armed
  <2>8. \A s \in Seq(Byte) : Framed(s, r) => Framed(s, q)
    BY <2>4, <2>6, Zenon DEF Framed
  <2> QED
    BY <2>1, <2>3, <2>6, <2>7, <2>8, Zenon DEF q
<1>4. q = r \/ q = [r EXCEPT !.obuf = @ \o Frame(m, ReqLen),
                             !.accepted = Append(@, m),
                             !.mask = IF r.obuf = <<>> THEN @ \cup {"out"} ELSE @,
                             !.wcb = IF r.obuf = <<>> THEN "write" ELSE @]
  BY Zenon DEF SendMessage
<1> QED
  BY <1>2, <1>3, <1>4, Zenon

\* The start of a connection: with no events set before, the loop reads from
\* now on, and writes if there is output.
LEMMA EstablishedKeeps ==
  ASSUME NEW r \in Parts, r.mask = {}, asked \in Nat
  PROVE  LET q == Established(r) IN
         /\ q \in Parts
         /\ Armed(q)
         /\ \A s \in Seq(Byte) : Framed(s, r) => Framed(s, q)
         /\ AskedAfterStart \in Nat
<1> DEFINE u == [r EXCEPT !.connected = TRUE]
           t == IF OnStart /\ asked < MaxReqs THEN SendMessage(u, asked + 1) ELSE u
           q == Established(r)
<1>1. /\ u \in Parts /\ u.connected = TRUE /\ u.mask = {}
      /\ u.obuf = r.obuf /\ u.accepted = r.accepted
  BY Zenon DEF Parts
<1>2. asked + 1 \in Nat /\ AskedAfterStart \in Nat
  BY DEF AskedAfterStart
<1>3. \A s \in Seq(Byte) : Framed(s, r) => Framed(s, u)
  BY <1>1, Zenon DEF Framed
<1> HIDE DEF u
<1>4. /\ t \in Parts /\ t.connected = TRUE
      /\ t.mask \subseteq {"out"} /\ ("out" \in t.mask => t.obuf # <<>>)
      /\ \A s \in Seq(Byte) : Framed(s, u) => Framed(s, t)
  <2>1. CASE t = u
    <3>1. t.mask \subseteq {"out"} /\ "out" \notin t.mask
      BY <1>1, <2>1, Zenon
    <3> QED
      BY <1>1, <2>1, <3>1, Zenon
  <2>2. CASE t = SendMessage(u, asked + 1)
    <3> HIDE DEF t
    <3> QED
      BY <1>1, <1>2, <2>2, SendMessageKeeps, Zenon
  <2> QED
    BY <2>1, <2>2, Zenon
<1> DEFINE k == t.mask \cup {"in"} \cup (IF t.obuf # <<>> THEN {"out"} ELSE {})
           w == IF t.obuf # <<>> THEN "write" ELSE t.wcb
<1>5. q = [t EXCEPT !.mask = k, !.wcb = w]
  BY Zenon DEF Established, u
<1> HIDE DEF t
<1>6. /\ t.obuf \in Seq(Byte) /\ t.wcb \in {"none", "delay", "write"} /\ t.accepted \in Seq(Nat)
  BY <1>4, PartFields, Zenon
<1>7. k \in SUBSET {"in", "out"} /\ w \in {"none", "delay", "write"} /\ ("out" \in k => t.obuf # <<>>)
  BY <1>4, <1>6
<1> HIDE DEF k, w, q
<1>8. q \in Parts /\ q.connected = TRUE /\ q.obuf = t.obuf /\ q.mask = k /\ q.accepted = t.accepted
  BY <1>4, <1>5, <1>7, Zenon DEF Parts
<1>9. Armed(q)
  BY <1>7, <1>8, Zenon DEF Armed
<1>10. \A s \in Seq(Byte) : Framed(s, r) => Framed(s, q)
  <2>1. \A s \in Seq(Byte) : Framed(s, t) => Framed(s, q)
    BY <1>8, Zenon DEF Framed
  <2> QED
    BY <1>3, <1>4, <2>1, Zenon
<1> QED
  BY <1>2, <1>8, <1>9, <1>10, Zenon DEF q

-----------------------------------------------------------------------------
(* The parts of the invariant *)

\* The conjuncts of the invariant.
LEMMA InvParts ==
  ASSUME Inv
  PROVE  /\ TypeOK /\ InputInv /\ ArmInv /\ RepliesWhole
         /\ (~torn => sent \o obuf = Frames(accepted, ReqLen)) /\ pc # "aborted"
BY Zenon DEF Inv, RequestsWhole

\* The types of the variables.
LEMMA Types ==
  ASSUME Inv
  PROVE  /\ queue \in Seq(Nat) /\ batch \in Seq(Nat) /\ accepted \in Seq(Nat) /\ asked \in Nat
         /\ sock \in {"syn", "est", "refused", "shut"}
         /\ connected \in BOOLEAN /\ cut \in BOOLEAN /\ torn \in BOOLEAN
         /\ mask \in SUBSET {"in", "out"} /\ wcb \in {"none", "delay", "write"}
         /\ pc \in {"poll", "drain", "parse", "write", "aborted", "garbled", "exited"}
         /\ ibuf \in Seq(Byte) /\ obuf \in Seq(Byte) /\ inb \in Seq(Byte) /\ coming \in Seq(Byte)
         /\ sent \in Seq(Byte) /\ calls \in Seq(Seq(Byte))
         /\ room \in 0..SndBuf /\ closes \in Nat /\ reps \in Nat
BY Zenon DEF Inv, TypeOK

\* The types, and with them TypeOK, after a step.
LEMMA TypesNext ==
  ASSUME queue' \in Seq(Nat), batch' \in Seq(Nat), accepted' \in Seq(Nat), asked' \in Nat,
         sock' \in {"syn", "est", "refused", "shut"},
         connected' \in BOOLEAN, cut' \in BOOLEAN, torn' \in BOOLEAN,
         mask' \in SUBSET {"in", "out"}, wcb' \in {"none", "delay", "write"},
         pc' \in {"poll", "drain", "parse", "write", "aborted", "garbled", "exited"},
         ibuf' \in Seq(Byte), obuf' \in Seq(Byte), inb' \in Seq(Byte), coming' \in Seq(Byte),
         sent' \in Seq(Byte), calls' \in Seq(Seq(Byte)),
         room' \in 0..SndBuf, closes' \in Nat, reps' \in Nat
  PROVE  TypeOK'
BY Zenon DEF TypeOK

\* This part of the state is typed and armed.
LEMMA PartIs ==
  ASSUME Inv
  PROVE  /\ Part \in Parts /\ Part.connected = connected /\ Part.obuf = obuf /\ Part.mask = mask
         /\ Part.wcb = wcb /\ Part.accepted = accepted
BY Types DEF Part, Parts

\* A step that leaves the input side alone, but may end the connection.
LEMMA RepliesKept ==
  ASSUME RepliesWhole, ibuf' = ibuf, inb' = inb, coming' = coming, reps' = reps, calls' = calls,
         cut' = cut, sock' \in {"syn", "est"} => sock \in {"syn", "est"}
  PROVE  RepliesWhole'
BY Zenon DEF RepliesWhole, Unread

\* A step that leaves the loop's events and its output alone.
LEMMA OutputKept ==
  ASSUME Inv, connected' = connected, mask' = mask, wcb' = wcb, obuf' = obuf,
         sent' = sent, accepted' = accepted, torn' = torn,
         pc' \in {"poll", "drain", "parse"} => pc \in {"poll", "drain", "parse"},
         pc' # "aborted"
  PROVE  ArmInv' /\ RequestsWhole'
<1>1. ArmInv'
  BY InvParts, Zenon DEF ArmInv
<1>2. RequestsWhole'
  BY InvParts, Zenon DEF RequestsWhole
<1> QED
  BY <1>1, <1>2, Zenon

\* A step that leaves the input where it is.
LEMMA InputKept ==
  ASSUME Inv, inb' = inb, ibuf' = ibuf,
         pc' \in {"poll", "drain", "write"} => pc \in {"poll", "drain", "write"}
  PROVE  InputInv'
BY InvParts, Zenon DEF InputInv
-----------------------------------------------------------------------------
(* The replies *)

RepSize == HeadLen + RepLen

\* The replies of the server, byte by byte.
LEMMA RepliesType ==
  ASSUME NEW n \in Nat
  PROVE  /\ Replies(n) \in Seq(Byte) /\ Len(Replies(n)) = RepSize * n /\ RepSize * n \in Nat
         /\ \A k \in 1..(RepSize * n) :
              Replies(n)[k] = <<((k - 1) \div RepSize) + 1, ((k - 1) % RepSize) + 1>>
<1> DEFINE r == [k \in 1..n |-> k]
<1>1. r \in Seq(Nat) /\ Len(r) = n /\ \A k \in 1..n : r[k] = k
  OBVIOUS
<1>2. Replies(n) = Frames(r, RepLen)
  BY Zenon DEF Replies
<1> HIDE DEF r
<1>3. /\ Replies(n) \in Seq(Byte) /\ Len(Replies(n)) = RepSize * n /\ RepSize * n \in Nat
      /\ \A k \in 1..(RepSize * n) :
           Replies(n)[k] = <<r[((k - 1) \div RepSize) + 1], ((k - 1) % RepSize) + 1>>
  BY <1>1, <1>2, Sizes, FramesType, Zenon DEF RepSize
<1>4. RepSize \in Nat /\ RepSize > 0
  BY Sizes DEF RepSize
<1>5. ASSUME NEW k \in 1..(RepSize * n)
      PROVE  r[((k - 1) \div RepSize) + 1] = ((k - 1) \div RepSize) + 1
  BY <1>1, <1>4, WhichFrame, Zenon
<1> QED
  BY <1>3, <1>5, Zenon

\* The bytes of reply c + 1.
LEMMA ReplyBytes ==
  ASSUME NEW n \in Nat, NEW c \in Nat, NEW i \in 1..RepSize, c < n
  PROVE  RepSize * c + i \in 1..(RepSize * n) /\ Replies(n)[RepSize * c + i] = <<c + 1, i>>
<1> DEFINE F == RepSize
<1>1. F \in Nat /\ F > 0 /\ F * c \in Nat
  BY Sizes DEF RepSize
<1>2. F * c + F <= F * n /\ F * n \in Nat
  BY <1>1, Multiples
<1>3. F * c + i \in 1..(F * n) /\ i - 1 \in 0..(F - 1) /\ (F * c + i) - 1 = F * c + (i - 1) /\ (i - 1) + 1 = i
  BY <1>1, <1>2
<1> HIDE DEF F
<1>4. (F * c + (i - 1)) \div F = c /\ (F * c + (i - 1)) % F = i - 1
  BY <1>1, <1>3, QuotientRemainder, Zenon
<1> DEFINE k == F * c + i
<1>5. k \in 1..(F * n) /\ (k - 1) \div F = c /\ (k - 1) % F = i - 1
  BY <1>3, <1>4, Zenon
<1> HIDE DEF k
<1>6. Replies(n)[k] = <<((k - 1) \div F) + 1, ((k - 1) % F) + 1>>
  BY <1>5, RepliesType, Zenon DEF F
<1> QED
  BY <1>3, <1>5, <1>6, Zenon DEF k, F

\* A reply is added behind those that are there.
LEMMA RepliesGrow ==
  ASSUME NEW n \in Nat
  PROVE  /\ Len(Replies(n + 1)) = Len(Replies(n)) + RepSize
         /\ \A k \in 1..Len(Replies(n)) : Replies(n + 1)[k] = Replies(n)[k]
         /\ \A i \in 1..RepSize : Replies(n + 1)[Len(Replies(n)) + i] = <<n + 1, i>>
<1> DEFINE m == n + 1
<1>1. m \in Nat /\ n < m
  OBVIOUS
<1>2. RepSize * m = RepSize * n + RepSize /\ RepSize \in Nat /\ RepSize * n \in Nat
  BY Sizes DEF RepSize
<1>3. \A k \in 1..(RepSize * n) : k \in 1..(RepSize * m)
  BY <1>2
<1> HIDE DEF m
<1>4. Len(Replies(m)) = RepSize * m /\ Len(Replies(n)) = RepSize * n
  BY <1>1, RepliesType, Zenon
<1>5. \A k \in 1..(RepSize * n) : Replies(m)[k] = Replies(n)[k]
  BY <1>1, <1>3, RepliesType, Zenon
<1>6. \A i \in 1..RepSize : Replies(m)[RepSize * n + i] = <<n + 1, i>>
  BY <1>1, ReplyBytes, Zenon
<1> QED
  BY <1>2, <1>4, <1>5, <1>6, Zenon DEF m

\* Bytes of the stream are the same in the longer stream.
LEMMA StillThere ==
  ASSUME NEW n \in Nat, NEW s \in Seq(Byte), NEW p \in Nat, p + Len(s) <= Len(Replies(n)),
         \A i \in 1..Len(s) : s[i] = Replies(n)[p + i]
  PROVE  \A i \in 1..Len(s) : s[i] = Replies(n + 1)[p + i]
<1> SUFFICES ASSUME NEW i \in 1..Len(s) PROVE s[i] = Replies(n + 1)[p + i]
  BY Zenon
<1> DEFINE L == Len(Replies(n))
<1>1. L \in Nat /\ \A k \in 1..L : Replies(n + 1)[k] = Replies(n)[k]
  BY RepliesType, RepliesGrow, Zenon
<1>2. Len(s) \in Nat /\ p + Len(s) <= L
  OBVIOUS
<1> HIDE DEF L
<1>3. p + i \in 1..L
  BY <1>1, <1>2
<1> QED
  BY <1>1, <1>3, Zenon

\* Lengths are numbers.
LEMMA Lengths ==
  ASSUME Inv
  PROVE  /\ Len(ibuf) \in Nat /\ Len(inb) \in Nat /\ Len(coming) \in Nat /\ Len(calls) \in Nat
         /\ RepSize * Len(calls) \in Nat /\ RepSize = HeadLen + RepLen /\ RepSize \in Nat /\ RepSize > 0
         /\ Len(Replies(reps)) = RepSize * reps /\ Len(Replies(reps)) \in Nat
<1>1. Len(ibuf) \in Nat /\ Len(inb) \in Nat /\ Len(coming) \in Nat /\ Len(calls) \in Nat
  BY Types, ElementType, Zenon
<1>2. RepSize = HeadLen + RepLen /\ RepSize \in Nat /\ RepSize > 0
  BY Sizes DEF RepSize
<1>3. RepSize * Len(calls) \in Nat
  BY <1>1, <1>2
<1>4. Len(Replies(reps)) = RepSize * reps /\ Len(Replies(reps)) \in Nat
  BY Types, RepliesType, Zenon
<1> QED
  BY <1>1, <1>2, <1>3, <1>4, Zenon

-----------------------------------------------------------------------------
(* The environment *)

\* Another thread queues a request.
LEMMA EnqueueStep ==
  ASSUME Inv, Enqueue
  PROVE  Inv'
<1>1. /\ asked' = asked + 1 /\ queue' = Append(queue, asked + 1)
      /\ batch' = batch /\ connected' = connected /\ mask' = mask /\ wcb' = wcb /\ ibuf' = ibuf
      /\ obuf' = obuf /\ pc' = pc /\ sock' = sock /\ inb' = inb /\ coming' = coming /\ room' = room
      /\ closes' = closes /\ reps' = reps /\ calls' = calls /\ sent' = sent /\ accepted' = accepted
      /\ cut' = cut /\ torn' = torn
  BY Zenon DEF Enqueue, loopVars, netVars, histVars
<1>2. asked' \in Nat /\ queue' \in Seq(Nat)
  <2>1. asked \in Nat /\ queue \in Seq(Nat)
    BY Types, Zenon
  <2>2. \A a \in Nat, q \in Seq(Nat) : a + 1 \in Nat /\ Append(q, a + 1) \in Seq(Nat)
    OBVIOUS
  <2> QED
    BY <1>1, <2>1, <2>2, Zenon
<1>3. TypeOK'
  BY <1>1, <1>2, Types, TypesNext, ZenonT(60)
<1>4. InputInv'
  BY <1>1, InputKept, Zenon
<1>5. RepliesWhole'
  BY <1>1, InvParts, RepliesKept, Zenon
<1>6. ArmInv' /\ RequestsWhole'
  BY <1>1, InvParts, OutputKept, Zenon
<1> QED
  BY <1>3, <1>4, <1>5, <1>6, Zenon DEF Inv

\* The server accepts the connection or refuses it.
LEMMA AnswerStep ==
  ASSUME Inv, NEW how \in {"est", "refused"}, Answer(how)
  PROVE  Inv'
<1>1. /\ sock = "syn" /\ sock' = how
      /\ asked' = asked /\ queue' = queue
      /\ batch' = batch /\ connected' = connected /\ mask' = mask /\ wcb' = wcb /\ ibuf' = ibuf
      /\ obuf' = obuf /\ pc' = pc /\ inb' = inb /\ coming' = coming /\ room' = room
      /\ closes' = closes /\ reps' = reps /\ calls' = calls /\ sent' = sent /\ accepted' = accepted
      /\ cut' = cut /\ torn' = torn
  BY Zenon DEF Answer, loopVars, histVars
<1>2. sock' \in {"syn", "est", "refused", "shut"} /\ sock \in {"syn", "est"}
  BY <1>1, Zenon
<1>3. TypeOK'
  BY <1>1, <1>2, Types, TypesNext, ZenonT(60)
<1>4. InputInv'
  BY <1>1, InputKept, Zenon
<1>5. RepliesWhole'
  BY <1>1, <1>2, InvParts, RepliesKept, Zenon
<1>6. ArmInv' /\ RequestsWhole'
  BY <1>1, InvParts, OutputKept, Zenon
<1> QED
  BY <1>3, <1>4, <1>5, <1>6, Zenon DEF Inv

\* The server sends a reply: it follows all the others.
LEMMA ServerRepliesStep ==
  ASSUME Inv, ServerReplies
  PROVE  Inv'
<1> DEFINE f == Frame(reps + 1, RepLen)
<1>1. /\ sock = "est" /\ reps' = reps + 1 /\ coming' = coming \o f
      /\ asked' = asked /\ queue' = queue /\ sock' = sock
      /\ batch' = batch /\ connected' = connected /\ mask' = mask /\ wcb' = wcb /\ ibuf' = ibuf
      /\ obuf' = obuf /\ pc' = pc /\ inb' = inb /\ room' = room
      /\ closes' = closes /\ calls' = calls /\ sent' = sent /\ accepted' = accepted
      /\ cut' = cut /\ torn' = torn
  BY Zenon DEF ServerReplies, loopVars, histVars
<1>2. reps \in Nat /\ reps' \in Nat /\ ibuf \in Seq(Byte) /\ inb \in Seq(Byte) /\ coming \in Seq(Byte)
  <2>1. \A r \in Nat : r + 1 \in Nat
    OBVIOUS
  <2> QED
    BY <1>1, <2>1, Types, Zenon
<1>3. f \in Seq(Byte) /\ Len(f) = RepSize /\ \A i \in 1..RepSize : f[i] = <<reps + 1, i>>
  BY <1>1, <1>2, Sizes, FrameType, Zenon DEF RepSize
<1> HIDE DEF f
<1>4. coming' \in Seq(Byte) /\ Len(coming') = Len(coming) + RepSize
  <2>1. coming \o f \in Seq(Byte) /\ Len(coming \o f) = Len(coming) + Len(f)
    BY <1>2, <1>3, Concat, Zenon
  <2> QED
    BY <1>1, <1>3, <2>1, Zenon
<1>5. TypeOK'
  BY <1>1, <1>2, <1>4, Types, TypesNext, ZenonT(60)
<1>6. InputInv'
  BY <1>1, InputKept, Zenon
<1>7. ArmInv' /\ RequestsWhole'
  BY <1>1, InvParts, OutputKept, Zenon
<1>8. RepliesWhole'
  <2> SUFFICES ASSUME ~cut'
               PROVE  /\ \A k \in 1..Len(calls') : calls'[k] = Drop(Frame(k, RepLen), HeadLen)
                      /\ Unread((HeadLen + RepLen) * Len(calls))'
    BY Zenon DEF RepliesWhole
  <2> DEFINE p == (HeadLen + RepLen) * Len(calls)
             a == p + Len(ibuf)
             b == a + Len(inb)
             L == Len(Replies(reps))
             M == Len(Replies(reps'))
  <2>1. /\ \A k \in 1..Len(calls) : calls[k] = Drop(Frame(k, RepLen), HeadLen)
        /\ b + Len(coming) <= L /\ b + Len(coming) = L
        /\ \A i \in 1..Len(ibuf) : ibuf[i] = Replies(reps)[p + i]
        /\ \A i \in 1..Len(inb) : inb[i] = Replies(reps)[a + i]
        /\ \A i \in 1..Len(coming) : coming[i] = Replies(reps)[b + i]
    BY <1>1, InvParts, Zenon DEF RepliesWhole, Unread
  <2>2. p \in Nat /\ Len(ibuf) \in Nat /\ Len(inb) \in Nat /\ Len(coming) \in Nat /\ L \in Nat /\ RepSize \in Nat
    BY Lengths, Zenon
  <2>3. /\ M = L + RepSize
        /\ \A i \in 1..RepSize : Replies(reps')[L + i] = <<reps + 1, i>>
    BY <1>1, <1>2, RepliesGrow, Zenon
  <2> HIDE DEF p, L, M
  <2>4. a \in Nat /\ b \in Nat /\ p + Len(ibuf) <= L /\ a + Len(inb) <= L
    BY <2>1, <2>2
  <2> HIDE DEF a, b
  <2>5. \A i \in 1..Len(ibuf) : ibuf[i] = Replies(reps')[p + i]
    <3>1. /\ p \in Nat /\ p + Len(ibuf) <= Len(Replies(reps))
          /\ \A i \in 1..Len(ibuf) : ibuf[i] = Replies(reps)[p + i]
      BY <2>1, <2>2, <2>4, Zenon DEF L
    <3>2. \A i \in 1..Len(ibuf) : ibuf[i] = Replies(reps + 1)[p + i]
      BY <1>2, <3>1, StillThere, Zenon
    <3> QED
      BY <1>1, <3>2, Zenon
  <2>6. \A i \in 1..Len(inb) : inb[i] = Replies(reps')[a + i]
    <3>1. /\ a \in Nat /\ a + Len(inb) <= Len(Replies(reps))
          /\ \A i \in 1..Len(inb) : inb[i] = Replies(reps)[a + i]
      BY <2>1, <2>4, Zenon DEF L
    <3>2. \A i \in 1..Len(inb) : inb[i] = Replies(reps + 1)[a + i]
      BY <1>2, <3>1, StillThere, Zenon
    <3> QED
      BY <1>1, <3>2, Zenon
  <2>7. \A i \in 1..Len(coming) : coming[i] = Replies(reps')[b + i]
    <3>1. /\ b \in Nat /\ b + Len(coming) <= Len(Replies(reps))
          /\ \A i \in 1..Len(coming) : coming[i] = Replies(reps)[b + i]
      BY <2>1, <2>4, Zenon DEF L
    <3>2. \A i \in 1..Len(coming) : coming[i] = Replies(reps + 1)[b + i]
      BY <1>2, <3>1, StillThere, Zenon
    <3> QED
      BY <1>1, <3>2, Zenon
  <2>8. \A i \in 1..Len(f) : f[i] = Replies(reps')[b + Len(coming) + i]
    BY <1>3, <2>1, <2>3, Zenon
  <2>9. \A i \in 1..Len(coming') : coming'[i] = Replies(reps')[b + i]
    <3> DEFINE T == Replies(reps')
    <3>1. b \in Nat /\ coming \in Seq(Byte) /\ Piece(coming, T, b)
      BY <1>2, <2>4, <2>7, Zenon DEF Piece
    <3>2. f \in Seq(Byte) /\ Piece(f, T, b + Len(coming))
      BY <1>3, <2>8, Zenon DEF Piece
    <3> HIDE DEF T
    <3>3. Piece(coming \o f, T, b)
      BY <3>1, <3>2, Follow, Zenon
    <3> QED
      BY <1>1, <3>3, Zenon DEF T, Piece
  <2>10. b + Len(coming') = M
    <3>1. b \in Nat /\ Len(coming) \in Nat /\ RepSize \in Nat
      BY <2>2, <2>4, Zenon
    <3>3. b + (Len(coming) + RepSize) = (b + Len(coming)) + RepSize
      BY <3>1
    <3>4. b + Len(coming) = L
      BY <2>1, Zenon
    <3>2. b + (Len(coming) + RepSize) = L + RepSize
      BY <3>3, <3>4, Zenon
    <3> QED
      BY <1>4, <2>3, <3>2, Zenon
  <2>11. b + Len(coming') <= M
    BY <2>2, <2>3, <2>10
  <2> QED
    BY <1>1, <2>1, <2>5, <2>6, <2>9, <2>10, <2>11, Zenon DEF Unread, p, a, b, M
<1> QED
  BY <1>5, <1>6, <1>7, <1>8, Zenon DEF Inv

\* The first bytes under way reach the socket.
LEMMA ArriveStep ==
  ASSUME Inv, NEW n \in 1..RcvBuf, Arrive(n)
  PROVE  Inv'
<1> DEFINE f == Prefix(coming, n)
           g == Drop(coming, n)
<1>1. /\ n <= Len(coming) /\ Len(inb) + n <= RcvBuf /\ inb' = inb \o f /\ coming' = g
      /\ asked' = asked /\ queue' = queue /\ sock' = sock /\ reps' = reps
      /\ batch' = batch /\ connected' = connected /\ mask' = mask /\ wcb' = wcb /\ ibuf' = ibuf
      /\ obuf' = obuf /\ pc' = pc /\ room' = room
      /\ closes' = closes /\ calls' = calls /\ sent' = sent /\ accepted' = accepted
      /\ cut' = cut /\ torn' = torn
  BY Zenon DEF Arrive, loopVars, histVars
<1>2. inb \in Seq(Byte) /\ coming \in Seq(Byte) /\ Len(inb) \in Nat /\ Len(coming) \in Nat /\ n \in Nat
  <2>1. inb \in Seq(Byte) /\ coming \in Seq(Byte)
    BY Types, Zenon
  <2>2. Len(inb) \in Nat /\ Len(coming) \in Nat
    BY <2>1
  <2>3. n \in Nat
    BY Sizes
  <2> QED
    BY <2>1, <2>2, <2>3, Zenon
<1>3. n \in 0..Len(coming) /\ n <= Len(coming)
  BY <1>1, <1>2
<1>4. f \in Seq(Byte) /\ Len(f) = n /\ \A i \in 1..n : f[i] = coming[i]
  BY <1>2, <1>3, Prefixed, Zenon
<1>5. g \in Seq(Byte) /\ Len(g) = Len(coming) - n /\ \A i \in 1..(Len(coming) - n) : g[i] = coming[n + i]
  BY <1>2, <1>3, Dropped, Zenon
<1> HIDE DEF f, g
<1>6. inb' \in Seq(Byte) /\ Len(inb') = Len(inb) + n
  <2>1. inb \o f \in Seq(Byte) /\ Len(inb \o f) = Len(inb) + Len(f)
    BY <1>2, <1>4, Concat, Zenon
  <2> QED
    BY <1>1, <1>4, <2>1, Zenon
<1>7. TypeOK'
  BY <1>1, <1>5, <1>6, Types, TypesNext, ZenonT(60)
<1>8. InputInv'
  BY <1>1, <1>6, InvParts, Zenon DEF InputInv
<1>9. ArmInv' /\ RequestsWhole'
  BY <1>1, InvParts, OutputKept, Zenon
<1>10. RepliesWhole'
  <2> SUFFICES ASSUME ~cut'
               PROVE  /\ \A k \in 1..Len(calls') : calls'[k] = Drop(Frame(k, RepLen), HeadLen)
                      /\ Unread((HeadLen + RepLen) * Len(calls))'
    BY Zenon DEF RepliesWhole
  <2> DEFINE p == (HeadLen + RepLen) * Len(calls)
             a == p + Len(ibuf)
             b == a + Len(inb)
             b2 == a + Len(inb')
             T == Replies(reps)
             L == Len(T)
  <2>1. /\ \A k \in 1..Len(calls) : calls[k] = Drop(Frame(k, RepLen), HeadLen)
        /\ b + Len(coming) <= L /\ (sock \in {"syn", "est"} => b + Len(coming) = L)
        /\ \A i \in 1..Len(ibuf) : ibuf[i] = T[p + i]
    BY <1>1, InvParts, Zenon DEF RepliesWhole, Unread
  <2>2. \A i \in 1..Len(inb) : inb[i] = T[a + i]
    BY <1>1, InvParts, Zenon DEF RepliesWhole, Unread
  <2>3. \A i \in 1..Len(coming) : coming[i] = T[b + i]
    BY <1>1, InvParts, Zenon DEF RepliesWhole, Unread
  <2>4. p \in Nat /\ Len(ibuf) \in Nat
    BY Lengths, Zenon
  <2> HIDE DEF p, L, T
  <2>5. a \in Nat
    BY <2>4
  <2> HIDE DEF a
  <2>6. b \in Nat /\ b2 = b + n /\ b2 + Len(coming') = b + Len(coming)
    <3>1. a + (Len(inb) + n) = b + n /\ b \in Nat
      BY <1>2, <2>5
    <3>2. b2 = b + n
      BY <1>6, <3>1, Zenon
    <3> HIDE DEF b, b2
    <3>3. (b + n) + (Len(coming) - n) = b + Len(coming)
      BY <1>2, <3>1
    <3> QED
      BY <1>1, <1>5, <3>1, <3>2, <3>3, Zenon
  <2>7. \A i \in 1..n : f[i] = T[b + i]
    <3>1. \A i \in 1..n : i \in 1..Len(coming)
      BY <1>2, <1>3
    <3> QED
      BY <1>4, <2>3, <3>1, Zenon
  <2>8. \A i \in 1..Len(inb') : inb'[i] = T[a + i]
    <3>1. f \in Seq(Byte) /\ Piece(f, T, a + Len(inb))
      BY <1>4, <2>7, Zenon DEF b, Piece
    <3>2. inb \in Seq(Byte) /\ a \in Nat /\ Piece(inb, T, a)
      BY <1>2, <2>2, <2>5, Zenon DEF Piece
    <3>3. Piece(inb \o f, T, a)
      BY <3>1, <3>2, Follow, Zenon
    <3> QED
      BY <1>1, <3>3, Zenon DEF Piece
  <2> HIDE DEF b, b2
  <2>9. \A i \in 1..Len(coming') : coming'[i] = T[b2 + i]
    <3> SUFFICES ASSUME NEW i \in 1..(Len(coming) - n) PROVE g[i] = T[(b + n) + i]
      BY <1>1, <1>5, <2>6, Zenon
    <3>1. n + i \in 1..Len(coming) /\ b + (n + i) = (b + n) + i
      BY <1>2, <1>3, <2>6
    <3>2. g[i] = coming[n + i]
      BY <1>5, Zenon
    <3> QED
      BY <2>3, <3>1, <3>2, Zenon
  <2>10. b2 + Len(coming') <= L /\ (sock' \in {"syn", "est"} => b2 + Len(coming') = L)
    BY <1>1, <2>1, <2>6, Zenon
  <2> QED
    BY <1>1, <2>1, <2>8, <2>9, <2>10, Zenon DEF Unread, p, a, b2, L, T
<1> QED
  BY <1>7, <1>8, <1>9, <1>10, Zenon DEF Inv

\* The server reads: there is room in the send buffer.
LEMMA ServerReadsStep ==
  ASSUME Inv, ServerReads
  PROVE  Inv'
<1>1. /\ room' = SndBuf
      /\ asked' = asked /\ queue' = queue /\ sock' = sock /\ reps' = reps /\ coming' = coming
      /\ batch' = batch /\ connected' = connected /\ mask' = mask /\ wcb' = wcb /\ ibuf' = ibuf
      /\ obuf' = obuf /\ pc' = pc /\ inb' = inb
      /\ closes' = closes /\ calls' = calls /\ sent' = sent /\ accepted' = accepted
      /\ cut' = cut /\ torn' = torn
  BY Zenon DEF ServerReads, loopVars, histVars
<1>2. room' \in 0..SndBuf
  BY <1>1, Sizes
<1>3. TypeOK'
  BY <1>1, <1>2, Types, TypesNext, ZenonT(60)
<1>4. InputInv'
  BY <1>1, InputKept, Zenon
<1>5. RepliesWhole'
  BY <1>1, InvParts, RepliesKept, Zenon
<1>6. ArmInv' /\ RequestsWhole'
  BY <1>1, InvParts, OutputKept, Zenon
<1> QED
  BY <1>3, <1>4, <1>5, <1>6, Zenon DEF Inv

\* The server closes: what has not arrived is lost.
LEMMA ServerClosesStep ==
  ASSUME Inv, ServerCloses
  PROVE  Inv'
<1>1. /\ closes' = closes + 1 /\ sock' = "shut" /\ coming' = <<>>
      /\ asked' = asked /\ queue' = queue /\ reps' = reps
      /\ batch' = batch /\ connected' = connected /\ mask' = mask /\ wcb' = wcb /\ ibuf' = ibuf
      /\ obuf' = obuf /\ pc' = pc /\ inb' = inb /\ room' = room
      /\ calls' = calls /\ sent' = sent /\ accepted' = accepted
      /\ cut' = cut /\ torn' = torn
  BY Zenon DEF ServerCloses, loopVars, histVars
<1>2. /\ closes' \in Nat /\ sock' \in {"syn", "est", "refused", "shut"} /\ sock' \notin {"syn", "est"}
      /\ coming' \in Seq(Byte) /\ Len(coming') = 0 /\ 1..Len(coming') = {}
  <2>1. /\ \A c \in Nat : c + 1 \in Nat
        /\ <<>> \in Seq(Byte) /\ Len(<<>>) = 0 /\ 1..Len(<<>>) = {}
    OBVIOUS
  <2>2. closes \in Nat
    BY Types, Zenon
  <2> QED
    BY <1>1, <2>1, <2>2, Zenon
<1>3. TypeOK'
  BY <1>1, <1>2, Types, TypesNext, ZenonT(60)
<1>4. InputInv'
  BY <1>1, InputKept, Zenon
<1>5. RepliesWhole'
  <2> SUFFICES ASSUME ~cut'
               PROVE  /\ \A k \in 1..Len(calls') : calls'[k] = Drop(Frame(k, RepLen), HeadLen)
                      /\ Unread((HeadLen + RepLen) * Len(calls))'
    BY Zenon DEF RepliesWhole
  <2> DEFINE p == (HeadLen + RepLen) * Len(calls)
             b == p + Len(ibuf) + Len(inb)
             T == Replies(reps)
  <2>1. /\ \A k \in 1..Len(calls) : calls[k] = Drop(Frame(k, RepLen), HeadLen)
        /\ b + Len(coming) <= Len(T)
        /\ \A i \in 1..Len(ibuf) : ibuf[i] = T[p + i]
        /\ \A i \in 1..Len(inb) : inb[i] = T[p + Len(ibuf) + i]
    BY <1>1, InvParts, Zenon DEF RepliesWhole, Unread
  <2>2. p \in Nat /\ Len(ibuf) \in Nat /\ Len(inb) \in Nat /\ Len(coming) \in Nat /\ Len(T) \in Nat
    BY Lengths, Zenon
  <2> HIDE DEF p, T
  <2>3. b + Len(coming') <= Len(T)
    <3>1. b + 0 <= Len(T)
      BY <2>1, <2>2
    <3> QED
      BY <1>2, <3>1, Zenon
  <2>4. \A i \in 1..Len(coming') : coming'[i] = T[b + i]
    BY <1>2, Zenon
  <2> HIDE DEF b
  <2> QED
    BY <1>1, <1>2, <2>1, <2>3, <2>4, Zenon DEF Unread, p, b, T
<1>6. ArmInv' /\ RequestsWhole'
  BY <1>1, InvParts, OutputKept, Zenon
<1> QED
  BY <1>3, <1>4, <1>5, <1>6, Zenon DEF Inv

-----------------------------------------------------------------------------
(* The callback of the queue *)

\* The requests are taken from the queue.
LEMMA NewRequestStep ==
  ASSUME Inv, NewRequest
  PROVE  Inv'
<1>1. /\ pc = "poll" /\ batch' = queue /\ queue' = <<>> /\ pc' = "drain"
      /\ asked' = asked /\ sock' = sock /\ reps' = reps /\ coming' = coming
      /\ connected' = connected /\ mask' = mask /\ wcb' = wcb /\ ibuf' = ibuf
      /\ obuf' = obuf /\ inb' = inb /\ room' = room
      /\ closes' = closes /\ calls' = calls /\ sent' = sent /\ accepted' = accepted
      /\ cut' = cut /\ torn' = torn
  BY Zenon DEF NewRequest, netVars, histVars
<1>2. /\ queue' \in Seq(Nat) /\ pc' # "aborted" /\ pc \in {"poll", "drain", "write"} /\ pc \in {"poll", "drain", "parse"}
      /\ pc' \in {"poll", "drain", "parse", "write", "aborted", "garbled", "exited"}
  BY <1>1
<1>3. TypeOK'
  BY <1>1, <1>2, Types, TypesNext, ZenonT(60)
<1>4. InputInv'
  BY <1>1, <1>2, InputKept, Zenon
<1>5. RepliesWhole'
  BY <1>1, InvParts, RepliesKept, Zenon
<1>6. ArmInv' /\ RequestsWhole'
  BY <1>1, <1>2, OutputKept, Zenon
<1> QED
  BY <1>3, <1>4, <1>5, <1>6, Zenon DEF Inv

\* The callback returns.
LEMMA SendDoneStep ==
  ASSUME Inv, SendDone
  PROVE  Inv'
<1>1. /\ pc = "drain" /\ batch' = batch /\ queue' = queue /\ pc' = "poll"
      /\ asked' = asked /\ sock' = sock /\ reps' = reps /\ coming' = coming
      /\ connected' = connected /\ mask' = mask /\ wcb' = wcb /\ ibuf' = ibuf
      /\ obuf' = obuf /\ inb' = inb /\ room' = room
      /\ closes' = closes /\ calls' = calls /\ sent' = sent /\ accepted' = accepted
      /\ cut' = cut /\ torn' = torn
  BY Zenon DEF SendDone, netVars, histVars
<1>2. /\ pc' # "aborted" /\ pc \in {"poll", "drain", "write"} /\ pc \in {"poll", "drain", "parse"}
      /\ pc' \in {"poll", "drain", "parse", "write", "aborted", "garbled", "exited"}
  BY <1>1
<1>3. TypeOK'
  BY <1>1, <1>2, Types, TypesNext, ZenonT(60)
<1>4. InputInv'
  BY <1>1, <1>2, InputKept, Zenon
<1>5. RepliesWhole'
  BY <1>1, InvParts, RepliesKept, Zenon
<1>6. ArmInv' /\ RequestsWhole'
  BY <1>1, <1>2, OutputKept, Zenon
<1> QED
  BY <1>3, <1>4, <1>5, <1>6, Zenon DEF Inv

\* A step that sets the output part to one that is armed and framed.
LEMMA OutputSet ==
  ASSUME NEW r \in Parts, Armed(r), SetPart(r), ~torn' => Framed(sent', r), pc' # "aborted"
  PROVE  /\ connected' \in BOOLEAN /\ obuf' \in Seq(Byte) /\ mask' \in SUBSET {"in", "out"}
         /\ wcb' \in {"none", "delay", "write"} /\ accepted' \in Seq(Nat)
         /\ ArmInv' /\ RequestsWhole'
<1>1. /\ connected' = r.connected /\ obuf' = r.obuf /\ mask' = r.mask /\ wcb' = r.wcb
      /\ accepted' = r.accepted
  BY Zenon DEF SetPart
<1>2. ArmInv'
  BY <1>1, Zenon DEF ArmInv, Armed
<1>3. RequestsWhole'
  BY <1>1, Zenon DEF RequestsWhole, Framed
<1> QED
  BY <1>1, <1>2, <1>3, PartFields, Zenon

\* One request of the batch is sent or dropped.
LEMMA SendNextStep ==
  ASSUME Inv, SendNext
  PROVE  Inv'
<1> DEFINE r == SendMessage(Part, Head(batch))
<1>1. /\ pc = "drain" /\ batch # <<>> /\ SetPart(r) /\ batch' = Tail(batch)
      /\ queue' = queue /\ asked' = asked /\ ibuf' = ibuf /\ pc' = pc
      /\ sock' = sock /\ inb' = inb /\ coming' = coming /\ room' = room /\ closes' = closes
      /\ reps' = reps /\ calls' = calls /\ sent' = sent /\ cut' = cut /\ torn' = torn
  BY Zenon DEF SendNext, netVars
<1>2. batch \in Seq(Nat)
  BY Types, Zenon
<1>3. Head(batch) \in Nat /\ batch' \in Seq(Nat)
  BY <1>1, <1>2
<1>4. /\ Part \in Parts /\ Part.connected = connected /\ Part.obuf = obuf /\ Part.mask = mask
      /\ Part.wcb = wcb /\ Part.accepted = accepted
  BY PartIs, Zenon
<1>5. pc' # "aborted" /\ pc \in {"poll", "drain", "parse"}
  BY <1>1
<1>6. Armed(Part)
  BY <1>4, <1>5, InvParts, Zenon DEF ArmInv, Armed
<1>7. ~torn => Framed(sent, Part)
  BY <1>4, InvParts, Zenon DEF Framed
<1>8. sent \in Seq(Byte)
  BY Types, Zenon
<1>9. r \in Parts /\ Armed(r) /\ (~torn => Framed(sent, r))
  BY <1>3, <1>4, <1>6, <1>7, <1>8, SendMessageKeeps, Zenon
<1> HIDE DEF r
<1>10. /\ connected' \in BOOLEAN /\ obuf' \in Seq(Byte) /\ mask' \in SUBSET {"in", "out"}
       /\ wcb' \in {"none", "delay", "write"} /\ accepted' \in Seq(Nat)
       /\ ArmInv' /\ RequestsWhole'
  BY <1>1, <1>5, <1>9, OutputSet, Zenon
<1>11. TypeOK'
  BY <1>1, <1>3, <1>10, Types, TypesNext, ZenonT(60)
<1>12. InputInv'
  BY <1>1, InputKept, Zenon
<1>13. RepliesWhole'
  BY <1>1, InvParts, RepliesKept, Zenon
<1> QED
  BY <1>10, <1>11, <1>12, <1>13, Zenon DEF Inv
-----------------------------------------------------------------------------
(* The connection is made *)

\* connection_delay, whatever it finds.
LEMMA ConnectionDelayStep ==
  ASSUME Inv, NEW res \in {"ok", "error", "wild"}, ConnectionDelay(res)
  PROVE  Inv'
<1> DEFINE r == [Part EXCEPT !.mask = {}, !.wcb = "none"]
           u == [r EXCEPT !.connected = TRUE]
<1>1. /\ pc = "poll" /\ queue' = queue /\ batch' = batch /\ ibuf' = ibuf
      /\ inb' = inb /\ coming' = coming /\ room' = room /\ closes' = closes
      /\ reps' = reps /\ calls' = calls /\ sent' = sent /\ cut' = cut /\ torn' = torn
  BY Zenon DEF ConnectionDelay
<1>2. /\ res = "ok" => /\ SetPart(Established(r)) /\ sock' = sock
                       /\ asked' = AskedAfterStart /\ pc' = pc
      /\ res = "wild" => SetPart(u) /\ sock' = sock /\ asked' = asked /\ pc' = "exited"
      /\ res = "error" => SetPart(r) /\ sock' = "refused" /\ asked' = asked /\ pc' = pc
  BY Zenon DEF ConnectionDelay
<1>3. /\ Part \in Parts /\ Part.obuf = obuf /\ Part.accepted = accepted
  BY PartIs, Zenon
<1>4. /\ r \in Parts /\ r.mask = {} /\ r.obuf = obuf /\ r.accepted = accepted
      /\ u \in Parts /\ u.mask = {} /\ u.obuf = obuf /\ u.accepted = accepted
  BY <1>3, Zenon DEF Parts
<1> HIDE DEF r, u
<1>5. ~torn => Framed(sent, r) /\ Framed(sent, u)
  BY <1>4, InvParts, Zenon DEF Framed
<1>6. Armed(r) /\ Armed(u)
  BY <1>4, Zenon DEF Armed
<1>7. asked \in Nat /\ sent \in Seq(Byte) /\ sock \in {"syn", "est", "refused", "shut"}
  BY Types, Zenon
<1>8. PICK q \in Parts : SetPart(q) /\ Armed(q) /\ (~torn => Framed(sent, q))
  <2>1. CASE res = "ok"
    <3>1. /\ Established(r) \in Parts /\ Armed(Established(r))
          /\ \A s \in Seq(Byte) : Framed(s, r) => Framed(s, Established(r))
      BY <1>4, <1>7, EstablishedKeeps, Zenon
    <3> QED
      BY <1>2, <1>5, <1>7, <2>1, <3>1, Zenon
  <2>2. CASE res = "wild"
    BY <1>2, <1>4, <1>5, <1>6, <2>2, Zenon
  <2>3. CASE res = "error"
    BY <1>2, <1>4, <1>5, <1>6, <2>3, Zenon
  <2> QED
    BY <2>1, <2>2, <2>3, Zenon
<1>9. /\ asked' \in Nat /\ sock' \in {"syn", "est", "refused", "shut"}
      /\ sock' \in {"syn", "est"} => sock \in {"syn", "est"}
      /\ pc' \in {"poll", "exited"}
  <2>1. AskedAfterStart \in Nat
    BY <1>7 DEF AskedAfterStart
  <2>2. CASE res = "ok"
    BY <1>1, <1>2, <1>7, <2>1, <2>2, Zenon
  <2>3. CASE res = "wild"
    BY <1>1, <1>2, <1>7, <2>3, Zenon
  <2>4. CASE res = "error"
    BY <1>1, <1>2, <1>7, <2>4
  <2> QED
    BY <2>2, <2>3, <2>4, Zenon
<1>10. /\ pc' # "aborted" /\ pc \in {"poll", "drain", "write"}
       /\ pc' \in {"poll", "drain", "parse", "write", "aborted", "garbled", "exited"}
  BY <1>1, <1>9
<1>11. /\ connected' \in BOOLEAN /\ obuf' \in Seq(Byte) /\ mask' \in SUBSET {"in", "out"}
       /\ wcb' \in {"none", "delay", "write"} /\ accepted' \in Seq(Nat)
       /\ ArmInv' /\ RequestsWhole'
  BY <1>1, <1>8, <1>10, OutputSet, Zenon
<1>12. TypeOK'
  BY <1>1, <1>9, <1>10, <1>11, Types, TypesNext, ZenonT(60)
<1>13. InputInv'
  BY <1>1, <1>10, InputKept, Zenon
<1>14. RepliesWhole'
  BY <1>1, <1>9, InvParts, RepliesKept, Zenon
<1> QED
  BY <1>11, <1>12, <1>13, <1>14, Zenon DEF Inv

\* Some of the last elements of a sequence.
LEMMA SuffixType ==
  ASSUME NEW s \in Seq(Nat), NEW n \in Nat
  PROVE  Suffix(s, n) \in Seq(Nat) /\ (n <= Len(s) => Suffix(s, n) = Drop(s, Len(s) - n))
<1>1. CASE n < Len(s)
  <2>1. Len(s) - n \in 0..Len(s)
    BY <1>1
  <2>2. Suffix(s, n) = Drop(s, Len(s) - n)
    BY <1>1, Zenon DEF Suffix
  <2> QED
    BY <2>1, <2>2, Dropped, Zenon
<1>2. CASE ~(n < Len(s))
  <2>1. Suffix(s, n) = s
    BY <1>2, Zenon DEF Suffix
  <2>2. ASSUME n <= Len(s) PROVE s = Drop(s, Len(s) - n)
    <3>1. Len(s) - n = 0
      BY <1>2, <2>2
    <3>2. SubSeq(s, 1, Len(s)) = s
      OBVIOUS
    <3> QED
      BY <3>1, <3>2, SMTT(20) DEF Drop
  <2> QED
    BY <2>1, <2>2, Zenon
<1> QED
  BY <1>1, <1>2, Zenon

\* An output that starts with a frame is made of the frames of the last
\* accepted requests.
LEMMA WaitingFramed ==
  ASSUME Inv, ~torn, ~WithinFrame(obuf)
  PROVE  obuf = Frames(Waiting, ReqLen)
<1> DEFINE F == HeadLen + ReqLen
           n == Len(accepted)
           s == Len(sent)
           o == Len(obuf)
           A == Frames(accepted, ReqLen)
<1>1. /\ accepted \in Seq(Nat) /\ sent \in Seq(Byte) /\ obuf \in Seq(Byte)
      /\ n \in Nat /\ s \in Nat /\ o \in Nat
  BY Types, ElementType, Zenon
<1>2. ReqLen \in Nat /\ F \in Nat /\ F > 0
  BY Sizes
<1>3. sent \o obuf = A
  BY InvParts, Zenon
<1>4. /\ Len(A) = F * n /\ F * n \in Nat
      /\ \A k \in 1..(F * n) : A[k] = <<accepted[((k - 1) \div F) + 1], ((k - 1) % F) + 1>>
  BY <1>1, <1>2, FramesType, Zenon
<1>5. s + o = F * n /\ \A i \in 1..o : A[s + i] = obuf[i]
  BY <1>1, <1>3, <1>4, Concat, ConcatAt
<1>6. Drop(A, s) = obuf
  BY <1>1, <1>3, DropFirst, Zenon
<1> HIDE DEF F, n, s, o, A
<1>7. PICK d \in 0..n : s = F * d
  <2>1. CASE o = 0
    BY <1>1, <1>2, <1>5, <2>1
  <2>2. CASE o # 0
    <3>1. 1 \in 1..o /\ s + 1 \in 1..(F * n) /\ (s + 1) - 1 = s
      BY <1>1, <1>4, <1>5, <2>2
    <3>2. obuf[1] = <<accepted[(s \div F) + 1], (s % F) + 1>>
      <4> DEFINE k == s + 1
      <4>1. k \in 1..(F * n) /\ k - 1 = s /\ A[k] = obuf[1]
        BY <1>5, <3>1, Zenon
      <4> HIDE DEF k
      <4> QED
        BY <1>4, <4>1, Zenon
    <3>3. obuf # <<>>
      BY <1>1, <2>2 DEF o
    <3>4. obuf[1][2] = 1
      BY <3>3, Zenon DEF WithinFrame
    <3>5. (s % F) + 1 = 1
      BY <3>2, <3>4
    <3> DEFINE d == s \div F
               e == s % F
    <3>6. d \in Nat /\ e \in 0..(F - 1) /\ s = F * d + e
      BY <1>1, <1>2
    <3>7. e = 0
      BY <3>5, <3>6
    <3> HIDE DEF d, e
    <3>8. s = F * d
      BY <1>2, <3>6, <3>7
    <3>9. d \in 0..n
      <4> SUFFICES ASSUME n < d PROVE FALSE
        BY <1>1, <3>6
      <4>1. F * n + F <= F * d
        BY <1>1, <1>2, <3>6, Multiples
      <4> QED
        BY <1>1, <1>2, <1>4, <1>5, <3>8, <4>1
    <3> QED
      BY <3>8, <3>9, Zenon
  <2> QED
    BY <2>1, <2>2, Zenon
<1>8. o \div F = n - d /\ n - d \in Nat /\ n - d <= n /\ n - (n - d) = d
  <2>1. n - d \in Nat /\ n - d <= n /\ n - (n - d) = d
    BY <1>1
  <2>2. o = F * (n - d) + 0 /\ 0 \in 0..(F - 1)
    BY <1>1, <1>2, <1>4, <1>5, <1>7, <2>1
  <2>3. (F * (n - d) + 0) \div F = n - d
    BY <1>2, <2>1, <2>2, QuotientRemainder, Zenon
  <2> QED
    BY <2>1, <2>2, <2>3, Zenon
<1>9. Waiting = Drop(accepted, d)
  <2>1. Suffix(accepted, n - d) = Drop(accepted, n - (n - d))
    BY <1>1, <1>8, SuffixType, Zenon DEF n
  <2>2. Waiting = Suffix(accepted, o \div F)
    BY Zenon DEF Waiting, o, F
  <2> QED
    BY <1>8, <2>1, <2>2, Zenon
<1>10. Drop(A, F * d) = Frames(Drop(accepted, d), ReqLen)
  BY <1>1, <1>2, <1>7, FramesFrom, Zenon DEF A, F, n
<1> QED
  BY <1>6, <1>7, <1>9, <1>10, Zenon

\* clean_conn and do_connect: the new connection starts with the output that is
\* left, and with no input.
LEMMA CleanConnStep ==
  ASSUME Inv, pc \in {"poll", "write"}, NEW how \in Outcomes, CleanConn(how)
  PROVE  Inv'
<1> DEFINE r == [Part EXCEPT !.connected = FALSE, !.mask = {}, !.wcb = "none", !.accepted = Waiting]
           l == [r EXCEPT !.mask = {"out"}, !.wcb = "delay"]
<1>1. /\ inb' = <<>> /\ coming' = <<>> /\ room' = SndBuf /\ reps' = 0 /\ calls' = <<>> /\ sent' = <<>>
      /\ cut' = (cut \/ ibuf # <<>>) /\ torn' = (torn \/ WithinFrame(obuf))
      /\ queue' = queue /\ batch' = batch /\ ibuf' = ibuf /\ closes' = closes
  BY Zenon DEF CleanConn
<1>2. /\ how = "now" => /\ SetPart(Established(r)) /\ sock' = "est"
                        /\ asked' = AskedAfterStart /\ pc' = pc
      /\ how = "later" => SetPart(l) /\ sock' = "syn" /\ asked' = asked /\ pc' = pc
      /\ how = "error" => SetPart(r) /\ sock' = "refused" /\ asked' = asked /\ pc' = "exited"
  BY Zenon DEF CleanConn
<1>3. how = "now" \/ how = "later" \/ how = "error"
  BY Zenon DEF Outcomes
<1>4. /\ asked \in Nat /\ accepted \in Seq(Nat) /\ obuf \in Seq(Byte) /\ Len(obuf) \in Nat
      /\ ibuf \in Seq(Byte) /\ cut \in BOOLEAN /\ torn \in BOOLEAN
  BY Types, ElementType, Zenon
<1>5. Waiting \in Seq(Nat)
  <2>1. Len(obuf) \div (HeadLen + ReqLen) \in Nat
    BY <1>4, Sizes
  <2> QED
    BY <1>4, <2>1, SuffixType, Zenon DEF Waiting
<1>6. Part \in Parts /\ Part.obuf = obuf
  BY PartIs, Zenon
<1> DEFINE w == Waiting
<1>7. w \in Seq(Nat)
  BY <1>5, Zenon
<1>8. r = [Part EXCEPT !.connected = FALSE, !.mask = {}, !.wcb = "none", !.accepted = w]
  BY Zenon
<1> HIDE DEF w
<1>9. /\ r \in Parts /\ r.mask = {} /\ r.obuf = obuf /\ r.accepted = w
      /\ l \in Parts /\ l.mask = {"out"} /\ l.wcb = "delay" /\ l.obuf = obuf /\ l.accepted = w
  BY <1>6, <1>7, <1>8, Zenon DEF Parts
<1> HIDE DEF r, l
<1>10. Armed(r)
  BY <1>9, Zenon DEF Armed
<1>11. Armed(l)
  <2>1. "in" \notin {"out"} /\ "delay" # "write"
    OBVIOUS
  <2> QED
    BY <1>9, <2>1, Zenon DEF Armed
<1>12. sent' \in Seq(Byte)
  BY <1>1
<1>13. ~torn' => Framed(sent', r) /\ Framed(sent', l)
  <2> SUFFICES ASSUME ~torn' PROVE sent' \o obuf = Frames(w, ReqLen)
    BY <1>9, Zenon DEF Framed
  <2>1. obuf = Frames(w, ReqLen)
    BY <1>1, WaitingFramed, Zenon DEF w
  <2>2. <<>> \o obuf = obuf
    BY <1>4, ConcatEmpty, Zenon
  <2> QED
    BY <1>1, <2>1, <2>2, Zenon
<1>14. PICK q \in Parts : SetPart(q) /\ Armed(q) /\ (~torn' => Framed(sent', q))
  <2>1. CASE how = "now"
    <3>1. /\ Established(r) \in Parts /\ Armed(Established(r))
          /\ \A s \in Seq(Byte) : Framed(s, r) => Framed(s, Established(r))
      BY <1>4, <1>9, EstablishedKeeps, Zenon
    <3> QED
      BY <1>2, <1>12, <1>13, <2>1, <3>1, Zenon
  <2>2. CASE how = "later"
    BY <1>2, <1>9, <1>11, <1>13, <2>2, Zenon
  <2>3. CASE how = "error"
    BY <1>2, <1>9, <1>10, <1>13, <2>3, Zenon
  <2> QED
    BY <1>3, <2>1, <2>2, <2>3, Zenon
<1>15. asked' \in Nat /\ sock' \in {"syn", "est", "refused", "shut"} /\ pc' \in {"poll", "write", "exited"}
  <2>1. AskedAfterStart \in Nat
    BY <1>4 DEF AskedAfterStart
  <2>2. CASE how = "now"
    BY <1>2, <2>1, <2>2, Zenon
  <2>3. CASE how = "later"
    BY <1>2, <1>4, <2>3, Zenon
  <2>4. CASE how = "error"
    BY <1>2, <1>4, <2>4, Zenon
  <2> QED
    BY <1>3, <2>2, <2>3, <2>4, Zenon
<1>16. /\ pc' # "aborted" /\ pc \in {"poll", "drain", "write"}
       /\ pc' \in {"poll", "drain", "parse", "write", "aborted", "garbled", "exited"}
  BY <1>15
<1>17. /\ connected' \in BOOLEAN /\ obuf' \in Seq(Byte) /\ mask' \in SUBSET {"in", "out"}
       /\ wcb' \in {"none", "delay", "write"} /\ accepted' \in Seq(Nat)
       /\ ArmInv' /\ RequestsWhole'
  BY <1>14, <1>16, OutputSet, Zenon
<1>18. /\ inb' \in Seq(Byte) /\ coming' \in Seq(Byte) /\ calls' \in Seq(Seq(Byte)) /\ room' \in 0..SndBuf
       /\ reps' \in Nat /\ Len(inb') = 0 /\ Len(coming') = 0 /\ Len(calls') = 0 /\ 1..0 = {}
  BY <1>1, Sizes
<1>19. cut' \in BOOLEAN /\ torn' \in BOOLEAN
  BY <1>1, <1>4, Zenon
<1>20. TypeOK'
  BY <1>1, <1>4, <1>12, <1>15, <1>16, <1>17, <1>18, <1>19, Types, TypesNext, ZenonT(60)
<1>21. InputInv'
  <2>1. Len(inb') <= RcvBuf
    BY <1>18, Sizes
  <2> QED
    BY <1>1, <1>16, <2>1, InvParts, Zenon DEF InputInv
<1>22. RepliesWhole'
  <2> SUFFICES ASSUME ~cut'
               PROVE  /\ \A k \in 1..Len(calls') : calls'[k] = Drop(Frame(k, RepLen), HeadLen)
                      /\ Unread((HeadLen + RepLen) * Len(calls))'
    BY Zenon DEF RepliesWhole
  <2>1. ibuf' = <<>>
    BY <1>1, Zenon
  <2>2. Len(ibuf') = 0
    BY <2>1
  <2>3. Len(Replies(reps')) = 0 /\ (HeadLen + RepLen) * Len(calls') = 0 /\ 0 + 0 + 0 + 0 = 0 /\ 0 <= 0
    <3>1. Len(Replies(reps')) = RepSize * reps'
      BY <1>18, RepliesType, Zenon
    <3>2. RepSize * 0 = 0 /\ (HeadLen + RepLen) * 0 = 0 /\ 0 + 0 + 0 + 0 = 0 /\ 0 <= 0
      BY Sizes DEF RepSize
    <3> QED
      BY <1>1, <1>18, <3>1, <3>2, Zenon
  <2>4. Unread((HeadLen + RepLen) * Len(calls))'
    BY <1>18, <2>2, <2>3, Zenon DEF Unread
  <2> QED
    BY <1>18, <2>4, Zenon
<1> QED
  BY <1>17, <1>20, <1>21, <1>22, Zenon DEF Inv

\* The server has closed the connection.
LEMMA ReadEofStep ==
  ASSUME Inv, NEW how \in Outcomes, ReadEof(how)
  PROVE  Inv'
<1>1. pc \in {"poll", "write"} /\ CleanConn(how)
  BY Zenon DEF ReadEof
<1> QED
  BY <1>1, CleanConnStep, Zenon

\* Writing fails.
LEMMA WriteErrorStep ==
  ASSUME Inv, NEW how \in Outcomes, WriteError(how)
  PROVE  Inv'
<1>1. pc \in {"poll", "write"} /\ CleanConn(how)
  BY Zenon DEF WriteError
<1> QED
  BY <1>1, CleanConnStep, Zenon
-----------------------------------------------------------------------------
(* do_read *)

\* All that has arrived is read; there is room for it.
LEMMA ReadSomeStep ==
  ASSUME Inv, ReadSome
  PROVE  Inv'
<1>1. /\ pc = "poll" /\ Readable /\ queue' = queue /\ batch' = batch /\ asked' = asked
      /\ connected' = connected /\ mask' = mask /\ wcb' = wcb /\ obuf' = obuf /\ sock' = sock
      /\ coming' = coming /\ room' = room /\ closes' = closes /\ reps' = reps
      /\ calls' = calls /\ sent' = sent /\ accepted' = accepted /\ cut' = cut /\ torn' = torn
  BY Zenon DEF ReadSome, histVars
<1>2. ibuf \in Seq(Byte) /\ inb \in Seq(Byte) /\ Len(ibuf) \in Nat /\ Len(inb) \in Nat /\ Len(coming) \in Nat
  BY Types, ElementType, Zenon
<1>3. connected /\ Len(inb) <= Capacity - Len(ibuf)
  <2>1. connected
    BY <1>1, InvParts, Zenon DEF ArmInv, Readable
  <2>2. Len(inb) <= RcvBuf /\ Len(ibuf) < HeadLen
    BY <1>1, InvParts, Zenon DEF InputInv
  <2> QED
    BY <1>2, <2>1, <2>2, Sizes
<1>4. ibuf' = ibuf \o inb /\ inb' = <<>> /\ pc' = "parse"
  BY <1>3, Zenon DEF ReadSome
<1>5. /\ pc' # "aborted" /\ pc' \notin {"poll", "drain", "write"} /\ pc \in {"poll", "drain", "parse"}
      /\ pc' \in {"poll", "drain", "parse", "write", "aborted", "garbled", "exited"}
      /\ inb' \in Seq(Byte) /\ Len(inb') = 0 /\ 1..0 = {}
  BY <1>1, <1>4
<1>6. ibuf' \in Seq(Byte) /\ Len(ibuf') = Len(ibuf) + Len(inb)
  BY <1>2, <1>4, Concat, Zenon
<1>7. TypeOK'
  BY <1>1, <1>5, <1>6, Types, TypesNext, ZenonT(60)
<1>8. InputInv'
  <2>1. Len(inb') <= RcvBuf
    BY <1>5, Sizes
  <2> QED
    BY <1>5, <2>1, Zenon DEF InputInv
<1>9. ArmInv' /\ RequestsWhole'
  BY <1>1, <1>5, OutputKept, Zenon
<1>10. RepliesWhole'
  <2> SUFFICES ASSUME ~cut'
               PROVE  /\ \A k \in 1..Len(calls') : calls'[k] = Drop(Frame(k, RepLen), HeadLen)
                      /\ Unread((HeadLen + RepLen) * Len(calls))'
    BY Zenon DEF RepliesWhole
  <2> DEFINE p == (HeadLen + RepLen) * Len(calls)
             b == p + Len(ibuf) + Len(inb)
             T == Replies(reps)
  <2>1. /\ \A k \in 1..Len(calls) : calls[k] = Drop(Frame(k, RepLen), HeadLen)
        /\ b + Len(coming) <= Len(T) /\ (sock \in {"syn", "est"} => b + Len(coming) = Len(T))
        /\ \A i \in 1..Len(coming) : coming[i] = T[b + i]
    BY <1>1, InvParts, Zenon DEF RepliesWhole, Unread
  <2>2. \A i \in 1..Len(ibuf) : ibuf[i] = T[p + i]
    BY <1>1, InvParts, Zenon DEF RepliesWhole, Unread
  <2>3. \A i \in 1..Len(inb) : inb[i] = T[p + Len(ibuf) + i]
    BY <1>1, InvParts, Zenon DEF RepliesWhole, Unread
  <2>4. p \in Nat
    BY Lengths, Zenon
  <2> HIDE DEF p, T
  <2>5. b = p + Len(ibuf') + Len(inb')
    <3>1. p + Len(ibuf) + Len(inb) = p + (Len(ibuf) + Len(inb)) + 0
      BY <1>2, <2>4
    <3> QED
      BY <1>5, <1>6, <3>1, Zenon
  <2>6. \A i \in 1..Len(ibuf') : ibuf'[i] = T[p + i]
    <3>1. /\ ibuf \in Seq(Byte) /\ inb \in Seq(Byte) /\ p \in Nat
          /\ Piece(ibuf, T, p) /\ Piece(inb, T, p + Len(ibuf))
      BY <1>2, <2>2, <2>3, <2>4, Zenon DEF Piece
    <3>2. Piece(ibuf \o inb, T, p)
      BY <3>1, Follow, Zenon
    <3> QED
      BY <1>4, <3>2, Zenon DEF Piece
  <2>7. \A i \in 1..Len(inb') : inb'[i] = T[p + Len(ibuf') + i]
    BY <1>5, Zenon
  <2> HIDE DEF b
  <2> QED
    BY <1>1, <2>1, <2>5, <2>6, <2>7, Zenon DEF Unread, p, T
<1> QED
  BY <1>7, <1>8, <1>9, <1>10, Zenon DEF Inv

\* The body that HandleMessage passes on when all of it is there.
LEMMA BodyOfReply ==
  ASSUME NEW c \in Nat, NEW n \in Nat, NEW b \in Seq(Byte), RepSize <= Len(b),
         RepSize * c + Len(b) <= Len(Replies(n)),
         \A i \in 1..Len(b) : b[i] = Replies(n)[RepSize * c + i]
  PROVE  Prefix(Drop(b, HeadLen), RepLen) = Drop(Frame(c + 1, RepLen), HeadLen)
<1> DEFINE rest == Drop(b, HeadLen)
           body == Prefix(rest, RepLen)
           fr == Frame(c + 1, RepLen)
           want == Drop(fr, HeadLen)
<1>1. /\ HeadLen \in Nat /\ RepLen \in Nat /\ RepSize = HeadLen + RepLen /\ RepSize > 0 /\ Len(b) \in Nat
      /\ RepSize \in Nat /\ c + 1 \in Nat
  BY Sizes DEF RepSize
<1>2. HeadLen \in 0..Len(b) /\ RepLen \in 0..(Len(b) - HeadLen)
  BY <1>1
<1>3. rest \in Seq(Byte) /\ Len(rest) = Len(b) - HeadLen /\ \A i \in 1..(Len(b) - HeadLen) : rest[i] = b[HeadLen + i]
  BY <1>2, Dropped, Zenon
<1> HIDE DEF rest
<1>4. body \in Seq(Byte) /\ Len(body) = RepLen /\ \A i \in 1..RepLen : body[i] = rest[i]
  <2>1. RepLen \in 0..Len(rest)
    BY <1>2, <1>3, Zenon
  <2> QED
    BY <1>3, <2>1, Prefixed, Zenon
<1>5. fr \in Seq(Byte) /\ Len(fr) = RepSize /\ \A i \in 1..RepSize : fr[i] = <<c + 1, i>>
  BY <1>1, FrameType, Zenon
<1> HIDE DEF fr
<1>6. want \in Seq(Byte) /\ Len(want) = RepLen /\ \A i \in 1..RepLen : want[i] = fr[HeadLen + i]
  <2>1. HeadLen \in 0..Len(fr) /\ Len(fr) - HeadLen = RepLen
    BY <1>1, <1>5
  <2>2. /\ want \in Seq(Byte) /\ Len(want) = Len(fr) - HeadLen
        /\ \A i \in 1..(Len(fr) - HeadLen) : want[i] = fr[HeadLen + i]
    <3>1. fr \in Seq(Byte) /\ HeadLen \in 0..Len(fr)
      BY <1>5, <2>1, Zenon
    <3> QED
      BY <3>1, Dropped, ZenonT(60)
  <2> QED
    BY <2>1, <2>2, Zenon
<1> HIDE DEF body, want
<1>7. c < n
  <2> SUFFICES ASSUME ~(c < n) PROVE FALSE
    BY Zenon
  <2>1. Len(Replies(n)) = RepSize * n /\ RepSize * n \in Nat
    BY RepliesType, Zenon
  <2>2. RepSize * c \in Nat
    BY <1>1
  <2>3. RepSize * n <= RepSize * c
    <3>1. CASE n = c
      BY <2>1, <3>1
    <3>2. CASE n < c
      <4>1. RepSize * n + RepSize <= RepSize * c
        <5>1. RepSize \in Nat /\ RepSize > 0 /\ n \in Int /\ c \in Int
          BY <1>1
        <5> QED
          BY <3>2, <5>1, Multiples, Zenon
      <4> QED
        BY <1>1, <2>1, <2>2, <4>1
    <3> QED
      BY <3>1, <3>2
  <2> QED
    BY <1>1, <2>1, <2>2, <2>3
<1>8. ASSUME NEW i \in 1..RepLen PROVE body[i] = want[i]
  <2>1. HeadLen + i \in 1..RepSize /\ HeadLen + i \in 1..Len(b) /\ i \in 1..(Len(b) - HeadLen)
    BY <1>1
  <2>2. body[i] = b[HeadLen + i]
    BY <1>3, <1>4, <2>1, Zenon
  <2> DEFINE j == HeadLen + i
  <2>3. j \in 1..RepSize /\ j \in 1..Len(b)
    BY <2>1, Zenon
  <2> HIDE DEF j
  <2>4. b[j] = Replies(n)[RepSize * c + j] /\ Replies(n)[RepSize * c + j] = <<c + 1, j>>
    BY <1>7, <2>3, ReplyBytes, Zenon
  <2>5. want[i] = fr[j] /\ fr[j] = <<c + 1, j>>
    BY <1>5, <1>6, <2>3, Zenon DEF j
  <2> QED
    BY <2>2, <2>4, <2>5, Zenon DEF j
<1>9. body = want
  BY <1>4, <1>6, <1>8, SameElements, Zenon
<1> QED
  BY <1>9, Zenon DEF body, want, fr, rest

\* The first elements, however many there are.
LEMMA PrefixType ==
  ASSUME NEW s \in Seq(Byte), NEW n \in Nat
  PROVE  Prefix(s, n) \in Seq(Byte)
<1>1. CASE n < Len(s)
  <2>1. n \in 0..Len(s)
    BY <1>1
  <2> QED
    BY <2>1, Prefixed, Zenon
<1>2. CASE ~(n < Len(s))
  BY <1>2, Zenon DEF Prefix
<1> QED
  BY <1>1, <1>2, Zenon

\* One more element at the end.
LEMMA Appended ==
  ASSUME NEW s \in Seq(Seq(Byte)), NEW e \in Seq(Byte)
  PROVE  /\ Append(s, e) \in Seq(Seq(Byte)) /\ Len(Append(s, e)) = Len(s) + 1
         /\ \A i \in 1..Len(s) : Append(s, e)[i] = s[i]
         /\ Append(s, e)[Len(s) + 1] = e
OBVIOUS

\* A header is found: the callback is called, and the frame is taken off the
\* buffer.
LEMMA HandleMessageStep ==
  ASSUME Inv, HandleMessage
  PROVE  Inv'
<1> DEFINE rest == Drop(ibuf, HeadLen)
           body == Prefix(rest, RepLen)
<1>1. /\ pc = "parse" /\ Len(ibuf) >= HeadLen /\ calls' = Append(calls, body) /\ ibuf' = PopBody(rest)
      /\ cut' = (cut \/ Len(rest) < RepLen)
      /\ queue' = queue /\ batch' = batch /\ asked' = asked /\ connected' = connected /\ mask' = mask
      /\ wcb' = wcb /\ obuf' = obuf /\ pc' = pc /\ sock' = sock /\ inb' = inb /\ coming' = coming
      /\ room' = room /\ closes' = closes /\ reps' = reps /\ sent' = sent /\ accepted' = accepted
      /\ torn' = torn
  BY Zenon DEF HandleMessage, HasHead, netVars
<1>2. /\ ibuf \in Seq(Byte) /\ calls \in Seq(Seq(Byte)) /\ Len(ibuf) \in Nat /\ Len(calls) \in Nat
      /\ HeadLen \in Nat /\ RepLen \in Nat /\ cut \in BOOLEAN
  BY Types, Lengths, Sizes, Zenon
<1>3. HeadLen \in 0..Len(ibuf)
  BY <1>1, <1>2
<1>4. /\ rest \in Seq(Byte) /\ Len(rest) = Len(ibuf) - HeadLen
      /\ \A i \in 1..(Len(ibuf) - HeadLen) : rest[i] = ibuf[HeadLen + i]
  BY <1>2, <1>3, Dropped, Zenon
<1>5. body \in Seq(Byte)
  BY <1>2, <1>4, PrefixType, Zenon
<1>6. ibuf' \in Seq(Byte)
  <2>1. CASE RepLen > Len(rest)
    BY <1>1, <1>4, <2>1, Zenon DEF PopBody
  <2>2. CASE ~(RepLen > Len(rest))
    <3>1. Len(rest) \in Nat
      BY <1>4, ElementType, Zenon
    <3>2. RepLen \in 0..Len(rest)
      BY <1>2, <2>2, <3>1
    <3>3. Drop(rest, RepLen) \in Seq(Byte)
      BY <1>4, <3>2, Dropped, Zenon
    <3> QED
      BY <1>1, <2>2, <3>3, Zenon DEF PopBody
  <2> QED
    BY <2>1, <2>2, Zenon
<1>7. /\ calls' \in Seq(Seq(Byte)) /\ Len(calls') = Len(calls) + 1
      /\ \A i \in 1..Len(calls) : calls'[i] = calls[i]
      /\ calls'[Len(calls) + 1] = body
  <2> HIDE DEF body
  <2>1. /\ Append(calls, body) \in Seq(Seq(Byte)) /\ Len(Append(calls, body)) = Len(calls) + 1
        /\ \A i \in 1..Len(calls) : Append(calls, body)[i] = calls[i]
        /\ Append(calls, body)[Len(calls) + 1] = body
    BY <1>2, <1>5, Appended, Zenon
  <2> QED
    BY <1>1, <2>1, Zenon
<1>8. cut' \in BOOLEAN
  BY <1>1, <1>2, Zenon
<1>9. TypeOK'
  BY <1>1, <1>6, <1>7, <1>8, Types, TypesNext, ZenonT(60)
<1>10. InputInv'
  <2>1. pc' \notin {"poll", "drain", "write"}
    BY <1>1
  <2> QED
    BY <1>1, <2>1, InvParts, Zenon DEF InputInv
<1>11. ArmInv' /\ RequestsWhole'
  BY <1>1, InvParts, OutputKept, Zenon
<1>12. RepliesWhole'
  <2> SUFFICES ASSUME ~cut'
               PROVE  /\ \A k \in 1..Len(calls') : calls'[k] = Drop(Frame(k, RepLen), HeadLen)
                      /\ Unread((HeadLen + RepLen) * Len(calls))'
    BY Zenon DEF RepliesWhole
  <2>1. ~cut /\ ~(Len(rest) < RepLen)
    BY <1>1, Zenon
  <2> DEFINE c == Len(calls)
             l == Len(ibuf)
             p == RepSize * c
             a == p + l
             b == a + Len(inb)
             T == Replies(reps)
             d == Drop(rest, RepLen)
  <2>2. /\ c \in Nat /\ l \in Nat /\ p \in Nat /\ RepSize = HeadLen + RepLen /\ RepSize \in Nat
        /\ reps \in Nat /\ Len(T) \in Nat /\ Len(inb) \in Nat /\ Len(coming) \in Nat
    BY Types, Lengths, Zenon
  <2>3. \A k \in 1..c : calls[k] = Drop(Frame(k, RepLen), HeadLen)
    BY <2>1, InvParts, Zenon DEF RepliesWhole
  <2>4. Unread(p)
    BY <2>1, InvParts, Zenon DEF RepliesWhole, RepSize
  <2>5. /\ b + Len(coming) <= Len(T) /\ (sock \in {"syn", "est"} => b + Len(coming) = Len(T))
        /\ \A i \in 1..Len(inb) : inb[i] = T[a + i]
        /\ \A i \in 1..Len(coming) : coming[i] = T[b + i]
    BY <2>4, Zenon DEF Unread
  <2>6. \A i \in 1..l : ibuf[i] = T[p + i]
    BY <2>4, Zenon DEF Unread
  <2>7. RepSize <= l /\ RepLen \in 0..Len(rest) /\ Len(rest) - RepLen = l - RepSize
    BY <1>2, <1>4, <2>1, <2>2
  <2>8. p + l <= Len(T)
    <3> HIDE DEF T, p, l
    <3> QED
      BY <2>2, <2>5
  <2>9. body = Drop(Frame(c + 1, RepLen), HeadLen)
    <3>1. /\ c \in Nat /\ reps \in Nat /\ ibuf \in Seq(Byte) /\ RepSize <= Len(ibuf)
          /\ RepSize * c + Len(ibuf) <= Len(Replies(reps))
          /\ \A i \in 1..Len(ibuf) : ibuf[i] = Replies(reps)[RepSize * c + i]
      BY <1>2, <2>2, <2>6, <2>7, <2>8, Zenon
    <3> HIDE DEF c
    <3> QED
      BY <3>1, BodyOfReply
  <2>10. \A k \in 1..Len(calls') : calls'[k] = Drop(Frame(k, RepLen), HeadLen)
    <3> SUFFICES ASSUME NEW k \in 1..(c + 1) PROVE calls'[k] = Drop(Frame(k, RepLen), HeadLen)
      BY <1>7, Zenon
    <3>1. k \in 1..c \/ k = c + 1
      BY <2>2
    <3> HIDE DEF body
    <3> QED
      BY <1>7, <2>3, <2>9, <3>1, Zenon
  <2>11. /\ d \in Seq(Byte) /\ Len(d) = Len(rest) - RepLen
         /\ \A i \in 1..(Len(rest) - RepLen) : d[i] = rest[RepLen + i]
    <3> HIDE DEF rest
    <3> QED
      BY <1>4, <2>7, Dropped, Zenon
  <2>12. ibuf' = d
    BY <1>1, <1>2, <2>1, <1>4 DEF PopBody
  <2> HIDE DEF rest, d, T
  <2>13. RepSize * Len(calls') = p + RepSize /\ Len(ibuf') = l - RepSize
    <3>1. RepSize * (c + 1) = p + RepSize
      BY <2>2
    <3> QED
      BY <1>7, <2>7, <2>11, <2>12, <3>1, Zenon
  <2> HIDE DEF c, l, p
  <2>14. (p + RepSize) + (l - RepSize) = a
    BY <2>2
  <2>15. ASSUME NEW i \in 1..(l - RepSize) PROVE d[i] = T[(p + RepSize) + i]
    <3>1. /\ i \in 1..(Len(rest) - RepLen) /\ RepLen + i \in 1..(l - HeadLen) /\ RepSize + i \in 1..l
          /\ HeadLen + (RepLen + i) = RepSize + i /\ p + (RepSize + i) = (p + RepSize) + i
      BY <1>2, <2>2, <2>7
    <3>2. d[i] = rest[RepLen + i]
      BY <2>11, <3>1, Zenon
    <3>3. rest[RepLen + i] = ibuf[RepSize + i]
      <4> DEFINE j == RepLen + i
      <4>1. j \in 1..(l - HeadLen) /\ HeadLen + j = RepSize + i
        BY <3>1, Zenon
      <4> HIDE DEF j
      <4>2. rest[j] = ibuf[HeadLen + j]
        BY <1>4, <4>1, Zenon DEF l
      <4> QED
        BY <4>1, <4>2, Zenon DEF j
    <3>4. ibuf[RepSize + i] = T[p + (RepSize + i)]
      BY <2>6, <3>1, Zenon
    <3> QED
      BY <3>1, <3>2, <3>3, <3>4, Zenon
  <2> HIDE DEF a, b
  <2>16. Unread(RepSize * Len(calls))'
    <3> DEFINE z == RepSize * Len(calls')
    <3>1. z + Len(ibuf') = a /\ \A i \in 1..Len(ibuf') : ibuf'[i] = T[z + i]
      BY <2>12, <2>13, <2>14, <2>15, Zenon
    <3> HIDE DEF z
    <3>2. /\ z + Len(ibuf') + Len(inb) + Len(coming) <= Len(T)
          /\ sock \in {"syn", "est"} => z + Len(ibuf') + Len(inb) + Len(coming) = Len(T)
          /\ \A i \in 1..Len(inb) : inb[i] = T[z + Len(ibuf') + i]
          /\ \A i \in 1..Len(coming) : coming[i] = T[z + Len(ibuf') + Len(inb) + i]
      BY <2>5, <3>1, Zenon DEF b
    <3> QED
      BY <1>1, <3>1, <3>2, Zenon DEF Unread, z, T
  <2> QED
    BY <2>10, <2>16, Zenon DEF RepSize
<1> QED
  BY <1>9, <1>10, <1>11, <1>12, Zenon DEF Inv

\* A header that is none: the model stops.
LEMMA GarbledStep ==
  ASSUME Inv, Garbled
  PROVE  Inv'
<1>1. /\ pc' = "garbled" /\ queue' = queue /\ batch' = batch /\ asked' = asked /\ connected' = connected
      /\ mask' = mask /\ wcb' = wcb /\ ibuf' = ibuf /\ obuf' = obuf
      /\ sock' = sock /\ inb' = inb /\ coming' = coming /\ room' = room /\ closes' = closes /\ reps' = reps
      /\ calls' = calls /\ sent' = sent /\ accepted' = accepted /\ cut' = cut /\ torn' = torn
  BY Zenon DEF Garbled, netVars, histVars
<1>2. /\ pc' # "aborted" /\ pc' \notin {"poll", "drain", "write"} /\ pc' \notin {"poll", "drain", "parse"}
      /\ pc' \in {"poll", "drain", "parse", "write", "aborted", "garbled", "exited"}
  BY <1>1
<1>3. TypeOK'
  BY <1>1, <1>2, Types, TypesNext, ZenonT(60)
<1>4. InputInv'
  BY <1>1, <1>2, InputKept, Zenon
<1>5. RepliesWhole'
  BY <1>1, InvParts, RepliesKept, Zenon
<1>6. ArmInv' /\ RequestsWhole'
  BY <1>1, <1>2, OutputKept, Zenon
<1> QED
  BY <1>3, <1>4, <1>5, <1>6, Zenon DEF Inv

\* No header is left.
LEMMA ReadDoneStep ==
  ASSUME Inv, ReadDone
  PROVE  Inv'
<1>1. /\ pc = "parse" /\ Len(ibuf) < HeadLen /\ pc' = "poll"
      /\ queue' = queue /\ batch' = batch /\ asked' = asked /\ connected' = connected
      /\ mask' = mask /\ wcb' = wcb /\ ibuf' = ibuf /\ obuf' = obuf
      /\ sock' = sock /\ inb' = inb /\ coming' = coming /\ room' = room /\ closes' = closes /\ reps' = reps
      /\ calls' = calls /\ sent' = sent /\ accepted' = accepted /\ cut' = cut /\ torn' = torn
  BY Zenon DEF ReadDone, netVars, histVars
<1>2. /\ pc' # "aborted" /\ pc \in {"poll", "drain", "parse"}
      /\ pc' \in {"poll", "drain", "parse", "write", "aborted", "garbled", "exited"}
  BY <1>1
<1>3. TypeOK'
  BY <1>1, <1>2, Types, TypesNext, ZenonT(60)
<1>4. InputInv'
  BY <1>1, InvParts, Zenon DEF InputInv
<1>5. RepliesWhole'
  BY <1>1, InvParts, RepliesKept, Zenon
<1>6. ArmInv' /\ RequestsWhole'
  BY <1>1, <1>2, OutputKept, Zenon
<1> QED
  BY <1>3, <1>4, <1>5, <1>6, Zenon DEF Inv

-----------------------------------------------------------------------------
(* do_write *)

\* The loop calls do_write: there is output.
LEMMA WriteReadyStep ==
  ASSUME Inv, WriteReady
  PROVE  Inv'
<1>1. /\ pc = "poll" /\ "out" \in mask /\ wcb = "write" /\ pc' = IF obuf # <<>> THEN "write" ELSE "aborted"
      /\ queue' = queue /\ batch' = batch /\ asked' = asked /\ connected' = connected
      /\ mask' = mask /\ wcb' = wcb /\ ibuf' = ibuf /\ obuf' = obuf
      /\ sock' = sock /\ inb' = inb /\ coming' = coming /\ room' = room /\ closes' = closes /\ reps' = reps
      /\ calls' = calls /\ sent' = sent /\ accepted' = accepted /\ cut' = cut /\ torn' = torn
  BY Zenon DEF WriteReady, netVars, histVars
<1>2. obuf # <<>>
  BY <1>1, InvParts, Zenon DEF ArmInv
<1>3. /\ pc' # "aborted" /\ pc' \notin {"poll", "drain", "parse"} /\ pc \in {"poll", "drain", "write"}
      /\ pc' \in {"poll", "drain", "parse", "write", "aborted", "garbled", "exited"}
  BY <1>1, <1>2
<1>4. TypeOK'
  BY <1>1, <1>3, Types, TypesNext, ZenonT(60)
<1>5. InputInv'
  BY <1>1, <1>3, InputKept, Zenon
<1>6. RepliesWhole'
  BY <1>1, InvParts, RepliesKept, Zenon
<1>7. ArmInv' /\ RequestsWhole'
  BY <1>1, <1>3, OutputKept, Zenon
<1> QED
  BY <1>4, <1>5, <1>6, <1>7, Zenon DEF Inv

\* What write() takes is sent, the rest stays.
LEMMA WriteSomeStep ==
  ASSUME Inv, NEW n \in 1..SndBuf, WriteSome(n)
  PROVE  Inv'
<1> DEFINE f == Prefix(obuf, n)
           g == Drop(obuf, n)
<1>1. /\ pc = "write" /\ n <= Len(obuf) /\ n <= room /\ sent' = sent \o f /\ obuf' = g /\ room' = room - n
      /\ queue' = queue /\ batch' = batch /\ asked' = asked /\ connected' = connected
      /\ mask' = mask /\ wcb' = wcb /\ ibuf' = ibuf /\ pc' = pc
      /\ sock' = sock /\ inb' = inb /\ coming' = coming /\ closes' = closes /\ reps' = reps
      /\ calls' = calls /\ accepted' = accepted /\ cut' = cut /\ torn' = torn
  BY Zenon DEF WriteSome
<1>2. sent \in Seq(Byte) /\ obuf \in Seq(Byte) /\ Len(obuf) \in Nat /\ room \in 0..SndBuf /\ SndBuf \in Nat
  BY Types, ElementType, Sizes, Zenon
<1>3. n \in 0..Len(obuf) /\ room' \in 0..SndBuf
  BY <1>1, <1>2
<1>4. f \in Seq(Byte) /\ g \in Seq(Byte) /\ f \o g = obuf
  BY <1>2, <1>3, Prefixed, Dropped, CutAndJoined, Zenon
<1> HIDE DEF f, g
<1>5. sent' \in Seq(Byte)
  BY <1>1, <1>2, <1>4, Concat, Zenon
<1>6. sent' \o obuf' = sent \o obuf
  <2>1. (sent \o f) \o g = sent \o (f \o g)
    BY <1>2, <1>4, ConcatTwice, ZenonT(60)
  <2> QED
    BY <1>1, <1>4, <2>1, Zenon
<1>7. TypeOK'
  BY <1>1, <1>3, <1>4, <1>5, Types, TypesNext, ZenonT(60)
<1>8. InputInv'
  BY <1>1, InputKept, Zenon
<1>9. RepliesWhole'
  BY <1>1, InvParts, RepliesKept, Zenon
<1>10. ArmInv'
  <2>1. pc' \notin {"poll", "drain", "parse"}
    BY <1>1
  <2> QED
    BY <1>1, <2>1, InvParts, Zenon DEF ArmInv
<1>11. RequestsWhole'
  BY <1>1, <1>6, InvParts, Zenon DEF RequestsWhole
<1> QED
  BY <1>7, <1>8, <1>9, <1>10, <1>11, Zenon DEF Inv

\* do_write returns; EPOLLOUT is kept only when output is left.
LEMMA WriteDoneStep ==
  ASSUME Inv, WriteDone
  PROVE  Inv'
<1>1. /\ pc = "write" /\ mask' = (IF obuf = <<>> THEN mask \ {"out"} ELSE mask)
      /\ wcb' = (IF mask' = {} THEN "none" ELSE wcb) /\ pc' = "poll"
      /\ queue' = queue /\ batch' = batch /\ asked' = asked /\ connected' = connected
      /\ ibuf' = ibuf /\ obuf' = obuf
      /\ sock' = sock /\ inb' = inb /\ coming' = coming /\ room' = room /\ closes' = closes /\ reps' = reps
      /\ calls' = calls /\ sent' = sent /\ accepted' = accepted /\ cut' = cut /\ torn' = torn
  BY Zenon DEF WriteDone, netVars, histVars
<1>2. mask \in SUBSET {"in", "out"} /\ wcb \in {"none", "delay", "write"}
  BY Types, Zenon
<1>3. /\ mask' \in SUBSET {"in", "out"} /\ wcb' \in {"none", "delay", "write"}
      /\ ("in" \in mask' => "in" \in mask) /\ ("out" \in mask' => obuf # <<>>)
  BY <1>1, <1>2
<1>4. /\ pc' # "aborted" /\ pc \in {"poll", "drain", "write"}
      /\ pc' \in {"poll", "drain", "parse", "write", "aborted", "garbled", "exited"}
  BY <1>1
<1>5. TypeOK'
  BY <1>1, <1>3, <1>4, Types, TypesNext, ZenonT(60)
<1>6. InputInv'
  BY <1>1, <1>4, InputKept, Zenon
<1>7. RepliesWhole'
  BY <1>1, InvParts, RepliesKept, Zenon
<1>8. ArmInv'
  BY <1>1, <1>3, InvParts, Zenon DEF ArmInv
<1>9. RequestsWhole'
  BY <1>1, <1>4, InvParts, Zenon DEF RequestsWhole
<1> QED
  BY <1>5, <1>6, <1>7, <1>8, <1>9, Zenon DEF Inv
-----------------------------------------------------------------------------
(* The theorems *)

\* The constructor establishes the invariant.
LEMMA InitInv ==
  ASSUME Init
  PROVE  Inv
<1>1. /\ queue = <<>> /\ batch = <<>> /\ asked = 0 /\ sock = "syn" /\ connected = FALSE
      /\ mask = {"out"} /\ wcb = "delay" /\ ibuf = <<>> /\ obuf = <<>> /\ pc = "poll"
      /\ inb = <<>> /\ coming = <<>> /\ room = SndBuf /\ closes = 0 /\ reps = 0
      /\ calls = <<>> /\ sent = <<>> /\ accepted = <<>> /\ cut = FALSE /\ torn = FALSE
  BY Zenon DEF Init
<1>2. TypeOK
  <2>1. {queue, batch, accepted} \subseteq Seq(Nat) /\ asked \in Nat
    BY <1>1
  <2>2. {ibuf, obuf, inb, coming, sent} \subseteq Seq(Byte) /\ calls \in Seq(Seq(Byte))
    BY <1>1
  <2>3. room \in 0..SndBuf /\ {closes, reps} \subseteq Nat
    BY <1>1, Sizes
  <2>4. {connected, cut, torn} \subseteq BOOLEAN
    BY <1>1, Zenon
  <2>5. /\ sock \in {"syn", "est", "refused", "shut"} /\ mask \subseteq {"in", "out"}
        /\ wcb \in {"none", "delay", "write"}
        /\ pc \in {"poll", "drain", "parse", "write", "aborted", "garbled", "exited"}
    BY <1>1, Zenon
  <2> QED
    BY <2>1, <2>2, <2>3, <2>4, <2>5, Zenon DEF TypeOK
<1>3. Len(ibuf) = 0 /\ Len(inb) = 0 /\ Len(coming) = 0 /\ Len(calls) = 0 /\ Len(accepted) = 0 /\ 1..0 = {}
  BY <1>1
<1>4. InputInv
  <2>1. 0 <= RcvBuf /\ 0 < HeadLen
    BY Sizes
  <2> QED
    BY <1>3, <2>1, Zenon DEF InputInv
<1>5. ArmInv
  <2>1. "in" \notin mask /\ wcb # "write"
    BY <1>1
  <2> QED
    BY <2>1, Zenon DEF ArmInv
<1>6. RepliesWhole
  <2>1. Len(Replies(reps)) = 0 /\ (HeadLen + RepLen) * Len(calls) = 0 /\ 0 + 0 + 0 + 0 = 0 /\ 0 <= 0
    <3>1. reps \in Nat
      BY <1>1
    <3>2. Len(Replies(reps)) = RepSize * reps
      BY <3>1, RepliesType, Zenon
    <3>3. RepSize * 0 = 0 /\ (HeadLen + RepLen) * 0 = 0 /\ 0 + 0 + 0 + 0 = 0 /\ 0 <= 0
      BY Sizes DEF RepSize
    <3> QED
      BY <1>1, <1>3, <3>2, <3>3, Zenon
  <2>2. Unread((HeadLen + RepLen) * Len(calls))
    BY <1>3, <2>1, Zenon DEF Unread
  <2> QED
    BY <1>3, <2>2, Zenon DEF RepliesWhole
<1>7. RequestsWhole
  <2>1. pc # "aborted" /\ accepted \in Seq(Nat) /\ ReqLen \in Nat /\ sent \o obuf = <<>>
    BY <1>1, Sizes
  <2> DEFINE f == Frames(accepted, ReqLen)
  <2>2. f \in Seq(Byte) /\ Len(f) = (HeadLen + ReqLen) * Len(accepted)
    BY <2>1, FramesType, Zenon
  <2> HIDE DEF f
  <2>3. (HeadLen + ReqLen) * 0 = 0
    BY Sizes
  <2>4. Len(f) = 0
    BY <1>3, <2>2, <2>3, Zenon
  <2>5. f = <<>>
    BY <2>2, <2>4
  <2> QED
    BY <2>1, <2>5, Zenon DEF RequestsWhole, f
<1> QED
  BY <1>2, <1>4, <1>5, <1>6, <1>7, Zenon DEF Inv

\* Every step preserves it.
LEMMA NextInv ==
  ASSUME Inv, [Next]_vars
  PROVE  Inv'
<1>1. ASSUME NewRequest PROVE Inv'
  BY <1>1, NewRequestStep, Zenon
<1>2. ASSUME SendNext PROVE Inv'
  BY <1>2, SendNextStep, Zenon
<1>3. ASSUME SendDone PROVE Inv'
  BY <1>3, SendDoneStep, Zenon
<1>4. ASSUME NEW res \in Results, ConnectionDelay(res) PROVE Inv'
  <2>1. res \in {"ok", "error", "wild"}
    BY DEF Results
  <2> QED
    BY <1>4, <2>1, ConnectionDelayStep, Zenon
<1>5. ASSUME ReadSome PROVE Inv'
  BY <1>5, ReadSomeStep, Zenon
<1>6. ASSUME NEW how \in Outcomes, ReadEof(how) PROVE Inv'
  BY <1>6, ReadEofStep, Zenon
<1>7. ASSUME HandleMessage PROVE Inv'
  BY <1>7, HandleMessageStep, Zenon
<1>8. ASSUME Garbled PROVE Inv'
  BY <1>8, GarbledStep, Zenon
<1>9. ASSUME ReadDone PROVE Inv'
  BY <1>9, ReadDoneStep, Zenon
<1>10. ASSUME WriteReady PROVE Inv'
  BY <1>10, WriteReadyStep, Zenon
<1>11. ASSUME NEW n \in 1..SndBuf, WriteSome(n) PROVE Inv'
  BY <1>11, WriteSomeStep, Zenon
<1>12. ASSUME NEW how \in Outcomes, WriteError(how) PROVE Inv'
  BY <1>12, WriteErrorStep, Zenon
<1>13. ASSUME WriteDone PROVE Inv'
  BY <1>13, WriteDoneStep, Zenon
<1>14. ASSUME Enqueue PROVE Inv'
  BY <1>14, EnqueueStep, Zenon
<1>15. ASSUME NEW how \in {"est", "refused"}, Answer(how) PROVE Inv'
  BY <1>15, AnswerStep, Zenon
<1>16. ASSUME ServerReplies PROVE Inv'
  BY <1>16, ServerRepliesStep, Zenon
<1>17. ASSUME NEW n \in 1..RcvBuf, Arrive(n) PROVE Inv'
  BY <1>17, ArriveStep, Zenon
<1>18. ASSUME ServerReads PROVE Inv'
  BY <1>18, ServerReadsStep, Zenon
<1>19. ASSUME ServerCloses PROVE Inv'
  BY <1>19, ServerClosesStep, Zenon
<1>20. ASSUME UNCHANGED vars PROVE Inv'
  <2>1. /\ queue' = queue /\ batch' = batch /\ asked' = asked /\ connected' = connected
        /\ mask' = mask /\ wcb' = wcb /\ ibuf' = ibuf /\ obuf' = obuf /\ pc' = pc
        /\ sock' = sock /\ inb' = inb /\ coming' = coming /\ room' = room /\ closes' = closes /\ reps' = reps
        /\ calls' = calls /\ sent' = sent /\ accepted' = accepted /\ cut' = cut /\ torn' = torn
    BY <1>20, Zenon DEF vars, loopVars, netVars, histVars
  <2>2. TypeOK'
    BY <2>1, Types, TypesNext, ZenonT(60)
  <2>3. InputInv'
    BY <2>1, InputKept, Zenon
  <2>4. RepliesWhole'
    BY <2>1, InvParts, RepliesKept, Zenon
  <2>5. ArmInv' /\ RequestsWhole'
    BY <2>1, InvParts, OutputKept, Zenon
  <2> QED
    BY <2>2, <2>3, <2>4, <2>5, Zenon DEF Inv
<1>21. ASSUME Loop PROVE Inv'
  BY <1>1, <1>2, <1>3, <1>4, <1>5, <1>6, <1>7, <1>8, <1>9, <1>10, <1>11, <1>12, <1>13, <1>21, Zenon DEF Loop
<1>22. ASSUME Server PROVE Inv'
  BY <1>15, <1>16, <1>17, <1>18, <1>19, <1>22, Zenon DEF Server
<1> QED
  BY <1>14, <1>20, <1>21, <1>22, Zenon DEF Next

\* The invariant holds in every state of the client.
THEOREM ClientInvariance == Spec => []Inv
<1>1. Init => Inv
  BY InitInv, Zenon
<1>2. Inv /\ [Next]_vars => Inv'
  BY NextInv, Zenon
<1> QED
  BY <1>1, <1>2, PTL DEF Spec

\* As long as no read ends within a body and no connection is lost within a
\* reply, the callbacks that tcp_client::do_read calls see the bodies of the
\* connection's replies, whole and in order, over any number of connections.
THEOREM RepliesSeen == Spec => []RepliesWhole
<1>1. Inv => RepliesWhole
  BY Zenon DEF Inv
<1> QED
  BY <1>1, ClientInvariance, PTL

\* As long as no connection is lost within a frame, do_write sends the frames of
\* the requests that send_message accepted, in order and once, those that
\* clean_conn leaves in _obuf to the next connection included; and neither
\* do_read's assertion on the connection nor do_write's on the output fails.
THEOREM RequestsSent == Spec => []RequestsWhole
<1>1. Inv => RequestsWhole
  BY Zenon DEF Inv
<1> QED
  BY <1>1, ClientInvariance, PTL
=============================================================================
