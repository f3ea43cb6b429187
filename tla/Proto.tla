------------------------------- MODULE Proto -------------------------------
(***************************************************************************)
(* The messages of rins.proto as the generated classes treat them:         *)
(* accessors, Clear, ByteSizeLong, _InternalSerialize, _InternalParse and  *)
(* MergeImpl, on objects of seven types and on real byte sequences.        *)
(*                                                                         *)
(* The generated functions of a class are one block per field.  Here a     *)
(* class is the list of its fields and each function is written once over  *)
(* that list; the field numbers are the positions, as in rins.proto.       *)
(*                                                                         *)
(* The word sizes are constants, so that TLC's integers hold the 64-bit    *)
(* two's complement in which a negative int32 is sent.                     *)
(***************************************************************************)
EXTENDS Integers, Sequences, SequencesExt

CONSTANTS
  GroupBits,  \* payload bits of a byte of a varint: 7
  IntBits,    \* 32
  LongBits,   \* 64
  Values,     \* the values a scalar of each kind is set to
  MaxRows     \* bound on a repeated field

ASSUME ProtoAssumption ==
  /\ GroupBits \in 6..7 /\ IntBits \in Nat /\ LongBits \in IntBits..27
  /\ \A k \in {"int32", "uint32", "bool"} : 0 \in Values[k]
  /\ MaxRows \in Nat

VARIABLES
  type,    \* class of the message that is sent
  msg,     \* the sender's object
  wire,    \* the bytes
  reader,  \* class of the receiver's object
  got,     \* the receiver's object and the result of its ParseFromArray
  phase

vars == <<type, msg, wire, reader, got, phase>>

-----------------------------------------------------------------------------
(* Classes *)

Int32 == [kind |-> "int32", of |-> <<>>]
UInt32 == [kind |-> "uint32", of |-> <<>>]
Bool == [kind |-> "bool", of |-> <<>>]
Optional(c) == [kind |-> "message", of |-> c]
Repeated(c) == [kind |-> "repeated", of |-> c]

HostInfo == <<Int32, Int32>>
GetRouteRequest == <<Int32, Int32>>
GetRouteResponse == <<Int32, Int32, Repeated(HostInfo)>>
HostCallResult == <<Int32, Int32, UInt32, UInt32, Bool>>
ReportStatusRequest == <<Int32, Int32, Int32, Repeated(HostCallResult), UInt32>>
GetHostRequest == <<UInt32, Int32, Int32>>
GetHostResponse == <<UInt32, Int32, Int32, Int32, Optional(HostInfo)>>

\* GetRouteRequest has the fields of HostInfo.
Classes == {HostInfo, GetRouteResponse, HostCallResult, ReportStatusRequest,
            GetHostRequest, GetHostResponse}

Scalar(f) == f.kind \in {"int32", "uint32", "bool"}

\* A new object: zeros, no sub-messages, no unknown fields.
Default(c) ==
  [fields |-> [i \in DOMAIN c |-> IF Scalar(c[i]) THEN 0 ELSE <<>>],
   unknown |-> <<>>]

-----------------------------------------------------------------------------
(* Varints, as the protobuf library writes and reads them *)

Base == 2^GroupBits
MaxGroups == (LongBits + GroupBits - 1) \div GroupBits

VarintSize(u) == CHOOSE n \in 1..MaxGroups :
                   u < Base^n /\ (n > 1 => u >= Base^(n - 1))

Varint(u) ==
  LET n == VarintSize(u)
  IN [i \in 1..n |-> ((u \div Base^(i - 1)) % Base) + (IF i < n THEN Base ELSE 0)]

\* A negative int32 is sent as a 64-bit number.
Widen(v) == IF v < 0 THEN v + 2^LongBits ELSE v

\* ReadVarint32 and ReadVarint64, as they are assigned to a field
Narrow(f, u) ==
  LET w == u % 2^IntBits
  IN CASE f.kind = "bool" -> IF u = 0 THEN 0 ELSE 1
       [] f.kind = "uint32" -> w
       [] f.kind = "int32" -> IF w >= 2^(IntBits - 1) THEN w - 2^IntBits ELSE w

\* A byte behind the end is read from the stream's patch buffer, as zero.
ByteAt(b, p) == IF p <= Len(b) THEN b[p] ELSE 0

\* The value of the varint at p, and the position behind it.
ReadVarint(b, p) ==
  LET stop == {n \in 1..MaxGroups : ByteAt(b, p + n - 1) < Base}
      n == CHOOSE n \in stop : \A k \in stop : n <= k
  IN IF stop = {} THEN [val |-> 0, next |-> Len(b) + 2]
     ELSE [val |-> FoldLeft(LAMBDA a, i : a + (ByteAt(b, p + i - 1) % Base) * Base^(i - 1),
                            0, [i \in 1..n |-> i]),
           next |-> p + n]

WireType(f) == IF Scalar(f) THEN 0 ELSE 2
Tag(i, f) == 8 * i + WireType(f)

-----------------------------------------------------------------------------
(* ByteSizeLong and _InternalSerialize *)

RECURSIVE ByteSizeLong(_, _), InternalSerialize(_, _)

\* UInt32SizePlusOne, Int32SizePlusOne and, for bool, 1 + 1
SizePlusOne(f, v) == 1 + (IF v < 0 THEN MaxGroups ELSE VarintSize(v))

MessageSize(c, o) == VarintSize(ByteSizeLong(c, o)) + ByteSizeLong(c, o)

Total(s) == FoldLeft(LAMBDA a, n : a + n, 0, s)

FieldSize(f, v) ==
  IF Scalar(f) THEN IF v = 0 THEN 0 ELSE SizePlusOne(f, v)
  ELSE Total([j \in 1..Len(v) |-> 1 + MessageSize(f.of, v[j])])

ByteSizeLong(c, o) ==
  Total([i \in DOMAIN c |-> FieldSize(c[i], o.fields[i])]) + Len(o.unknown)

\* A mutant of WriteField: an int32 is cut to its own width.
WriteFieldShort(i, f, v) ==
  IF Scalar(f)
    THEN IF v = 0 THEN <<>> ELSE <<Tag(i, f)>> \o Varint(Widen(v) % 2^IntBits)
    ELSE FlattenSeq([j \in 1..Len(v) |->
           <<Tag(i, f)>> \o Varint(ByteSizeLong(f.of, v[j])) \o InternalSerialize(f.of, v[j])])

\* One field: nothing for zero, otherwise the tag and the value; a sub-message
\* is preceded by its size.
WriteField(i, f, v) ==
  IF Scalar(f)
    THEN IF v = 0 THEN <<>> ELSE <<Tag(i, f)>> \o Varint(Widen(v))
    ELSE FlattenSeq([j \in 1..Len(v) |->
           <<Tag(i, f)>> \o Varint(ByteSizeLong(f.of, v[j])) \o InternalSerialize(f.of, v[j])])

InternalSerialize(c, o) ==
  FlattenSeq([i \in DOMAIN c |-> WriteField(i, c[i], o.fields[i])]) \o o.unknown

-----------------------------------------------------------------------------
(* _InternalParse *)

RECURSIVE InternalParse(_, _, _, _)

\* UnknownFieldParse: the position behind the value of an unknown field.
Skip(b, p, wt) ==
  CASE wt = 0 -> ReadVarint(b, p).next
    [] wt = 1 -> p + 8
    [] wt = 2 -> ReadVarint(b, p).next + ReadVarint(b, p).val
    [] wt = 5 -> p + 4
    [] OTHER -> Len(b) + 2

\* A mutant of KeepUnknown: unknown fields are dropped.
KeepUnknownDrop(o, bytes) == o

KeepUnknown(o, bytes) == [o EXCEPT !.unknown = @ \o bytes]

\* ParseMessage: into the one sub-message of the field or into a new last one,
\* within the length that is read first.
ParseMessage(c, o, i, b, p) ==
  LET f == c[i]
      subs == o.fields[i]
      size == ReadVarint(b, p)
      end == size.next + size.val
      old == IF f.kind = "message" /\ subs # <<>> THEN subs[1] ELSE Default(f.of)
      sub == InternalParse(f.of, old, SubSeq(b, size.next, Min({end - 1, Len(b)})), 1)
      o2 == [o EXCEPT !.fields[i] = IF f.kind = "message" THEN <<sub.obj>>
                                    ELSE Append(subs, sub.obj)]
  IN IF sub.ok /\ (end <= Len(b) + 1 \/ size.val = 0)
       THEN InternalParse(c, o2, b, end)
       ELSE [ok |-> FALSE, obj |-> o2]

\* A mutant of AtEnd: reading past the end goes unnoticed.
AtEndLax(b, p) == TRUE

AtEnd(b, p) == p = Len(b) + 1

\* The object o after the bytes of b from p on, and whether they end with the
\* end of a field.
InternalParse(c, o, b, p) ==
  IF p > Len(b) THEN [ok |-> AtEnd(b, p), obj |-> o]
  ELSE
    LET tag == ReadVarint(b, p)
        i == tag.val \div 8
        wt == tag.val % 8
    IN CASE i \in DOMAIN c /\ wt = 0 /\ WireType(c[i]) = 0 ->
              LET v == ReadVarint(b, tag.next)
              IN InternalParse(c, [o EXCEPT !.fields[i] = Narrow(c[i], v.val)], b, v.next)
         [] i \in DOMAIN c /\ wt = 2 /\ WireType(c[i]) = 2 ->
              ParseMessage(c, o, i, b, tag.next)
         [] tag.val = 0 \/ wt = 4 -> [ok |-> FALSE, obj |-> o]
         [] OTHER ->
              LET end == Skip(b, tag.next, wt)
              IN InternalParse(c, KeepUnknown(o, SubSeq(b, p, Min({end - 1, Len(b)}))), b, end)

\* A mutant of Clear: repeated fields keep their elements.
ClearScalars(c, o) ==
  [Default(c) EXCEPT !.fields = [i \in DOMAIN c |-> IF Scalar(c[i]) THEN 0 ELSE o.fields[i]]]

Clear(c, o) == Default(c)

\* ParseFromArray clears the object and merges the bytes into it.
ParseFromArray(c, o, b) == InternalParse(c, Clear(c, o), b, 1)

-----------------------------------------------------------------------------
RECURSIVE MergeImpl(_, _, _)

\* A mutant of MergeField: the sub-message is replaced.
MergeFieldReplace(f, to, from) ==
  CASE Scalar(f) -> IF from # 0 THEN from ELSE to
    [] f.kind = "repeated" -> to \o from
    [] f.kind = "message" -> IF from # <<>> THEN from ELSE to

MergeField(f, to, from) ==
  CASE Scalar(f) -> IF from # 0 THEN from ELSE to
    [] f.kind = "repeated" -> to \o from
    [] f.kind = "message" ->
         IF from = <<>> THEN to
         ELSE <<MergeImpl(f.of, IF to = <<>> THEN Default(f.of) ELSE to[1], from[1])>>

MergeImpl(c, to, from) ==
  [fields |-> [i \in DOMAIN c |-> MergeField(c[i], to.fields[i], from.fields[i])],
   unknown |-> to.unknown \o from.unknown]

-----------------------------------------------------------------------------
(* Sub-messages that are added: an empty one, and one with all fields set. *)

Full(c) == [Default(c) EXCEPT
              !.fields = [i \in DOMAIN c |->
                IF Scalar(c[i]) THEN CHOOSE v \in Values[c[i].kind] : v # 0
                ELSE <<[Default(c[i].of) EXCEPT !.fields[1] = 1]>>]]

Rows(c) == {Default(c), Full(c)}

InRange(f, v) ==
  CASE f.kind = "bool" -> v \in 0..1
    [] f.kind = "uint32" -> v \in 0..(2^IntBits - 1)
    [] f.kind = "int32" -> v \in (-(2^(IntBits - 1)))..(2^(IntBits - 1) - 1)
    [] f.kind = "message" -> Len(v) <= 1
    [] f.kind = "repeated" -> Len(v) <= MaxRows + 1

IsObject(c, o) ==
  /\ DOMAIN o.fields = DOMAIN c
  /\ \A i \in DOMAIN c : InRange(c[i], o.fields[i])
  /\ \A j \in 1..Len(o.unknown) : o.unknown[j] \in 0..(2 * Base - 1)

\* The type invariant: objects stay within the ranges of their C++ members,
\* whatever was parsed.
TypeOK ==
  /\ {type, reader} \subseteq Classes
  /\ IsObject(type, msg)
  /\ IsObject(reader, got.obj)
  /\ \A j \in 1..Len(wire) : wire[j] \in 0..(2 * Base - 1)
  /\ phase \in {"build", "sent", "received", "relayed"}

\* The receiver's object is new, or left from an earlier message.
Init ==
  /\ type \in Classes
  /\ msg = Default(type)
  /\ wire = <<>>
  /\ reader = type
  /\ \E o \in {Default(type), Full(type)} : got = [ok |-> TRUE, obj |-> o]
  /\ phase = "build"

\* set_<field>
Set(i, v) ==
  /\ phase = "build"
  /\ Scalar(type[i]) /\ v \in Values[type[i].kind]
  /\ msg' = [msg EXCEPT !.fields[i] = v]
  /\ UNCHANGED <<type, wire, reader, got, phase>>

\* add_<field> or mutable_<field>, and the setters of what it returns
Add(i, row) ==
  /\ phase = "build"
  /\ ~Scalar(type[i])
  /\ type[i].kind = "repeated" => Len(msg.fields[i]) < MaxRows
  /\ msg' = [msg EXCEPT !.fields[i] = IF type[i].kind = "repeated" THEN Append(@, row)
                                      ELSE <<row>>]
  /\ UNCHANGED <<type, wire, reader, got, phase>>

SerializeToString ==
  /\ phase = "build"
  /\ wire' = InternalSerialize(type, msg)
  /\ phase' = "sent"
  /\ UNCHANGED <<type, msg, reader, got>>

\* A parser of the same class gets the first n bytes.
Receive(n) ==
  /\ phase = "sent"
  /\ wire' = SubSeq(wire, 1, n)
  /\ got' = ParseFromArray(type, got.obj, wire')
  /\ phase' = "received"
  /\ UNCHANGED <<type, msg, reader>>

\* A parser of another class gets all of them.
Relay(c) ==
  /\ phase = "sent"
  /\ reader' = c
  /\ got' = ParseFromArray(c, Default(c), wire)
  /\ phase' = "relayed"
  /\ UNCHANGED <<type, msg, wire>>

Next ==
  \/ \E i \in DOMAIN type :
       \/ Scalar(type[i]) /\ \E v \in Values[type[i].kind] : Set(i, v)
       \/ ~Scalar(type[i]) /\ \E row \in Rows(type[i].of) : Add(i, row)
  \/ SerializeToString
  \/ \E n \in 0..Len(wire) : Receive(n)
  \/ \E c \in Classes \ {type} : Relay(c)

Spec == Init /\ [][Next]_vars

-----------------------------------------------------------------------------
(* Properties *)

\* What ByteSizeLong announces, as rins_api.cc:48 does in the header before it
\* serialises, is what _InternalSerialize writes.
SizeExact == phase = "sent" => Len(wire) = ByteSizeLong(type, msg)

\* A message that arrives whole is read as it was sent, also into an object
\* that is used again (rins_api.cc:79).
RoundTrip ==
  phase = "received" /\ wire = InternalSerialize(type, msg)
    => got = [ok |-> TRUE, obj |-> msg]

\* Bytes that end early are accepted only at the end of a field, and then give
\* the message without its later fields; otherwise ParseFromArray fails, and at
\* most the field that was cut has a value that was not sent.
CutIsDetected ==
  phase = "received" =>
    /\ got.ok => InternalSerialize(type, got.obj) = wire
    /\ \E k \in DOMAIN type :
         \A i \in DOMAIN type \ {k} :
           got.obj.fields[i] \in {msg.fields[i], Default(type).fields[i]}

\* Parsing into an object that is not cleared is MergeFrom of the message.
MergeAgrees ==
  phase = "received" /\ wire = InternalSerialize(type, msg) =>
    InternalParse(type, Full(type), wire, 1).obj = MergeImpl(type, Full(type), msg)

\* No field of the reader would cut a value of the message's field.
Compatible ==
  \A i \in DOMAIN type \cap DOMAIN reader :
    reader[i].kind = "bool" => type[i].kind = "bool" \/ ~Scalar(type[i])

\* A class that knows fewer or other fields keeps the rest: when it serialises
\* the message again nothing is lost.
UnknownKept ==
  phase = "relayed" /\ Compatible =>
    /\ got.ok
    /\ ParseFromArray(type, Default(type), InternalSerialize(reader, got.obj))
         = [ok |-> TRUE, obj |-> msg]

=============================================================================
