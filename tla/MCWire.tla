------------------------------- MODULE MCWire -------------------------------
(***************************************************************************)
(* Wire for TLC: bytes of five bits, so that the 32-bit sentinel is an     *)
(* integer of TLC's; every struct with every Type, DATA around its bounds, *)
(* and overlapping segments that agree or conflict.                        *)
(***************************************************************************)
EXTENDS Wire, FiniteSetsExt

Kinds == {Kind(t) : t \in DataType .. AckType} \cup {"CommonPacket"}

\* Fields that are all 0, all different, or all ones (as far as TLC can count).
Value(pattern, at, w) ==
  CASE pattern = "zero" -> 0
    [] pattern = "index" -> (at * 37 + 5) % Base ^ Min({w, 4})
    [] pattern = "ones" -> Base ^ Min({w, 6}) - 1

Filled(kind, typ, pattern) ==
  LET table == MarshalCommon \cup MarshalOwn(kind)
      value(n) == LET f == CHOOSE f \in table : f[1] = n IN Value(pattern, f[2], f[3])
  IN [n \in {f[1] : f \in table} |-> IF n = Common("Type") THEN typ ELSE value(n)]

AnyStruct ==
  {[kind |-> k, field |-> Filled(k, t, v), payload |-> <<>>] :
      k \in Kinds, t \in DataType - 1 .. AckType + 1, v \in {"zero", "index", "ones"}}

AckCounts ==
  {[kind |-> "Ack", payload |-> <<>>,
    field |-> [Filled("Ack", AckType, "index") EXCEPT ![Common("NumAcks")] = n]] :
      n \in 0 .. MaxAcks + 1}

\* DATA of n bytes, in a message of length len.
DataOf(n, len, off, seq) ==
  [kind |-> "Data", payload |-> [i \in 1 .. n |-> i],
   field |-> [Filled("Data", DataType, "index") EXCEPT ![Common("MessageLength")] = len,
                ![Common("Incoming")] = len,
                ![Common("SegmentOffset")] = off, ![Common("Sequence")] = seq]]

DataBounds ==
  {DataOf(n, len, off, seq) :
      n \in 0 .. 2, len \in 0 .. MaxMessage + 1, seq \in {1, SequenceOffset},
      off \in 0 .. 2 \cup {SequenceOffset - 1, SequenceOffset}}

MCPackets == AnyStruct \cup AckCounts \cup DataBounds

MCSegments ==
  {DataOf(n, len, off, 1) : n \in 1 .. 2, len \in {MaxMessage - 1, MaxMessage},
      off \in 0 .. 3 \cup {SequenceOffset}}

=============================================================================
