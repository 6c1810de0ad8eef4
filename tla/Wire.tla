-------------------------------- MODULE Wire --------------------------------
(***************************************************************************)
(* Homa's packet headers as bytes (internal/wire/wire.go): Marshal, the    *)
(* network, which may cut a datagram short or pad it, Parse, and what data *)
(* (endpoint.go) stores of the DATA of one RPC.  What Marshal writes and   *)
(* what Parse reads are given by separate tables of fields, as in the code.*)
(* The rest of data is in Endpoint.                                        *)
(*                                                                         *)
(* A byte is a number below Base, an integer of w bytes a number below     *)
(* Base^w; the Go code has Base = 256.  Pointers to packets, which Marshal *)
(* follows first, are left out.                                            *)
(***************************************************************************)
EXTENDS Integers, Sequences, FiniteSets

CONSTANTS
  Base,       \* values of a byte
  Width,      \* bits of a byte of the bitmap
  Packets,    \* the packets that are marshalled
  Segments,   \* bound: those that are marshalled once a buffer exists
  MaxPieces,  \* bound: segments that are stored
  MaxMessage, \* the receiver's limit on MessageLength
  MaxPad,     \* bound: bytes of padding
  Nil, Err    \* nothing yet; an error

ASSUME WireAssumption ==
  /\ Base \in Nat \ (0 .. 24)
  /\ Width \in Nat \ {0}
  /\ MaxPieces \in Nat
  /\ MaxMessage \in Nat \ {0}
  /\ MaxPad \in Nat

VARIABLES
  packet,  \* the packet that Marshal was given
  bytes,   \* the datagram, or Err if Marshal refused
  damage,  \* the bytes that the network added, or cut (< 0)
  got,     \* what Parse returned
  rx,      \* r.rx, the assembly of one RPC
  stored   \* history: the segments that data has stored in it

vars == <<packet, bytes, damage, got, rx, stored>>

DataType == 16
GrantType == 17
ResendType == 18
RPCUnknownType == 19
BusyType == 20
CutoffsType == 21
FreezeType == 22
NeedAckType == 23
AckType == 24

CommonSize == 28
MaxPriorities == 8
MaxAcks == 5
SequenceOffset == Base ^ 4 - 1

HeaderSize(typ) ==
  CASE typ = DataType -> 56
    [] typ = GrantType -> 33
    [] typ = ResendType -> 37
    [] typ \in {RPCUnknownType, BusyType, FreezeType, NeedAckType} -> CommonSize
    [] typ = CutoffsType -> 62
    [] typ = AckType -> 80
    [] OTHER -> 0

-----------------------------------------------------------------------------
(* A field: its name with an index, where it starts, how many bytes it has. *)

F(name, at, width) == <<<<name, 0>>, at, width>>

Common(x) == <<x, 0>>

MarshalCommon ==
  {F("SourcePort", 0, 2), F("DestinationPort", 2, 2), F("Sequence", 4, 4), F("AckBytes", 8, 3),
   F("Type", 11, 1), F("DataOffset", 12, 1), F("Flags", 13, 1), F("Window", 14, 2),
   F("Checksum", 16, 2), F("Urgent", 18, 2), F("SenderID", 20, 8)}

MarshalAck(i, at) == {<<<<"ClientID", i>>, at, 8>>, <<<<"ServerPort", i>>, at + 8, 2>>}

MarshalOwn(kind) ==
  CASE kind = "Data" -> {F("MessageLength", 28, 4), F("Incoming", 32, 4), F("CutoffVersion", 46, 2),
                         F("Retransmit", 48, 1), F("Padding", 49, 3), F("SegmentOffset", 52, 4)}
                        \cup MarshalAck(0, 36)
    [] kind = "Grant" -> {F("Offset", 28, 4), F("Priority", 32, 1)}
    [] kind = "Resend" -> {F("Offset", 28, 4), F("Length", 32, 4), F("Priority", 36, 1)}
    [] kind = "Cutoffs" -> {<<<<"Cutoff", i>>, 28 + i * 4, 4>> : i \in 0 .. MaxPriorities - 1}
                           \cup {F("CutoffVersion", 60, 2)}
    [] kind = "Ack" -> {F("NumAcks", 28, 2)} \cup
                       UNION {MarshalAck(i, 30 + i * 10) : i \in 0 .. MaxAcks - 1}
    [] OTHER -> {}

ParseCommon ==
  {F("SourcePort", 0, 2), F("DestinationPort", 2, 2), F("Sequence", 4, 4), F("AckBytes", 8, 3),
   F("Type", 11, 1), F("DataOffset", 12, 1), F("Flags", 13, 1), F("Window", 14, 2),
   F("Checksum", 16, 2), F("Urgent", 18, 2), F("SenderID", 20, 8)}

ParseAck(i, at) == {<<<<"ClientID", i>>, at, 8>>, <<<<"ServerPort", i>>, at + 8, 2>>}

\* Mutant: RESEND is read with its two numbers swapped.
ParseResendSwapped == {F("Length", 28, 4), F("Offset", 32, 4), F("Priority", 36, 1)}

ParseResend == {F("Offset", 28, 4), F("Length", 32, 4), F("Priority", 36, 1)}

ParseOwn(typ) ==
  CASE typ = DataType -> {F("MessageLength", 28, 4), F("Incoming", 32, 4), F("CutoffVersion", 46, 2),
                          F("Retransmit", 48, 1), F("Padding", 49, 3), F("SegmentOffset", 52, 4)}
                         \cup ParseAck(0, 36)
    [] typ = GrantType -> {F("Offset", 28, 4), F("Priority", 32, 1)}
    [] typ = ResendType -> ParseResend
    [] typ = CutoffsType -> {<<<<"Cutoff", i>>, 28 + 4 * i, 4>> : i \in 0 .. MaxPriorities - 1}
                            \cup {F("CutoffVersion", 60, 2)}
    [] typ = AckType -> {F("NumAcks", 28, 2)} \cup
                        UNION {ParseAck(i, 30 + i * 10) : i \in 0 .. MaxAcks - 1}
    [] OTHER -> {}

\* binary.BigEndian: byte k of the w bytes of v, and the w bytes of b from at on.
PutByte(v, w, k) ==
  LET shifted[n \in 0 .. w] == IF n = 0 THEN v ELSE shifted[n - 1] \div Base
  IN shifted[w - 1 - k] % Base

Uint(b, at, w) ==
  LET value[n \in 0 .. w] == IF n = 0 THEN 0 ELSE value[n - 1] * Base + b[at + n]
  IN value[w]

-----------------------------------------------------------------------------
(* Marshal. *)

Kind(typ) ==
  CASE typ = DataType -> "Data"
    [] typ = GrantType -> "Grant"
    [] typ = ResendType -> "Resend"
    [] typ = RPCUnknownType -> "RPCUnknown"
    [] typ = BusyType -> "Busy"
    [] typ = CutoffsType -> "Cutoffs"
    [] typ = FreezeType -> "Freeze"
    [] typ = NeedAckType -> "NeedAck"
    [] typ = AckType -> "Ack"
    [] OTHER -> "unknown"

Typ(p) == p.field[Common("Type")]

Refuses(p) ==
  \/ HeaderSize(Typ(p)) = 0
  \/ (p.kind = "Ack" /\ p.field[Common("NumAcks")] > MaxAcks)
  \/ IF p.kind = "CommonPacket" THEN HeaderSize(Typ(p)) # CommonSize ELSE p.kind # Kind(Typ(p))

Marshal(p) ==
  LET header == [x \in 1 .. HeaderSize(Typ(p)) |->
        LET over == {f \in MarshalCommon \cup MarshalOwn(p.kind) : x - 1 \in f[2] .. f[2] + f[3] - 1}
        IN IF over = {} THEN 0
           ELSE LET f == CHOOSE f \in over : TRUE
                IN PutByte(p.field[f[1]], f[3], x - 1 - f[2])]
  IN IF Refuses(p) THEN Err ELSE header \o p.payload

-----------------------------------------------------------------------------
(* Parse. *)

Fields(b, typ) ==
  LET table == ParseCommon \cup ParseOwn(typ)
  IN [n \in {f[1] : f \in table} |->
        LET f == CHOOSE f \in table : f[1] = n IN Uint(b, f[2], f[3])]

Parse(b) ==
  LET typ == Uint(b, 11, 1)
  IN IF Len(b) < CommonSize THEN Err
     ELSE IF HeaderSize(typ) = 0 \/ Len(b) < HeaderSize(typ) THEN Err
     ELSE IF typ = AckType /\ Uint(b, 28, 2) > MaxAcks THEN Err
     ELSE [kind |-> Kind(typ), field |-> Fields(b, typ),
           payload |-> IF typ = DataType THEN SubSeq(b, HeaderSize(typ) + 1, Len(b)) ELSE <<>>]

EffectiveOffset(p) ==
  IF p.field[Common("SegmentOffset")] = SequenceOffset
    THEN p.field[Common("Sequence")] ELSE p.field[Common("SegmentOffset")]

ValidateBounds(p, maxMessage) ==
  /\ p.field[Common("MessageLength")] \in 1 .. maxMessage
  /\ EffectiveOffset(p) + Len(p.payload) <= p.field[Common("MessageLength")]

-----------------------------------------------------------------------------
(* data: the buffer, the bitmap and the count of an assembly. *)

Segment(p) == [offset |-> EffectiveOffset(p), payload |-> p.payload]

Span(s) == s.offset .. s.offset + Len(s.payload) - 1

ByteAt(s, at) == s.payload[at - s.offset + 1]

Bit(at) == <<at \div Width, at % Width>>

Allocate(n) ==
  [len |-> n, bitBytes |-> (n + Width - 1) \div Width, bits |-> {}, data |-> <<>>, count |-> 0]

\* Mutant: the comparison starts one byte late.
ConflictLate(a, s) ==
  \E at \in Span(s) \ {s.offset} : Bit(at) \in a.bits /\ a.data[at] # ByteAt(s, at)

Conflict(a, s) == \E at \in Span(s) : Bit(at) \in a.bits /\ a.data[at] # ByteAt(s, at)

Fill(a, s) ==
  LET new == {at \in Span(s) : Bit(at) \notin a.bits}
  IN [a EXCEPT !.bits = @ \cup {Bit(at) : at \in new},
               !.data = [at \in DOMAIN a.data \cup new |->
                           IF at \in new THEN ByteAt(s, at) ELSE a.data[at]],
               !.count = @ + Cardinality(new)]

Received == rx # Nil /\ rx.count = rx.len

\* The first segment allocates (its memory is reserved: Endpoint has the refusal); one
\* of another length, or that conflicts with what is there, is dropped.
data(p) ==
  LET a == IF rx = Nil THEN Allocate(p.field[Common("MessageLength")]) ELSE rx
  IN IF /\ ValidateBounds(p, MaxMessage)
        /\ p.payload # <<>>
        /\ p.field[Common("Incoming")] <= p.field[Common("MessageLength")]
        /\ ~Received
        /\ a.len = p.field[Common("MessageLength")]
        /\ ~Conflict(a, Segment(p))
     THEN /\ rx' = Fill(a, Segment(p))
          /\ stored' = stored \cup {Segment(p)}
     ELSE UNCHANGED <<rx, stored>>

-----------------------------------------------------------------------------
Init == packet = Nil /\ bytes = Nil /\ damage = 0 /\ got = Nil /\ rx = Nil /\ stored = {}

Send ==
  /\ packet = Nil
  /\ packet' \in IF rx = Nil THEN Packets ELSE Segments
  /\ bytes' = Marshal(packet')
  /\ UNCHANGED <<damage, got, rx, stored>>

InFlight == bytes \notin {Nil, Err} /\ got = Nil

Cut ==
  /\ InFlight
  /\ damage = 0
  /\ \E n \in 1 .. Len(bytes) : bytes' = SubSeq(bytes, 1, Len(bytes) - n) /\ damage' = -n
  /\ UNCHANGED <<packet, got, rx, stored>>

Pad ==
  /\ InFlight
  /\ damage = 0
  /\ \E n \in 1 .. MaxPad : bytes' = bytes \o [i \in 1 .. n |-> 1] /\ damage' = n
  /\ UNCHANGED <<packet, got, rx, stored>>

Receive ==
  /\ InFlight
  /\ got' = Parse(bytes)
  /\ IF got' # Err /\ got'.kind = "Data" THEN data(got') ELSE UNCHANGED <<rx, stored>>
  /\ UNCHANGED <<packet, bytes, damage>>

\* readLoop goes back for another datagram.
ReadOn ==
  /\ got # Nil
  /\ Cardinality(stored) < MaxPieces
  /\ packet' = Nil /\ bytes' = Nil /\ damage' = 0 /\ got' = Nil
  /\ UNCHANGED <<rx, stored>>

Next == Send \/ Cut \/ Pad \/ Receive \/ ReadOn

Spec == Init /\ [][Next]_vars

-----------------------------------------------------------------------------
(* Properties. *)

\* What Parse must make of a packet whose datagram is bytes.
Sent ==
  [kind |-> Kind(Typ(packet)), field |-> packet.field,
   payload |-> IF packet.kind = "Data" THEN packet.payload ELSE <<>>]

\* A datagram that arrives as it was sent is parsed into the packet that was
\* marshalled, in every field, and a struct whose Type names another layout is never
\* sent (Marshal, wire.go:324-397; Parse, 196-244).  One that lost part of its header
\* is refused; beyond the header, padding of a control packet is ignored and only the
\* payload of DATA follows the length (wire.go:186-191).
RoundTrip ==
  /\ got # Nil /\ damage = 0 => got = Sent
  /\ got # Nil /\ damage # 0 =>
       IF Len(bytes) < HeaderSize(Typ(packet)) THEN got = Err
       ELSE got = [Sent EXCEPT !.payload =
                     IF packet.kind = "Data" THEN SubSeq(bytes, HeaderSize(DataType) + 1, Len(bytes))
                                             ELSE <<>>]

\* Whatever datagrams have arrived, cut, padded, with either form of offset, of other
\* lengths or overlapping: the assembly is the segments that were stored, all of them
\* unchanged, each byte and its bit inside what the first one's length allocated, and
\* a count that reaches the length leaves no gap ("Never silently overwrite accepted
\* bytes", endpoint.go:652; wire.go:105-122).
Assembled ==
  rx # Nil =>
    /\ DOMAIN rx.data = UNION {Span(s) : s \in stored}
    /\ \A s \in stored : \A at \in Span(s) : rx.data[at] = ByteAt(s, at)
    /\ \A at \in DOMAIN rx.data : at \in 0 .. rx.len - 1 /\ Bit(at)[1] < rx.bitBytes
    /\ rx.count = Cardinality(DOMAIN rx.data)

=============================================================================
