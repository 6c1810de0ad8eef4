--------------------------- MODULE EndpointProofs ---------------------------
(***************************************************************************)
(* The invariants of Endpoint hold for every configuration, every set of   *)
(* peers and callers, and whatever packets arrive (endpoint.go).  IInv is  *)
(* inductive, and so is SInv: the handler of each packet type preserves    *)
(* them, and so do the other actions (EndpointSteps).                      *)
(***************************************************************************)
EXTENDS EndpointSteps, Config

\* Leaves that do not ask for SMT are proved by Zenon.
USE ZenonT(60)

USE ConfigAssumption, SetAssumption

\* Every Config that defaults accepts meets ConfigAssumption, from which the theorems
\* below follow, and its segments fit the MTU (endpoint.go:75-110).
THEOREM DefaultsSound ==
  ASSUME NEW c \in Configs, AcceptedConfig(c)
  PROVE  SoundConfig(c, Defaults(c))
<1> DEFINE d == WithDefaults(c)
           n == d.UnscheduledBytes
           s == d.SegmentBytes
           q == (n + s - 1) \div s
<1>1. ValidConfig(d) /\ n = OrDefault(c, "UnscheduledBytes")
  BY SMTT(30) DEF AcceptedConfig, WithDefaults
<1>2. /\ {d.MaxMessageSize, d.MaxRPCs, d.MaxBufferedBytes, d.HandlerWorkers, d.SegmentBytes,
          d.UnscheduledBytes, d.GrantWindow, d.Overcommit} \subseteq Int
      /\ {d.Timeout, d.RetryInterval} \subseteq Int
  <2> DEFINE F == {"MaxMessageSize", "MaxRPCs", "MaxBufferedBytes", "HandlerWorkers", "Timeout",
                   "RetryInterval", "SegmentBytes", "UnscheduledBytes", "GrantWindow", "Overcommit"}
  <2>1. \A f \in F : c[f] \in Int
    BY SMTT(30) DEF Configs
  <2>2. \A f \in F : DefaultConfig[f] \in Int
    BY SMTT(30) DEF DefaultConfig, MessageLimit, Millisecond
  <2>3. \A f \in F : OrDefault(c, f) \in Int
    BY <2>1, <2>2 DEF OrDefault
  <2>4. \A f \in F : d[f] = OrDefault(c, f)
    BY SMTT(30) DEF WithDefaults
  <2> HIDE DEF d
  <2>5. \A f \in F : d[f] \in Int
    BY <2>3, <2>4
  <2> QED BY <2>5, SMTT(30)
<1>3. /\ {d.MaxMessageSize, d.MaxRPCs, d.MaxBufferedBytes, d.HandlerWorkers, d.SegmentBytes,
          d.UnscheduledBytes, d.GrantWindow} \subseteq Nat \ {0}
      /\ d.Overcommit \in 1 .. d.MaxRPCs /\ d.RetryInterval <= d.Timeout
      /\ d.SegmentBytes <= 1424
  <2> HIDE DEF d
  <2> QED BY <1>1, <1>2, SMTT(30) DEF ValidConfig
<1>4. Defaults(c) = [d EXCEPT !.UnscheduledBytes = q * s]
  BY SMTT(30) DEF Defaults, WholeSegments
<1>5. /\ Defaults(c).UnscheduledBytes = q * s
      /\ \A f \in {"MaxMessageSize", "MaxRPCs", "MaxBufferedBytes", "HandlerWorkers", "Timeout",
                   "RetryInterval", "SegmentBytes", "GrantWindow", "Overcommit"} :
           Defaults(c)[f] = d[f]
  BY <1>4, SMTT(30) DEF WithDefaults
<1> HIDE DEF d
<1>6. q \in Nat /\ q * s \in Nat \ {0} /\ q * s - n \in 0 .. s - 1 /\ (q * s) % s = 0
  <2> HIDE DEF n, s
  <2>1. s \in Nat \ {0} /\ n \in Nat \ {0}
    BY <1>3, SMTT(30) DEF n, s
  <2>2. (n + s - 1) = s * q + ((n + s - 1) % s) /\ (n + s - 1) % s \in 0 .. s - 1 /\ q \in Int
    BY <2>1, SMTT(30)
  <2> HIDE DEF q
  <2>3. q * s = s * q /\ s * q \in Int /\ s * q - n \in 0 .. s - 1
    BY <2>1, <2>2, SMTT(30)
  <2>4. q \in Nat
    BY <2>1, <2>2, <2>3, SMTT(30)
  <2>5. (q * s) % s = 0
    BY <2>1, <2>4, SMTT(30)
  <2> QED BY <2>1, <2>3, <2>4, <2>5, SMTT(30)
<1> DEFINE D == Defaults(c)
<1>7. /\ D.MaxMessageSize = d.MaxMessageSize /\ D.MaxRPCs = d.MaxRPCs
      /\ D.MaxBufferedBytes = d.MaxBufferedBytes /\ D.HandlerWorkers = d.HandlerWorkers
      /\ D.Timeout = d.Timeout /\ D.RetryInterval = d.RetryInterval /\ D.SegmentBytes = s
      /\ D.GrantWindow = d.GrantWindow /\ D.Overcommit = d.Overcommit
  BY <1>5
<1>8. d.SegmentBytes + 56 + 20 <= 1500
  BY <1>3, SMTT(30)
<1>9. D.UnscheduledBytes = q * s
  BY <1>5
<1> HIDE DEF D, q
<1>10. {D.MaxMessageSize, D.MaxRPCs, D.MaxBufferedBytes, D.HandlerWorkers, D.SegmentBytes,
        D.UnscheduledBytes, D.GrantWindow} \subseteq Nat \ {0}
  BY <1>3, <1>6, <1>7, <1>9, SMTT(30)
<1>11. /\ D.UnscheduledBytes % D.SegmentBytes = 0
       /\ D.UnscheduledBytes - OrDefault(c, "UnscheduledBytes") \in 0 .. D.SegmentBytes - 1
  BY <1>1, <1>6, <1>7, <1>9
<1>12. /\ D.Overcommit \in 1 .. D.MaxRPCs /\ D.SegmentBytes + 56 + 20 <= 1500
       /\ D.RetryInterval <= D.Timeout
  BY <1>3, <1>7, <1>8, SMTT(30)
<1>13. SoundConfig(c, D)
  BY <1>10, <1>11, <1>12, SMTT(30) DEF SoundConfig
<1> QED BY <1>13 DEF D

(* The handlers of the packet types. *)

\* A packet's step from a table t that the same step has reached from e.
LEMMA SecondStep ==
  ASSUME IInv, ~closed, NEW t, Good(t), Keeps(e, t), Cardinality(Live(t)) <= MaxRPCs,
         Good(e'), Keeps(t, e'), Live(e') \subseteq Live(t),
         UNCHANGED <<nextID, closed, cutoffs, pc, call>>
  PROVE  IInv'
<1>1. Live(t) \subseteq Obj
  BY LiveType DEF Good
<1>2. IsFiniteSet(Live(t))
  BY <1>1, FS_Subset
<1>3. Cardinality(Live(e')) <= Cardinality(Live(t)) /\ Cardinality(Live(t)) \in Nat
      /\ Cardinality(Live(e')) \in Nat
  BY <1>2, FS_Subset, FS_CardinalityType
<1>4. Cardinality(Live(e')) <= MaxRPCs
  BY <1>3, SMTT(30)
<1>5. Keeps(e, e')
  BY KeepsTransitive
<1> QED BY <1>4, <1>5, TableStep

\* data, once the packet's RPC is known: nothing is stored, the request is
\* dropped for want of room, or the bytes are accepted.
LEMMA DataUnusableStep ==
  ASSUME IInv, ~closed, NEW s, Good(s), Keeps(e, s), Cardinality(Live(s)) <= MaxRPCs,
         NEW o, NEW p, NEW out, DataUnusable(s, o, p, out),
         UNCHANGED <<nextID, closed, cutoffs, pc, call>>
  PROVE  IInv'
<1>1. e' = s
  BY DEF DataUnusable
<1> QED BY <1>1, TableStep

\* A message with no room: a request is dropped, a call waits for a retry.
LEMMA DataNoRoomStep ==
  ASSUME IInv, ~closed, NEW s, Good(s), Keeps(e, s), Cardinality(Live(s)) <= MaxRPCs,
         NEW o \in Live(s), NEW p, NEW out, DataNoRoom(s, o, p, out),
         UNCHANGED <<nextID, closed, cutoffs, pc, call>>
  PROVE  IInv'
<1>1. e' = IF IsClient(s, o) THEN s ELSE Remove(s, {o})
  BY DEF DataNoRoom
<1>2. CASE IsClient(s, o)
  BY <1>1, <1>2, TableStep
<1>3. CASE ~IsClient(s, o)
  <2>1. {o} \in SUBSET Live(s) /\ (\A x \in {o} : ~IsClient(s, x)) /\ e' = Remove(s, {o})
    BY <1>1, <1>3
  <2>2. Good(e') /\ Keeps(s, e') /\ Live(e') = Live(s) \ {o}
    BY <2>1, RemoveGood
  <2> QED BY <2>2, SecondStep
<1> QED BY <1>2, <1>3

\* The last bytes of a message arrived.
LEMMA DataCompletesStep ==
  ASSUME IInv, ~closed, NEW s, Good(s), Keeps(e, s), Cardinality(Live(s)) <= MaxRPCs,
         NEW o \in Live(s), NEW out, DataCompletes(s, o, out),
         UNCHANGED <<nextID, closed, cutoffs, pc, call>>
  PROVE  IInv'
<1>1. s \in Table /\ {o} \in SUBSET Live(s) /\ {o} \in SUBSET Obj /\ "ok" \in Errors
  BY LiveType DEF Good, Errors
<1>2. CASE IsClient(s, o)
  <2>1. e' = Finish(s, {o}, "ok")
    BY <1>2 DEF DataCompletes
  <2>2. Good(e') /\ Keeps(s, e')
    BY <1>1, <2>1, FinishGood
  <2>3. Live(e') = Live(s) \ {o}
    BY <1>1, <2>1, FinishLive
  <2> QED BY <2>2, <2>3, SecondStep
<1>3. CASE ~IsClient(s, o)
  <2>1. PICK W \in Starters(s, {o}) :
          \E rank \in Rankings(StartHandlers(s, {o}, W)) :
            e' = Schedule(StartHandlers(s, {o}, W), rank)
    BY <1>3 DEF DataCompletes
  <2>2. PICK rank : e' = Schedule(StartHandlers(s, {o}, W), rank)
    BY <2>1
  <2> DEFINE t == StartHandlers(s, {o}, W)
  <2>3. \A x \in {o} : ~IsClient(s, x)
    BY <1>3
  <2>4. Good(t) /\ Keeps(s, t) /\ Live(t) \subseteq Live(s)
    BY <1>1, <2>1, <2>3, StartHandlersGood
  <2> HIDE DEF t
  <2>5. e' = Schedule(t, rank)
    BY <2>2 DEF t
  <2>6. Good(e') /\ Keeps(t, e') /\ Live(e') = Live(t)
    BY <2>4, <2>5, ScheduleGood
  <2>7. Keeps(s, e')
    BY <2>4, <2>6, KeepsTransitive
  <2> QED BY <2>4, <2>6, <2>7, SecondStep
<1> QED BY <1>2, <1>3

\* The bytes are accepted into a new or an existing buffer.
LEMMA DataFillsStep ==
  ASSUME IInv, ~closed, NEW s, Good(s), Keeps(e, s), Cardinality(Live(s)) <= MaxRPCs,
         NEW o \in Live(s), NEW p \in Incoming, p.type = "DATA", ValidData(p),
         NEW out, DataFills(s, o, p, out), UNCHANGED <<nextID, closed, cutoffs, pc, call>>
  PROVE  IInv'
<1> DEFINE u == Accepted(s, o, p)
           v == Completed(u, o)
<1>1. /\ s.rpc[o].rx.len > 0 \/ Room(s, OpenCost(s.rpc[o], p))
      /\ IF Count(u.rpc[o].rx) = p.len THEN DataCompletes(v, o, out)
         ELSE \E rank \in Rankings(u) : e' = Schedule(u, rank)
  BY DEF DataFills, Accepted, Completed
<1>2. Good(u) /\ Keeps(s, u) /\ Live(u) = Live(s)
  BY <1>1, AcceptGood
<1> HIDE DEF u
<1>3. Keeps(e, u) /\ Cardinality(Live(u)) <= MaxRPCs
  BY <1>2, KeepsTransitive
<1>4. CASE Count(u.rpc[o].rx) = p.len
  <2>1. o \in Live(u)
    BY <1>2
  <2>2. Good(v) /\ Keeps(u, v) /\ Live(v) = Live(u)
    BY <1>2, <2>1, CompleteGood
  <2> HIDE DEF v
  <2>3. Keeps(e, v)
    BY <1>3, <2>2, KeepsTransitive
  <2>4. DataCompletes(v, o, out)
    BY <1>1, <1>4
  <2>5. o \in Live(v) /\ Cardinality(Live(v)) <= MaxRPCs
    BY <1>3, <2>1, <2>2
  <2> QED BY <2>2, <2>3, <2>4, <2>5, DataCompletesStep
<1>5. CASE Count(u.rpc[o].rx) # p.len
  <2>1. PICK rank : e' = Schedule(u, rank)
    BY <1>1, <1>5
  <2>2. Good(e') /\ Keeps(u, e') /\ Live(e') = Live(u)
    BY <1>2, <2>1, ScheduleGood
  <2> QED BY <1>2, <1>3, <2>2, SecondStep
<1> QED BY <1>4, <1>5

\* data: the acked RPCs go first, then the packet finds or makes its RPC.
LEMMA ReceiveDataStep ==
  ASSUME IInv, NEW p \in Incoming, ReceiveData(p)
  PROVE  IInv'
<1>1. /\ ~closed /\ p.type = "DATA" /\ ValidData(p) /\ Good(e) /\ e \in Table
      /\ Cardinality(Live(e)) <= MaxRPCs /\ UNCHANGED <<nextID, closed, cutoffs, pc, call>>
  BY DEF ReceiveData, Arrives, IInv, Good, Bounded
<1>2. KeyOf(p) \in Key /\ p.acks \in SUBSET Id
  BY <1>1, PacketKey, PacketFields
<1> DEFINE k == KeyOf(p)
<1>3. PICK R \in AckedBy(e, p.src[1], p.acks) :
        \/ e' = Remove(e, R)
        \/ \E o \in Claims(Remove(e, R), k), out \in SUBSET CutoffsReply(p) :
             \/ DataUnusable(Claim(Remove(e, R), k, o), o, p, out)
             \/ DataNoRoom(Claim(Remove(e, R), k, o), o, p, out)
             \/ DataFills(Claim(Remove(e, R), k, o), o, p, out)
  BY SMTT(30) DEF ReceiveData
<1> HIDE DEF k
<1> DEFINE s == Remove(e, R)
<1>4. R \in SUBSET Live(e) /\ \A o \in R : ~IsClient(e, o)
  BY <1>2, AckedByServers, SMTT(30)
<1>5. /\ Good(s) /\ Keeps(e, s) /\ Live(s) = Live(e) \ R
      /\ \A o \in Obj \ R : s.rpc[o] = e.rpc[o]
  BY <1>1, <1>4, RemoveGood
<1> HIDE DEF s
<1>6. Cardinality(Live(s)) <= MaxRPCs
  <2>1. IsFiniteSet(Live(e))
    BY <1>1, LiveType, FS_Subset
  <2>2. Cardinality(Live(s)) <= Cardinality(Live(e)) /\ Cardinality(Live(e)) \in Nat
        /\ Cardinality(Live(s)) \in Nat
    BY <1>5, <2>1, FS_Subset, FS_CardinalityType
  <2> QED BY <1>1, <2>2, SMTT(30)
<1>7. \A x \in Free(e) : x \in Obj /\ s.rpc[x].key = Nil
  <2> SUFFICES ASSUME NEW x \in Free(e) PROVE x \in Obj /\ s.rpc[x].key = Nil
    OBVIOUS
  <2>1. x \in Obj /\ e.rpc[x].key = Nil
    BY DEF Free
  <2>2. x \notin Live(e)
    BY <1>1, <2>1, LiveType, KeyAssumption DEF Good
  <2> QED BY <1>4, <1>5, <2>1, <2>2
<1>8. CASE e' = s
  BY <1>1, <1>5, <1>6, <1>8, TableStep
<1>9. ASSUME NEW o \in Claims(s, k), NEW out,
             \/ DataUnusable(Claim(s, k, o), o, p, out)
             \/ DataNoRoom(Claim(s, k, o), o, p, out)
             \/ DataFills(Claim(s, k, o), o, p, out)
      PROVE  IInv'
  <2> DEFINE t == Claim(s, k, o)
  <2>1. k \in Key
    BY <1>2 DEF k
  <2>2. Good(t) /\ Keeps(s, t) /\ Cardinality(Live(t)) <= MaxRPCs /\ o \in Live(t)
    BY <1>5, <1>6, <1>7, <2>1, ClaimGood
  <2> HIDE DEF t
  <2>3. Keeps(e, t)
    BY <1>5, <2>2, KeepsTransitive
  <2>4. CASE DataUnusable(t, o, p, out)
    BY <1>1, <2>2, <2>3, <2>4, DataUnusableStep
  <2>5. CASE DataNoRoom(t, o, p, out)
    BY <1>1, <2>2, <2>3, <2>5, DataNoRoomStep
  <2>6. CASE DataFills(t, o, p, out)
    BY <1>1, <2>2, <2>3, <2>6, DataFillsStep
  <2> QED BY <1>9, <2>4, <2>5, <2>6 DEF t
<1> QED BY <1>3, <1>8, <1>9 DEF s

\* The struct a packet other than DATA is for is in the table.
LEMMA FoundType ==
  ASSUME IInv, NEW p \in Incoming, e.rpcs[KeyOf(p)] # Nil
  PROVE  /\ e.rpcs[KeyOf(p)] \in Live(e) /\ e.rpcs[KeyOf(p)] \in Obj
         /\ e.rpc[e.rpcs[KeyOf(p)]] \in Rpc /\ e.rpc[e.rpcs[KeyOf(p)]].key = KeyOf(p)
<1>1. e \in Table /\ Keyed(e) /\ KeyOf(p) \in Key
  BY PacketKey DEF IInv, Good
<1> DEFINE k == KeyOf(p)
<1> HIDE DEF k
<1>2. k \in Key /\ e.rpcs[k] # Nil
  BY <1>1 DEF k
<1>3. e.rpcs[k] \in Live(e) /\ e.rpc[e.rpcs[k]].key = k
  BY <1>1, <1>2, LiveType DEF Keyed
<1>4. e.rpcs[k] \in Obj
  BY <1>1, <1>3, LiveType
<1> QED BY <1>1, <1>3, <1>4 DEF k, Table

\* A struct whose sending state changed is otherwise the same.
LEMMA SenderStep ==
  ASSUME IInv, NEW o \in Live(e), NEW r \in Rpc, NEW g \in Nat,
         r = [e.rpc[o] EXCEPT !.granted = g],
         e' = [e EXCEPT !.rpc[o] = SendNew(r)],
         UNCHANGED <<nextID, closed, cutoffs, pc, call>>
  PROVE  IInv'
<1> DEFINE n == SendNew(r)
<1>1. Good(e) /\ e.rpc[o] \in Rpc
  BY LiveType DEF IInv, Good, Table
<1>2. n \in Rpc /\ n = [r EXCEPT !.sent = n.sent]
  BY SendNewType
<1>3. /\ e' = [e EXCEPT !.rpc[o] = n]
  OBVIOUS
<1> HIDE DEF n
<1>4. /\ n.key = e.rpc[o].key /\ n.tx = e.rpc[o].tx /\ n.rx = e.rpc[o].rx
      /\ n.handling = e.rpc[o].handling /\ n.result = e.rpc[o].result
  BY <1>1, <1>2 DEF Rpc
<1>5. Good(e') /\ Keeps(e, e') /\ Live(e') = Live(e)
  BY <1>1, <1>2, <1>3, <1>4, TuneGood, SMTT(30)
<1> QED BY <1>5, ShrinkStep

\* A GRANT makes a sender send more.
LEMMA ReceiveGrantStep ==
  ASSUME IInv, NEW p \in Incoming, ReceiveGrant(p)
  PROVE  IInv'
<1> DEFINE o == e.rpcs[KeyOf(p)]
           g == Lesser(p.off, e.rpc[o].tx.len)
           r == [e.rpc[o] EXCEPT !.granted = g]
<1>1. /\ p.type = "GRANT" /\ o # Nil /\ e' = [e EXCEPT !.rpc[o] = SendNew(r)]
      /\ UNCHANGED <<nextID, closed, cutoffs, pc, call>>
  BY DEF ReceiveGrant, Arrives
<1>2. o \in Live(e) /\ e.rpc[o] \in Rpc
  BY <1>1, FoundType
<1> HIDE DEF o
<1>3. g \in Nat
  BY <1>1, <1>2, PacketFields DEF Lesser, Rpc, Msg
<1> HIDE DEF g
<1>4. r \in Rpc
  BY <1>2, <1>3 DEF Rpc
<1> QED BY <1>1, <1>2, <1>3, <1>4, SenderStep

\* A RESEND never changes what a sender holds.
LEMMA ReceiveResendStep ==
  ASSUME IInv, NEW p \in Incoming, ReceiveResend(p)
  PROVE  IInv'
<1>1. p.type = "RESEND" /\ UNCHANGED <<nextID, closed, cutoffs, pc, call>> /\ Good(e)
  BY DEF ReceiveResend, Arrives, IInv
<1>2. CASE e' = e
  BY <1>1, <1>2, ShrinkStep DEF Keeps
<1>3. CASE ResendBytes(p)
  <2> DEFINE o == e.rpcs[KeyOf(p)]
             end == IF p.n = ResendAll THEN e.rpc[o].sent
                    ELSE Lesser(e.rpc[o].tx.len, p.off + p.n)
             r == [e.rpc[o] EXCEPT !.granted = end]
  <2>1. /\ o # Nil
        /\ e' = [e EXCEPT !.rpc[o] = IF end > e.rpc[o].granted THEN SendNew(r) ELSE e.rpc[o]]
    BY <1>3 DEF ResendBytes
  <2>2. o \in Live(e) /\ o \in Obj /\ e.rpc[o] \in Rpc
    BY <2>1, FoundType
  <2> HIDE DEF o
  <2>3. end \in Nat
    <3>1. e.rpc[o].sent \in Nat /\ e.rpc[o].tx.len \in Nat
      BY <2>2 DEF Rpc, Msg
    <3>2. p.off \in Nat /\ p.n \in Nat
      BY <1>1, PacketFields
    <3> QED BY <3>1, <3>2, SMTT(30) DEF Lesser
  <2> HIDE DEF end
  <2>4. r \in Rpc
    BY <2>2, <2>3 DEF Rpc
  <2>5. CASE end > e.rpc[o].granted
    BY <1>1, <2>1, <2>2, <2>3, <2>4, <2>5, SenderStep
  <2>6. CASE ~(end > e.rpc[o].granted)
    <3>1. e' = e
      BY <1>1, <2>1, <2>2, <2>6, SMTT(30) DEF Good, Table
    <3> QED BY <1>2, <3>1
  <2> QED BY <2>5, <2>6
<1> QED BY <1>2, <1>3 DEF ReceiveResend, ResendUnknown, ResendBusy

\* RPC_UNKNOWN ends a server RPC and makes a call send again.
LEMMA ReceiveUnknownStep ==
  ASSUME IInv, NEW p \in Incoming, ReceiveUnknown(p)
  PROVE  IInv'
<1> DEFINE o == e.rpcs[KeyOf(p)]
<1>1. o # Nil /\ Good(e) /\ UNCHANGED <<nextID, closed, cutoffs, pc, call>>
  BY DEF ReceiveUnknown, IInv
<1>2. o \in Live(e)
  BY <1>1, FoundType
<1>3. CASE ~IsClient(e, o) /\ e' = Remove(e, {o})
  <2>1. {o} \in SUBSET Live(e) /\ \A x \in {o} : ~IsClient(e, x)
    BY <1>2, <1>3
  <2>2. Good(e') /\ Keeps(e, e') /\ Live(e') = Live(e) \ {o}
    BY <1>1, <1>3, <2>1, RemoveGood
  <2> QED BY <1>1, <2>2, ShrinkStep
<1>4. CASE e' = e
  BY <1>1, <1>4, ShrinkStep DEF Keeps
<1> QED BY <1>3, <1>4 DEF ReceiveUnknown

\* An ACK ends server RPCs, its own and those in its records.
LEMMA ReceiveAckStep ==
  ASSUME IInv, NEW p \in Incoming, ReceiveAck(p)
  PROVE  IInv'
<1> DEFINE S == {e.rpcs[KeyOf(p)]} \ {Nil}
           s == Remove(e, S)
<1>1. /\ p.type = "ACK" /\ ~IsClientID(KeyOf(p)[2]) /\ Good(e)
      /\ UNCHANGED <<nextID, closed, cutoffs, pc, call>>
  BY DEF ReceiveAck, Arrives, IInv
<1>2. PICK R \in AckedBy(s, p.src[1], p.acks) : e' = Remove(s, R)
  BY DEF ReceiveAck
<1>3. S \in SUBSET Live(e) /\ \A o \in S : ~IsClient(e, o)
  BY <1>1, FoundType DEF IsClient
<1>4. Good(s) /\ Keeps(e, s) /\ Live(s) = Live(e) \ S
  <2> HIDE DEF S
  <2> QED BY <1>1, <1>3, RemoveGood
<1>5. p.acks \in SUBSET Id
  BY <1>1, PacketFields
<1> HIDE DEF s
<1>6. R \in SUBSET Live(s) /\ \A o \in R : ~IsClient(s, o)
  BY <1>5, AckedByServers, SMTT(30)
<1>7. Good(e') /\ Keeps(s, e') /\ Live(e') = Live(s) \ R
  BY <1>2, <1>4, <1>6, RemoveGood
<1>8. Keeps(e, e') /\ Live(e') \subseteq Live(e)
  BY <1>4, <1>7, KeepsTransitive
<1> QED BY <1>1, <1>7, <1>8, ShrinkStep

\* CUTOFFS of a new host are kept while there is room for a host.
LEMMA ReceiveCutoffsStep ==
  ASSUME IInv, NEW p \in Incoming, ReceiveCutoffs(p)
  PROVE  IInv'
<1> DEFINE ip == p.src[1]
<1>1. /\ p.type = "CUTOFFS"
      /\ ip \in DOMAIN cutoffs \/ Cardinality(DOMAIN cutoffs) < MaxRPCs
      /\ cutoffs' = [h \in DOMAIN cutoffs \cup {ip} |-> IF h = ip THEN p.version ELSE cutoffs[h]]
      /\ e' = e /\ nextID' = nextID /\ closed' = closed /\ pc' = pc /\ call' = call
      /\ TypeOK /\ Good(e) /\ Claimed /\ Numbered /\ Bounded
  BY DEF ReceiveCutoffs, Arrives, IInv
<1>2. ip \in {a[1] : a \in Peers} /\ p.version \in Nat
  BY <1>1, PacketKey, PacketFields
<1> HIDE DEF ip
<1>3. DOMAIN cutoffs' = DOMAIN cutoffs \cup {ip}
  BY <1>1
<1>4. TypeOK'
  <2>1. \A h \in DOMAIN cutoffs' : cutoffs'[h] \in Nat
    BY <1>1, <1>2 DEF TypeOK
  <2> QED BY <1>1, <1>2, <1>3, <2>1 DEF TypeOK
<1>5. Bounded'
  <2>1. IsFiniteSet(DOMAIN cutoffs) /\ Cardinality(DOMAIN cutoffs) <= MaxRPCs
    BY <1>1 DEF Bounded
  <2>2. Cardinality(DOMAIN cutoffs) \in Nat
    BY <2>1, FS_CardinalityType
  <2>3. /\ IsFiniteSet(DOMAIN cutoffs \cup {ip})
        /\ Cardinality(DOMAIN cutoffs \cup {ip}) =
             IF ip \in DOMAIN cutoffs THEN Cardinality(DOMAIN cutoffs)
             ELSE Cardinality(DOMAIN cutoffs) + 1
    BY <2>1, FS_AddElement
  <2>4. Cardinality(DOMAIN cutoffs') <= MaxRPCs /\ IsFiniteSet(DOMAIN cutoffs')
    <3>1. ip \in DOMAIN cutoffs \/ Cardinality(DOMAIN cutoffs) < MaxRPCs
      BY <1>1
    <3> QED BY <1>3, <2>1, <2>2, <2>3, <3>1, SMTT(30)
  <2> QED BY <1>1, <2>4 DEF Bounded
<1> QED BY <1>1, <1>4, <1>5 DEF IInv, Claimed, Numbered

-----------------------------------------------------------------------------
(* The stages, packet by packet. *)

\* A sender that is granted more sends more.
LEMMA SenderSound ==
  ASSUME SInv, NEW o \in Live(e), e.rpc[o].tx.len > 0, NEW g \in Nat,
         e' = [e EXCEPT !.rpc[o] = SendNew([e.rpc[o] EXCEPT !.granted = g])]
  PROVE  Sound(e') /\ Ran(e, e')
<1> DEFINE r == [e.rpc[o] EXCEPT !.granted = g]
           n == SendNew(r)
<1>1. e \in Table /\ o \in Obj /\ e.rpc[o] \in Rpc /\ Sound(e) /\ Alive(e.rpc[o])
  BY LiveType, SMTT(30) DEF SInv, IInv, Good, Table, Sound
<1>2. e'.rpcs = e.rpcs /\ e'.payload = e.payload /\ e'.rpc = [e.rpc EXCEPT ![o] = n]
  <2> HIDE DEF n
  <2>1. e' = [e EXCEPT !.rpc[o] = n]
    BY DEF n
  <2> QED BY <1>1, <2>1 DEF Table
<1>3. /\ r \in Rpc /\ r.key = e.rpc[o].key /\ r.tx = e.rpc[o].tx /\ r.sent = e.rpc[o].sent
      /\ r.rx = e.rpc[o].rx /\ r.received = e.rpc[o].received
      /\ r.handling = e.rpc[o].handling /\ r.expired = e.rpc[o].expired
  BY <1>1 DEF Rpc
<1> HIDE DEF r
<1>4. Paces(n)
  <2>1. r.tx.len > 0 /\ r.sent <= r.tx.len /\ (r.sent % SegmentBytes = 0 \/ r.sent = r.tx.len)
    <3>1. e.rpc[o].tx.len # 0
      BY SMTT(30)
    <3>2. Paces(e.rpc[o])
      BY <1>1 DEF Alive
    <3> QED BY <1>3, <3>1, <3>2 DEF Paces
  <2> QED BY <1>3, <2>1, SendNewPaces
<1>5. /\ n.key = r.key /\ n.rx = r.rx
      /\ n.received = r.received /\ n.handling = r.handling /\ n.expired = r.expired
  BY <1>3, SendNewKeeps
<1> HIDE DEF n
<1>6. Alive(n) /\ (Fresh(n) => Fresh(e.rpc[o]))
  BY <1>1, <1>3, <1>4, <1>5 DEF Alive, Staged, Fresh
<1>7. SoundBut(e, {o})
  BY <1>1 DEF Sound, SoundBut
<1>8. Sound(e') /\ Backs(e, e')
  BY <1>1, <1>2, <1>6, <1>7, SetSound
<1> QED BY <1>8, RanTransitive

\* GRANT and RESEND, with any offsets, leave a sender at its grant.
LEMMA MoreSound ==
  ASSUME SInv, NEW p \in Incoming, ReceiveGrant(p) \/ ReceiveResend(p)
  PROVE  Sound(e') /\ Ran(e, e')
<1> DEFINE o == e.rpcs[KeyOf(p)]
<1>1. SInv /\ IInv /\ Sound(e) /\ e \in Table
  BY DEF SInv, IInv, Good
<1>2. CASE e' = e
  BY <1>1, <1>2 DEF Ran
<1>3. o # Nil => o \in Live(e) /\ o \in Obj /\ e.rpc[o] \in Rpc
  BY <1>1, FoundType
<1>4. CASE ReceiveGrant(p)
  <2>1. /\ p.type = "GRANT" /\ o # Nil /\ e.rpc[o].tx.len > 0
        /\ e' = [e EXCEPT !.rpc[o] =
                   SendNew([e.rpc[o] EXCEPT !.granted = Lesser(p.off, e.rpc[o].tx.len)])]
    BY <1>4 DEF ReceiveGrant, Arrives
  <2> HIDE DEF o
  <2>2. Lesser(p.off, e.rpc[o].tx.len) \in Nat
    <3>1. e.rpc[o].tx.len \in Nat
      BY <1>3, <2>1 DEF Rpc, Msg
    <3>2. p.off \in Nat
      BY <2>1, PacketFields
    <3> QED BY <3>1, <3>2 DEF Lesser
  <2> QED BY <1>1, <1>3, <2>1, <2>2, SenderSound
<1>5. CASE ResendBytes(p) /\ p.type = "RESEND"
  <2> DEFINE end == IF p.n = ResendAll THEN e.rpc[o].sent
                    ELSE Lesser(e.rpc[o].tx.len, p.off + p.n)
  <2>1. /\ o # Nil /\ p.off < e.rpc[o].tx.len
        /\ e' = [e EXCEPT !.rpc[o] = IF end > e.rpc[o].granted
                                     THEN SendNew([e.rpc[o] EXCEPT !.granted = end])
                                     ELSE e.rpc[o]]
    BY <1>5 DEF ResendBytes
  <2> HIDE DEF o
  <2>2. p.off \in Nat /\ p.n \in Nat /\ e.rpc[o].sent \in Nat /\ e.rpc[o].tx.len \in Nat
    BY <1>3, <1>5, <2>1, PacketFields DEF Rpc, Msg
  <2>3. end \in Nat /\ e.rpc[o].tx.len > 0
    BY <2>1, <2>2, SMTT(30) DEF Lesser
  <2> HIDE DEF end
  <2>4. CASE end > e.rpc[o].granted
    BY <1>1, <1>3, <2>1, <2>3, <2>4, SenderSound
  <2>5. CASE ~(end > e.rpc[o].granted)
    <3>1. e' = e
      BY <1>1, <1>3, <2>1, <2>5, ZenonT(60) DEF Table
    <3> QED BY <1>2, <3>1
  <2> QED BY <2>4, <2>5
<1> QED BY <1>2, <1>4, <1>5 DEF ReceiveResend, Arrives, ResendUnknown, ResendBusy

\* RPC_UNKNOWN and ACK end server RPCs, whose structs are as good as new then.
LEMMA EndsSound ==
  ASSUME SInv, NEW p \in Incoming, ReceiveUnknown(p) \/ ReceiveAck(p)
  PROVE  Sound(e') /\ Ran(e, e')
<1> DEFINE o == e.rpcs[KeyOf(p)]
<1>1. IInv /\ Sound(e) /\ Good(e)
  BY DEF SInv, IInv
<1>2. ASSUME NEW S \in SUBSET Live(e), \A x \in S : ~IsClient(e, x)
      PROVE  Sound(Remove(e, S)) /\ Backs(e, Remove(e, S)) /\ Good(Remove(e, S))
             /\ Live(Remove(e, S)) = Live(e) \ S
  <2>1. SoundBut(e, S)
    BY <1>1 DEF Sound, SoundBut
  <2> QED BY <1>1, <1>2, <2>1, RemoveSound, RemoveGood
<1>3. CASE e' = e
  BY <1>1, <1>3 DEF Ran
<1>4. CASE o # Nil /\ ~IsClient(e, o) /\ e' = Remove(e, {o})
  <2>1. {o} \in SUBSET Live(e) /\ \A x \in {o} : ~IsClient(e, x)
    BY <1>1, <1>4, FoundType
  <2>2. Sound(e') /\ Backs(e, e')
    BY <1>2, <1>4, <2>1
  <2> QED BY <2>2, RanTransitive
<1>5. CASE ReceiveAck(p)
  <2> DEFINE S == {o} \ {Nil}
             s == Remove(e, S)
  <2>1. p.type = "ACK" /\ ~IsClientID(KeyOf(p)[2])
    BY <1>5 DEF ReceiveAck, Arrives
  <2>2. PICK R \in AckedBy(s, p.src[1], p.acks) : e' = Remove(s, R)
    BY <1>5 DEF ReceiveAck
  <2>3. S \in SUBSET Live(e) /\ \A x \in S : ~IsClient(e, x)
    BY <1>1, <2>1, FoundType DEF IsClient
  <2> HIDE DEF S
  <2>4. Good(s) /\ Sound(s) /\ Backs(e, s)
    BY <1>2, <2>3
  <2> HIDE DEF s
  <2>5. R \in SUBSET Live(s) /\ \A x \in R : ~IsClient(s, x)
    BY <2>1, PacketFields, AckedByServers, SMTT(30)
  <2>6. SoundBut(s, R)
    BY <2>4 DEF Sound, SoundBut
  <2>7. Sound(e') /\ Backs(s, e')
    BY <2>2, <2>4, <2>5, <2>6, RemoveSound
  <2> QED BY <2>4, <2>7, RanTransitive
<1> QED BY <1>3, <1>4, <1>5 DEF ReceiveUnknown

\* With the last bytes of a message a call is answered, and a request starts or waits.
LEMMA CompletesSound ==
  ASSUME NEW s, Good(s), Sound(s), Backs(e, s), NEW o \in Live(s), s.rpc[o].received,
         NEW out, DataCompletes(s, o, out)
  PROVE  Sound(e') /\ Ran(e, e')
<1>1. CASE IsClient(s, o) /\ e' = Finish(s, {o}, "ok")
  <2>1. {o} \in SUBSET Live(s) /\ "ok" \in Errors
    BY DEF Errors
  <2>2. Sound(e') /\ Backs(s, e')
    BY <1>1, <2>1, FinishSound
  <2> QED BY <2>2, RanTransitive
<1>2. ASSUME ~IsClient(s, o), NEW W \in Starters(s, {o}), NEW rank,
             e' = Schedule(StartHandlers(s, {o}, W), rank)
      PROVE  Sound(e') /\ Ran(e, e')
  <2> DEFINE t == StartHandlers(s, {o}, W)
  <2>1. {o} \in SUBSET Live(s) /\ \A x \in {o} : ~IsClient(s, x) /\ s.rpc[x].received
    BY <1>2
  <2>2. Good(t)
    BY <2>1, StartHandlersGood
  <2>3. /\ Sound(t)
        /\ \A x \in Obj : t.payload[x] > 0 => s.payload[x] > 0 \/ (x \in Live(s) /\ Fresh(s.rpc[x]))
    BY <2>1, StartHandlersSound
  <2>4. e' = Schedule(t, rank)
    BY <1>2
  <2> HIDE DEF t
  <2>5. Sound(e') /\ Backs(t, e')
    BY <2>2, <2>3, <2>4, ScheduleSound
  <2>6. Ran(e, t)
    BY <2>3, RanTransitive
  <2> QED BY <2>5, <2>6, RanTransitive
<1> QED BY <1>1, <1>2 DEF DataCompletes

\* data, once the packet's RPC is known: it stays, is dropped for want of room, or
\* moves on by the bytes of the packet.
LEMMA DataSound ==
  ASSUME NEW s, Good(s), NEW o \in Live(s), SoundBut(s, {o}), Ready(s.rpc[o]), Backs(e, s),
         NEW p \in Incoming, p.type = "DATA", ValidData(p), NEW out,
         \/ DataUnusable(s, o, p, out)
         \/ DataNoRoom(s, o, p, out)
         \/ DataFills(s, o, p, out)
  PROVE  Sound(e') /\ Ran(e, e')
<1> DEFINE r == s.rpc[o]
<1>1. s \in Table /\ o \in Obj /\ r \in Rpc
  BY LiveType DEF Good, Table
<1>2. ASSUME Alive(r), e' = s PROVE Sound(e') /\ Ran(e, e')
  <2>1. Sound(s)
    BY <1>1, <1>2 DEF Sound, SoundBut
  <2> QED BY <1>2, <2>1, RanTransitive
<1>3. CASE DataUnusable(s, o, p, out)
  <2>1. e' = s /\ (r.received \/ r.rx.len > 0)
    BY <1>3 DEF DataUnusable
  <2>2. Alive(r)
    BY <2>1, SMTT(30) DEF Ready, Alive
  <2> QED BY <1>2, <2>1, <2>2
<1>4. CASE DataNoRoom(s, o, p, out)
  <2>1. e' = IF IsClient(s, o) THEN s ELSE Remove(s, {o})
    BY <1>4 DEF DataNoRoom
  <2>2. CASE IsClient(s, o)
    <3>1. Alive(r)
      BY <2>2 DEF Ready, Alive, IsClient
    <3> QED BY <1>2, <2>1, <2>2, <3>1
  <2>3. CASE ~IsClient(s, o)
    <3>1. {o} \in SUBSET Live(s) /\ (\A x \in {o} : ~IsClient(s, x)) /\ e' = Remove(s, {o})
      BY <2>1, <2>3
    <3>2. Sound(e') /\ Backs(s, e')
      BY <3>1, RemoveSound
    <3> QED BY <3>2, RanTransitive
  <2> QED BY <2>2, <2>3
<1>5. CASE DataFills(s, o, p, out)
  <2> DEFINE u == Accepted(s, o, p)
             v == Completed(u, o)
  <2>1. /\ ~r.received /\ (r.rx.len > 0 => Fits(r.rx, p))
        /\ r.rx.len > 0 \/ Room(s, OpenCost(r, p))
    BY <1>5 DEF DataFills
  <2>2. IF Count(u.rpc[o].rx) = p.len THEN DataCompletes(v, o, out)
        ELSE \E rank \in Rankings(u) : e' = Schedule(u, rank)
    BY <1>5 DEF DataFills, Accepted, Completed
  <2>3. Good(u) /\ Live(u) = Live(s)
    BY <2>1, AcceptGood
  <2>4. /\ Count(u.rpc[o].rx) = p.len => Sound(v) /\ Backs(s, v) /\ v.rpc[o].received
        /\ Count(u.rpc[o].rx) # p.len => Sound(u) /\ Backs(s, u)
    BY <2>1, AcceptSound
  <2> HIDE DEF u
  <2>5. Good(v) /\ Live(v) = Live(u)
    BY <2>3, CompleteGood
  <2> HIDE DEF v
  <2>6. CASE Count(u.rpc[o].rx) = p.len
    <3>1. Backs(e, v) /\ o \in Live(v)
      BY <2>3, <2>4, <2>5, <2>6, BacksTransitive
    <3> QED BY <2>2, <2>4, <2>5, <2>6, <3>1, CompletesSound
  <2>7. CASE Count(u.rpc[o].rx) # p.len
    <3>1. PICK rank : e' = Schedule(u, rank)
      BY <2>2, <2>7
    <3>2. Sound(e') /\ Backs(u, e')
      BY <2>3, <2>4, <2>7, <3>1, ScheduleSound
    <3>3. Ran(e, u)
      BY <2>3, <2>4, <2>7, BacksTransitive, RanTransitive
    <3> QED BY <3>2, <3>3, RanTransitive
  <2> QED BY <2>6, <2>7
<1> QED BY <1>3, <1>4, <1>5

\* data: the acked RPCs go first, then the packet finds or makes its RPC.
LEMMA ReceiveDataSound ==
  ASSUME SInv, NEW p \in Incoming, ReceiveData(p)
  PROVE  Sound(e') /\ Ran(e, e')
<1> DEFINE k == KeyOf(p)
<1>1. /\ p.type = "DATA" /\ ValidData(p) /\ Good(e) /\ e \in Table /\ Sound(e)
      /\ Cardinality(Live(e)) <= MaxRPCs
  BY DEF ReceiveData, Arrives, SInv, IInv, Good, Bounded
<1>2. k \in Key /\ p.acks \in SUBSET Id
  BY <1>1, PacketKey, PacketFields
<1>3. PICK R \in AckedBy(e, p.src[1], p.acks) :
        \/ e' = Remove(e, R)
        \/ \E o \in Claims(Remove(e, R), k), out \in SUBSET CutoffsReply(p) :
             \/ DataUnusable(Claim(Remove(e, R), k, o), o, p, out)
             \/ DataNoRoom(Claim(Remove(e, R), k, o), o, p, out)
             \/ DataFills(Claim(Remove(e, R), k, o), o, p, out)
  BY SMTT(30) DEF ReceiveData
<1> HIDE DEF k
<1> DEFINE s == Remove(e, R)
<1>4. R \in SUBSET Live(e) /\ (\A o \in R : ~IsClient(e, o)) /\ SoundBut(e, R)
  BY <1>1, <1>2, AckedByServers, SMTT(30) DEF Sound, SoundBut
<1>5. /\ Good(s) /\ Live(s) = Live(e) \ R
      /\ \A o \in Obj \ R : s.rpc[o] = e.rpc[o]
  BY <1>1, <1>4, RemoveGood
<1>6. Sound(s) /\ Backs(e, s)
  BY <1>1, <1>4, RemoveSound
<1> HIDE DEF s
<1>7. Cardinality(Live(s)) <= MaxRPCs
  <2>1. IsFiniteSet(Live(e))
    BY <1>1, LiveType, FS_Subset
  <2>2. Cardinality(Live(s)) <= Cardinality(Live(e)) /\ Cardinality(Live(e)) \in Nat
        /\ Cardinality(Live(s)) \in Nat
    BY <1>5, <2>1, FS_Subset, FS_CardinalityType
  <2> QED BY <1>1, <2>2, SMTT(30)
<1>8. \A x \in Free(e) : x \in Obj /\ s.rpc[x].key = Nil /\ Fresh(e.rpc[x])
  <2> SUFFICES ASSUME NEW x \in Free(e) PROVE x \in Obj /\ s.rpc[x].key = Nil /\ Fresh(e.rpc[x])
    OBVIOUS
  <2>1. x \in Obj /\ e.rpc[x].key = Nil
    BY DEF Free
  <2>2. x \notin Live(e)
    BY <1>1, <2>1, LiveType, KeyAssumption DEF Good
  <2> QED BY <1>1, <1>4, <1>5, <2>1, <2>2 DEF Sound
<1>9. ASSUME NEW o \in Claims(s, k), NEW out,
             \/ DataUnusable(Claim(s, k, o), o, p, out)
             \/ DataNoRoom(Claim(s, k, o), o, p, out)
             \/ DataFills(Claim(s, k, o), o, p, out)
      PROVE  Sound(e') /\ Ran(e, e')
  <2> DEFINE t == Claim(s, k, o)
  <2>1. k \in Key
    BY <1>2 DEF k
  <2>2. Good(t) /\ o \in Live(t)
    BY <1>5, <1>7, <1>8, <2>1, ClaimGood
  <2>3. SoundBut(t, {o}) /\ Ready(t.rpc[o]) /\ Backs(e, t)
    BY <1>5, <1>6, <1>8, <2>1, ClaimSound
  <2> HIDE DEF t
  <2>4. \/ DataUnusable(t, o, p, out) \/ DataNoRoom(t, o, p, out) \/ DataFills(t, o, p, out)
    BY <1>9 DEF t
  <2> QED BY <1>1, <2>2, <2>3, <2>4, DataSound
<1>10. CASE e' = s
  BY <1>6, <1>10, RanTransitive
<1> QED BY <1>3, <1>9, <1>10 DEF s

-----------------------------------------------------------------------------
(* The theorems. *)

\* Every step of an endpoint keeps the inductive invariant.
LEMMA NextStep == IInv /\ [Next]_vars => IInv'
<1> SUFFICES ASSUME IInv, [Next]_vars PROVE IInv'
  OBVIOUS
<1>1. ASSUME NEW c \in Callers, NEW peer \in Peers, NEW msg \in Messages(MaxMessageSize),
             Call(c, peer, msg)
      PROVE  IInv'
  BY <1>1, CallStep
<1>2. ASSUME NEW c \in Callers, Cancel(c) \/ Abort(c) \/ Return(c) PROVE IInv'
  BY <1>2, CancelStep, AbortStep, ReturnStep
<1>3. ASSUME NEW p \in Incoming, Receive(p) PROVE IInv'
  <2>1. CASE ReceiveNeedAck(p)
    <3>1. e' = e /\ UNCHANGED <<nextID, closed, cutoffs, pc, call>> /\ Good(e)
      BY <2>1 DEF ReceiveNeedAck, IInv
    <3> QED BY <3>1, ShrinkStep DEF Keeps
  <2> QED BY <1>3, <2>1, ReceiveDataStep, ReceiveGrantStep, ReceiveResendStep,
             ReceiveUnknownStep, ReceiveAckStep, ReceiveCutoffsStep DEF Receive
<1>4. ASSUME NEW o \in Obj, DeadlinePasses(o) \/ WriteFails(o) PROVE IInv'
  BY <1>4, DeadlineStep, WriteFailsStep
<1>5. ASSUME NEW late \in SUBSET Expired(e), NEW due \in SUBSET Live(e), Tick(late, due) PROVE IInv'
  BY <1>5, TickStep
<1>6. ASSUME NEW o \in Obj, NEW msg \in Messages(MaxMessageSize + 1) \cup {NoMsg},
             HandlerFails(o, msg) \/ HandlerResponds(o, msg)
      PROVE  IInv'
  BY <1>6, HandlerFailsStep, HandlerRespondsStep
<1>7. CASE Shutdown
  BY <1>7, ShutdownStep
<1>8. CASE UNCHANGED vars
  <2>1. e' = e /\ UNCHANGED <<nextID, closed, cutoffs, pc, call>> /\ Good(e)
    BY <1>8 DEF vars, IInv
  <2> QED BY <2>1, ShrinkStep DEF Keeps
<1> QED BY <1>1, <1>2, <1>3, <1>4, <1>5, <1>6, <1>7, <1>8 DEF Next

\* Every step of an endpoint keeps the RPCs in their stages, and starts only
\* handlers that may start.
LEMMA StageStep == SInv /\ [Next]_vars => Sound(e)' /\ Ran(e, e')
<1> SUFFICES ASSUME SInv, [Next]_vars PROVE Sound(e') /\ Ran(e, e')
  OBVIOUS
<1>1. ASSUME e' = e PROVE Sound(e') /\ Ran(e, e')
  BY <1>1 DEF SInv, Ran
<1>2. ASSUME NEW c \in Callers, NEW peer \in Peers, NEW msg \in Messages(MaxMessageSize),
             Call(c, peer, msg)
      PROVE  Sound(e') /\ Ran(e, e')
  BY <1>2, CallSound
<1>3. ASSUME NEW c \in Callers, Cancel(c) \/ Abort(c) \/ Return(c)
      PROVE  Sound(e') /\ Ran(e, e')
  BY <1>1, <1>3, FinishesSound, ReturnSound DEF Cancel
<1>4. ASSUME NEW p \in Incoming, Receive(p) PROVE Sound(e') /\ Ran(e, e')
  BY <1>1, <1>4, ReceiveDataSound, MoreSound, EndsSound
     DEF Receive, ReceiveNeedAck, ReceiveCutoffs
<1>5. ASSUME NEW o \in Obj, DeadlinePasses(o) \/ WriteFails(o)
      PROVE  Sound(e') /\ Ran(e, e')
  BY <1>5, DeadlineSound, FinishesSound
<1>6. ASSUME NEW late, NEW due, Tick(late, due) PROVE Sound(e') /\ Ran(e, e')
  BY <1>6, TickSound
<1>7. ASSUME NEW o \in Obj, NEW msg \in Messages(MaxMessageSize + 1) \cup {NoMsg},
             HandlerFails(o, msg) \/ HandlerResponds(o, msg)
      PROVE  Sound(e') /\ Ran(e, e')
  BY <1>7, HandlerFailsSound, HandlerRespondsSound
<1>8. CASE Shutdown
  BY <1>8, FinishesSound
<1>9. CASE UNCHANGED vars
  BY <1>1, <1>9 DEF vars
<1> QED BY <1>2, <1>3, <1>4, <1>5, <1>6, <1>7, <1>8, <1>9 DEF Next

\* The inductive invariant holds throughout every behaviour of an endpoint.
THEOREM Inductive == Spec => []IInv
<1>1. Init => IInv
  BY InitStep
<1>2. IInv /\ [Next]_vars => IInv'
  BY NextStep
<1> QED BY <1>1, <1>2, PTL DEF Spec

\* Type correctness of the endpoint (endpoint.go), for every configuration.
THEOREM TypeCorrect == Spec => []TypeOK
<1>1. IInv => TypeOK
  BY DEF IInv
<1> QED BY <1>1, Inductive, PTL

\* Stats.BufferedBytes is what live RPCs and running handlers hold and never
\* exceeds Config.MaxBufferedBytes (reserve, remove, data, startHandler).
THEOREM BudgetExact == Spec => []BufferedAccounted
<1>1. IInv => BufferedAccounted
  <2> SUFFICES ASSUME IInv PROVE BufferedAccounted
    OBVIOUS
  <2>1. e \in Table /\ Vacant(e) /\ Accounted(e) /\ Live(e) \subseteq Obj
    BY LiveType DEF IInv, Good
  <2>2. \A o \in Obj : Holds(e)[o] \in Nat
    BY <2>1, HoldsType
  <2>3. \A o \in Obj \ Live(e) : Holds(e)[o] = 0
    BY <2>1, SMTT(30) DEF Vacant, Holds, Stored, NoMsg, NoRx, BitBytes
  <2>4. Total(Holds(e), Obj) = Total(Holds(e), Live(e))
    <3>1. Total(Holds(e), Obj \ Live(e)) = 0
      BY <2>3, TotalZero
    <3>2. Total(Holds(e), Obj) = Total(Holds(e), Live(e)) + Total(Holds(e), Obj \ Live(e))
      BY <2>1, <2>2, TotalSplit
    <3>3. Total(Holds(e), Live(e)) \in Nat
      <4>1. IsFiniteSet(Live(e)) /\ \A o \in Live(e) : Holds(e)[o] \in Nat
        BY <2>1, <2>2, FS_Subset
      <4> QED BY <4>1, TotalType
    <3> QED BY <3>1, <3>2, <3>3, SMTT(30)
  <2> QED BY <2>1, <2>4 DEF Accounted, BufferedAccounted
<1> QED BY <1>1, Inductive, PTL

\* One worker slot is taken for each handler that has not returned, and never
\* more than Config.HandlerWorkers (startHandler).
THEOREM SlotsExact == Spec => []WorkersCounted
<1>1. IInv => WorkersCounted
  BY DEF IInv, Good, Slots, Busy, WorkersCounted
<1> QED BY <1>1, Inductive, PTL

\* The table and the cutoffs map stay within Config.MaxRPCs (Call, data,
\* receive), and every RPC is under its own key.
THEOREM TableBounded == Spec => []TableSound
<1>1. IInv => TableSound
  BY DEF IInv, Good, Keyed, Bounded, TableSound
<1> QED BY <1>1, Inductive, PTL

\* A caller inside Call is owed exactly one result and shares its struct with
\* no other caller (Call, finish), whoever removes the RPC.
THEOREM CallersAnswered == Spec => []CallNotStranded
<1>1. IInv => CallNotStranded
  <2> SUFFICES ASSUME IInv, NEW c \in Callers, pc[c] # "idle"
               PROVE  /\ Len(e.rpc[call[c]].result) = (IF Current(e, call[c]) THEN 0 ELSE 1)
                      /\ pc[c] = "draining" => ~Current(e, call[c])
                      /\ \A d \in Callers \ {c} : call[d] # call[c]
    BY DEF CallNotStranded
  <2> DEFINE o == call[c]
  <2>1. /\ o \in Obj /\ e.rpc[o].key \in Key /\ IsClient(e, o)
        /\ pc[c] = "draining" => o \notin Live(e)
        /\ \A d \in Callers \ {c} : call[d] # o
    BY DEF IInv, Claimed
  <2>2. e \in Table /\ Keyed(e) /\ Answered(e)
    BY DEF IInv, Good
  <2> HIDE DEF o
  <2>3. Current(e, o) <=> o \in Live(e)
    BY <2>1, <2>2, LiveType, SMTT(30) DEF Current
  <2>4. Len(e.rpc[o].result) = IF o \in Live(e) THEN 0 ELSE 1
    BY <2>1, <2>2 DEF Answered
  <2> QED BY <2>1, <2>3, <2>4 DEF o
<1> QED BY <1>1, Inductive, PTL

\* After shutdown the table is empty, and the budget is held by running
\* handlers only (shutdown).
THEOREM ClosedEmpty == Spec => []ClosedIsEmpty
<1>1. IInv => ClosedIsEmpty
  <2> SUFFICES ASSUME IInv, closed PROVE Live(e) = {} /\ e.buffered = Total(e.payload, Obj)
    BY DEF ClosedIsEmpty
  <2>1. e \in Table /\ Vacant(e) /\ Accounted(e) /\ Live(e) = {}
    BY DEF IInv, Good, Bounded
  <2>2. \A o \in Obj : Holds(e)[o] = 0
    BY <2>1, SMTT(30) DEF Vacant, Holds, Stored, NoMsg, NoRx, BitBytes
  <2>3. Total(Holds(e), Obj) = 0
    BY <2>2, TotalZero
  <2>4. Total(e.payload, Obj) \in Nat
    BY <2>1, HoldsType
  <2> QED BY <2>1, <2>3, <2>4, SMTT(30) DEF Accounted
<1> QED BY <1>1, Inductive, PTL

-----------------------------------------------------------------------------
(* The configuration. *)

\* Every RPC of an endpoint is in one of its stages and at its grant, throughout
\* every behaviour.
THEOREM StagesInductive == Spec => []SInv
<1>1. Init => SInv
  BY InitStep, InitSound DEF SInv
<1>2. SInv /\ [Next]_vars => SInv'
  BY NextStep, StageStep DEF SInv
<1> QED BY <1>1, <1>2, PTL DEF Spec

\* A request is assembled, waits, is handled and is answered, with the buffer, the
\* payload and the response of its stage and no other (data, startHandler).
THEOREM StagesKept == Spec => []ServerStages
<1>1. SInv => ServerStages
  <2> SUFFICES ASSUME SInv, NEW o \in Live(e), ~IsClient(e, o)
               PROVE  LET r == e.rpc[o] IN
                      /\ r.handling => r.received /\ r.rx.len = 0
                      /\ ~r.handling => r.tx.len = 0 /\ e.payload[o] = 0 /\ r.rx.len > 0
                      /\ e.payload[o] > 0 => r.tx.len = 0
                      /\ ~r.handling => (r.received <=> Count(r.rx) = r.rx.len)
    BY DEF ServerStages
  <2>1. Good(e) /\ o \in Obj /\ Alive(e.rpc[o])
    <3>1. e \in Table /\ Good(e) /\ Sound(e)
      BY DEF SInv, IInv, Good
    <3>2. o \in Obj
      BY <3>1, LiveType
    <3> QED BY <3>1, <3>2 DEF Sound
  <2>2. Staged(e.rpc[o])
    BY <2>1 DEF Alive, IsClient
  <2>3. /\ ~e.rpc[o].handling => e.rpc[o].tx = NoMsg /\ e.payload[o] = 0
        /\ e.payload[o] > 0 => e.rpc[o].tx = NoMsg
    BY <2>1 DEF Good, Unstarted, Serving
  <2>4. NoMsg.len = 0
    BY DEF NoMsg
  <2> QED BY <2>2, <2>3, <2>4 DEF Staged
<1> QED BY <1>1, StagesInductive, PTL

\* Whatever GRANT or RESEND arrives, sendNew leaves no granted byte behind and cuts
\* only whole segments.
THEOREM GrantsServed == Spec => []GrantedIsSent
<1>1. SInv => GrantedIsSent
  <2> SUFFICES ASSUME SInv, NEW o \in Live(e), e.rpc[o].tx.len > 0
               PROVE  LET r == e.rpc[o] IN
                      /\ r.sent >= Lesser(r.granted, r.tx.len)
                      /\ r.sent <= r.tx.len
                      /\ r.sent % SegmentBytes = 0 \/ r.sent = r.tx.len
    BY DEF GrantedIsSent
  <2>1. Paces(e.rpc[o])
    <3>1. e \in Table /\ Sound(e)
      BY DEF SInv, IInv, Good
    <3>2. o \in Obj
      BY <3>1, LiveType
    <3> QED BY <3>1, <3>2 DEF Sound, Alive
  <2> QED BY <2>1, SMTT(30) DEF Paces
<1> QED BY <1>1, StagesInductive, PTL

\* startHandler runs a handler once for an RPC, and not after its deadline, whoever
\* calls it: data, the timer or a handler that returns.
THEOREM StartsOnce == Spec => HandlerStartsOnce
<1> DEFINE Start1 == \A o \in Obj : e.payload[o] = 0 /\ e'.payload[o] > 0 =>
                       ~e.rpc[o].handling /\ ~e.rpc[o].expired
<1>1. SInv /\ [Next]_vars => [Start1]_vars
  BY StageStep, SMTT(30) DEF Ran, Fresh
<1> QED BY <1>1, StagesInductive, PTL DEF Spec, HandlerStartsOnce

=============================================================================
