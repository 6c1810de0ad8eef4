--------------------------- MODULE EndpointSteps ----------------------------
(***************************************************************************)
(* Each action of Endpoint but the arrival of a packet preserves IInv: it  *)
(* rebuilds the table with the steps of the lemmas, and the callers        *)
(* only need to know that a step keeps their structs (Keeps).              *)
(***************************************************************************)
EXTENDS EndpointLemmas

\* Leaves that do not ask for SMT are proved by Zenon.
USE ZenonT(60)

USE ConfigAssumption, SetAssumption

\* What Claimed says of one caller.
LEMMA ClaimedCaller ==
  ASSUME Claimed, NEW c \in Callers
  PROVE  /\ pc[c] = "idle" => call[c] = Nil
         /\ pc[c] # "idle" =>
              /\ call[c] \in Obj /\ e.rpc[call[c]].key \in Key /\ IsClient(e, call[c])
              /\ pc[c] = "draining" => call[c] \notin Live(e)
              /\ \A d \in Callers \ {c} : call[d] # call[c]
BY DEF Claimed

\* e.rpcs[r.key] == r exactly for the structs of the table.
LEMMA CurrentLive ==
  ASSUME NEW s, Good(s), NEW o \in Obj, s.rpc[o].key \in Key
  PROVE  Current(s, o) <=> o \in Live(s)
<1>1. s \in Table /\ Keyed(s)
  BY DEF Good
<1>2. /\ \A k \in Key : s.rpcs[k] # Nil => s.rpcs[k] \in Live(s)
      /\ \A x \in Live(s) : s.rpcs[s.rpc[x].key] = x
  BY <1>1, LiveType
<1>3. o # Nil
  OBVIOUS
<1> QED BY <1>2, <1>3 DEF Current

\* A step that changes only the table, and keeps it sound, keeps IInv.
LEMMA TableStep ==
  ASSUME IInv, Good(e'), Keeps(e, e'), Cardinality(Live(e')) <= MaxRPCs,
         closed => Live(e') = {}, UNCHANGED <<nextID, closed, cutoffs, pc, call>>
  PROVE  IInv'
<1>1. /\ TypeOK /\ Good(e) /\ Claimed /\ Numbered /\ Bounded /\ e \in Table /\ e' \in Table
      /\ nextID' = nextID /\ closed' = closed /\ cutoffs' = cutoffs /\ pc' = pc /\ call' = call
  BY DEF IInv, Good
<1>2. TypeOK'
  BY <1>1 DEF TypeOK
<1>3. Claimed'
  <2> SUFFICES ASSUME NEW c \in Callers
               PROVE IF pc[c] = "idle" THEN call[c] = Nil
                     ELSE /\ call[c] \in Obj /\ e'.rpc[call[c]].key \in Key /\ IsClient(e', call[c])
                          /\ pc[c] = "draining" => call[c] \notin Live(e')
                          /\ \A d \in Callers \ {c} : call[d] # call[c]
    BY <1>1 DEF Claimed
  <2>1. CASE pc[c] = "idle"
    BY <1>1, <2>1 DEF Claimed
  <2>2. CASE pc[c] # "idle"
    <3> DEFINE o == call[c]
    <3>1. /\ o \in Obj /\ e.rpc[o].key \in Key /\ IsClient(e, o)
          /\ pc[c] = "draining" => o \notin Live(e)
          /\ \A d \in Callers \ {c} : call[d] # o
      BY <1>1, <2>2 DEF Claimed
    <3> HIDE DEF o
    <3>2. e'.rpc[o].key = e.rpc[o].key
      BY <3>1 DEF Keeps
    <3>3. IsClient(e', o) /\ e'.rpc[o].key \in Key
      BY <3>1, <3>2 DEF IsClient
    <3>4. ASSUME o \notin Live(e), o \in Live(e') PROVE FALSE
      <4>1. e'.rpcs[e.rpc[o].key] = o
        BY <1>1, <3>2, <3>4, LiveType, SMTT(30) DEF Good
      <4>2. e.rpcs[e.rpc[o].key] = o
        BY <3>1, <4>1 DEF Keeps, IsClient
      <4> QED BY <1>1, <3>1, <3>4, <4>2, LiveType, SMTT(30)
    <3> QED BY <2>2, <3>1, <3>3, <3>4 DEF o
  <2> QED BY <2>1, <2>2
<1>4. Numbered'
  <2>1. \A k \in Key : IsClientID(k[2]) /\ e'.rpcs[k] # Nil => e.rpcs[k] # Nil
    BY DEF Keeps
  <2> QED BY <1>1, <2>1 DEF Numbered
<1>5. Bounded'
  BY <1>1, SMTT(30) DEF Bounded
<1> QED BY <1>1, <1>2, <1>3, <1>4, <1>5 DEF IInv

\* A step whose table has no RPC that was not there before.
LEMMA ShrinkStep ==
  ASSUME IInv, Good(e'), Keeps(e, e'), Live(e') \subseteq Live(e),
         UNCHANGED <<nextID, closed, cutoffs, pc, call>>
  PROVE  IInv'
<1>1. e \in Table /\ Bounded
  BY DEF IInv, Good
<1>2. Live(e) \subseteq Obj
  BY <1>1, LiveType
<1>3. IsFiniteSet(Live(e))
  BY <1>2, FS_Subset
<1>4. Cardinality(Live(e')) <= Cardinality(Live(e)) /\ Cardinality(Live(e)) \in Nat
      /\ Cardinality(Live(e')) \in Nat
  BY <1>3, FS_Subset, FS_CardinalityType
<1>5. Cardinality(Live(e')) <= MaxRPCs /\ (closed => Live(e') = {})
  BY <1>1, <1>4, SMTT(30) DEF Bounded
<1> QED BY <1>5, TableStep

\* What the table says of the struct a packet is for.
LEMMA PacketKey ==
  ASSUME NEW p \in Incoming
  PROVE  KeyOf(p) \in Key /\ p.src[1] \in {a[1] : a \in Peers}
<1>1. p.src \in Peers /\ p.id \in Id
  BY IncomingAssumption DEF Packets
<1> QED BY <1>1, LocalIDType DEF KeyOf, Key

\* An ack removes server RPCs only.
LEMMA AckedByServers ==
  ASSUME NEW s, NEW ip, NEW ids \in SUBSET Id, NEW R \in AckedBy(s, ip, ids)
  PROVE  R \in SUBSET Live(s) /\ \A o \in R : ~IsClient(s, o)
<1> DEFINE match(id) == {o \in Live(s) : s.rpc[o].key[1][1] = ip
                                         /\ s.rpc[o].key[2] = LocalID(id)}
           hit == {id \in ids : IsClientID(id) /\ match(id) # {}}
<1>1. PICK pick \in [hit -> Live(s)] :
        (\A id \in hit : pick[id] \in match(id)) /\ R = {pick[id] : id \in hit}
  BY DEF AckedBy
<1>2. \A id \in hit : id \in Id /\ IsClientID(id) /\ pick[id] \in Live(s)
                      /\ s.rpc[pick[id]].key[2] = LocalID(id)
  BY <1>1
<1>3. \A id \in Id : IsClientID(id) => ~IsClientID(LocalID(id))
  BY SMTT(30) DEF IsClientID, LocalID, Id
<1> HIDE DEF hit
<1>4. ASSUME NEW id \in hit PROVE ~IsClient(s, pick[id])
  BY <1>2, <1>3, SMTT(30) DEF IsClient
<1> QED BY <1>1, <1>2, <1>4

-----------------------------------------------------------------------------
(* One lemma per action. *)

\* New starts with an empty table.
LEMMA InitStep == Init => IInv
<1> SUFFICES ASSUME Init PROVE IInv
  OBVIOUS
<1>1. /\ e = [rpcs |-> [k \in Key |-> Nil], rpc |-> [o \in Obj |-> Blank],
              payload |-> [o \in Obj |-> 0], buffered |-> 0, workers |-> 0]
      /\ nextID = 0 /\ closed = FALSE /\ cutoffs = [h \in {} |-> 0]
      /\ pc = [c \in Callers |-> "idle"] /\ call = [c \in Callers |-> Nil]
  BY DEF Init
<1>2. /\ e \in Table /\ Live(e) = {} /\ e.buffered = 0 /\ e.workers = 0
      /\ \A o \in Obj : e.rpc[o] = Blank /\ e.payload[o] = 0
      /\ \A k \in Key : e.rpcs[k] = Nil
  <2>1. [o \in Obj |-> Blank] \in [Obj -> Rpc]
    BY BlankType
  <2>2. e \in Table
    BY <1>1, <2>1, SMTT(30) DEF Table
  <2> QED BY <1>1, <2>2 DEF Live
<1>3. Keyed(e) /\ Serving(e) /\ Unstarted(e)
  BY <1>2, SMTT(30) DEF Keyed, Serving, Unstarted
<1>4. Vacant(e)
  BY <1>2, SMTT(30) DEF Vacant, Blank
<1>5. Answered(e)
  BY <1>2, KeyAssumption, SMTT(30) DEF Answered, Blank
<1>6. Accounted(e)
  <2>1. \A o \in Obj : Holds(e)[o] = 0
    BY <1>2, SMTT(30) DEF Holds, Stored, Blank, NoMsg, NoRx, BitBytes
  <2>2. Total(Holds(e), Obj) = 0
    BY <2>1, TotalZero
  <2>3. Total(e.payload, Obj) = 0
    BY <1>2, TotalZero
  <2> QED BY <1>2, <2>2, <2>3, SMTT(30) DEF Accounted
<1>7. Slots(e)
  <2>1. Busy(e) = {}
    BY <1>2, SMTT(30) DEF Busy
  <2> QED BY <1>2, <2>1, FS_EmptySet, SMTT(30) DEF Slots
<1>8. TypeOK
  BY <1>1, <1>2 DEF TypeOK
<1>9. Claimed /\ Numbered
  BY <1>1, <1>2, SMTT(30) DEF Claimed, Numbered
<1>10. Bounded
  <2>1. DOMAIN cutoffs = {}
    BY <1>1
  <2> QED BY <1>2, <2>1, FS_EmptySet, SMTT(30) DEF Bounded
<1> QED BY <1>2, <1>3, <1>4, <1>5, <1>6, <1>7, <1>8, <1>9, <1>10 DEF IInv, Good

\* An RPC whose packet the socket refused is finished alone.
LEMMA WriteFailsStep ==
  ASSUME IInv, NEW o \in Obj, WriteFails(o)
  PROVE  IInv'
<1>1. /\ e \in Table /\ Good(e) /\ {o} \in SUBSET Live(e) /\ {o} \in SUBSET Obj /\ "write" \in Errors
      /\ e' = Finish(e, {o}, "write") /\ UNCHANGED <<nextID, closed, cutoffs, pc, call>>
  BY DEF WriteFails, IInv, Good, Errors
<1>2. Good(e') /\ Keeps(e, e')
  BY <1>1, FinishGood
<1>3. Live(e') = Live(e) \ {o}
  BY <1>1, FinishLive
<1> QED BY <1>1, <1>2, <1>3, ShrinkStep

\* Shutdown finishes everything.
LEMMA ShutdownStep ==
  ASSUME IInv, Shutdown
  PROVE  IInv'
<1>1. /\ e \in Table /\ Good(e) /\ Live(e) \in SUBSET Live(e) /\ Live(e) \in SUBSET Obj
      /\ "closed" \in Errors
      /\ e' = Finish(e, Live(e), "closed") /\ closed' = TRUE /\ ~closed
      /\ UNCHANGED <<nextID, cutoffs, pc, call>>
  BY LiveType DEF Shutdown, IInv, Good, Errors
<1>2. Good(e') /\ Keeps(e, e')
  BY <1>1, FinishGood
<1>3. Live(e') = {}
  BY <1>1, FinishLive, SMTT(30)
<1>4. TypeOK' /\ Bounded'
  <2>1. TypeOK'
    BY <1>1, <1>2 DEF IInv, TypeOK, Good
  <2>2. Cardinality(Live(e')) = 0
    BY <1>3, FS_EmptySet
  <2> QED BY <1>1, <1>3, <2>1, <2>2, SMTT(30) DEF IInv, Bounded
<1>5. Claimed'
  <2> SUFFICES ASSUME NEW c \in Callers, pc[c] # "idle"
               PROVE  /\ call[c] \in Obj /\ e'.rpc[call[c]].key \in Key /\ IsClient(e', call[c])
                      /\ \A d \in Callers \ {c} : call[d] # call[c]
    BY <1>1, <1>3 DEF IInv, Claimed
  <2>1. /\ call[c] \in Obj /\ e.rpc[call[c]].key \in Key /\ IsClient(e, call[c])
        /\ \A d \in Callers \ {c} : call[d] # call[c]
    BY DEF IInv, Claimed
  <2>2. e'.rpc[call[c]].key = e.rpc[call[c]].key
    BY <1>2, <2>1 DEF Keeps
  <2> QED BY <2>1, <2>2 DEF IsClient
<1>6. Numbered'
  <2>1. \A k \in Key : e'.rpcs[k] = Nil
    BY <1>2, <1>3, LiveType DEF Good
  <2> QED BY <1>1, <2>1 DEF IInv, Numbered
<1> QED BY <1>2, <1>4, <1>5, <1>6 DEF IInv

\* Time passes a deadline: nothing that is stored changes.
LEMMA DeadlineStep ==
  ASSUME IInv, NEW o \in Obj, DeadlinePasses(o)
  PROVE  IInv'
<1> DEFINE r == [e.rpc[o] EXCEPT !.expired = TRUE]
<1>1. /\ e \in Table /\ Good(e) /\ o \in Live(e) /\ e.rpc[o] \in Rpc
      /\ UNCHANGED <<nextID, closed, cutoffs, pc, call>>
  BY DEF DeadlinePasses, IInv, Good, Table
<1>2. e' = [e EXCEPT !.rpc[o] = r]
  BY <1>1 DEF DeadlinePasses, Table
<1>3. /\ r \in Rpc /\ r.key = e.rpc[o].key /\ r.tx = e.rpc[o].tx /\ r.rx = e.rpc[o].rx
      /\ r.handling = e.rpc[o].handling /\ r.result = e.rpc[o].result
  BY <1>1 DEF Rpc
<1> HIDE DEF r
<1>4. Good(e') /\ Keeps(e, e') /\ Live(e') = Live(e)
  BY <1>1, <1>2, <1>3, TuneGood, SMTT(30)
<1> QED BY <1>1, <1>4, ShrinkStep

\* The timer finishes what is late, starts what waits and hands out grants.
LEMMA TickStep ==
  ASSUME IInv, NEW late, NEW due, Tick(late, due)
  PROVE  IInv'
<1>1. /\ e \in Table /\ Good(e) /\ late \in SUBSET Live(e) /\ late \in SUBSET Obj
      /\ "deadline" \in Errors /\ UNCHANGED <<nextID, closed, cutoffs, pc, call>>
  BY LiveType DEF Tick, Expired, IInv, Good, Errors
<1> DEFINE s == Finish(e, late, "deadline")
<1>2. PICK W \in Starters(s, Waiting(s)) :
        \E rank \in Rankings(StartHandlers(s, Waiting(s), W)) :
          e' = Schedule(StartHandlers(s, Waiting(s), W), rank)
  BY DEF Tick
<1>3. PICK rank : e' = Schedule(StartHandlers(s, Waiting(s), W), rank)
  BY <1>2
<1>4. Good(s) /\ Keeps(e, s)
  BY <1>1, FinishGood
<1>5. Live(s) = Live(e) \ late
  BY <1>1, FinishLive
<1> HIDE DEF s
<1> DEFINE t == StartHandlers(s, Waiting(s), W)
<1>6. Waiting(s) \in SUBSET Live(s) /\ \A o \in Waiting(s) : ~IsClient(s, o)
  BY DEF Waiting
<1>7. Good(t) /\ Keeps(s, t) /\ Live(t) \subseteq Live(s)
  BY <1>2, <1>4, <1>6, StartHandlersGood
<1> HIDE DEF t
<1>8. e' = Schedule(t, rank)
  BY <1>3 DEF t
<1>9. Good(e') /\ Keeps(t, e') /\ Live(e') = Live(t)
  BY <1>7, <1>8, ScheduleGood
<1>10. Keeps(e, e')
  <2>1. Keeps(e, t)
    BY <1>4, <1>7, KeepsTransitive
  <2> QED BY <1>9, <2>1, KeepsTransitive
<1> QED BY <1>1, <1>5, <1>7, <1>9, <1>10, ShrinkStep

\* A handler that returns without a usable response.
LEMMA HandlerFailsStep ==
  ASSUME IInv, NEW o \in Obj, NEW msg, HandlerFails(o, msg)
  PROVE  IInv'
<1>1. /\ Good(e) /\ e.payload[o] > 0 /\ e' = Freed(e, o)
      /\ UNCHANGED <<nextID, closed, cutoffs, pc, call>>
  BY DEF HandlerFails, Released, Freed, IInv
<1>2. Good(e') /\ Keeps(e, e') /\ Live(e') = Live(e)
  BY <1>1, FreedGood
<1> QED BY <1>1, <1>2, ShrinkStep

\* The struct of a request whose handler returned msg, and the table with it.
Answering(o, msg) ==
  [Freed(e, o).rpc[o] EXCEPT !.tx = msg, !.granted = Lesser(msg.len, UnscheduledBytes)]

Responded(o, msg) ==
  [Freed(e, o) EXCEPT !.rpc[o] = SendNew(Answering(o, msg)), !.buffered = @ + msg.len]

\* The response is on the budget in place of the request.
LEMMA RespondGood ==
  ASSUME IInv, NEW o \in Obj, NEW msg, msg \in Messages(MaxMessageSize + 1) \cup {NoMsg},
         HandlerResponds(o, msg)
  PROVE  /\ Good(Responded(o, msg)) /\ Keeps(e, Responded(o, msg))
         /\ Live(Responded(o, msg)) = Live(e) /\ o \in Live(e)
         /\ Answering(o, msg) \in Rpc /\ ~IsClient(e, o)
         /\ e.rpc[o].handling = TRUE /\ e.rpc[o].tx = NoMsg
<1> DEFINE s == Freed(e, o)
           r == Answering(o, msg)
           n == SendNew(r)
           t == Responded(o, msg)
<1>1. /\ Good(e) /\ e.payload[o] > 0 /\ Current(e, o)
      /\ msg.len \in Nat /\ msg \in Msg
  BY SMTT(30) DEF HandlerResponds, IInv, Messages, Msg, NoMsg
<1>2. s = Released(o)
  BY DEF Freed, Released
<1>3. /\ r = [s.rpc[o] EXCEPT !.tx = msg, !.granted = Lesser(msg.len, UnscheduledBytes)]
      /\ t = [s EXCEPT !.rpc[o] = n, !.buffered = @ + msg.len]
  BY DEF Answering, Responded
<1>4. /\ Good(s) /\ Keeps(e, s) /\ Live(s) = Live(e)
      /\ o \in Live(s) /\ s.rpc[o] = e.rpc[o] /\ s.payload[o] = 0
  BY <1>1, FreedGood
<1>5. Room(s, msg.len)
  BY <1>2 DEF HandlerResponds
<1> HIDE DEF s
<1>6. /\ s \in Table /\ s.rpc[o] \in Rpc /\ s.buffered \in Int
  BY <1>4 DEF Good, Table
<1>7. ~IsClient(s, o) /\ s.rpc[o].handling = TRUE /\ s.rpc[o].tx = NoMsg
  <2>1. ~IsClient(e, o) /\ e.rpc[o].tx = NoMsg
    BY <1>1 DEF Good, Serving
  <2>2. o \in Live(e)
    BY <1>4
  <2>3. e.rpc[o].handling
    BY <1>1, <2>1, <2>2, SMTT(30) DEF Good, Unstarted
  <2>4. e.rpc[o].handling \in BOOLEAN
    BY <1>4, <1>6 DEF Rpc
  <2> QED BY <1>4, <2>1, <2>3, <2>4 DEF IsClient
<1>8. /\ r \in Rpc /\ r.key = s.rpc[o].key /\ r.result = s.rpc[o].result
      /\ r.handling = s.rpc[o].handling /\ r.rx = s.rpc[o].rx /\ r.tx = msg
  <2>1. Lesser(msg.len, UnscheduledBytes) \in Nat
    BY <1>1 DEF Lesser
  <2> HIDE DEF r
  <2> QED BY <1>1, <1>3, <1>6, <2>1 DEF Rpc
<1> HIDE DEF r
<1>9. /\ n \in Rpc /\ n.key = s.rpc[o].key /\ n.result = s.rpc[o].result
      /\ n.handling = s.rpc[o].handling /\ n.rx = s.rpc[o].rx /\ n.tx = msg
  <2>1. n \in Rpc /\ n = [r EXCEPT !.sent = n.sent]
    BY <1>8, SendNewType
  <2> HIDE DEF n
  <2> QED BY <1>8, <2>1 DEF Rpc
<1> HIDE DEF n
<1>10. Stored(n) = Stored(s.rpc[o]) + msg.len /\ Stored(s.rpc[o]) \in Nat
  <2>1. s.rpc[o].tx.len = 0 /\ s.rpc[o].rx.len \in Nat
    <3>1. s.rpc[o].rx \in Rx
      BY <1>6 DEF Rpc
    <3>2. NoMsg.len = 0
      BY DEF NoMsg
    <3> QED BY <1>7, <3>1, <3>2 DEF Rx
  <2>2. Stored(s.rpc[o]) \in Nat /\ BitBytes(s.rpc[o].rx.len) \in Nat
    BY <1>6, StoredType
  <2> QED BY <1>1, <1>9, <2>1, <2>2, SMTT(30) DEF Stored
<1>11. t = Store(s, o, n)
  <2>1. s.buffered + msg.len = s.buffered - Stored(s.rpc[o]) + Stored(n)
    BY <1>1, <1>6, <1>10, SMTT(30)
  <2> HIDE DEF t
  <2> QED BY <1>3, <1>6, <2>1 DEF Store, Table
<1>12. s.buffered - Stored(s.rpc[o]) + Stored(n) <= MaxBufferedBytes
  BY <1>1, <1>5, <1>6, <1>10, SMTT(30) DEF Room
<1>13. Good(t) /\ Keeps(s, t) /\ Live(t) = Live(s)
  BY <1>4, <1>7, <1>9, <1>11, <1>12, StoreGood, SMTT(30)
<1>14. Keeps(e, t)
  <2> HIDE DEF t
  <2> QED BY <1>4, <1>13, KeepsTransitive
<1>15. ~IsClient(e, o) /\ e.rpc[o].handling = TRUE /\ e.rpc[o].tx = NoMsg
  BY <1>4, <1>7 DEF IsClient
<1> QED BY <1>4, <1>8, <1>13, <1>14, <1>15 DEF t, r

\* A handler that responds, and the requests that were waiting for its slot.
LEMMA HandlerRespondsStep ==
  ASSUME IInv, NEW o \in Obj, NEW msg, msg \in Messages(MaxMessageSize + 1) \cup {NoMsg},
         HandlerResponds(o, msg)
  PROVE  IInv'
<1> DEFINE t == Responded(o, msg)
<1>1. UNCHANGED <<nextID, closed, cutoffs, pc, call>>
  BY DEF HandlerResponds
<1>2. PICK W \in Starters(t, Waiting(t)) : e' = StartHandlers(t, Waiting(t), W)
  BY DEF HandlerResponds, Responded, Answering, Freed, Released
<1>3. Good(t) /\ Keeps(e, t) /\ Live(t) = Live(e)
  BY RespondGood
<1> HIDE DEF t
<1>4. Waiting(t) \in SUBSET Live(t) /\ \A x \in Waiting(t) : ~IsClient(t, x)
  BY DEF Waiting
<1>5. Good(e') /\ Keeps(t, e') /\ Live(e') \subseteq Live(t)
  BY <1>2, <1>3, <1>4, StartHandlersGood
<1>6. Keeps(e, e')
  BY <1>3, <1>5, KeepsTransitive
<1> QED BY <1>1, <1>3, <1>5, <1>6, ShrinkStep

\* The select of Call takes ctx.Done.
LEMMA CancelStep ==
  ASSUME IInv, NEW c \in Callers, Cancel(c)
  PROVE  IInv'
<1>1. /\ pc[c] = "waiting" /\ pc' = [pc EXCEPT ![c] = "canceled"]
      /\ e' = e /\ nextID' = nextID /\ closed' = closed /\ cutoffs' = cutoffs /\ call' = call
      /\ TypeOK /\ Good(e) /\ Claimed /\ Numbered /\ Bounded
  BY DEF Cancel, IInv
<1>2. TypeOK'
  BY <1>1 DEF TypeOK
<1>3. Claimed'
  BY <1>1 DEF Claimed, TypeOK
<1> QED BY <1>1, <1>2, <1>3 DEF IInv, Numbered, Bounded

\* The canceled caller removes its RPC, if nothing else has.
LEMMA AbortStep ==
  ASSUME IInv, NEW c \in Callers, Abort(c)
  PROVE  IInv'
<1> DEFINE o == call[c]
<1>1. /\ pc[c] = "canceled" /\ pc' = [pc EXCEPT ![c] = "draining"]
      /\ nextID' = nextID /\ closed' = closed /\ cutoffs' = cutoffs /\ call' = call
      /\ TypeOK /\ Good(e) /\ Claimed /\ Numbered /\ Bounded /\ e \in Table
      /\ e' = IF Current(e, o) THEN Finish(e, {o}, "canceled") ELSE e
  BY DEF Abort, IInv, Good
<1>2. o \in Obj /\ e.rpc[o].key \in Key /\ IsClient(e, o)
  BY <1>1 DEF Claimed
<1>3. Current(e, o) <=> o \in Live(e)
  BY <1>1, <1>2, CurrentLive
<1>4. Good(e') /\ Keeps(e, e') /\ Live(e') = Live(e) \ {o}
  <2>1. CASE Current(e, o)
    <3>1. {o} \in SUBSET Live(e) /\ {o} \in SUBSET Obj /\ "canceled" \in Errors
      BY <1>2, <1>3, <2>1 DEF Errors
    <3>2. e' = Finish(e, {o}, "canceled")
      BY <1>1, <2>1
    <3>3. Good(e') /\ Keeps(e, e')
      BY <1>1, <3>1, <3>2, FinishGood
    <3>4. Live(e') = Live(e) \ {o}
      BY <1>1, <3>1, <3>2, FinishLive, SMTT(30)
    <3> QED BY <3>3, <3>4
  <2>2. CASE ~Current(e, o)
    BY <1>1, <1>3, <2>2 DEF Keeps
  <2> QED BY <2>1, <2>2
<1> HIDE DEF o
<1>5. TypeOK'
  BY <1>1, <1>4 DEF TypeOK, Good
<1>6. Claimed'
  <2> SUFFICES ASSUME NEW d \in Callers
               PROVE IF pc'[d] = "idle" THEN call[d] = Nil
                     ELSE /\ call[d] \in Obj /\ e'.rpc[call[d]].key \in Key /\ IsClient(e', call[d])
                          /\ pc'[d] = "draining" => call[d] \notin Live(e')
                          /\ \A x \in Callers \ {d} : call[x] # call[d]
    BY <1>1 DEF Claimed
  <2>1. /\ pc'[c] = "draining" /\ pc \in [Callers -> {"idle", "waiting", "canceled", "draining"}]
        /\ d # c => pc'[d] = pc[d]
    BY <1>1 DEF TypeOK
  <2>2. CASE pc[d] = "idle"
    BY <1>1, <2>1, <2>2 DEF Claimed
  <2>3. CASE pc[d] # "idle"
    <3>1. /\ call[d] \in Obj /\ e.rpc[call[d]].key \in Key /\ IsClient(e, call[d])
          /\ pc[d] = "draining" => call[d] \notin Live(e)
          /\ \A x \in Callers \ {d} : call[x] # call[d]
      BY <1>1, <2>3 DEF Claimed
    <3>2. e'.rpc[call[d]].key = e.rpc[call[d]].key
      BY <1>4, <3>1 DEF Keeps
    <3>3. e'.rpc[call[d]].key \in Key /\ IsClient(e', call[d])
      BY <3>1, <3>2 DEF IsClient
    <3>4. pc'[d] = "draining" => call[d] \notin Live(e')
      BY <1>4, <2>1, <3>1 DEF o
    <3>5. pc'[d] # "idle"
      BY <2>1, <2>3
    <3> QED BY <3>1, <3>3, <3>4, <3>5
  <2> QED BY <2>2, <2>3
<1>7. Numbered'
  <2>1. \A k \in Key : IsClientID(k[2]) /\ e'.rpcs[k] # Nil => e.rpcs[k] # Nil
    BY <1>4 DEF Keeps
  <2> QED BY <1>1, <2>1 DEF Numbered
<1>8. Bounded'
  <2>1. IsFiniteSet(Live(e))
    BY <1>1, LiveType, FS_Subset
  <2>2. Cardinality(Live(e')) <= Cardinality(Live(e)) /\ Cardinality(Live(e)) \in Nat
        /\ Cardinality(Live(e')) \in Nat
    BY <1>4, <2>1, FS_Subset, FS_CardinalityType
  <2>3. Cardinality(Live(e')) <= MaxRPCs
    BY <1>1, <2>2, SMTT(30) DEF Bounded
  <2> QED BY <1>1, <1>4, <2>3 DEF Bounded
<1> QED BY <1>4, <1>5, <1>6, <1>7, <1>8 DEF IInv

\* Call takes its result and returns.
LEMMA ReturnStep ==
  ASSUME IInv, NEW c \in Callers, Return(c)
  PROVE  IInv'
<1> DEFINE o == call[c]
<1>1. /\ pc[c] # "idle" /\ pc' = [pc EXCEPT ![c] = "idle"] /\ call' = [call EXCEPT ![c] = Nil]
      /\ e' = [e EXCEPT !.rpc[o] = Blank] /\ e.rpc[o].result # <<>>
      /\ nextID' = nextID /\ closed' = closed /\ cutoffs' = cutoffs
      /\ TypeOK /\ Good(e) /\ Claimed /\ Numbered /\ Bounded /\ e \in Table
  BY DEF Return, IInv, Good
<1>2. /\ o \in Obj /\ e.rpc[o].key \in Key /\ IsClient(e, o)
      /\ \A d \in Callers \ {c} : call[d] # o
  BY <1>1 DEF Claimed
<1>3. o \notin Live(e)
  <2>1. e.rpc[o].result \in Seq(Result)
    BY <1>1, <1>2 DEF Table, Rpc
  <2>2. Len(e.rpc[o].result) # 0
    BY <1>1, <2>1, SMTT(30)
  <2> QED BY <1>1, <1>2, <2>2 DEF Good, Answered
<1>4. e.payload[o] = 0
  <2>1. e.payload[o] \in Nat
    BY <1>1, <1>2 DEF Table
  <2> QED BY <1>1, <1>2, <2>1, SMTT(30) DEF Good, Serving
<1> HIDE DEF o
<1>5. /\ Good(e') /\ Live(e') = Live(e) /\ e'.rpcs = e.rpcs
      /\ \A x \in Obj \ {o} : e'.rpc[x] = e.rpc[x]
  BY <1>1, <1>2, <1>3, <1>4, ForgetGood, SMTT(30)
<1>6. TypeOK'
  BY <1>1, <1>5 DEF TypeOK, Good
<1>7. Claimed'
  <2> SUFFICES ASSUME NEW d \in Callers
               PROVE IF pc'[d] = "idle" THEN call'[d] = Nil
                     ELSE /\ call'[d] \in Obj /\ e'.rpc[call'[d]].key \in Key /\ IsClient(e', call'[d])
                          /\ pc'[d] = "draining" => call'[d] \notin Live(e')
                          /\ \A x \in Callers \ {d} : call'[x] # call'[d]
    BY DEF Claimed
  <2>1. /\ pc'[c] = "idle" /\ call'[c] = Nil
        /\ \A x \in Callers \ {c} : pc'[x] = pc[x] /\ call'[x] = call[x]
    BY <1>1 DEF TypeOK
  <2>2. CASE d = c
    BY <2>1, <2>2
  <2>3. CASE d # c /\ pc[d] = "idle"
    BY <1>1, <2>1, <2>3 DEF Claimed
  <2>4. CASE d # c /\ pc[d] # "idle"
    <3>1. /\ call[d] \in Obj /\ e.rpc[call[d]].key \in Key /\ IsClient(e, call[d])
          /\ pc[d] = "draining" => call[d] \notin Live(e)
          /\ \A x \in Callers \ {d} : call[x] # call[d]
      BY <1>1, <2>4 DEF Claimed
    <3>2. e'.rpc[call[d]] = e.rpc[call[d]]
      BY <1>2, <1>5, <2>4, <3>1
    <3>3. e'.rpc[call[d]].key \in Key /\ IsClient(e', call[d])
      BY <3>1, <3>2 DEF IsClient
    <3>4. \A x \in Callers \ {d} : call'[x] # call[d]
      BY <2>1, <3>1
    <3> QED BY <1>5, <2>1, <2>4, <3>1, <3>3, <3>4
  <2> QED BY <2>2, <2>3, <2>4
<1>8. Numbered' /\ Bounded'
  BY <1>1, <1>5 DEF Numbered, Bounded
<1> QED BY <1>5, <1>6, <1>7, <1>8 DEF IInv

\* Call enters its RPC under a key nothing else uses.
LEMMA CallStep ==
  ASSUME IInv, NEW c \in Callers, NEW peer \in Peers, NEW msg \in Messages(MaxMessageSize),
         Call(c, peer, msg)
  PROVE  IInv'
<1> DEFINE key == <<peer, nextID + 2>>
           r == [Blank EXCEPT !.key = key, !.tx = msg,
                              !.granted = Lesser(msg.len, UnscheduledBytes)]
           n == SendNew(r)
<1>1. /\ pc[c] = "idle" /\ ~closed /\ Cardinality(Live(e)) < MaxRPCs /\ Room(e, msg.len)
      /\ nextID < 2 * MaxIds /\ nextID' = nextID + 2 /\ pc' = [pc EXCEPT ![c] = "waiting"]
      /\ closed' = closed /\ cutoffs' = cutoffs
      /\ TypeOK /\ Good(e) /\ Claimed /\ Numbered /\ Bounded /\ e \in Table
      /\ nextID \in Nat /\ e.buffered \in Int
  BY DEF Call, IInv, Good, TypeOK, Table
<1>2. PICK o \in Free(e) : /\ e' = [e EXCEPT !.rpcs[key] = o, !.rpc[o] = n,
                                             !.buffered = @ + msg.len]
                           /\ call' = [call EXCEPT ![c] = o]
  BY DEF Call
<1>3. o \in Obj /\ e.rpc[o].key = Nil
  BY DEF Free
<1>4. key \in Key /\ IsClientID(key[2]) /\ key[2] = nextID + 2
  BY <1>1, SMTT(30) DEF Key, Id, IsClientID, Numbered
<1>5. e.rpcs[key] = Nil
  BY <1>1, <1>4, SMTT(30) DEF Numbered
<1> HIDE DEF key
<1>6. msg \in Msg /\ msg.len \in Nat
  BY SMTT(30) DEF Messages, Msg
<1>7. /\ r \in Rpc /\ r.key = key /\ r.rx = NoRx /\ r.result = <<>> /\ r.handling = FALSE
      /\ r.tx = msg
  <2>1. Lesser(msg.len, UnscheduledBytes) \in Nat
    BY <1>6 DEF Lesser
  <2>2. r \in Rpc
    BY <1>4, <1>6, <2>1, BlankType DEF Rpc
  <2> QED BY <2>2 DEF Blank
<1> HIDE DEF r
<1>8. /\ n \in Rpc /\ n.key = key /\ n.rx = NoRx /\ n.result = <<>> /\ n.handling = FALSE
      /\ n.tx = msg
  <2>1. n \in Rpc /\ n = [r EXCEPT !.sent = n.sent]
    BY <1>7, SendNewType
  <2> HIDE DEF n
  <2> QED BY <1>7, <2>1 DEF Rpc
<1> HIDE DEF n
<1>9. Stored(n) = msg.len
  BY <1>6, <1>8, SMTT(30) DEF Stored, NoRx, BitBytes
<1>10. e' = Enter(e, key, o, n)
  BY <1>2, <1>9 DEF Enter
<1>11. e.buffered + Stored(n) <= MaxBufferedBytes
  BY <1>1, <1>6, <1>9, SMTT(30) DEF Room
<1>12. /\ Good(e') /\ Live(e') = Live(e) \cup {o} /\ o \notin Live(e)
       /\ e'.rpcs = [e.rpcs EXCEPT ![key] = o] /\ e'.rpc[o] = n
       /\ \A x \in Obj \ {o} : e'.rpc[x] = e.rpc[x]
  <2> DEFINE t == Enter(e, key, o, n)
  <2>1. Entered(e, key, o, n, t)
    BY <1>1, <1>3, <1>4, <1>5, <1>8, <1>11, EnterGood
  <2> HIDE DEF t
  <2>2. e' = t
    BY <1>10 DEF t
  <2> QED BY <2>1, <2>2 DEF Entered
<1>13. TypeOK'
  BY <1>1, <1>2, <1>3, <1>12, SMTT(30) DEF TypeOK, Good
<1>14. Claimed'
  <2> SUFFICES ASSUME NEW d \in Callers
               PROVE IF pc'[d] = "idle" THEN call'[d] = Nil
                     ELSE /\ call'[d] \in Obj /\ e'.rpc[call'[d]].key \in Key /\ IsClient(e', call'[d])
                          /\ pc'[d] = "draining" => call'[d] \notin Live(e')
                          /\ \A x \in Callers \ {d} : call'[x] # call'[d]
    BY DEF Claimed
  <2>1. /\ pc'[c] = "waiting" /\ call'[c] = o
        /\ \A x \in Callers \ {c} : pc'[x] = pc[x] /\ call'[x] = call[x]
    BY <1>1, <1>2 DEF TypeOK
  <2>2. \A x \in Callers \ {c} : call[x] # o
    BY <1>1, <1>3, KeyAssumption DEF Claimed
  <2>3. CASE d = c
    <3>1. e'.rpc[o].key \in Key /\ IsClient(e', o)
      BY <1>4, <1>8, <1>12 DEF IsClient
    <3> QED BY <1>3, <2>1, <2>2, <2>3, <3>1
  <2>4. CASE d # c /\ pc[d] = "idle"
    <3>1. call[d] = Nil
      BY <1>1, <2>4, ClaimedCaller
    <3> QED BY <2>1, <2>4, <3>1
  <2>5. CASE d # c /\ pc[d] # "idle"
    <3>1. /\ call[d] \in Obj /\ e.rpc[call[d]].key \in Key /\ IsClient(e, call[d])
          /\ pc[d] = "draining" => call[d] \notin Live(e)
          /\ \A x \in Callers \ {d} : call[x] # call[d]
      BY <1>1, <2>5, ClaimedCaller
    <3>2. e'.rpc[call[d]] = e.rpc[call[d]] /\ call[d] # o
      <4>1. call[d] # o
        BY <2>2, <2>5
      <4> QED BY <1>12, <3>1, <4>1
    <3>3. e'.rpc[call[d]].key \in Key /\ IsClient(e', call[d])
      BY <3>1, <3>2 DEF IsClient
    <3>4. \A x \in Callers \ {d} : call'[x] # call[d]
      BY <2>1, <3>1, <3>2
    <3> QED BY <1>12, <2>1, <2>5, <3>1, <3>2, <3>3, <3>4
  <2> QED BY <2>3, <2>4, <2>5
<1>15. Numbered'
  <2>1. nextID' % 2 = 0
    <3>1. nextID % 2 = 0 /\ nextID \in Nat /\ nextID' = nextID + 2
      BY <1>1 DEF Numbered
    <3> QED BY <3>1, SMTT(30)
  <2>2. ASSUME NEW k \in Key, IsClientID(k[2]), e'.rpcs[k] # Nil PROVE k[2] <= nextID'
    <3>1. k[2] \in Int
      BY SMTT(30) DEF Key, Id
    <3>2. k = key \/ e.rpcs[k] # Nil
      BY <1>1, <1>12, <2>2 DEF Table
    <3>3. CASE k = key
      BY <1>1, <1>4, <3>3, SMTT(30)
    <3>4. CASE e.rpcs[k] # Nil
      <4>1. k[2] <= nextID
        BY <1>1, <2>2, <3>4 DEF Numbered
      <4> QED BY <1>1, <3>1, <4>1, SMTT(30)
    <3> QED BY <3>2, <3>3, <3>4
  <2> QED BY <2>1, <2>2 DEF Numbered
<1>16. Bounded'
  <2>1. IsFiniteSet(Live(e))
    BY <1>1, LiveType, FS_Subset
  <2>2. Cardinality(Live(e)) \in Nat
    BY <2>1, FS_CardinalityType
  <2>3. Cardinality(Live(e) \cup {o}) = Cardinality(Live(e)) + 1
    BY <1>12, <2>1, FS_AddElement
  <2>4. Cardinality(Live(e')) <= MaxRPCs
    BY <1>1, <1>12, <2>2, <2>3, SMTT(30)
  <2> QED BY <1>1, <2>4 DEF Bounded
<1> QED BY <1>12, <1>13, <1>14, <1>15, <1>16 DEF IInv

-----------------------------------------------------------------------------
(* The stages, action by action. *)

\* A handler of t runs in s, or may start there.
Ran(s, t) == \A o \in Obj : t.payload[o] > 0 => s.payload[o] > 0 \/ Fresh(s.rpc[o])

\* What the steps of one critical section start, in the order they are taken.
LEMMA RanTransitive ==
  ASSUME NEW s, NEW t, NEW u
  PROVE  /\ Backs(s, t) => Ran(s, t)
         /\ Ran(s, t) /\ Backs(t, u) => Ran(s, u)
         /\ Backs(s, t) /\ (\A o \in Obj : u.payload[o] > 0 =>
                              t.payload[o] > 0 \/ (o \in Live(t) /\ Fresh(t.rpc[o]))) => Ran(s, u)
BY DEF Backs, Ran

\* New starts with an empty table and structs as good as new.
LEMMA InitSound == Init => Sound(e)
<1> SUFFICES ASSUME Init PROVE Sound(e)
  OBVIOUS
<1>1. /\ e.rpcs = [k \in Key |-> Nil] /\ e.rpc = [o \in Obj |-> Blank]
  BY DEF Init
<1>2. Live(e) = {} /\ \A o \in Obj : e.rpc[o] = Blank
  BY <1>1, SMTT(30) DEF Live
<1> QED BY <1>2, SMTT(30) DEF Sound, Fresh, Blank

\* The ways to finish outside packets and the timer (a canceled call, a packet the
\* socket refused, shutdown) start no handler and leave the stages alone.
LEMMA FinishesSound ==
  ASSUME SInv,
         \/ \E c \in Callers : Abort(c)
         \/ \E o \in Obj : WriteFails(o)
         \/ Shutdown
  PROVE  Sound(e') /\ Ran(e, e')
<1>1. Good(e) /\ e \in Table /\ Sound(e) /\ Claimed
  BY DEF SInv, IInv, Good
<1>2. e' = e \/ \E S \in SUBSET Live(e), err \in Errors : e' = Finish(e, S, err)
  <2>1. ASSUME NEW c \in Callers, Abort(c)
        PROVE  e' = e \/ (e' = Finish(e, {call[c]}, "canceled") /\ call[c] \in Live(e))
    <3>1. call[c] \in Obj /\ e.rpc[call[c]].key \in Key
      BY <1>1, <2>1 DEF Claimed, Abort
    <3>2. Current(e, call[c]) => call[c] \in Live(e)
      BY <1>1, <3>1, CurrentLive
    <3>3. e' = IF Current(e, call[c]) THEN Finish(e, {call[c]}, "canceled") ELSE e
      BY <2>1 DEF Abort
    <3> QED BY <3>2, <3>3
  <2>2. ASSUME NEW o \in Obj, WriteFails(o)
        PROVE  e' = Finish(e, {o}, "write") /\ o \in Live(e)
    BY <2>2 DEF WriteFails
  <2>3. CASE Shutdown
    BY <2>3 DEF Shutdown, Errors
  <2> QED BY <2>1, <2>2, <2>3 DEF Errors
<1>3. CASE e' = e
  BY <1>1, <1>3 DEF Ran
<1>4. ASSUME NEW S \in SUBSET Live(e), NEW err \in Errors, e' = Finish(e, S, err)
      PROVE  Sound(e') /\ Ran(e, e')
  <2>1. Sound(e') /\ Backs(e, e')
    BY <1>1, <1>4, FinishSound
  <2> QED BY <2>1, RanTransitive
<1> QED BY <1>2, <1>3, <1>4

\* A deadline that passes ends no stage.
LEMMA DeadlineSound ==
  ASSUME SInv, NEW o \in Obj, DeadlinePasses(o)
  PROVE  Sound(e') /\ Ran(e, e')
<1> DEFINE r == [e.rpc[o] EXCEPT !.expired = TRUE]
<1>1. e \in Table /\ o \in Live(e) /\ e.rpc[o] \in Rpc /\ Sound(e)
  BY DEF DeadlinePasses, SInv, IInv, Good, Table
<1>2. e'.rpcs = e.rpcs /\ e'.payload = e.payload /\ e'.rpc = [e.rpc EXCEPT ![o] = r]
  <2>1. e' = [e EXCEPT !.rpc[o] = r]
    BY <1>1 DEF DeadlinePasses, Table
  <2> QED BY <1>1, <2>1 DEF Table
<1>3. /\ r.key = e.rpc[o].key /\ r.tx = e.rpc[o].tx /\ r.rx = e.rpc[o].rx
      /\ r.sent = e.rpc[o].sent /\ r.granted = e.rpc[o].granted
      /\ r.handling = e.rpc[o].handling /\ r.received = e.rpc[o].received /\ r.expired = TRUE
  BY <1>1 DEF Rpc
<1> HIDE DEF r
<1>4. Alive(r) /\ ~Fresh(r) /\ SoundBut(e, {o})
  <2>1. Alive(e.rpc[o]) /\ SoundBut(e, {o})
    BY <1>1 DEF Sound, SoundBut
  <2> QED BY <1>3, <2>1 DEF Alive, Paces, Staged, Fresh
<1>5. Sound(e') /\ Backs(e, e')
  BY <1>1, <1>2, <1>4, SetSound
<1> QED BY <1>5, RanTransitive

\* The struct of a call that returned is new again.
LEMMA ReturnSound ==
  ASSUME SInv, NEW c \in Callers, Return(c)
  PROVE  Sound(e') /\ Ran(e, e')
<1> DEFINE o == call[c]
<1>1. /\ e' = [e EXCEPT !.rpc[o] = Blank] /\ e.rpc[o].result # <<>> /\ pc[c] # "idle"
      /\ Good(e) /\ Claimed /\ e \in Table /\ Sound(e)
  BY DEF Return, SInv, IInv, Good
<1>2. o \in Obj /\ e.rpc[o].key \in Key /\ IsClient(e, o)
  BY <1>1 DEF Claimed
<1>3. o \notin Live(e)
  <2>1. e.rpc[o].result \in Seq(Result)
    BY <1>1, <1>2 DEF Table, Rpc
  <2>2. Len(e.rpc[o].result) # 0
    BY <1>1, <2>1, SMTT(30)
  <2> QED BY <1>1, <1>2, <2>2 DEF Good, Answered
<1> HIDE DEF o
<1>4. e'.rpcs = e.rpcs /\ e'.payload = e.payload /\ e'.rpc = [e.rpc EXCEPT ![o] = Blank]
  BY <1>1, <1>2 DEF Table
<1>5. Live(e') = Live(e)
  BY <1>4 DEF Live
<1>6. Fresh(Blank)
  BY DEF Fresh, Blank
<1>7. e'.rpc[o] = Blank /\ \A x \in Obj \ {o} : e'.rpc[x] = e.rpc[x]
  BY <1>1, <1>2, <1>4 DEF Table
<1> QED BY <1>1, <1>3, <1>4, <1>5, <1>6, <1>7 DEF Sound, Ran

\* The timer starts requests that wait, and none that is late.
LEMMA TickSound ==
  ASSUME SInv, NEW late, NEW due, Tick(late, due)
  PROVE  Sound(e') /\ Ran(e, e')
<1> DEFINE s == Finish(e, late, "deadline")
<1>1. /\ e \in Table /\ Good(e) /\ late \in SUBSET Live(e) /\ late \in SUBSET Obj
      /\ "deadline" \in Errors /\ Sound(e)
  BY LiveType DEF Tick, Expired, SInv, IInv, Good, Errors
<1>2. PICK W \in Starters(s, Waiting(s)) :
        \E rank : e' = Schedule(StartHandlers(s, Waiting(s), W), rank)
  BY DEF Tick
<1>3. PICK rank : e' = Schedule(StartHandlers(s, Waiting(s), W), rank)
  BY <1>2
<1>4. Good(s) /\ Sound(s) /\ Backs(e, s)
  BY <1>1, FinishGood, FinishSound
<1> HIDE DEF s
<1> DEFINE t == StartHandlers(s, Waiting(s), W)
<1>5. Waiting(s) \in SUBSET Live(s) /\ \A o \in Waiting(s) : ~IsClient(s, o) /\ s.rpc[o].received
  BY DEF Waiting
<1>6. Good(t)
  BY <1>2, <1>4, <1>5, StartHandlersGood
<1>7. /\ Sound(t)
      /\ \A o \in Obj : t.payload[o] > 0 => s.payload[o] > 0 \/ (o \in Live(s) /\ Fresh(s.rpc[o]))
  BY <1>2, <1>4, <1>5, StartHandlersSound
<1> HIDE DEF t
<1>8. Ran(e, t)
  BY <1>4, <1>7, RanTransitive
<1>9. e' = Schedule(t, rank)
  BY <1>3 DEF t
<1>10. Sound(e') /\ Backs(t, e')
  <2>1. Sound(Schedule(t, rank)) /\ Backs(t, Schedule(t, rank))
    BY <1>6, <1>7, ScheduleSound
  <2> QED BY <1>9, <2>1
<1> QED BY <1>8, <1>10, RanTransitive

\* A handler that returns nothing usable leaves its RPC handled, never to run again.
LEMMA HandlerFailsSound ==
  ASSUME SInv, NEW o \in Obj, NEW msg, HandlerFails(o, msg)
  PROVE  Sound(e') /\ Ran(e, e')
<1>1. Good(e) /\ Sound(e) /\ e.payload[o] > 0 /\ e' = Freed(e, o)
  BY DEF HandlerFails, Released, Freed, SInv, IInv
<1>2. Sound(e') /\ Backs(e, e')
  BY <1>1, FreedSound
<1> QED BY <1>2, RanTransitive

\* Call enters a struct that has sent what it may.
LEMMA CallSound ==
  ASSUME SInv, NEW c \in Callers, NEW peer \in Peers, NEW msg \in Messages(MaxMessageSize),
         Call(c, peer, msg)
  PROVE  Sound(e') /\ Ran(e, e')
<1> DEFINE key == <<peer, nextID + 2>>
           r == [Blank EXCEPT !.key = key, !.tx = msg,
                              !.granted = Lesser(msg.len, UnscheduledBytes)]
           n == SendNew(r)
<1>1. /\ nextID < 2 * MaxIds /\ nextID \in Nat /\ nextID % 2 = 0
      /\ Numbered /\ e \in Table /\ Sound(e)
  BY DEF Call, SInv, IInv, Good, TypeOK, Numbered
<1>2. PICK o \in Free(e) : e' = [e EXCEPT !.rpcs[key] = o, !.rpc[o] = n, !.buffered = @ + msg.len]
  BY DEF Call
<1>3. key \in Key /\ IsClientID(key[2]) /\ key[2] = nextID + 2 /\ o \in Obj
  BY <1>1, SMTT(30) DEF Key, Id, IsClientID, Free
<1>4. e.rpcs[key] = Nil
  BY <1>1, <1>3, SMTT(30) DEF Numbered
<1> HIDE DEF key
<1>5. msg \in Msg /\ msg.len \in Nat /\ msg.len > 0
  BY SMTT(30) DEF Messages, Msg
<1>6. r \in Rpc /\ r.key = key /\ r.tx = msg /\ r.sent = 0
  <2>1. Lesser(msg.len, UnscheduledBytes) \in Nat
    BY <1>5 DEF Lesser
  <2>2. r \in Rpc
    BY <1>3, <1>5, <2>1, BlankType DEF Rpc
  <2> QED BY <2>2 DEF Blank
<1> HIDE DEF r
<1>7. Paces(n) /\ n.key = key
  BY <1>5, <1>6, SendNewPaces, SendNewKeeps, SMTT(30)
<1>8. Alive(n)
  BY <1>3, <1>7 DEF Alive
<1> HIDE DEF n
<1>9. /\ e'.rpcs = [e.rpcs EXCEPT ![key] = o] /\ e'.rpc = [e.rpc EXCEPT ![o] = n]
      /\ e'.payload = e.payload
  BY <1>1, <1>2 DEF Table
<1>10. e'.rpc[o] = n /\ \A x \in Obj \ {o} : e'.rpc[x] = e.rpc[x]
  BY <1>1, <1>3, <1>9 DEF Table
<1>11. o \in Live(e') /\ \A x \in Obj \ {o} : x \in Live(e') <=> x \in Live(e)
  BY <1>1, <1>3, <1>4, <1>9, SetAssumption, SMTT(30) DEF Live, Table
<1>12. Sound(e')
  BY <1>1, <1>8, <1>10, <1>11 DEF Sound
<1> QED BY <1>9, <1>12 DEF Ran

\* The response of a handler is sent as far as it may be.
LEMMA HandlerRespondsSound ==
  ASSUME SInv, NEW o \in Obj, NEW msg, msg \in Messages(MaxMessageSize + 1) \cup {NoMsg},
         HandlerResponds(o, msg)
  PROVE  Sound(e') /\ Ran(e, e')
<1> DEFINE s == Freed(e, o)
           r == Answering(o, msg)
           n == SendNew(r)
           t == Responded(o, msg)
<1>1. /\ IInv /\ Good(e) /\ Sound(e) /\ e.payload[o] > 0 /\ Current(e, o)
      /\ msg.len \in Nat /\ msg.len > 0
  BY SMTT(30) DEF HandlerResponds, SInv, IInv
<1>2. PICK W \in Starters(t, Waiting(t)) : e' = StartHandlers(t, Waiting(t), W)
  BY DEF HandlerResponds, Responded, Answering, Freed, Released
<1>3. /\ Good(t) /\ Live(t) = Live(e) /\ o \in Live(e) /\ r \in Rpc
      /\ ~IsClient(e, o) /\ e.rpc[o].handling = TRUE /\ e.rpc[o].tx = NoMsg
  BY <1>1, RespondGood
<1>4. /\ Good(s) /\ Live(s) = Live(e) /\ s.rpc[o] = e.rpc[o] /\ s \in Table
  <2>1. Good(s) /\ Live(s) = Live(e) /\ s.rpc[o] = e.rpc[o]
    BY <1>1, FreedGood
  <2> HIDE DEF s
  <2> QED BY <2>1 DEF Good
<1>5. Sound(s) /\ Backs(e, s)
  BY <1>1, FreedSound
<1>6. /\ t.rpcs = s.rpcs /\ t.payload = s.payload /\ t.rpc = [s.rpc EXCEPT ![o] = n]
      /\ r = [s.rpc[o] EXCEPT !.tx = msg, !.granted = Lesser(msg.len, UnscheduledBytes)]
  BY <1>4 DEF Responded, Answering, Table
<1> HIDE DEF s, t, r
<1>7. /\ e.rpc[o] \in Rpc /\ Alive(e.rpc[o])
  <2>1. e.rpc \in [Obj -> Rpc]
    BY <1>1 DEF Good, Table
  <2> QED BY <1>1, <1>3, <2>1 DEF Sound
<1>8. /\ r.key = e.rpc[o].key /\ r.tx = msg /\ r.sent = e.rpc[o].sent /\ r.rx = e.rpc[o].rx
      /\ r.received = e.rpc[o].received /\ r.handling = e.rpc[o].handling
  BY <1>4, <1>6, <1>7 DEF Rpc
<1>9. e.rpc[o].sent = 0
  <2>1. Paces(e.rpc[o]) /\ ~IsClientID(e.rpc[o].key[2])
    BY <1>3, <1>7 DEF Alive, IsClient
  <2>2. e.rpc[o].tx.len = 0
    <3>1. NoMsg.len = 0
      BY DEF NoMsg
    <3> QED BY <1>3, <3>1
  <2> QED BY <2>1, <2>2 DEF Paces
<1>10. Paces(n)
  <2>1. r.sent <= r.tx.len /\ r.tx.len > 0
    BY <1>1, <1>8, <1>9, SMTT(30)
  <2>2. r.sent % SegmentBytes = 0
    BY <1>8, <1>9, SMTT(30)
  <2> QED BY <1>3, <2>1, <2>2, SendNewPaces
<1>11. /\ n.key = r.key /\ n.rx = r.rx /\ n.received = r.received /\ n.handling = r.handling
  BY <1>3, SendNewKeeps
<1> HIDE DEF n
<1>12. Alive(n) /\ ~Fresh(n)
  <2>1. ~IsClientID(e.rpc[o].key[2]) /\ Staged(e.rpc[o])
    BY <1>3, <1>7 DEF Alive, IsClient
  <2>2. e.rpc[o].handling /\ e.rpc[o].received /\ e.rpc[o].rx.len = 0
    BY <1>3, <2>1 DEF Staged
  <2>3. n.handling /\ n.received /\ n.rx.len = 0
    BY <1>8, <1>11, <2>2
  <2> QED BY <1>10, <2>3 DEF Alive, Staged, Fresh
<1>13. Sound(t) /\ Backs(s, t)
  <2>1. SoundBut(s, {o}) /\ o \in Live(s)
    BY <1>3, <1>4, <1>5 DEF Sound, SoundBut
  <2> QED BY <1>4, <1>6, <1>12, <2>1, SetSound
<1>14. Backs(e, t)
  BY <1>3, <1>4, <1>5, <1>13, BacksTransitive
<1>15. Waiting(t) \in SUBSET Live(t) /\ \A x \in Waiting(t) : ~IsClient(t, x) /\ t.rpc[x].received
  BY DEF Waiting
<1>16. /\ Sound(e')
       /\ \A x \in Obj : e'.payload[x] > 0 => t.payload[x] > 0 \/ (x \in Live(t) /\ Fresh(t.rpc[x]))
  <2> DEFINE u == StartHandlers(t, Waiting(t), W)
  <2>1. /\ Sound(u)
        /\ \A x \in Obj : u.payload[x] > 0 => t.payload[x] > 0 \/ (x \in Live(t) /\ Fresh(t.rpc[x]))
    BY <1>3, <1>13, <1>15, StartHandlersSound
  <2> HIDE DEF u
  <2>2. e' = u
    BY <1>2 DEF u
  <2> QED BY <2>1, <2>2
<1> QED BY <1>14, <1>16, RanTransitive

=============================================================================
