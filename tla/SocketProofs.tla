---------------------------- MODULE SocketProofs ----------------------------
(***************************************************************************)
(* The parts that share sockets among goroutines: the endpoint's queues    *)
(* and loops, for any number of priorities, slots, RPCs and callers of     *)
(* Close (endpoint.go: send, dequeue, writeLoop, shutdown, Close); the     *)
(* packet adapters, for any number of goroutines, packets and arrivals;    *)
(* the benchmark server, for any number of connections and any limit; and  *)
(* the relay (interop/lanrelay/main.go: its report, its counters, the      *)
(* Ethernet stream and the ready file), for any packets from either side,  *)
(* any number of them, and any way a frame is cut into writes.             *)
(* Also the rank of a percentile, for any number of samples.               *)
(***************************************************************************)
EXTENDS Outbound, PacketIO, BenchServer, Latency, LanRelay, FiniteSetTheorems, TLAPS

\* Leaves that do not ask for SMT are proved by Zenon.
USE ZenonT(60)

(* The queues and the loops of the endpoint. *)

USE QueueAssumption

\* New starts with empty queues and three running loops.
LEMMA LoopsInitStep == LoopsInit => LInv
<1> SUFFICES ASSUME LoopsInit PROVE LInv
  OBVIOUS
<1>1. LoopsTypeOK
  <2>1. outbound \in [Prio -> Seq(Packet)] /\ \A q \in Prio : Len(outbound[q]) <= Slots
    BY SMTT(30) DEF LoopsInit
  <2>2. loop \in [Loops -> {"reading", "closing", "ticking", "lock", "select", "writing",
                           "written", "failed", "exited"}]
    BY SMTT(30) DEF LoopsInit, Loops
  <2>3. held \in Packet
    BY DEF LoopsInit, NoPacket, Packet
  <2>4. late \in [Obj -> Nat] /\ afterClose \in Nat
    BY SMTT(30) DEF LoopsInit
  <2> QED BY <2>1, <2>2, <2>3, <2>4 DEF LoopsInit, LoopsTypeOK
<1>2. NoLostWakeup /\ Ending
  BY DEF LoopsInit, NoLostWakeup, Ending
<1>3. InHand
  BY DEF LoopsInit, InHand
<1> QED BY <1>1, <1>2, <1>3 DEF LInv

\* What every step does to the types.
LEMMA LoopsTypeStep ==
  ASSUME LInv, [LoopsNext]_loopVars
  PROVE  LoopsTypeOK'
<1> USE DEF LInv
<1>1. ASSUME NEW k \in Key, Remove(k) PROVE LoopsTypeOK'
  BY <1>1 DEF Remove, LoopsTypeOK, queueVars, lateVars
<1>2. ASSUME NEW k \in Key, NEW o \in Obj, Enter(k, o) PROVE LoopsTypeOK'
  <2>1. late' \in [Obj -> Nat]
    BY <1>2, SMTT(30) DEF Enter, LoopsTypeOK
  <2> QED BY <1>2, <2>1 DEF Enter, LoopsTypeOK
<1>3. ASSUME NEW o \in Obj, Expire(o) PROVE LoopsTypeOK'
  BY <1>3 DEF Expire, LoopsTypeOK, queueVars, lateVars
<1>4. ASSUME NEW k \in Key, NEW q \in Prio, NEW typ \in {"DATA", "CONTROL"}, Send(k, q, typ)
      PROVE  LoopsTypeOK'
  <2> DEFINE p == [typ |-> typ, origin |-> table[k]]
  <2>1. p \in Packet
    BY DEF LoopsTypeOK, Packet
  <2>2. outbound' \in [Prio -> Seq(Packet)] /\ \A x \in Prio : Len(outbound'[x]) <= Slots
    <3>1. CASE Len(outbound[q]) < Slots /\ outbound' = [outbound EXCEPT ![q] = Append(@, p)]
      <4> HIDE DEF p
      <4>1. /\ outbound[q] \in Seq(Packet) /\ Append(outbound[q], p) \in Seq(Packet)
            /\ Len(Append(outbound[q], p)) = Len(outbound[q]) + 1
            /\ Len(outbound[q]) \in Nat
        BY <2>1, SMTT(30) DEF LoopsTypeOK
      <4> QED BY <3>1, <4>1, SMTT(30) DEF LoopsTypeOK
    <3>2. CASE outbound' = outbound
      BY <3>2 DEF LoopsTypeOK
    <3> QED BY <1>4, <3>1, <3>2 DEF Send
  <2> QED BY <1>4, <2>2, SMTT(30) DEF Send, LoopsTypeOK, rpcVars, lateVars
<1>5. CASE Writer
  <2>1. CASE WriterStops \/ WriterWaits \/ WriterWakes
    BY <2>1, SMTT(30) DEF WriterStops, WriterWaits, WriterWakes, Goto,
           LoopsTypeOK, Loops,
               rpcVars, queueVars, lateVars
  <2>4. CASE WriterWrites
    <3>1. afterClose' \in Nat
      BY <2>4, SMTT(30) DEF WriterWrites, LoopsTypeOK
    <3>2. late' \in [Obj -> Nat]
      <4>1. CASE held.typ = "DATA" /\ Gone(held.origin)
        <5>1. held.origin \in Obj /\ late \in [Obj -> Nat]
          BY <2>4, <4>1 DEF WriterWrites, InHand, LoopsTypeOK
        <5>2. late' = [late EXCEPT ![held.origin] = @ + 1]
          BY <2>4, <4>1 DEF WriterWrites
        <5> QED BY <5>1, <5>2, SMTT(30)
      <4>2. CASE ~(held.typ = "DATA" /\ Gone(held.origin))
        BY <2>4, <4>2 DEF WriterWrites, LoopsTypeOK
      <4> QED BY <4>1, <4>2
    <3> QED BY <2>4, <3>1, <3>2 DEF WriterWrites, Goto, LoopsTypeOK, rpcVars
  <2>2. CASE WriterTakes
    <3>1. PICK q \in Queued :
            /\ outbound' = [outbound EXCEPT ![q] = Tail(@)]
            /\ \/ UNCHANGED <<loop, held>>
               \/ held' = Head(outbound[q]) /\ Goto("write", "writing")
      BY <2>2 DEF WriterTakes
    <3>2. q \in Prio /\ outbound[q] \in Seq(Packet) /\ outbound[q] # <<>>
      BY DEF Queued, LoopsTypeOK
    <3>3. /\ Head(outbound[q]) \in Packet /\ Tail(outbound[q]) \in Seq(Packet)
          /\ Len(Tail(outbound[q])) = Len(outbound[q]) - 1 /\ Len(outbound[q]) \in Nat
      BY <3>2, SMTT(30)
    <3>4. outbound' \in [Prio -> Seq(Packet)] /\ \A x \in Prio : Len(outbound'[x]) <= Slots
      BY <3>1, <3>2, <3>3, SMTT(30) DEF LoopsTypeOK
    <3>5. held' \in Packet /\ loop' \in [Loops -> {"reading", "closing", "ticking", "lock",
                                "select", "writing", "written", "failed", "exited"}]
      BY <3>1, <3>3 DEF LoopsTypeOK, Goto
    <3> QED BY <2>2, <3>4, <3>5 DEF WriterTakes, LoopsTypeOK, rpcVars, lateVars
  <2>3. CASE WriterSettles
    <3>1. NoPacket \in Packet
      BY DEF NoPacket, Packet
    <3>2. table' \in [Key -> Obj \cup {Nil}]
      BY <2>3 DEF WriterSettles, LoopsTypeOK
    <3> QED BY <2>3, <3>1, <3>2 DEF WriterSettles, LoopsTypeOK, Goto, queueVars, lateVars
  <2> QED BY <1>5, <2>1, <2>2, <2>3, <2>4 DEF Writer
<1>6. CASE ReaderFails \/ ReaderCloses \/ ReaderStops \/ TimerStops
  BY <1>6 DEF ReaderFails, ReaderCloses, ReaderStops, TimerStops, Emptied, Goto,
         LoopsTypeOK,
             rpcVars, queueVars, lateVars
<1>7. ASSUME NEW c \in Closers, CloseEndpoint(c) \/ CloseSocket(c) \/ CloseReturns(c) PROVE LoopsTypeOK'
  BY <1>7 DEF CloseEndpoint, CloseSocket, CloseReturns, Emptied, LoopsTypeOK, rpcVars,
         queueVars, lateVars
<1>8. CASE UNCHANGED loopVars
  BY <1>8 DEF loopVars, rpcVars, queueVars, lateVars, LoopsTypeOK
<1> QED BY <1>1, <1>2, <1>3, <1>4, <1>5, <1>6, <1>7, <1>8 DEF LoopsNext

\* send puts a token into the channel with every packet, and the writer looks
\* at the queues again after it has taken the token.
LEMMA WakeStep ==
  ASSUME LInv, [LoopsNext]_loopVars
  PROVE  NoLostWakeup'
<1> USE DEF LInv
<1>1. ASSUME NEW k \in Key, NEW q \in Prio, NEW typ \in {"DATA", "CONTROL"}, Send(k, q, typ)
      PROVE  NoLostWakeup'
  BY <1>1 DEF Send, NoLostWakeup, Queued
<1>2. CASE Writer
  <2>1. CASE WriterStops \/ WriterWaits \/ WriterWakes \/ WriterWrites \/ WriterSettles
    BY <2>1, SMTT(30) DEF WriterStops, WriterWaits, WriterWakes, WriterWrites, WriterSettles,
           Goto,
               LoopsTypeOK, Loops, NoLostWakeup, Queued, queueVars, lateVars
  <2>2. CASE WriterTakes
    BY <2>2 DEF WriterTakes, Goto, LoopsTypeOK, Loops, NoLostWakeup
  <2> QED BY <1>2, <2>1, <2>2 DEF Writer
<1>3. CASE ReaderFails \/ ReaderCloses \/ ReaderStops \/ TimerStops
  BY <1>3, SMTT(30) DEF ReaderFails, ReaderCloses, ReaderStops, TimerStops, Goto, LoopsTypeOK,
         Loops,
             NoLostWakeup, Queued, queueVars, lateVars
<1>4. ASSUME NEW c \in Closers, CloseEndpoint(c) \/ CloseSocket(c) \/ CloseReturns(c)
      PROVE  NoLostWakeup'
  BY <1>4 DEF CloseEndpoint, CloseSocket, CloseReturns, NoLostWakeup, Queued, queueVars, lateVars
<1>5. ASSUME NEW k \in Key, Remove(k) \/ \E o \in Obj : Enter(k, o) PROVE NoLostWakeup'
  BY <1>5 DEF Remove, Enter, NoLostWakeup, Queued, queueVars, lateVars
<1>6. ASSUME NEW o \in Obj, Expire(o) PROVE NoLostWakeup'
  BY <1>6 DEF Expire, NoLostWakeup, Queued, queueVars, lateVars
<1>7. CASE UNCHANGED loopVars
  BY <1>7 DEF loopVars, NoLostWakeup, Queued, queueVars, lateVars
<1> QED BY <1>1, <1>2, <1>3, <1>4, <1>5, <1>6, <1>7 DEF LoopsNext

\* shutdown empties the table, and Close waits for the loops.
LEMMA EndStep ==
  ASSUME LInv, [LoopsNext]_loopVars
  PROVE  Ending'
<1> USE DEF LInv
<1>1. ASSUME NEW k \in Key, NEW q \in Prio, NEW typ \in {"DATA", "CONTROL"}, Send(k, q, typ)
      PROVE  Ending'
  BY <1>1 DEF Send, Ending, rpcVars
<1>2. CASE Writer
  <2>1. CASE WriterStops \/ WriterWaits \/ WriterWakes \/ WriterWrites
    BY <2>1, SMTT(30) DEF WriterStops, WriterWaits, WriterWakes, WriterWrites, Goto,
           LoopsTypeOK, Loops,
               Ending, rpcVars
  <2>2. CASE WriterTakes
    <3>1. /\ loop["write"] = "lock" /\ ~closed
          /\ UNCHANGED <<table, closed, closer>>
          /\ loop'["read"] = loop["read"]
      BY <2>2 DEF WriterTakes, rpcVars, Goto, LoopsTypeOK, Loops
    <3> QED BY <3>1 DEF Ending, Loops
  <2>3. CASE WriterSettles
    <3>1. closed => \A k \in Key : table'[k] = Nil
      BY <2>3 DEF WriterSettles, Ending, LoopsTypeOK
    <3> QED BY <2>3, <3>1 DEF WriterSettles, Goto, Ending, LoopsTypeOK, Loops
  <2> QED BY <1>2, <2>1, <2>2, <2>3 DEF Writer
<1>3. CASE ReaderFails \/ ReaderCloses \/ ReaderStops \/ TimerStops
  BY <1>3 DEF ReaderFails, ReaderCloses, ReaderStops, TimerStops, Emptied, Goto,
         LoopsTypeOK,
             Loops, Ending, rpcVars
<1>4. ASSUME NEW c \in Closers, CloseEndpoint(c) \/ CloseSocket(c) \/ CloseReturns(c)
      PROVE  Ending'
  BY <1>4 DEF CloseEndpoint, CloseSocket, CloseReturns, Emptied, Ending, LoopsTypeOK,
         rpcVars
<1>5. ASSUME NEW k \in Key, Remove(k) \/ \E o \in Obj : Enter(k, o) PROVE Ending'
  BY <1>5, SMTT(30) DEF Remove, Enter, Ending, LoopsTypeOK
<1>6. ASSUME NEW o \in Obj, Expire(o) PROVE Ending'
  BY <1>6 DEF Expire, Ending
<1>7. CASE UNCHANGED loopVars
  BY <1>7 DEF loopVars, rpcVars, Ending
<1> QED BY <1>1, <1>2, <1>3, <1>4, <1>5, <1>6, <1>7 DEF LoopsNext

\* A struct that is gone stays gone until it enters the table again.
LEMMA GoneStays ==
  ASSUME LInv, [LoopsNext]_loopVars, NEW o \in Obj, Gone(o), ~\E k \in Key : Enter(k, o)
  PROVE  Gone(o)'
<1>1. ASSUME NEW k \in Key, Remove(k) PROVE Gone(o)'
  BY <1>1 DEF Remove, Gone, LInv, LoopsTypeOK
<1>2. ASSUME NEW k \in Key, NEW x \in Obj, Enter(k, x) PROVE Gone(o)'
  BY <1>2 DEF Enter, Gone, LInv, LoopsTypeOK
<1>3. ASSUME NEW x \in Obj, Expire(x) PROVE Gone(o)'
  BY <1>3 DEF Expire, Gone
<1>4. CASE UNCHANGED <<table, expired>>
  BY <1>4 DEF Gone
<1>5. CASE WriterSettles
  BY <1>5 DEF WriterSettles, Gone, LInv, LoopsTypeOK
<1>6. CASE (Emptied \/ UNCHANGED table) /\ UNCHANGED expired
  BY <1>6 DEF Emptied, Gone
<1>7. CASE Writer
  BY <1>4, <1>5, <1>7 DEF Writer, WriterStops, WriterWaits, WriterTakes, WriterWakes, WriterWrites,
         rpcVars
<1>8. CASE ReaderFails \/ ReaderCloses \/ ReaderStops \/ TimerStops
  BY <1>6, <1>8 DEF ReaderFails, ReaderCloses, ReaderStops, TimerStops, rpcVars
<1>9. ASSUME NEW c \in Closers, CloseEndpoint(c) \/ CloseSocket(c) \/ CloseReturns(c) PROVE Gone(o)'
  BY <1>6, <1>9 DEF CloseEndpoint, CloseSocket, CloseReturns, rpcVars
<1>10. ASSUME NEW k \in Key, NEW q \in Prio, NEW typ \in {"DATA", "CONTROL"}, Send(k, q, typ)
       PROVE  Gone(o)'
  BY <1>4, <1>10 DEF Send, rpcVars
<1>11. CASE UNCHANGED loopVars
  BY <1>4, <1>11 DEF loopVars, rpcVars
<1> QED BY <1>1, <1>2, <1>3, <1>7, <1>8, <1>9, <1>10, <1>11 DEF LoopsNext

\* A step that neither writes nor enters a struct, and after which the writer has no
\* other packet in its hands, keeps the history.
LEMMA HandsKept ==
  ASSUME LInv, UNCHANGED lateVars, closed => closed', \A o \in Obj : Gone(o) => Gone(o)',
         \/ loop'["write"] # "writing"
         \/ loop["write"] = "writing" /\ held' = held
  PROVE  InHand'
<1>1. \A o \in Obj : late'[o] # 0 => late'[o] = 1 /\ Gone(o)'
  BY DEF LInv, InHand, lateVars
<1>2. loop'["write"] = "writing" /\ held'.typ = "DATA" => held'.origin \in Obj /\ late'[held'.origin] = 0
  BY DEF LInv, InHand, lateVars
<1>3. afterClose' # 0 => afterClose' = 1 /\ closed' /\ loop'["write"] # "writing"
  BY DEF LInv, InHand, lateVars
<1> QED BY <1>1, <1>2, <1>3 DEF InHand

\* The writer takes no packet of an RPC that is gone or has expired, and none once
\* the endpoint is closed.
LEMMA TakesFresh ==
  ASSUME LInv, WriterTakes
  PROVE  InHand'
<1>1. \A o \in Obj : Gone(o) => Gone(o)'
  BY DEF WriterTakes, rpcVars, Gone
<1>2. CASE UNCHANGED <<loop, held>>
  BY <1>1, <1>2, HandsKept DEF WriterTakes, LInv, LoopsTypeOK, Loops
<1>3. ASSUME NEW q \in Queued, ~Stale(Head(outbound[q])), held' = Head(outbound[q])
      PROVE  InHand'
  <2>1. late' = late /\ afterClose' = afterClose /\ table' = table /\ expired' = expired /\ ~closed
    BY DEF WriterTakes, lateVars, rpcVars
  <2>2. q \in Prio /\ outbound[q] \in Seq(Packet) /\ outbound[q] # <<>>
    BY <1>3 DEF Queued, LInv, LoopsTypeOK
  <2>3. held' \in Packet
    BY <1>3, <2>2, SMTT(30)
  <2>4. held'.typ = "DATA" => held'.origin \in Obj /\ ~Gone(held'.origin)
    <3>1. held'.typ = "DATA" => InTable(held'.origin) /\ held'.origin \notin expired
      BY <1>3 DEF Stale
    <3>2. held'.origin \in Obj \cup {Nil}
      BY <2>3 DEF Packet
    <3> QED BY <3>1, <3>2 DEF InTable, Gone, LInv, LoopsTypeOK
  <2>5. held'.typ = "DATA" => late[held'.origin] = 0
    BY <2>4 DEF LInv, InHand
  <2>6. afterClose = 0
    BY <2>1 DEF LInv, InHand
  <2>7. \A o \in Obj : late'[o] # 0 => late'[o] = 1 /\ Gone(o)'
    BY <1>1, <2>1 DEF LInv, InHand
  <2> QED BY <2>1, <2>4, <2>5, <2>6, <2>7 DEF InHand
<1> QED BY <1>2, <1>3 DEF WriterTakes

\* The packet in the writer's hands is counted once.
LEMMA WritesOnce ==
  ASSUME LInv, WriterWrites
  PROVE  InHand'
<1>1. loop'["write"] # "writing"
  BY DEF WriterWrites, Goto, LInv, LoopsTypeOK, Loops
<1>2. \A o \in Obj : Gone(o) => Gone(o)'
  BY DEF WriterWrites, rpcVars, Gone
<1>3. afterClose' # 0 => afterClose' = 1 /\ closed'
  <2>1. afterClose = 0 /\ closed' = closed
    BY DEF WriterWrites, LInv, InHand
  <2>2. afterClose' = 0 \/ (closed /\ afterClose' = 0 + 1)
    BY <2>1 DEF WriterWrites
  <2> QED BY <2>1, <2>2, SMTT(30)
<1>4. ASSUME NEW o \in Obj, late'[o] # 0 PROVE late'[o] = 1 /\ Gone(o)
  <2>1. late \in [Obj -> Nat]
    BY DEF LInv, LoopsTypeOK
  <2>2. CASE held.typ = "DATA" /\ Gone(held.origin)
    <3>1. held.origin \in Obj /\ late[held.origin] = 0
      BY <2>2 DEF WriterWrites, LInv, InHand
    <3>2. late' = [late EXCEPT ![held.origin] = @ + 1]
      BY <2>2 DEF WriterWrites
    <3>3. CASE o = held.origin
      BY <2>1, <2>2, <3>1, <3>2, <3>3, SMTT(30)
    <3>4. CASE o # held.origin
      <4>1. late'[o] = late[o]
        BY <2>1, <3>2, <3>4
      <4> QED BY <1>4, <4>1 DEF LInv, InHand
    <3> QED BY <3>3, <3>4
  <2>3. CASE ~(held.typ = "DATA" /\ Gone(held.origin))
    <3>1. late' = late
      BY <2>3 DEF WriterWrites
    <3> QED BY <1>4, <3>1 DEF LInv, InHand
  <2> QED BY <2>2, <2>3
<1> QED BY <1>1, <1>2, <1>3, <1>4 DEF InHand

\* A struct that enters is a new one: nothing of it is queued or in hand.
LEMMA EntersFresh ==
  ASSUME LInv, NEW k \in Key, NEW o \in Obj, Enter(k, o)
  PROVE  InHand'
<1>1. late' = [late EXCEPT ![o] = 0] /\ late \in [Obj -> Nat]
  BY DEF Enter, LInv, LoopsTypeOK
<1>2. ASSUME NEW x \in Obj, x # o PROVE late'[x] = late[x] /\ (Gone(x) => Gone(x)')
  <2>1. late'[x] = late[x]
    BY <1>1, <1>2
  <2> QED BY <1>2, <2>1 DEF Enter, Gone, LInv, LoopsTypeOK
<1>3. late'[o] = 0
  BY <1>1
<1>4. held.origin # o
  BY DEF Enter, Referenced
<1>5. held' = held /\ loop' = loop /\ afterClose' = afterClose /\ closed' = closed
  BY DEF Enter
<1>6. \A x \in Obj : late'[x] # 0 => late'[x] = 1 /\ Gone(x)'
  BY <1>2, <1>3 DEF LInv, InHand
<1> QED BY <1>2, <1>4, <1>5, <1>6 DEF LInv, InHand

\* Of what is written without the lock at most one packet comes too late.
LEMMA LateStep ==
  ASSUME LInv, [LoopsNext]_loopVars
  PROVE  InHand'
<1>1. ASSUME NEW k \in Key, NEW o \in Obj, Enter(k, o) PROVE InHand'
  BY <1>1, EntersFresh
<1>2. CASE WriterTakes
  BY <1>2, TakesFresh
<1>3. CASE WriterWrites
  BY <1>3, WritesOnce
<1>4. CASE ~\E k \in Key, o \in Obj : Enter(k, o)
  <2>1. \A o \in Obj : Gone(o) => Gone(o)'
    BY <1>4, GoneStays
  <2> DEFINE Kept == /\ UNCHANGED lateVars /\ (closed => closed')
                     /\ \/ loop'["write"] # "writing"
                        \/ loop["write"] = "writing" /\ held' = held
  <2>2. Kept => InHand'
    BY <2>1, HandsKept
  <2>3. ASSUME NEW k \in Key, Remove(k) PROVE Kept
    BY <2>3 DEF Remove, queueVars
  <2>4. ASSUME NEW o \in Obj, Expire(o) PROVE Kept
    BY <2>4 DEF Expire, queueVars
  <2>5. ASSUME NEW k \in Key, NEW q \in Prio, NEW typ \in {"DATA", "CONTROL"}, Send(k, q, typ)
        PROVE  Kept
    BY <2>5 DEF Send
  <2>6. CASE WriterStops \/ WriterWaits \/ WriterWakes \/ WriterSettles
    <3>1. loop'["write"] # "writing"
      BY <2>6, SMTT(30) DEF WriterStops, WriterWaits, WriterWakes, WriterSettles, Goto,
             LInv, LoopsTypeOK, Loops
    <3>2. UNCHANGED lateVars /\ (closed => closed')
      BY <2>6, SMTT(30) DEF WriterStops, WriterWaits, WriterWakes, WriterSettles, queueVars, lateVars
    <3> QED BY <2>2, <3>1, <3>2
  <2>7. CASE ReaderFails \/ ReaderCloses \/ ReaderStops \/ TimerStops
    <3>1. loop'["write"] = loop["write"]
      BY <2>7, SMTT(30) DEF ReaderFails, ReaderCloses, ReaderStops, TimerStops, Goto,
             LInv, LoopsTypeOK, Loops
    <3>2. UNCHANGED lateVars /\ held' = held /\ (closed => closed')
      BY <2>7, SMTT(30) DEF ReaderFails, ReaderCloses, ReaderStops, TimerStops, queueVars, lateVars
    <3>3. loop["write"] # "writing" => loop'["write"] # "writing"
      BY <3>1
    <3> QED BY <2>2, <3>2, <3>3
  <2>8. ASSUME NEW c \in Closers, CloseEndpoint(c) \/ CloseSocket(c) \/ CloseReturns(c) PROVE Kept
    <3>1. loop' = loop /\ held' = held /\ UNCHANGED lateVars /\ (closed => closed')
      BY <2>8, SMTT(30) DEF CloseEndpoint, CloseSocket, CloseReturns, queueVars, lateVars
    <3> QED BY <3>1
  <2>9. CASE UNCHANGED loopVars
    <3>1. loop' = loop /\ held' = held /\ UNCHANGED lateVars /\ (closed => closed')
      BY <2>9 DEF loopVars, queueVars
    <3> QED BY <2>2, <3>1
  <2> HIDE DEF Kept
  <2> QED BY <1>2, <1>3, <1>4, <2>2, <2>3, <2>4, <2>5, <2>6, <2>7, <2>8, <2>9 DEF LoopsNext, Writer
<1> QED BY <1>1, <1>4

\* The queues, the wake token and the order of shutdown, as one inductive
\* invariant of send, writeLoop and Close.
THEOREM LoopsInvariance == LoopsSpec => []LInv
<1>1. LInv /\ [LoopsNext]_loopVars => LInv'
  BY LoopsTypeStep, WakeStep, EndStep, LateStep DEF LInv
<1> QED BY <1>1, LoopsInitStep, PTL DEF LoopsSpec

\* The queues stay within their slots and hold packets of known structs only.
THEOREM LoopsTypeCorrect == LoopsSpec => []LoopsTypeOK
BY LoopsInvariance, PTL DEF LInv

\* The writer never sleeps beside a queued packet (send, writeLoop), for any
\* number of priorities, slots and senders.
THEOREM WriterAwake == LoopsSpec => []NoLostWakeup
BY LoopsInvariance, PTL DEF LInv

\* After an RPC was cancelled, has expired or was closed, at most the packet that
\* writeLoop already has in its hands is written, for any number of RPCs, keys and
\* priorities (the check of writeLoop by pointer identity, under the lock).
THEOREM LateWritesBounded == LoopsSpec => []AtMostOneLate
<1>1. LInv => AtMostOneLate
  <2> SUFFICES ASSUME LInv PROVE AtMostOneLate
    OBVIOUS
  <2>1. afterClose <= 1
    <3>1. afterClose = 0 \/ afterClose = 1
      BY DEF LInv, InHand
    <3> QED BY <3>1, SMTT(30)
  <2>2. ASSUME NEW o \in Obj PROVE late[o] <= 1
    <3>1. late[o] = 0 \/ late[o] = 1
      BY DEF LInv, InHand
    <3> QED BY <3>1, SMTT(30)
  <2> QED BY <2>1, <2>2 DEF AtMostOneLate
<1> QED BY <1>1, LoopsInvariance, PTL

-----------------------------------------------------------------------------
(* What a step may do. *)

\* Only the writer itself leaves the state after a failed write.
LEMMA OnlySettles ==
  ASSUME LInv, [LoopsNext]_loopVars, loop["write"] = "failed", loop'["write"] = "lock"
  PROVE  WriterSettles
BY DEF LInv, LoopsTypeOK, Loops, LoopsNext, loopVars, rpcVars, queueVars, Writer, Remove,
       Enter, Expire, Send,
       WriterStops, WriterWaits, WriterWakes, WriterWrites, WriterTakes, Goto,
       ReaderFails, ReaderCloses, ReaderStops, TimerStops, CloseEndpoint, CloseSocket, CloseReturns

\* A failed write finishes no RPC but the one whose struct queued the packet
\* (the error path of writeLoop).
THEOREM ErrorsScoped == LoopsSpec => WriteErrorScoped
<1> DEFINE A == loop["write"] = "failed" /\ loop'["write"] = "lock" =>
                  \A k \in Key : table'[k] # table[k] => table[k] = held.origin
<1>1. LInv /\ [LoopsNext]_loopVars => [A]_loopVars
  <2> SUFFICES ASSUME LInv, [LoopsNext]_loopVars, loop["write"] = "failed", loop'["write"] = "lock",
                      NEW k \in Key, table'[k] # table[k]
               PROVE  table[k] = held.origin
    OBVIOUS
  <2>1. WriterSettles
    BY OnlySettles
  <2> QED BY <2>1 DEF WriterSettles, InTable, LInv, LoopsTypeOK
<1> QED BY <1>1, LoopsInvariance, PTL DEF LoopsSpec, WriteErrorScoped

\* After Close has returned the loops, the queues and the table stay as they
\* are (shutdown, Close, and the checks of e.closed).
THEOREM CloseIsFinal == LoopsSpec => QuietAfterClose
<1> DEFINE A == (\E c \in Closers : closer[c] = "returned") =>
                  UNCHANGED <<rpcVars, queueVars, closed, loop, held>>
<1>1. LInv /\ [LoopsNext]_loopVars => [A]_loopVars
  <2> SUFFICES ASSUME LInv, [LoopsNext]_loopVars, NEW c \in Closers, closer[c] = "returned"
               PROVE  UNCHANGED <<rpcVars, queueVars, closed, loop, held>>
    OBVIOUS
  <2>1. closed /\ (\A k \in Key : table[k] = Nil) /\ \A l \in Loops : loop[l] = "exited"
    BY DEF LInv, Ending
  <2>2. loop["read"] = "exited" /\ loop["timer"] = "exited" /\ loop["write"] = "exited"
    BY <2>1 DEF Loops
  <2>3. ~Writer /\ ~ReaderFails /\ ~ReaderCloses /\ ~ReaderStops /\ ~TimerStops
    BY <2>2 DEF Writer, WriterStops, WriterWaits, WriterTakes, WriterWakes, WriterWrites,
               WriterSettles, ReaderFails, ReaderCloses, ReaderStops, TimerStops
  <2>4. \A o \in Obj : ~Expire(o)
    BY <2>1 DEF Expire, InTable, LInv, LoopsTypeOK
  <2>5. ASSUME NEW d \in Closers, CloseEndpoint(d) \/ CloseSocket(d) \/ CloseReturns(d)
        PROVE  UNCHANGED <<rpcVars, queueVars, closed, loop, held>>
    BY <2>1, <2>5 DEF CloseEndpoint, CloseSocket, CloseReturns, rpcVars
  <2> QED BY <2>1, <2>3, <2>4, <2>5 DEF LoopsNext, Remove, Enter, Send, loopVars
<1> QED BY <1>1, LoopsInvariance, PTL DEF LoopsSpec, QuietAfterClose

-----------------------------------------------------------------------------
(* The packet adapters. *)

HIDE QueueAssumption

USE PacketIOAssumption DEF Users

\* Taking the mutex, the option, the write and its failure keep what the writers
\* rely on (WritePacket and frame).
LEMMA WriteStep ==
  ASSUME IInv, NEW u \in Users, Writes(u)
  PROVE  IInv'
<1>1. CASE Lock(u)
  <2>1. TypeOK'
    BY <1>1, SMTT(30) DEF IInv, TypeOK, Lock, MayLock, Goes, sideVars, inVars
  <2>2. Serialized'
    BY <1>1 DEF IInv, TypeOK, Serialized, Lock, MayLock, Goes, sideVars, inVars,
           Precedence
  <2>3. Exclusive' /\ Accounted' /\ PriorityOwn' /\ DatagramsOnce'
    BY <1>1, SMTT(30) DEF IInv, TypeOK, Exclusive, Accounted, PriorityOwn, DatagramsOnce,
           Lock, MayLock, Goes, sideVars, inVars
  <2> QED BY <2>1, <2>2, <2>3 DEF IInv
<1>2. CASE SetOption(u)
  <2>1. TypeOK'
    <3>1. packet[u] \in Priorities
      BY <1>2 DEF IInv, Serialized, SetOption
    <3>2. Precedence(packet[u]) \in {32 * p : p \in Priorities \cup {0}}
      BY <3>1 DEF Precedence
    <3> QED BY <1>2, <3>2 DEF IInv, TypeOK, SetOption, Goes, sideVars, inVars
  <2>2. Serialized'
    BY <1>2 DEF IInv, TypeOK, Serialized, SetOption, Goes, sideVars, inVars, Precedence
  <2>3. Exclusive' /\ Accounted' /\ PriorityOwn' /\ DatagramsOnce'
    BY <1>2, SMTT(30) DEF IInv, TypeOK, Exclusive, Accounted, PriorityOwn, DatagramsOnce,
           SetOption, Goes, sideVars, inVars
  <2> QED BY <2>1, <2>2, <2>3 DEF IInv
<1>3. CASE WriteSome(u)
  <2>1. PICK n \in 1..left[u] :
          /\ IF n < left[u]
             THEN /\ left' = [left EXCEPT ![u] = @ - n]
                  /\ UNCHANGED <<at, writer, packet, sent>>
             ELSE /\ sent' = IF packet[u] = None THEN sent
                             ELSE sent \cup {<<packet[u], Marked(u)>>}
                  /\ Unlock(u, IF u \in Readers THEN "read" ELSE "idle")
    BY <1>3 DEF WriteSome
  <2>2. at[u] = "write" /\ UNCHANGED <<sideVars, inVars, tos, writes>>
    BY <1>3 DEF WriteSome
  <2>3. TypeOK'
    BY <2>1, <2>2, SMTT(30) DEF IInv, TypeOK, Unlock, Goes, sideVars, inVars
  <2>4. Serialized'
    BY <2>1, <2>2, SMTT(30) DEF IInv, TypeOK, Serialized, Unlock, Goes, sideVars, inVars,
           Precedence
  <2>5. Exclusive' /\ Accounted' /\ DatagramsOnce'
    <3>1. u \in Readers => kind = "nic"
      BY <2>2 DEF IInv, TypeOK, Serialized
    <3>2. \A d \in Readers : at'[d] = at[d] \/ (d = u /\ at'[d] = "read")
      BY <2>1 DEF IInv, TypeOK, Unlock, Goes
    <3>3. Exclusive'
      BY <2>2, <3>1, <3>2, SMTT(30) DEF IInv, TypeOK, Exclusive, sideVars, inVars
    <3>4. Accounted' /\ DatagramsOnce'
      BY <2>2 DEF IInv, Accounted, DatagramsOnce, inVars
    <3> QED BY <3>3, <3>4
  <2>6. packet[u] # None => Marked(u) = 32 * packet[u]
    BY <2>2 DEF IInv, TypeOK, Serialized, Marked, Precedence
  <2>7. PriorityOwn'
    BY <2>1, <2>6, SMTT(30) DEF IInv, PriorityOwn
  <2> QED BY <2>3, <2>4, <2>5, <2>7 DEF IInv
<1>4. CASE WriteFails(u)
  <2>1. TypeOK'
    BY <1>4, SMTT(30) DEF IInv, TypeOK, WriteFails, Unlock, Goes, sideVars, inVars
  <2>2. Serialized'
    BY <1>4 DEF IInv, TypeOK, Serialized, WriteFails, Unlock, Goes, sideVars, inVars,
           Precedence
  <2>3. Exclusive' /\ Accounted' /\ PriorityOwn' /\ DatagramsOnce'
    BY <1>4, SMTT(30) DEF IInv, TypeOK, Exclusive, Accounted, PriorityOwn, DatagramsOnce,
           WriteFails, Unlock, Goes, sideVars, inVars
  <2> QED BY <2>1, <2>2, <2>3 DEF IInv
<1> QED BY <1>1, <1>2, <1>3, <1>4 DEF Writes

\* What a reader takes, it returns once or drops, and nobody else has it
\* (ReadPacket of both implementations).
LEMMA ReadStep ==
  ASSUME IInv, NEW d \in Readers, Reads(d)
  PROVE  IInv'
<1>1. CASE ReadLock(d)
  <2>1. TypeOK' /\ Serialized'
    BY <1>1 DEF IInv, TypeOK, Serialized, ReadLock, MayRead, Goes, sideVars, outVars,
           Precedence
  <2>2. Exclusive'
    BY <1>1 DEF IInv, TypeOK, Exclusive, ReadLock, MayRead, Goes, sideVars, outVars
  <2>3. Accounted' /\ PriorityOwn' /\ DatagramsOnce'
    BY <1>1 DEF IInv, TypeOK, Accounted, PriorityOwn, DatagramsOnce, ReadLock, Goes,
           sideVars, outVars
  <2> QED BY <2>1, <2>2, <2>3 DEF IInv
<1>2. ASSUME NEW a \in Arrivals, Receive(d, a)
      PROVE  IInv'
  <2>1. TypeOK' /\ Serialized'
    BY <1>2 DEF IInv, TypeOK, Serialized, Receive, Goes, sideVars, outVars, Precedence
  <2>2. Exclusive'
    BY <1>2, SMTT(30) DEF IInv, TypeOK, Exclusive, Receive, Goes, sideVars, outVars
  <2>3. Accounted' /\ PriorityOwn' /\ DatagramsOnce'
    BY <1>2, SMTT(30) DEF IInv, TypeOK, Accounted, PriorityOwn, DatagramsOnce, Receive, Goes,
           sideVars, outVars
  <2> QED BY <2>1, <2>2, <2>3 DEF IInv
<1>3. CASE Use(d)
  <2> DEFINE a == took[d]
  <2>1. a \in Arrivals /\ fate[a] = "taken" /\ Held(d) = a /\ at[d] = "use"
    BY <1>3 DEF IInv, TypeOK, Exclusive, Use, Held
  <2>2. kind = "raw" => Class[a] \in {"fits", "long"}
    BY <2>1 DEF IInv, Exclusive
  <2>3. /\ fate' = [fate EXCEPT ![a] = "gone"]
        /\ returned' = IF Class[a] = "fits" THEN Append(returned, a) ELSE returned
        /\ reader' = None
        /\ took' = [took EXCEPT ![d] = None]
        /\ at' = [at EXCEPT ![d] = After(Class[a])]
        /\ UNCHANGED <<sideVars, outVars, readBuf>>
    BY <1>3, <2>1 DEF Use, Goes
  <2>4. /\ After(Class[a]) \in {"lock", "read", "idle"}
        /\ kind = "raw" => After(Class[a]) = "idle"
    BY <2>1, <2>2 DEF After
  <2> HIDE DEF a
  <2>5. TypeOK'
    BY <2>1, <2>3, <2>4 DEF IInv, TypeOK, sideVars, outVars
  <2>6. Serialized'
    BY <2>1, <2>3, <2>4 DEF IInv, TypeOK, Serialized, sideVars, outVars, Precedence
  <2>7. Exclusive'
    <3>1. \A q \in Readers : q # d /\ at[q] = "use" => took[q] # a /\ kind = "nic"
      BY <2>1 DEF IInv, TypeOK, Exclusive, a
    <3> QED BY <2>1, <2>3, <2>4, <3>1, SMTT(30) DEF IInv, TypeOK, Exclusive, sideVars, outVars
  <2>8. \A i \in 1..Len(returned) : returned[i] # a
    BY <2>1 DEF IInv, Accounted
  <2>9. Accounted' /\ DatagramsOnce'
    <3>1. CASE Class[a] = "fits"
      BY <2>1, <2>3, <2>8, <3>1, SMTT(30) DEF IInv, TypeOK, Accounted, DatagramsOnce
    <3>2. CASE Class[a] # "fits"
      BY <2>1, <2>3, <2>8, <3>2, SMTT(30) DEF IInv, TypeOK, Accounted, DatagramsOnce
    <3> QED BY <3>1, <3>2
  <2>10. PriorityOwn'
    BY <2>3 DEF IInv, PriorityOwn, outVars
  <2> QED BY <2>5, <2>6, <2>7, <2>9, <2>10 DEF IInv
<1>4. CASE ReadFails(d)
  <2>1. TypeOK' /\ Serialized'
    BY <1>4 DEF IInv, TypeOK, Serialized, ReadFails, Goes, sideVars, outVars, Precedence
  <2>2. Exclusive'
    BY <1>4 DEF IInv, TypeOK, Exclusive, ReadFails, Goes, sideVars, outVars
  <2>3. Accounted' /\ PriorityOwn' /\ DatagramsOnce'
    BY <1>4 DEF IInv, Accounted, PriorityOwn, DatagramsOnce, ReadFails, sideVars, outVars
  <2> QED BY <2>1, <2>2, <2>3 DEF IInv
<1> QED BY <1>1, <1>2, <1>3, <1>4 DEF Reads

\* Every step of the packet I/O keeps the invariant.
LEMMA NextStep == IInv /\ [Next]_vars => IInv'
<1> SUFFICES ASSUME IInv, [Next]_vars
             PROVE  IInv'
  OBVIOUS
<1>1. ASSUME NEW w \in Writers, NEW p \in Priorities, WritePacket(w, p)
      PROVE  IInv'
  <2>1. TypeOK' /\ Serialized'
    BY <1>1 DEF IInv, TypeOK, Serialized, WritePacket, Goes, sideVars, inVars, Precedence
  <2>2. Exclusive' /\ Accounted' /\ PriorityOwn' /\ DatagramsOnce'
    BY <1>1, SMTT(30) DEF IInv, TypeOK, Exclusive, Accounted, PriorityOwn, DatagramsOnce,
           WritePacket, Goes, sideVars, inVars
  <2> QED BY <2>1, <2>2 DEF IInv
<1>2. ASSUME NEW u \in Users, Writes(u)
      PROVE  IInv'
  BY <1>2, WriteStep
<1>3. ASSUME NEW d \in Readers, ReadPacket(d)
      PROVE  IInv'
  <2>1. /\ UNCHANGED <<kind, closing, inVars, outVars>> /\ at[d] = "idle"
        /\ at' = [at EXCEPT ![d] = IF kind = "raw" THEN "readLock" ELSE "read"]
    BY <1>3 DEF ReadPacket, Goes, sideVars
  <2>2. TypeOK' /\ Serialized'
    BY <2>1 DEF IInv, TypeOK, Serialized, inVars, outVars, Precedence
  <2>3. Exclusive'
    BY <2>1 DEF IInv, TypeOK, Exclusive, inVars
  <2>4. Accounted' /\ PriorityOwn' /\ DatagramsOnce'
    BY <2>1 DEF IInv, Accounted, PriorityOwn, DatagramsOnce, inVars, outVars
  <2> QED BY <2>2, <2>3, <2>4 DEF IInv
<1>4. ASSUME NEW d \in Readers, Reads(d)
      PROVE  IInv'
  BY <1>4, ReadStep
<1>5. ASSUME NEW a \in Arrivals, Arrive(a)
      PROVE  IInv'
  <2>1. TypeOK' /\ Serialized' /\ PriorityOwn'
    BY <1>5 DEF IInv, TypeOK, Serialized, PriorityOwn, Arrive, sideVars, outVars,
           Precedence
  <2>2. Exclusive'
    BY <1>5 DEF IInv, TypeOK, Exclusive, Arrive, sideVars
  <2>3. Accounted' /\ DatagramsOnce'
    <3>1. returned' = returned /\ \A b \in Arrivals : fate'[b] = "gone" <=> fate[b] = "gone"
      BY <1>5 DEF IInv, TypeOK, Arrive
    <3>2. \A i \in 1..Len(returned) : returned[i] \in Arrivals
      BY SMTT(30) DEF IInv, Accounted
    <3> QED BY <3>1, <3>2 DEF IInv, Accounted, DatagramsOnce
  <2> QED BY <2>1, <2>2, <2>3 DEF IInv
<1>6. CASE AskClose \/ Close \/ UNCHANGED vars
  <2>1. UNCHANGED <<kind, inVars, outVars, at>>
    BY <1>6 DEF AskClose, Close, vars, inVars, outVars
  <2>2. TypeOK' /\ Serialized' /\ PriorityOwn'
    BY <2>1 DEF IInv, TypeOK, Serialized, PriorityOwn, inVars, outVars, Precedence
  <2>3. Exclusive' /\ Accounted' /\ DatagramsOnce'
    BY <2>1 DEF IInv, Exclusive, Accounted, DatagramsOnce, inVars
  <2> QED BY <2>2, <2>3 DEF IInv
<1> QED BY <1>1, <1>2, <1>3, <1>4, <1>5, <1>6 DEF Next

\* The invariant holds in every state of every behaviour of the packet I/O.
LEMMA Invariance == Spec => []IInv
<1>1. Init => IInv
  BY SMTT(30) DEF Init, IInv, TypeOK, Serialized, Exclusive, Accounted, PriorityOwn,
         DatagramsOnce
<1> QED BY <1>1, NextStep, PTL DEF Spec

\* The variables keep their types; IP_TOS is always some packet's priority, shifted.
THEOREM TypeCorrect == Spec => []TypeOK
<1>1. IInv => TypeOK
  BY DEF IInv
<1> QED BY <1>1, Invariance, PTL

\* Concurrent calls of WritePacket never inherit each other's IP_TOS.
THEOREM PriorityOwnAlways == Spec => []PriorityOwn
<1>1. IInv => PriorityOwn
  BY DEF IInv
<1> QED BY <1>1, Invariance, PTL

\* Frames to QEMU are not interleaved: frame holds mu from the first part to the last.
THEOREM FramesWholeAlways == Spec => []FramesWhole
<1>1. IInv => FramesWhole
  BY DEF IInv, Serialized, FramesWhole
<1> QED BY <1>1, Invariance, PTL

\* The shared read buffer neither loses nor doubles a datagram.
THEOREM DatagramsOnceAlways == Spec => []DatagramsOnce
<1>1. IInv => DatagramsOnce
  BY DEF IInv
<1> QED BY <1>1, Invariance, PTL

HIDE PacketIOAssumption DEF Users

-----------------------------------------------------------------------------
(* The benchmark server. *)

USE ServerAssumption

\* The index that latencySummary computes is in range, and names the first sample
\* that at least q percent of them do not exceed.
THEOREM RankInRange ==
  ASSUME NEW n \in Nat \ {0}, NEW q \in 1..100
  PROVE  /\ Rank(q, n) \in 1..n
         /\ 100 * Rank(q, n) >= q * n
         /\ 100 * (Rank(q, n) - 1) < q * n
<1> DEFINE x == q * n
<1>1. x \in Nat /\ x >= 1 /\ x <= 100 * n
  <2>1. x \in Nat
    BY SMTT(30)
  <2>2. q * n >= 1 * n
    BY Z3
  <2>3. q * n <= 100 * n
    BY Z3
  <2> QED BY <2>1, <2>2, <2>3, SMTT(30)
<1> HIDE DEF x
<1> DEFINE k == (x + 99) \div 100
<1>2. k \in 1..n /\ 100 * k >= x /\ 100 * (k - 1) < x
  BY <1>1, SMTT(30)
<1> QED BY <1>2 DEF Rank, x

\* The map stays finite.
LEMMA MapFinite ==
  ASSUME BInv
  PROVE  IsFiniteSet(connections) /\ Cardinality(connections) \in Nat
<1>1. IsFiniteSet(connections)
  BY FS_Subset DEF BInv, ServerTypeOK
<1> QED BY <1>1, FS_CardinalityType

\* The accept loop: accepting, refusing, admitting and starting a goroutine.
LEMMA AcceptStep ==
  ASSUME BInv, (\E c \in Conns : Accept(c)) \/ AcceptFails \/ Refuse \/ Admit \/ Spawn
  PROVE  BInv'
<1>1. ASSUME NEW c \in Conns, Accept(c)
      PROVE  BInv'
  <2>1. Working' = Working
    BY <1>1 DEF Accept, Working
  <2>2. ServerTypeOK'
    BY <1>1 DEF BInv, ServerTypeOK, Accept, Loop, Phases
  <2>3. Owned'
    BY <1>1 DEF BInv, ServerTypeOK, Owned, Accept, Loop, Phases
  <2>4. Progressed'
    BY <1>1, <2>1 DEF BInv, Progressed, Accept, Loop
  <2>5. ServedIsTracked'
    BY <1>1, <2>1 DEF BInv, ServedIsTracked, Accept, Loop
  <2>6. SweptStaysClosed'
    BY <1>1 DEF BInv, ServerTypeOK, Owned, SweptStaysClosed, Accept, Loop
  <2> QED BY <2>2, <2>3, <2>4, <2>5, <2>6 DEF BInv
<1>2. CASE AcceptFails
  <2>1. Working' = Working
    BY <1>2 DEF AcceptFails, Working
  <2>2. ServerTypeOK' /\ Owned' /\ Progressed'
    BY <1>2, <2>1 DEF BInv, ServerTypeOK, Owned, Progressed, AcceptFails, Loop, Phases
  <2>3. ServedIsTracked' /\ SweptStaysClosed'
    BY <1>2, <2>1 DEF BInv, ServedIsTracked, SweptStaysClosed, AcceptFails, Loop
  <2> QED BY <2>2, <2>3 DEF BInv
<1>3. CASE Refuse
  <2>1. Working' = Working
    BY <1>3 DEF Refuse, Working
  <2>2. ServerTypeOK'
    BY <1>3 DEF BInv, ServerTypeOK, Refuse, Loop, Phases
  <2>3. Owned'
    BY <1>3, SMTT(30) DEF BInv, ServerTypeOK, Owned, Refuse, Loop, Phases
  <2>4. Progressed'
    BY <1>3, <2>1 DEF BInv, Progressed, Refuse, Loop
  <2>5. ServedIsTracked'
    BY <1>3, <2>1 DEF BInv, ServedIsTracked, Refuse, Loop
  <2>6. SweptStaysClosed'
    BY <1>3 DEF BInv, ServerTypeOK, SweptStaysClosed, Refuse, Loop
  <2> QED BY <2>2, <2>3, <2>4, <2>5, <2>6 DEF BInv
<1>4. CASE Admit
  <2> DEFINE c == accepting.conn
  <2>1. /\ c \in Conns /\ accepting.pc = "admit" /\ ctx # "done"
        /\ connections' = connections \cup {c}
        /\ accepting' = [pc |-> "spawn", conn |-> c]
        /\ UNCHANGED <<ctx, listening, homa, sock, after, worker>>
    BY <1>4 DEF BInv, Owned, Admit, Refuses, Loop
  <2>2. Working' = Working
    BY <2>1 DEF Working
  <2>3. Cardinality(connections) < Limit /\ Cardinality(connections) \in Nat
        /\ IsFiniteSet(connections)
    BY <1>4, MapFinite, SMTT(30) DEF Admit, Refuses
  <2>4. Cardinality(connections \cup {c}) <= Limit
    <3>1. \/ Cardinality(connections \cup {c}) = Cardinality(connections)
          \/ Cardinality(connections \cup {c}) = Cardinality(connections) + 1
      BY <2>3, FS_AddElement
    <3> QED BY <2>3, <3>1, SMTT(30)
  <2> HIDE DEF c
  <2>5. ServerTypeOK'
    BY <2>1 DEF BInv, ServerTypeOK
  <2>6. Owned'
    BY <2>1 DEF BInv, ServerTypeOK, Owned, c
  <2>7. Progressed'
    BY <2>1, <2>2 DEF BInv, Progressed
  <2>8. ServedIsTracked'
    BY <2>1, <2>2, <2>4 DEF BInv, ServedIsTracked
  <2>9. SweptStaysClosed'
    BY <2>1 DEF BInv, Progressed, SweptStaysClosed, Phases
  <2> QED BY <2>5, <2>6, <2>7, <2>8, <2>9 DEF BInv
<1>5. CASE Spawn
  <2> DEFINE c == accepting.conn
  <2>1. /\ c \in Conns /\ accepting.pc = "spawn"
        /\ worker' = [worker EXCEPT ![c] = "read"]
        /\ accepting' = [pc |-> "accept", conn |-> Nobody]
        /\ UNCHANGED <<ctx, listening, homa, sock, connections, after>>
    BY <1>5 DEF BInv, Owned, Spawn, Loop
  <2>2. Working' = Working \cup {c}
    BY <2>1 DEF BInv, ServerTypeOK, Working
  <2>3. c \in connections
    BY <2>1 DEF BInv, ServedIsTracked
  <2> HIDE DEF c
  <2>4. ServerTypeOK'
    BY <2>1 DEF BInv, ServerTypeOK
  <2>5. Owned'
    BY <2>1, <2>3 DEF BInv, ServerTypeOK, Owned
  <2>6. Progressed'
    BY <2>1 DEF BInv, Progressed
  <2>7. ServedIsTracked'
    BY <2>1, <2>2, <2>3 DEF BInv, ServedIsTracked, c
  <2>8. SweptStaysClosed'
    BY <2>1 DEF BInv, SweptStaysClosed
  <2> QED BY <2>4, <2>5, <2>6, <2>7, <2>8 DEF BInv
<1> QED BY <1>1, <1>2, <1>3, <1>4, <1>5

\* A goroutine that reads, writes or fails, then closes its connection, then forgets it.
LEMMA WorkerStep ==
  ASSUME BInv, NEW c \in Conns, WorkerReads(c) \/ WorkerWrites(c) \/ Ends(c)
  PROVE  BInv'
<1>1. CASE WorkerReads(c) \/ WorkerWrites(c) \/ WorkerFails(c)
  <2>1. PICK pc \in {"read", "write", "close"} :
          /\ worker[c] \in {"read", "write"}
          /\ worker' = [worker EXCEPT ![c] = pc]
          /\ UNCHANGED <<ctx, listening, homa, sock, connections, accepting, after>>
    BY <1>1 DEF WorkerReads, WorkerWrites, WorkerFails, WorkerGoes
  <2>2. Working' = Working
    BY <2>1 DEF BInv, ServerTypeOK, Working
  <2>3. ServerTypeOK' /\ Owned'
    BY <2>1, SMTT(30) DEF BInv, ServerTypeOK, Owned
  <2>4. Progressed' /\ ServedIsTracked' /\ SweptStaysClosed'
    BY <2>1, <2>2 DEF BInv, Progressed, ServedIsTracked, SweptStaysClosed
  <2> QED BY <2>3, <2>4 DEF BInv
<1>2. CASE WorkerCloses(c)
  <2>1. /\ worker[c] = "close"
        /\ worker' = [worker EXCEPT ![c] = "forget"]
        /\ sock' = [sock EXCEPT ![c] = "closed"]
        /\ UNCHANGED <<ctx, listening, homa, connections, accepting, after>>
    BY <1>2 DEF WorkerCloses, WorkerGoes
  <2>2. Working' = Working
    BY <2>1 DEF BInv, ServerTypeOK, Working
  <2>3. ServerTypeOK'
    BY <2>1 DEF BInv, ServerTypeOK
  <2>4. Owned'
    BY <2>1 DEF BInv, ServerTypeOK, Owned
  <2>5. Progressed' /\ ServedIsTracked'
    BY <2>1, <2>2 DEF BInv, Progressed, ServedIsTracked
  <2>6. SweptStaysClosed'
    BY <2>1 DEF BInv, ServerTypeOK, SweptStaysClosed
  <2> QED BY <2>3, <2>4, <2>5, <2>6 DEF BInv
<1>3. CASE WorkerForgets(c)
  <2>1. /\ worker[c] = "forget"
        /\ worker' = [worker EXCEPT ![c] = "done"]
        /\ connections' = connections \ {c}
        /\ UNCHANGED <<ctx, listening, homa, sock, accepting, after>>
    BY <1>3 DEF WorkerForgets, WorkerGoes
  <2>2. Working' = Working \ {c}
    BY <2>1 DEF BInv, ServerTypeOK, Working
  <2>3. ServerTypeOK'
    BY <2>1 DEF BInv, ServerTypeOK
  <2>4. sock[c] = "closed" /\ (accepting.pc \in {"admit", "spawn"} => accepting.conn # c)
    BY <2>1 DEF BInv, Owned
  <2>5. Owned'
    BY <2>1, <2>4 DEF BInv, ServerTypeOK, Owned
  <2>6. Progressed' /\ SweptStaysClosed'
    BY <2>1, <2>2 DEF BInv, Progressed, SweptStaysClosed
  <2>7. ServedIsTracked'
    <3>1. Cardinality(connections \ {c}) <= Cardinality(connections)
          /\ Cardinality(connections \ {c}) \in Nat
      BY MapFinite, FS_Subset, FS_CardinalityType
    <3>2. Cardinality(connections \ {c}) <= Limit
      BY <3>1, MapFinite, SMTT(30) DEF BInv, ServedIsTracked
    <3> QED BY <2>1, <2>2, <2>4, <3>2 DEF BInv, ServedIsTracked
  <2> QED BY <2>3, <2>5, <2>6, <2>7 DEF BInv
<1> QED BY <1>1, <1>2, <1>3 DEF Ends

\* One phase of shutdown, whoever runs it, only closes.
LEMMA ShutdownCloses ==
  ASSUME BInv, NEW pc, Shutdown(pc)
  PROVE  /\ sock' \in [Conns -> {"none", "queued", "open", "closed"}]
         /\ connections' = connections /\ listening' \in BOOLEAN /\ homa' \in BOOLEAN
         /\ listening' => listening
         /\ homa' => homa
         /\ pc = "listener" => ~listening'
         /\ pc = "homa" => ~homa'
         /\ pc = "conns" => \A c \in connections : sock'[c] = "closed"
         /\ \A c \in Conns :
              /\ sock'[c] = sock[c]
                 \/ (sock'[c] = "closed" /\ (sock[c] = "queued" \/ c \in connections))
              /\ sock'[c] = "queued" => listening'
<1>1. CASE pc = "listener" /\ CloseListener
  BY <1>1, ZenonT(30) DEF BInv, ServerTypeOK, Owned, CloseListener, Reset
<1>2. CASE pc = "conns" /\ CloseConnections
  BY <1>2 DEF BInv, ServerTypeOK, Owned, CloseConnections
<1>3. CASE pc = "homa" /\ CloseHoma
  BY <1>3 DEF BInv, ServerTypeOK, Owned, CloseHoma
<1> QED BY <1>1, <1>2, <1>3 DEF Shutdown

\* Both runs of shutdown, before, during and after each other.
LEMMA ShutdownStep ==
  ASSUME BInv, AfterFunc \/ LeaveShutdown
  PROVE  BInv'
<1>1. PICK pc \in Phases \ {"over"} :
        /\ Shutdown(pc)
        /\ ctx' = ctx /\ worker' = worker
        /\ \/ after = pc /\ after' = Following(pc) /\ accepting' = accepting
           \/ /\ accepting.pc = pc /\ accepting' = [pc |-> Following(pc), conn |-> Nobody]
              /\ after' = after
  BY DEF AfterFunc, LeaveShutdown, Loop
<1>2. Working' = Working
  BY <1>1 DEF Working
<1>3. /\ Following(pc) \in {"conns", "homa", "over"}
      /\ Following(pc) = "conns" => pc = "listener"
      /\ Following(pc) = "homa" => pc = "conns"
      /\ Following(pc) = "over" => pc = "homa"
  BY <1>1 DEF Following, Phases
<1>4. ServerTypeOK'
  BY <1>1, <1>3, ShutdownCloses, SMTT(30) DEF BInv, ServerTypeOK, Phases
<1>5. accepting'.pc \in {"admit", "spawn"} => accepting' = accepting
  BY <1>1, <1>3, SMTT(30) DEF BInv, ServerTypeOK
<1>6. Owned'
  <2>1. accepting.pc = "admit" => sock'[accepting.conn] = "open"
    <3>1. accepting.pc = "admit" => accepting.conn \notin connections
      BY DEF BInv, Owned, ServedIsTracked, Working
    <3> QED BY <1>1, <3>1, ShutdownCloses DEF BInv, Owned
  <2>2. accepting.pc = "admit" => accepting' = accepting
    BY <1>1 DEF Phases
  <2> QED BY <1>1, <1>5, <2>1, <2>2, ShutdownCloses, SMTT(30) DEF BInv, Owned, ServerTypeOK
<1>7. Progressed'
  <2>1. /\ listening' => listening
        /\ homa' => homa
        /\ pc = "listener" => ~listening'
        /\ pc = "homa" => ~homa'
    BY <1>1, ShutdownCloses
  <2> QED BY <1>1, <1>2, <1>3, <2>1, SMTT(30) DEF BInv, Progressed, Phases
<1>8. ServedIsTracked'
  <2>1. connections' = connections
    BY <1>1, ShutdownCloses
  <2>2. (accepting'.pc = "spawn") = (accepting.pc = "spawn")
        /\ (accepting.pc = "spawn" => accepting' = accepting)
    BY <1>1, <1>3, SMTT(30) DEF Phases
  <2> QED BY <1>2, <2>1, <2>2 DEF BInv, ServedIsTracked
<1>9. SweptStaysClosed'
  <2>1. connections' = connections /\ connections \subseteq Conns
    BY <1>1, ShutdownCloses DEF BInv, ServerTypeOK
  <2>2. CASE pc = "conns"
    BY <1>1, <2>1, <2>2, ShutdownCloses DEF SweptStaysClosed
  <2>3. CASE pc # "conns"
    <3>1. \A c \in connections : sock[c] = "closed" => sock'[c] = "closed"
      BY <1>1, <2>1, ShutdownCloses
    <3>2. (after' \in {"homa", "over"} \/ accepting'.pc \in {"homa", "over", "returned"})
          => (after \in {"homa", "over"} \/ accepting.pc \in {"homa", "over", "returned"})
      BY <1>1, <1>3, <2>3, SMTT(30)
    <3> QED BY <2>1, <3>1, <3>2 DEF BInv, SweptStaysClosed
  <2> QED BY <2>2, <2>3
<1> QED BY <1>4, <1>6, <1>7, <1>8, <1>9 DEF BInv

\* The last of serve's deferred calls: nothing is queued or open any more.
LEMMA ReturnStep ==
  ASSUME BInv, Return
  PROVE  BInv'
<1>1. /\ accepting.pc = "over" /\ Working = {}
      /\ listening' = FALSE /\ homa' = FALSE /\ sock' = Reset
      /\ accepting' = [pc |-> "returned", conn |-> Nobody]
      /\ UNCHANGED <<ctx, connections, after, worker>>
  BY DEF Return, CloseLast, Loop
<1>2. Working' = {} /\ connections = {}
  BY <1>1 DEF BInv, ServedIsTracked, Working
<1>3. ServerTypeOK'
  BY <1>1 DEF BInv, ServerTypeOK, Reset
<1>4. Owned'
  BY <1>1, <1>2 DEF BInv, ServerTypeOK, Owned, Reset
<1>5. Progressed'
  BY <1>1, <1>2 DEF BInv, Progressed
<1>6. ServedIsTracked' /\ SweptStaysClosed'
  BY <1>1, <1>2 DEF BInv, ServedIsTracked, SweptStaysClosed
<1> QED BY <1>3, <1>4, <1>5, <1>6 DEF BInv

\* Every step of the server keeps the invariant.
LEMMA ServerStep == BInv /\ [ServerNext]_serverVars => BInv'
<1> SUFFICES ASSUME BInv, [ServerNext]_serverVars
             PROVE  BInv'
  OBVIOUS
<1>1. ASSUME NEW c \in Conns, Dial(c)
      PROVE  BInv'
  <2>1. Working' = Working
    BY <1>1 DEF Dial, Working
  <2>2. ServerTypeOK' /\ Owned'
    BY <1>1, SMTT(30) DEF BInv, ServerTypeOK, Owned, Dial
  <2>3. Progressed' /\ ServedIsTracked'
    BY <1>1, <2>1 DEF BInv, Progressed, ServedIsTracked, Dial
  <2>4. SweptStaysClosed'
    BY <1>1 DEF BInv, ServerTypeOK, Owned, SweptStaysClosed, Dial
  <2> QED BY <2>2, <2>3, <2>4 DEF BInv
<1>2. CASE ContextEnds \/ HomaStops \/ Leave \/ UNCHANGED serverVars
  <2>1. Working' = Working
    BY <1>2 DEF ContextEnds, HomaStops, Leave, serverVars, Working
  <2>2. /\ UNCHANGED <<listening, sock, connections, worker>>
        /\ homa' \in BOOLEAN /\ (homa' => homa)
        /\ ctx' \in {"running", "done"} /\ (ctx = "done" => ctx' = "done")
        /\ \/ after' = after
           \/ after' = "listener" /\ ctx' = "done"
           \/ after' = "stopped"
        /\ \/ accepting' = accepting
           \/ accepting.pc = "leave" /\ accepting' = [pc |-> "listener", conn |-> Nobody]
    <3>0. homa \in BOOLEAN /\ ctx \in {"running", "done"}
      BY DEF BInv, ServerTypeOK
    <3>1. CASE ContextEnds
      BY <3>0, <3>1 DEF ContextEnds
    <3>2. CASE HomaStops
      BY <3>0, <3>2 DEF HomaStops
    <3>3. CASE Leave
      BY <3>0, <3>3 DEF Leave, Loop
    <3>4. CASE UNCHANGED serverVars
      BY <3>0, <3>4 DEF serverVars
    <3> QED BY <1>2, <3>1, <3>2, <3>3, <3>4
  <2>3. ServerTypeOK'
    BY <2>2, SMTT(30) DEF BInv, ServerTypeOK, Phases
  <2>4. Owned'
    BY <2>2, SMTT(30) DEF BInv, ServerTypeOK, Owned
  <2>5. Progressed'
    BY <2>1, <2>2, SMTT(30) DEF BInv, Progressed, Phases
  <2>6. ServedIsTracked'
    BY <2>1, <2>2, SMTT(30) DEF BInv, ServedIsTracked
  <2>7. SweptStaysClosed'
    BY <2>2, SMTT(30) DEF BInv, SweptStaysClosed
  <2> QED BY <2>3, <2>4, <2>5, <2>6, <2>7 DEF BInv
<1>3. CASE Serve
  BY <1>2, <1>3, AcceptStep, ShutdownStep, ReturnStep DEF Serve
<1>4. ASSUME NEW c \in Conns, WorkerReads(c) \/ WorkerWrites(c) \/ Ends(c)
      PROVE  BInv'
  BY <1>4, WorkerStep
<1> QED BY <1>1, <1>2, <1>3, <1>4 DEF ServerNext

\* The invariant holds in every state of every behaviour of the server.
LEMMA ServerInvariance == ServerSpec => []BInv
<1>1. ServerInit => BInv
  <2> SUFFICES ASSUME ServerInit PROVE BInv
    OBVIOUS
  <2>1. Working = {}
    BY DEF ServerInit, Working
  <2>2. ServerTypeOK /\ Owned /\ Progressed
    BY <2>1 DEF ServerInit, ServerTypeOK, Owned, Progressed, Phases
  <2>3. ServedIsTracked /\ SweptStaysClosed
    BY <2>1, FS_EmptySet, SMTT(30) DEF ServerInit, ServedIsTracked, SweptStaysClosed
  <2> QED BY <2>2, <2>3 DEF BInv
<1> QED BY <1>1, ServerStep, PTL DEF ServerSpec

\* At most Limit connections are served, each by its own goroutine, and the map
\* that shutdown goes through has every one of them.
THEOREM ServedAlways == ServerSpec => []ServedIsTracked
<1>1. BInv => ServedIsTracked
  BY DEF BInv
<1> QED BY <1>1, ServerInvariance, PTL

\* No connection slips past a shutdown that has been through the map.
THEOREM SweptAlways == ServerSpec => []SweptStaysClosed
<1>1. BInv => SweptStaysClosed
  BY DEF BInv
<1> QED BY <1>1, ServerInvariance, PTL

\* When serve returns, every goroutine has ended and every descriptor is closed.
THEOREM ReturnsCleanAlways == ServerSpec => []ReturnsClean
<1>1. BInv => ReturnsClean
  <2> SUFFICES ASSUME BInv, accepting.pc = "returned"
               PROVE  /\ ~listening /\ ~homa
                      /\ connections = {} /\ Working = {}
                      /\ \A c \in Conns : sock[c] \in {"none", "closed"}
    BY DEF ReturnsClean
  <2>1. ~listening /\ ~homa /\ Working = {}
    BY DEF BInv, Progressed
  <2>2. connections = {}
    BY <2>1 DEF BInv, ServedIsTracked
  <2> QED BY <2>1, <2>2 DEF BInv, ServerTypeOK, Owned
<1> QED BY <1>1, ServerInvariance, PTL

-----------------------------------------------------------------------------
(* The relay. *)

HIDE ServerAssumption

\* A frame is within its parts and a log within what is required of it.
LEMMA Ranges ==
  /\ FrameParts \in 0 .. FrameParts /\ 0 \in 0 .. FrameParts /\ 0 \in 0 .. Required
  /\ Required \in Int
  /\ \A n \in 0 .. Required : n <= n /\ n \in Int
  /\ \A n \in 0 .. Required : n < Required => n + 1 \in 0 .. Required /\ n <= n + 1
BY RelayAssumption, SMTT(30)

\* The order of the integers, and counting by one.
LEMMA Ordered ==
  /\ \A a, b, c \in Int : a <= b /\ a >= c => b >= c
  /\ \A a \in Nat : a + 1 \in Nat
  /\ \A a, b \in Nat : a <= b => a <= b + 1 /\ a + 1 <= b + 1
  /\ 0 # 1
BY SMTT(30)

\* What is left when one more is counted.
LEMMA Settling ==
  ASSUME NEW t \in Nat, NEW v \in Nat, NEW s \in Nat
  PROVE  /\ t - v = 0 => (t + 1) - v = 1
         /\ t - v = 1 => t - (v + 1) = 0
         /\ t - v - s = 0 => (t + 1) - v - s = 1
         /\ t - v - s = 1 => t - (v + 1) - s = 0 /\ t - v - (s + 1) = 0
BY SMTT(30)

\* A goroutine that reads has nothing to write.
LEMMA IdleCarrier == Path = {"lan", "vm"} /\ Idle \in Carrier /\ Idle.pc = "read"
BY Ranges DEF Path, Idle, Carrier, Place

\* A packet that was counted has a class and a number in it.
LEMMA Counted ==
  ASSUME NEW f, NEW z
  PROVE  z \in Points(f, TOS) <=> \E x \in TOS : \E i \in 1 .. f[x] : z = <<x, i>>
BY SMTT(30) DEF Points

\* The packets counted are finitely many.
LEMMA CountType ==
  ASSUME NEW f \in [TOS -> Nat]
  PROVE  IsFiniteSet(Points(f, TOS)) /\ Total(f, TOS) \in Nat
<1> DEFINE Col(x) == {x} \X (1 .. f[x])
           C == [x \in TOS |-> Col(x)]
           R == {Col(x) : x \in TOS}
<1>1. ASSUME NEW x \in TOS PROVE IsFiniteSet(Col(x))
  <2>1. f[x] \in Int /\ 1 \in Int
    BY SMTT(30)
  <2>2. IsFiniteSet({x}) /\ IsFiniteSet(1 .. f[x])
    BY <2>1, FS_Singleton, FS_Interval
  <2> QED BY <2>2, FS_Product
<1>2. C \in Surjection(TOS, R)
  BY DEF Surjection
<1>3. IsFiniteSet(R)
  BY <1>2, FS_Surjection, RelayAssumption
<1>4. IsFiniteSet(UNION R)
  BY <1>1, <1>3, FS_UNION
<1>5. Points(f, TOS) = UNION R
  BY DEF Points
<1> QED BY <1>4, <1>5, FS_CardinalityType DEF Total

\* Where nothing has been counted there is no packet.
LEMMA CountZero ==
  ASSUME NEW f \in [TOS -> {0}]
  PROVE  Total(f, TOS) = 0
<1>1. \A x \in TOS : 1 .. f[x] = {}
  BY SMTT(30)
<1>2. Points(f, TOS) = {}
  BY <1>1, Counted
<1> QED BY <1>2, FS_EmptySet DEF Total

\* One more packet of a class is one more packet.
LEMMA OneMore ==
  ASSUME NEW f \in [TOS -> Nat], NEW t \in TOS
  PROVE  /\ [f EXCEPT ![t] = @ + 1] \in [TOS -> Nat]
         /\ Total(f, TOS) \in Nat
         /\ Total([f EXCEPT ![t] = @ + 1], TOS) = Total(f, TOS) + 1
<1> DEFINE g == [f EXCEPT ![t] = @ + 1]
           last == <<t, f[t] + 1>>
<1>1. /\ g \in [TOS -> Nat]
      /\ 1 .. g[t] = (1 .. f[t]) \cup {f[t] + 1}
      /\ f[t] + 1 \notin 1 .. f[t]
      /\ \A x \in TOS \ {t} : g[x] = f[x]
  BY SMTT(30)
<1>2. IsFiniteSet(Points(f, TOS)) /\ Total(f, TOS) \in Nat
  BY CountType
<1> HIDE DEF g
<1>3. ASSUME NEW z PROVE z \in Points(g, TOS) <=> z \in Points(f, TOS) \/ z = last
  <2>1. ASSUME NEW x \in TOS, NEW i
        PROVE  i \in 1 .. g[x] <=> i \in 1 .. f[x] \/ (x = t /\ i = f[t] + 1)
    BY <1>1
  <2>2. z \in Points(g, TOS) <=> \E x \in TOS : \E i \in 1 .. g[x] : z = <<x, i>>
    BY Counted, SMTT(30)
  <2>3. z \in Points(f, TOS) <=> \E x \in TOS : \E i \in 1 .. f[x] : z = <<x, i>>
    BY Counted, SMTT(30)
  <2> QED BY <2>1, <2>2, <2>3, SMTT(30)
<1>4. last \notin Points(f, TOS)
  BY <1>1, Counted, SMTT(30)
<1>5. Cardinality(Points(g, TOS)) = Cardinality(Points(f, TOS)) + 1
  <2>1. Points(g, TOS) = Points(f, TOS) \cup {last}
    BY <1>3
  <2> QED BY <1>2, <1>4, <2>1, FS_AddElement
<1> QED BY <1>1, <1>2, <1>5 DEF g, Total

\* Locking and writing a frame, and giving up.
LEMMA NicStep ==
  ASSUME RInv, NEW who \in Path, main.pc # "done", Nic(who)
  PROVE  RInv'
<1>0. /\ path \in [Path -> Carrier]
      /\ Path = {"lan", "vm"}
  BY DEF RInv, RelayTypeOK, Path
<1>1. CASE NicLocks(who)
  <2>1. /\ path[who].pc = "lock" /\ lock = Nothing /\ lock' = who
        /\ path' = [path EXCEPT ![who] = [path[who] EXCEPT !.pc = "write"]]
        /\ UNCHANGED <<stream, r, acks, actual, raw, conn, errorsCh, runVars>>
    BY <1>1 DEF NicLocks, At, PathGoes, counts
  <2>2. /\ path'[who].pc = "write" /\ path'[who].packet = path[who].packet
        /\ \A w \in Path \ {who} : path'[w] = path[w]
    BY <1>0, <2>1 DEF Carrier
  <2>3. RelayTypeOK'
    BY <1>0, <2>1, SMTT(30) DEF RInv, RelayTypeOK, Carrier, Place, runVars
  <2>4. Begun' /\ ReadyFileScoped'
    BY <1>0, <2>1, <2>2 DEF RInv, Begun, ReadyFileScoped, At, runVars
  <2>5. Carried' /\ Settled'
    BY <1>0, <2>1, <2>2 DEF RInv, Carried, Settled, At
  <2>6. Unmixed' /\ StreamWhole'
    BY <1>0, <2>1, <2>2, RelayAssumption DEF RInv, Unmixed, StreamWhole, At
  <2>7. Earned' /\ CompleteIsEarned'
    BY <2>1 DEF RInv, Earned, Evidence, CompleteIsEarned, runVars
  <2>8. CountersHonest'
    BY <1>0, <2>1, <2>2 DEF RInv, CountersHonest, At
  <2> QED BY <2>3, <2>4, <2>5, <2>6, <2>7, <2>8 DEF RInv
<1>2. CASE NicWrites(who)
  <2> DEFINE last == [actual EXCEPT !.frames = @ + 1,
                                    !.acks = @ \cup Acknowledged(path[who].packet.homa)]
  <2>1. PICK n \in Portions(who) :
          LET done == n = path[who].left
          IN /\ stream' = [open |-> IF done THEN Nothing ELSE who,
                           torn |-> stream.torn \/ stream.open \notin {Nothing, who}]
             /\ lock' = IF done THEN Nothing ELSE lock
             /\ path' = [path EXCEPT ![who] =
                   IF ~done THEN [path[who] EXCEPT !.left = @ - n]
                   ELSE IF who = "lan" THEN [path[who] EXCEPT !.pc = "count", !.left = 0]
                   ELSE Idle]
             /\ actual' = IF ~done \/ who = "vm" THEN actual ELSE last
    BY <1>2 DEF NicWrites, PathGoes
  <2>2. /\ path[who].pc = "write" /\ lock = who
        /\ UNCHANGED <<r, acks, raw, conn, errorsCh, runVars>>
    BY <1>2 DEF NicWrites, At, RInv, Unmixed
  <2>3. /\ \A w \in Path \ {who} : path'[w] = path[w]
        /\ path'[who].pc = IF n # path[who].left THEN "write"
                           ELSE IF who = "lan" THEN "count" ELSE "read"
        /\ who = "lan" => path'[who].packet = path[who].packet
        /\ who = "vm" => path'[who].packet \in {path[who].packet, Nothing}
        /\ n # path[who].left => path'[who].packet = path[who].packet
    BY <1>0, <2>1, <2>2 DEF Idle, Carrier
  <2>4. who = "lan" => /\ last \in [frames : Nat, acks : SUBSET AckIds, datagrams : Nat, read : Nat]
                       /\ last.frames = actual.frames + 1 /\ last.datagrams = actual.datagrams
                       /\ last.acks = actual.acks \cup Acknowledged(path[who].packet.homa)
    <3>1. actual \in [frames : Nat, acks : SUBSET AckIds, datagrams : Nat, read : Nat]
      BY DEF RInv, RelayTypeOK
    <3>2. who = "lan" => Acknowledged(path[who].packet.homa) \subseteq AckIds
      BY <2>2 DEF RInv, Carried, AckIds
    <3> DEFINE more == actual.acks \cup Acknowledged(path[who].packet.homa)
    <3>3. who = "lan" => more \in SUBSET AckIds
      BY <3>1, <3>2
    <3>4. actual.frames + 1 \in Nat
      BY <3>1, SMTT(30)
    <3> HIDE DEF more
    <3>5. last = [actual EXCEPT !.frames = @ + 1, !.acks = more]
      BY <3>1 DEF more
    <3> HIDE DEF last
    <3> QED BY <3>1, <3>3, <3>4, <3>5 DEF more
  <2> HIDE DEF last
  <2>5. RelayTypeOK'
    <3>1. path' \in [Path -> Carrier]
      <4>1. path[who] \in Carrier /\ path[who].left \in 0 .. FrameParts
        BY <1>0 DEF Carrier
      <4>2. path[who].left - n \in 0 .. FrameParts
        BY <2>1, <4>1, RelayAssumption, SMTT(30) DEF Portions
      <4>3. [path[who] EXCEPT !.left = @ - n] \in Carrier
        BY <4>1, <4>2 DEF Carrier
      <4>4. [path[who] EXCEPT !.pc = "count", !.left = 0] \in Carrier
        BY <4>1, Ranges DEF Carrier, Place
      <4> QED BY <1>0, <2>1, <4>3, <4>4, IdleCarrier
    <3>2. lock' \in Path \cup {Nothing} /\ stream' \in [open : Path \cup {Nothing}, torn : BOOLEAN]
      BY <2>1 DEF RInv, RelayTypeOK
    <3>3. actual' \in [frames : Nat, acks : SUBSET AckIds, datagrams : Nat, read : Nat]
      BY <1>0, <2>1, <2>4 DEF RInv, RelayTypeOK
    <3> QED BY <2>2, <3>1, <3>2, <3>3 DEF RInv, RelayTypeOK, runVars
  <2>6. Begun' /\ ReadyFileScoped'
    BY <1>0, <2>2, <2>3 DEF RInv, Begun, ReadyFileScoped, At, runVars
  <2>7. Carried'
    BY <1>0, <2>1, <2>2, <2>3, <2>4, SMTT(30) DEF RInv, Carried, At
  <2>8. Settled'
    BY <1>0, <2>2, <2>3 DEF RInv, Settled
  <2>9. Unmixed'
    BY <1>0, <2>1, <2>2, <2>3, RelayAssumption, SMTT(30) DEF RInv, Unmixed, At
  <2>10. StreamWhole'
    <3>1. ASSUME NEW w \in Path \ {who}, stream.open = w
          PROVE  path'[w].pc = "returned"
      BY <1>0, <2>2, <2>3, <3>1 DEF RInv, Unmixed, At
    <3>2. ASSUME stream.torn
          PROVE  \E w \in Path : path'[w].pc = "returned"
      BY <2>2, <2>3, <3>2 DEF RInv, StreamWhole, At
    <3>3. stream.open \in Path \cup {Nothing}
      BY DEF RInv, RelayTypeOK
    <3> QED BY <2>1, <3>1, <3>2, <3>3 DEF StreamWhole, At
  <2>11. Earned' /\ CompleteIsEarned'
    BY <1>0, <2>1, <2>2, <2>4 DEF RInv, Earned, Evidence, CompleteIsEarned, runVars
  <2>12. CountersHonest'
    <3>1. actual.frames \in Nat /\ r.LANToVM \in Nat
      BY DEF RInv, RelayTypeOK, Counters
    <3>2. \/ path'["vm"] = path["vm"]
          \/ path["vm"].pc = "write" /\ path'["vm"].pc \in {"write", "read"}
      <4>1. CASE who = "lan"
        <5>1. "vm" \in Path \ {who}
          BY <1>0, <4>1
        <5>2. \A w \in Path \ {who} : path'[w] = path[w]
          BY <2>3
        <5>3. path'["vm"] = path["vm"]
          BY <5>1, <5>2
        <5> QED BY <5>3
      <4>2. CASE who = "vm"
        BY <2>2, <2>3, <4>2
      <4> QED BY <1>0, <4>1, <4>2
    <3>3. /\ actual'.datagrams = actual.datagrams
          /\ IF path'["lan"].pc = "count" /\ path["lan"].pc # "count"
               THEN actual'.frames = actual.frames + 1
               ELSE /\ actual'.frames = actual.frames
                    /\ path'["lan"].pc = "count" <=> path["lan"].pc = "count"
      BY <1>0, <2>1, <2>2, <2>3, <2>4
    <3>4. actual'.frames - r.LANToVM = IF path'["lan"].pc = "count" THEN 1 ELSE 0
      <4>1. actual.frames - r.LANToVM = IF path["lan"].pc = "count" THEN 1 ELSE 0
        BY DEF RInv, CountersHonest, At
      <4> QED BY <3>1, <3>3, <4>1, SMTT(30)
    <3> QED BY <2>2, <3>2, <3>3, <3>4 DEF RInv, CountersHonest, At
  <2> QED BY <2>5, <2>6, <2>7, <2>8, <2>9, <2>10, <2>11, <2>12 DEF RInv
<1>3. CASE NicWriteFails(who) \/ PathFails(who)
  <2>1. /\ path[who].pc \in {"read", "note", "send", "write"}
        /\ lock' = IF path[who].pc = "write" THEN Nothing ELSE lock
        /\ path' = [path EXCEPT ![who] = [Idle EXCEPT !.pc = "returned"]]
        /\ errorsCh' = errorsCh \cup {who}
        /\ UNCHANGED <<stream, r, acks, actual, raw, conn, runVars>>
    BY <1>3 DEF NicWriteFails, PathFails, PathReturns, At, PathGoes, counts
  <2>2. /\ path'[who].pc = "returned"
        /\ \A w \in Path \ {who} : path'[w] = path[w]
    BY <1>0, <2>1 DEF Idle
  <2>3. RelayTypeOK'
    <3>1. [Idle EXCEPT !.pc = "returned"] \in Carrier
      BY Ranges DEF Carrier, Idle, Place
    <3> QED BY <1>0, <2>1, <3>1 DEF RInv, RelayTypeOK, runVars
  <2>4. Begun' /\ ReadyFileScoped'
    BY <1>0, <2>1, <2>2 DEF RInv, Begun, ReadyFileScoped, At, runVars
  <2>5. Carried' /\ Settled'
    BY <1>0, <2>1, <2>2 DEF RInv, Carried, Settled, At
  <2>6. Unmixed' /\ StreamWhole'
    BY <1>0, <2>1, <2>2, RelayAssumption, SMTT(30) DEF RInv, Unmixed, StreamWhole, At
  <2>7. Earned' /\ CompleteIsEarned'
    BY <2>1 DEF RInv, Earned, Evidence, CompleteIsEarned, runVars
  <2>8. CountersHonest'
    BY <1>0, <2>1, <2>2 DEF RInv, CountersHonest, Carried, At
  <2> QED BY <2>3, <2>4, <2>5, <2>6, <2>7, <2>8 DEF RInv
<1> QED BY <1>1, <1>2, <1>3 DEF Nic

\* lanToVM reads a datagram, or counts the one that crossed.
LEMMA LanStep ==
  ASSUME RInv, main.pc # "done", LanReads \/ LanCounts
  PROVE  RInv'
<1>0. /\ path \in [Path -> Carrier] /\ Path = {"lan", "vm"}
      /\ r \in Counters
      /\ FrameParts \in 0 .. FrameParts /\ 0 \in 0 .. FrameParts
  BY Ranges DEF RInv, RelayTypeOK, Path
<1>1. CASE LanReads
  <2>1. /\ path["lan"].pc = "read"
        /\ UNCHANGED <<lock, stream, acks, actual, raw, conn, errorsCh, runVars>>
        /\ \/ /\ r' = r
              /\ \E ip \in FromLAN :
                   path' = [path EXCEPT !["lan"] = [pc |-> "lock", packet |-> ip, left |-> FrameParts]]
           \/ path' = path /\ r' = [r EXCEPT !.DroppedLAN = @ + 1]
    BY <1>1 DEF LanReads, At, PathGoes
  <2>2. /\ path'["vm"] = path["vm"]
        /\ path'["lan"] = path["lan"] \/ /\ path'["lan"].pc = "lock"
                                          /\ path'["lan"].packet \in FromLAN
    BY <1>0, <2>1, SMTT(30)
  <2>3. /\ r' \in Counters
        /\ r'.LANToVM = r.LANToVM /\ r'.VMToLAN = r.VMToLAN /\ r'.SendDrops = r.SendDrops
        /\ r'.DroppedVM = r.DroppedVM
        /\ r'.LANTOS = r.LANTOS /\ r'.VMTOS = r.VMTOS /\ r'.EgressTOS = r.EgressTOS
    BY <1>0, <2>1, SMTT(30) DEF Counters
  <2>4. path' \in [Path -> Carrier]
    BY <1>0, <2>1, SMTT(30) DEF Carrier, Place
  <2>5. RelayTypeOK'
    BY <2>1, <2>3, <2>4 DEF RInv, RelayTypeOK, runVars
  <2>6. Begun' /\ ReadyFileScoped'
    BY <1>0, <2>1, <2>2 DEF RInv, Begun, ReadyFileScoped, At, runVars
  <2>7. Carried' /\ Settled'
    BY <1>0, <2>1, <2>2, <2>3 DEF RInv, Carried, Settled, At
  <2>8. Unmixed' /\ StreamWhole'
    BY <1>0, <2>1, <2>2, SMTT(30) DEF RInv, Unmixed, StreamWhole, At
  <2>9. Earned' /\ CompleteIsEarned'
    BY <2>1 DEF RInv, Earned, Evidence, CompleteIsEarned, runVars
  <2>10. CountersHonest'
    BY <1>0, <2>1, <2>2, <2>3 DEF RInv, CountersHonest, At
  <2> QED BY <2>5, <2>6, <2>7, <2>8, <2>9, <2>10 DEF RInv
<1>2. CASE LanCounts
  <2> DEFINE t == path["lan"].packet.tos
             new == [r.LANTOS EXCEPT ![t] = @ + 1]
  <2>1. /\ path["lan"].pc = "count"
        /\ r' = [r EXCEPT !.LANToVM = @ + 1, !.LANTOS[t] = @ + 1]
        /\ path' = [path EXCEPT !["lan"] = Idle]
        /\ UNCHANGED <<lock, stream, actual, raw, conn, errorsCh, runVars>>
    BY <1>2 DEF LanCounts, At, PathGoes
  <2>2. PICK s \in SUBSET Acknowledged(path["lan"].packet.homa) : acks' = acks \cup s
    BY <1>2 DEF LanCounts, noteAcks
  <2>3. /\ path["lan"].packet \in FromLAN /\ t \in TOS
        /\ Acknowledged(path["lan"].packet.homa) \subseteq actual.acks
    BY <2>1, RelayAssumption DEF RInv, Carried, At
  <2>4. IsFiniteSet(acks') /\ acks' \subseteq actual.acks /\ Cardinality(acks') >= Cardinality(acks)
        /\ Cardinality(acks) \in Nat /\ Cardinality(acks') \in Nat
    <3>1. IsFiniteSet(acks) /\ acks \subseteq actual.acks
      BY DEF RInv, RelayTypeOK, Earned
    <3>2. IsFiniteSet(s)
      BY <2>3, AckAssumption, FS_Subset
    <3>3. IsFiniteSet(acks')
      BY <2>2, <3>1, <3>2, FS_Union
    <3>4. Cardinality(acks') >= Cardinality(acks)
      BY <2>2, <3>1, <3>3, FS_Subset, FS_CardinalityType
    <3> QED BY <2>2, <2>3, <3>1, <3>3, <3>4, FS_CardinalityType
  <2>5. new \in [TOS -> Nat] /\ Total(new, TOS) = Total(r.LANTOS, TOS) + 1
    BY <1>0, <2>3, OneMore DEF Counters
  <2>6. r' = [r EXCEPT !.LANToVM = @ + 1, !.LANTOS = new]
    BY <1>0, <2>1 DEF Counters
  <2> HIDE DEF new, t
  <2>7. /\ r' \in Counters
        /\ r'.LANToVM = r.LANToVM + 1 /\ r'.VMToLAN = r.VMToLAN /\ r'.SendDrops = r.SendDrops
        /\ r'.DroppedVM = r.DroppedVM
        /\ r'.LANTOS = new /\ r'.VMTOS = r.VMTOS /\ r'.EgressTOS = r.EgressTOS
    <3>1. r.LANToVM + 1 \in Nat
      BY <1>0, SMTT(30) DEF Counters
    <3>2. r' = [LANToVM |-> r.LANToVM + 1, VMToLAN |-> r.VMToLAN, DroppedLAN |-> r.DroppedLAN,
                DroppedVM |-> r.DroppedVM, SendDrops |-> r.SendDrops, LANTOS |-> new,
                VMTOS |-> r.VMTOS, EgressTOS |-> r.EgressTOS]
      BY <1>0, <2>6 DEF Counters
    <3> QED BY <1>0, <2>5, <3>1, <3>2 DEF Counters
  <2>8. path'["vm"] = path["vm"] /\ path'["lan"].pc = "read" /\ path' \in [Path -> Carrier]
    BY <1>0, <2>1 DEF Idle, Carrier, Place
  <2>9. RelayTypeOK'
    BY <2>1, <2>4, <2>7, <2>8 DEF RInv, RelayTypeOK, runVars
  <2>10. Begun' /\ ReadyFileScoped'
    BY <1>0, <2>1, <2>8 DEF RInv, Begun, ReadyFileScoped, At, runVars
  <2>11. Carried' /\ Settled'
    BY <1>0, <2>1, <2>7, <2>8 DEF RInv, Carried, Settled, At
  <2>12. Unmixed' /\ StreamWhole'
    BY <1>0, <2>1, <2>8 DEF RInv, Unmixed, StreamWhole, At
  <2>13. Earned' /\ CompleteIsEarned'
    <3>1. Cardinality(acks) >= Required => Cardinality(acks') >= Required
      BY <2>4, RelayAssumption, SMTT(30)
    <3>2. Evidence => Evidence'
      BY <2>1, <3>1 DEF Evidence, runVars
    <3> QED BY <2>1, <2>4, <3>2 DEF RInv, Earned, CompleteIsEarned, runVars
  <2>14. CountersHonest'
    <3>1. /\ actual.frames \in Nat /\ r.LANToVM \in Nat /\ actual.frames - r.LANToVM = 1
          /\ Total(r.LANTOS, TOS) = r.LANToVM
      BY <2>1 DEF RInv, RelayTypeOK, Counters, CountersHonest, At
    <3>2. actual.frames - (r.LANToVM + 1) = 0
      BY <3>1, Settling
    <3>3. actual'.frames - r'.LANToVM = 0 /\ Total(r'.LANTOS, TOS) = r'.LANToVM
      BY <2>1, <2>5, <2>7, <3>1, <3>2
    <3> QED BY <2>1, <2>7, <2>8, <3>3 DEF RInv, CountersHonest, At
  <2> QED BY <2>9, <2>10, <2>11, <2>12, <2>13, <2>14 DEF RInv
<1> QED BY <1>1, <1>2

\* A step of vmToLAN outside nic.write changes its own place and its own counters.
LEMMA VmMoves ==
  ASSUME RInv, main.pc # "done", NEW g \in Carrier,
         path' = [path EXCEPT !["vm"] = g],
         path["vm"].pc \in {"read", "note", "send", "count"},
         g.pc \in {"read", "lock", "note", "send", "count"},
         g.pc # "read" => g.packet \in FromVM,
         UNCHANGED <<lock, stream, acks, raw, conn, errorsCh, runVars>>,
         r' \in Counters, r'.LANToVM = r.LANToVM, r'.LANTOS = r.LANTOS,
         actual' \in [frames : Nat, acks : SUBSET AckIds, datagrams : Nat, read : Nat],
         actual'.frames = actual.frames, actual'.acks = actual.acks,
         actual'.datagrams - r'.VMToLAN = IF g.pc = "count" THEN 1 ELSE 0,
         r'.VMTOS = r'.EgressTOS, r'.SendDrops <= r'.DroppedVM,
         Total(r'.EgressTOS, TOS) - r'.VMToLAN - r'.SendDrops =
           IF g.pc \in {"send", "count"} THEN 1 ELSE 0
  PROVE  RInv'
<1>0. path \in [Path -> Carrier] /\ Path = {"lan", "vm"}
  BY DEF RInv, RelayTypeOK, Path
<1>1. path' \in [Path -> Carrier] /\ path'["vm"] = g /\ path'["lan"] = path["lan"]
  BY <1>0
<1>2. RelayTypeOK'
  BY <1>1 DEF RInv, RelayTypeOK, runVars
<1>3. Begun' /\ ReadyFileScoped'
  BY <1>0, <1>1 DEF RInv, Begun, ReadyFileScoped, At, runVars
<1>4. Carried'
  BY <1>1 DEF RInv, Carried, At
<1>5. Settled'
  BY <1>1 DEF Settled
<1>6. Unmixed' /\ StreamWhole'
  BY <1>0, <1>1 DEF RInv, Unmixed, StreamWhole, At
<1>7. Earned' /\ CompleteIsEarned'
  BY DEF RInv, Earned, Evidence, CompleteIsEarned, runVars
<1>8. CountersHonest'
  <2>1. /\ actual'.frames - r'.LANToVM = IF path'["lan"].pc = "count" THEN 1 ELSE 0
        /\ Total(r'.LANTOS, TOS) = r'.LANToVM
    BY <1>1 DEF RInv, CountersHonest, At
  <2> QED BY <1>1, <2>1, Ordered DEF CountersHonest, At
<1> QED BY <1>2, <1>3, <1>4, <1>5, <1>6, <1>7, <1>8 DEF RInv

\* vmToLAN reads a frame, asks for its class, sends or loses it, and counts it.
LEMMA VmStep ==
  ASSUME RInv, main.pc # "done", VmReads \/ VmNotes \/ VmSends \/ VmSendDrops \/ VmCounts
  PROVE  RInv'
<1> DEFINE unsettled == Total(r.EgressTOS, TOS) - r.VMToLAN - r.SendDrops
           here == path["vm"]
           t == here.packet.tos
<1>0. /\ path \in [Path -> Carrier] /\ Path = {"lan", "vm"} /\ here \in Carrier
      /\ r \in Counters
      /\ actual \in [frames : Nat, acks : SUBSET AckIds, datagrams : Nat, read : Nat]
      /\ FrameParts \in 0 .. FrameParts /\ 0 \in 0 .. FrameParts
      /\ Idle \in Carrier /\ Idle.pc = "read"
  <2>1. path \in [Path -> Carrier] /\ r \in Counters
        /\ actual \in [frames : Nat, acks : SUBSET AckIds, datagrams : Nat, read : Nat]
    BY DEF RInv, RelayTypeOK
  <2> QED BY <2>1, Ranges, IdleCarrier
<1>1. /\ Total(r.EgressTOS, TOS) \in Nat
      /\ actual.datagrams - r.VMToLAN = IF here.pc = "count" THEN 1 ELSE 0
      /\ r.VMTOS = r.EgressTOS /\ r.SendDrops <= r.DroppedVM
      /\ here.pc \in {"send", "count"} => unsettled = 1
      /\ here.pc \in {"read", "note"} => unsettled = 0
  <2>1. Total(r.EgressTOS, TOS) \in Nat
    BY <1>0, CountType DEF Counters
  <2> QED BY <2>1 DEF RInv, CountersHonest, Settled, At
<1>2. here.pc \in {"note", "send", "count"} => here.packet \in FromVM /\ t \in TOS
  BY RelayAssumption DEF RInv, Carried
<1>3. CASE VmReads
  <2>1. /\ here.pc = "read"
        /\ actual' = [actual EXCEPT !.read = @ + 1]
        /\ UNCHANGED <<lock, stream, acks, raw, conn, errorsCh, runVars>>
        /\ \/ /\ r' = r
              /\ \E f \in FromVM :
                   \/ path' = [path EXCEPT !["vm"] = [pc |-> "lock", packet |-> f, left |-> FrameParts]]
                   \/ path' = [path EXCEPT !["vm"] = [pc |-> "note", packet |-> f, left |-> 0]]
           \/ path' = path /\ r' \in {r, [r EXCEPT !.DroppedVM = @ + 1]}
    BY <1>3 DEF VmReads, At, PathGoes
  <2>2. PICK g \in Carrier : /\ path' = [path EXCEPT !["vm"] = g]
                             /\ g.pc \in {"read", "lock", "note"}
                             /\ g.pc # "read" => g.packet \in FromVM
    <3>1. CASE path' = path
      <4>1. path' = [path EXCEPT !["vm"] = here]
        BY <1>0, <3>1
      <4> QED BY <1>0, <2>1, <4>1
    <3>2. ASSUME NEW f \in FromVM, NEW pc \in {"lock", "note"}, NEW n \in 0 .. FrameParts,
                 path' = [path EXCEPT !["vm"] = [pc |-> pc, packet |-> f, left |-> n]]
          PROVE  \E g \in Carrier : /\ path' = [path EXCEPT !["vm"] = g]
                                    /\ g.pc \in {"read", "lock", "note"}
                                    /\ g.pc # "read" => g.packet \in FromVM
      <4>1. [pc |-> pc, packet |-> f, left |-> n] \in Carrier
        BY DEF Carrier, Place
      <4> QED BY <3>2, <4>1
    <3> QED BY <1>0, <2>1, <3>1, <3>2
  <2>3. /\ r' \in Counters /\ r'.LANToVM = r.LANToVM /\ r'.VMToLAN = r.VMToLAN
        /\ r'.LANTOS = r.LANTOS /\ r'.VMTOS = r.VMTOS /\ r'.EgressTOS = r.EgressTOS
        /\ r'.SendDrops = r.SendDrops /\ r'.DroppedVM \in {r.DroppedVM, r.DroppedVM + 1}
    <3>1. r.DroppedVM \in Nat /\ r.DroppedVM + 1 \in Nat
      BY <1>0, Ordered DEF Counters
    <3>2. CASE r' = r
      BY <1>0, <3>2
    <3>3. CASE r' = [r EXCEPT !.DroppedVM = @ + 1]
      BY <1>0, <3>1, <3>3 DEF Counters
    <3> QED BY <2>1, <3>2, <3>3
  <2>4. /\ actual' \in [frames : Nat, acks : SUBSET AckIds, datagrams : Nat, read : Nat]
        /\ actual'.frames = actual.frames /\ actual'.acks = actual.acks
        /\ actual'.datagrams = actual.datagrams
    <3>1. actual.read + 1 \in Nat
      BY <1>0, Ordered
    <3> QED BY <1>0, <2>1, <3>1
  <2>5. r'.SendDrops <= r'.DroppedVM
    <3>1. r.SendDrops \in Nat /\ r.DroppedVM \in Nat
      BY <1>0 DEF Counters
    <3> QED BY <1>1, <2>3, <3>1, Ordered
  <2> QED BY <1>1, <2>1, <2>2, <2>3, <2>4, <2>5, VmMoves
<1>4. CASE VmNotes
  <2> DEFINE new == [r.EgressTOS EXCEPT ![t] = @ + 1]
             g == [here EXCEPT !.pc = "send"]
  <2>1. /\ here.pc = "note"
        /\ r' = [r EXCEPT !.VMTOS[t] = @ + 1, !.EgressTOS[t] = @ + 1]
        /\ path' = [path EXCEPT !["vm"] = g]
        /\ UNCHANGED <<lock, stream, acks, actual, raw, conn, errorsCh, runVars>>
    BY <1>4 DEF VmNotes, At, PathGoes
  <2>2. g \in Carrier /\ g.pc = "send" /\ g.packet \in FromVM
    BY <1>0, <1>2, <2>1 DEF Carrier, Place
  <2>3. new \in [TOS -> Nat] /\ Total(new, TOS) = Total(r.EgressTOS, TOS) + 1
    BY <1>0, <1>2, <2>1, OneMore DEF Counters
  <2>4. r' = [r EXCEPT !.VMTOS = new, !.EgressTOS = new]
    BY <1>0, <1>1, <2>1 DEF Counters
  <2> HIDE DEF new, g
  <2>5. /\ r' \in Counters /\ r'.LANToVM = r.LANToVM /\ r'.VMToLAN = r.VMToLAN
        /\ r'.LANTOS = r.LANTOS /\ r'.VMTOS = new /\ r'.EgressTOS = new
        /\ r'.SendDrops = r.SendDrops /\ r'.DroppedVM = r.DroppedVM
    <3>1. r' = [LANToVM |-> r.LANToVM, VMToLAN |-> r.VMToLAN, DroppedLAN |-> r.DroppedLAN,
                DroppedVM |-> r.DroppedVM, SendDrops |-> r.SendDrops, LANTOS |-> r.LANTOS,
                VMTOS |-> new, EgressTOS |-> new]
      BY <1>0, <2>4 DEF Counters
    <3> QED BY <1>0, <2>3, <3>1 DEF Counters
  <2>6. Total(r'.EgressTOS, TOS) - r'.VMToLAN - r'.SendDrops = 1
    <3>1. r.VMToLAN \in Nat /\ r.SendDrops \in Nat
      BY <1>0 DEF Counters
    <3>2. Total(r'.EgressTOS, TOS) = Total(r.EgressTOS, TOS) + 1
      BY <2>3, <2>5
    <3>3. unsettled = 0 /\ Total(r.EgressTOS, TOS) \in Nat
      BY <1>1, <2>1
    <3>4. (Total(r.EgressTOS, TOS) + 1) - r.VMToLAN - r.SendDrops = 1
      BY <3>1, <3>3, Settling
    <3> QED BY <2>5, <3>2, <3>4
  <2> QED BY <1>0, <1>1, <2>1, <2>2, <2>5, <2>6, VmMoves
<1>5. CASE VmSends
  <2> DEFINE g == [here EXCEPT !.pc = "count"]
  <2>1. /\ here.pc = "send"
        /\ actual' = [actual EXCEPT !.datagrams = @ + 1]
        /\ path' = [path EXCEPT !["vm"] = g]
        /\ UNCHANGED <<lock, stream, r, acks, raw, conn, errorsCh, runVars>>
    BY <1>5 DEF VmSends, At, PathGoes
  <2>2. g \in Carrier /\ g.pc = "count" /\ g.packet \in FromVM
    BY <1>0, <1>2, <2>1 DEF Carrier, Place
  <2>3. /\ actual' \in [frames : Nat, acks : SUBSET AckIds, datagrams : Nat, read : Nat]
        /\ actual'.frames = actual.frames /\ actual'.acks = actual.acks
        /\ actual'.datagrams - r.VMToLAN = 1
    <3>1. /\ actual.datagrams \in Nat /\ actual.datagrams + 1 \in Nat /\ r.VMToLAN \in Nat
          /\ actual.datagrams - r.VMToLAN = 0
      BY <1>0, <1>1, <2>1, Ordered DEF Counters
    <3>2. /\ actual' \in [frames : Nat, acks : SUBSET AckIds, datagrams : Nat, read : Nat]
          /\ actual'.frames = actual.frames /\ actual'.acks = actual.acks
          /\ actual'.datagrams = actual.datagrams + 1
      BY <1>0, <2>1, <3>1
    <3>3. (actual.datagrams + 1) - r.VMToLAN = 1
      BY <3>1, Settling
    <3> QED BY <3>2, <3>3
  <2> HIDE DEF g
  <2> QED BY <1>0, <1>1, <2>1, <2>2, <2>3, VmMoves
<1>6. CASE VmSendDrops \/ VmCounts
  <2>1. /\ \/ /\ here.pc = "send"
              /\ r' = [r EXCEPT !.DroppedVM = @ + 1, !.SendDrops = @ + 1]
           \/ here.pc = "count" /\ r' = [r EXCEPT !.VMToLAN = @ + 1]
        /\ path' = [path EXCEPT !["vm"] = Idle]
        /\ UNCHANGED <<lock, stream, acks, actual, raw, conn, errorsCh, runVars>>
    BY <1>6 DEF VmSendDrops, VmCounts, At, PathGoes
  <2>2. /\ r' \in Counters /\ r'.LANToVM = r.LANToVM /\ r'.LANTOS = r.LANTOS
        /\ r'.VMTOS = r.VMTOS /\ r'.EgressTOS = r.EgressTOS
        /\ IF here.pc = "send"
             THEN /\ r'.VMToLAN = r.VMToLAN /\ r'.SendDrops = r.SendDrops + 1
                  /\ r'.DroppedVM = r.DroppedVM + 1
             ELSE /\ r'.VMToLAN = r.VMToLAN + 1 /\ r'.SendDrops = r.SendDrops
                  /\ r'.DroppedVM = r.DroppedVM
    <3>1. CASE here.pc = "send"
      <4>1. r' = [LANToVM |-> r.LANToVM, VMToLAN |-> r.VMToLAN, DroppedLAN |-> r.DroppedLAN,
                  DroppedVM |-> r.DroppedVM + 1, SendDrops |-> r.SendDrops + 1, LANTOS |-> r.LANTOS,
                  VMTOS |-> r.VMTOS, EgressTOS |-> r.EgressTOS]
        BY <1>0, <2>1, <3>1 DEF Counters
      <4>2. r.DroppedVM + 1 \in Nat /\ r.SendDrops + 1 \in Nat
        BY <1>0, Ordered DEF Counters
      <4> QED BY <1>0, <3>1, <4>1, <4>2 DEF Counters
    <3>2. CASE here.pc = "count"
      <4>1. r' = [LANToVM |-> r.LANToVM, VMToLAN |-> r.VMToLAN + 1, DroppedLAN |-> r.DroppedLAN,
                  DroppedVM |-> r.DroppedVM, SendDrops |-> r.SendDrops, LANTOS |-> r.LANTOS,
                  VMTOS |-> r.VMTOS, EgressTOS |-> r.EgressTOS]
        BY <1>0, <2>1, <3>2 DEF Counters
      <4>2. r.VMToLAN + 1 \in Nat
        BY <1>0, Ordered DEF Counters
      <4> QED BY <1>0, <3>2, <4>1, <4>2 DEF Counters
    <3> QED BY <2>1, <3>1, <3>2
  <2>3. /\ actual.datagrams - r'.VMToLAN = 0 /\ r'.SendDrops <= r'.DroppedVM
        /\ Total(r.EgressTOS, TOS) - r'.VMToLAN - r'.SendDrops = 0
    <3>1. /\ {r.VMToLAN, r.SendDrops, r.DroppedVM, actual.datagrams} \subseteq Nat
          /\ here.pc \in {"send", "count"}
      BY <1>0, <2>1 DEF Counters
    <3>2. unsettled = 1 /\ Total(r.EgressTOS, TOS) \in Nat /\ r.SendDrops <= r.DroppedVM
      BY <1>1, <3>1
    <3>3. /\ Total(r.EgressTOS, TOS) - (r.VMToLAN + 1) - r.SendDrops = 0
          /\ Total(r.EgressTOS, TOS) - r.VMToLAN - (r.SendDrops + 1) = 0
      BY <3>1, <3>2, Settling
    <3>4. CASE here.pc = "send"
      <4>1. actual.datagrams - r.VMToLAN = 0 /\ r.SendDrops + 1 <= r.DroppedVM + 1
        BY <1>1, <3>1, <3>2, <3>4, Ordered
      <4> QED BY <2>2, <3>3, <3>4, <4>1
    <3>5. CASE here.pc = "count"
      <4>1. actual.datagrams - (r.VMToLAN + 1) = 0
        BY <1>1, <3>1, <3>5, Settling
      <4> QED BY <2>2, <3>2, <3>3, <3>5, <4>1
    <3> QED BY <3>1, <3>4, <3>5
  <2> QED BY <1>0, <1>1, <2>1, <2>2, <2>3, VmMoves
<1> QED BY <1>3, <1>4, <1>5, <1>6

\* A step that moves neither goroutine: the report it may write repeats the evidence.
LEMMA PathsRest ==
  ASSUME RInv, UNCHANGED pathVars,
         errorsCh' \subseteq Path, {raw', conn', ready', file'} \subseteq BOOLEAN,
         log' \in [lines : SUBSET {"READY", "PASS", "FAIL"}, served : 0 .. Required],
         log.lines \subseteq log'.lines, log.served <= log'.served,
         main'.result = "ok" => main.result = "ok" \/ Evidence,
         out' = out \/ out' = [complete |-> main.result = "ok", acks |-> acks, log |-> log]
  PROVE  /\ RelayTypeOK' /\ Carried' /\ Unmixed' /\ Earned' /\ Settled'
         /\ CompleteIsEarned' /\ CountersHonest' /\ StreamWhole'
<1>1. RelayTypeOK'
  BY DEF RInv, RelayTypeOK, pathVars, counts
<1>2. Carried' /\ Settled' /\ CountersHonest'
  BY DEF RInv, Carried, Settled, CountersHonest, At, pathVars, counts
<1>3. Unmixed' /\ StreamWhole'
  BY DEF RInv, Unmixed, StreamWhole, At, pathVars, counts
<1>4. Earned'
  <2>1. log.served \in 0 .. Required /\ log'.served \in 0 .. Required
    BY DEF RInv, RelayTypeOK
  <2>2. log.served >= Required => log'.served >= Required
    BY <2>1, Ranges, Ordered
  <2>3. Evidence => Evidence'
    BY <2>2 DEF Evidence, pathVars, counts
  <2> QED BY <2>3 DEF RInv, Earned, pathVars, counts
<1>5. CompleteIsEarned'
  <2>1. CASE out' = out
    BY <2>1 DEF RInv, CompleteIsEarned, pathVars, counts
  <2>2. CASE out' = [complete |-> main.result = "ok", acks |-> acks, log |-> log]
    BY <2>2 DEF RInv, Earned, Evidence, CompleteIsEarned, pathVars, counts
  <2> QED BY <2>1, <2>2
<1> QED BY <1>1, <1>2, <1>3, <1>4, <1>5

\* The goroutines start, both at their first read.
LEMMA AcceptVMStep ==
  ASSUME RInv, AcceptVM
  PROVE  RInv'
<1>0. Path = {"lan", "vm"} /\ Idle \in Carrier /\ Idle.pc = "read"
  BY IdleCarrier
<1>1. /\ main.pc = "accept" /\ main' = [pc |-> "loop", result |-> Nothing] /\ conn' = TRUE
      /\ path' = [who \in Path |-> Idle]
      /\ UNCHANGED <<lock, stream, r, acks, actual, raw, errorsCh, runCtx, guest, log, ready, file, out>>
  BY DEF AcceptVM, MainGoes, counts
<1>2. \A who \in Path : path[who].pc = "none" /\ path'[who].pc = "read"
  BY <1>0, <1>1 DEF RInv, Begun, At
<1>3. RelayTypeOK'
  BY <1>0, <1>1 DEF RInv, RelayTypeOK
<1>4. Begun' /\ ReadyFileScoped'
  BY <1>1 DEF RInv, Begun, ReadyFileScoped
<1>5. Carried' /\ Settled'
  BY <1>0, <1>1, <1>2 DEF RInv, Carried, Settled, At
<1>6. Unmixed' /\ StreamWhole'
  BY <1>0, <1>1, <1>2 DEF RInv, Unmixed, StreamWhole, At
<1>7. Earned' /\ CompleteIsEarned'
  <2>1. main'.result # "ok"
    BY <1>1, RelayAssumption
  <2> QED BY <1>1, <2>1 DEF RInv, Earned, CompleteIsEarned
<1>8. CountersHonest'
  BY <1>0, <1>1, <1>2 DEF RInv, CountersHonest, Settled, At
<1> QED BY <1>3, <1>4, <1>5, <1>6, <1>7, <1>8 DEF RInv

\* The other steps of run, and those of the context and the guest.
LEMMA RunStep ==
  ASSUME RInv, main.pc # "done",
         \/ Run
         \/ RunEnds \/ StopsRaw \/ StopsConn \/ GuestPrints \/ GuestExits
  PROVE  RInv'
<1> DEFINE LogType == [lines : SUBSET {"READY", "PASS", "FAIL"}, served : 0 .. Required]
<1>0. /\ log \in LogType /\ errorsCh \subseteq Path /\ {raw, conn, ready, file} \subseteq BOOLEAN
      /\ log.served <= log.served
  BY Ranges DEF RInv, RelayTypeOK
<1>1. CASE Start \/ StartFails \/ AcceptVMFails
  <2>1. /\ UNCHANGED <<pathVars, errorsCh, conn, ready, log, out>>
        /\ raw' \in BOOLEAN /\ file' \in BOOLEAN /\ main'.result # "ok"
        /\ \/ main.pc = "start" /\ main'.pc = "accept" /\ guest' = "running" /\ ~file'
           \/ main.pc = "start" /\ main'.pc = "done" /\ guest' = guest
           \/ main.pc = "accept" /\ main'.pc = "reap" /\ guest' = guest /\ file' = file
    <3>1. CASE Start
      BY <1>0, <3>1, RelayAssumption DEF Start, MainGoes
    <3>2. CASE StartFails
      BY <1>0, <3>2 DEF StartFails, MainGoes
    <3>3. CASE AcceptVMFails
      BY <1>0, <3>3 DEF AcceptVMFails, MainGoes
    <3> QED BY <1>1, <3>1, <3>2, <3>3
  <2>2. main.pc = "start" => guest = "none"
    BY DEF RInv, Begun
  <2>3. Begun' /\ ReadyFileScoped'
    BY <2>1, <2>2 DEF RInv, Begun, ReadyFileScoped, At, pathVars
  <2> QED BY <1>0, <2>1, <2>3, PathsRest DEF RInv
<1>2. CASE ContextDone \/ PathError \/ GuestGone \/ CloseConn \/ Reap \/ Wait
  <2>1. /\ UNCHANGED <<pathVars, raw, ready, file, log, out>>
        /\ errorsCh' \subseteq Path /\ conn' \in BOOLEAN
        /\ main'.result = "ok" => main.result = "ok"
        /\ main.pc \in {"loop", "closeConn", "reap", "wait"}
        /\ main'.pc \in {"closeConn", "reap", "wait", "report"}
        /\ guest' = guest \/ guest' = "waited"
    <3>1. CASE ContextDone
      BY <1>0, <3>1 DEF ContextDone, MainGoes
    <3>2. CASE GuestGone
      BY <1>0, <3>2 DEF GuestGone, MainGoes
    <3>3. CASE PathError
      BY <1>0, <3>3 DEF PathError, MainGoes
    <3>4. CASE CloseConn
      BY <1>0, <3>4 DEF CloseConn, MainGoes
    <3>5. CASE Reap
      BY <1>0, <3>5 DEF Reap, MainGoes
    <3>6. CASE Wait
      BY <1>0, <3>6 DEF Wait, MainGoes
    <3> QED BY <1>2, <3>1, <3>2, <3>3, <3>4, <3>5, <3>6
  <2>2. Begun' /\ ReadyFileScoped'
    BY <2>1 DEF RInv, Begun, ReadyFileScoped
  <2> QED BY <1>0, <2>1, <2>2, PathsRest DEF RInv
<1>3. CASE Tick
  <2>1. /\ UNCHANGED <<pathVars, raw, conn, errorsCh, guest, log, out>>
        /\ main.pc = "loop" /\ main'.pc \in {"loop", "closeConn"}
        /\ main'.result = "ok" => main.result = "ok" \/ Evidence
        /\ ready' \in BOOLEAN /\ file' \in BOOLEAN
        /\ file' => file \/ "READY" \in log.lines
    <3>1. /\ \/ main' = [pc |-> "closeConn", result |-> "error"]
             \/ main' = [pc |-> "closeConn", result |-> "ok"] /\ Evidence
             \/ main' = main
          /\ main.pc = "loop"
      BY <1>3, SMTT(30) DEF Tick, MainGoes
    <3>2. /\ main'.pc \in {"loop", "closeConn"}
          /\ main'.result = "ok" => main.result = "ok" \/ Evidence
      BY <3>1, SMTT(30)
    <3> QED BY <1>0, <1>3, <3>1, <3>2 DEF Tick
  <2>2. Begun' /\ ReadyFileScoped'
    BY <2>1 DEF RInv, Begun, ReadyFileScoped
  <2> QED BY <1>0, <2>1, <2>2, PathsRest DEF RInv
<1>4. CASE Report
  <2>1. /\ UNCHANGED <<pathVars, conn, errorsCh, guest, log, ready>>
        /\ file' = FALSE /\ raw' = FALSE
        /\ out' = [complete |-> main.result = "ok", acks |-> acks, log |-> log]
        /\ main'.pc = "done" /\ main'.result = main.result
    BY <1>4 DEF Report, MainGoes
  <2>2. Begun' /\ ReadyFileScoped'
    BY <2>1 DEF RInv, Begun, ReadyFileScoped
  <2> QED BY <1>0, <2>1, <2>2, PathsRest DEF RInv
<1>5. CASE RunEnds \/ StopsRaw \/ StopsConn \/ GuestExits
  <2>1. /\ UNCHANGED <<pathVars, errorsCh, log, main, ready, file, out>>
        /\ raw' \in BOOLEAN /\ conn' \in BOOLEAN
        /\ guest' = guest \/ (guest = "running" /\ guest' = "exited")
    <3>1. CASE RunEnds \/ GuestExits
      BY <1>0, <3>1 DEF RunEnds, GuestExits
    <3>2. CASE StopsRaw \/ StopsConn
      BY <1>0, <3>2 DEF StopsRaw, StopsConn
    <3> QED BY <1>5, <3>1, <3>2
  <2>2. Begun' /\ ReadyFileScoped'
    BY <2>1 DEF RInv, Begun, ReadyFileScoped, At, pathVars
  <2> QED BY <1>0, <2>1, <2>2, PathsRest DEF RInv
<1>6. CASE GuestPrints
  <2>1. /\ UNCHANGED <<pathVars, raw, conn, errorsCh, guest, main, ready, file, out>>
        /\ \/ \E line \in {"READY", "PASS", "FAIL"} : log' = [log EXCEPT !.lines = @ \cup {line}]
           \/ log.served < Required /\ log' = [log EXCEPT !.served = @ + 1]
    BY <1>6 DEF GuestPrints
  <2>2. log' \in LogType /\ log.lines \subseteq log'.lines /\ log.served <= log'.served
    <3>1. ASSUME NEW line \in {"READY", "PASS", "FAIL"},
                 log' = [log EXCEPT !.lines = @ \cup {line}]
          PROVE  log' \in LogType /\ log.lines \subseteq log'.lines /\ log'.served = log.served
      BY <1>0, <3>1
    <3>2. ASSUME log.served < Required, log' = [log EXCEPT !.served = @ + 1]
          PROVE  log' \in LogType /\ log'.lines = log.lines /\ log.served <= log'.served
      <4>1. log.served + 1 \in 0 .. Required /\ log.served <= log.served + 1
        BY <1>0, <3>2, Ranges
      <4> QED BY <1>0, <3>2, <4>1
    <3> QED BY <1>0, <2>1, <3>1, <3>2
  <2>3. Begun' /\ ReadyFileScoped'
    BY <2>1, <2>2 DEF RInv, Begun, ReadyFileScoped, At, pathVars
  <2> QED BY <1>0, <2>1, <2>2, <2>3, PathsRest DEF RInv
<1> QED BY <1>1, <1>2, <1>3, <1>4, <1>5, <1>6, AcceptVMStep DEF Run

\* The invariant holds in every state of every behaviour of the relay.
THEOREM RelayInvariance == RelaySpec => []RInv
<1>1. RelayInit => RInv
  <2> SUFFICES ASSUME RelayInit PROVE RInv
    OBVIOUS
  <2>1. /\ Path = {"lan", "vm"} /\ 0 \in 0 .. FrameParts /\ 0 \in 0 .. Required
        /\ \A who \in Path : path[who] = [Idle EXCEPT !.pc = "none"]
    BY Ranges DEF RelayInit, Path
  <2>2. /\ [Idle EXCEPT !.pc = "none"] \in Carrier
        /\ \A who \in Path : path[who].pc = "none"
    BY <2>1 DEF Idle, Carrier, Place
  <2>3. RelayTypeOK
    BY <2>1, <2>2, FS_EmptySet DEF RelayInit, RelayTypeOK, NoCounts, Counters
  <2>4. Total(r.EgressTOS, TOS) = 0 /\ Total(r.LANTOS, TOS) = 0
    BY CountZero DEF RelayInit, NoCounts
  <2>5. Begun /\ ReadyFileScoped /\ Unmixed /\ StreamWhole
    BY <2>1, <2>2, RelayAssumption DEF RelayInit, Begun, ReadyFileScoped, Unmixed,
           StreamWhole, At
  <2>6. Carried /\ Earned /\ CompleteIsEarned
    BY <2>1, <2>2, RelayAssumption DEF RelayInit, Carried, Earned, CompleteIsEarned, At
  <2>7. Settled /\ CountersHonest
    BY <2>1, <2>2, <2>4, SMTT(30) DEF RelayInit, NoCounts, Settled, CountersHonest, At
  <2> QED BY <2>3, <2>5, <2>6, <2>7 DEF RInv
<1>2. RInv /\ [RelayNext]_relayVars => RInv'
  <2> SUFFICES ASSUME RInv, [RelayNext]_relayVars PROVE RInv'
    OBVIOUS
  <2>1. CASE UNCHANGED relayVars
    <3>1. log.served <= log.served
      BY Ranges DEF RInv, RelayTypeOK
    <3>2. Begun' /\ ReadyFileScoped'
      BY <2>1 DEF RInv, Begun, ReadyFileScoped, At, relayVars, pathVars, runVars
    <3>3. /\ UNCHANGED <<pathVars, errorsCh, raw, conn, ready, file, log, main, out>>
          /\ errorsCh \subseteq Path /\ {raw, conn, ready, file} \subseteq BOOLEAN
          /\ log \in [lines : SUBSET {"READY", "PASS", "FAIL"}, served : 0 .. Required]
      BY <2>1 DEF RInv, RelayTypeOK, relayVars, runVars
    <3> QED BY <3>1, <3>2, <3>3, PathsRest DEF RInv
  <2>2. CASE RelayNext
    BY <2>2, NicStep, LanStep, VmStep, RunStep DEF RelayNext, LanToVM, VmToLAN, Path
  <2> QED BY <2>1, <2>2
<1> QED BY <1>1, <1>2, PTL DEF RelaySpec

\* The relay's variables keep their types, whatever is read from either side.
THEOREM RelayTypeCorrect == RelaySpec => []RelayTypeOK
<1>1. RInv => RelayTypeOK
  BY DEF RInv
<1> QED BY <1>1, RelayInvariance, PTL

\* A report is complete only for a guest that passed and for acknowledgements that
\* had crossed in whole frames.
THEOREM SuccessEarned == RelaySpec => []CompleteIsEarned
<1>1. RInv => CompleteIsEarned
  BY DEF RInv
<1> QED BY <1>1, RelayInvariance, PTL

\* The counters match what crossed, up to the packet in each goroutine's hands.
THEOREM CountsMatch == RelaySpec => []CountersHonest
<1>1. RInv => CountersHonest
  BY DEF RInv
<1> QED BY <1>1, RelayInvariance, PTL

\* Frames mix only behind one whose writer gave up (nic.mu).
THEOREM StreamStaysWhole == RelaySpec => []StreamWhole
<1>1. RInv => StreamWhole
  BY DEF RInv
<1> QED BY <1>1, RelayInvariance, PTL

\* The ready file belongs to this run and to a ready guest.
THEOREM ReadyFileOwn == RelaySpec => []ReadyFileScoped
<1>1. RInv => ReadyFileScoped
  BY DEF RInv
<1> QED BY <1>1, RelayInvariance, PTL

=============================================================================
