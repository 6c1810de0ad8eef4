------------------------------ MODULE Outbound ------------------------------
(***************************************************************************)
(* The packet queues of an endpoint and the goroutines around them         *)
(* (endpoint.go): send puts packets into one bounded queue per priority    *)
(* while it holds Endpoint.mu, writeLoop takes them out and writes them    *)
(* without the lock, and shutdown and Close end the three loops.           *)
(*                                                                         *)
(* The RPC table is reduced to which rpc struct is under which key.  What  *)
(* the critical sections of Endpoint do to it and to the queues is split   *)
(* into single steps here: more interleavings than the lock allows.        *)
(***************************************************************************)
EXTENDS Integers, Sequences

CONSTANTS
  Key,          \* keys of RPCs
  Obj,          \* rpc structs
  Nil,          \* the nil pointer
  Levels,       \* priorities are 0 .. Levels - 1
  Slots,        \* capacity of one queue
  Closers,      \* goroutines that call Close
  MaxSends      \* bound: packets given to send

ASSUME QueueAssumption ==
  /\ Levels \in Nat \ {0}
  /\ Slots \in Nat \ {0}
  /\ MaxSends \in Nat
  /\ Nil \notin Obj \cup Key

VARIABLES
  table,     \* e.rpcs
  keyOf,     \* r.key of every struct that something refers to
  expired,   \* the structs whose deadline has passed
  outbound,  \* e.outbound
  wake,      \* e.wake: the number of tokens in the channel
  sends,     \* how often send was called
  closed,    \* e.closed, and e.done is closed
  ioClosed,  \* e.io.Close has been called
  loop,      \* where readLoop, timerLoop and writeLoop are
  held,      \* the packet that writeLoop has taken out
  closer,    \* where each caller of Close is
  late,      \* history: the DATA of each struct written after its RPC had gone
  afterClose \* history: the packets written after shutdown

rpcVars == <<table, keyOf, expired>>
lateVars == <<late, afterClose>>
queueVars == <<outbound, wake, sends, lateVars>>
loopVars == <<rpcVars, queueVars, closed, ioClosed, loop, held, closer>>

Prio == 0 .. Levels - 1

Packet == [typ : {"DATA", "CONTROL"}, origin : Obj \cup {Nil}]

NoPacket == [typ |-> "CONTROL", origin |-> Nil]

-----------------------------------------------------------------------------
(* RPCs come, expire and go. *)

Referenced ==
  {o \in Obj : \/ \E k \in Key : table[k] = o
               \/ \E q \in Prio : \E i \in 1 .. Len(outbound[q]) : outbound[q][i].origin = o
               \/ held.origin = o}

\* Pointer identity: e.rpcs[p.origin.key] == p.origin
InTable(o) == IF o = Nil THEN FALSE ELSE keyOf[o] # Nil /\ table[keyOf[o]] = o

Enter(k, o) ==
  /\ ~closed
  /\ table[k] = Nil
  /\ o \notin Referenced
  /\ table' = [table EXCEPT ![k] = o]
  /\ keyOf' = [keyOf EXCEPT ![o] = k]
  /\ expired' = expired \ {o}
  /\ late' = [late EXCEPT ![o] = 0]
  /\ UNCHANGED <<outbound, wake, sends, afterClose, closed, ioClosed, loop, held, closer>>

Remove(k) ==
  /\ table[k] # Nil
  /\ table' = [table EXCEPT ![k] = Nil]
  /\ UNCHANGED <<keyOf, expired, queueVars, closed, ioClosed, loop, held, closer>>

Expire(o) ==
  /\ InTable(o) /\ o \notin expired
  /\ expired' = expired \cup {o}
  /\ UNCHANGED <<table, keyOf, queueVars, closed, ioClosed, loop, held, closer>>

\* Mutant: only data wakes the writer.
SendQuietly(k, q, typ) ==
  LET p == [typ |-> typ, origin |-> table[k]] IN
  /\ ~closed
  /\ sends < MaxSends
  /\ typ = "DATA" => table[k] # Nil
  /\ sends' = sends + 1
  /\ Len(outbound[q]) < Slots
  /\ outbound' = [outbound EXCEPT ![q] = Append(@, p)]
  /\ wake' = IF typ = "DATA" THEN 1 ELSE wake
  /\ UNCHANGED <<rpcVars, lateVars, closed, ioClosed, loop, held, closer>>

\* send: a full queue drops the packet.  The struct under the packet's key is
\* its origin; segments are only sent of an RPC that is in the table.
Send(k, q, typ) ==
  LET p == [typ |-> typ, origin |-> table[k]] IN
  /\ ~closed
  /\ sends < MaxSends
  /\ typ = "DATA" => table[k] # Nil
  /\ sends' = sends + 1
  /\ \/ /\ Len(outbound[q]) < Slots
        /\ outbound' = [outbound EXCEPT ![q] = Append(@, p)]
        /\ wake' = 1
     \/ /\ Len(outbound[q]) = Slots
        /\ UNCHANGED <<outbound, wake>>
  /\ UNCHANGED <<rpcVars, lateVars, closed, ioClosed, loop, held, closer>>

-----------------------------------------------------------------------------
(* writeLoop *)

Goto(l, where) == loop' = [loop EXCEPT ![l] = where]

Queued == {q \in Prio : outbound[q] # <<>>}

\* Mutant: whichever struct has the key now will do.
StaleByKey(p) == p.typ = "DATA" /\ (table[keyOf[p.origin]] = Nil \/ p.origin \in expired)

Stale(p) == p.typ = "DATA" /\ (~InTable(p.origin) \/ p.origin \in expired)

WriterStops ==
  /\ loop["write"] = "lock" /\ closed
  /\ Goto("write", "exited")
  /\ UNCHANGED <<rpcVars, queueVars, closed, ioClosed, held, closer>>

WriterWaits ==
  /\ loop["write"] = "lock" /\ ~closed
  /\ Queued = {}
  /\ Goto("write", "select")
  /\ UNCHANGED <<rpcVars, queueVars, closed, ioClosed, held, closer>>

\* dequeue, and what was queued for an RPC that is gone is dropped.  The lock is
\* released with a packet in hand: every step of the others may come before it is
\* written.
WriterTakes ==
  /\ loop["write"] = "lock" /\ ~closed
  /\ \E q \in Queued :
       /\ \A x \in Queued : x <= q
       /\ outbound' = [outbound EXCEPT ![q] = Tail(@)]
       /\ \/ /\ Stale(Head(outbound[q]))
             /\ UNCHANGED <<loop, held>>
          \/ /\ ~Stale(Head(outbound[q]))
             /\ held' = Head(outbound[q])
             /\ Goto("write", "writing")
  /\ UNCHANGED <<rpcVars, wake, sends, lateVars, closed, ioClosed, closer>>

\* The select between e.done and e.wake.
WriterWakes ==
  /\ loop["write"] = "select"
  /\ \/ /\ wake = 1
        /\ wake' = 0
        /\ Goto("write", "lock")
     \/ /\ closed
        /\ Goto("write", "exited")
        /\ UNCHANGED wake
  /\ UNCHANGED <<rpcVars, outbound, sends, lateVars, closed, ioClosed, held, closer>>

\* No table entry is the struct any more, or its deadline has passed.
Gone(o) == (\A k \in Key : table[k] # o) \/ o \in expired

\* WritePacket, without the lock: it returns at the latest when its write deadline
\* has passed.  The history notes what goes out too late.
WriterWrites ==
  /\ loop["write"] = "writing"
  /\ Goto("write", "written") \/ Goto("write", "failed")
  /\ late' = IF held.typ = "DATA" /\ Gone(held.origin)
             THEN [late EXCEPT ![held.origin] = @ + 1] ELSE late
  /\ afterClose' = IF closed THEN afterClose + 1 ELSE afterClose
  /\ UNCHANGED <<rpcVars, outbound, wake, sends, closed, ioClosed, held, closer>>

\* Mutant: the failed packet's key is looked up, whichever RPC has it now.
WriterSettlesByKey ==
  /\ loop["write"] \in {"written", "failed"}
  /\ table' = IF loop["write"] = "failed" /\ held.origin # Nil
              THEN [table EXCEPT ![keyOf[held.origin]] = Nil]
              ELSE table
  /\ held' = NoPacket
  /\ Goto("write", "lock")
  /\ UNCHANGED <<keyOf, expired, queueVars, closed, ioClosed, closer>>

\* Mutant: the writer returns after its first failed write.
WriterSettlesAndQuits ==
  /\ loop["write"] \in {"written", "failed"}
  /\ table' = IF loop["write"] = "failed" /\ InTable(held.origin)
              THEN [table EXCEPT ![keyOf[held.origin]] = Nil]
              ELSE table
  /\ held' = NoPacket
  /\ Goto("write", IF loop["write"] = "failed" THEN "exited" ELSE "lock")
  /\ UNCHANGED <<keyOf, expired, queueVars, closed, ioClosed, closer>>

\* Having the lock again, a failed write finishes the packet's own RPC.
WriterSettles ==
  /\ loop["write"] \in {"written", "failed"}
  /\ table' = IF loop["write"] = "failed" /\ InTable(held.origin)
              THEN [table EXCEPT ![keyOf[held.origin]] = Nil]
              ELSE table
  /\ held' = NoPacket
  /\ Goto("write", "lock")
  /\ UNCHANGED <<keyOf, expired, queueVars, closed, ioClosed, closer>>

Writer ==
  WriterStops \/ WriterWaits \/ WriterTakes \/ WriterWakes \/ WriterWrites \/ WriterSettles

-----------------------------------------------------------------------------
(* readLoop, timerLoop, shutdown and Close. *)

Emptied == table' = [k \in Key |-> Nil]

\* ReadPacket returns an error: always possible, certain once the socket is
\* closed.  The reader then runs shutdown itself.
ReaderFails ==
  /\ loop["read"] = "reading"
  /\ \/ /\ closed
        /\ Goto("read", "exited")
        /\ UNCHANGED <<table, closed>>
     \/ /\ ~closed
        /\ closed' = TRUE
        /\ Emptied
        /\ Goto("read", "closing")
  /\ UNCHANGED <<keyOf, expired, queueVars, ioClosed, held, closer>>

ReaderCloses ==
  /\ loop["read"] = "closing"
  /\ ioClosed' = TRUE
  /\ Goto("read", "exited")
  /\ UNCHANGED <<rpcVars, queueVars, closed, held, closer>>

\* A packet arrives after shutdown.  (What arrives before is Enter, Remove
\* and Send.)
ReaderStops ==
  /\ loop["read"] = "reading" /\ closed /\ ~ioClosed
  /\ Goto("read", "exited")
  /\ UNCHANGED <<rpcVars, queueVars, closed, ioClosed, held, closer>>

TimerStops ==
  /\ loop["timer"] = "ticking" /\ closed
  /\ Goto("timer", "exited")
  /\ UNCHANGED <<rpcVars, queueVars, closed, ioClosed, held, closer>>

CloseEndpoint(c) ==
  /\ closer[c] = "idle"
  /\ \/ /\ closed
        /\ closer' = [closer EXCEPT ![c] = "waiting"]
        /\ UNCHANGED <<table, closed>>
     \/ /\ ~closed
        /\ closed' = TRUE
        /\ Emptied
        /\ closer' = [closer EXCEPT ![c] = "closing"]
  /\ UNCHANGED <<keyOf, expired, queueVars, ioClosed, loop, held>>

\* Mutant: shutdown does not close the socket.
CloseSocketNot(c) ==
  /\ closer[c] = "closing"
  /\ closer' = [closer EXCEPT ![c] = "waiting"]
  /\ UNCHANGED <<rpcVars, queueVars, closed, ioClosed, loop, held>>

CloseSocket(c) ==
  /\ closer[c] = "closing"
  /\ ioClosed' = TRUE
  /\ closer' = [closer EXCEPT ![c] = "waiting"]
  /\ UNCHANGED <<rpcVars, queueVars, closed, loop, held>>

Loops == {"read", "timer", "write"}

\* Mutant: writeLoop is not in the wait group.
CloseReturnsEarly(c) ==
  /\ closer[c] = "waiting"
  /\ \A l \in Loops \ {"write"} : loop[l] = "exited"
  /\ closer' = [closer EXCEPT ![c] = "returned"]
  /\ UNCHANGED <<rpcVars, queueVars, closed, ioClosed, loop, held>>

\* wg.Wait
CloseReturns(c) ==
  /\ closer[c] = "waiting"
  /\ \A l \in Loops : loop[l] = "exited"
  /\ closer' = [closer EXCEPT ![c] = "returned"]
  /\ UNCHANGED <<rpcVars, queueVars, closed, ioClosed, loop, held>>

-----------------------------------------------------------------------------

LoopsInit ==
  /\ table = [k \in Key |-> Nil]
  /\ keyOf = [o \in Obj |-> Nil]
  /\ expired = {}
  /\ outbound = [q \in Prio |-> <<>>]
  /\ wake = 0
  /\ sends = 0
  /\ closed = FALSE
  /\ ioClosed = FALSE
  /\ loop = [read |-> "reading", timer |-> "ticking", write |-> "lock"]
  /\ held = NoPacket
  /\ closer = [c \in Closers |-> "idle"]
  /\ late = [o \in Obj |-> 0]
  /\ afterClose = 0

LoopsNext ==
  \/ \E k \in Key : Remove(k) \/ \E o \in Obj : Enter(k, o)
  \/ \E o \in Obj : Expire(o)
  \/ \E k \in Key, q \in Prio, typ \in {"DATA", "CONTROL"} : Send(k, q, typ)
  \/ Writer
  \/ ReaderFails \/ ReaderCloses \/ ReaderStops \/ TimerStops
  \/ \E c \in Closers : CloseEndpoint(c) \/ CloseSocket(c) \/ CloseReturns(c)

LoopsSpec == LoopsInit /\ [][LoopsNext]_loopVars

\* What the runtime and PacketIO guarantee: goroutines that can run do, a
\* write returns by its deadline, Close unblocks ReadPacket, and select does
\* not ignore e.done for ever.
LoopsFairness ==
  /\ WF_loopVars(Writer)
  /\ WF_loopVars(ioClosed /\ ReaderFails) /\ WF_loopVars(ReaderCloses)
  /\ WF_loopVars(TimerStops)
  /\ \A c \in Closers : WF_loopVars(CloseSocket(c)) /\ WF_loopVars(CloseReturns(c))

FairSpec == LoopsSpec /\ LoopsFairness

-----------------------------------------------------------------------------
(* Properties. *)

\* Type correctness of the queues and the loops.
LoopsTypeOK ==
  /\ table \in [Key -> Obj \cup {Nil}]
  /\ keyOf \in [Obj -> Key \cup {Nil}]
  /\ expired \subseteq Obj
  /\ outbound \in [Prio -> Seq(Packet)]
  /\ \A q \in Prio : Len(outbound[q]) <= Slots
  /\ wake \in {0, 1}
  /\ sends \in Nat
  /\ closed \in BOOLEAN /\ ioClosed \in BOOLEAN
  /\ loop \in [Loops -> {"reading", "closing", "ticking", "lock", "select", "writing",
                         "written", "failed", "exited"}]
  /\ held \in Packet
  /\ closer \in [Closers -> {"idle", "closing", "waiting", "returned"}]
  /\ late \in [Obj -> Nat] /\ afterClose \in Nat

\* The writer never sleeps beside a queued packet: whenever it waits in its
\* select and something is queued, the wake channel holds a token.
NoLostWakeup ==
  loop["write"] = "select" /\ ~closed /\ Queued # {} => wake = 1

\* Cancellation, expiry and shutdown keep queued DATA from first reaching a peer
\* later (writeLoop, endpoint.go:360-374).  The writer has no lock when it writes, so
\* what it has in its hands may still go out: that one packet and no other of the
\* RPC's, also when another RPC has the key by then, and no second one of any kind
\* after shutdown.
AtMostOneLate == afterClose <= 1 /\ \A o \in Obj : late[o] <= 1

\* A refused packet fails at most the RPC it was sent for, also when another
\* RPC has its key by the time the error is handled.
WriteErrorScoped ==
  [][loop["write"] = "failed" /\ loop'["write"] = "lock" =>
       \A k \in Key : table'[k] # table[k] => table[k] = held.origin]_loopVars

\* Once a Close has returned nothing enters the table or the queues, nothing is
\* taken out of them to be written, and no loop runs.  (Handlers may still run:
\* Close does not wait for them.)
QuietAfterClose ==
  [][(\E c \in Closers : closer[c] = "returned") =>
       UNCHANGED <<rpcVars, queueVars, closed, loop, held>>]_loopVars

\* What is queued leaves the queues, by being written or as stale, when no
\* more than MaxSends packets are sent (FairSpec).
QueuesDrain == Queued # {} ~> Queued = {} \/ closed

\* Close returns, in any number of goroutines and also when the reader has
\* met an error by itself (FairSpec).
CloseEnds == \A c \in Closers : closer[c] # "idle" ~> closer[c] = "returned"

-----------------------------------------------------------------------------
(* The inductive invariant that the proofs use. *)

\* The order in which shutdown and Close do things.
Ending ==
  /\ closed => \A k \in Key : table[k] = Nil
  /\ \A c \in Closers : closer[c] # "idle" => closed
  /\ \A c \in Closers : closer[c] = "returned" => \A l \in Loops : loop[l] = "exited"
  /\ loop["read"] # "reading" => closed

\* Who has had a late packet is gone, and the packet in the writer's hands is not
\* its RPC's second late one.
InHand ==
  /\ \A o \in Obj : late[o] # 0 => late[o] = 1 /\ Gone(o)
  /\ loop["write"] = "writing" /\ held.typ = "DATA" => held.origin \in Obj /\ late[held.origin] = 0
  /\ afterClose # 0 => afterClose = 1 /\ closed /\ loop["write"] # "writing"

LInv == LoopsTypeOK /\ NoLostWakeup /\ Ending /\ InHand

=============================================================================
