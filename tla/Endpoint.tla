------------------------------ MODULE Endpoint ------------------------------
(***************************************************************************)
(* One Homa endpoint (endpoint.go): the RPC table, the byte budget, the    *)
(* handler workers, the callers blocked in Call, and the handlers of every *)
(* packet type.  Everything the Go code does while it holds Endpoint.mu is *)
(* one action.                                                             *)
(*                                                                         *)
(* Go pointers to rpc structs are members of Obj, so that the code's       *)
(* comparisons by pointer identity (e.rpcs[r.key] == r) are comparisons of *)
(* objects.  Deadlines are the flag `expired', set when time passes an     *)
(* object's deadline and read by the code some time later.  Lengths are    *)
(* kept, and the bytes of a message are abstracted to the tag `body' of    *)
(* the message they were cut from.                                         *)
(*                                                                         *)
(* Packets given to e.send go to `net' through the parameter Emit: the     *)
(* runs that study one endpoint discard them, a composition keeps them.    *)
(***************************************************************************)
EXTENDS Sums, Sequences, FiniteSetsExt

CONSTANTS
  Local,             \* this endpoint's address, <<ip, port>>
  Peers,             \* the remote addresses, <<ip, port>>
  Obj,               \* the rpc structs that can be referenced at one time
  Nil,               \* the nil pointer
  Callers,           \* goroutines that use Call
  Bodies,            \* message contents
  HasHandler,        \* whether New was given a handler
  MaxMessageSize, MaxRPCs, MaxBufferedBytes, HandlerWorkers,    \* Config
  SegmentBytes, UnscheduledBytes, GrantWindow, Overcommit,
  MaxIds,            \* bound: RPC identifiers are 2 .. 2 * MaxIds + 1
  Incoming,          \* the packets the peers may send
  Emit(_, _)         \* Emit(net, packets): net after e.send of packets

ASSUME ConfigAssumption ==
  /\ HasHandler \in BOOLEAN
  /\ MaxMessageSize \in Nat \ {0}
  /\ MaxRPCs \in Nat \ {0}
  /\ MaxBufferedBytes \in Nat \ {0}
  /\ HandlerWorkers \in Nat \ {0}
  /\ SegmentBytes \in Nat \ {0}
  /\ UnscheduledBytes \in Nat \ {0}
  /\ UnscheduledBytes % SegmentBytes = 0
  /\ GrantWindow \in Nat \ {0}
  /\ Overcommit \in 1 .. MaxRPCs
  /\ MaxIds \in Nat

ASSUME SetAssumption ==
  /\ IsFiniteSet(Obj)
  /\ Nil \notin Obj
  /\ Local \notin Peers

VARIABLES
  e,        \* what Endpoint.mu protects (see TypeOK)
  nextID,   \* e.nextID
  closed,   \* e.closed
  cutoffs,  \* e.cutoffs: the version of the table each host has sent
  pc,       \* where each caller is in Call
  call,     \* the rpc struct each caller waits for
  net       \* the packets given to e.send

vars == <<e, nextID, closed, cutoffs, pc, call, net>>

-----------------------------------------------------------------------------
(* Identifiers, keys and the rpc struct. *)

Id == 2 .. 2 * MaxIds + 1

Key == Peers \X Id

ASSUME KeyAssumption == Nil \notin Key

\* Header.LocalID: the two ends of an RPC use identifiers that differ in bit 0.
LocalID(id) == IF id % 2 = 0 THEN id + 1 ELSE id - 1

IsClientID(id) == id % 2 = 0

NoMsg == [len |-> 0, body |-> Nil]

NoBytes == [i \in {} |-> Nil]

NoRx == [len |-> 0, data |-> NoBytes, granted |-> 0]

\* The zero rpc struct; an object with no key is one no pointer refers to.
Blank == [key |-> Nil, tx |-> NoMsg, sent |-> 0, granted |-> 0, rx |-> NoRx,
          received |-> FALSE, handling |-> FALSE, expired |-> FALSE,
          result |-> <<>>]

\* wire.ResendAll, a length no message has.
ResendAll == MaxMessageSize + 1

Live(s) == {s.rpcs[k] : k \in Key} \ {Nil}

Free(s) == {o \in Obj : s.rpc[o].key = Nil}

IsClient(s, o) == IsClientID(s.rpc[o].key[2])

\* e.rpcs[r.key] == r
Current(s, o) == s.rpcs[s.rpc[o].key] = o

-----------------------------------------------------------------------------
(* The byte budget. *)

BitBytes(n) == (n + 7) \div 8

\* What an rpc struct holds of the budget: its transmit copy, its receive
\* buffer and the receive bitmap.
Stored(r) == r.tx.len + r.rx.len + BitBytes(r.rx.len)

Holds(s) == [o \in Obj |-> Stored(s.rpc[o])]

Bits(s) == [o \in Obj |-> BitBytes(s.rpc[o].rx.len)]

\* reserve(n) succeeds
Room(s, n) == n <= MaxBufferedBytes - s.buffered

-----------------------------------------------------------------------------
(* Removing RPCs. *)

\* An object that left the table is still referenced by its caller or by its
\* running handler, which read only its key and its result.
Detached(s, o) ==
  IF IsClient(s, o) \/ s.payload[o] > 0
  THEN [Blank EXCEPT !.key = s.rpc[o].key, !.result = s.rpc[o].result]
  ELSE Blank

\* Mutant: the bitmap's bytes are not given back.
RemoveForgetsBitmap(s, S) ==
  [s EXCEPT
    !.rpcs = [k \in Key |-> IF s.rpcs[k] \in S THEN Nil ELSE s.rpcs[k]],
    !.rpc = [o \in Obj |-> IF o \in S THEN Detached(s, o) ELSE s.rpc[o]],
    !.buffered = @ - Total([o \in Obj |-> s.rpc[o].tx.len + s.rpc[o].rx.len], S)]

\* remove, for every object of S (a subset of Live(s))
Remove(s, S) ==
  [s EXCEPT
    !.rpcs = [k \in Key |-> IF s.rpcs[k] \in S THEN Nil ELSE s.rpcs[k]],
    !.rpc = [o \in Obj |-> IF o \in S THEN Detached(s, o) ELSE s.rpc[o]],
    !.buffered = @ - Total(Holds(s), S)]

\* Mutant: the response is read after remove has dropped it.
OutcomeLate(r, err) == [err |-> err, sent |-> r.sent > 0 \/ r.received, data |-> NoBytes]

Outcome(r, err) ==
  [err |-> err, sent |-> r.sent > 0 \/ r.received,
   data |-> IF err = "ok" THEN r.rx.data ELSE NoBytes]

\* finish, for every object of S: a call's object gets its result.
Finish(s, S, err) ==
  LET t == Remove(s, S) IN
  [t EXCEPT !.rpc =
    [o \in Obj |->
      IF o \in S /\ IsClient(s, o)
      THEN [t.rpc[o] EXCEPT !.result = Append(@, Outcome(s.rpc[o], err))]
      ELSE t.rpc[o]]]

-----------------------------------------------------------------------------
(* Sending. *)

RoundUp(n) == ((n + SegmentBytes - 1) \div SegmentBytes) * SegmentBytes

\* The version of the cutoffs in use for packets to the host ip.
Version(ip) == IF ip \in DOMAIN cutoffs THEN cutoffs[ip] ELSE 0

DataPacket(r, start) ==
  [type |-> "DATA", src |-> Local, dst |-> r.key[1], id |-> r.key[2],
   len |-> r.tx.len, off |-> start,
   n |-> Lesser(start + SegmentBytes, r.tx.len) - start,
   incoming |-> Lesser(r.tx.len, RoundUp(r.granted)),
   version |-> Version(r.key[1][1]), body |-> r.tx.body, acks |-> {}]

Control(type, key) ==
  [type |-> type, src |-> Local, dst |-> key[1], id |-> key[2], acks |-> {}]

\* Mutant: the loop stops when less than a whole segment is granted.
SendNewWhole(r) ==
  [r EXCEPT !.sent = Greater(@, (Lesser(r.granted, r.tx.len) \div SegmentBytes) * SegmentBytes)]

\* sendNew: the struct after it, and the segments it sends.  The send never
\* fails: every priority stored in a struct is at most 7 and every header
\* it builds can be marshalled.
SendNew(r) ==
  LET upto == Lesser(r.granted, r.tx.len) IN
  IF r.sent < upto
  THEN [r EXCEPT !.sent = Lesser(r.tx.len, @ + RoundUp(upto - @))]
  ELSE r

NewSegments(r) ==
  {DataPacket(r, at) :
    at \in {x \in r.sent .. Lesser(r.granted, r.tx.len) - 1 :
              (x - r.sent) % SegmentBytes = 0}}

\* resend: only bytes that were sent before, cut as they were cut then.
Resend(r, start, end) ==
  {DataPacket(r, at) :
    at \in {x \in 0 .. Lesser(end, r.sent) - 1 :
              /\ x % SegmentBytes = 0
              /\ x + SegmentBytes > start
              /\ x < r.tx.len}}

-----------------------------------------------------------------------------
(* Receiving. *)

\* assembly.contiguous and assembly.count
Contiguous(a) == Min({i \in 0 .. a.len : i \notin DOMAIN a.data})

\* Mutant: the count is the end of the last segment.
CountToEnd(a) == IF DOMAIN a.data = {} THEN 0 ELSE Max(DOMAIN a.data) + 1

Count(a) == Cardinality(DOMAIN a.data)

\* requestMissing: everything, or the first hole in what was granted.
RequestMissing(r) ==
  LET a == r.rx
      start == Contiguous(a)
      granted == Lesser(a.granted, a.len)
      end == Min({granted} \cup {i \in start .. granted - 1 : i \in DOMAIN a.data})
      Ask(off, n) == [type |-> "RESEND", src |-> Local, dst |-> r.key[1],
                      id |-> r.key[2], off |-> off, n |-> n]
  IN IF a.len = 0
     THEN {Ask(0, ResendAll)}
     ELSE IF start >= end THEN {} ELSE {Ask(start, end - start)}

\* schedule: the incomplete messages that still need grants, ranked by the
\* bytes they lack and then by identifier.  RPCs of different peers can tie.
Candidates(s) ==
  {o \in Live(s) : LET a == s.rpc[o].rx IN Count(a) < a.len /\ a.granted < a.len}

Before(s, x, y) ==
  LET left(o) == s.rpc[o].rx.len - Count(s.rpc[o].rx) IN
  \/ left(x) < left(y)
  \/ left(x) = left(y) /\ s.rpc[x].key[2] < s.rpc[y].key[2]

Rankings(s) ==
  LET C == Candidates(s) IN
  {rank \in [C -> 0 .. Cardinality(C) - 1] :
     \A x, y \in C : /\ Before(s, x, y) => rank[x] < rank[y]
                     /\ rank[x] = rank[y] => x = y}

Window(a) == Lesser(a.len, Count(a) + GrantWindow)

Granted(s, rank) ==
  {o \in Candidates(s) : /\ rank[o] < Overcommit
                         /\ Window(s.rpc[o].rx) > s.rpc[o].rx.granted}

Schedule(s, rank) ==
  [s EXCEPT !.rpc =
    [o \in Obj |-> IF o \in Granted(s, rank)
                   THEN [s.rpc[o] EXCEPT !.rx.granted = Window(s.rpc[o].rx)]
                   ELSE s.rpc[o]]]

Grants(s, rank) ==
  {[type |-> "GRANT", src |-> Local, dst |-> s.rpc[o].key[1],
    id |-> s.rpc[o].key[2], off |-> Window(s.rpc[o].rx), n |-> 0] : o \in Granted(s, rank)}

-----------------------------------------------------------------------------
(* Starting handlers. *)

Waiting(s) ==
  {o \in Live(s) : ~IsClient(s, o) /\ s.rpc[o].received /\ ~s.rpc[o].handling}

Expired(s) == {o \in Live(s) : s.rpc[o].expired}

\* startHandler, called for every object of T in some order: the expired ones
\* are finished, and as many of the others as there are free workers start.
Startable(s, T) == {o \in T : ~s.rpc[o].handling /\ s.rpc[o].rx.len > 0}

\* Mutant: the deadline is left to the timer.
OverdueNever(s, T) == {}

Overdue(s, T) == {o \in Startable(s, T) : s.rpc[o].expired}

\* Mutant: a goroutine is spawned for every request.
StartersUnbounded(s, T) == {Startable(s, T) \ Overdue(s, T)}

Starters(s, T) ==
  LET ready == Startable(s, T) \ Overdue(s, T)
      n == Lesser(HandlerWorkers - s.workers, Cardinality(ready))
  IN {W \in SUBSET ready : Cardinality(W) = n}

\* The bitmap is given up; the payload is the handler's until it returns.
Started(r) == [r EXCEPT !.handling = TRUE, !.rx = NoRx]

Start(s, W) ==
  [s EXCEPT
    !.rpc = [o \in Obj |-> IF o \in W THEN Started(s.rpc[o]) ELSE s.rpc[o]],
    !.payload = [o \in Obj |-> IF o \in W THEN s.rpc[o].rx.len ELSE s.payload[o]],
    !.buffered = @ - Total(Bits(s), W),
    !.workers = @ + Cardinality(W)]

StartHandlers(s, T, W) == Start(Finish(s, Overdue(s, T), "deadline"), W)

-----------------------------------------------------------------------------
(* Call. *)

\* Mutant: the identifier is not advanced.
CallSameID(c, peer, msg) ==
  LET key == <<peer, nextID + 2>>
      r == [Blank EXCEPT !.key = key, !.tx = msg,
                         !.granted = Lesser(msg.len, UnscheduledBytes)]
  IN /\ pc[c] = "idle"
     /\ ~closed
     /\ Cardinality(Live(e)) < MaxRPCs
     /\ Room(e, msg.len)
     /\ \E o \in Free(e) :
          /\ e' = [e EXCEPT !.rpcs[key] = o, !.rpc[o] = SendNew(r),
                            !.buffered = @ + msg.len]
          /\ call' = [call EXCEPT ![c] = o]
     /\ pc' = [pc EXCEPT ![c] = "waiting"]
     /\ net' = Emit(net, NewSegments(r))
     /\ UNCHANGED <<nextID, closed, cutoffs>>

\* Call up to its select.  A call refused because the endpoint is closed, the
\* table full or the budget exhausted changes nothing.
Call(c, peer, msg) ==
  LET key == <<peer, nextID + 2>>
      r == [Blank EXCEPT !.key = key, !.tx = msg,
                         !.granted = Lesser(msg.len, UnscheduledBytes)]
  IN /\ pc[c] = "idle"
     /\ ~closed
     /\ Cardinality(Live(e)) < MaxRPCs
     /\ Room(e, msg.len)
     /\ nextID < 2 * MaxIds
     /\ nextID' = nextID + 2
     /\ \E o \in Free(e) :
          /\ e' = [e EXCEPT !.rpcs[key] = o, !.rpc[o] = SendNew(r),
                            !.buffered = @ + msg.len]
          /\ call' = [call EXCEPT ![c] = o]
     /\ pc' = [pc EXCEPT ![c] = "waiting"]
     /\ net' = Emit(net, NewSegments(r))
     /\ UNCHANGED <<closed, cutoffs>>

\* The select takes ctx.Done (also when a result is ready).
Cancel(c) ==
  /\ pc[c] = "waiting"
  /\ pc' = [pc EXCEPT ![c] = "canceled"]
  /\ UNCHANGED <<e, nextID, closed, cutoffs, call, net>>

\* Mutant: the canceled call is removed without a result.
AbortSilently(c) ==
  LET o == call[c] IN
  /\ pc[c] = "canceled"
  /\ pc' = [pc EXCEPT ![c] = "draining"]
  /\ e' = IF Current(e, o) THEN Remove(e, {o}) ELSE e
  /\ UNCHANGED <<nextID, closed, cutoffs, call, net>>

\* The canceled caller gets the lock.
Abort(c) ==
  LET o == call[c] IN
  /\ pc[c] = "canceled"
  /\ pc' = [pc EXCEPT ![c] = "draining"]
  /\ e' = IF Current(e, o) THEN Finish(e, {o}, "canceled") ELSE e
  /\ UNCHANGED <<nextID, closed, cutoffs, call, net>>

\* Call receives the result and returns; its rpc struct becomes garbage.
Return(c) ==
  LET o == call[c] IN
  /\ pc[c] \in {"waiting", "draining"}
  /\ e.rpc[o].result # <<>>
  /\ pc' = [pc EXCEPT ![c] = "idle"]
  /\ call' = [call EXCEPT ![c] = Nil]
  /\ e' = [e EXCEPT !.rpc[o] = Blank]
  /\ UNCHANGED <<nextID, closed, cutoffs, net>>

-----------------------------------------------------------------------------
(* receive: one action per packet type.  A packet that an early return of   *)
(* the code ignores changes nothing and has no action.                      *)

KeyOf(p) == <<p.src, LocalID(p.id)>>

Arrives(p, type) == ~closed /\ p.type = type /\ p.dst = Local

\* ack, for the client identifiers in ids: the record names a host and an
\* identifier but no client port, so one of several matching RPCs goes.
AckedBy(s, ip, ids) ==
  LET match(id) == {o \in Live(s) : s.rpc[o].key[1][1] = ip
                                    /\ s.rpc[o].key[2] = LocalID(id)}
      hit == {id \in ids : IsClientID(id) /\ match(id) # {}}
  IN {{pick[id] : id \in hit} :
       pick \in {f \in [hit -> Live(s)] : \A id \in hit : f[id] \in match(id)}}

ValidData(p) ==
  /\ p.len <= MaxMessageSize /\ p.off + p.n <= p.len
  /\ p.n > 0 /\ p.incoming <= p.len

\* Mutant: a request may always enter the table.
ClaimsUnbounded(s, key) ==
  IF s.rpcs[key] # Nil THEN {s.rpcs[key]}
  ELSE IF IsClientID(key[2]) \/ ~HasHandler THEN {} ELSE Free(e)

\* The struct a DATA packet is for: the one in the table, or a new server RPC.
\* The caller's variable r still refers to a struct that the ack removed, so
\* the new one is an object that was free before.
Claims(s, key) ==
  IF s.rpcs[key] # Nil THEN {s.rpcs[key]}
  ELSE IF IsClientID(key[2]) \/ ~HasHandler \/ Cardinality(Live(s)) >= MaxRPCs THEN {}
  ELSE Free(e)

Claim(s, key, o) ==
  IF s.rpcs[key] = o THEN s
  ELSE [s EXCEPT !.rpcs[key] = o, !.rpc[o] = [Blank EXCEPT !.key = key]]

\* Allocating the receive buffer; a call's request is not needed any more.
OpenCost(r, p) == IF r.rx.len = 0 THEN p.len + BitBytes(p.len) ELSE 0

\* Mutant: the request is dropped but stays on the budget.
OpenForgetsRequest(s, o, p) ==
  LET r == s.rpc[o] IN
  IF r.rx.len > 0 THEN s
  ELSE [s EXCEPT
         !.rpc[o].rx = [len |-> p.len, data |-> NoBytes, granted |-> p.incoming],
         !.rpc[o].tx = IF IsClient(s, o) THEN NoMsg ELSE @,
         !.buffered = @ + OpenCost(r, p)]

Open(s, o, p) ==
  LET r == s.rpc[o]
      tx == IF IsClient(s, o) THEN NoMsg ELSE r.tx
  IN IF r.rx.len > 0 THEN s
     ELSE [s EXCEPT
            !.rpc[o].rx = [len |-> p.len, data |-> NoBytes, granted |-> p.incoming],
            !.rpc[o].tx = tx,
            !.buffered = @ + OpenCost(r, p) - (r.tx.len - tx.len)]

\* Bytes already accepted keep their value; other values for them are invalid.
Span(p) == p.off .. p.off + p.n - 1

Fits(a, p) ==
  a.len = p.len /\ \A i \in Span(p) \cap DOMAIN a.data : a.data[i] = p.body

Fill(a, p) ==
  [a EXCEPT !.data = [i \in DOMAIN a.data \cup Span(p) |->
                        IF i \in DOMAIN a.data THEN a.data[i] ELSE p.body],
            !.granted = Greater(@, p.incoming)]

\* The answer to DATA cut by other cutoffs than this endpoint's; time.Since
\* limits how often it is given.
CutoffsReply(p) ==
  IF p.version = 1 THEN {}
  ELSE {[type |-> "CUTOFFS", src |-> Local, dst |-> p.src, id |-> LocalID(p.id),
         version |-> 1]}

\* A message is complete: a call gets its response, a request its handler.
DataCompletes(s, o, out) ==
  \/ /\ IsClient(s, o)
     /\ e' = Finish(s, {o}, "ok")
     /\ net' = Emit(net, out \cup {Control("ACK", s.rpc[o].key)})
  \/ /\ ~IsClient(s, o)
     /\ \E W \in Starters(s, {o}) :
        \E t \in {StartHandlers(s, {o}, W)} :
        \E rank \in Rankings(t) :
          /\ e' = Schedule(t, rank)
          /\ net' = Emit(net, out \cup Grants(t, rank))

\* data, for a packet whose RPC is the object o of the table s; out was sent
\* before.
DataUnusable(s, o, p, out) ==
  LET r == s.rpc[o] IN
  /\ \/ r.received
     \/ r.rx.len > 0 /\ ~Fits(r.rx, p)
  /\ e' = s
  /\ net' = Emit(net, out)

DataNoRoom(s, o, p, out) ==
  LET r == s.rpc[o] IN
  /\ ~r.received
  /\ r.rx.len = 0 /\ ~Room(s, OpenCost(r, p))
  /\ e' = IF IsClient(s, o) THEN s ELSE Remove(s, {o})
  /\ net' = Emit(net, out)

DataFills(s, o, p, out) ==
  LET r == s.rpc[o] IN
  /\ ~r.received
  /\ r.rx.len > 0 \/ Room(s, OpenCost(r, p))
  /\ r.rx.len > 0 => Fits(r.rx, p)
  /\ \E t \in {Open(s, o, p)} :
     \E u \in {[t EXCEPT !.rpc[o].rx = Fill(@, p)]} :
       IF Count(u.rpc[o].rx) = p.len
       THEN DataCompletes([u EXCEPT !.rpc[o].received = TRUE], o, out)
       ELSE \E rank \in Rankings(u) :
              /\ e' = Schedule(u, rank)
              /\ net' = Emit(net, out \cup Grants(u, rank))

ReceiveData(p) ==
  /\ Arrives(p, "DATA")
  /\ ValidData(p)
  /\ \E R \in AckedBy(e, p.src[1], p.acks) :
     \E s \in {Remove(e, R)} :
       \/ /\ Claims(s, KeyOf(p)) = {}
          /\ e' = s
          /\ UNCHANGED net
       \/ \E o \in Claims(s, KeyOf(p)), out \in SUBSET CutoffsReply(p) :
          \E t \in {Claim(s, KeyOf(p), o)} :
            DataUnusable(t, o, p, out) \/ DataNoRoom(t, o, p, out) \/ DataFills(t, o, p, out)
  /\ UNCHANGED <<nextID, closed, cutoffs, pc, call>>

ReceiveGrant(p) ==
  LET o == e.rpcs[KeyOf(p)]
      r == [e.rpc[o] EXCEPT !.granted = Lesser(p.off, e.rpc[o].tx.len)]
  IN /\ Arrives(p, "GRANT")
     /\ o # Nil
     /\ e.rpc[o].tx.len > 0
     /\ p.off > e.rpc[o].granted
     /\ e' = [e EXCEPT !.rpc[o] = SendNew(r)]
     /\ net' = Emit(net, NewSegments(r))
     /\ UNCHANGED <<nextID, closed, cutoffs, pc, call>>

\* A RESEND answered without sending data.
ResendUnknown(p) ==
  /\ e.rpcs[KeyOf(p)] = Nil
  /\ e' = e
  /\ net' = Emit(net, {Control("RPC_UNKNOWN", KeyOf(p))})

ResendBusy(p) ==
  LET o == e.rpcs[KeyOf(p)] IN
  /\ o # Nil
  /\ p.off >= e.rpc[o].tx.len
  /\ e' = e
  /\ net' = Emit(net, {Control("BUSY", KeyOf(p))})

\* Mutant: a RESEND grants nothing.
ResendBytesSent(p) ==
  LET o == e.rpcs[KeyOf(p)]
      r == e.rpc[o]
      end == IF p.n = ResendAll THEN r.sent ELSE Lesser(r.tx.len, p.off + p.n)
  IN /\ o # Nil
     /\ p.off < r.tx.len
     /\ e' = e
     /\ net' = Emit(net, Resend(r, p.off, end))

\* Bytes sent before are sent again; bytes never granted are granted by it.
ResendBytes(p) ==
  LET o == e.rpcs[KeyOf(p)]
      r == e.rpc[o]
      end == IF p.n = ResendAll THEN r.sent ELSE Lesser(r.tx.len, p.off + p.n)
      more == end > r.granted
      g == [r EXCEPT !.granted = end]
      after == IF more THEN SendNew(g) ELSE r
  IN /\ o # Nil
     /\ p.off < r.tx.len
     /\ e' = [e EXCEPT !.rpc[o] = after]
     /\ net' = Emit(net, Resend(r, p.off, end)
                         \cup (IF more THEN NewSegments(g) ELSE {})
                         \cup (IF p.off >= after.sent THEN {Control("BUSY", r.key)} ELSE {}))

ReceiveResend(p) ==
  /\ Arrives(p, "RESEND")
  /\ ResendUnknown(p) \/ ResendBusy(p) \/ ResendBytes(p)
  /\ UNCHANGED <<nextID, closed, cutoffs, pc, call>>

ReceiveUnknown(p) ==
  LET o == e.rpcs[KeyOf(p)] IN
  /\ Arrives(p, "RPC_UNKNOWN")
  /\ o # Nil
  /\ \/ /\ ~IsClient(e, o)
        /\ e' = Remove(e, {o})
        /\ UNCHANGED net
     \/ /\ IsClient(e, o)
        /\ e.rpc[o].rx.len = 0 /\ ~e.rpc[o].received
        /\ net' = Emit(net, Resend(e.rpc[o], 0, e.rpc[o].sent))
        /\ UNCHANGED e
  /\ UNCHANGED <<nextID, closed, cutoffs, pc, call>>

\* Mutant: every NEED_ACK is answered by an ACK.
ReceiveNeedAckAlways(p) ==
  /\ Arrives(p, "NEED_ACK")
  /\ IsClientID(KeyOf(p)[2])
  /\ net' = Emit(net, {Control("ACK", KeyOf(p))})
  /\ UNCHANGED <<e, nextID, closed, cutoffs, pc, call>>

ReceiveNeedAck(p) ==
  LET o == e.rpcs[KeyOf(p)] IN
  /\ Arrives(p, "NEED_ACK")
  /\ IsClientID(KeyOf(p)[2])
  /\ net' = Emit(net, IF o = Nil THEN {Control("ACK", KeyOf(p))}
                      ELSE IF e.rpc[o].received THEN {Control("ACK", KeyOf(p))}
                      ELSE RequestMissing(e.rpc[o]))
  /\ UNCHANGED <<e, nextID, closed, cutoffs, pc, call>>

ReceiveAck(p) ==
  LET s == Remove(e, {e.rpcs[KeyOf(p)]} \ {Nil}) IN
  /\ Arrives(p, "ACK")
  /\ ~IsClientID(KeyOf(p)[2])
  /\ \E R \in AckedBy(s, p.src[1], p.acks) : e' = Remove(s, R)
  /\ UNCHANGED <<nextID, closed, cutoffs, pc, call, net>>

\* A host's cutoffs are kept for good; only MaxRPCs hosts get in.
ReceiveCutoffs(p) ==
  LET ip == p.src[1] IN
  /\ Arrives(p, "CUTOFFS")
  /\ ip \in DOMAIN cutoffs \/ Cardinality(DOMAIN cutoffs) < MaxRPCs
  /\ cutoffs' = [h \in DOMAIN cutoffs \cup {ip} |->
                   IF h = ip THEN p.version ELSE cutoffs[h]]
  /\ UNCHANGED <<e, nextID, closed, pc, call, net>>

Receive(p) ==
  \/ ReceiveData(p)
  \/ ReceiveGrant(p)
  \/ ReceiveResend(p)
  \/ ReceiveUnknown(p)
  \/ ReceiveNeedAck(p)
  \/ ReceiveAck(p)
  \/ ReceiveCutoffs(p)

-----------------------------------------------------------------------------
(* The timer, the handlers and shutdown. *)

\* Time passes an RPC's deadline; nothing of the endpoint notices yet.
DeadlinePasses(o) ==
  /\ o \in Live(e)
  /\ ~e.rpc[o].expired
  /\ e' = [e EXCEPT !.rpc[o].expired = TRUE]
  /\ UNCHANGED <<nextID, closed, cutoffs, pc, call, net>>

\* Mutant: a server does not probe for its acknowledgement.
RetryNoProbe(s, o) ==
  LET r == s.rpc[o] IN
  IF r.rx.len > 0 \/ (IsClient(s, o) /\ ~r.received) THEN RequestMissing(r) ELSE {}

\* What the timer sends for an RPC that was silent for a retry interval.
Retry(s, o) ==
  LET r == s.rpc[o] IN
  IF ~IsClient(s, o) /\ r.tx.len > 0 /\ r.sent = r.tx.len
  THEN {Control("NEED_ACK", r.key)}
  ELSE IF r.rx.len > 0 \/ (IsClient(s, o) /\ ~r.received)
  THEN RequestMissing(r)
  ELSE {}

\* Mutant: the timer starts no handler.
TickNoStart(late, due) ==
  /\ ~closed
  /\ late \subseteq Expired(e)
  /\ \E s \in {Finish(e, late, "deadline")} :
     \E rank \in Rankings(s) :
       /\ due \subseteq Live(s)
       /\ e' = Schedule(s, rank)
       /\ net' = Emit(net, (UNION {Retry(s, o) : o \in due}) \cup Grants(s, rank))
  /\ UNCHANGED <<nextID, closed, cutoffs, pc, call>>

\* Mutant: the timer retries, grants and starts handlers, but never compares a
\* deadline with the clock.
TickKeepsExpired(late, due) ==
  /\ ~closed
  /\ late \subseteq Expired(e)
  /\ \E W \in Starters(e, Waiting(e)) :
     \E t \in {StartHandlers(e, Waiting(e), W)} :
     \E rank \in Rankings(t) :
       /\ due \subseteq Live(t)
       /\ e' = Schedule(t, rank)
       /\ net' = Emit(net, (UNION {Retry(t, o) : o \in due}) \cup Grants(t, rank))
  /\ UNCHANGED <<nextID, closed, cutoffs, pc, call>>

\* One tick.  It compares deadlines with the time at which it was queued, so
\* it finds only some of the expired RPCs (late); due are the silent ones.
Tick(late, due) ==
  /\ ~closed
  /\ late \subseteq Expired(e)
  /\ \E s \in {Finish(e, late, "deadline")} :
     \E W \in Starters(s, Waiting(s)) :
     \E t \in {StartHandlers(s, Waiting(s), W)} :
     \E rank \in Rankings(t) :
       /\ due \subseteq Live(t)
       /\ e' = Schedule(t, rank)
       /\ net' = Emit(net, (UNION {Retry(t, o) : o \in due}) \cup Grants(t, rank))
  /\ UNCHANGED <<nextID, closed, cutoffs, pc, call>>

\* Mutant: a handler that fails lets a retry run it again.
ReleasedRerun(o) ==
  [e EXCEPT !.workers = @ - 1, !.buffered = @ - e.payload[o], !.payload[o] = 0,
            !.rpc[o] = IF Current(e, o) THEN [@ EXCEPT !.handling = FALSE] ELSE Blank]

\* The end of a handler goroutine: the slot and the payload are released in
\* any case, and the response is sent if the RPC is still the same.
Released(o) ==
  [e EXCEPT !.workers = @ - 1, !.buffered = @ - e.payload[o], !.payload[o] = 0,
            !.rpc[o] = IF Current(e, o) THEN @ ELSE Blank]

\* Mutant: after Close the goroutine just returns.
HandlerFailsOpen(o, msg) ==
  /\ e.payload[o] > 0
  /\ ~closed /\ msg.len = 0
  /\ e' = Released(o)
  /\ UNCHANGED <<nextID, closed, cutoffs, pc, call, net>>

HandlerFails(o, msg) ==
  /\ e.payload[o] > 0
  /\ \/ closed
     \/ ~Current(e, o)
     \/ msg.len = 0
     \/ msg.len > MaxMessageSize
     \/ ~Room(Released(o), msg.len)
  /\ e' = Released(o)
  /\ UNCHANGED <<nextID, closed, cutoffs, pc, call, net>>

\* Mutant: the response is not retained.
HandlerRespondsForgets(o, msg) ==
  LET r == [e.rpc[o] EXCEPT !.tx = msg, !.granted = Lesser(msg.len, UnscheduledBytes)] IN
  /\ e.payload[o] > 0
  /\ ~closed
  /\ Current(e, o)
  /\ msg.len \in 1 .. MaxMessageSize
  /\ e' = Remove(Released(o), {o})
  /\ net' = Emit(net, NewSegments(r))
  /\ UNCHANGED <<nextID, closed, cutoffs, pc, call>>

HandlerResponds(o, msg) ==
  LET s == Released(o)
      r == [s.rpc[o] EXCEPT !.tx = msg, !.granted = Lesser(msg.len, UnscheduledBytes)]
      t == [s EXCEPT !.rpc[o] = SendNew(r), !.buffered = @ + msg.len]
  IN /\ e.payload[o] > 0
     /\ ~closed
     /\ Current(e, o)
     /\ msg.len \in 1 .. MaxMessageSize
     /\ Room(s, msg.len)
     /\ \E W \in Starters(t, Waiting(t)) : e' = StartHandlers(t, Waiting(t), W)
     /\ net' = Emit(net, NewSegments(r))
     /\ UNCHANGED <<nextID, closed, cutoffs, pc, call>>

\* writeLoop: the socket refused a packet of o.
WriteFails(o) ==
  /\ o \in Live(e)
  /\ e' = Finish(e, {o}, "write")
  /\ UNCHANGED <<nextID, closed, cutoffs, pc, call, net>>

\* shutdown, by Close or by a failed read.
Shutdown ==
  /\ ~closed
  /\ closed' = TRUE
  /\ e' = Finish(e, Live(e), "closed")
  /\ UNCHANGED <<nextID, cutoffs, pc, call, net>>

-----------------------------------------------------------------------------
(* The specification of an endpoint whose peers may send anything. *)

Messages(max) == [len : 1 .. max, body : Bodies]

\* What can arrive, for lengths, offsets and grants of any size.
Packets ==
  LET Plain == [type : {"RPC_UNKNOWN", "NEED_ACK", "ACK"}, src : Peers,
                dst : {Local}, id : Id, acks : SUBSET Id]
      Ranged == [type : {"GRANT", "RESEND"}, src : Peers,
                dst : {Local}, id : Id, off : Nat, n : Nat]
      Bytes == [type : {"DATA"}, src : Peers, dst : {Local}, id : Id,
                acks : SUBSET Id, body : Bodies, version : Nat,
                len : Nat, off : Nat, n : Nat, incoming : Nat]
      Tables == [type : {"CUTOFFS"}, src : Peers, dst : {Local}, id : Id, version : Nat]
  IN Plain \cup Ranged \cup Bytes \cup Tables

ASSUME IncomingAssumption == Incoming \subseteq Packets

Init ==
  /\ e = [rpcs |-> [k \in Key |-> Nil], rpc |-> [o \in Obj |-> Blank],
          payload |-> [o \in Obj |-> 0], buffered |-> 0, workers |-> 0]
  /\ nextID = 0
  /\ closed = FALSE
  /\ cutoffs = [h \in {} |-> 0]
  /\ pc = [c \in Callers |-> "idle"]
  /\ call = [c \in Callers |-> Nil]
  /\ net = {}

Next ==
  \/ \E c \in Callers, peer \in Peers, msg \in Messages(MaxMessageSize) : Call(c, peer, msg)
  \/ \E c \in Callers : Cancel(c) \/ Abort(c) \/ Return(c)
  \/ \E p \in Incoming : Receive(p)
  \/ \E o \in Obj : DeadlinePasses(o) \/ WriteFails(o)
  \/ \E late \in SUBSET Expired(e), due \in SUBSET Live(e) : Tick(late, due)
  \/ \E o \in Obj, msg \in Messages(MaxMessageSize + 1) \cup {NoMsg} :
       HandlerFails(o, msg) \/ HandlerResponds(o, msg)
  \/ Shutdown

Spec == Init /\ [][Next]_vars

\* The scheduling the code relies on: the timer goroutine keeps ticking (its
\* ticks are at most a retry interval old), goroutines that can take the lock
\* get it, and application handlers return.
Fairness ==
  /\ WF_vars(Tick(Expired(e), {}))
  /\ \A o \in Obj : WF_vars(HandlerFails(o, NoMsg))
  /\ \A c \in Callers : WF_vars(Abort(c)) /\ WF_vars(Return(c))

\* Time passes every deadline.
TimePasses == \A o \in Obj : WF_vars(DeadlinePasses(o))

FairSpec == Spec /\ Fairness

-----------------------------------------------------------------------------
(* Types. *)

Msg == [len : Nat, body : Bodies \cup {Nil}]

Data == UNION {[S -> Bodies] : S \in SUBSET (0 .. MaxMessageSize - 1)}

Errors == {"ok", "canceled", "deadline", "write", "closed"}

Rx == [len : Nat, data : Data, granted : Nat]

Result == [err : Errors, sent : BOOLEAN, data : Data]

Rpc == [key : Key \cup {Nil}, tx : Msg, sent : Nat, granted : Nat, rx : Rx,
        received : BOOLEAN, handling : BOOLEAN, expired : BOOLEAN, result : Seq(Result)]

Table == [rpcs : [Key -> Obj \cup {Nil}], rpc : [Obj -> Rpc], payload : [Obj -> Nat],
          buffered : Int, workers : Int]

\* Type correctness of the endpoint's state.
TypeOK ==
  /\ e \in Table
  /\ nextID \in Nat
  /\ closed \in BOOLEAN
  /\ DOMAIN cutoffs \subseteq {a[1] : a \in Peers}
  /\ \A ip \in DOMAIN cutoffs : cutoffs[ip] \in Nat
  /\ pc \in [Callers -> {"idle", "waiting", "canceled", "draining"}]
  /\ call \in [Callers -> Obj \cup {Nil}]

-----------------------------------------------------------------------------
(* Safety. *)

\* Stats.BufferedBytes is exactly what live RPCs and running handlers hold,
\* and never exceeds Config.MaxBufferedBytes, whatever order completions,
\* cancellations, expiry, acknowledgements and shutdown come in.
BufferedAccounted ==
  /\ e.buffered = Total(Holds(e), Live(e)) + Total(e.payload, Obj)
  /\ e.buffered <= MaxBufferedBytes

\* One worker slot is taken for each handler goroutine that has not returned,
\* also when its RPC is gone or the endpoint is closed, and never more than
\* Config.HandlerWorkers.
WorkersCounted ==
  /\ e.workers = Cardinality({o \in Obj : e.payload[o] > 0})
  /\ e.workers <= HandlerWorkers

\* The table holds at most Config.MaxRPCs RPCs, each under its own key, and
\* cutoffs are remembered for at most as many hosts.
TableSound ==
  /\ Cardinality(Live(e)) <= MaxRPCs
  /\ Cardinality(DOMAIN cutoffs) <= MaxRPCs
  /\ \A k \in Key : e.rpcs[k] # Nil => e.rpc[e.rpcs[k]].key = k

\* A caller inside Call is owed exactly one result: while its RPC is in the
\* table none was delivered, and once it left the table exactly one was, so
\* neither the receive from r.result nor the send to it can block for ever.
CallNotStranded ==
  \A c \in Callers : pc[c] # "idle" =>
    LET o == call[c]
        live == Current(e, o)
    IN /\ Len(e.rpc[o].result) = (IF live THEN 0 ELSE 1)
       /\ pc[c] = "draining" => ~live
       /\ \A d \in Callers \ {c} : call[d] # o

\* The life of a server RPC: assembling, complete and waiting, handler
\* running, responding.  A response is only ever attached to the RPC whose own
\* handler has returned, and a request buffer never outlives its start.
ServerStages ==
  \A o \in Live(e) : LET r == e.rpc[o] IN ~IsClient(e, o) =>
    /\ r.handling => r.received /\ r.rx.len = 0
    /\ ~r.handling => r.tx.len = 0 /\ e.payload[o] = 0 /\ r.rx.len > 0
    /\ e.payload[o] > 0 => r.tx.len = 0
    /\ ~r.handling => (r.received <=> Count(r.rx) = r.rx.len)

\* A sender never stops short of its grant: whatever GRANT or RESEND came in,
\* every granted byte was handed to the queue, in whole segments.
GrantedIsSent ==
  \A o \in Live(e) : LET r == e.rpc[o] IN
    r.tx.len > 0 => /\ r.sent >= Lesser(r.granted, r.tx.len)
                    /\ r.sent <= r.tx.len
                    /\ r.sent % SegmentBytes = 0 \/ r.sent = r.tx.len

\* After shutdown nothing is in the table, nothing enters it, and the budget
\* is held by running handlers only.
ClosedIsEmpty ==
  closed => /\ Live(e) = {}
            /\ e.buffered = Total(e.payload, Obj)

\* A handler starts for an RPC at most once and never after its deadline.
HandlerStartsOnce ==
  [][\A o \in Obj : e.payload[o] = 0 /\ e'.payload[o] > 0 =>
        ~e.rpc[o].handling /\ ~e.rpc[o].expired]_vars

-----------------------------------------------------------------------------
(* Liveness. *)

\* Every Call returns, whatever the peer, the application and Close do, once
\* time passes its deadline.
CallReturns == TimePasses => \A c \in Callers : pc[c] # "idle" ~> pc[c] = "idle"

\* A complete request never waits for ever beside an idle worker, even if its
\* deadline is far away: a handler goroutine that returns early
\* starts no waiting request, and the timer does it instead.
NoIdleWorker == []<>(Waiting(e) = {} \/ e.workers = HandlerWorkers)

\* After Close all budget and all worker slots are given back, once the
\* handlers still running return.
CloseReleases == closed ~> (e.buffered = 0 /\ e.workers = 0)

-----------------------------------------------------------------------------
(* The inductive invariant that the proofs use: first of the table s.       *)

Keyed(s) == \A k \in Key : s.rpcs[k] # Nil => s.rpc[s.rpcs[k]].key = k

\* A struct that left the table holds nothing.
Vacant(s) ==
  \A o \in Obj : o \notin Live(s) => s.rpc[o].tx = NoMsg /\ s.rpc[o].rx = NoRx

\* A handler runs for a server RPC that has no response yet.
Serving(s) ==
  \A o \in Obj : s.payload[o] > 0 =>
    s.rpc[o].key \in Key /\ ~IsClient(s, o) /\ s.rpc[o].tx = NoMsg

Unstarted(s) ==
  \A o \in Live(s) : ~IsClient(s, o) /\ ~s.rpc[o].handling =>
    s.rpc[o].tx = NoMsg /\ s.payload[o] = 0

\* A call has its result once it left the table, and not before.
Answered(s) ==
  \A o \in Obj : s.rpc[o].key \in Key /\ IsClient(s, o) =>
    Len(s.rpc[o].result) = IF o \in Live(s) THEN 0 ELSE 1

Accounted(s) ==
  /\ s.buffered = Total(Holds(s), Obj) + Total(s.payload, Obj)
  /\ s.buffered <= MaxBufferedBytes

Busy(s) == {o \in Obj : s.payload[o] > 0}

Slots(s) == s.workers = Cardinality(Busy(s)) /\ s.workers <= HandlerWorkers

Good(s) ==
  /\ s \in Table
  /\ Keyed(s) /\ Vacant(s) /\ Serving(s) /\ Unstarted(s) /\ Answered(s)
  /\ Accounted(s) /\ Slots(s)

\* A caller inside Call has a struct of its own, a call's.
Claimed ==
  \A c \in Callers :
    IF pc[c] = "idle" THEN call[c] = Nil
    ELSE /\ call[c] \in Obj /\ e.rpc[call[c]].key \in Key /\ IsClient(e, call[c])
         /\ pc[c] = "draining" => call[c] \notin Live(e)
         /\ \A d \in Callers \ {c} : call[d] # call[c]

\* Identifiers of calls are even and given out in order.
Numbered ==
  /\ nextID % 2 = 0
  /\ \A k \in Key : IsClientID(k[2]) /\ e.rpcs[k] # Nil => k[2] <= nextID

Bounded ==
  /\ Cardinality(Live(e)) <= MaxRPCs
  /\ IsFiniteSet(DOMAIN cutoffs) /\ Cardinality(DOMAIN cutoffs) <= MaxRPCs
  /\ closed => Live(e) = {}

\* The inductive invariant of an endpoint (endpoint.go): the budget counts
\* exactly what structs and handlers hold, a struct that left the table holds
\* nothing, calls have one result or are in the table, callers share no struct.
IInv == TypeOK /\ Good(e) /\ Claimed /\ Numbered /\ Bounded

\* What was sent of a message: nothing before there is one, and then whatever was
\* granted.  A call keeps the count of a request that it has dropped.
Paces(r) ==
  IF r.tx.len = 0 THEN r.sent = 0 \/ IsClientID(r.key[2])
  ELSE /\ r.sent >= Lesser(r.granted, r.tx.len)
       /\ r.sent <= r.tx.len
       /\ r.sent % SegmentBytes = 0 \/ r.sent = r.tx.len

\* How far a request has come.
Staged(r) ==
  IF r.handling THEN r.received /\ r.rx.len = 0
  ELSE r.rx.len > 0 /\ (r.received <=> Count(r.rx) = r.rx.len)

\* A struct whose handler may start.
Fresh(r) == ~r.handling /\ ~r.expired

Alive(r) == Paces(r) /\ (~IsClientID(r.key[2]) => Staged(r))

Sound(s) == \A o \in Obj : IF o \in Live(s) THEN Alive(s.rpc[o]) ELSE Fresh(s.rpc[o])

\* The inductive invariant with the stages of a request and the pace of a sender
\* (endpoint.go): every RPC of the table is in one of its stages and has sent what
\* it may, and a struct outside the table is as good as new.
SInv == IInv /\ Sound(e)

=============================================================================
