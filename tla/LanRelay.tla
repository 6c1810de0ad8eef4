------------------------------ MODULE LanRelay ------------------------------
(***************************************************************************)
(* The relay between one LAN peer and a Linux kernel in a virtual machine  *)
(* (interop/lanrelay/main.go).  Two goroutines carry packets, lanToVM from *)
(* the raw socket to QEMU's Ethernet stream and vmToLAN the other way; run *)
(* starts the guest, polls its console, decides when the evidence is       *)
(* complete, and reports on every way out.                                 *)
(*                                                                         *)
(* What the peers send is given by the constants FromLAN and FromVM.       *)
(* Lengths, checksum and version of an IP header are one field (whole).    *)
(***************************************************************************)
EXTENDS Sums, FiniteSetsExt

CONSTANTS
  FromLAN,      \* IP datagrams that may reach the raw socket
  FromVM,       \* Ethernet frames that the guest may send
  TOS,          \* traffic classes
  Nothing,      \* no packet, no report
  Required,     \* 8: ACKs and served requests that complete a run
  MaxAcks,      \* 1024: the most identifiers state.acks holds
  FrameParts,   \* the most writes it takes to put one frame on the stream
  MaxLAN,       \* bound: datagrams read from the LAN
  MaxVM         \* bound: frames read from the guest

ASSUME RelayAssumption ==
  /\ {Required, MaxAcks, FrameParts} \subseteq Nat \ {0}
  /\ {MaxLAN, MaxVM} \subseteq Nat
  /\ IsFiniteSet(TOS)
  /\ \A p \in FromLAN \cup FromVM : p.tos \in TOS
  /\ Nothing \notin {"lan", "vm", "ok"}

VARIABLES
  path,     \* lanToVM and vmToLAN: where each is, its packet, the parts still to write
  lock,     \* nic.mu: the goroutine that holds it
  stream,   \* the Ethernet stream: whose frame is unfinished, what went wrong
  r,        \* state.r, under state.mu
  acks,     \* state.acks
  raw,      \* the raw socket is open
  conn,     \* the connection to QEMU is open
  errorsCh, \* the errors in the channel
  runCtx,      \* "running", or "done"
  stopIO,   \* the AfterFunc: "armed", "stopped" or "fired"
  guest,    \* the QEMU process: "none", "running", "exited"; wait has its result
  log,      \* what the guest's console has shown
  main,     \* where run is, and what it will return
  ready,    \* run's variable ready
  file,     \* the ready file exists
  out,      \* the report that was written
  actual    \* what really crossed: frames, their acks, datagrams (history)

counts == <<r, acks, actual>>
pathVars == <<path, lock, stream, counts>>
runVars == <<runCtx, stopIO, guest, log, main, ready, file, out>>
relayVars == <<pathVars, raw, conn, errorsCh, runVars>>

-----------------------------------------------------------------------------
(* Packets. *)

nativePacket(ip, source, destination) ==
  ip.whole /\ ip.proto = 146 /\ ~ip.fragment /\ ip.src = source /\ ip.dst = destination

\* h.long: as long as the header of its type.
allowedHoma(h, fromLAN) ==
  /\ h.long
  /\ <<h.sport, h.dport>> \in IF fromLAN THEN {<<4003, 4000>>, <<4001, 4002>>}
                                         ELSE {<<4000, 4003>>, <<4002, 4001>>}
  /\ h.type \in {"DATA", "GRANT", "RESEND", "RPC_UNKNOWN", "BUSY", "CUTOFFS", "NEED_ACK", "ACK"}

\* The identifiers that a packet acknowledges: noteAcks.
Acknowledged(h) ==
  LET listed == {a[1] : a \in {x \in h.acks : x[2] = 4000}}
      ids == CASE h.type = "DATA" -> listed
               [] h.type = "ACK" -> {h.id} \cup (IF Cardinality(h.acks) <= 5 THEN listed ELSE {})
               [] OTHER -> {}
  IN {id \in ids : <<h.sport, h.dport>> = <<4003, 4000>> /\ id # 0 /\ id % 2 = 0}

\* A packet has room for five records.
ASSUME AckAssumption == \A p \in FromLAN : IsFiniteSet(Acknowledged(p.homa))

\* Past MaxAcks no identifier is added; the order of the records is left open.
noteAcks(h) ==
  \E s \in SUBSET Acknowledged(h) :
    /\ Cardinality(acks \cup s) =
         Min({MaxAcks, Cardinality(acks \cup Acknowledged(h))})
    /\ acks' = acks \cup s

-----------------------------------------------------------------------------
(* What both goroutines do: they share the Ethernet stream (nic.write). *)

Path == {"lan", "vm"}

Idle == [pc |-> "read", packet |-> Nothing, left |-> 0]

At(who, pc) == path[who].pc = pc

PathGoes(who, g) == path' = [path EXCEPT ![who] = g]

\* Mutant: nic.write without its mutex.
NicLocksNot(who) ==
  /\ At(who, "lock")
  /\ PathGoes(who, [path[who] EXCEPT !.pc = "write"])
  /\ UNCHANGED <<lock, stream, counts, raw, conn, errorsCh, runVars>>

\* Mutant: the acks are noted before the packet is forwarded.
NicLocksNotes(who) ==
  /\ At(who, "lock")
  /\ lock = Nothing
  /\ lock' = who
  /\ PathGoes(who, [path[who] EXCEPT !.pc = "write"])
  /\ IF who = "lan" THEN noteAcks(path[who].packet.homa) ELSE UNCHANGED acks
  /\ UNCHANGED <<stream, r, actual, raw, conn, errorsCh, runVars>>

NicLocks(who) ==
  /\ At(who, "lock")
  /\ lock = Nothing
  /\ lock' = who
  /\ PathGoes(who, [path[who] EXCEPT !.pc = "write"])
  /\ UNCHANGED <<stream, counts, raw, conn, errorsCh, runVars>>

\* The parts of the frame that one conn.Write may take.
Portions(who) == 1 .. path[who].left

NicWrites(who) ==
  /\ At(who, "write")
  /\ conn
  /\ \E n \in Portions(who) :
       LET done == n = path[who].left
       IN /\ stream' = [open |-> IF done THEN Nothing ELSE who,
                        torn |-> stream.torn \/ stream.open \notin {Nothing, who}]
          /\ lock' = IF done THEN Nothing ELSE lock
          /\ PathGoes(who, IF ~done THEN [path[who] EXCEPT !.left = @ - n]
                       ELSE IF who = "lan" THEN [path[who] EXCEPT !.pc = "count", !.left = 0]
                       ELSE Idle)
          /\ actual' = IF ~done \/ who = "vm" THEN actual
                       ELSE [actual EXCEPT !.frames = @ + 1,
                                           !.acks = @ \cup Acknowledged(path[who].packet.homa)]
  /\ UNCHANGED <<r, acks, raw, conn, errorsCh, runVars>>

\* go func() { errorsCh <- lanToVM(...) }: the channel has room for both errors.
PathReturns(who) ==
  /\ errorsCh' = errorsCh \cup {who}
  /\ PathGoes(who, [Idle EXCEPT !.pc = "returned"])

\* The connection is closed, or a write's deadline passes.
NicWriteFails(who) ==
  /\ At(who, "write")
  /\ lock' = Nothing
  /\ PathReturns(who)
  /\ UNCHANGED <<stream, counts, raw, conn, runVars>>

\* Any other error: of a read, of setsockopt, of a deadline, of WriteToIP.
PathFails(who) ==
  /\ path[who].pc \in {"read", "note", "send"}
  /\ PathReturns(who)
  /\ UNCHANGED <<lock, stream, counts, raw, conn, runVars>>

-----------------------------------------------------------------------------
(* lanToVM. *)

LanReads ==
  /\ At("lan", "read")
  /\ raw
  /\ r.DroppedLAN + r.LANToVM < MaxLAN
  /\ \E ip \in FromLAN :
       IF nativePacket(ip, "peer", "local") /\ ~ip.truncated /\ allowedHoma(ip.homa, TRUE)
         THEN PathGoes("lan", [pc |-> "lock", packet |-> ip, left |-> FrameParts]) /\ UNCHANGED r
         ELSE r' = [r EXCEPT !.DroppedLAN = @ + 1] /\ UNCHANGED path
  /\ UNCHANGED <<lock, stream, acks, actual, raw, conn, errorsCh, runVars>>

LanCounts ==
  /\ At("lan", "count")
  /\ r' = [r EXCEPT !.LANToVM = @ + 1, !.LANTOS[path["lan"].packet.tos] = @ + 1]
  /\ noteAcks(path["lan"].packet.homa)
  /\ PathGoes("lan", Idle)
  /\ UNCHANGED <<lock, stream, actual, raw, conn, errorsCh, runVars>>

-----------------------------------------------------------------------------
(* vmToLAN. *)

VmReads ==
  /\ At("vm", "read")
  /\ conn
  /\ actual.read < MaxVM
  /\ actual' = [actual EXCEPT !.read = @ + 1]
  /\ \E f \in FromVM :
       IF f.ether = "arp" /\ f.asksHost
         THEN PathGoes("vm", [pc |-> "lock", packet |-> f, left |-> FrameParts]) /\ UNCHANGED r
       ELSE IF f.ether # "ip" \/ f.mac # "guest"
         THEN UNCHANGED <<path, r>>
       ELSE IF nativePacket(f, "guest", "host") /\ allowedHoma(f.homa, FALSE)
         THEN PathGoes("vm", [pc |-> "note", packet |-> f, left |-> 0]) /\ UNCHANGED r
         ELSE r' = [r EXCEPT !.DroppedVM = @ + 1] /\ UNCHANGED path
  /\ UNCHANGED <<lock, stream, acks, raw, conn, errorsCh, runVars>>

\* The socket has the packet's traffic class: count what is asked of it.
VmNotes ==
  LET tos == path["vm"].packet.tos
  IN /\ At("vm", "note")
     /\ raw
     /\ r' = [r EXCEPT !.VMTOS[tos] = @ + 1, !.EgressTOS[tos] = @ + 1]
     /\ PathGoes("vm", [path["vm"] EXCEPT !.pc = "send"])
     /\ UNCHANGED <<lock, stream, acks, actual, raw, conn, errorsCh, runVars>>

VmSends ==
  /\ At("vm", "send")
  /\ raw
  /\ actual' = [actual EXCEPT !.datagrams = @ + 1]
  /\ PathGoes("vm", [path["vm"] EXCEPT !.pc = "count"])
  /\ UNCHANGED <<lock, stream, r, acks, raw, conn, errorsCh, runVars>>

\* Mutant: a dropped datagram is counted as sent too.
VmSendDropsCounted ==
  /\ At("vm", "send")
  /\ r' = [r EXCEPT !.DroppedVM = @ + 1, !.SendDrops = @ + 1]
  /\ PathGoes("vm", [path["vm"] EXCEPT !.pc = "count"])
  /\ UNCHANGED <<lock, stream, acks, actual, raw, conn, errorsCh, runVars>>

\* transientSendDrop: a full socket buffer costs this datagram only.
VmSendDrops ==
  /\ At("vm", "send")
  /\ raw
  /\ r' = [r EXCEPT !.DroppedVM = @ + 1, !.SendDrops = @ + 1]
  /\ PathGoes("vm", Idle)
  /\ UNCHANGED <<lock, stream, acks, actual, raw, conn, errorsCh, runVars>>

VmCounts ==
  /\ At("vm", "count")
  /\ r' = [r EXCEPT !.VMToLAN = @ + 1]
  /\ PathGoes("vm", Idle)
  /\ UNCHANGED <<lock, stream, acks, actual, raw, conn, errorsCh, runVars>>

-----------------------------------------------------------------------------
(* The context, the guest and its console. *)

\* The duration is over, or a signal arrives.
RunEnds ==
  /\ runCtx = "running"
  /\ main.pc # "start"
  /\ runCtx' = "done"
  /\ UNCHANGED <<pathVars, raw, conn, errorsCh, stopIO, guest, log, main, ready, file, out>>

\* The AfterFunc: raw.Close, then conn.Close.
StopsRaw ==
  /\ runCtx = "done"
  /\ stopIO = "armed"
  /\ stopIO' = "fired"
  /\ raw' = FALSE
  /\ UNCHANGED <<pathVars, conn, errorsCh, runCtx, guest, log, main, ready, file, out>>

StopsConn ==
  /\ stopIO = "fired"
  /\ stopIO' = "over"
  /\ conn' = FALSE
  /\ UNCHANGED <<pathVars, raw, errorsCh, runCtx, guest, log, main, ready, file, out>>

\* The guest prints one more line (qemu/guest_init.c): its server is ready before
\* its clients start, and an error ends it.
GuestPrints ==
  /\ guest = "running"
  /\ "FAIL" \notin log.lines
  /\ \/ \E line \in (IF "READY" \in log.lines THEN {"PASS", "FAIL"} ELSE {"READY", "FAIL"}) :
          log' = [log EXCEPT !.lines = @ \cup {line}]
     \/ /\ "READY" \in log.lines
        /\ log.served < Required
        /\ log' = [log EXCEPT !.served = @ + 1]
  /\ UNCHANGED <<pathVars, raw, conn, errorsCh, runCtx, stopIO, guest, main, ready, file, out>>

\* It ends by itself, is killed by the context or by run: wait has the result.
GuestExits ==
  /\ guest = "running"
  /\ guest' = "exited"
  /\ UNCHANGED <<pathVars, raw, conn, errorsCh, runCtx, stopIO, log, main, ready, file, out>>

-----------------------------------------------------------------------------
(* run. *)

MainGoes(pc, result) == main' = [pc |-> pc, result |-> result]

\* Flags and credentials are checked before the old ready file is removed, the
\* sockets are opened and the guest is started after it.
StartFails ==
  /\ main.pc = "start"
  /\ MainGoes("done", "error")
  /\ file' \in {file, FALSE}
  /\ UNCHANGED <<pathVars, raw, conn, errorsCh, runCtx, stopIO, guest, log, ready, out>>

\* Mutant: the ready file of an earlier run is not removed.
StartKeepsFile ==
  /\ main.pc = "start"
  /\ raw' = TRUE
  /\ guest' = "running"
  /\ MainGoes("accept", Nothing)
  /\ UNCHANGED <<pathVars, conn, errorsCh, runCtx, stopIO, log, ready, file, out>>

Start ==
  /\ main.pc = "start"
  /\ file' = FALSE
  /\ raw' = TRUE
  /\ guest' = "running"
  /\ MainGoes("accept", Nothing)
  /\ UNCHANGED <<pathVars, conn, errorsCh, runCtx, stopIO, log, ready, out>>

AcceptVM ==
  /\ main.pc = "accept"
  /\ conn' = TRUE
  /\ path' = [who \in Path |-> Idle]
  /\ stopIO' = "armed"
  /\ MainGoes("loop", Nothing)
  /\ UNCHANGED <<lock, stream, counts, raw, errorsCh, runCtx, guest, log, ready, file, out>>

\* The listener's deadline passes.
AcceptVMFails ==
  /\ main.pc = "accept"
  /\ MainGoes("reap", "error")
  /\ UNCHANGED <<pathVars, raw, conn, errorsCh, runCtx, stopIO, guest, log, ready, file, out>>

\* select: the context, the errors of the two goroutines, the end of the guest.
ContextDone ==
  /\ main.pc = "loop"
  /\ runCtx = "done"
  /\ MainGoes("closeConn", "error")
  /\ UNCHANGED <<pathVars, raw, conn, errorsCh, runCtx, stopIO, guest, log, ready, file, out>>

PathError ==
  /\ main.pc = "loop"
  /\ \E e \in errorsCh : errorsCh' = errorsCh \ {e}
  /\ MainGoes("closeConn", "error")
  /\ UNCHANGED <<pathVars, raw, conn, runCtx, stopIO, guest, log, ready, file, out>>

GuestGone ==
  /\ main.pc = "loop"
  /\ guest = "exited"
  /\ guest' = "waited"
  /\ MainGoes("closeConn", "error")
  /\ UNCHANGED <<pathVars, raw, conn, errorsCh, runCtx, stopIO, log, ready, file, out>>

Evidence == "PASS" \in log.lines /\ log.served >= Required /\ Cardinality(acks) >= Required

\* One tick of the polling loop.  written: the ready file can be written;
\* late: bootDeadline has passed.
Tick ==
  /\ main.pc = "loop"
  /\ \E written, late \in BOOLEAN :
       LET failed == "FAIL" \in log.lines
           shown == ~failed /\ ~ready /\ "READY" \in log.lines
       IN /\ ready' = (ready \/ shown)
          /\ file' = (file \/ (shown /\ written))
          /\ IF failed \/ (shown /\ ~written) \/ (~ready' /\ late)
               THEN MainGoes("closeConn", "error")
             ELSE IF ready' /\ Evidence
               THEN MainGoes("closeConn", "ok")
             ELSE UNCHANGED main
  /\ UNCHANGED <<pathVars, raw, conn, errorsCh, runCtx, stopIO, guest, log, out>>

\* The deferred calls, last first: stopIO and conn.Close;
CloseConn ==
  /\ main.pc = "closeConn"
  /\ stopIO' = IF stopIO = "armed" /\ runCtx = "running" THEN "stopped" ELSE stopIO
  /\ conn' = FALSE
  /\ MainGoes("reap", main.result)
  /\ UNCHANGED <<pathVars, raw, errorsCh, runCtx, guest, log, ready, file, out>>

\* cancel and Kill;
Reap ==
  /\ main.pc = "reap"
  /\ runCtx' = "done"
  /\ MainGoes("wait", main.result)
  /\ UNCHANGED <<pathVars, raw, conn, errorsCh, stopIO, guest, log, ready, file, out>>

\* Mutant: no time limit on the wait.
WaitForever ==
  /\ main.pc = "wait"
  /\ guest = "exited"
  /\ guest' = "waited"
  /\ MainGoes("report", main.result)
  /\ UNCHANGED <<pathVars, raw, conn, errorsCh, runCtx, stopIO, log, ready, file, out>>

\* the end of the guest, or five seconds;
Wait ==
  /\ main.pc = "wait"
  /\ \/ guest = "exited" /\ guest' = "waited"
     \/ UNCHANGED guest
  /\ MainGoes("report", main.result)
  /\ UNCHANGED <<pathVars, raw, conn, errorsCh, runCtx, stopIO, log, ready, file, out>>

\* the ready file, the snapshot and the report, and raw.Close.  The process ends.
Report ==
  /\ main.pc = "report"
  /\ file' = FALSE
  /\ out' = [complete |-> main.result = "ok", acks |-> acks, log |-> log]
  /\ raw' = FALSE
  /\ MainGoes("done", main.result)
  /\ UNCHANGED <<pathVars, conn, errorsCh, runCtx, stopIO, guest, log, ready>>

-----------------------------------------------------------------------------
NoCounts ==
  [LANToVM |-> 0, VMToLAN |-> 0, DroppedLAN |-> 0, DroppedVM |-> 0, SendDrops |-> 0,
   LANTOS |-> [t \in TOS |-> 0], VMTOS |-> [t \in TOS |-> 0], EgressTOS |-> [t \in TOS |-> 0]]

\* A ready file of an earlier run may be there.
RelayInit ==
  /\ path = [who \in Path |-> [Idle EXCEPT !.pc = "none"]]
  /\ lock = Nothing
  /\ stream = [open |-> Nothing, torn |-> FALSE]
  /\ r = NoCounts
  /\ acks = {}
  /\ raw = FALSE
  /\ conn = FALSE
  /\ errorsCh = {}
  /\ runCtx = "running"
  /\ stopIO = "none"
  /\ guest = "none"
  /\ log = [lines |-> {}, served |-> 0]
  /\ main = [pc |-> "start", result |-> Nothing]
  /\ ready = FALSE
  /\ file \in BOOLEAN
  /\ out = Nothing
  /\ actual = [frames |-> 0, acks |-> {}, datagrams |-> 0, read |-> 0]

Nic(who) ==
  NicLocks(who) \/ NicWrites(who) \/ NicWriteFails(who) \/ PathFails(who)

LanToVM == Nic("lan") \/ LanReads \/ LanCounts

VmToLAN == Nic("vm") \/ VmReads \/ VmNotes \/ VmSends \/ VmSendDrops \/ VmCounts

Run ==
  \/ Start \/ StartFails \/ AcceptVM \/ AcceptVMFails \/ ContextDone \/ PathError \/ GuestGone
  \/ Tick \/ CloseConn \/ Reap \/ Wait \/ Report

\* The process runs its goroutines until main returns.
RelayNext ==
  /\ main.pc # "done"
  /\ \/ LanToVM \/ VmToLAN \/ Run
     \/ RunEnds \/ StopsRaw \/ StopsConn \/ GuestPrints \/ GuestExits

RelaySpec == RelayInit /\ [][RelayNext]_relayVars

\* The context ends within -duration and its case of the select then stays ready;
\* everything else that run waits for has a deadline of its own.
RelayFairness ==
  /\ WF_relayVars(AcceptVM \/ AcceptVMFails)
  /\ WF_relayVars(RunEnds)
  /\ WF_relayVars(ContextDone)
  /\ WF_relayVars(CloseConn \/ Reap \/ Wait \/ Report)

RelayFairSpec == RelaySpec /\ RelayFairness

-----------------------------------------------------------------------------
(* Properties. *)

Place == {"none", "read", "lock", "write", "count", "note", "send", "returned"}

Carrier == [pc : Place, packet : FromLAN \cup FromVM \cup {Nothing}, left : 0 .. FrameParts]

Counters ==
  [LANToVM : Nat, VMToLAN : Nat, DroppedLAN : Nat, DroppedVM : Nat, SendDrops : Nat,
   LANTOS : [TOS -> Nat], VMTOS : [TOS -> Nat], EgressTOS : [TOS -> Nat]]

AckIds == UNION {Acknowledged(p.homa) : p \in FromLAN}

\* Every variable has its type.
RelayTypeOK ==
  /\ path \in [Path -> Carrier]
  /\ lock \in Path \cup {Nothing}
  /\ stream \in [open : Path \cup {Nothing}, torn : BOOLEAN]
  /\ r \in Counters
  /\ IsFiniteSet(acks)
  /\ errorsCh \subseteq Path
  /\ {raw, conn, ready, file} \subseteq BOOLEAN
  /\ log \in [lines : SUBSET {"READY", "PASS", "FAIL"}, served : 0 .. Required]
  /\ actual \in [frames : Nat, acks : SUBSET AckIds, datagrams : Nat, read : Nat]

\* What run calls complete (main.go:507) still is in the report that it writes
\* later, with the guest killed and the packet goroutines perhaps running: the guest
\* passed and served, and every ACK that counts had reached the guest in a whole
\* frame.
CompleteIsEarned ==
  out # Nothing /\ out.complete =>
    /\ "PASS" \in out.log.lines
    /\ out.log.served >= Required
    /\ Cardinality(out.acks) >= Required
    /\ out.acks \subseteq actual.acks

\* The counters never claim a packet that did not cross, and miss at most the one
\* that each goroutine has in its hands; classes and totals agree (main.go:239-246,
\* 294-314).
CountersHonest ==
  LET unsettled == Total(r.EgressTOS, TOS) - r.VMToLAN - r.SendDrops
  IN /\ actual.frames - r.LANToVM = IF At("lan", "count") THEN 1 ELSE 0
     /\ actual.datagrams - r.VMToLAN = IF At("vm", "count") THEN 1 ELSE 0
     /\ Total(r.LANTOS, TOS) = r.LANToVM
     /\ r.VMTOS = r.EgressTOS
     /\ unsettled \in {0, 1}
     /\ unsettled = 1 => path["vm"].pc \in {"send", "count", "returned"}
     /\ r.SendDrops <= r.DroppedVM

\* The frames of the two goroutines do not mix on QEMU's stream (nic.mu,
\* main.go:144-164), except behind a frame whose writer gave up in the middle.
StreamWhole == stream.torn => \E who \in Path : At(who, "returned")

\* The ready file tells of this run and of a guest that is ready, and is gone when
\* run returns (main.go:397: "created after guest server readiness, removed at
\* exit").  Only a run that fails before its guest starts leaves an old one behind.
ReadyFileScoped ==
  file => \/ main.pc = "start"
          \/ guest = "none"
          \/ /\ "READY" \in log.lines
             /\ main.pc \in {"loop", "closeConn", "reap", "wait", "report"}

\* Once its guest runs, run returns and leaves a report, whatever the guest, the
\* peers and the two goroutines do (main.go:444-467).
AlwaysReports == (main.pc = "accept") ~> (main.pc = "done" /\ out # Nothing)

-----------------------------------------------------------------------------
(* The inductive invariant. *)

\* Before the connection neither goroutine runs, and only this run's guest can
\* have made it leave the start.
Begun ==
  /\ main.pc \in {"start", "accept"} => \A who \in Path : At(who, "none")
  /\ main.pc = "start" => guest = "none"
  /\ guest = "none" => main.pc \in {"start", "done"}

\* What each goroutine has in its hands; a counted frame has crossed.
Carried ==
  /\ path["lan"].pc \notin {"note", "send"}
  /\ path["lan"].pc \in {"lock", "write", "count"} => path["lan"].packet \in FromLAN
  /\ path["vm"].pc \in {"lock", "write", "note", "send", "count"} => path["vm"].packet \in FromVM
  /\ At("lan", "count") => Acknowledged(path["lan"].packet.homa) \subseteq actual.acks

\* The mutex belongs to the goroutine that writes, and an unfinished frame to it
\* or to one that gave up.
Unmixed ==
  /\ \A who \in Path : lock = who <=> At(who, "write")
  /\ \A who \in Path : stream.open = who => path[who].pc \in {"write", "returned"}

\* The evidence for a success outlives the decision.
Earned ==
  /\ acks \subseteq actual.acks
  /\ main.result = "ok" => Evidence

\* A request of a class is settled when its datagram was sent and counted, or dropped.
Settled ==
  LET unsettled == Total(r.EgressTOS, TOS) - r.VMToLAN - r.SendDrops
  IN /\ path["vm"].pc \in {"send", "count"} => unsettled = 1
     /\ path["vm"].pc \in {"none", "read", "lock", "write", "note"} => unsettled = 0

RInv ==
  /\ RelayTypeOK /\ Begun /\ Carried /\ Unmixed /\ Earned /\ Settled
  /\ CompleteIsEarned /\ CountersHonest /\ StreamWhole /\ ReadyFileScoped

=============================================================================
