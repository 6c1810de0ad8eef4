------------------------------ MODULE PacketIO ------------------------------
(***************************************************************************)
(* The two PacketIO implementations an endpoint sits on: rawIP, the raw    *)
(* IPv4 socket (rawip.go), and nic, the VM check's stream to QEMU          *)
(* (interop/vmcheck/main.go).  Both share one descriptor between           *)
(* goroutines: rawIP sets the socket's IP_TOS before each send and reads   *)
(* through one buffer; nic writes length-prefixed frames to one stream,    *)
(* and its reader writes as well, when it answers ARP.                     *)
(*                                                                         *)
(* A packet is its priority.  What arrives is told apart by what           *)
(* ReadPacket does with it: "fits", "long" (more than the caller's         *)
(* buffer), "arp" (nic: a request for the host's address) or "other" (nic: *)
(* a frame that is skipped).                                               *)
(***************************************************************************)
EXTENDS Naturals, Sequences, FiniteSets

CONSTANTS
  Writers,      \* goroutines that call WritePacket
  Readers,      \* goroutines that call ReadPacket
  Priorities,
  Arrivals,     \* what the network delivers, once each
  Class,        \* Class[a]: what ReadPacket does with a
  Parts,        \* bound: into how many writes a frame may fall
  MaxWrites,    \* bound: calls of WritePacket
  MaxArrivals,  \* bound: arrivals
  None

Users == Writers \cup Readers

ASSUME PacketIOAssumption ==
  /\ Writers \cap Readers = {}
  /\ Priorities \subseteq 0..7
  /\ None \notin Users /\ None \notin Priorities /\ None \notin Arrivals
  /\ Parts \in Nat \ {0}
  /\ Class \in [Arrivals -> {"fits", "long", "arp", "other"}]

VARIABLES
  kind,         \* the implementation: "raw" or "nic"
  closing,      \* Close: "no", "asked" or "done"
  writer,       \* who holds writeMu, or mu of nic
  reader,       \* who holds readMu
  tos,          \* IP_TOS of the socket
  at,           \* where each goroutine is
  packet,       \* the priority of what it is writing
  left,         \* parts of its frame that are not written yet
  fate,         \* of each arrival: "away", "queued", "taken" or "gone"
  readBuf,      \* the buffer that rawIP's readers share
  took,         \* what each reader took from the queue
  returned,     \* what ReadPacket returned
  sent,         \* <<priority of a packet, type of service it left with>>
  writes        \* calls of WritePacket so far

vars == <<kind, closing, writer, reader, tos, at, packet, left, fate, readBuf, took,
          returned, sent, writes>>
inVars == <<reader, fate, readBuf, took, returned>>
outVars == <<writer, tos, packet, left, sent, writes>>
sideVars == <<kind, closing>>

Goes(u, pc) == at' = [at EXCEPT ![u] = pc]

-----------------------------------------------------------------------------
(* WritePacket. *)

WritePacket(w, p) ==
  /\ at[w] = "idle"
  /\ writes < MaxWrites
  /\ writes' = writes + 1
  /\ packet' = [packet EXCEPT ![w] = p]
  /\ Goes(w, "lock")
  /\ UNCHANGED <<sideVars, inVars, writer, tos, left, sent>>

\* Mutant: rawIP without writeMu.
MayLockRaw(u) == kind = "raw" \/ writer = None

MayLock(u) == writer = None

\* The mutex, then the deadline of 250 ms.
Lock(u) ==
  /\ at[u] = "lock"
  /\ MayLock(u)
  /\ writer' = u
  /\ left' = [left EXCEPT ![u] = Parts]
  /\ Goes(u, IF kind = "raw" THEN "option" ELSE "write")
  /\ UNCHANGED <<sideVars, inVars, tos, packet, sent, writes>>

\* The IPv4 precedence bits.
Precedence(p) == 32 * p

\* IP_TOS is of the socket, not of the packet.
SetOption(u) ==
  /\ at[u] = "option"
  /\ closing # "done"
  /\ tos' = Precedence(packet[u])
  /\ Goes(u, "write")
  /\ UNCHANGED <<sideVars, inVars, writer, packet, left, sent, writes>>

\* The mutex is released and the packet forgotten.
Unlock(u, pc) ==
  /\ writer' = None
  /\ packet' = [packet EXCEPT ![u] = None]
  /\ left' = [left EXCEPT ![u] = 0]
  /\ Goes(u, pc)

\* The kernel fills in the IP header for rawIP, nic does so itself.
Marked(u) == IF kind = "raw" THEN tos ELSE Precedence(packet[u])

\* rawIP sends one datagram; nic writes what the stream takes of its frame.  A
\* reader that has answered ARP goes on reading.
WriteSome(u) ==
  /\ at[u] = "write"
  /\ closing # "done"
  /\ \E n \in 1..left[u] :
       /\ kind = "raw" => n = left[u]
       /\ IF n < left[u]
          THEN /\ left' = [left EXCEPT ![u] = @ - n]
               /\ UNCHANGED <<at, writer, packet, sent>>
          ELSE /\ sent' = IF packet[u] = None THEN sent ELSE sent \cup {<<packet[u], Marked(u)>>}
               /\ Unlock(u, IF u \in Readers THEN "read" ELSE "idle")
  /\ UNCHANGED <<sideVars, inVars, tos, writes>>

\* The deadline passes, the route is gone, or the descriptor is closed.
WriteFails(u) ==
  /\ at[u] \in {"option", "write"}
  /\ Unlock(u, "idle")
  /\ UNCHANGED <<sideVars, inVars, tos, sent, writes>>

-----------------------------------------------------------------------------
(* ReadPacket. *)

\* One goroutine at a time reads nic, the read loop of its endpoint.
ReadPacket(r) ==
  /\ at[r] = "idle"
  /\ closing # "done"
  /\ kind = "nic" => \A q \in Readers : at[q] = "idle"
  /\ Goes(r, IF kind = "raw" THEN "readLock" ELSE "read")
  /\ UNCHANGED <<sideVars, inVars, outVars>>

\* Mutant: rawIP without readMu.
MayReadAlways(r) == TRUE

MayRead(r) == reader = None

ReadLock(r) ==
  /\ at[r] = "readLock"
  /\ MayRead(r)
  /\ reader' = r
  /\ Goes(r, "read")
  /\ UNCHANGED <<sideVars, outVars, fate, readBuf, took, returned>>

\* ReadFromIP, or one frame of nic.
Receive(r, a) ==
  /\ at[r] = "read"
  /\ closing # "done"
  /\ fate[a] = "queued"
  /\ fate' = [fate EXCEPT ![a] = "taken"]
  /\ readBuf' = a
  /\ took' = [took EXCEPT ![r] = a]
  /\ Goes(r, "use")
  /\ UNCHANGED <<sideVars, outVars, reader, returned>>

\* nic has a buffer of its own for each frame.
Held(r) == IF kind = "raw" THEN readBuf ELSE took[r]

\* Mutant: nic answers without mu.
AfterAtOnce(class) ==
  IF class = "arp" THEN "write" ELSE IF class = "other" THEN "read" ELSE "idle"

\* What fits is returned, what is too long is discarded with io.ErrShortBuffer, ARP
\* is answered through frame, like any other write, and the rest is skipped.
After(class) ==
  IF class = "arp" THEN "lock" ELSE IF class = "other" THEN "read" ELSE "idle"

Use(r) ==
  /\ at[r] = "use"
  /\ fate' = [fate EXCEPT ![took[r]] = "gone"]
  /\ returned' = IF Class[Held(r)] = "fits" THEN Append(returned, Held(r)) ELSE returned
  /\ reader' = None
  /\ took' = [took EXCEPT ![r] = None]
  /\ Goes(r, After(Class[Held(r)]))
  /\ UNCHANGED <<sideVars, outVars, readBuf>>

\* The descriptor is closed, or the stream has ended.
ReadFails(r) ==
  /\ at[r] = "read"
  /\ reader' = None
  /\ Goes(r, "idle")
  /\ UNCHANGED <<sideVars, outVars, fate, readBuf, took, returned>>

-----------------------------------------------------------------------------
(* Close, and what happens outside. *)

AskClose ==
  /\ closing = "no"
  /\ closing' = "asked"
  /\ UNCHANGED <<kind, inVars, outVars, at>>

\* Mutant: Close waits for who is reading.
MayCloseQuiet == reader = None

\* conn.Close takes no mutex.
MayClose == TRUE

Close ==
  /\ closing = "asked"
  /\ MayClose
  /\ closing' = "done"
  /\ UNCHANGED <<kind, inVars, outVars, at>>

\* A raw socket gets IP protocol 146 only, and skips nothing.
Arrive(a) ==
  /\ fate[a] = "away"
  /\ Cardinality({b \in Arrivals : fate[b] # "away"}) < MaxArrivals
  /\ kind = "raw" => Class[a] \in {"fits", "long"}
  /\ fate' = [fate EXCEPT ![a] = "queued"]
  /\ UNCHANGED <<sideVars, outVars, at, reader, readBuf, took, returned>>

-----------------------------------------------------------------------------

Init ==
  /\ kind \in {"raw", "nic"}
  /\ closing = "no"
  /\ writer = None /\ reader = None
  /\ tos = 0
  /\ at = [u \in Users |-> "idle"]
  /\ packet = [u \in Users |-> None]
  /\ left = [u \in Users |-> 0]
  /\ fate = [a \in Arrivals |-> "away"]
  /\ readBuf = None
  /\ took = [r \in Readers |-> None]
  /\ returned = << >>
  /\ sent = {}
  /\ writes = 0

Writes(u) == Lock(u) \/ SetOption(u) \/ WriteSome(u) \/ WriteFails(u)

Reads(r) ==
  \/ ReadLock(r) \/ Use(r) \/ ReadFails(r)
  \/ \E a \in Arrivals : Receive(r, a)

Next ==
  \/ \E w \in Writers, p \in Priorities : WritePacket(w, p)
  \/ \E u \in Users : Writes(u)
  \/ \E r \in Readers : ReadPacket(r) \/ Reads(r)
  \/ \E a \in Arrivals : Arrive(a)
  \/ AskClose \/ Close

\* A goroutine that can go on does.  The outgoing side may take nothing, and nothing
\* need arrive: what blocks there is woken by Close alone.
Fairness ==
  /\ \A u \in Users : WF_vars(Lock(u)) /\ WF_vars(SetOption(u))
                      /\ WF_vars(closing = "done" /\ WriteFails(u))
  /\ \A r \in Readers : WF_vars(ReadLock(r)) /\ WF_vars(Use(r))
                        /\ WF_vars(closing = "done" /\ ReadFails(r))
  /\ WF_vars(Close)

Spec == Init /\ [][Next]_vars /\ Fairness

-----------------------------------------------------------------------------
(* Properties. *)

TypeOK ==
  /\ kind \in {"raw", "nic"}
  /\ writer \in Users \cup {None} /\ reader \in Readers \cup {None}
  /\ at \in [Users -> {"idle", "lock", "option", "write", "readLock", "read", "use"}]
  /\ packet \in [Users -> Priorities \cup {None}]
  /\ tos \in {32 * p : p \in Priorities \cup {0}}
  /\ left \in [Users -> 0..Parts]
  /\ fate \in [Arrivals -> {"away", "queued", "taken", "gone"}]
  /\ took \in [Readers -> Arrivals \cup {None}] /\ readBuf \in Arrivals \cup {None}

\* A packet leaves with its own priority, however many goroutines send: the option
\* and the send are one critical section (WritePacket, rawip.go:75-79).
PriorityOwn == \A s \in sent : s[2] = 32 * s[1]

\* No bytes of another frame come between the parts of a frame, whether a call of
\* WritePacket or the answer to ARP writes it (frame, vmcheck/main.go:35-53).
FramesWhole ==
  \A u, v \in Users :
    u # v /\ kind = "nic" /\ at[u] = "write" /\ left[u] < Parts => at[v] # "write"

\* Every datagram is returned to one reader at most, and one that fits is not lost
\* to another that arrives before it has been copied out of the shared buffer
\* (ReadPacket, rawip.go:58-73).
DatagramsOnce ==
  /\ \A i, j \in 1..Len(returned) : i # j => returned[i] # returned[j]
  /\ \A a \in Arrivals :
       fate[a] = "gone" /\ Class[a] = "fits" => \E i \in 1..Len(returned) : returned[i] = a

\* Close must unblock ReadPacket (api.go:43-45): Close itself returns although a
\* reader waits, and every call in progress ends.
CloseUnblocks ==
  closing = "asked" ~> (closing = "done" /\ \A u \in Users : at[u] = "idle")

-----------------------------------------------------------------------------
(* The inductive invariant that the proofs use.                             *)

\* Whoever writes holds the mutex, and IP_TOS is that of the packet it sends.  The
\* readers of a raw socket never write.
Serialized ==
  \A u \in Users :
    /\ at[u] \in {"option", "write"} => writer = u
    /\ at[u] = "option" => kind = "raw"
    /\ kind = "raw" /\ at[u] \in {"lock", "option", "write"} =>
         u \in Writers /\ packet[u] \in Priorities
    /\ kind = "raw" /\ at[u] = "write" => tos = Precedence(packet[u])

\* A reader between ReadFromIP and copy has the mutex, and in the buffer what it took.
Exclusive ==
  /\ \A r \in Readers :
       /\ kind = "raw" /\ at[r] \in {"read", "use"} => reader = r
       /\ at[r] = "use" => /\ took[r] \in Arrivals /\ fate[took[r]] = "taken"
                           /\ kind = "raw" => readBuf = took[r]
  /\ \A q, r \in Readers : q # r /\ at[q] = "use" /\ at[r] = "use" => took[q] # took[r]
  /\ \A a \in Arrivals : kind = "raw" /\ fate[a] # "away" => Class[a] \in {"fits", "long"}

Accounted ==
  /\ returned \in Seq(Arrivals)
  /\ \A i \in 1..Len(returned) : fate[returned[i]] = "gone"

IInv == TypeOK /\ Serialized /\ Exclusive /\ Accounted /\ PriorityOwn /\ DatagramsOnce

=============================================================================
