---------------------------- MODULE BenchServer ----------------------------
(***************************************************************************)
(* The TCP half of `homa-bench serve' (cmd/homa-bench/main.go, serve): the *)
(* accept loop, one goroutine per connection, the map of connections that  *)
(* mu protects, and shutdown, which the context's AfterFunc and serve's    *)
(* own deferred call both run, at the same time if it comes to that.       *)
(*                                                                         *)
(* A critical section of mu is one action.  Frames are whole: a frame that *)
(* is cut off, is of an invalid length or misses its deadline is a read    *)
(* error.  Which frames arrive is left to the parameters of the actions.   *)
(***************************************************************************)
EXTENDS Naturals, FiniteSets

CONSTANTS
  Conns,        \* the connections that may be made
  Limit,        \* 16: the most connections served at a time
  Nobody        \* no connection

ASSUME ServerAssumption ==
  /\ IsFiniteSet(Conns)
  /\ Nobody \notin Conns
  /\ Limit \in Nat

VARIABLES
  ctx,          \* serve's context: "running" or "done"
  listening,    \* the TCP listener is open
  homa,         \* the Homa endpoint is open
  sock,         \* the server's end of each connection
  connections,  \* the map
  accepting,    \* the accept loop: where it is and the connection it has in hand
  after,        \* the goroutine of the AfterFunc
  worker        \* the goroutine of each connection

serverVars == <<ctx, listening, homa, sock, connections, accepting, after, worker>>

-----------------------------------------------------------------------------
(* The accept loop. *)

Loop(pc, c) == accepting' = [pc |-> pc, conn |-> c]

Dial(c) ==
  /\ listening
  /\ sock[c] = "none"
  /\ sock' = [sock EXCEPT ![c] = "queued"]
  /\ UNCHANGED <<ctx, listening, homa, connections, accepting, after, worker>>

Accept(c) ==
  /\ accepting.pc = "accept"
  /\ listening
  /\ sock[c] = "queued"
  /\ sock' = [sock EXCEPT ![c] = "open"]
  /\ Loop("admit", c)
  /\ UNCHANGED <<ctx, listening, homa, connections, after, worker>>

\* The listener is closed, or the system has no descriptor left.
AcceptFails ==
  /\ accepting.pc = "accept"
  /\ Loop("leave", Nobody)
  /\ UNCHANGED <<ctx, listening, homa, sock, connections, after, worker>>

\* Mutants: the limit is off by one; the context is not looked at again.
RefusesAtMost(c) == ctx = "done" \/ Cardinality(connections) > Limit

RefusesFull(c) == Cardinality(connections) >= Limit

Refuses(c) == ctx = "done" \/ Cardinality(connections) >= Limit

\* SetNoDelay fails, or the connection may not enter the map.
Refuse ==
  /\ accepting.pc = "admit"
  /\ sock' = [sock EXCEPT ![accepting.conn] = "closed"]
  /\ Loop("accept", Nobody)
  /\ UNCHANGED <<ctx, listening, homa, connections, after, worker>>

Admit ==
  /\ accepting.pc = "admit"
  /\ ~Refuses(accepting.conn)
  /\ connections' = connections \cup {accepting.conn}
  /\ Loop("spawn", accepting.conn)
  /\ UNCHANGED <<ctx, listening, homa, sock, after, worker>>

Spawn ==
  /\ accepting.pc = "spawn"
  /\ worker' = [worker EXCEPT ![accepting.conn] = "read"]
  /\ Loop("accept", Nobody)
  /\ UNCHANGED <<ctx, listening, homa, sock, connections, after>>

-----------------------------------------------------------------------------
(* The goroutine of a connection. *)

WorkerGoes(c, pc) ==
  /\ worker' = [worker EXCEPT ![c] = pc]
  /\ UNCHANGED <<ctx, listening, homa, accepting, after>>

WorkerReads(c) ==
  /\ worker[c] = "read"
  /\ sock[c] = "open"
  /\ WorkerGoes(c, "write")
  /\ UNCHANGED <<sock, connections>>

WorkerWrites(c) ==
  /\ worker[c] = "write"
  /\ sock[c] = "open"
  /\ WorkerGoes(c, "read")
  /\ UNCHANGED <<sock, connections>>

\* Closed by either side, too late, or not a frame.
WorkerFails(c) ==
  /\ worker[c] \in {"read", "write"}
  /\ WorkerGoes(c, "close")
  /\ UNCHANGED <<sock, connections>>

WorkerCloses(c) ==
  /\ worker[c] = "close"
  /\ sock' = [sock EXCEPT ![c] = "closed"]
  /\ WorkerGoes(c, "forget")
  /\ UNCHANGED connections

\* delete(connections, conn), then workers.Done.
WorkerForgets(c) ==
  /\ worker[c] = "forget"
  /\ connections' = connections \ {c}
  /\ WorkerGoes(c, "done")
  /\ UNCHANGED sock

Working == {c \in Conns : worker[c] \in {"read", "write", "close", "forget"}}

-----------------------------------------------------------------------------
(* shutdown: the listener, the connections under mu, the Homa endpoint.     *)

\* Connections that nobody accepted are reset.
Reset == [c \in Conns |-> IF sock[c] = "queued" THEN "closed" ELSE sock[c]]

\* Mutant: shutdown leaves the listener to serve's own deferred call.
CloseListenerLater == UNCHANGED <<listening, sock, homa, connections>>

CloseListener ==
  /\ listening' = FALSE
  /\ sock' = Reset
  /\ UNCHANGED <<homa, connections>>

CloseConnections ==
  /\ sock' = [c \in Conns |-> IF c \in connections THEN "closed" ELSE sock[c]]
  /\ UNCHANGED <<listening, homa, connections>>

CloseHoma ==
  /\ homa' = FALSE
  /\ UNCHANGED <<listening, sock, connections>>

Phases == {"listener", "conns", "homa", "over"}

\* The phase after pc.
Following(pc) == IF pc = "listener" THEN "conns" ELSE IF pc = "conns" THEN "homa" ELSE "over"

Shutdown(pc) ==
  \/ pc = "listener" /\ CloseListener
  \/ pc = "conns" /\ CloseConnections
  \/ pc = "homa" /\ CloseHoma

\* The endpoint's read loop fails; nobody is told.
HomaStops ==
  /\ homa
  /\ homa' = FALSE
  /\ UNCHANGED <<ctx, listening, sock, connections, accepting, after, worker>>

\* The duration is over or a signal came: the AfterFunc is started.
ContextEnds ==
  /\ ctx = "running"
  /\ ctx' = "done"
  /\ after' = IF after = "armed" THEN "listener" ELSE after
  /\ UNCHANGED <<listening, homa, sock, connections, accepting, worker>>

AfterFunc ==
  /\ after \in Phases \ {"over"}
  /\ Shutdown(after)
  /\ after' = Following(after)
  /\ UNCHANGED <<ctx, accepting, worker>>

\* The deferred call of serve: stopClose,
Leave ==
  /\ accepting.pc = "leave"
  /\ after' = IF after = "armed" THEN "stopped" ELSE after
  /\ Loop("listener", Nobody)
  /\ UNCHANGED <<ctx, listening, homa, sock, connections, worker>>

\* shutdown,
LeaveShutdown ==
  /\ accepting.pc \in Phases \ {"over"}
  /\ Shutdown(accepting.pc)
  /\ Loop(Following(accepting.pc), Nobody)
  /\ UNCHANGED <<ctx, after, worker>>

\* The deferred calls of serve that come last close the listener and the endpoint
\* once more.
CloseLast ==
  /\ listening' = FALSE
  /\ homa' = FALSE
  /\ sock' = Reset

\* workers.Wait.
Return ==
  /\ accepting.pc = "over"
  /\ Working = {}
  /\ CloseLast
  /\ Loop("returned", Nobody)
  /\ UNCHANGED <<ctx, connections, after, worker>>

-----------------------------------------------------------------------------

ServerInit ==
  /\ ctx = "running"
  /\ listening = TRUE
  /\ homa = TRUE
  /\ sock = [c \in Conns |-> "none"]
  /\ connections = {}
  /\ accepting = [pc |-> "accept", conn |-> Nobody]
  /\ after = "armed"
  /\ worker = [c \in Conns |-> "none"]

Serve ==
  \/ \E c \in Conns : Accept(c)
  \/ AcceptFails \/ Refuse \/ Admit \/ Spawn
  \/ AfterFunc \/ Leave \/ LeaveShutdown \/ Return

\* What the accept loop does without a connection and without a failure.
AcceptLoop ==
  \/ ~listening /\ AcceptFails
  \/ Refuse \/ Admit \/ Spawn \/ Leave \/ LeaveShutdown \/ Return

\* What a goroutine does without any frame from its client.
Ends(c) == WorkerFails(c) \/ WorkerCloses(c) \/ WorkerForgets(c)

ServerNext ==
  \/ ContextEnds \/ HomaStops
  \/ Serve
  \/ \E c \in Conns : Dial(c) \/ WorkerReads(c) \/ WorkerWrites(c) \/ Ends(c)

ServerSpec == ServerInit /\ [][ServerNext]_serverVars

-----------------------------------------------------------------------------
(* Properties. *)

\* A connection is served by at most one goroutine, is in the map exactly as long
\* as that goroutine can use it, and at most Limit are (serve, main.go:165-179).
ServedIsTracked ==
  /\ connections = Working \cup (IF accepting.pc = "spawn" THEN {accepting.conn} ELSE {})
  /\ Cardinality(connections) <= Limit

\* Once shutdown has been through the map, every connection in it is closed and
\* none comes in again, also if one was being accepted meanwhile: the context is
\* looked at under the lock that shutdown takes (main.go:142-150, 166).
SweptStaysClosed ==
  after \in {"homa", "over"} \/ accepting.pc \in {"homa", "over", "returned"} =>
    \A c \in connections : sock[c] = "closed"

\* serve leaves nothing behind: no goroutine, no connection, no listener and no
\* endpoint, whichever way it ends (main.go:152).
ReturnsClean ==
  accepting.pc = "returned" =>
    /\ ~listening /\ ~homa
    /\ connections = {} /\ Working = {}
    /\ \A c \in Conns : sock[c] \in {"none", "closed"}

-----------------------------------------------------------------------------
(* The inductive invariant that the proofs use.                             *)

ServerTypeOK ==
  /\ ctx \in {"running", "done"}
  /\ listening \in BOOLEAN /\ homa \in BOOLEAN
  /\ sock \in [Conns -> {"none", "queued", "open", "closed"}]
  /\ connections \subseteq Conns
  /\ accepting \in [pc : {"accept", "admit", "spawn", "leave", "returned"} \cup Phases,
                    conn : Conns \cup {Nobody}]
  /\ after \in {"armed", "stopped"} \cup Phases
  /\ worker \in [Conns -> {"none", "read", "write", "close", "forget", "done"}]

\* A connection is open only in the map or in the hand of the accept loop; its
\* goroutine begins when it has left that hand, and closes it before it forgets it.
Owned ==
  /\ accepting.pc \in {"admit", "spawn"} =>
       accepting.conn \in Conns /\ worker[accepting.conn] = "none"
  /\ accepting.pc = "admit" => sock[accepting.conn] = "open"
  /\ \A c \in Conns :
       /\ sock[c] = "queued" => listening
       /\ sock[c] \in {"none", "queued"} => worker[c] = "none" /\ c \notin connections
       /\ sock[c] = "open" => \/ c \in connections
                              \/ accepting.pc = "admit" /\ accepting.conn = c
       /\ worker[c] = "forget" => sock[c] = "closed"

\* How far each run of shutdown has come.
Progressed ==
  /\ after \in Phases => ctx = "done"
  /\ accepting.pc \in {"conns", "homa", "over", "returned"} => ~listening
  /\ accepting.pc \in {"over", "returned"} => ~homa
  /\ accepting.pc = "returned" => Working = {}

BInv == ServerTypeOK /\ Owned /\ Progressed /\ ServedIsTracked /\ SweptStaysClosed

=============================================================================
