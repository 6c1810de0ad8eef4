------------------------------ MODULE Exchange ------------------------------
(***************************************************************************)
(* A client endpoint and a server endpoint (two instances of Endpoint) and *)
(* the network between them: the packets under way in each direction,      *)
(* which arrive in any order.  A network that duplicates keeps every       *)
(* packet that was ever sent: one that does not arrive (again) is one that *)
(* was lost (or not duplicated).                                           *)
(*                                                                         *)
(* Deadlines do not pass here: an RPC that expires leaves the table the    *)
(* way one leaves it whose packet cannot be written.                       *)
(*                                                                         *)
(* asked, input, runs, ran and got are history variables: what was         *)
(* called, what the handlers saw and answered, and how the calls ended.    *)
(***************************************************************************)
EXTENDS Calls, Sequences, FiniteSetsExt

CONSTANTS
  Callers,
  Budget, Workers,               \* Config, common to both sides
  ClientSegment, ServerSegment, Unscheduled, GrantBytes, Overcommit,
  MaxLost                        \* bound: losses of a network that does not duplicate

ASSUME SizesAssumption ==
  /\ Budget \in Nat \ {0} /\ Workers \in Nat \ {0}
  /\ ClientSegment \in Nat \ {0} /\ ServerSegment \in Nat \ {0}
  /\ Unscheduled \in Nat \ {0}
  /\ Unscheduled % ClientSegment = 0 /\ Unscheduled % ServerSegment = 0
  /\ GrantBytes \in Nat \ {0}
  /\ Overcommit \in 1 .. MaxCalls

VARIABLES
  ce, nextID, pc, call,          \* the client
  se,                            \* the server
  toServer, toClient, lost,      \* the network
  asked, input, runs, ran, got,  \* history
  closed, unused                 \* constant: no shutdown, and what has no use here

clientVars == <<ce, nextID, pc, call>>
historyVars == <<asked, input, runs, ran, got>>
netVars == <<toServer, toClient, lost>>
fixedVars == <<closed, unused>>
vars == <<clientVars, se, netVars, historyVars, fixedVars>>

\* Priorities are not modelled here, so cutoffs change nothing, nor does BUSY.
Put(n, packets) == n \cup {p \in packets : p.type \notin {"CUTOFFS", "BUSY"}}

Client == INSTANCE EndpointContent WITH
  Local <- ClientAddr, Peers <- {ServerAddr}, Obj <- COut, HasHandler <- FALSE,
  MaxMessageSize <- MaxSize, MaxRPCs <- MaxCalls, MaxBufferedBytes <- Budget,
  HandlerWorkers <- Workers, SegmentBytes <- ClientSegment, UnscheduledBytes <- Unscheduled,
  GrantWindow <- GrantBytes, MaxIds <- MaxCalls, Incoming <- {}, Emit <- Put,
  e <- ce, cutoffs <- unused, net <- toServer

Server == INSTANCE EndpointContent WITH
  Local <- ServerAddr, Peers <- {ClientAddr}, Obj <- SOut, HasHandler <- TRUE, Callers <- {},
  MaxMessageSize <- MaxSize, MaxRPCs <- MaxCalls, MaxBufferedBytes <- Budget,
  HandlerWorkers <- Workers, SegmentBytes <- ServerSegment, UnscheduledBytes <- Unscheduled,
  GrantWindow <- GrantBytes, MaxIds <- MaxCalls, Incoming <- {}, Emit <- Put,
  e <- se, nextID <- unused, cutoffs <- unused, pc <- unused, call <- unused,
  net <- toClient

ASSUME ResultAssumption == Nil \notin Client!Result

-----------------------------------------------------------------------------
(* The client.  A call that leaves the table has its result. *)

Duplicating == "duplicate" \in Faults

Ended ==
  got' = [i \in Ids |->
            LET o == ce.rpcs[ClientKey(i)] IN
            IF o = Nil THEN got[i]
            ELSE IF ce'.rpcs[ClientKey(i)] = o THEN got[i] ELSE ce'.rpc[o].result[1]]

CallStep(c, msg) ==
  /\ Client!Call(c, ServerAddr, msg)
  /\ asked' = [asked EXCEPT ![nextID + 2] = msg]
  /\ UNCHANGED <<se, toClient, lost, input, runs, ran, got>>

CancelStep(c) ==
  /\ "cancel" \in Faults
  /\ Client!Cancel(c) \/ Client!Abort(c)
  /\ Ended
  /\ UNCHANGED <<se, toClient, lost, asked, input, runs, ran>>

ReturnStep(c) ==
  /\ Client!Return(c)
  /\ UNCHANGED <<se, toClient, lost, historyVars>>

ClientTicks(due) ==
  /\ Client!Tick({}, due)
  /\ Ended
  /\ UNCHANGED <<se, toClient, lost, asked, input, runs, ran>>

ClientFault(o) ==
  /\ "write" \in Faults
  /\ Client!WriteFails(o)
  /\ Ended
  /\ UNCHANGED <<se, toClient, lost, asked, input, runs, ran>>

-----------------------------------------------------------------------------
(* The server.  What a handler sees is what was assembled when it starts. *)

Begun == {o \in SOut : se.payload[o] = 0 /\ se'.payload[o] > 0}

Seen(o, P) ==
  IF P = {} THEN se.rpc[o].rx.data
  ELSE Server!Fill(se.rpc[o].rx, CHOOSE p \in P : TRUE).data

\* P holds the packet being received, if any.
Begins(P) ==
  /\ input' = [o \in SOut |-> IF o \in Begun THEN Seen(o, P)
                               ELSE IF se'.payload[o] = 0 THEN <<>> ELSE input[o]]
  /\ runs' = [i \in Ids |->
                IF runs[i] < 2 /\ \E o \in Begun : se'.rpc[o].key = ServerKey(i)
                THEN runs[i] + 1 ELSE runs[i]]

ServerTicks(due) ==
  /\ Server!Tick({}, due)
  /\ Begins({})
  /\ UNCHANGED <<clientVars, toServer, lost, asked, ran, got>>

\* The handler answers what it saw.
ServerResponds(o, msg) ==
  /\ Server!HandlerResponds(o, msg)
  /\ msg \in Replies(input[o][0])
  /\ ran' = [ran EXCEPT ![se.rpc[o].key[2] - 1] = @ \cup {msg}]
  /\ Begins({})
  /\ UNCHANGED <<clientVars, toServer, lost, asked, got>>

\* Its RPC is gone, or it returns nothing.
ServerHandlerFails(o, msg) ==
  /\ Server!HandlerFails(o, msg)
  /\ msg.len = 0 => "fail" \in Faults
  /\ Begins({})
  /\ UNCHANGED <<clientVars, toServer, lost, asked, ran, got>>

ServerFault(o) ==
  /\ "write" \in Faults
  /\ Server!WriteFails(o)
  /\ UNCHANGED <<clientVars, toServer, lost, historyVars>>

EmptyTable(keys, structs, blank) ==
  [rpcs |-> [k \in keys |-> Nil], rpc |-> [o \in structs |-> blank],
   payload |-> [o \in structs |-> 0], buffered |-> 0, workers |-> 0]

EmptyServer == EmptyTable(Server!Key, SOut, Server!Blank)

\* The server's process dies and another one takes its port.
ServerRestarts ==
  /\ "restart" \in Faults
  /\ se' = EmptyServer
  /\ Begins({})
  /\ UNCHANGED <<clientVars, netVars, asked, ran, got, fixedVars>>

-----------------------------------------------------------------------------
(* The network. *)

Rest(packets, p) == IF Duplicating THEN packets ELSE packets \ {p}

ClientReceives(p) ==
  /\ p \in toClient
  /\ toClient' = Rest(toClient, p)
  /\ Client!Receive(p)
  /\ Ended
  /\ UNCHANGED <<se, lost, asked, input, runs, ran>>

ServerReceives(p) ==
  /\ p \in toServer
  /\ toServer' = Rest(toServer, p)
  /\ Server!Receive(p)
  /\ Begins({p})
  /\ UNCHANGED <<clientVars, lost, asked, ran, got>>

Lose(p) ==
  /\ ~Duplicating
  /\ lost < MaxLost
  /\ lost' = lost + 1
  /\ toServer' = toServer \ {p}
  /\ toClient' = toClient \ {p}
  /\ UNCHANGED <<clientVars, se, historyVars, fixedVars>>

-----------------------------------------------------------------------------

Init ==
  /\ ce = EmptyTable(Client!Key, COut, Client!Blank)
  /\ nextID = 0
  /\ pc = [c \in Callers |-> "idle"]
  /\ call = [c \in Callers |-> Nil]
  /\ se = EmptyServer
  /\ toServer = {} /\ toClient = {} /\ lost = 0
  /\ asked = [i \in Ids |-> Nil]
  /\ input = [o \in SOut |-> <<>>]
  /\ runs = [i \in Ids |-> 0]
  /\ ran = [i \in Ids |-> {}]
  /\ got = [i \in Ids |-> Nil]
  /\ closed = FALSE /\ unused = <<>>

Next ==
  \/ \E c \in Callers :
       ReturnStep(c) \/ CancelStep(c) \/ \E msg \in Requests : CallStep(c, msg)
  \/ \E due \in SUBSET Client!Live(ce) : ClientTicks(due)
  \/ \E o \in COut : ClientFault(o)
  \/ \E due \in SUBSET Server!Live(se) : ServerTicks(due)
  \/ \E o \in SOut : \/ ServerFault(o)
                     \/ \E msg \in Responses : ServerResponds(o, msg)
                     \/ \E msg \in Responses \cup {Server!NoMsg} : ServerHandlerFails(o, msg)
  \/ ServerRestarts
  \/ \E p \in toClient : ClientReceives(p)
  \/ \E p \in toServer : ServerReceives(p)
  \/ \E p \in toClient \cup toServer : Lose(p)

Spec == Init /\ [][Next]_vars

\* Packets that replace each other when one is sent again, and those that each
\* direction can have.
Lane(p) == <<p.type, IF "off" \in DOMAIN p THEN p.off ELSE 0>>

LanesOf(sent, received) ==
  LET longest(M) == Max({m.len : m \in M})
  IN ({"DATA"} \X (0 .. longest(sent) - 1)) \cup ({"RESEND"} \X (0 .. longest(received) - 1))
     \cup ({"GRANT"} \X (Unscheduled + 1 .. longest(received))) \cup {<<"RPC_UNKNOWN", 0>>}

\* Timers tick, handlers answer, and the network delivers what it does not lose.
Fairness ==
  /\ WF_vars(ClientTicks(Client!Live(ce)))
  /\ WF_vars(ServerTicks(Server!Live(se)))
  /\ \A o \in SOut : WF_vars(\E msg \in Responses : ServerResponds(o, msg))
  /\ \A l \in LanesOf(Responses, Requests) \cup {<<"NEED_ACK", 0>>} :
       WF_vars(\E p \in toClient : Lane(p) = l /\ ClientReceives(p))
  /\ \A l \in LanesOf(Requests, Responses) \cup {<<"ACK", 0>>} :
       WF_vars(\E p \in toServer : Lane(p) = l /\ ServerReceives(p))

FairSpec == Spec /\ Fairness

-----------------------------------------------------------------------------
(* Properties. *)

Succeeded == {i \in Ids : got[i] # Nil /\ got[i].err = "ok"}

\* A handler sees exactly the bytes that Call was given, whatever the network
\* does to the segments and however the two sides cut them.
RequestWhole ==
  \A o \in SOut : se.payload[o] > 0 =>
    input[o] = BytesOf(asked[se.rpc[o].key[2] - 1])

\* A call that succeeds has a response of its own handler: as long as one, every
\* byte from one, and byte for byte the same if the handler ran once.
ResponseWhole ==
  \A i \in Succeeded :
    /\ \E m \in ran[i] : DOMAIN got[i].data = 0 .. m.len - 1
    /\ \A x \in DOMAIN got[i].data : \E m \in ran[i] : got[i].data[x] = m.body
    /\ runs[i] = 1 => \E m \in ran[i] : got[i].data = BytesOf(m)

\* The server may forget a response when it is acknowledged: an ACK is only
\* ever sent for a call that is over.
AckMeansDone ==
  \A p \in toServer : p.type = "ACK" => got[p.id] # Nil

\* While its call is open a handler runs at most once, if the server neither
\* restarts nor drops the RPC: duplicates, probes and retransmissions of a
\* request that is in the table never run it again.
OnceWhileOpen == \A i \in Ids : got[i] = Nil => runs[i] <= 1

\* Every call succeeds although requests, grants, probes, responses and
\* acknowledgements are lost, by nothing but RESEND, RPC_UNKNOWN and NEED_ACK
\* (FairSpec without other faults).
CallRecovers == \A i \in Ids : asked[i] # Nil ~> i \in Succeeded

\* The server gets rid of every RPC, by the acknowledgement alone (FairSpec).
ServerForgets ==
  \A i \in Ids : se.rpcs[ServerKey(i)] # Nil ~> se.rpcs[ServerKey(i)] = Nil

\* The applications see RpcService (with handlers that give equal responses to
\* equal requests, or that run once).
Service == INSTANCE RpcService WITH
  Calls <- Ids, None <- Nil, Failed <- Server!NoMsg, Replies <- ReplyTo,
  outcome <- [i \in Ids |-> OutcomeOf(got[i], Server!NoMsg)]

ServesCalls == Service!Spec

=============================================================================
