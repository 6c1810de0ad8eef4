--------------------------- MODULE ExchangeProofs ---------------------------
(***************************************************************************)
(* The actions of the server and of the network (Exchange), and what a     *)
(* client and a server achieve together.                                   *)
(***************************************************************************)
EXTENDS ExchangeSteps

USE ZenonT(60)

-----------------------------------------------------------------------------
(* The actions of the server. *)

\* The server's timer preserves Inv.
LEMMA ServerTicksInv ==
  ASSUME Inv, NEW due, ServerTicks(due)
  PROVE  Inv'
<1> SUFFICES ASSUME Server!Tick({}, due), Begins({}),
                    UNCHANGED <<clientVars, toServer, asked, ran, got>>,
                    Histories(asked, ran, runs, nextID)
             PROVE  Inv'
  BY DEF ServerTicks, Inv, Together
<1>1. /\ Server!Evolves(ServerOut(ran), ServerIn(asked), {}, {}, {})
      /\ Server!Starts(se, se', ServerIn(asked), Server!Buffers(se))
  BY ServerSetting, SidesCount, Server!TickContent DEF Inv
<1> QED BY <1>1, NoResponse, ServerKeeps DEF clientVars

\* A handler that fails, or whose RPC is gone, preserves Inv.
LEMMA ServerHandlerFailsInv ==
  ASSUME Inv, NEW o \in SOut, NEW msg, ServerHandlerFails(o, msg)
  PROVE  Inv'
<1> SUFFICES ASSUME Server!HandlerFails(o, msg), Begins({}),
                    UNCHANGED <<clientVars, toServer, asked, ran, got>>,
                    Histories(asked, ran, runs, nextID)
             PROVE  Inv'
  BY DEF ServerHandlerFails, Inv, Together
<1>1. /\ Server!Evolves(ServerOut(ran), ServerIn(asked), {}, {}, {})
      /\ Server!Starts(se, se', ServerIn(asked), Server!Buffers(se))
  BY ServerSetting, Server!HandlerFailsContent DEF Inv
<1> QED BY <1>1, NoResponse, ServerKeeps DEF clientVars

\* A handler that answers adds a response of its own call and preserves Inv.
LEMMA ServerRespondsInv ==
  ASSUME Inv, NEW o \in SOut, NEW msg \in Responses, ServerResponds(o, msg)
  PROVE  Inv'
<1> SUFFICES ASSUME Server!HandlerResponds(o, msg), Begins({}),
                    ran' = [ran EXCEPT ![se.rpc[o].key[2] - 1] = @ \cup {msg}],
                    UNCHANGED <<ce, nextID, toServer, asked, got>>,
                    Together(ce, se, asked, input, runs, ran, got, nextID, toServer, toClient)
             PROVE  Inv'
  BY DEF ServerResponds, clientVars, Inv
<1>1. se.payload[o] > 0
  BY DEF Server!HandlerResponds
<1>2. /\ Histories(asked, ran', runs, nextID) /\ msg \in ServerOut(ran')[se.rpc[o].key]
      /\ \A k \in SKey : ServerOut(ran)[k] \subseteq ServerOut(ran')[k]
      /\ \A t : t.payload[o] = 0 => Responds(se, t, ran, ran')
  <2>1. Answered(se, o, msg, asked, ran, ran', runs, nextID)
    BY <1>1, ResponseGiven
  <2> QED BY <2>1 DEF Answered
<1>3. Server!Content(se, ServerOut(ran'), ServerIn(asked))
  <2>1. \A k \in Server!Key : ServerOut(ran)[k] \subseteq ServerOut(ran')[k]
    BY <1>2 DEF Server!Key, Server!Id, SKey, KeysOf
  <2> QED BY <2>1, ServerSetting, Server!WidenContent DEF Inv
<1>4. /\ Server!Evolves(ServerOut(ran'), ServerIn(asked), {}, {}, {})
      /\ Server!Starts(se, se', ServerIn(asked), Server!Buffers(se))
      /\ se'.payload[o] = 0
  <2>1. Server!Lawful(ServerOut(ran'))
    BY <1>2, SidesLawful
  <2> QED BY <1>2, <1>3, <2>1, ServerSetting, Server!HandlerRespondsContent
<1> QED BY <1>2, <1>4, ServerKeeps

\* A packet of the server that cannot be written drops its RPC and preserves Inv.
LEMMA ServerFaultInv ==
  ASSUME Inv, NEW o, ServerFault(o)
  PROVE  Inv'
<1> SUFFICES ASSUME Server!WriteFails(o),
                    UNCHANGED <<clientVars, toServer, asked, input, runs, ran, got>>,
                    Histories(asked, ran, runs, nextID), Stays(se, se', got)
             PROVE  Inv'
  BY DEF ServerFault, historyVars, Inv, Together, Stays, NothingDropped
<1>1. /\ Server!Evolves(ServerOut(ran), ServerIn(asked), {}, Server!Key, {})
      /\ se'.payload = se.payload
  BY ServerSetting, Server!WriteFailsContent DEF Inv
<1>2. PICK none : none = {}
  OBVIOUS
<1>3. ServerStep(se, se', toClient, toClient', ran', none, none)
  BY <1>1, <1>2, ServerSteps
<1>4. Handling(se, se', asked, input, input, input', runs, runs', ran, ran', got)
  BY <1>1, NoneStarts, NoResponse DEF Handling, Histories
<1>5. Server!Content(se', ServerOut(ran'), ServerIn(asked)) /\ toServer' \subseteq toServer
  BY <1>1 DEF Server!Evolves
<1>6. UNCHANGED <<ce, nextID, asked, got>> /\ none \subseteq Called(asked)
  BY <1>2 DEF clientVars
<1> QED BY <1>3, <1>4, <1>5, <1>6, ServerGoes

\* The table that a server starts with holds nothing.
LEMMA EmptyServerContent == \A Out, In : Server!Content(EmptyServer, Out, In)
<1>1. Server!Blank \in Server!Rpc
  BY ServerSetting, Server!BlankType
<1> QED BY <1>1, Zero
        DEF EmptyServer, EmptyTable, Server!Content, Server!Formed, Server!Shaped, Server!Handles,
            Server!Blank

\* A server that restarts has forgotten everything, and Inv still holds.
LEMMA ServerRestartsInv ==
  ASSUME Inv, ServerRestarts
  PROVE  Inv'
<1> SUFFICES ASSUME se' = EmptyServer, Begins({}),
                    UNCHANGED <<ce, nextID, toServer, toClient, asked, ran, got>>,
                    Histories(asked, ran, runs, nextID), Stays(se, se', got)
             PROVE  Inv'
  BY DEF ServerRestarts, clientVars, netVars, Inv, Together, Stays, NothingDropped
<1>1. (\A k \in SKey : se'.rpcs[k] = Nil) /\ \A o \in SOut : se'.payload[o] = 0
  BY DEF EmptyServer, EmptyTable, Server!Key, Server!Id, SKey, KeysOf
<1>2. PICK none : none = {}
  OBVIOUS
<1>3. ServerStep(se, se', toClient, toClient', ran', none, none)
  BY <1>1, <1>2, RestartStep
<1>4. Handling(se, se', asked, Server!Buffers(se), input, input', runs, runs', ran, ran', got)
  BY <1>1, RestartStarts, SeenBuffers, BeginsRecorded, NoResponse DEF Handling
<1>5. Server!Content(se', ServerOut(ran'), ServerIn(asked)) /\ none \subseteq Called(asked)
  BY <1>2, EmptyServerContent
<1>6. toServer' \subseteq toServer /\ UNCHANGED <<ce, nextID, asked, got>>
  OBVIOUS
<1> QED BY <1>3, <1>4, <1>5, <1>6, ServerGoes

\* A packet that reaches the server preserves Inv.
LEMMA ServerReceivesInv ==
  ASSUME Inv, NEW p, ServerReceives(p)
  PROVE  Inv'
<1> SUFFICES ASSUME Server!Receive(p), Begins({p}), toServer' \subseteq toServer,
                    UNCHANGED <<ce, nextID, asked, ran, got>>,
                    FromClient(p, asked, got), Histories(asked, ran, runs, nextID)
             PROVE  Inv'
  BY DEF ServerReceives, Rest, clientVars, Inv, Together
<1>1. /\ LocalKey(p) \in Called(asked) /\ LocalKey(p) \in SKey
      /\ Delivers(p, ServerIn(asked)[LocalKey(p)])
  BY ToServer
<1>2. /\ Server!KeyOf(p) = LocalKey(p) /\ Server!Brings(p, ServerIn(asked))
      /\ Server!Opening(p) \subseteq Called(asked)
  BY <1>1
     DEF Server!KeyOf, Server!LocalID, LocalKey, Server!Brings, Server!Opening, Delivers, Server!Carries, Carries,
         Server!Key, Server!Id, SKey, KeysOf
<1>3. /\ Server!Evolves(ServerOut(ran), ServerIn(asked), Server!Opening(p), {LocalKey(p)}, {LocalKey(p)})
      /\ Server!Starts(se, se', ServerIn(asked), Server!Filled(se, p))
      /\ p.type \notin {"ACK", "RPC_UNKNOWN"} => Server!Retains(se, se')
  BY <1>2, SidesLawful, SidesCount, ServerSetting, Server!ReceiveContent DEF Inv
<1>4. Stays(se, se', got)
  <2>1. CASE p.type \in {"ACK", "RPC_UNKNOWN"}
    <3>1. \A k \in SKey : se.rpcs[k] = se'.rpcs[k] \/ se.rpcs[k] = Nil \/ k = LocalKey(p)
      BY <1>3 DEF Server!Evolves, Server!Passes, Server!Key, Server!Id, SKey, KeysOf
    <3> QED BY <2>1, <3>1, OverStays
  <2>2. CASE p.type \notin {"ACK", "RPC_UNKNOWN"}
    BY <1>3, <2>2, HandlersStay
       DEF Server!Retains, Server!IsClientID, Server!Key, Server!Id, SKey, KeysOf
  <2> QED BY <2>1, <2>2
<1>5. \A o \in SOut : Seen(o, {p}) = Server!Filled(se, p)[o]
  <2>1. \A o \in SOut : Seen(o, {p}) = Server!Fill(se.rpc[o].rx, CHOOSE q \in {p} : TRUE).data
    BY DEF Seen
  <2>2. (CHOOSE q \in {p} : TRUE) = p
    OBVIOUS
  <2>3. \A o \in SOut : Seen(o, {p}) = Server!Fill(se.rpc[o].rx, p).data
    BY <2>1, <2>2
  <2> QED BY <2>3 DEF Server!Filled
<1>6. Responds(se, se', ran, ran') /\ {LocalKey(p)} \subseteq Called(asked)
  BY <1>1, NoResponse
<1> QED BY <1>2, <1>3, <1>4, <1>5, <1>6, ServerEvolves

-----------------------------------------------------------------------------
(* The network, the first state, and every step. *)

\* A packet that is lost preserves Inv.
LEMMA LoseInv ==
  ASSUME Inv, NEW p, Lose(p)
  PROVE  Inv'
<1>1. Together(ce, se, asked, input, runs, ran, got, nextID, toServer', toClient')
  BY LoseTogether DEF Inv, Lose
<1> QED BY <1>1 DEF Inv, Lose, clientVars, historyVars

\* And so does the client's.
LEMMA EmptyClientContent ==
  \A Out, In : Client!Content(EmptyTable(Client!Key, COut, Client!Blank), Out, In)
<1>1. Client!Blank \in Client!Rpc
  BY ClientSetting, Client!BlankType
<1> QED BY <1>1, Zero
        DEF EmptyTable, Client!Content, Client!Formed, Client!Shaped, Client!Handles, Client!Blank

\* Inv holds when nothing was called yet.
LEMMA InitInv ==
  ASSUME Init
  PROVE  Inv
<1>1. /\ ce.rpcs = [k \in CKey |-> Nil] /\ se.rpcs = [k \in SKey |-> Nil]
      /\ se.payload = [o \in SOut |-> 0]
  BY DEF Init, EmptyServer, EmptyTable, Client!Key, Client!Id, Server!Key, Server!Id, CKey, SKey, KeysOf
<1>2. Together(ce, se, asked, input, runs, ran, got, nextID, toServer, toClient)
  BY <1>1, InitTogether DEF Init
<1> QED BY <1>2, EmptyServerContent, EmptyClientContent DEF Inv, Init

\* Every step of the client, the server and the network preserves Inv.
LEMMA NextInv == Inv /\ [Next]_vars => Inv'
<1> SUFFICES ASSUME Inv, [Next]_vars
             PROVE  Inv'
  OBVIOUS
<1>1. CASE Next
  BY <1>1, ReturnStepInv, ClientAloneInv, CallStepInv, ServerTicksInv, ServerFaultInv, ServerRespondsInv,
     ServerHandlerFailsInv, ServerRestartsInv, ClientReceivesInv, ServerReceivesInv, LoseInv DEF Next
<1>2. CASE UNCHANGED vars
  BY <1>2 DEF Inv, vars, clientVars, netVars, historyVars
<1> QED BY <1>1, <1>2

\* Inv is an invariant of a client, a server and their network.
THEOREM InvHolds == Spec => []Inv
BY InitInv, NextInv, PTL DEF Spec

-----------------------------------------------------------------------------
(* What the applications see. *)

\* A handler sees exactly the bytes that Call was given, for any number of calls
\* and messages of any length, in a network that loses, reorders and duplicates
\* (endpoint.go: data, startHandler).
THEOREM RequestsWhole == Spec => []RequestWhole
<1>1. Inv => RequestWhole
  <2> SUFFICES ASSUME Inv, NEW o \in SOut, se.payload[o] > 0
               PROVE  input[o] = BytesOf(asked[se.rpc[o].key[2] - 1])
    BY DEF RequestWhole
  <2>1. PICK i \in Made(asked) : se.rpc[o].key = ServerKey(i) /\ input[o] = BytesOf(asked[i])
    BY DEF Inv, Together, ServerHolds
  <2>2. ServerKey(i)[2] = i + 1 /\ (i + 1) - 1 = i
    BY ServerKeys, IdFacts DEF Made
  <2> QED BY <2>1, <2>2
<1> QED BY <1>1, InvHolds, PTL

\* A call that succeeds has a response of its own handler: as long as one, every
\* byte from one, and byte for byte the same if the handler ran once
\* (endpoint.go: data, finish).
THEOREM ResponsesWhole == Spec => []ResponseWhole
<1>1. Inv => ResponseWhole
  <2> SUFFICES ASSUME Inv, NEW i \in Succeeded
               PROVE  /\ \E m \in ran[i] : DOMAIN got[i].data = 0 .. m.len - 1
                      /\ \A x \in DOMAIN got[i].data : \E m \in ran[i] : got[i].data[x] = m.body
                      /\ runs[i] = 1 => \E m \in ran[i] : got[i].data = BytesOf(m)
    BY DEF ResponseWhole
  <2>1. /\ i \in Ids /\ got[i] # Nil /\ got[i].err = "ok"
        /\ Answers(got, ran) /\ Single(se, ran, runs)
    BY DEF Succeeded, Inv, Together
  <2>2. Response(got[i].data, ran[i])
    BY <2>1 DEF Answers
  <2>3. ASSUME runs[i] = 1
        PROVE  Exact(got[i].data, ran[i])
    BY <2>1, <2>3, OneResponse
  <2> QED BY <2>2, <2>3 DEF Response, Exact
<1> QED BY <1>1, InvHolds, PTL

\* An ACK is under way only for a call that is over, so a response that the
\* server forgets is never needed again (endpoint.go: data, receive).
THEOREM AcksMeanDone == Spec => []AckMeansDone
<1>1. Inv => AckMeansDone
  BY DEF Inv, Together, FromClient, AckMeansDone
<1> QED BY <1>1, InvHolds, PTL

\* Where the server neither restarts nor fails to write, the handler of an open
\* call runs at most once, whatever is duplicated or sent again
\* (endpoint.go: data, startHandler).
THEOREM RunsOnceWhileOpen ==
  ASSUME NothingDropped
  PROVE  Spec => []OnceWhileOpen
<1>1. Inv => OnceWhileOpen
  BY Zero DEF Inv, Together, Kept, OnceWhileOpen
<1> QED BY <1>1, InvHolds, PTL

-----------------------------------------------------------------------------
(* A client and a server implement RpcService. *)

\* A step in which at most one call ends is a step of RpcService.
LEMMA EndServes ==
  ASSUME Alike, Inv, Replied(asked, ran), OneEnds(asked, ran, got, got'),
         asked' = asked, ran' = ran
  PROVE  [Service!Next]_(Service!vars)
<1> DEFINE X == [i \in Ids |-> OutcomeOf(got[i], Server!NoMsg)]
           Y == [i \in Ids |-> OutcomeOf(got'[i], Server!NoMsg)]
<1>1. OutcomeStep(asked, ran, X, Y, Server!NoMsg)
  BY OneOutcome DEF Inv, Outcomes
<1>2. CASE Y = X
  BY <1>2 DEF Service!vars
<1>3. ASSUME NEW i \in Made(asked), X[i] = Nil,
             \/ \E m \in ran[i] : Y = [X EXCEPT ![i] = m]
             \/ Y = [j \in Ids |-> IF j \in {i} THEN Server!NoMsg ELSE X[j]]
      PROVE  Service!Next
  <2>1. i \in Ids /\ i \in Service!Open
    BY <1>3 DEF Made, Service!Open
  <2> QED BY <1>3, <2>1 DEF Service!Next, Service!Succeed, Service!Fail
<1> QED BY <1>1, <1>2, <1>3 DEF OutcomeStep

\* Call is a step of RpcService (endpoint.go: Call).
LEMMA CallServes ==
  ASSUME Inv, Replied(asked, ran), NEW c, NEW msg \in Requests, CallStep(c, msg)
  PROVE  Service!Next /\ Replied(asked', ran')
<1> SUFFICES ASSUME Client!Call(c, ServerAddr, msg),
                    asked' = [asked EXCEPT ![nextID + 2] = msg], ran' = ran, got' = got,
                    Together(ce, se, asked, input, runs, ran, got, nextID, toServer, toClient)
             PROVE  Service!Next /\ Replied(asked', ran')
  BY DEF CallStep, Inv
<1>1. nextID < 2 * MaxCalls
  BY ClientSetting, Client!CallTakesID
<1>2. nextID + 2 \in Ids /\ asked[nextID + 2] = Nil /\ Extends(asked, asked')
  BY <1>1, CallEnters
<1>3. Service!Ask(nextID + 2, msg)
  BY <1>2 DEF Service!Ask
<1> QED BY <1>2, <1>3, RepliedCall DEF Service!Next

\* A handler that answers is a step of RpcService (endpoint.go: startHandler).
LEMMA ResponseServes ==
  ASSUME Inv, Replied(asked, ran), NEW o \in SOut, NEW msg, ServerResponds(o, msg)
  PROVE  Service!Next /\ Replied(asked', ran')
<1> SUFFICES ASSUME se.payload[o] > 0, msg \in Replies(input[o][0]),
                    ran' = [ran EXCEPT ![se.rpc[o].key[2] - 1] = @ \cup {msg}],
                    asked' = asked, got' = got,
                    Together(ce, se, asked, input, runs, ran, got, nextID, toServer, toClient)
             PROVE  Service!Next /\ Replied(asked', ran')
  BY DEF ServerResponds, Server!HandlerResponds, Inv
<1>1. RepliesWith(asked, ran, ran', msg)
  BY HandlerReplies
<1>2. PICK i \in Made(asked) : msg \in ReplyTo(asked[i]) /\ ran' = [ran EXCEPT ![i] = @ \cup {msg}]
  BY <1>1 DEF RepliesWith
<1>3. i \in Ids /\ Service!Run(i)
  BY <1>2 DEF Service!Run, Made
<1> QED BY <1>1, <1>3 DEF Service!Next, RepliesWith

\* Every step of a client, a server and their network is a step of RpcService or
\* leaves what it speaks of as it is.
LEMMA NextServes ==
  ASSUME Alike, Inv, Replied(asked, ran), [Next]_vars
  PROVE  [Service!Next]_(Service!vars) /\ Replied(asked', ran')
<1>1. CASE UNCHANGED <<asked, ran, got>>
  BY <1>1 DEF Service!vars
<1>2. ASSUME NEW c, NEW due, NEW o, NEW p,
             CancelStep(c) \/ ClientTicks(due) \/ ClientFault(o) \/ ClientReceives(p)
      PROVE  [Service!Next]_(Service!vars) /\ Replied(asked', ran')
  <2>1. OneEnds(asked, ran, got, got')
    BY <1>2, ClientAloneInv, ClientReceivesInv
  <2>2. asked' = asked /\ ran' = ran
    BY <1>2 DEF CancelStep, ClientTicks, ClientFault, ClientReceives
  <2> QED BY <2>1, <2>2, EndServes
<1>3. CASE \/ \E c \in Callers : ReturnStep(c)
           \/ \E due : ServerTicks(due)
           \/ \E o \in SOut : ServerFault(o) \/ \E msg : ServerHandlerFails(o, msg)
           \/ ServerRestarts
           \/ \E p : ServerReceives(p) \/ Lose(p)
           \/ UNCHANGED vars
  <2>1. UNCHANGED <<asked, ran, got>>
    BY <1>3 DEF ReturnStep, ServerTicks, ServerFault, ServerHandlerFails, ServerRestarts,
           ServerReceives, Lose, vars, historyVars
  <2> QED BY <1>1, <2>1
<1> QED BY <1>2, <1>3, CallServes, ResponseServes DEF Next

\* A client and a server implement RpcService: a call that succeeds returns one
\* whole response that a handler gave to its request.  The handlers answer equal
\* requests alike, or the server drops no RPC before it is acknowledged
\* (endpoint.go: Call, receive, data; api.go: Handler).
THEOREM Serves ==
  ASSUME Alike
  PROVE  Spec => ServesCalls
<1>1. Init => Service!Init /\ Replied(asked, ran)
  BY DEF Init, Service!Init, Replied, OutcomeOf
<1>2. Inv /\ Replied(asked, ran) /\ [Next]_vars
        => [Service!Next]_(Service!vars) /\ Replied(asked, ran)'
  BY NextServes
<1> QED BY <1>1, <1>2, InvHolds, PTL DEF Spec, ServesCalls, Service!Spec

=============================================================================
