--------------------------- MODULE ExchangeSteps ----------------------------
(***************************************************************************)
(* What a client and a server do together (Exchange), for any number of    *)
(* calls, messages of any length and a network that loses, reorders and    *)
(* duplicates packets.  EndpointContent says what each side does with the  *)
(* messages it sends and receives, CallLemmas what follows for the two     *)
(* sides and the packets between them; here the actions of the client are  *)
(* shown to be such steps.  ExchangeProofs does the same for the server.   *)
(***************************************************************************)
EXTENDS Exchange, CallLemmas

USE ZenonT(60)

Inv ==
  /\ Together(ce, se, asked, input, runs, ran, got, nextID, toServer, toClient)
  /\ Client!Content(ce, ClientOut(asked), ClientIn(ran))
  /\ Server!Content(se, ServerOut(ran), ServerIn(asked))

-----------------------------------------------------------------------------
(* The two sides are endpoints. *)

\* The client's instance of Endpoint meets what Endpoint assumes.
LEMMA ClientSetting ==
  /\ FALSE \in BOOLEAN
  /\ MaxSize \in Nat \ {0}
  /\ MaxCalls \in Nat \ {0}
  /\ Budget \in Nat \ {0}
  /\ Workers \in Nat \ {0}
  /\ ClientSegment \in Nat \ {0}
  /\ Unscheduled \in Nat \ {0}
  /\ Unscheduled % ClientSegment = 0
  /\ GrantBytes \in Nat \ {0}
  /\ Overcommit \in 1 .. MaxCalls
  /\ MaxCalls \in Nat
  /\ Client!IsFiniteSet(COut) /\ Nil \notin COut /\ ClientAddr \notin {ServerAddr}
  /\ Nil \notin Client!Key
  /\ {} \subseteq Client!Packets
<1>1. MaxCalls \in Nat /\ FALSE \in BOOLEAN /\ ClientAddr \notin {ServerAddr}
  BY TwoSides
<1>2. Client!IsFiniteSet(COut)
  BY FiniteStructs DEF Client!IsFiniteSet
<1>3. Nil \notin Client!Key
  BY StructsAssumption DEF Client!Key, Client!Id, KeysOf
<1> QED BY <1>1, <1>2, <1>3, MessagesAssumption, SizesAssumption, StructsAssumption

\* And so does the server's.
LEMMA ServerSetting ==
  /\ TRUE \in BOOLEAN
  /\ MaxSize \in Nat \ {0}
  /\ MaxCalls \in Nat \ {0}
  /\ Budget \in Nat \ {0}
  /\ Workers \in Nat \ {0}
  /\ ServerSegment \in Nat \ {0}
  /\ Unscheduled \in Nat \ {0}
  /\ Unscheduled % ServerSegment = 0
  /\ GrantBytes \in Nat \ {0}
  /\ Overcommit \in 1 .. MaxCalls
  /\ MaxCalls \in Nat
  /\ Server!IsFiniteSet(SOut) /\ Nil \notin SOut /\ ServerAddr \notin {ClientAddr}
  /\ Nil \notin Server!Key
  /\ {} \subseteq Server!Packets
<1>1. MaxCalls \in Nat /\ TRUE \in BOOLEAN /\ ServerAddr \notin {ClientAddr}
  BY TwoSides
<1>2. Server!IsFiniteSet(SOut)
  BY FiniteStructs DEF Server!IsFiniteSet
<1>3. Nil \notin Server!Key
  BY StructsAssumption DEF Server!Key, Server!Id, KeysOf
<1> QED BY <1>1, <1>2, <1>3, MessagesAssumption, SizesAssumption, StructsAssumption

\* Both sides count bytes and find the first one missing (endpoint.go: data).
LEMMA SidesCount == Client!Numbers /\ Server!Numbers
<1>1. \A S \in SUBSET Nat : S # {} => Client!Min(S) \in S /\ Server!Min(S) \in S
  BY Least DEF Client!Min, Server!Min
<1> QED BY <1>1, Counting
        DEF Client!Numbers, Server!Numbers, Client!Cardinality, Server!Cardinality, Cardinality

\* A complete buffer of either side is a whole message (endpoint.go: data).
LEMMA ClientWhole ==
  ASSUME NEW a \in Client!Rx, NEW M, Client!Complete(a, M)
  PROVE  Whole(a, M)
<1>1. a.len \in Nat /\ a.data = [x \in DOMAIN a.data |-> a.data[x]]
  BY ClientSetting, Client!DataType DEF Client!Rx
<1>2. /\ \E m \in M : a.len = m.len
      /\ DOMAIN a.data \in SUBSET (0 .. a.len - 1) /\ Cardinality(DOMAIN a.data) = a.len
      /\ \A x \in DOMAIN a.data : \E m \in M : a.data[x] = m.body
  BY Zero
     DEF Client!Complete, Client!Assembles, Client!Count, Client!Cardinality, Cardinality
<1> QED BY <1>1, <1>2, FullBuffer DEF Whole

\* And so is one of the server.
LEMMA ServerWhole ==
  ASSUME NEW a \in Server!Rx, NEW M, Server!Complete(a, M)
  PROVE  Whole(a, M)
<1>1. a.len \in Nat /\ a.data = [x \in DOMAIN a.data |-> a.data[x]]
  BY ServerSetting, Server!DataType DEF Server!Rx
<1>2. /\ \E m \in M : a.len = m.len
      /\ DOMAIN a.data \in SUBSET (0 .. a.len - 1) /\ Cardinality(DOMAIN a.data) = a.len
      /\ \A x \in DOMAIN a.data : \E m \in M : a.data[x] = m.body
  BY Zero
     DEF Server!Complete, Server!Assembles, Server!Count, Server!Cardinality, Cardinality
<1> QED BY <1>1, <1>2, FullBuffer DEF Whole

\* What an endpoint does as the client is a step of the client.
LEMMA ClientSteps ==
  ASSUME NEW A, NEW R, NEW Enter, NEW Leave, NEW K,
         Client!Evolves(ClientOut(A), ClientIn(R), Enter, Leave, K)
  PROVE  ClientStep(ce, ce', toServer, toServer', A, R, Enter, K)
<1>1. Client!Key = CKey
  BY DEF Client!Key, Client!Id, CKey, KeysOf
<1>2. \A k \in CKey : \/ ce'.rpcs[k] = ce.rpcs[k]
                      \/ ce'.rpcs[k] = Nil
                      \/ ce.rpcs[k] = Nil /\ k \in Enter
  BY <1>1 DEF Client!Evolves, Client!Passes
<1>3. ASSUME NEW k \in CKey, ce.rpcs[k] # Nil, ce'.rpcs[k] = Nil, k[2] % 2 = 0
      PROVE  \E x : /\ ce'.rpc[ce.rpcs[k]].result = <<x>> /\ x # Nil
                    /\ x.err = "ok" => \E a : Whole(a, ClientIn(R)[k]) /\ x.data = a.data
  <2>1. PICK x \in Client!Result :
          /\ ce'.rpc[ce.rpcs[k]].result = <<x>>
          /\ x.err = "ok" => \E a \in Client!Rx : Client!Complete(a, ClientIn(R)[k]) /\ x.data = a.data
    BY <1>1, <1>3 DEF Client!Evolves, Client!Settles, Client!IsClientID
  <2> QED BY <2>1, ClientWhole, ResultAssumption
<1>4. \A q \in toServer' \ toServer :
        SentBy(ClientAddr, q, ce', ClientOut(A), K \cup Served(CKey, ce) \cup Served(CKey, ce'))
  <2>1. \A q, L : Client!Sends(q, ce', ClientOut(A), L) => SentBy(ClientAddr, q, ce', ClientOut(A), L)
    BY DEF Client!Sends, Client!Carries, SentBy, Carries
  <2>2. Client!Served(ce) = Served(CKey, ce) /\ Client!Served(ce') = Served(CKey, ce')
    BY DEF Client!Served, Served, Client!Key, Client!Id, CKey, KeysOf
  <2> QED BY <2>1, <2>2 DEF Client!Evolves, Put
<1> QED BY <1>2, <1>3, <1>4 DEF ClientStep, Settles

\* What an endpoint does as the server is a step of the server.
LEMMA ServerSteps ==
  ASSUME NEW R, NEW In, NEW Enter, NEW Leave, NEW K,
         Server!Evolves(ServerOut(R), In, Enter, Leave, K)
  PROVE  ServerStep(se, se', toClient, toClient', R, Enter, K)
<1>1. Server!Key = SKey
  BY DEF Server!Key, Server!Id, SKey, KeysOf
<1>2. /\ \A k \in SKey : \/ se'.rpcs[k] = se.rpcs[k]
                         \/ se'.rpcs[k] = Nil
                         \/ se.rpcs[k] = Nil /\ k \in Enter
      /\ \A k \in SKey : /\ se.rpcs[k] # Nil /\ se'.rpcs[k] = se.rpcs[k]
                         /\ se.rpc[se.rpcs[k]].handling
                         => se'.rpc[se.rpcs[k]].handling
      /\ \A o \in SOut : se.payload[o] > 0 /\ se'.payload[o] > 0 => se'.rpc[o].key = se.rpc[o].key
  BY <1>1 DEF Server!Evolves, Server!Passes
<1>3. \A q \in toClient' \ toClient :
        SentBy(ServerAddr, q, se', ServerOut(R), K \cup Served(SKey, se) \cup Served(SKey, se'))
  <2>1. \A q, L : Server!Sends(q, se', ServerOut(R), L) => SentBy(ServerAddr, q, se', ServerOut(R), L)
    BY DEF Server!Sends, Server!Carries, SentBy, Carries
  <2>2. Server!Served(se) = Served(SKey, se) /\ Server!Served(se') = Served(SKey, se')
    BY DEF Server!Served, Served, Server!Key, Server!Id, SKey, KeysOf
  <2> QED BY <2>1, <2>2 DEF Server!Evolves, Put
<1> QED BY <1>2, <1>3 DEF ServerStep

\* A handler that an endpoint starts is one that starts for a call.
LEMMA ServerStarts ==
  ASSUME NEW A, NEW seen, Server!Starts(se, se', ServerIn(A), seen)
  PROVE  Starts(se, se', A, seen)
<1>1. Server!Key = SKey
  BY DEF Server!Key, Server!Id, SKey, KeysOf
<1>2. ASSUME NEW o \in Begin(se, se')
      PROVE  LET k == se'.rpc[o].key IN
             /\ k \in SKey /\ se'.rpcs[k] = o /\ se'.rpc[o].handling
             /\ se.rpcs[k] # Nil => se.rpcs[k] = o /\ ~se.rpc[o].handling
             /\ \E a : Whole(a, ServerIn(A)[k]) /\ seen[o] = a.data
  <2>1. LET k == se'.rpc[o].key IN
        /\ k \in SKey /\ se'.rpcs[k] = o /\ se'.rpc[o].handling
        /\ se.rpcs[k] # Nil => se.rpcs[k] = o /\ ~se.rpc[o].handling
        /\ \E a \in Server!Rx : Server!Complete(a, ServerIn(A)[k]) /\ seen[o] = a.data
    BY <1>1 DEF Server!Starts, Begin
  <2> QED BY <2>1, ServerWhole
<1> QED BY <1>2 DEF Starts

\* The messages of both sides are messages that an endpoint accepts.
LEMMA SidesLawful ==
  ASSUME NEW A, NEW R, NEW N, NEW n, Histories(A, R, N, n)
  PROVE  /\ Client!Lawful(ClientOut(A)) /\ Client!Lawful(ClientIn(R))
         /\ Server!Lawful(ServerOut(R)) /\ Server!Lawful(ServerIn(A))
BY MessageSets
   DEF Client!Lawful, Client!Messages, Client!Key, Client!Id, CKey, ClientOut, ClientIn,
       Server!Lawful, Server!Messages, Server!Key, Server!Id, SKey, ServerOut, ServerIn, KeysOf

-----------------------------------------------------------------------------
(* The actions of the client. *)

\* An action of the client that makes no call preserves Inv, and ends at most
\* one call.
LEMMA ClientGoes ==
  ASSUME Inv, NEW K, \A k \in K : k \in CKey /\ k[2] \in Made(asked),
         NEW Leave, Client!Evolves(ClientOut(asked), ClientIn(ran), {}, Leave, K), Ended,
         Client!LosesOne(ce, ce'),
         toClient' \subseteq toClient, nextID' = nextID, UNCHANGED <<se, asked, input, runs, ran>>
  PROVE  Inv' /\ OneEnds(asked, ran, got, got')
<1> SUFFICES ASSUME Together(ce, se, asked, input, runs, ran, got, nextID, toServer, toClient),
                    Ending(ce, ce', got, got'), LosesOne(ce, ce')
             PROVE  Inv' /\ OneEnds(asked, ran, got, got')
  BY DEF Inv, Ended, Ending, LosesOne, Client!LosesOne, Client!Key, Client!Id, CKey, KeysOf
<1>1. ClientStep(ce, ce', toServer, toServer', asked, ran, {}, K)
  BY ClientSteps
<1>2. Together(ce', se, asked, input, runs, ran, got', nextID, toServer', toClient')
  BY <1>1, ClientTogether
<1>3. OneEnds(asked, ran, got, got')
  BY <1>1, OneCallEnds
<1> QED BY <1>2, <1>3 DEF Inv, Client!Evolves

\* Cancelling a call, the client's timer and a packet that cannot be written
\* preserve Inv: a call that ends leaves the table with its result.
LEMMA ClientAloneInv ==
  ASSUME Inv, NEW c, NEW due, NEW o, CancelStep(c) \/ ClientTicks(due) \/ ClientFault(o)
  PROVE  Inv' /\ OneEnds(asked, ran, got, got')
<1> SUFFICES ASSUME Client!Cancel(c) \/ Client!Abort(c) \/ Client!Tick({}, due) \/ Client!WriteFails(o),
                    Ended, UNCHANGED <<se, toClient, asked, input, runs, ran>>
             PROVE  Inv' /\ OneEnds(asked, ran, got, got')
  BY DEF CancelStep, ClientTicks, ClientFault
<1>1. /\ Client!Evolves(ClientOut(asked), ClientIn(ran), {}, Client!Key, {})
      /\ Client!LosesOne(ce, ce') /\ nextID' = nextID
  BY SidesCount, ClientSetting, Client!AloneContent DEF Inv
<1> QED BY <1>1, ClientGoes

\* A call that returns leaves everything but its struct as it was.
LEMMA ReturnStepInv ==
  ASSUME Inv, NEW c, ReturnStep(c)
  PROVE  Inv'
<1> SUFFICES ASSUME Client!Return(c),
                    UNCHANGED <<se, toClient, asked, input, runs, ran, got>>
             PROVE  Inv'
  BY DEF ReturnStep, historyVars
<1>1. /\ Client!Evolves(ClientOut(asked), ClientIn(ran), {}, {}, {}) /\ ce'.rpcs = ce.rpcs
      /\ nextID' = nextID
  BY ClientSetting, Client!ReturnContent DEF Inv
<1>2. ClientStep(ce, ce', toServer, toServer', asked, ran, {}, {})
  BY <1>1, ClientSteps
<1>3. Together(ce', se, asked, input, runs, ran, got, nextID, toServer', toClient)
  BY <1>1, <1>2, ReturnTogether DEF Inv
<1> QED BY <1>1, <1>3 DEF Inv, Client!Evolves

\* Call preserves Inv: the new call has an identifier of its own.
LEMMA CallStepInv ==
  ASSUME Inv, NEW c, NEW msg \in Requests, CallStep(c, msg)
  PROVE  Inv'
<1> SUFFICES ASSUME Client!Call(c, ServerAddr, msg),
                    asked' = [asked EXCEPT ![nextID + 2] = msg],
                    UNCHANGED <<se, toClient, input, runs, ran, got>>,
                    Together(ce, se, asked, input, runs, ran, got, nextID, toServer, toClient)
             PROVE  Inv'
  BY DEF CallStep, Inv
<1>1. nextID < 2 * MaxCalls /\ nextID' = nextID + 2
  BY ClientSetting, Client!CallTakesID
<1>2. /\ nextID \in Nat /\ nextID + 2 \in Ids /\ Extends(asked, asked')
      /\ Histories(asked', ran, runs, nextID)
      /\ ce.rpcs[ClientKey(nextID + 2)] = Nil /\ msg \in ClientOut(asked')[ClientKey(nextID + 2)]
      /\ Widens(asked, asked')
  BY <1>1, CallEnters
<1>3. /\ \A k \in Client!Key : ClientOut(asked)[k] \subseteq ClientOut(asked')[k]
      /\ \A k \in Server!Key : ServerIn(asked)[k] \subseteq ServerIn(asked')[k]
  BY <1>2 DEF Widens, Client!Key, Client!Id, Server!Key, Server!Id, CKey, SKey, KeysOf
<1>4. Client!Content(ce, ClientOut(asked'), ClientIn(ran))
  BY <1>3, ClientSetting, Client!WidenContent DEF Inv
<1>5. Server!Content(se, ServerOut(ran), ServerIn(asked'))
  BY <1>3, ServerSetting, Server!WidenContent DEF Inv
<1>6. /\ Client!Evolves(ClientOut(asked'), ClientIn(ran), {ClientKey(nextID + 2)}, {}, {})
      /\ ce'.rpcs[ClientKey(nextID + 2)] # Nil
  BY <1>2, <1>4, SidesLawful, ClientSetting, Client!CallContent DEF ClientKey
<1>7. ClientStep(ce, ce', toServer, toServer', asked', ran, {ClientKey(nextID + 2)}, {})
  BY <1>6, ClientSteps
<1>8. \A k \in CKey : ce'.rpcs[k] = Nil => ce.rpcs[k] = Nil
  BY <1>6 DEF Client!Evolves, Client!Passes, Client!Key, Client!Id, CKey, KeysOf
<1>9. Together(ce', se, asked', input, runs, ran, got, nextID + 2, toServer', toClient)
  BY <1>2, <1>6, <1>7, <1>8, CallTogether
<1> QED BY <1>1, <1>5, <1>6, <1>9 DEF Inv, Client!Evolves

\* A packet that reaches the client preserves Inv, and ends at most its call.
LEMMA ClientReceivesInv ==
  ASSUME Inv, NEW p, ClientReceives(p)
  PROVE  Inv' /\ OneEnds(asked, ran, got, got')
<1> SUFFICES ASSUME Client!Receive(p), Ended, toClient' \subseteq toClient,
                    UNCHANGED <<se, asked, input, runs, ran>>,
                    FromServer(p, asked, ran), Histories(asked, ran, runs, nextID)
             PROVE  Inv' /\ OneEnds(asked, ran, got, got')
  BY DEF ClientReceives, Rest, Inv, Together
<1>1. /\ LocalKey(p) \in CKey /\ LocalKey(p)[2] \in Made(asked) /\ LocalKey(p)[2] % 2 = 0
      /\ Delivers(p, ClientIn(ran)[LocalKey(p)])
  BY ToClient
<1>2. /\ Client!KeyOf(p) = LocalKey(p)
      /\ Client!Brings(p, ClientIn(ran)) /\ Client!Opening(p) = {}
  BY <1>1
     DEF Client!KeyOf, Client!LocalID, LocalKey,
         Client!Brings, Client!Opening, Client!IsClientID, Delivers, Client!Carries, Carries,
         Client!Key, Client!Id, CKey, KeysOf
<1>3. /\ Client!Evolves(ClientOut(asked), ClientIn(ran), {}, {LocalKey(p)}, {LocalKey(p)})
      /\ Client!LosesOne(ce, ce') /\ nextID' = nextID
  BY <1>2, SidesLawful, SidesCount, ClientSetting, Client!ReceiveContent DEF Inv
<1> QED BY <1>1, <1>3, ClientGoes

-----------------------------------------------------------------------------
(* The server: the steps that its actions are. *)

\* A step that is right for the server preserves Inv.
LEMMA ServerGoes ==
  ASSUME Inv, NEW Enter, Enter \subseteq Called(asked), NEW K, K \subseteq Called(asked),
         ServerStep(se, se', toClient, toClient', ran', Enter, K), NEW seen,
         Handling(se, se', asked, seen, input, input', runs, runs', ran, ran', got),
         Server!Content(se', ServerOut(ran'), ServerIn(asked)),
         toServer' \subseteq toServer, UNCHANGED <<ce, nextID, asked, got>>
  PROVE  Inv'
<1> SUFFICES ASSUME Together(ce, se, asked, input, runs, ran, got, nextID, toServer, toClient),
                    se.payload \in [SOut -> Nat], Responds(se, se', ran, ran')
             PROVE  Inv'
  BY DEF Inv, Server!Content, Server!Formed, Handling
<1>1. Together(ce, se', asked, input', runs', ran', got, nextID, toServer', toClient')
  BY ServerTogether
<1>2. \A k \in Client!Key : ClientIn(ran)[k] \subseteq ClientIn(ran')[k]
  BY ResponseWidensKeys DEF Client!Key, Client!Id, CKey, KeysOf
<1>3. Client!Content(ce, ClientOut(asked), ClientIn(ran'))
  BY <1>2, ClientSetting, Client!WidenContent DEF Inv
<1> QED BY <1>1, <1>3 DEF Inv

\* The history records the handlers that start, and what they see.
LEMMA BeginsRecorded ==
  ASSUME NEW P, Begins(P), NEW seen, \A o \in SOut : Seen(o, P) = seen[o]
  PROVE  Inputs(se, se', seen, input, input') /\ Counts(se, se', runs, runs')
BY Zero DEF Begins, Begun, Inputs, Counts, Begin

\* A step of the server's endpoint preserves Inv.
LEMMA ServerEvolves ==
  ASSUME Inv, NEW Enter, Enter \subseteq Called(asked), NEW K, K \subseteq Called(asked),
         NEW Leave, Server!Evolves(ServerOut(ran'), ServerIn(asked), Enter, Leave, K),
         NEW seen, Server!Starts(se, se', ServerIn(asked), seen),
         NEW P, Begins(P), \A o \in SOut : Seen(o, P) = seen[o],
         Responds(se, se', ran, ran'), Stays(se, se', got),
         toServer' \subseteq toServer, UNCHANGED <<ce, nextID, asked, got>>
  PROVE  Inv'
<1>1. ServerStep(se, se', toClient, toClient', ran', Enter, K)
  BY ServerSteps
<1>2. Handling(se, se', asked, seen, input, input', runs, runs', ran, ran', got)
  BY ServerStarts, BeginsRecorded DEF Handling
<1>3. Server!Content(se', ServerOut(ran'), ServerIn(asked))
  BY DEF Server!Evolves
<1> QED BY <1>1, <1>2, <1>3, ServerGoes

\* The buffers that handlers are started with when no packet arrives.
LEMMA SeenBuffers == \A o \in SOut : Seen(o, {}) = Server!Buffers(se)[o]
BY DEF Seen, Server!Buffers

\* A step of the server's endpoint in which no RPC leaves its table.
LEMMA ServerKeeps ==
  ASSUME Inv, Server!Evolves(ServerOut(ran'), ServerIn(asked), {}, {}, {}),
         Server!Starts(se, se', ServerIn(asked), Server!Buffers(se)), Begins({}),
         Responds(se, se', ran, ran'), UNCHANGED <<ce, nextID, toServer, asked, got>>
  PROVE  Inv'
<1>1. \A k \in SKey : se'.rpcs[k] = se.rpcs[k] \/ se.rpcs[k] = Nil
  BY DEF Server!Evolves, Server!Passes, Server!Key, Server!Id, SKey, KeysOf
<1> QED BY <1>1, NoneLeaves, SeenBuffers, ServerEvolves

=============================================================================
