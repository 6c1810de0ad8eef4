----------------------------- MODULE CallLemmas -----------------------------
(***************************************************************************)
(* The calls of a client and a server, and the packets between them,       *)
(* whatever the two sides do with their tables: what must hold of both     *)
(* sides and the network together (Together), and that it goes on to hold  *)
(* when one side takes a step that is right for it (ClientStep,            *)
(* ServerStep).  EndpointContent shows that the steps of an endpoint are,  *)
(* and ExchangeProofs puts the two together.                               *)
(*                                                                         *)
(* Throughout, c and s are the tables of the client and of the server      *)
(* before a step, d and t after it; up and down are the packets under way  *)
(* to the server and to the client; and the history is A, the requests;    *)
(* I, what handlers saw; N, how often they were started; R, what they      *)
(* answered; G, how calls ended; n, the last identifier.                   *)
(***************************************************************************)
EXTENDS Calls, Integers, Sequences, TLAPS

CKey == KeysOf(ServerAddr)
SKey == KeysOf(ClientAddr)

Made(A) == {i \in Ids : A[i] # Nil}

\* The keys of calls that were made.
Called(A) == {ServerKey(i) : i \in Made(A)}

\* The messages of call i in each direction, and of a key of either side.
Asked(A, i) == IF i \in Made(A) THEN {A[i]} ELSE {}
Given(R, i) == IF i \in Ids THEN R[i] ELSE {}

ClientOut(A) == [k \in CKey |-> Asked(A, k[2])]
ClientIn(R) == [k \in CKey |-> Given(R, k[2])]
ServerOut(R) == [k \in SKey |-> Given(R, k[2] - 1)]
ServerIn(A) == [k \in SKey |-> Asked(A, k[2] - 1)]

\* A DATA packet with bytes of a message of M.
Carries(p, M) ==
  /\ p.acks = {}
  /\ p.off \in Nat /\ p.n \in Int /\ p.incoming \in Nat
  /\ \E m \in M : p.len = m.len /\ p.body = m.body

\* A buffer with all bytes of a message as long as one of M, each from one of M.
Whole(a, M) ==
  /\ a.data = [x \in DOMAIN a.data |-> a.data[x]]
  /\ \E m \in M : a.len = m.len
  /\ DOMAIN a.data = 0 .. a.len - 1
  /\ \A x \in DOMAIN a.data : \E m \in M : a.data[x] = m.body

Response(b, M) ==
  /\ b = [x \in DOMAIN b |-> b[x]]
  /\ \E m \in M : DOMAIN b = 0 .. m.len - 1
  /\ \A x \in DOMAIN b : \E m \in M : b[x] = m.body

-----------------------------------------------------------------------------
(* What holds of both sides together. *)

\* A packet of the client: for a call that was made, with its bytes; an ACK or
\* an RPC_UNKNOWN only for one that is over.
FromClient(p, A, G) ==
  /\ p.src = ClientAddr
  /\ p.id \in Made(A)
  /\ p.type = "DATA" => Carries(p, Asked(A, p.id))
  /\ p.type \in {"GRANT", "RESEND"} => p.off \in Nat /\ p.n \in Nat
  /\ p.type = "ACK" => p.acks = {}
  /\ p.type \in {"ACK", "RPC_UNKNOWN"} => G[p.id] # Nil

\* A packet of the server: for a call that was made, with bytes of one of the
\* responses that its handlers gave.
FromServer(p, A, R) ==
  \E i \in Made(A) :
    /\ p.src = ServerAddr
    /\ p.id = i + 1
    /\ p.type = "DATA" => Carries(p, Given(R, i))
    /\ p.type \in {"GRANT", "RESEND"} => p.off \in Nat /\ p.n \in Nat
    /\ p.type = "ACK" => p.acks = {}

\* The client's table has exactly the calls that are not over.
ClientHolds(c, A, G, n) ==
  /\ \A k \in CKey : c.rpcs[k] # Nil => k[2] \in Made(A) /\ G[k[2]] = Nil
  /\ \A i \in Made(A) : G[i] = Nil => c.rpcs[ClientKey(i)] # Nil
  /\ \A i \in Ids : i \in Made(A) <=> i <= n
  /\ \A i \in Ids : i \notin Made(A) => G[i] = Nil

\* The server's table has calls that were made, and handlers have their requests.
ServerHolds(s, A, I) ==
  /\ \A k \in SKey : s.rpcs[k] # Nil => k \in Called(A)
  /\ \A o \in SOut : s.payload[o] > 0 =>
       \E i \in Made(A) : s.rpc[o].key = ServerKey(i) /\ I[o] = BytesOf(A[i])

Answers(G, R) == \A i \in Ids : G[i] # Nil /\ G[i].err = "ok" => Response(G[i].data, R[i])

Runs(s, o, i) == s.payload[o] > 0 /\ s.rpc[o].key = ServerKey(i)

\* A handler that was started once is running or has given one response.
Single(s, R, N) ==
  \A i \in Ids :
    /\ N[i] = 0 => R[i] = {} /\ \A o \in SOut : ~Runs(s, o, i)
    /\ N[i] = 1 =>
         \/ R[i] = {} /\ \E z : \A o \in SOut : Runs(s, o, i) => o = z
         \/ (\A o \in SOut : ~Runs(s, o, i)) /\ \E m : R[i] \subseteq {m}

NothingDropped == "restart" \notin Faults /\ "write" \notin Faults

\* Without restarts and write errors, the request of an open call stays in the
\* table once its handler was started.
Kept(s, G, N) ==
  NothingDropped =>
    \A i \in Ids : G[i] = Nil /\ N[i] # 0 =>
      /\ N[i] = 1
      /\ s.rpcs[ServerKey(i)] # Nil
      /\ s.rpc[s.rpcs[ServerKey(i)]].handling

Histories(A, R, N, n) ==
  /\ A \in [Ids -> Requests \cup {Nil}]
  /\ R \in [Ids -> SUBSET Responses]
  /\ N \in [Ids -> Nat]
  /\ n \in {0} \cup Ids

Together(c, s, A, I, N, R, G, n, up, down) ==
  /\ Histories(A, R, N, n)
  /\ \A p \in up : FromClient(p, A, G)
  /\ \A p \in down : FromServer(p, A, R)
  /\ ClientHolds(c, A, G, n)
  /\ ServerHolds(s, A, I)
  /\ Answers(G, R)
  /\ Single(s, R, N)
  /\ Kept(s, G, N)

-----------------------------------------------------------------------------
(* What one side does. *)

\* A packet that the side src sends when its table becomes t, for an RPC of K.
SentBy(src, q, t, Out, K) ==
  /\ q.src = src
  /\ <<q.dst, q.id>> \in K
  /\ q.type = "DATA" => Carries(q, Out[<<q.dst, q.id>>])
  /\ q.type \in {"GRANT", "RESEND"} => q.off \in Nat /\ q.n \in Nat
  /\ q.type = "ACK" => q.acks = {} /\ t.rpcs[<<q.dst, q.id>>] = Nil
  /\ q.type = "RPC_UNKNOWN" => t.rpcs[<<q.dst, q.id>>] = Nil

Served(Key, s) == {k \in Key : s.rpcs[k] # Nil}

\* A call that leaves the table has one result, and if it is a success the
\* bytes are those of a complete response.
Settles(c, d, R) ==
  \A k \in CKey : c.rpcs[k] # Nil /\ d.rpcs[k] = Nil /\ k[2] % 2 = 0 =>
    \E x : /\ d.rpc[c.rpcs[k]].result = <<x>> /\ x # Nil
           /\ x.err = "ok" => \E a : Whole(a, ClientIn(R)[k]) /\ x.data = a.data

\* RPCs enter the client's table under keys of Enter, and packets are sent for
\* RPCs of K and of the table.
ClientStep(c, d, up, v, A, R, Enter, K) ==
  /\ \A k \in CKey : \/ d.rpcs[k] = c.rpcs[k]
                     \/ d.rpcs[k] = Nil
                     \/ c.rpcs[k] = Nil /\ k \in Enter
  /\ Settles(c, d, R)
  /\ \A q \in v \ up :
       SentBy(ClientAddr, q, d, ClientOut(A), K \cup Served(CKey, c) \cup Served(CKey, d))

ServerStep(s, t, down, v, R, Enter, K) ==
  /\ \A k \in SKey : \/ t.rpcs[k] = s.rpcs[k]
                     \/ t.rpcs[k] = Nil
                     \/ s.rpcs[k] = Nil /\ k \in Enter
  /\ \A k \in SKey : /\ s.rpcs[k] # Nil /\ t.rpcs[k] = s.rpcs[k]
                     /\ s.rpc[s.rpcs[k]].handling
                     => t.rpc[s.rpcs[k]].handling
  /\ \A o \in SOut : s.payload[o] > 0 /\ t.payload[o] > 0 => t.rpc[o].key = s.rpc[o].key
  /\ \A q \in v \ down :
       SentBy(ServerAddr, q, t, ServerOut(R), K \cup Served(SKey, s) \cup Served(SKey, t))

Begin(s, t) == {o \in SOut : s.payload[o] = 0 /\ t.payload[o] > 0}

\* A handler that starts has the bytes seen[o] of a complete request of the RPC
\* it runs for, and none was started for this RPC before.
Starts(s, t, A, seen) ==
  \A o \in Begin(s, t) :
    LET k == t.rpc[o].key IN
    /\ k \in SKey /\ t.rpcs[k] = o /\ t.rpc[o].handling
    /\ s.rpcs[k] # Nil => s.rpcs[k] = o /\ ~s.rpc[o].handling
    /\ \E a : Whole(a, ServerIn(A)[k]) /\ seen[o] = a.data

\* What Ended and Begins of Exchange say.
Ending(c, d, G, H) ==
  H = [i \in Ids |->
         LET o == c.rpcs[ClientKey(i)] IN
         IF o = Nil THEN G[i]
         ELSE IF d.rpcs[ClientKey(i)] = o THEN G[i] ELSE d.rpc[o].result[1]]

Inputs(s, t, seen, I, J) ==
  \A o \in SOut : t.payload[o] > 0 => J[o] = IF o \in Begin(s, t) THEN seen[o] ELSE I[o]

Counts(s, t, N, P) ==
  P = [i \in Ids |-> IF N[i] < 2 /\ \E o \in Begin(s, t) : t.rpc[o].key = ServerKey(i)
                     THEN N[i] + 1 ELSE N[i]]

\* A handler that answers has returned.
Responds(s, t, R, Q) ==
  /\ Q \in [Ids -> SUBSET Responses]
  /\ \A i \in Ids :
       \/ Q[i] = R[i]
       \/ \E o \in SOut : \E m : Runs(s, o, i) /\ t.payload[o] = 0 /\ Q[i] = R[i] \cup {m}

\* If nothing is dropped, the RPC of an open call stays once its handler runs.
Stays(s, t, G) ==
  NothingDropped =>
    \A i \in Ids :
      G[i] = Nil /\ s.rpcs[ServerKey(i)] # Nil /\ s.rpc[s.rpcs[ServerKey(i)]].handling =>
        t.rpcs[ServerKey(i)] = s.rpcs[ServerKey(i)]

-----------------------------------------------------------------------------
(* Identifiers and messages. *)

\* The two ends of call i know it by i and by i + 1 (Header.LocalID).
LEMMA IdFacts ==
  ASSUME NEW i \in Ids
  PROVE  /\ i \in Nat /\ i \in 2 .. 2 * MaxCalls + 1 /\ i + 1 \in 2 .. 2 * MaxCalls + 1
         /\ (i + 1) - 1 = i /\ i % 2 = 0 /\ (i + 1) % 2 # 0
<1>1. PICK j \in 1 .. MaxCalls : i = 2 * j
  BY Zenon DEF Ids
<1> QED BY <1>1, MessagesAssumption

\* The keys of the client.
LEMMA ClientKeys ==
  ASSUME NEW i \in Ids
  PROVE  ClientKey(i) \in CKey /\ ClientKey(i)[2] = i /\ i % 2 = 0
BY IdFacts DEF ClientKey, CKey, KeysOf

\* The keys of the server.
LEMMA ServerKeys ==
  ASSUME NEW i \in Ids
  PROVE  /\ ServerKey(i) \in SKey /\ ServerKey(i)[2] = i + 1
         /\ \A j \in Ids : ServerKey(i) = ServerKey(j) => i = j
<1>1. ServerKey(i) \in SKey /\ ServerKey(i)[2] = i + 1
  BY IdFacts DEF ServerKey, SKey, KeysOf
<1>2. \A j \in Ids : ServerKey(i) = ServerKey(j) => i = j
  BY IdFacts DEF ServerKey
<1> QED BY <1>1, <1>2, Zenon

\* A key of the client is the key of its identifier.
LEMMA ClientKeyOf ==
  ASSUME NEW k \in CKey
  PROVE  k = ClientKey(k[2])
BY DEF ClientKey, CKey, KeysOf

\* The messages that belong to a key.
LEMMA ServerTables ==
  ASSUME NEW i \in Ids, NEW A, NEW R
  PROVE  ServerIn(A)[ServerKey(i)] = Asked(A, i) /\ ServerOut(R)[ServerKey(i)] = R[i]
<1>1. ServerKey(i) \in SKey /\ ServerKey(i)[2] - 1 = i
  BY ServerKeys, IdFacts, Zenon
<1> QED BY <1>1, Zenon DEF ServerIn, ServerOut, Given

\* A complete request is what the call was given.
LEMMA WholeRequest ==
  ASSUME NEW A, A \in [Ids -> Requests \cup {Nil}], NEW i \in Made(A), NEW a, Whole(a, Asked(A, i))
  PROVE  a.data = BytesOf(A[i])
<1>1. Asked(A, i) = {A[i]}
  BY Zenon DEF Asked
<1>2. /\ DOMAIN a.data = 0 .. A[i].len - 1
      /\ \A x \in DOMAIN a.data : a.data[x] = A[i].body
      /\ a.data = [x \in DOMAIN a.data |-> a.data[x]]
  BY <1>1, Zenon DEF Whole
<1> QED BY <1>2, Zenon DEF BytesOf

\* A complete response is as long as one of those that were given, and every
\* byte is from one of them.
LEMMA WholeResponse ==
  ASSUME NEW M, M \in SUBSET Responses, NEW a, Whole(a, M)
  PROVE  Response(a.data, M)
BY Zenon DEF Whole, Response

\* A response stays one when a handler gives another.
LEMMA ResponseWidens ==
  ASSUME NEW b, NEW M, Response(b, M), NEW L, M \subseteq L
  PROVE  Response(b, L)
<1>1. \E m \in L : DOMAIN b = 0 .. m.len - 1
  BY Zenon DEF Response
<1>2. \A x \in DOMAIN b : \E m \in L : b[x] = m.body
  BY Zenon DEF Response
<1> QED BY <1>1, <1>2, Zenon DEF Response

-----------------------------------------------------------------------------
(* A step of the client. *)

\* A call that is over stays as it ended, and one that ends has its response.
Ends(c, d, G, H, R) ==
  \A i \in Ids :
    \/ /\ H[i] = G[i]
       /\ d.rpcs[ClientKey(i)] = c.rpcs[ClientKey(i)]
    \/ /\ c.rpcs[ClientKey(i)] # Nil /\ d.rpcs[ClientKey(i)] = Nil
       /\ H[i] # Nil
       /\ H[i].err = "ok" => Response(H[i].data, R[i])

\* The calls that end are those that leave the table (endpoint.go: finish).
LEMMA CallsEnd ==
  ASSUME NEW R, R \in [Ids -> SUBSET Responses], NEW G, NEW c, NEW d, NEW up, NEW v,
         NEW A, NEW K, ClientStep(c, d, up, v, A, R, {}, K), NEW H, Ending(c, d, G, H)
  PROVE  Ends(c, d, G, H, R)
<1>1. SUFFICES ASSUME NEW i \in Ids
               PROVE  \/ /\ H[i] = G[i]
                         /\ d.rpcs[ClientKey(i)] = c.rpcs[ClientKey(i)]
                      \/ /\ c.rpcs[ClientKey(i)] # Nil /\ d.rpcs[ClientKey(i)] = Nil
                         /\ H[i] # Nil
                         /\ H[i].err = "ok" => Response(H[i].data, R[i])
  BY Zenon DEF Ends
<1> DEFINE k == ClientKey(i)
           o == c.rpcs[k]
<1>2. k \in CKey /\ k[2] = i /\ k[2] % 2 = 0
  BY ClientKeys, Zenon
<1>3. H[i] = IF o = Nil THEN G[i] ELSE IF d.rpcs[k] = o THEN G[i] ELSE d.rpc[o].result[1]
  BY Zenon DEF Ending
<1> HIDE DEF k
<1>4. d.rpcs[k] = c.rpcs[k] \/ (d.rpcs[k] = Nil /\ c.rpcs[k] # Nil)
  BY <1>2, Zenon DEF ClientStep
<1>5. CASE d.rpcs[k] = c.rpcs[k]
  BY <1>3, <1>5, Zenon DEF k
<1>6. CASE d.rpcs[k] = Nil /\ c.rpcs[k] # Nil
  <2>1. PICK x : /\ d.rpc[c.rpcs[k]].result = <<x>> /\ x # Nil
                 /\ x.err = "ok" => \E a : Whole(a, ClientIn(R)[k]) /\ x.data = a.data
    BY <1>2, <1>6, Zenon DEF ClientStep, Settles
  <2>2. H[i] = x
    BY <1>3, <1>6, <2>1
  <2>3. ClientIn(R)[k] = R[i]
    BY <1>2, Zenon DEF ClientIn, Given
  <2>4. R[i] \in SUBSET Responses
    BY Zenon
  <2>5. x.err = "ok" => Response(x.data, R[i])
    BY <2>1, <2>3, <2>4, WholeResponse, Zenon
  <2> QED BY <1>6, <2>1, <2>2, <2>5, Zenon DEF k
<1> QED BY <1>4, <1>5, <1>6, Zenon

Moved(d, A, R, G, H, n) ==
  /\ ClientHolds(d, A, H, n) /\ Answers(H, R)
  /\ \A i \in Ids : H[i] = Nil => G[i] = Nil

\* A call is open until it leaves the table, and then it is over for good.
LEMMA ClientMoves ==
  ASSUME NEW A, NEW R, NEW G, NEW n, NEW c, ClientHolds(c, A, G, n), Answers(G, R),
         NEW d, NEW up, NEW v, NEW K, ClientStep(c, d, up, v, A, R, {}, K),
         NEW H, Ends(c, d, G, H, R)
  PROVE  Moved(d, A, R, G, H, n)
<1>1. ASSUME NEW i \in Ids, H[i] = Nil PROVE G[i] = Nil
  BY <1>1, Zenon DEF Ends
<1>2. Answers(H, R)
  BY Zenon DEF Ends, Answers
<1>3. ASSUME NEW k \in CKey, d.rpcs[k] # Nil
      PROVE  k[2] \in Made(A) /\ H[k[2]] = Nil
  <2>1. c.rpcs[k] = d.rpcs[k]
    BY <1>3, Zenon DEF ClientStep
  <2>2. k[2] \in Made(A) /\ G[k[2]] = Nil
    BY <1>3, <2>1, Zenon DEF ClientHolds
  <2>3. H[k[2]] = G[k[2]]
    BY <1>3, <2>1, <2>2, ClientKeyOf, Zenon DEF Ends, Made
  <2> QED BY <2>2, <2>3, Zenon
<1>4. ASSUME NEW i \in Made(A), H[i] = Nil
      PROVE  d.rpcs[ClientKey(i)] # Nil
  BY <1>4, Zenon DEF Ends, Made, ClientHolds
<1>5. ASSUME NEW i \in Ids, i \notin Made(A)
      PROVE  H[i] = Nil
  <2>1. c.rpcs[ClientKey(i)] = Nil
    BY <1>5, ClientKeys, Zenon DEF ClientHolds
  <2> QED BY <1>5, <2>1, Zenon DEF Ends, ClientHolds
<1>6. ClientHolds(d, A, H, n)
  BY <1>3, <1>4, <1>5, Zenon DEF ClientHolds
<1> QED BY <1>1, <1>2, <1>6, Zenon DEF Moved

\* What the client sends is for calls that were made, with their bytes, and it
\* acknowledges only what is over (ackRecord, dispatchNeedAck, dispatchUnknown).
LEMMA ClientSends ==
  ASSUME NEW A, NEW G, NEW n, NEW t, ClientHolds(t, A, G, n),
         NEW K, \A k \in K : k \in CKey /\ k[2] \in Made(A),
         NEW q, SentBy(ClientAddr, q, t, ClientOut(A), K)
  PROVE  FromClient(q, A, G)
<1> DEFINE k == <<q.dst, q.id>>
<1>1. /\ q.src = ClientAddr /\ k \in K
      /\ q.type = "DATA" => Carries(q, ClientOut(A)[k])
      /\ q.type \in {"GRANT", "RESEND"} => q.off \in Nat /\ q.n \in Nat
      /\ q.type = "ACK" => q.acks = {} /\ t.rpcs[k] = Nil
      /\ q.type = "RPC_UNKNOWN" => t.rpcs[k] = Nil
  BY Zenon DEF SentBy
<1>2. k \in CKey /\ k[2] = q.id /\ q.id \in Made(A)
  BY <1>1, Zenon
<1> HIDE DEF k
<1>3. ClientOut(A)[k] = Asked(A, q.id) /\ k = ClientKey(q.id)
  BY <1>2, ClientKeyOf, Zenon DEF ClientOut
<1>4. t.rpcs[k] = Nil => G[q.id] # Nil
  BY <1>2, <1>3, Zenon DEF ClientHolds
<1> QED BY <1>1, <1>2, <1>3, <1>4, Zenon DEF FromClient

\* The keys that the client sends packets for.
LEMMA ClientServes ==
  ASSUME NEW A, NEW G, NEW n, NEW c, ClientHolds(c, A, G, n), NEW k \in Served(CKey, c)
  PROVE  k \in CKey /\ k[2] \in Made(A)
<1>1. k \in CKey /\ c.rpcs[k] # Nil
  BY Zenon DEF Served
<1> QED BY <1>1, Zenon DEF ClientHolds

\* A step of the client that makes no call keeps both sides together.
LEMMA ClientTogether ==
  ASSUME NEW c, NEW s, NEW A, NEW I, NEW N, NEW R, NEW G, NEW n, NEW up, NEW down,
         Together(c, s, A, I, N, R, G, n, up, down),
         NEW K, \A k \in K : k \in CKey /\ k[2] \in Made(A),
         NEW d, NEW v, ClientStep(c, d, up, v, A, R, {}, K),
         NEW H, Ending(c, d, G, H), NEW w, w \subseteq down
  PROVE  Together(d, s, A, I, N, R, H, n, v, w)
<1>1. /\ Histories(A, R, N, n) /\ ServerHolds(s, A, I) /\ Answers(G, R)
      /\ Single(s, R, N) /\ Kept(s, G, N) /\ ClientHolds(c, A, G, n)
  BY Zenon DEF Together
<1>2. Ends(c, d, G, H, R)
  <2>1. R \in [Ids -> SUBSET Responses]
    BY <1>1, Zenon DEF Histories
  <2> QED BY <2>1, CallsEnd, Zenon
<1>3. /\ ClientHolds(d, A, H, n) /\ Answers(H, R)
      /\ \A i \in Ids : H[i] = Nil => G[i] = Nil
  <2>1. Moved(d, A, R, G, H, n)
    BY <1>1, <1>2, ClientMoves, Zenon
  <2> QED BY <2>1, Zenon DEF Moved
<1>4. Kept(s, H, N)
  BY <1>1, <1>3, Zenon DEF Kept
<1>5. ASSUME NEW p \in up PROVE FromClient(p, A, H)
  <2>1. FromClient(p, A, G)
    BY Zenon DEF Together
  <2>2. p.id \in Ids
    BY <2>1, Zenon DEF FromClient, Made
  <2> QED BY <1>3, <2>1, <2>2, Zenon DEF FromClient
<1>6. ASSUME NEW q \in v \ up PROVE FromClient(q, A, H)
  <2> DEFINE L == K \cup Served(CKey, c) \cup Served(CKey, d)
  <2>1. \A k \in L : k \in CKey /\ k[2] \in Made(A)
    BY <1>1, <1>3, ClientServes, Zenon
  <2>2. SentBy(ClientAddr, q, d, ClientOut(A), L)
    BY <1>6, Zenon DEF ClientStep
  <2> HIDE DEF L
  <2> QED BY <1>3, <2>1, <2>2, ClientSends, Zenon
<1>7. \A p \in v : FromClient(p, A, H)
  BY <1>5, <1>6, Zenon
<1>8. \A p \in w : FromServer(p, A, R)
  BY Zenon DEF Together
<1> QED BY <1>1, <1>3, <1>4, <1>7, <1>8, Zenon DEF Together

\* What B adds to A: requests of calls that were not made before.
Extends(A, B) == Made(A) \subseteq Made(B) /\ \A i \in Made(A) : B[i] = A[i]

\* What is said of a packet or of the server stays true when a call is made.
LEMMA MoreCalls ==
  ASSUME NEW A, NEW B, Extends(A, B), NEW G, NEW R, NEW s, NEW I
  PROVE  /\ \A p : FromClient(p, A, G) => FromClient(p, B, G)
         /\ \A p : FromServer(p, A, R) => FromServer(p, B, R)
         /\ ServerHolds(s, A, I) => ServerHolds(s, B, I)
<1>1. \A i \in Made(A) : i \in Made(B) /\ B[i] = A[i] /\ Asked(B, i) = Asked(A, i)
  BY Zenon DEF Extends, Asked
<1>2. ASSUME NEW p, FromClient(p, A, G) PROVE FromClient(p, B, G)
  BY <1>1, <1>2, Zenon DEF FromClient
<1>3. ASSUME NEW p, FromServer(p, A, R) PROVE FromServer(p, B, R)
  BY <1>1, <1>3, Zenon DEF FromServer
<1>4. ASSUME ServerHolds(s, A, I) PROVE ServerHolds(s, B, I)
  <2>1. \A k \in Called(A) : k \in Called(B)
    BY <1>1, Zenon DEF Called
  <2>2. \A k \in SKey : s.rpcs[k] # Nil => k \in Called(B)
    BY <1>4, <2>1, Zenon DEF ServerHolds
  <2>3. ASSUME NEW o \in SOut, s.payload[o] > 0
        PROVE  \E i \in Made(B) : s.rpc[o].key = ServerKey(i) /\ I[o] = BytesOf(B[i])
    <3>1. PICK i \in Made(A) : s.rpc[o].key = ServerKey(i) /\ I[o] = BytesOf(A[i])
      BY <1>4, <2>3, Zenon DEF ServerHolds
    <3> QED BY <1>1, <3>1, Zenon
  <2> QED BY <2>2, <2>3, Zenon DEF ServerHolds
<1> QED BY <1>2, <1>3, <1>4, Zenon

\* The identifiers are given out in order (Endpoint.Call).
LEMMA NextCall ==
  ASSUME NEW n \in {0} \cup Ids, n + 2 \in Ids, NEW i \in Ids
  PROVE  i <= n + 2 <=> i <= n \/ i = n + 2
<1>1. PICK a \in 1 .. MaxCalls : i = 2 * a
  BY Zenon DEF Ids
<1>2. PICK b \in 0 .. MaxCalls : n = 2 * b
  <2>1. CASE n = 0
    BY <2>1, MessagesAssumption
  <2>2. CASE n \in Ids
    <3>1. PICK b \in 1 .. MaxCalls : n = 2 * b
      BY <2>2, Zenon DEF Ids
    <3> QED BY <3>1, MessagesAssumption
  <2> QED BY <2>1, <2>2, Zenon
<1> QED BY <1>1, <1>2, MessagesAssumption

\* Call puts the request in the table and keeps both sides together.
LEMMA CallTogether ==
  ASSUME NEW c, NEW s, NEW A, NEW I, NEW N, NEW R, NEW G, NEW n, NEW up, NEW down,
         Together(c, s, A, I, N, R, G, n, up, down),
         NEW m \in Requests, n + 2 \in Ids, NEW B, B = [A EXCEPT ![n + 2] = m],
         NEW d, NEW v, ClientStep(c, d, up, v, B, R, {ClientKey(n + 2)}, {}),
         \A k \in CKey : d.rpcs[k] = Nil => c.rpcs[k] = Nil, d.rpcs[ClientKey(n + 2)] # Nil
  PROVE  Together(d, s, B, I, N, R, G, n + 2, v, down)
<1> DEFINE j == n + 2
<1>1. /\ Histories(A, R, N, n) /\ ServerHolds(s, A, I) /\ Answers(G, R)
      /\ Single(s, R, N) /\ Kept(s, G, N) /\ ClientHolds(c, A, G, n)
  BY Zenon DEF Together
<1>2. A \in [Ids -> Requests \cup {Nil}] /\ n \in {0} \cup Ids /\ m # Nil
  BY <1>1, MessagesAssumption, Zenon DEF Histories
<1>3. j \in Ids /\ B \in [Ids -> Requests \cup {Nil}] /\ B[j] = m /\ \A i \in Ids : i # j => B[i] = A[i]
  BY <1>2, Zenon
<1>4. \A i \in Ids : i <= j <=> i <= n \/ i = j
  BY <1>2, NextCall, Zenon
<1>5. j \notin Made(A)
  <2>1. ~(n + 2 <= n)
    BY <1>2, IdFacts
  <2> QED BY <1>1, <1>3, <2>1, Zenon DEF ClientHolds
<1> HIDE DEF j
<1>6. \A i \in Ids : i \in Made(B) <=> i \in Made(A) \/ i = j
  BY <1>2, <1>3, Zenon DEF Made
<1>7. Extends(A, B)
  BY <1>3, <1>5, <1>6, Zenon DEF Extends, Made
<1>8. G[j] = Nil
  BY <1>1, <1>3, <1>5, Zenon DEF ClientHolds
<1>9. ClientHolds(d, B, G, j)
  <2>1. ASSUME NEW k \in CKey, d.rpcs[k] # Nil PROVE k[2] \in Made(B) /\ G[k[2]] = Nil
    <3>1. c.rpcs[k] # Nil \/ k = ClientKey(j)
      BY <2>1, Zenon DEF ClientStep, j
    <3>2. CASE c.rpcs[k] # Nil
      <4>1. k[2] \in Made(A) /\ G[k[2]] = Nil
        BY <1>1, <3>2, Zenon DEF ClientHolds
      <4> QED BY <1>7, <4>1, Zenon DEF Extends
    <3>3. CASE k = ClientKey(j)
      <4>1. k[2] = j
        BY <1>3, <3>3, ClientKeys, Zenon
      <4> QED BY <1>3, <1>6, <1>8, <4>1, Zenon
    <3> QED BY <3>1, <3>2, <3>3, Zenon
  <2>2. ASSUME NEW i \in Made(B), G[i] = Nil PROVE d.rpcs[ClientKey(i)] # Nil
    <3>1. i \in Ids /\ (i \in Made(A) \/ i = j)
      BY <1>6, Zenon DEF Made
    <3>2. CASE i \in Made(A)
      <4>1. ClientKey(i) \in CKey /\ c.rpcs[ClientKey(i)] # Nil
        BY <1>1, <2>2, <3>1, <3>2, ClientKeys, Zenon DEF ClientHolds
      <4> QED BY <4>1, Zenon
    <3> QED BY <3>1, <3>2, Zenon DEF j
  <2>3. \A i \in Ids : i \in Made(B) <=> i <= j
    BY <1>1, <1>4, <1>6, Zenon DEF ClientHolds
  <2>4. \A i \in Ids : i \notin Made(B) => G[i] = Nil
    BY <1>1, <1>6, Zenon DEF ClientHolds
  <2> QED BY <2>1, <2>2, <2>3, <2>4, Zenon DEF ClientHolds
<1>10. Histories(B, R, N, j)
  BY <1>1, <1>3, Zenon DEF Histories
<1>11. ASSUME NEW q \in v \ up PROVE FromClient(q, B, G)
  <2> DEFINE L == {} \cup Served(CKey, c) \cup Served(CKey, d)
  <2>1. ASSUME NEW k \in L PROVE k \in CKey /\ k[2] \in Made(B)
    <3>1. k \in Served(CKey, c) => k \in CKey /\ k[2] \in Made(A)
      BY <1>1, ClientServes, Zenon
    <3>2. k \in Served(CKey, d) => k \in CKey /\ k[2] \in Made(B)
      BY <1>9, ClientServes, Zenon
    <3> QED BY <1>7, <3>1, <3>2, Zenon DEF Extends
  <2>2. SentBy(ClientAddr, q, d, ClientOut(B), L)
    BY <1>11, Zenon DEF ClientStep
  <2> HIDE DEF L
  <2> QED BY <1>9, <2>1, <2>2, ClientSends, Zenon
<1>12. \A p \in v : FromClient(p, B, G)
  <2>1. \A p \in up : FromClient(p, B, G)
    BY <1>7, MoreCalls, Zenon DEF Together
  <2> QED BY <1>11, <2>1, Zenon
<1>13. (\A p \in down : FromServer(p, B, R)) /\ ServerHolds(s, B, I)
  BY <1>1, <1>7, MoreCalls, Zenon DEF Together
<1>14. Together(d, s, B, I, N, R, G, j, v, down)
  BY <1>1, <1>9, <1>10, <1>12, <1>13, Zenon DEF Together
<1> QED BY <1>14, Zenon DEF j

-----------------------------------------------------------------------------
(* A step of the server. *)

\* A handler that starts does so in the table, for a call that was made, with
\* the bytes of that call, and it is the first one since the RPC is there.
StartsFor(s, t, A, seen, o) ==
  \E i \in Made(A) :
    /\ t.rpc[o].key = ServerKey(i) /\ seen[o] = BytesOf(A[i])
    /\ t.rpcs[ServerKey(i)] = o /\ t.rpc[o].handling
    /\ s.rpcs[ServerKey(i)] # Nil => s.rpcs[ServerKey(i)] = o /\ ~s.rpc[o].handling

\* The table after a step has RPCs of calls that were made.
LEMMA ServerEnters ==
  ASSUME NEW s, NEW t, NEW A, NEW I, ServerHolds(s, A, I), NEW Enter, Enter \subseteq Called(A),
         NEW down, NEW v, NEW R, NEW K, ServerStep(s, t, down, v, R, Enter, K),
         NEW k \in SKey, t.rpcs[k] # Nil
  PROVE  k \in Called(A)
<1>1. t.rpcs[k] = s.rpcs[k] \/ k \in Enter
  BY Zenon DEF ServerStep
<1>2. CASE t.rpcs[k] = s.rpcs[k]
  BY <1>2, Zenon DEF ServerHolds
<1> QED BY <1>1, <1>2, Zenon

\* Handlers start with whole requests (startHandler).
LEMMA HandlerBegins ==
  ASSUME NEW s, NEW t, NEW A, A \in [Ids -> Requests \cup {Nil}],
         \A k \in SKey : t.rpcs[k] # Nil => k \in Called(A),
         NEW seen, Starts(s, t, A, seen), NEW o \in Begin(s, t)
  PROVE  StartsFor(s, t, A, seen, o)
<1> DEFINE k == t.rpc[o].key
<1>1. o \in SOut
  BY Zenon DEF Begin
<1>2. /\ k \in SKey /\ t.rpcs[k] = o /\ t.rpc[o].handling
      /\ s.rpcs[k] # Nil => s.rpcs[k] = o /\ ~s.rpc[o].handling
      /\ \E a : Whole(a, ServerIn(A)[k]) /\ seen[o] = a.data
  BY Zenon DEF Starts
<1> HIDE DEF k
<1>3. t.rpcs[k] # Nil
  BY <1>1, <1>2, StructsAssumption, Zenon
<1>4. PICK i \in Made(A) : k = ServerKey(i)
  <2>1. k \in Called(A)
    BY <1>2, <1>3, Zenon
  <2> QED BY <2>1, Zenon DEF Called
<1>5. ServerIn(A)[k] = Asked(A, i)
  BY <1>4, ServerTables, Zenon DEF Made
<1>6. seen[o] = BytesOf(A[i])
  BY <1>2, <1>5, WholeRequest, Zenon
<1> QED BY <1>2, <1>4, <1>6, Zenon DEF StartsFor, k

\* Handlers keep what they were started with.
LEMMA ServerMoves ==
  ASSUME NEW s, NEW t, NEW A, NEW I, ServerHolds(s, A, I), s.payload \in [SOut -> Nat],
         NEW Enter, NEW down, NEW v, NEW R, NEW K, ServerStep(s, t, down, v, R, Enter, K),
         \A k \in SKey : t.rpcs[k] # Nil => k \in Called(A),
         NEW seen, \A o \in Begin(s, t) : StartsFor(s, t, A, seen, o),
         NEW J, Inputs(s, t, seen, I, J)
  PROVE  ServerHolds(t, A, J)
<1>1. ASSUME NEW o \in SOut, t.payload[o] > 0
      PROVE  \E i \in Made(A) : t.rpc[o].key = ServerKey(i) /\ J[o] = BytesOf(A[i])
  <2>1. CASE o \in Begin(s, t)
    <3>1. J[o] = seen[o]
      BY <1>1, <2>1, Zenon DEF Inputs
    <3>2. StartsFor(s, t, A, seen, o)
      BY <2>1, Zenon
    <3>3. PICK i \in Made(A) : t.rpc[o].key = ServerKey(i) /\ seen[o] = BytesOf(A[i])
      BY <3>2, Zenon DEF StartsFor
    <3> QED BY <3>1, <3>3, Zenon
  <2>2. CASE o \notin Begin(s, t)
    <3>1. s.payload[o] > 0
      BY <1>1, <2>2 DEF Begin
    <3>2. t.rpc[o].key = s.rpc[o].key
      BY <1>1, <3>1, Zenon DEF ServerStep
    <3>3. J[o] = I[o]
      BY <1>1, <2>2, Zenon DEF Inputs
    <3> QED BY <3>1, <3>2, <3>3, Zenon DEF ServerHolds
  <2> QED BY <2>1, <2>2, Zenon
<1> QED BY <1>1, Zenon DEF ServerHolds

\* A step can start a handler for call i.
Restarts(s, t, i) == \E o \in Begin(s, t) : t.rpc[o].key = ServerKey(i)

\* What runs after a step and was not started by it ran before.
LEMMA RunsAfter ==
  ASSUME NEW s, NEW t, s.payload \in [SOut -> Nat],
         NEW Enter, NEW down, NEW v, NEW R, NEW K, ServerStep(s, t, down, v, R, Enter, K),
         NEW i, NEW o \in SOut, Runs(t, o, i), o \notin Begin(s, t)
  PROVE  Runs(s, o, i)
<1>1. t.payload[o] > 0 /\ t.rpc[o].key = ServerKey(i)
  BY Zenon DEF Runs
<1>2. s.payload[o] > 0
  BY <1>1 DEF Begin
<1>3. t.rpc[o].key = s.rpc[o].key
  BY <1>1, <1>2, Zenon DEF ServerStep
<1> QED BY <1>1, <1>2, <1>3, Zenon DEF Runs

BeginsAt(s, t, o, k) ==
  /\ t.rpcs[k] = o /\ t.rpc[o].handling
  /\ s.rpcs[k] # Nil => s.rpcs[k] = o /\ ~s.rpc[o].handling

\* What a step that starts a handler for call i does.
LEMMA BeginsFor ==
  ASSUME NEW s, NEW t, NEW A, NEW seen, NEW o, StartsFor(s, t, A, seen, o),
         NEW i \in Ids, t.rpc[o].key = ServerKey(i)
  PROVE  BeginsAt(s, t, o, ServerKey(i))
BY Zenon DEF StartsFor, BeginsAt

\* A handler that was started once is running or has given one response.
LEMMA SingleMoves ==
  ASSUME NEW s, NEW t, s.payload \in [SOut -> Nat],
         NEW Enter, NEW down, NEW v, NEW U, NEW K, ServerStep(s, t, down, v, U, Enter, K),
         NEW A, NEW seen, \A o \in Begin(s, t) : StartsFor(s, t, A, seen, o),
         NEW N, N \in [Ids -> Nat], NEW P, Counts(s, t, N, P),
         NEW R, Single(s, R, N), NEW Q, Responds(s, t, R, Q)
  PROVE  Single(t, Q, P)
<1>1. SUFFICES ASSUME NEW i \in Ids
               PROVE  /\ P[i] = 0 => Q[i] = {} /\ \A o \in SOut : ~Runs(t, o, i)
                      /\ P[i] = 1 =>
                           \/ Q[i] = {} /\ \E z : \A o \in SOut : Runs(t, o, i) => o = z
                           \/ (\A o \in SOut : ~Runs(t, o, i)) /\ \E m : Q[i] \subseteq {m}
  BY Zenon DEF Single
<1>2. P[i] = IF N[i] < 2 /\ Restarts(s, t, i) THEN N[i] + 1 ELSE N[i]
  BY Zenon DEF Counts, Restarts
<1>3. /\ N[i] = 0 => R[i] = {} /\ \A o \in SOut : ~Runs(s, o, i)
      /\ N[i] = 1 =>
           \/ R[i] = {} /\ \E z : \A o \in SOut : Runs(s, o, i) => o = z
           \/ (\A o \in SOut : ~Runs(s, o, i)) /\ \E m : R[i] \subseteq {m}
  BY Zenon DEF Single
<1>4. \/ Q[i] = R[i]
      \/ \E o \in SOut : \E m : Runs(s, o, i) /\ t.payload[o] = 0 /\ Q[i] = R[i] \cup {m}
  BY Zenon DEF Responds
<1>5. \A o \in SOut : Runs(t, o, i) /\ o \notin Begin(s, t) => Runs(s, o, i)
  BY RunsAfter, Zenon
<1>6. \A o \in SOut : Runs(t, o, i) => t.payload[o] # 0
  <2>1. ~(0 > 0)
    OBVIOUS
  <2> QED BY <2>1, Zenon DEF Runs
<1>7. CASE ~Restarts(s, t, i)
  <2>1. P[i] = N[i]
    BY <1>2, <1>7, Zenon
  <2>2. \A o \in SOut : Runs(t, o, i) => Runs(s, o, i)
    BY <1>5, <1>7, Zenon DEF Restarts, Runs
  <2>3. CASE \A o \in SOut : ~Runs(s, o, i)
    <3>1. Q[i] = R[i] /\ \A o \in SOut : ~Runs(t, o, i)
      BY <1>4, <2>2, <2>3, Zenon
    <3> QED BY <1>3, <2>1, <3>1, Zenon
  <2>4. CASE N[i] = 1 /\ R[i] = {} /\ \E z : \A o \in SOut : Runs(s, o, i) => o = z
    <3>1. PICK z : \A o \in SOut : Runs(s, o, i) => o = z
      BY <2>4, Zenon
    <3>2. CASE Q[i] = R[i]
      <4>1. Q[i] = {} /\ \A o \in SOut : Runs(t, o, i) => o = z
        BY <2>2, <2>4, <3>1, <3>2, Zenon
      <4>2. P[i] # 0
        BY <2>1, <2>4
      <4> QED BY <4>1, <4>2, Zenon
    <3>3. CASE \E o \in SOut : \E m : Runs(s, o, i) /\ t.payload[o] = 0 /\ Q[i] = R[i] \cup {m}
      <4>1. PICK o \in SOut : \E m : Runs(s, o, i) /\ t.payload[o] = 0 /\ Q[i] = R[i] \cup {m}
        BY <3>3, Zenon
      <4>2. PICK m : Runs(s, o, i) /\ t.payload[o] = 0 /\ Q[i] = R[i] \cup {m}
        BY <4>1, Zenon
      <4>3. \A x \in SOut : ~Runs(t, x, i)
        BY <1>6, <2>2, <3>1, <4>2, Zenon
      <4>4. Q[i] \subseteq {m}
        BY <2>4, <4>2, Zenon
      <4>5. P[i] # 0
        BY <2>1, <2>4
      <4> QED BY <4>3, <4>4, <4>5, Zenon
    <3> QED BY <1>4, <3>2, <3>3, Zenon
  <2>5. CASE N[i] # 0 /\ N[i] # 1
    BY <2>1, <2>5, Zenon
  <2> QED BY <1>3, <2>3, <2>4, <2>5, Zenon
<1>8. CASE Restarts(s, t, i)
  <2>1. CASE N[i] = 0
    <3>1. P[i] = 1
      BY <1>2, <1>8, <2>1
    <3>2. Q[i] = {}
      BY <1>3, <1>4, <2>1, Zenon
    <3>3. ASSUME NEW o \in SOut, Runs(t, o, i) PROVE o = t.rpcs[ServerKey(i)]
      <4>1. o \in Begin(s, t) /\ t.rpc[o].key = ServerKey(i)
        BY <1>3, <1>5, <2>1, <3>3, Zenon DEF Runs
      <4>2. StartsFor(s, t, A, seen, o)
        BY <4>1, Zenon
      <4>3. BeginsAt(s, t, o, ServerKey(i))
        BY <4>1, <4>2, BeginsFor, Zenon
      <4> QED BY <4>3, Zenon DEF BeginsAt
    <3> QED BY <3>1, <3>2, <3>3
  <2>2. CASE N[i] # 0
    <3>1. P[i] # 0 /\ P[i] # 1
      BY <1>2, <1>8, <2>2
    <3> QED BY <3>1, Zenon
  <2> QED BY <2>1, <2>2, Zenon
<1> QED BY <1>7, <1>8, Zenon

\* The request of an open call stays, so its handler is not started again.
LEMMA KeptMoves ==
  ASSUME NEW s, NEW t, NEW A, NEW seen, \A o \in Begin(s, t) : StartsFor(s, t, A, seen, o),
         NEW Enter, NEW down, NEW v, NEW U, NEW K, ServerStep(s, t, down, v, U, Enter, K),
         NEW N, N \in [Ids -> Nat], NEW P, Counts(s, t, N, P),
         NEW G, Kept(s, G, N), Stays(s, t, G)
  PROVE  Kept(t, G, P)
<1>1. SUFFICES ASSUME NothingDropped, NEW i \in Ids, G[i] = Nil, P[i] # 0
               PROVE  /\ P[i] = 1 /\ t.rpcs[ServerKey(i)] # Nil
                      /\ t.rpc[t.rpcs[ServerKey(i)]].handling
  BY Zenon DEF Kept
<1> DEFINE k == ServerKey(i)
<1>2. P[i] = IF N[i] < 2 /\ Restarts(s, t, i) THEN N[i] + 1 ELSE N[i]
  BY Zenon DEF Counts, Restarts
<1>3. k \in SKey
  BY ServerKeys, Zenon
<1>4. Restarts(s, t, i) =>
        /\ t.rpcs[k] \in SOut /\ t.rpc[t.rpcs[k]].handling
        /\ s.rpcs[k] # Nil => ~s.rpc[s.rpcs[k]].handling
  <2>1. SUFFICES ASSUME Restarts(s, t, i)
                 PROVE  /\ t.rpcs[k] \in SOut /\ t.rpc[t.rpcs[k]].handling
                        /\ s.rpcs[k] # Nil => ~s.rpc[s.rpcs[k]].handling
    OBVIOUS
  <2>2. PICK o \in Begin(s, t) : t.rpc[o].key = ServerKey(i)
    BY <2>1, Zenon DEF Restarts
  <2>3. o \in SOut
    BY Zenon DEF Begin
  <2>4. StartsFor(s, t, A, seen, o)
    BY Zenon
  <2>5. BeginsAt(s, t, o, k)
    BY <2>2, <2>4, BeginsFor, Zenon
  <2> HIDE DEF k
  <2> QED BY <2>3, <2>5, Zenon DEF BeginsAt
<1>5. CASE N[i] # 0
  <2>1. N[i] = 1 /\ s.rpcs[k] # Nil /\ s.rpc[s.rpcs[k]].handling
    BY <1>1, <1>5, Zenon DEF Kept
  <2>2. P[i] = N[i]
    BY <1>2, <1>4, <2>1, Zenon
  <2>3. t.rpcs[k] = s.rpcs[k]
    BY <1>1, <2>1, Zenon DEF Stays
  <2>4. t.rpc[s.rpcs[k]].handling
    BY <1>3, <2>1, <2>3, Zenon DEF ServerStep
  <2> QED BY <2>1, <2>2, <2>3, <2>4, Zenon
<1>6. CASE N[i] = 0
  <2>1. P[i] = 1 /\ Restarts(s, t, i)
    BY <1>1, <1>2, <1>6
  <2> QED BY <1>4, <2>1, StructsAssumption, Zenon
<1> QED BY <1>5, <1>6, Zenon

\* What the server sends is for calls that were made, with bytes of responses
\* that their handlers gave.
LEMMA ServerSends ==
  ASSUME NEW A, NEW R, NEW K, K \subseteq Called(A), NEW q, NEW t, SentBy(ServerAddr, q, t, ServerOut(R), K)
  PROVE  FromServer(q, A, R)
<1> DEFINE k == <<q.dst, q.id>>
<1>1. /\ q.src = ServerAddr /\ k \in K
      /\ q.type = "DATA" => Carries(q, ServerOut(R)[k])
      /\ q.type \in {"GRANT", "RESEND"} => q.off \in Nat /\ q.n \in Nat
      /\ q.type = "ACK" => q.acks = {}
  BY Zenon DEF SentBy
<1>2. PICK i \in Made(A) : k = ServerKey(i)
  BY <1>1, Zenon DEF Called
<1>3. i \in Ids
  BY Zenon DEF Made
<1>4. q.id = i + 1
  BY <1>2 DEF ServerKey
<1> HIDE DEF k
<1>5. ServerOut(R)[k] = Given(R, i)
  BY <1>2, <1>3, ServerTables, Zenon DEF Given
<1> QED BY <1>1, <1>4, <1>5, Zenon DEF FromServer

\* Another response takes nothing back.
LEMMA MoreResponses ==
  ASSUME NEW R, NEW Q, \A i \in Ids : R[i] \subseteq Q[i], NEW A, NEW G
  PROVE  /\ \A p : FromServer(p, A, R) => FromServer(p, A, Q)
         /\ Answers(G, R) => Answers(G, Q)
<1>1. ASSUME NEW p, FromServer(p, A, R) PROVE FromServer(p, A, Q)
  <2>1. PICK i \in Made(A) :
          /\ p.src = ServerAddr
          /\ p.id = i + 1
          /\ p.type = "DATA" => Carries(p, Given(R, i))
          /\ p.type \in {"GRANT", "RESEND"} => p.off \in Nat /\ p.n \in Nat
          /\ p.type = "ACK" => p.acks = {}
    BY <1>1, Zenon DEF FromServer
  <2>2. \A m \in Given(R, i) : m \in Given(Q, i)
    BY Zenon DEF Given, Made
  <2>3. p.type = "DATA" => Carries(p, Given(Q, i))
    BY <2>1, <2>2, Zenon DEF Carries
  <2> QED BY <2>1, <2>3, Zenon DEF FromServer
<1>2. ASSUME Answers(G, R) PROVE Answers(G, Q)
  BY <1>2, ResponseWidens, Zenon DEF Answers
<1> QED BY <1>1, <1>2, Zenon

\* What the handlers do in a step of the server, and what is recorded of it.
Handling(s, t, A, seen, I, J, N, P, R, Q, G) ==
  /\ Starts(s, t, A, seen)
  /\ Inputs(s, t, seen, I, J)
  /\ Counts(s, t, N, P)
  /\ Responds(s, t, R, Q)
  /\ Stays(s, t, G)

\* The counters of starts.
LEMMA CountsType ==
  ASSUME NEW s, NEW t, NEW N, N \in [Ids -> Nat], NEW P, Counts(s, t, N, P)
  PROVE  P \in [Ids -> Nat]
<1>1. ASSUME NEW i \in Ids PROVE N[i] \in Nat /\ N[i] + 1 \in Nat
  OBVIOUS
<1> QED BY <1>1, Zenon DEF Counts

\* A step of the server keeps both sides together.
LEMMA ServerTogether ==
  ASSUME NEW c, NEW s, NEW A, NEW I, NEW N, NEW R, NEW G, NEW n, NEW up, NEW down,
         Together(c, s, A, I, N, R, G, n, up, down), s.payload \in [SOut -> Nat],
         NEW Enter, Enter \subseteq Called(A), NEW K, K \subseteq Called(A),
         NEW t, NEW v, NEW Q, ServerStep(s, t, down, v, Q, Enter, K),
         NEW seen, NEW J, NEW P, Handling(s, t, A, seen, I, J, N, P, R, Q, G),
         NEW w, w \subseteq up
  PROVE  Together(c, t, A, J, P, Q, G, n, w, v)
<1>1. /\ Histories(A, R, N, n) /\ ServerHolds(s, A, I) /\ Answers(G, R)
      /\ Single(s, R, N) /\ Kept(s, G, N) /\ ClientHolds(c, A, G, n)
  BY Zenon DEF Together
<1>2. /\ Starts(s, t, A, seen) /\ Inputs(s, t, seen, I, J) /\ Counts(s, t, N, P)
      /\ Responds(s, t, R, Q) /\ Stays(s, t, G)
  BY Zenon DEF Handling
<1>3. A \in [Ids -> Requests \cup {Nil}] /\ N \in [Ids -> Nat]
  BY <1>1, Zenon DEF Histories
<1>4. \A k \in SKey : t.rpcs[k] # Nil => k \in Called(A)
  BY <1>1, ServerEnters, Zenon
<1>5. ASSUME NEW o \in Begin(s, t) PROVE StartsFor(s, t, A, seen, o)
  BY <1>2, <1>3, <1>4, HandlerBegins, Zenon
<1>6. ServerHolds(t, A, J)
  BY <1>1, <1>2, <1>4, <1>5, ServerMoves, Zenon
<1>7. Single(t, Q, P)
  BY <1>1, <1>2, <1>3, <1>5, SingleMoves, Zenon
<1>8. Kept(t, G, P)
  BY <1>1, <1>2, <1>3, <1>5, KeptMoves, Zenon
<1>9. Histories(A, Q, P, n)
  <2>1. P \in [Ids -> Nat]
    BY <1>2, <1>3, CountsType, Zenon
  <2>2. Q \in [Ids -> SUBSET Responses]
    BY <1>2, Zenon DEF Responds
  <2> QED BY <1>1, <2>1, <2>2, Zenon DEF Histories
<1>10. \A i \in Ids : R[i] \subseteq Q[i]
  BY <1>2, Zenon DEF Responds
<1>11. Answers(G, Q)
  BY <1>1, <1>10, MoreResponses, Zenon
<1>12. \A p \in w : FromClient(p, A, G)
  BY Zenon DEF Together
<1>13. ASSUME NEW q \in v \ down PROVE FromServer(q, A, Q)
  <2> DEFINE L == K \cup Served(SKey, s) \cup Served(SKey, t)
  <2>1. L \subseteq Called(A)
    BY <1>1, <1>4, Zenon DEF Served, ServerHolds
  <2>2. SentBy(ServerAddr, q, t, ServerOut(Q), L)
    BY <1>13, Zenon DEF ServerStep
  <2> HIDE DEF L
  <2> QED BY <2>1, <2>2, ServerSends, Zenon
<1>14. ASSUME NEW p \in down PROVE FromServer(p, A, Q)
  <2>1. FromServer(p, A, R)
    BY Zenon DEF Together
  <2> QED BY <1>10, <2>1, MoreResponses, Zenon
<1>15. \A p \in v : FromServer(p, A, Q)
  BY <1>13, <1>14, Zenon
<1> QED BY <1>1, <1>6, <1>7, <1>8, <1>9, <1>11, <1>12, <1>15, Zenon DEF Together

-----------------------------------------------------------------------------
(* The other steps, and what follows. *)

\* Losing packets keeps both sides together.
LEMMA LoseTogether ==
  ASSUME NEW c, NEW s, NEW A, NEW I, NEW N, NEW R, NEW G, NEW n, NEW up, NEW down,
         Together(c, s, A, I, N, R, G, n, up, down),
         NEW v, v \subseteq up, NEW w, w \subseteq down
  PROVE  Together(c, s, A, I, N, R, G, n, v, w)
<1>1. (\A p \in v : FromClient(p, A, G)) /\ (\A p \in w : FromServer(p, A, R))
  BY Zenon DEF Together
<1> QED BY <1>1, Zenon DEF Together

\* Both sides are together before the first call.
LEMMA InitTogether ==
  ASSUME NEW c, NEW s, c.rpcs = [k \in CKey |-> Nil], s.rpcs = [k \in SKey |-> Nil],
         s.payload = [o \in SOut |-> 0], NEW I
  PROVE  Together(c, s, [i \in Ids |-> Nil], I, [i \in Ids |-> 0], [i \in Ids |-> {}],
                  [i \in Ids |-> Nil], 0, {}, {})
<1> DEFINE A == [i \in Ids |-> Nil]
           N == [i \in Ids |-> 0]
           R == [i \in Ids |-> {}]
<1>1. Made(A) = {}
  BY Zenon DEF Made
<1>2. Histories(A, R, N, 0)
  BY Zenon DEF Histories
<1>3. ClientHolds(c, A, A, 0)
  <2>1. \A i \in Ids : ~(i <= 0)
    BY IdFacts
  <2> QED BY <1>1, <2>1, Zenon DEF ClientHolds
<1>4. ~(0 > 0)
  OBVIOUS
<1>5. ServerHolds(s, A, I)
  BY <1>4, Zenon DEF ServerHolds
<1>6. Answers(A, R)
  BY Zenon DEF Answers
<1>7. Single(s, R, N)
  <2>1. \A i \in Ids : \A o \in SOut : ~Runs(s, o, i)
    BY <1>4, Zenon DEF Runs
  <2>2. \A i \in Ids : N[i] # 1
    OBVIOUS
  <2> QED BY <2>1, <2>2, Zenon DEF Single
<1>8. Kept(s, A, N)
  BY Zenon DEF Kept
<1>9. Together(c, s, A, I, N, R, A, 0, {}, {})
  BY <1>2, <1>3, <1>5, <1>6, <1>7, <1>8, Zenon DEF Together
<1> QED BY <1>9, Zenon

\* The bytes of one of the messages M.
Exact(b, M) == \E m \in M : b = BytesOf(m)

\* If all responses are one, a call that succeeds has it, byte for byte.
LEMMA SameResponse ==
  ASSUME NEW b, NEW M, Response(b, M), NEW z, M \subseteq {z}
  PROVE  Exact(b, M)
<1>1. PICK m \in M : DOMAIN b = 0 .. m.len - 1
  BY Zenon DEF Response
<1>2. ASSUME NEW x \in DOMAIN b PROVE b[x] = m.body
  <2>1. PICK l \in M : b[x] = l.body
    BY Zenon DEF Response
  <2>2. l = m
    BY Zenon
  <2> QED BY <2>1, <2>2, Zenon
<1>3. b = [x \in 0 .. m.len - 1 |-> m.body]
  BY <1>1, <1>2, Zenon DEF Response
<1> QED BY <1>3, Zenon DEF Exact, BytesOf

\* A call whose handler was started once has the bytes of the one response.
LEMMA OneResponse ==
  ASSUME NEW s, NEW R, NEW N, NEW G, Answers(G, R), Single(s, R, N),
         NEW i \in Ids, N[i] = 1, G[i] # Nil, G[i].err = "ok"
  PROVE  Exact(G[i].data, R[i])
<1>1. Response(G[i].data, R[i])
  BY Zenon DEF Answers
<1>2. R[i] # {}
  BY <1>1, Zenon DEF Response
<1>3. PICK z : R[i] \subseteq {z}
  BY <1>2, Zenon DEF Single
<1> QED BY <1>1, <1>3, SameResponse, Zenon

-----------------------------------------------------------------------------
(* The messages and packets that each side is given. *)

\* All messages are messages that an endpoint accepts.
LEMMA MessageSets ==
  ASSUME NEW A, NEW R, NEW N, NEW n, Histories(A, R, N, n), NEW i
  PROVE  /\ Asked(A, i) \subseteq [len : 1 .. MaxSize, body : Bodies]
         /\ Given(R, i) \subseteq [len : 1 .. MaxSize, body : Bodies]
<1>1. Asked(A, i) \subseteq Requests
  BY Zenon DEF Histories, Asked, Made
<1>2. Given(R, i) \subseteq Responses
  BY Zenon DEF Histories, Given
<1> QED BY <1>1, <1>2, MessagesAssumption, Zenon

Widens(A, B) ==
  /\ \A k \in CKey : ClientOut(A)[k] \subseteq ClientOut(B)[k]
  /\ \A k \in SKey : ServerIn(A)[k] \subseteq ServerIn(B)[k]

\* A new call widens what the client may send and the server may receive.
LEMMA CallWidens ==
  ASSUME NEW A, NEW B, Extends(A, B)
  PROVE  Widens(A, B)
<1>1. \A i : Asked(A, i) \subseteq Asked(B, i)
  BY Zenon DEF Extends, Asked
<1> QED BY <1>1, Zenon DEF Widens, ClientOut, ServerIn

\* And so does a response.
LEMMA ResponseWidensKeys ==
  ASSUME NEW s, NEW t, NEW R, NEW Q, Responds(s, t, R, Q)
  PROVE  /\ \A k \in CKey : ClientIn(R)[k] \subseteq ClientIn(Q)[k]
         /\ \A k \in SKey : ServerOut(R)[k] \subseteq ServerOut(Q)[k]
<1>1. \A i : Given(R, i) \subseteq Given(Q, i)
  BY Zenon DEF Responds, Given
<1> QED BY <1>1, Zenon DEF ClientIn, ServerOut

\* A step in which no handler answers.
LEMMA NoResponse ==
  ASSUME NEW A, NEW R, NEW N, NEW n, Histories(A, R, N, n), NEW s, NEW t
  PROVE  Responds(s, t, R, R)
BY Zenon DEF Histories, Responds

\* The call that is made next is in no table.
LEMMA CallEnters ==
  ASSUME NEW c, NEW s, NEW A, NEW I, NEW N, NEW R, NEW G, NEW n, NEW up, NEW down,
         Together(c, s, A, I, N, R, G, n, up, down),
         NEW m \in Requests, n < 2 * MaxCalls, NEW B, B = [A EXCEPT ![n + 2] = m]
  PROVE  /\ n \in Nat /\ n + 2 \in Ids /\ A[n + 2] = Nil
         /\ Extends(A, B) /\ Histories(B, R, N, n)
         /\ c.rpcs[ClientKey(n + 2)] = Nil /\ m \in ClientOut(B)[ClientKey(n + 2)]
         /\ Widens(A, B)
<1> DEFINE j == n + 2
<1>1. ClientHolds(c, A, G, n) /\ Histories(A, R, N, n)
  BY Zenon DEF Together
<1>2. A \in [Ids -> Requests \cup {Nil}] /\ n \in {0} \cup Ids /\ m # Nil
  BY <1>1, MessagesAssumption, Zenon DEF Histories
<1>3. PICK b \in Nat : n = 2 * b
  <2>1. CASE n = 0
    BY <2>1
  <2>2. CASE n \in Ids
    BY <2>2, MessagesAssumption DEF Ids
  <2> QED BY <1>2, <2>1, <2>2, Zenon
<1>4. j \in Ids /\ n \in Nat /\ ~(j <= n)
  <2>1. b + 1 \in 1 .. MaxCalls /\ j = 2 * (b + 1) /\ n \in Nat /\ ~(j <= n)
    BY <1>3, MessagesAssumption
  <2> HIDE DEF j
  <2> QED BY <2>1, Zenon DEF Ids
<1>5. B \in [Ids -> Requests \cup {Nil}] /\ B[j] = m /\ \A i \in Ids : i # j => B[i] = A[i]
  BY <1>2, <1>4, Zenon
<1> HIDE DEF j
<1>6. j \notin Made(A) /\ A[j] = Nil /\ j \in Made(B)
  BY <1>1, <1>2, <1>4, <1>5, Zenon DEF ClientHolds, Made
<1>7. Extends(A, B)
  BY <1>5, <1>6, Zenon DEF Extends, Made
<1>8. ClientKey(j) \in CKey /\ ClientKey(j)[2] = j
  BY <1>4, ClientKeys, Zenon
<1>9. c.rpcs[ClientKey(j)] = Nil
  BY <1>1, <1>6, <1>8, Zenon DEF ClientHolds
<1>10. m \in ClientOut(B)[ClientKey(j)]
  BY <1>5, <1>6, <1>8, Zenon DEF ClientOut, Asked
<1>11. Histories(B, R, N, n)
  BY <1>1, <1>5, Zenon DEF Histories
<1>12. Widens(A, B)
  BY <1>7, CallWidens, Zenon
<1> QED BY <1>4, <1>6, <1>7, <1>9, <1>10, <1>11, <1>12, Zenon DEF j

Delivers(p, M) ==
  /\ p.type = "DATA" => Carries(p, M)
  /\ p.type \in {"GRANT", "RESEND"} => p.off \in Nat /\ p.n \in Nat
  /\ p.type = "ACK" => p.acks = {}

LocalKey(p) == <<p.src, IF p.id % 2 = 0 THEN p.id + 1 ELSE p.id - 1>>

\* A packet of the client reaches the server's RPC of the same call.
LEMMA ToServer ==
  ASSUME NEW p, NEW A, NEW G, FromClient(p, A, G)
  PROVE  /\ p.id \in Ids /\ LocalKey(p) = ServerKey(p.id) /\ LocalKey(p) \in Called(A)
         /\ LocalKey(p) \in SKey /\ Delivers(p, ServerIn(A)[LocalKey(p)])
<1>1. p.id \in Ids /\ p.id \in Made(A) /\ p.src = ClientAddr
  BY Zenon DEF FromClient, Made
<1>2. LocalKey(p) = ServerKey(p.id)
  BY <1>1, IdFacts, Zenon DEF LocalKey, ServerKey
<1>3. ServerKey(p.id) \in Called(A) /\ ServerKey(p.id) \in SKey
  BY <1>1, ServerKeys, Zenon DEF Called
<1>4. ServerIn(A)[ServerKey(p.id)] = Asked(A, p.id)
  BY <1>1, ServerTables, Zenon
<1>5. Delivers(p, Asked(A, p.id))
  BY Zenon DEF FromClient, Delivers
<1> QED BY <1>1, <1>2, <1>3, <1>4, <1>5, Zenon

\* A packet of the server reaches the client's call.
LEMMA ToClient ==
  ASSUME NEW p, NEW A, NEW R, FromServer(p, A, R)
  PROVE  /\ LocalKey(p) \in CKey /\ LocalKey(p)[2] \in Made(A) /\ LocalKey(p)[2] % 2 = 0
         /\ Delivers(p, ClientIn(R)[LocalKey(p)])
<1>1. PICK i \in Made(A) : p.src = ServerAddr /\ p.id = i + 1 /\ Delivers(p, Given(R, i))
  BY Zenon DEF FromServer, Delivers
<1>2. i \in Ids
  BY Zenon DEF Made
<1>3. LocalKey(p) = ClientKey(i)
  BY <1>1, <1>2, IdFacts, Zenon DEF LocalKey, ClientKey
<1>4. ClientKey(i) \in CKey /\ ClientKey(i)[2] = i /\ i % 2 = 0
  BY <1>2, ClientKeys, Zenon
<1>5. ClientIn(R)[ClientKey(i)] = Given(R, i)
  BY <1>4, Zenon DEF ClientIn
<1> QED BY <1>1, <1>3, <1>4, <1>5, Zenon

\* What a packet ends is over: an acknowledgement, or the answer that a call is
\* unknown, never reaches the RPC of an open call.
LEMMA OverStays ==
  ASSUME NEW p, NEW A, NEW G, FromClient(p, A, G), p.type \in {"ACK", "RPC_UNKNOWN"},
         NEW s, NEW t, \A k \in SKey : s.rpcs[k] = t.rpcs[k] \/ s.rpcs[k] = Nil \/ k = LocalKey(p)
  PROVE  Stays(s, t, G)
<1>1. p.id \in Ids /\ LocalKey(p) = ServerKey(p.id) /\ G[p.id] # Nil
  BY ToServer, Zenon DEF FromClient
<1>2. ASSUME NEW i \in Ids, G[i] = Nil, s.rpcs[ServerKey(i)] # Nil
      PROVE  t.rpcs[ServerKey(i)] = s.rpcs[ServerKey(i)]
  <2>1. ServerKey(i) \in SKey /\ ServerKey(i) # LocalKey(p)
    BY <1>1, <1>2, ServerKeys, Zenon
  <2> QED BY <1>2, <2>1, Zenon
<1> QED BY <1>2, Zenon DEF Stays

\* A step that leaves the client's table alone ends no call.
LEMMA ReturnTogether ==
  ASSUME NEW c, NEW s, NEW A, NEW I, NEW N, NEW R, NEW G, NEW n, NEW up, NEW down,
         Together(c, s, A, I, N, R, G, n, up, down),
         NEW d, NEW v, ClientStep(c, d, up, v, A, R, {}, {}), d.rpcs = c.rpcs
  PROVE  Together(d, s, A, I, N, R, G, n, v, down)
<1>1. ClientHolds(c, A, G, n)
  BY Zenon DEF Together
<1>2. ClientHolds(d, A, G, n)
  BY <1>1, Zenon DEF ClientHolds
<1>3. ASSUME NEW q \in v PROVE FromClient(q, A, G)
  <2>1. CASE q \in up
    BY <2>1, Zenon DEF Together
  <2>2. CASE q \in v \ up
    <3> DEFINE L == {} \cup Served(CKey, c) \cup Served(CKey, d)
    <3>1. \A k \in L : k \in CKey /\ k[2] \in Made(A)
      BY <1>1, <1>2, ClientServes, Zenon
    <3>2. SentBy(ClientAddr, q, d, ClientOut(A), L)
      BY <2>2, Zenon DEF ClientStep
    <3> HIDE DEF L
    <3> QED BY <1>2, <3>1, <3>2, ClientSends, Zenon
  <2> QED BY <2>1, <2>2, Zenon
<1> QED BY <1>2, <1>3, Zenon DEF Together

\* A step in which no RPC leaves the server's table.
LEMMA NoneLeaves ==
  ASSUME NEW s, NEW t, NEW G, \A k \in SKey : t.rpcs[k] = s.rpcs[k] \/ s.rpcs[k] = Nil
  PROVE  Stays(s, t, G)
<1>1. \A i \in Ids : ServerKey(i) \in SKey
  BY ServerKeys, Zenon
<1> QED BY <1>1, Zenon DEF Stays

\* A step in which no RPC with a handler leaves it.
LEMMA HandlersStay ==
  ASSUME NEW s, NEW t, NEW G,
         \A k \in SKey : s.rpcs[k] # Nil /\ ~(k[2] % 2 = 0) /\ s.rpc[s.rpcs[k]].handling =>
           t.rpcs[k] = s.rpcs[k]
  PROVE  Stays(s, t, G)
<1>1. \A i \in Ids : ServerKey(i) \in SKey /\ ~(ServerKey(i)[2] % 2 = 0)
  BY ServerKeys, IdFacts, Zenon
<1> QED BY <1>1, Zenon DEF Stays

\* A step in which no handler starts.
LEMMA NoneStarts ==
  ASSUME NEW s, NEW t, NEW A, NEW seen, NEW I, NEW N, N \in [Ids -> Nat],
         \A o \in SOut : t.payload[o] = s.payload[o]
  PROVE  Starts(s, t, A, seen) /\ Inputs(s, t, seen, I, I) /\ Counts(s, t, N, N)
<1>1. ~(0 > 0)
  OBVIOUS
<1>2. Begin(s, t) = {}
  BY <1>1, Zenon DEF Begin
<1> QED BY <1>2, Zenon DEF Starts, Inputs, Counts

\* Nor is there one in the table of a server that has just started.
LEMMA RestartStarts ==
  ASSUME NEW s, NEW t, NEW A, NEW seen, \A o \in SOut : t.payload[o] = 0
  PROVE  Starts(s, t, A, seen)
<1>1. ~(0 > 0)
  OBVIOUS
<1>2. Begin(s, t) = {}
  BY <1>1, Zenon DEF Begin
<1> QED BY <1>2, Zenon DEF Starts

\* Its table is a step from any other one.
LEMMA RestartStep ==
  ASSUME NEW s, NEW t, NEW down, NEW R, \A k \in SKey : t.rpcs[k] = Nil,
         \A o \in SOut : t.payload[o] = 0
  PROVE  ServerStep(s, t, down, down, R, {}, {})
<1>1. ~(0 > 0)
  OBVIOUS
<1> QED BY <1>1, Zenon DEF ServerStep

\* Q is R with the response m of the handler of the struct o.
Answered(s, o, m, A, R, Q, N, n) ==
  /\ Histories(A, Q, N, n) /\ m \in ServerOut(Q)[s.rpc[o].key]
  /\ \A k \in SKey : ServerOut(R)[k] \subseteq ServerOut(Q)[k]
  /\ \A t : t.payload[o] = 0 => Responds(s, t, R, Q)

\* A handler that answers gives a response of its own call.
LEMMA ResponseGiven ==
  ASSUME NEW c, NEW s, NEW A, NEW I, NEW N, NEW R, NEW G, NEW n, NEW up, NEW down,
         Together(c, s, A, I, N, R, G, n, up, down), NEW o \in SOut, s.payload[o] > 0,
         NEW m \in Responses, NEW Q, Q = [R EXCEPT ![s.rpc[o].key[2] - 1] = @ \cup {m}]
  PROVE  Answered(s, o, m, A, R, Q, N, n)
<1>1. Histories(A, R, N, n) /\ ServerHolds(s, A, I)
  BY Zenon DEF Together
<1>2. PICK i \in Made(A) : s.rpc[o].key = ServerKey(i)
  BY <1>1, Zenon DEF ServerHolds
<1>3. i \in Ids
  BY Zenon DEF Made
<1>4. ServerKey(i) \in SKey /\ ServerKey(i)[2] - 1 = i
  BY <1>3, ServerKeys, IdFacts, Zenon
<1>5. R \in [Ids -> SUBSET Responses] /\ Q = [R EXCEPT ![i] = @ \cup {m}]
  BY <1>1, <1>2, <1>4, Zenon DEF Histories
<1>6. /\ Q \in [Ids -> SUBSET Responses] /\ Q[i] = R[i] \cup {m}
      /\ \A j \in Ids : j # i => Q[j] = R[j]
  BY <1>3, <1>5, Zenon
<1>7. Histories(A, Q, N, n)
  BY <1>1, <1>6, Zenon DEF Histories
<1>8. m \in ServerOut(Q)[s.rpc[o].key]
  BY <1>2, <1>3, <1>4, <1>6, Zenon DEF ServerOut, Given
<1>9. ASSUME NEW t, t.payload[o] = 0 PROVE Responds(s, t, R, Q)
  <2>1. Runs(s, o, i)
    BY <1>2, Zenon DEF Runs
  <2> QED BY <1>6, <1>9, <2>1, Zenon DEF Responds
<1>10. \A j : Given(R, j) \subseteq Given(Q, j)
  BY <1>6, Zenon DEF Given
<1>11. \A k \in SKey : ServerOut(R)[k] \subseteq ServerOut(Q)[k]
  BY <1>10, Zenon DEF ServerOut
<1> QED BY <1>7, <1>8, <1>9, <1>11, Zenon DEF Answered

-----------------------------------------------------------------------------
(* What the callers see. *)

\* At most one call ends, with an error or with a response of its handlers.
OneEnds(A, R, G, H) ==
  \/ \A i \in Ids : H[i] = G[i]
  \/ \E j \in Made(A) :
       /\ G[j] = Nil /\ H[j] # Nil
       /\ H[j].err = "ok" => Response(H[j].data, R[j])
       /\ \A i \in Ids : i # j => H[i] = G[i]

\* At most one RPC leaves the client's table.
LosesOne(c, d) ==
  \A j, k \in CKey :
    c.rpcs[j] # Nil /\ d.rpcs[j] = Nil /\ c.rpcs[k] # Nil /\ d.rpcs[k] = Nil => j = k

\* If at most one RPC leaves the client's table, at most one call ends
\* (endpoint.go: finish).
LEMMA OneCallEnds ==
  ASSUME NEW c, NEW s, NEW A, NEW I, NEW N, NEW R, NEW G, NEW n, NEW up, NEW down,
         Together(c, s, A, I, N, R, G, n, up, down),
         NEW K, NEW d, NEW v, ClientStep(c, d, up, v, A, R, {}, K), LosesOne(c, d),
         NEW H, Ending(c, d, G, H)
  PROVE  OneEnds(A, R, G, H)
<1>1. R \in [Ids -> SUBSET Responses] /\ ClientHolds(c, A, G, n)
  BY Zenon DEF Together, Histories
<1>2. Ends(c, d, G, H, R)
  BY <1>1, CallsEnd, Zenon
<1>3. CASE \A i \in Ids : H[i] = G[i]
  BY <1>3, Zenon DEF OneEnds
<1>4. ASSUME NEW j \in Ids, H[j] # G[j] PROVE OneEnds(A, R, G, H)
  <2>1. /\ c.rpcs[ClientKey(j)] # Nil /\ d.rpcs[ClientKey(j)] = Nil /\ H[j] # Nil
        /\ H[j].err = "ok" => Response(H[j].data, R[j])
    BY <1>2, <1>4, Zenon DEF Ends
  <2>2. ClientKey(j) \in CKey /\ ClientKey(j)[2] = j
    BY ClientKeys, Zenon
  <2>3. j \in Made(A) /\ G[j] = Nil
    BY <1>1, <2>1, <2>2, Zenon DEF ClientHolds
  <2>4. ASSUME NEW i \in Ids, H[i] # G[i] PROVE i = j
    <3>1. c.rpcs[ClientKey(i)] # Nil /\ d.rpcs[ClientKey(i)] = Nil
      BY <1>2, <2>4, Zenon DEF Ends
    <3>2. ClientKey(i) \in CKey /\ ClientKey(i)[2] = i
      BY ClientKeys, Zenon
    <3> QED BY <2>1, <2>2, <3>1, <3>2, Zenon DEF LosesOne
  <2> QED BY <2>1, <2>3, <2>4, Zenon DEF OneEnds
<1> QED BY <1>3, <1>4, Zenon

\* Each response is one that a handler may give to the request.
Replied(A, R) == \A i \in Ids : \A m \in R[i] : A[i] # Nil /\ m \in ReplyTo(A[i])

\* Handlers answer equal requests alike, or the server drops no RPC.
Alike == NothingDropped \/ \A m \in Requests : \A x, y \in ReplyTo(m) : x = y

\* The responses that an open call can still be ended with are one.
LEMMA ExactResponse ==
  ASSUME Alike, NEW s, NEW A, A \in [Ids -> Requests \cup {Nil}], NEW R, Replied(A, R),
         NEW N, Single(s, R, N), NEW G, Kept(s, G, N),
         NEW i \in Ids, G[i] = Nil, NEW b, Response(b, R[i])
  PROVE  Exact(b, R[i])
<1>1. PICK m \in R[i] : DOMAIN b = 0 .. m.len - 1
  BY Zenon DEF Response
<1>2. CASE NothingDropped
  <2>1. N[i] # 0
    BY <1>1, Zenon DEF Single
  <2>2. N[i] = 1
    BY <1>2, <2>1, Zenon DEF Kept
  <2>3. \E z : R[i] \subseteq {z}
    BY <1>1, <2>2, Zenon DEF Single
  <2> QED BY <2>3, SameResponse, Zenon
<1>3. CASE \A l \in Requests : \A x, y \in ReplyTo(l) : x = y
  <2>1. A[i] \in Requests
    BY <1>1, Zenon DEF Replied
  <2>2. R[i] \subseteq {m}
    BY <1>1, <1>3, <2>1, Zenon DEF Replied
  <2> QED BY <2>2, SameResponse, Zenon
<1> QED BY <1>2, <1>3, Zenon DEF Alike

\* A message is known by its bytes.
LEMMA SameBytes ==
  ASSUME NEW l \in Responses, NEW m \in Responses, BytesOf(l) = BytesOf(m)
  PROVE  l = m
<1>1. l \in [len : 1 .. MaxSize, body : Bodies] /\ m \in [len : 1 .. MaxSize, body : Bodies]
  BY MessagesAssumption, Zenon
<1>2. 0 .. l.len - 1 = 0 .. m.len - 1
  <2>1. DOMAIN BytesOf(l) = 0 .. l.len - 1 /\ DOMAIN BytesOf(m) = 0 .. m.len - 1
    BY Zenon DEF BytesOf
  <2> QED BY <2>1, Zenon
<1>3. l.len \in Nat \ {0} /\ m.len \in Nat \ {0}
  BY <1>1, MessagesAssumption
<1>4. l.len = m.len /\ 0 \in 0 .. l.len - 1 /\ 0 \in 0 .. m.len - 1
  BY <1>2, <1>3
<1>5. l.body = m.body
  <2>1. BytesOf(l)[0] = l.body /\ BytesOf(m)[0] = m.body
    BY <1>4, Zenon DEF BytesOf
  <2> QED BY <2>1, Zenon
<1> QED BY <1>1, <1>4, <1>5

\* A call that succeeds with the bytes of a response has that response.
LEMMA OutcomeExact ==
  ASSUME NEW g, g # Nil, g.err = "ok", NEW m \in Responses, g.data = BytesOf(m), NEW F
  PROVE  OutcomeOf(g, F) = m
<1>1. \A l \in Responses : g.data = BytesOf(l) => l = m
  BY SameBytes, Zenon
<1> QED BY <1>1, Zenon DEF OutcomeOf

\* The outcomes of all calls, F for a failure.
Outcomes(G, F) == [i \in Ids |-> OutcomeOf(G[i], F)]

\* What the callers see of a step: nothing, or one open call ends with a response
\* of its handler or with F.
OutcomeStep(A, R, X, Y, F) ==
  \/ Y = X
  \/ \E i \in Made(A) :
       /\ X[i] = Nil
       /\ \/ \E m \in R[i] : Y = [X EXCEPT ![i] = m]
          \/ Y = [j \in Ids |-> IF j \in {i} THEN F ELSE X[j]]

\* A call that ends does so with a whole response of its handler, or fails.
LEMMA OneOutcome ==
  ASSUME Alike,
         NEW c, NEW s, NEW A, NEW I, NEW N, NEW R, NEW G, NEW n, NEW up, NEW down,
         Together(c, s, A, I, N, R, G, n, up, down), Replied(A, R),
         NEW H, OneEnds(A, R, G, H), NEW F
  PROVE  OutcomeStep(A, R, Outcomes(G, F), Outcomes(H, F), F)
<1> DEFINE X == Outcomes(G, F)
           Y == Outcomes(H, F)
<1>1. ASSUME \A i \in Ids : H[i] = G[i]
      PROVE  OutcomeStep(A, R, X, Y, F)
  <2>1. Y = X
    BY <1>1, Zenon DEF Outcomes
  <2> QED BY <2>1, Zenon DEF OutcomeStep
<1>2. ASSUME NEW j \in Made(A), G[j] = Nil, H[j] # Nil,
             H[j].err = "ok" => Response(H[j].data, R[j]),
             \A i \in Ids : i # j => H[i] = G[i]
      PROVE  OutcomeStep(A, R, X, Y, F)
  <2>1. j \in Ids /\ R[j] \in SUBSET Responses
    BY Zenon DEF Made, Together, Histories
  <2>2. X[j] = Nil /\ \A i \in Ids : i # j => Y[i] = X[i]
    BY <1>2, <2>1, Zenon DEF Outcomes, OutcomeOf
  <2>3. X = [i \in Ids |-> X[i]] /\ Y = [i \in Ids |-> Y[i]]
    BY Zenon DEF Outcomes
  <2>4. Y[j] = OutcomeOf(H[j], F)
    BY <2>1, Zenon DEF Outcomes
  <2> HIDE DEF X, Y
  <2>5. CASE H[j].err = "ok"
    <3>1. Response(H[j].data, R[j])
      BY <1>2, <2>5, Zenon
    <3>2. PICK m \in R[j] : H[j].data = BytesOf(m)
      <4>1. A \in [Ids -> Requests \cup {Nil}] /\ Single(s, R, N) /\ Kept(s, G, N)
        BY Zenon DEF Together, Histories
      <4>2. Exact(H[j].data, R[j])
        BY <1>2, <2>1, <3>1, <4>1, ExactResponse, Zenon
      <4> QED BY <4>2, Zenon DEF Exact
    <3>3. Y[j] = m
      BY <1>2, <2>1, <2>4, <2>5, <3>2, OutcomeExact, Zenon
    <3>4. Y = [X EXCEPT ![j] = m]
      BY <2>1, <2>2, <2>3, <3>3, Zenon
    <3> QED BY <2>2, <3>2, <3>4, Zenon DEF OutcomeStep
  <2>6. CASE H[j].err # "ok"
    <3>1. Y[j] = F
      BY <1>2, <2>4, <2>6, Zenon DEF OutcomeOf
    <3>2. Y = [i \in Ids |-> IF i \in {j} THEN F ELSE X[i]]
      BY <2>1, <2>2, <2>3, <3>1, Zenon
    <3> QED BY <2>2, <3>2, Zenon DEF OutcomeStep
  <2> QED BY <2>5, <2>6, Zenon
<1> HIDE DEF X, Y
<1>3. OutcomeStep(A, R, X, Y, F)
  <2>1. ASSUME NEW j \in Made(A),
               /\ G[j] = Nil /\ H[j] # Nil
               /\ H[j].err = "ok" => Response(H[j].data, R[j])
               /\ \A i \in Ids : i # j => H[i] = G[i]
        PROVE  OutcomeStep(A, R, X, Y, F)
    BY <1>2, <2>1, Zenon
  <2> QED BY <1>1, <2>1, Zenon DEF OneEnds
<1> QED BY <1>3, Zenon DEF X, Y

\* A new call has no responses yet.
LEMMA RepliedCall ==
  ASSUME NEW A, NEW B, Extends(A, B), NEW R, Replied(A, R)
  PROVE  Replied(B, R)
<1>1. ASSUME NEW i \in Ids, NEW m \in R[i] PROVE B[i] # Nil /\ m \in ReplyTo(B[i])
  <2>1. A[i] # Nil /\ m \in ReplyTo(A[i])
    BY Zenon DEF Replied
  <2> QED BY <2>1, Zenon DEF Extends, Made
<1> QED BY <1>1, Zenon DEF Replied

\* Q is R with a reply m to the request of a call.
RepliesWith(A, R, Q, m) ==
  /\ \E i \in Made(A) : m \in ReplyTo(A[i]) /\ Q = [R EXCEPT ![i] = @ \cup {m}]
  /\ Replied(A, Q)

\* A handler that answers what it saw replies to the request.
LEMMA HandlerReplies ==
  ASSUME NEW c, NEW s, NEW A, NEW I, NEW N, NEW R, NEW G, NEW n, NEW up, NEW down,
         Together(c, s, A, I, N, R, G, n, up, down), Replied(A, R),
         NEW o \in SOut, s.payload[o] > 0, NEW m, m \in Replies(I[o][0]),
         NEW Q, Q = [R EXCEPT ![s.rpc[o].key[2] - 1] = @ \cup {m}]
  PROVE  RepliesWith(A, R, Q, m)
<1>1. /\ A \in [Ids -> Requests \cup {Nil}] /\ R \in [Ids -> SUBSET Responses]
      /\ ServerHolds(s, A, I)
  BY Zenon DEF Together, Histories
<1>2. PICK i \in Made(A) : s.rpc[o].key = ServerKey(i) /\ I[o] = BytesOf(A[i])
  BY <1>1, Zenon DEF ServerHolds
<1>3. i \in Ids /\ A[i] \in Requests /\ A[i] # Nil
  BY <1>1, Zenon DEF Made
<1>4. 0 \in 0 .. A[i].len - 1
  <2>1. A[i] \in [len : 1 .. MaxSize, body : Bodies]
    BY <1>3, MessagesAssumption, Zenon
  <2> QED BY <2>1, MessagesAssumption
<1>5. m \in ReplyTo(A[i])
  BY <1>2, <1>4, Zenon DEF BytesOf, ReplyTo
<1>6. ServerKey(i)[2] - 1 = i
  BY <1>3, ServerKeys, IdFacts, Zenon
<1>7. Q = [R EXCEPT ![i] = @ \cup {m}]
  BY <1>2, <1>6, Zenon
<1>8. Q[i] = R[i] \cup {m} /\ \A j \in Ids : j # i => Q[j] = R[j]
  BY <1>1, <1>3, <1>7, Zenon
<1>9. Replied(A, Q)
  BY <1>3, <1>5, <1>8, Zenon DEF Replied
<1> QED BY <1>5, <1>7, <1>9, Zenon DEF RepliesWith

-----------------------------------------------------------------------------
(* The rpc structs of the two sides are finitely many. *)

\* What it means that COut and SOut, the rpc structs that each side may use, are
\* finite, spelled out for the instances of Endpoint (e.rpcs, made by New).
LEMMA FiniteStructs ==
  /\ \E seq \in Seq(COut) : \A x \in COut : \E n \in 1 .. Len(seq) : seq[n] = x
  /\ \E seq \in Seq(SOut) : \A x \in SOut : \E n \in 1 .. Len(seq) : seq[n] = x
BY StructsAssumption, Zenon DEF IsFiniteSet

\* The two sides have different addresses and count their calls (api.go: Addr).
LEMMA TwoSides == MaxCalls \in Nat /\ ClientAddr # ServerAddr
BY MessagesAssumption DEF ClientAddr, ServerAddr

\* A count that is zero is a number and says that nothing is there (endpoint.go: the
\* lengths of an rpc struct before data and startHandler).
LEMMA Zero == 0 \in Nat /\ ~(0 > 0) /\ 0 <= 1 /\ 1 <= 1
OBVIOUS

-----------------------------------------------------------------------------
(* The bytes of a buffer, which are counted to tell whether it is full. *)

LOCAL INSTANCE FiniteSetTheorems

\* A buffer of n bytes of which n have arrived is full (endpoint.go: data).
LEMMA FullBuffer ==
  ASSUME NEW n \in Nat, NEW S, S \subseteq 0 .. n - 1, Cardinality(S) = n
  PROVE  S = 0 .. n - 1
<1>1. 0 \in Int /\ n - 1 \in Int
  OBVIOUS
<1>2. /\ IsFiniteSet(0 .. n - 1)
      /\ Cardinality(0 .. n - 1) = IF 0 > n - 1 THEN 0 ELSE (n - 1) - 0 + 1
  BY <1>1, FS_Interval, Zenon
<1>3. Cardinality(0 .. n - 1) = n
  BY <1>2
<1> QED BY <1>2, <1>3, FS_Subset, Zenon

\* A nonempty set of numbers has a least one (endpoint.go: data, the first
\* missing byte of a message).
LEMMA Least ==
  ASSUME NEW S, S \in SUBSET Nat, S # {}
  PROVE  \E x \in S : \A y \in S : x <= y
<1>1. IsWellFoundedOn(OpToRel(<, Nat), Nat)
  BY NatLessThanWellFounded, Zenon
<1>2. PICK x \in S : \A y \in S : ~(<<y, x>> \in OpToRel(<, Nat))
  BY <1>1, WFMin, Zenon
<1>3. ASSUME NEW y \in S PROVE x <= y
  <2>1. x \in Nat /\ y \in Nat
    BY Zenon
  <2>2. ~(y < x)
    BY <1>2, <2>1, Zenon DEF OpToRel
  <2> QED BY <2>1, <2>2
<1> QED BY <1>3, Zenon

\* Bytes of a message are counted by numbers.
LEMMA Counting ==
  ASSUME NEW S, S \in SUBSET (0 .. MaxSize - 1)
  PROVE  Cardinality(S) \in Nat
<1>1. 0 \in Int /\ MaxSize - 1 \in Int
  BY MessagesAssumption
<1>2. IsFiniteSet(0 .. MaxSize - 1)
  BY <1>1, FS_Interval, Zenon
<1> QED BY <1>2, FS_Subset, FS_CardinalityType, Zenon

=============================================================================
