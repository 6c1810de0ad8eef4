-------------------------- MODULE EndpointContent ---------------------------
(***************************************************************************)
(* What an endpoint does to the messages that pass through it, whatever it *)
(* is connected to: the lemmas about the two sides of a connection that    *)
(* ExchangeProofs composes.  Out and In give, for each key of the table,   *)
(* the messages that this side may send and the peer may have sent under   *)
(* it.  Budget, workers and callers play no part here; EndpointProofs has  *)
(* them.                                                                   *)
(***************************************************************************)
EXTENDS Endpoint

LOCAL INSTANCE TLAPS

\* Leaves that do not ask for SMT are proved by Zenon.
USE ZenonT(60)

Lawful(F) == \A k \in Key : F[k] \subseteq Messages(MaxMessageSize)

\* The buffer a is empty, or it is as long as one of the messages M and holds
\* bytes of messages of M only.
Assembles(a, M) ==
  \/ a.len = 0 /\ a.data = NoBytes
  \/ /\ \E m \in M : a.len = m.len
     /\ DOMAIN a.data \subseteq 0 .. a.len - 1
     /\ \A x \in DOMAIN a.data : \E m \in M : a.data[x] = m.body

Complete(a, M) == Assembles(a, M) /\ a.len > 0 /\ Count(a) = a.len

\* The struct r of the table, under the key k.
Holding(r, k, Out, In) ==
  /\ r.key = k
  /\ r.tx = NoMsg \/ r.tx \in Out[k]
  /\ Assembles(r.rx, In[k])
  /\ ~r.expired
  /\ r.result = <<>>
  /\ IsClientID(k[2]) => ~r.received
  /\ r.handling => r.received
  /\ r.received /\ ~r.handling => Complete(r.rx, In[k])

Shaped(s) ==
  s = [rpcs |-> s.rpcs, rpc |-> s.rpc, payload |-> s.payload,
       buffered |-> s.buffered, workers |-> s.workers]

Formed(s) ==
  /\ Shaped(s)
  /\ s.rpcs \in [Key -> Obj \cup {Nil}]
  /\ s.rpc \in [Obj -> Rpc]
  /\ s.payload \in [Obj -> Nat]

\* The RPC of a handler that runs knows it.
Handles(s) ==
  \A k \in Key : s.rpcs[k] # Nil /\ s.payload[s.rpcs[k]] > 0 => s.rpc[s.rpcs[k]].handling

\* Structs of the table hold what belongs to their key; a struct that nothing
\* refers to holds nothing; handlers run for requests.
Content(s, Out, In) ==
  /\ Formed(s)
  /\ \A k \in Key : s.rpcs[k] # Nil => Holding(s.rpc[s.rpcs[k]], k, Out, In)
  /\ \A o \in Obj : s.rpc[o].key = Nil => s.rpc[o].rx = NoRx /\ s.payload[o] = 0
  /\ \A o \in Obj : s.payload[o] > 0 => ~IsClient(s, o) /\ s.rpc[o].result = <<>>
  /\ Handles(s)

\* A DATA packet with bytes of a message of M.
Carries(p, M) ==
  /\ p.acks = {}
  /\ p.off \in Nat /\ p.n \in Int /\ p.incoming \in Nat
  /\ \E m \in M : p.len = m.len /\ p.body = m.body

\* A packet that the peer may send.
Brings(p, In) ==
  /\ KeyOf(p) \in Key
  /\ p.type = "DATA" => Carries(p, In[KeyOf(p)])
  /\ p.type \in {"GRANT", "RESEND"} => p.off \in Nat /\ p.n \in Nat
  /\ p.type = "ACK" => p.acks = {}

\* A packet that this side sends when its table becomes t, for an RPC of K.
Sends(q, t, Out, K) ==
  /\ q.src = Local
  /\ <<q.dst, q.id>> \in K
  /\ q.type = "DATA" => Carries(q, Out[<<q.dst, q.id>>])
  /\ q.type \in {"GRANT", "RESEND"} => q.off \in Nat /\ q.n \in Nat
  /\ q.type = "ACK" => q.acks = {} /\ t.rpcs[<<q.dst, q.id>>] = Nil
  /\ q.type = "RPC_UNKNOWN" => t.rpcs[<<q.dst, q.id>>] = Nil

\* A step from table s to table t: RPCs enter under keys of Enter and leave
\* under keys of Leave, and handlers that run stay with their RPC.
Passes(s, t, Enter, Leave) ==
  /\ \A k \in Key : \/ t.rpcs[k] = s.rpcs[k]
                    \/ t.rpcs[k] = Nil /\ k \in Leave
                    \/ s.rpcs[k] = Nil /\ k \in Enter
  /\ \A k \in Key : /\ s.rpcs[k] # Nil /\ t.rpcs[k] = s.rpcs[k]
                    /\ s.rpc[s.rpcs[k]].handling
                    => t.rpc[s.rpcs[k]].handling
  /\ \A o \in Obj : s.payload[o] > 0 /\ t.payload[o] > 0 => t.rpc[o].key = s.rpc[o].key

\* A call that leaves the table has one result, and if it is a success the
\* bytes are those of a complete response.
Settles(s, t, In) ==
  \A k \in Key : s.rpcs[k] # Nil /\ t.rpcs[k] = Nil /\ IsClientID(k[2]) =>
    \E x \in Result :
      /\ t.rpc[s.rpcs[k]].result = <<x>>
      /\ x.err = "ok" => \E a \in Rx : Complete(a, In[k]) /\ x.data = a.data

\* A handler that starts has the bytes seen[o] of a complete request of the RPC
\* it runs for, and none was started for this RPC before.
Starts(s, t, In, seen) ==
  \A o \in Obj : s.payload[o] = 0 /\ t.payload[o] > 0 =>
    LET k == t.rpc[o].key IN
    /\ k \in Key /\ t.rpcs[k] = o /\ t.rpc[o].handling
    /\ s.rpcs[k] # Nil => s.rpcs[k] = o /\ ~s.rpc[o].handling
    /\ \E a \in Rx : Complete(a, In[k]) /\ seen[o] = a.data

Served(s) == {k \in Key : s.rpcs[k] # Nil}

\* At most one RPC leaves the table.
LosesOne(s, t) ==
  \A j, k \in Key :
    s.rpcs[j] # Nil /\ t.rpcs[j] = Nil /\ s.rpcs[k] # Nil /\ t.rpcs[k] = Nil => j = k

\* What one step of this side does, for packets of RPCs of K.
Evolves(Out, In, Enter, Leave, K) ==
  /\ Content(e', Out, In)
  /\ Passes(e, e', Enter, Leave)
  /\ Settles(e, e', In)
  /\ \/ net' = net
     \/ \E X : net' = Emit(net, X) /\ \A q \in X : Sends(q, e', Out, K \cup Served(e) \cup Served(e'))

Buffers(s) == [o \in Obj |-> s.rpc[o].rx.data]

Filled(s, p) == [o \in Obj |-> Fill(s.rpc[o].rx, p).data]

-----------------------------------------------------------------------------
(* Types. *)

\* The zero rpc struct (endpoint.go:28) is an rpc struct without a buffer.
LEMMA BlankType ==
  /\ Blank \in Rpc
  /\ NoRx \in Rx /\ NoMsg \in Msg /\ NoBytes \in Data
  /\ Blank.key = Nil /\ Blank.rx = NoRx /\ Blank.tx = NoMsg /\ Blank.result = <<>>
  /\ ~Blank.received /\ ~Blank.handling /\ ~Blank.expired
<1>1. <<>> \in Seq(Result)
  BY SMTT(30)
<1>2. NoBytes \in [{} -> Bodies]
  BY DEF NoBytes
<1>3. NoBytes \in Data
  BY <1>2 DEF Data
<1>4. NoRx \in Rx
  BY <1>3 DEF NoRx, Rx
<1>5. NoMsg \in Msg
  BY DEF NoMsg, Msg
<1> QED BY <1>1, <1>3, <1>4, <1>5 DEF Blank, Rpc

\* The accepted bytes of a message are a partial function on its offsets.
LEMMA DataType ==
  ASSUME NEW d
  PROVE  d \in Data <=> /\ d = [i \in DOMAIN d |-> d[i]]
                        /\ DOMAIN d \subseteq 0 .. MaxMessageSize - 1
                        /\ \A i \in DOMAIN d : d[i] \in Bodies
<1>1. ASSUME d \in Data
      PROVE  /\ d = [i \in DOMAIN d |-> d[i]]
             /\ DOMAIN d \subseteq 0 .. MaxMessageSize - 1
             /\ \A i \in DOMAIN d : d[i] \in Bodies
  <2>1. PICK S \in SUBSET (0 .. MaxMessageSize - 1) : d \in [S -> Bodies]
    BY <1>1 DEF Data
  <2> QED BY <2>1
<1>2. ASSUME d = [i \in DOMAIN d |-> d[i]],
             DOMAIN d \subseteq 0 .. MaxMessageSize - 1,
             \A i \in DOMAIN d : d[i] \in Bodies
      PROVE  d \in Data
  <2>1. d \in [DOMAIN d -> Bodies]
    BY <1>2
  <2> QED BY <1>2, <2>1 DEF Data
<1> QED BY <1>1, <1>2

Filed(s, k, Out, In) ==
  /\ s.rpcs[k] \in Obj
  /\ s.rpc[s.rpcs[k]] \in Rpc
  /\ Holding(s.rpc[s.rpcs[k]], k, Out, In)
  /\ s.rpc[s.rpcs[k]].key = k
  /\ k # Nil
  /\ \A j \in Key : s.rpcs[j] = s.rpcs[k] => j = k

\* The structs of the table, each under its own key.
LEMMA Found ==
  ASSUME NEW s, NEW Out, NEW In, Content(s, Out, In), NEW k \in Key, s.rpcs[k] # Nil
  PROVE  Filed(s, k, Out, In)
<1>1. s.rpcs \in [Key -> Obj \cup {Nil}] /\ s.rpc \in [Obj -> Rpc]
  BY DEF Content, Formed
<1>2. \A j \in Key : s.rpcs[j] # Nil => s.rpc[s.rpcs[j]].key = j
  BY DEF Content, Holding
<1>3. Holding(s.rpc[s.rpcs[k]], k, Out, In)
  BY DEF Content
<1>4. s.rpcs[k] \in Obj
  BY <1>1
<1>5. k # Nil
  BY KeyAssumption
<1> QED BY <1>1, <1>2, <1>3, <1>4, <1>5 DEF Filed

-----------------------------------------------------------------------------
(* remove and finish. *)

\* remove (endpoint.go:290) leaves a struct without messages, under its key if
\* a caller or a handler still refers to it.
LEMMA DetachedType ==
  ASSUME NEW s, Formed(s), NEW o \in Obj
  PROVE  /\ Detached(s, o) \in Rpc
         /\ Detached(s, o).rx = NoRx
         /\ IsClient(s, o) \/ s.payload[o] > 0
              => /\ Detached(s, o).key = s.rpc[o].key
                 /\ Detached(s, o).result = s.rpc[o].result
<1>1. s.rpc[o] \in Rpc
  BY DEF Formed
<1> DEFINE d == [Blank EXCEPT !.key = s.rpc[o].key, !.result = s.rpc[o].result]
<1>2. /\ d \in Rpc /\ d.rx = NoRx
      /\ d.key = s.rpc[o].key /\ d.result = s.rpc[o].result
  BY <1>1, BlankType DEF Rpc
<1> HIDE DEF d
<1>3. Detached(s, o) = IF IsClient(s, o) \/ s.payload[o] > 0 THEN d ELSE Blank
  BY DEF Detached, d
<1> QED BY <1>2, <1>3, BlankType

\* The table t is s without the structs S, of which calls may have a result.
Without(s, S, t) ==
  /\ Formed(t)
  /\ t.rpcs = [k \in Key |-> IF s.rpcs[k] \in S THEN Nil ELSE s.rpcs[k]]
  /\ t.payload = s.payload
  /\ \A o \in Obj : o \notin S => t.rpc[o] = s.rpc[o]
  /\ \A o \in Obj : o \in S =>
       /\ t.rpc[o].rx = NoRx
       /\ IsClient(s, o) \/ s.payload[o] > 0 => t.rpc[o].key = s.rpc[o].key
       /\ ~IsClient(s, o) /\ s.payload[o] > 0 => t.rpc[o].result = s.rpc[o].result

\* What remove does to each part of the table.
LEMMA RemoveFields ==
  ASSUME NEW s, Formed(s), NEW S
  PROVE  /\ Without(s, S, Remove(s, S))
         /\ \A o \in Obj : o \in S => Remove(s, S).rpc[o] = Detached(s, o)
<1> DEFINE F == [k \in Key |-> IF s.rpcs[k] \in S THEN Nil ELSE s.rpcs[k]]
           G == [o \in Obj |-> IF o \in S THEN Detached(s, o) ELSE s.rpc[o]]
           b == s.buffered - Total(Holds(s), S)
           t == Remove(s, S)
<1>1. \A o \in Obj : Detached(s, o) \in Rpc
  BY DetachedType
<1>2. F \in [Key -> Obj \cup {Nil}]
  BY DEF Formed
<1>3. G \in [Obj -> Rpc]
  BY <1>1 DEF Formed
<1>4. t = [s EXCEPT !.rpcs = F, !.rpc = G, !.buffered = b]
  BY DEF Remove, Formed, Shaped
<1>5. \A o \in Obj : G[o] = IF o \in S THEN Detached(s, o) ELSE s.rpc[o]
  OBVIOUS
<1> HIDE DEF F, G, b, t
<1>6. t = [rpcs |-> F, rpc |-> G, payload |-> s.payload, buffered |-> b, workers |-> s.workers]
  BY <1>4 DEF Formed, Shaped
<1>7. Formed(t) /\ t.rpcs = F /\ t.rpc = G /\ t.payload = s.payload
  BY <1>2, <1>3, <1>6 DEF Formed, Shaped
<1>8. Without(s, S, t)
  <2>1. t.rpcs = [k \in Key |-> IF s.rpcs[k] \in S THEN Nil ELSE s.rpcs[k]]
    BY <1>7 DEF F
  <2>2. \A o \in Obj : o \notin S => t.rpc[o] = s.rpc[o]
    BY <1>5, <1>7
  <2>3. ASSUME NEW o \in Obj, o \in S
        PROVE  /\ t.rpc[o].rx = NoRx
               /\ IsClient(s, o) \/ s.payload[o] > 0 => t.rpc[o].key = s.rpc[o].key
               /\ ~IsClient(s, o) /\ s.payload[o] > 0 => t.rpc[o].result = s.rpc[o].result
    BY <1>5, <1>7, <2>3, DetachedType
  <2> QED BY <1>7, <2>1, <2>2, <2>3 DEF Without
<1> QED BY <1>5, <1>7, <1>8 DEF t

\* The result that finish (endpoint.go:305) delivers.
LEMMA OutcomeType ==
  ASSUME NEW r \in Rpc, NEW err \in Errors
  PROVE  Outcome(r, err) \in Result
<1>1. (IF err = "ok" THEN r.rx.data ELSE NoBytes) \in Data
  BY BlankType DEF Rpc, Rx
<1>2. (r.sent > 0 \/ r.received) \in BOOLEAN
  OBVIOUS
<1> QED BY <1>1, <1>2 DEF Outcome, Result

\* What finish does to each part of the table: a call of the table among S has
\* its one result.
LEMMA FinishFields ==
  ASSUME NEW s, Formed(s), NEW S, NEW err \in Errors
  PROVE  /\ Without(s, S, Finish(s, S, err))
         /\ \A o \in Obj : o \in S /\ IsClient(s, o) /\ s.rpc[o].result = <<>> =>
              Finish(s, S, err).rpc[o].result = <<Outcome(s.rpc[o], err)>>
<1> DEFINE u == Remove(s, S)
           t == Finish(s, S, err)
           New(o) == [u.rpc[o] EXCEPT !.result = Append(u.rpc[o].result, Outcome(s.rpc[o], err))]
           G == [o \in Obj |-> IF o \in S /\ IsClient(s, o) THEN New(o) ELSE u.rpc[o]]
<1>1. Without(s, S, u) /\ \A o \in Obj : o \in S => u.rpc[o] = Detached(s, o)
  BY RemoveFields
<1> HIDE DEF u
<1>2. Formed(u) /\ u.payload = s.payload
  BY <1>1 DEF Without
<1>3. t = [u EXCEPT !.rpc = G]
  BY <1>2 DEF Finish, u, Formed, Shaped, Rpc
<1>4. ASSUME NEW o \in Obj
      PROVE  /\ New(o) \in Rpc
             /\ New(o).rx = u.rpc[o].rx
             /\ New(o).key = u.rpc[o].key
             /\ u.rpc[o].result = <<>> => New(o).result = <<Outcome(s.rpc[o], err)>>
  <2>1. u.rpc[o] \in Rpc /\ s.rpc[o] \in Rpc
    BY <1>2 DEF Formed
  <2>2. Outcome(s.rpc[o], err) \in Result
    BY <2>1, OutcomeType
  <2>3. Append(u.rpc[o].result, Outcome(s.rpc[o], err)) \in Seq(Result)
    BY <2>1, <2>2, SMTT(30) DEF Rpc
  <2>4. u.rpc[o].result = <<>> =>
          Append(u.rpc[o].result, Outcome(s.rpc[o], err)) = <<Outcome(s.rpc[o], err)>>
    BY <2>2, SMTT(30)
  <2> QED BY <2>1, <2>3, <2>4 DEF Rpc
<1> HIDE DEF New
<1>5. G \in [Obj -> Rpc]
  BY <1>2, <1>4 DEF Formed
<1>6. \A o \in Obj : G[o] = IF o \in S /\ IsClient(s, o) THEN New(o) ELSE u.rpc[o]
  OBVIOUS
<1> HIDE DEF G, t
<1>7. t = [rpcs |-> u.rpcs, rpc |-> G, payload |-> u.payload,
           buffered |-> u.buffered, workers |-> u.workers]
  BY <1>2, <1>3 DEF Formed, Shaped
<1>8. Formed(t) /\ t.rpcs = u.rpcs /\ t.rpc = G /\ t.payload = s.payload
  BY <1>2, <1>5, <1>7 DEF Formed, Shaped
<1>9. Without(s, S, t)
  <2>1. ASSUME NEW o \in Obj, o \notin S
        PROVE  t.rpc[o] = s.rpc[o]
    BY <1>1, <1>6, <1>8, <2>1 DEF Without
  <2>2. ASSUME NEW o \in Obj, o \in S
        PROVE  /\ t.rpc[o].rx = NoRx
               /\ IsClient(s, o) \/ s.payload[o] > 0 => t.rpc[o].key = s.rpc[o].key
               /\ ~IsClient(s, o) /\ s.payload[o] > 0 => t.rpc[o].result = s.rpc[o].result
    <3>1. t.rpc[o].rx = u.rpc[o].rx /\ t.rpc[o].key = u.rpc[o].key
      BY <1>4, <1>6, <1>8
    <3>2. ~IsClient(s, o) => t.rpc[o] = u.rpc[o]
      BY <1>6, <1>8
    <3> QED BY <1>1, <2>2, <3>1, <3>2 DEF Without
  <2>3. t.rpcs = [k \in Key |-> IF s.rpcs[k] \in S THEN Nil ELSE s.rpcs[k]]
    BY <1>1, <1>8 DEF Without
  <2> QED BY <1>8, <2>1, <2>2, <2>3 DEF Without
<1>10. ASSUME NEW o \in Obj, o \in S, IsClient(s, o), s.rpc[o].result = <<>>
       PROVE  t.rpc[o].result = <<Outcome(s.rpc[o], err)>>
  <2>1. u.rpc[o].result = <<>>
    BY <1>1, <1>10, DetachedType
  <2> QED BY <2>1, <1>4, <1>6, <1>8, <1>10
<1> QED BY <1>9, <1>10 DEF t

\* Structs that leave the table take nothing from the others.
LEMMA WithoutContent ==
  ASSUME NEW s, NEW S, NEW t, NEW Out, NEW In, Content(s, Out, In), Without(s, S, t)
  PROVE  /\ Content(t, Out, In)
         /\ Passes(s, t, {}, {k \in Key : s.rpcs[k] \in S})
<1>1. Formed(s) /\ Formed(t) /\ t.payload = s.payload
  BY DEF Content, Without
<1>2. ASSUME NEW k \in Key
      PROVE  t.rpcs[k] = IF s.rpcs[k] \in S THEN Nil ELSE s.rpcs[k]
  BY DEF Without
<1>3. ASSUME NEW k \in Key, t.rpcs[k] # Nil
      PROVE  t.rpcs[k] = s.rpcs[k] /\ t.rpc[s.rpcs[k]] = s.rpc[s.rpcs[k]]
  <2>1. t.rpcs[k] = s.rpcs[k] /\ s.rpcs[k] \notin S
    BY <1>2, <1>3
  <2>2. s.rpcs[k] \in Obj
    BY <1>3, <2>1, Found DEF Filed
  <2> QED BY <2>1, <2>2 DEF Without
<1>4. ASSUME NEW o \in Obj, t.rpc[o].key = Nil
      PROVE  t.rpc[o].rx = NoRx /\ t.payload[o] = 0
  <2>1. CASE o \notin S
    <3>1. t.rpc[o] = s.rpc[o]
      BY <2>1 DEF Without
    <3> QED BY <1>1, <1>4, <3>1 DEF Content
  <2>2. CASE o \in S
    <3>1. t.rpc[o].rx = NoRx /\ (s.payload[o] > 0 => s.rpc[o].key = Nil)
      BY <1>4, <2>2 DEF Without
    <3>2. s.rpc[o].key = Nil => s.payload[o] = 0
      BY DEF Content
    <3>3. s.payload[o] \in Nat
      BY <1>1 DEF Formed
    <3> QED BY <1>1, <3>1, <3>2, <3>3, SMTT(30)
  <2> QED BY <2>1, <2>2
<1>5. ASSUME NEW o \in Obj, s.payload[o] > 0
      PROVE  t.rpc[o].key = s.rpc[o].key /\ t.rpc[o].result = <<>> /\ ~IsClient(s, o)
  <2>1. ~IsClient(s, o) /\ s.rpc[o].result = <<>>
    BY <1>5 DEF Content
  <2> QED BY <1>5, <2>1 DEF Without
<1>6. Content(t, Out, In)
  <2>1. \A k \in Key : t.rpcs[k] # Nil => Holding(t.rpc[t.rpcs[k]], k, Out, In)
    BY <1>3 DEF Content
  <2>2. \A o \in Obj : t.payload[o] > 0 => ~IsClient(t, o) /\ t.rpc[o].result = <<>>
    BY <1>1, <1>5 DEF IsClient
  <2>3. Handles(t)
    BY <1>1, <1>3 DEF Content, Handles
  <2> QED BY <1>1, <1>4, <2>1, <2>2, <2>3 DEF Content
<1>7. \A k \in Key : t.rpcs[k] = s.rpcs[k] \/ (t.rpcs[k] = Nil /\ s.rpcs[k] \in S)
  BY <1>2
<1> QED BY <1>1, <1>3, <1>5, <1>6, <1>7 DEF Passes

\* finish gives every call that leaves the table its result.
LEMMA FinishContent ==
  ASSUME NEW s, NEW S, NEW Out, NEW In, Content(s, Out, In), NEW err \in Errors,
         err = "ok" => \A k \in Key : s.rpcs[k] # Nil /\ s.rpcs[k] \in S =>
                          Complete(s.rpc[s.rpcs[k]].rx, In[k])
  PROVE  /\ Content(Finish(s, S, err), Out, In)
         /\ Passes(s, Finish(s, S, err), {}, {k \in Key : s.rpcs[k] \in S})
         /\ Settles(s, Finish(s, S, err), In)
<1> DEFINE t == Finish(s, S, err)
<1>1. Formed(s)
  BY DEF Content
<1>2. /\ Without(s, S, t)
      /\ \A o \in Obj : o \in S /\ IsClient(s, o) /\ s.rpc[o].result = <<>> =>
           t.rpc[o].result = <<Outcome(s.rpc[o], err)>>
  BY <1>1, FinishFields
<1> HIDE DEF t
<1>3. /\ Content(t, Out, In)
      /\ Passes(s, t, {}, {k \in Key : s.rpcs[k] \in S})
  BY <1>2, WithoutContent
<1>4. ASSUME NEW k \in Key, s.rpcs[k] # Nil, t.rpcs[k] = Nil, IsClientID(k[2])
      PROVE  \E x \in Result :
               /\ t.rpc[s.rpcs[k]].result = <<x>>
               /\ x.err = "ok" => \E a \in Rx : Complete(a, In[k]) /\ x.data = a.data
  <2> DEFINE o == s.rpcs[k]
             x == Outcome(s.rpc[o], err)
  <2>1. o \in Obj /\ s.rpc[o] \in Rpc /\ s.rpc[o].key = k /\ s.rpc[o].result = <<>>
    <3>1. Filed(s, k, Out, In)
      BY <1>4, Found
    <3> QED BY <3>1 DEF Filed, Holding
  <2>2. o \in S
    BY <1>2, <1>4 DEF Without
  <2>3. IsClient(s, o)
    BY <1>4, <2>1 DEF IsClient
  <2>4. x \in Result
    BY <2>1, OutcomeType
  <2>5. t.rpc[o].result = <<x>>
    BY <1>2, <2>1, <2>2, <2>3
  <2>6. x.err = err /\ (err = "ok" => x.data = s.rpc[o].rx.data)
    BY DEF Outcome
  <2>7. s.rpc[o].rx \in Rx
    BY <2>1 DEF Rpc
  <2>8. err = "ok" => Complete(s.rpc[o].rx, In[k])
    BY <1>4, <2>2
  <2> HIDE DEF o, x
  <2> QED BY <2>4, <2>5, <2>6, <2>7, <2>8 DEF o
<1>5. Settles(s, t, In)
  BY <1>4 DEF Settles
<1> QED BY <1>3, <1>5 DEF t

Same(s, t) == t.rpcs = s.rpcs /\ t.rpc = s.rpc /\ t.payload = s.payload

\* Without what is not there.
LEMMA WithoutNothing ==
  ASSUME NEW s, NEW t, NEW Out, NEW In, Content(s, Out, In), Without(s, {}, t)
  PROVE  Content(t, Out, In) /\ Same(s, t)
<1>1. /\ s.rpcs \in [Key -> Obj \cup {Nil}] /\ s.rpc \in [Obj -> Rpc]
      /\ t.rpcs \in [Key -> Obj \cup {Nil}] /\ t.rpc \in [Obj -> Rpc]
  BY DEF Content, Formed, Without
<1>2. t.payload = s.payload /\ t.rpcs = [k \in Key |-> s.rpcs[k]]
  BY DEF Without
<1>3. \A o \in Obj : t.rpc[o] = s.rpc[o]
  BY DEF Without
<1>4. t.rpcs = s.rpcs /\ t.rpc = s.rpc
  BY <1>1, <1>2, <1>3, SMTT(30)
<1>5. Content(t, Out, In)
  BY WithoutContent
<1> QED BY <1>2, <1>4, <1>5 DEF Same

\* Finishing no RPC and removing no RPC.
LEMMA FinishNothing ==
  ASSUME NEW s, NEW Out, NEW In, Content(s, Out, In), NEW err \in Errors
  PROVE  Content(Finish(s, {}, err), Out, In) /\ Same(s, Finish(s, {}, err))
<1>1. Formed(s)
  BY DEF Content
<1> QED BY <1>1, FinishFields, WithoutNothing

\* The same for remove: taking nothing out of the table (endpoint.go: remove).
LEMMA RemoveNothing ==
  ASSUME NEW s, NEW Out, NEW In, Content(s, Out, In)
  PROVE  Content(Remove(s, {}), Out, In) /\ Same(s, Remove(s, {}))
<1>1. Formed(s)
  BY DEF Content
<1> QED BY <1>1, RemoveFields, WithoutNothing

-----------------------------------------------------------------------------
(* Steps that leave every RPC where it is. *)

Tunes(s, t) ==
  /\ t.rpcs = s.rpcs
  /\ \A o \in Obj : /\ t.rpc[o].key = s.rpc[o].key
                    /\ s.rpc[o].handling => t.rpc[o].handling

\* Such a step ends no call and starts no RPC.
LEMMA TunesPasses ==
  ASSUME NEW s, NEW t, NEW Out, NEW In, Content(s, Out, In), Tunes(s, t)
  PROVE  Passes(s, t, {}, {}) /\ Settles(s, t, In)
<1>1. \A k \in Key : s.rpcs[k] # Nil => s.rpcs[k] \in Obj
  BY Found DEF Filed
<1> QED BY <1>1 DEF Tunes, Passes, Settles

\* The struct under k changes.
Replaces(s, t, k, Out, In) ==
  /\ Formed(t)
  /\ s.rpcs[k] # Nil
  /\ t.rpcs = s.rpcs
  /\ t.payload = s.payload
  /\ \A o \in Obj : o # s.rpcs[k] => t.rpc[o] = s.rpc[o]
  /\ Holding(t.rpc[s.rpcs[k]], k, Out, In)
  /\ s.rpc[s.rpcs[k]].handling => t.rpc[s.rpcs[k]].handling

\* One struct of the table changes (sendNew, data, the end of a handler).
LEMMA ReplaceContent ==
  ASSUME NEW s, NEW t, NEW k \in Key, NEW Out, NEW In, Content(s, Out, In),
         Replaces(s, t, k, Out, In)
  PROVE  Content(t, Out, In)
<1> DEFINE z == s.rpcs[k]
<1>1. /\ Formed(t) /\ s.rpcs[k] # Nil /\ t.rpcs = s.rpcs /\ t.payload = s.payload
      /\ \A o \in Obj : o # s.rpcs[k] => t.rpc[o] = s.rpc[o]
      /\ Holding(t.rpc[s.rpcs[k]], k, Out, In)
      /\ s.rpc[s.rpcs[k]].handling => t.rpc[s.rpcs[k]].handling
  BY DEF Replaces
<1>2. z \in Obj /\ s.rpc[z].key = k /\ k # Nil /\ \A j \in Key : s.rpcs[j] = z => j = k
  <2>1. Filed(s, k, Out, In)
    BY <1>1, Found
  <2> QED BY <2>1 DEF Filed
<1>3. t.rpc[z].key = k /\ t.rpc[z].result = <<>>
  BY <1>1 DEF Holding
<1>4. ASSUME NEW j \in Key, t.rpcs[j] # Nil
      PROVE  Holding(t.rpc[t.rpcs[j]], j, Out, In)
  <2>1. CASE t.rpcs[j] = z
    BY <1>1, <1>2, <2>1
  <2>2. CASE t.rpcs[j] # z
    <3>1. s.rpcs[j] # Nil
      BY <1>1, <1>4
    <3>2. s.rpcs[j] \in Obj /\ Holding(s.rpc[s.rpcs[j]], j, Out, In)
      BY <3>1, Found DEF Filed
    <3> QED BY <1>1, <2>2, <3>2
  <2> QED BY <2>1, <2>2
<1>5. ASSUME NEW o \in Obj, t.rpc[o].key = Nil
      PROVE  t.rpc[o].rx = NoRx /\ t.payload[o] = 0
  <2>1. t.rpc[o] = s.rpc[o]
    BY <1>1, <1>2, <1>3, <1>5
  <2> QED BY <1>1, <1>5, <2>1 DEF Content
<1>6. ASSUME NEW o \in Obj, t.payload[o] > 0
      PROVE  ~IsClient(t, o) /\ t.rpc[o].result = <<>>
  <2>1. ~IsClient(s, o) /\ s.rpc[o].result = <<>>
    BY <1>1, <1>6 DEF Content
  <2>2. t.rpc[o].key = s.rpc[o].key /\ t.rpc[o].result = <<>>
    BY <1>1, <1>2, <1>3, <2>1
  <2> QED BY <2>1, <2>2 DEF IsClient
<1>7. Handles(t)
  <2>1. SUFFICES ASSUME NEW j \in Key, t.rpcs[j] # Nil, t.payload[t.rpcs[j]] > 0
                 PROVE  t.rpc[t.rpcs[j]].handling
    BY DEF Handles
  <2>2. s.rpcs[j] \in Obj /\ s.rpc[s.rpcs[j]].handling
    BY <1>1, <2>1, Found DEF Filed, Content, Handles
  <2> QED BY <1>1, <2>2
<1> QED BY <1>1, <1>4, <1>5, <1>6, <1>7 DEF Content

-----------------------------------------------------------------------------
(* Sending. *)

\* Rounding to whole segments (sendSegment).
LEMMA RoundUpType ==
  ASSUME NEW n \in Nat
  PROVE  RoundUp(n) \in Nat
BY ConfigAssumption, SMTT(30) DEF RoundUp

\* sendNew (endpoint.go:270) changes only how much of the message was sent.
LEMMA SendNewType ==
  ASSUME NEW r \in Rpc
  PROVE  /\ SendNew(r) \in Rpc
         /\ SendNew(r) = [r EXCEPT !.sent = SendNew(r).sent]
<1> DEFINE upto == Lesser(r.granted, r.tx.len)
<1>1. r.granted \in Nat /\ r.tx.len \in Nat /\ r.sent \in Nat
  BY DEF Rpc, Msg
<1>2. CASE r.sent < upto
  <2>1. upto - r.sent \in Nat
    BY <1>1, <1>2, SMTT(30) DEF Lesser
  <2>2. Lesser(r.tx.len, r.sent + RoundUp(upto - r.sent)) \in Nat
    <3> HIDE DEF upto
    <3> QED BY <1>1, <2>1, RoundUpType, SMTT(30) DEF Lesser
  <2> QED BY <1>2, <2>2 DEF SendNew, Rpc
<1>3. CASE ~(r.sent < upto)
  BY <1>3 DEF SendNew, Rpc
<1> QED BY <1>2, <1>3

\* So the struct still holds what belongs to its key.
LEMMA SendNewHolding ==
  ASSUME NEW r \in Rpc, NEW k, NEW Out, NEW In, Holding(r, k, Out, In)
  PROVE  /\ SendNew(r) \in Rpc
         /\ Holding(SendNew(r), k, Out, In)
         /\ SendNew(r).key = r.key /\ SendNew(r).handling = r.handling
<1> DEFINE q == SendNew(r)
<1>1. q \in Rpc /\ q = [r EXCEPT !.sent = q.sent]
  BY SendNewType
<1> HIDE DEF q
<1>2. /\ q.key = r.key /\ q.tx = r.tx /\ q.rx = r.rx /\ q.received = r.received
      /\ q.handling = r.handling /\ q.expired = r.expired /\ q.result = r.result
  BY <1>1 DEF Rpc
<1>3. q \in Rpc /\ Holding(q, k, Out, In) /\ q.key = r.key /\ q.handling = r.handling
  BY <1>1, <1>2 DEF Holding
<1> QED BY <1>3 DEF q

Bears(q, k, Out) ==
  /\ q.src = Local /\ <<q.dst, q.id>> = k
  /\ q.type = "DATA" /\ Carries(q, Out[k])

\* A segment (sendSegment, endpoint.go:260) is cut from the message of its RPC.
LEMMA SegmentBears ==
  ASSUME NEW r \in Rpc, NEW k \in Key, r.key = k, NEW Out, Lawful(Out), r.tx \in Out[k],
         NEW at \in Nat
  PROVE  Bears(DataPacket(r, at), k, Out)
<1> DEFINE q == DataPacket(r, at)
<1>1. r.tx.len \in Nat /\ r.granted \in Nat
  BY DEF Rpc, Msg
<1>2. Lesser(at + SegmentBytes, r.tx.len) - at \in Int
  BY <1>1, ConfigAssumption, SMTT(30) DEF Lesser
<1>3. Lesser(r.tx.len, RoundUp(r.granted)) \in Nat
  BY <1>1, RoundUpType, SMTT(30) DEF Lesser
<1>4. <<k[1], k[2]>> = k
  BY SMTT(30) DEF Key
<1>5. /\ q.type = "DATA" /\ q.src = Local /\ q.dst = k[1] /\ q.id = k[2] /\ q.acks = {}
      /\ q.off = at /\ q.n = Lesser(at + SegmentBytes, r.tx.len) - at
      /\ q.incoming = Lesser(r.tx.len, RoundUp(r.granted))
      /\ q.len = r.tx.len /\ q.body = r.tx.body
  BY DEF DataPacket
<1> HIDE DEF q
<1>6. Carries(q, Out[k])
  BY <1>2, <1>3, <1>5 DEF Carries
<1>7. Bears(q, k, Out)
  BY <1>4, <1>5, <1>6 DEF Bears
<1> QED BY <1>7 DEF q

\* What sendNew and resend send is cut from the message of the RPC.
LEMMA SegmentsBear ==
  ASSUME NEW r \in Rpc, NEW k \in Key, r.key = k, NEW Out, Lawful(Out),
         r.tx = NoMsg \/ r.tx \in Out[k], NEW start, NEW end \in Nat
  PROVE  /\ \A q \in NewSegments(r) : Bears(q, k, Out)
         /\ \A q \in Resend(r, start, end) : Bears(q, k, Out)
<1>1. r.sent \in Nat /\ r.tx.len \in Nat /\ r.granted \in Nat
  BY DEF Rpc, Msg
<1>2. CASE r.tx = NoMsg
  <2>1. r.tx.len = 0
    BY <1>2, SMTT(30) DEF NoMsg
  <2>2. NewSegments(r) = {}
    <3>1. r.sent .. Lesser(r.granted, r.tx.len) - 1 = {}
      BY <1>1, <2>1, SMTT(30) DEF Lesser
    <3> QED BY <3>1, SMTT(30) DEF NewSegments
  <2>3. Resend(r, start, end) = {}
    <3>1. \A x \in 0 .. Lesser(end, r.sent) - 1 : ~(x < r.tx.len)
      BY <1>1, <2>1, SMTT(30) DEF Lesser
    <3> QED BY <3>1 DEF Resend
  <2> QED BY <2>2, <2>3
<1>3. CASE r.tx \in Out[k]
  <2>1. ASSUME NEW q \in NewSegments(r)
        PROVE  Bears(q, k, Out)
    <3>1. PICK at \in r.sent .. Lesser(r.granted, r.tx.len) - 1 : q = DataPacket(r, at)
      BY DEF NewSegments
    <3>2. at \in Nat
      BY <1>1, SMTT(30) DEF Lesser
    <3> QED BY <1>3, <3>1, <3>2, SegmentBears
  <2>2. ASSUME NEW q \in Resend(r, start, end)
        PROVE  Bears(q, k, Out)
    <3>1. PICK at \in 0 .. Lesser(end, r.sent) - 1 : q = DataPacket(r, at)
      BY DEF Resend
    <3>2. at \in Nat
      BY <1>1, SMTT(30) DEF Lesser
    <3> QED BY <1>3, <3>1, <3>2, SegmentBears
  <2> QED BY <2>1, <2>2
<1> QED BY <1>2, <1>3

\* So it may be sent for an RPC of the table.
LEMMA BearsSends ==
  ASSUME NEW q, NEW k, NEW Out, Bears(q, k, Out), NEW t, NEW K, k \in K
  PROVE  Sends(q, t, Out, K)
<1>1. /\ q.src = Local /\ <<q.dst, q.id>> = k
      /\ q.type = "DATA" /\ Carries(q, Out[k])
  BY DEF Bears
<1>2. "DATA" \notin {"GRANT", "RESEND"} /\ "DATA" # "ACK" /\ "DATA" # "RPC_UNKNOWN"
  BY SMTT(30)
<1> QED BY <1>1, <1>2 DEF Sends

\* Control packets (endpoint.go:245).
LEMMA ControlSends ==
  ASSUME NEW type \in {"ACK", "RPC_UNKNOWN", "NEED_ACK", "BUSY"}, NEW k \in Key, NEW t, NEW Out,
         NEW K, k \in K, type \in {"ACK", "RPC_UNKNOWN"} => t.rpcs[k] = Nil
  PROVE  Sends(Control(type, k), t, Out, K)
<1> DEFINE q == Control(type, k)
<1>1. <<k[1], k[2]>> = k
  BY SMTT(30) DEF Key
<1>2. q.type = type /\ q.src = Local /\ q.dst = k[1] /\ q.id = k[2] /\ q.acks = {}
  BY DEF Control
<1>3. type # "DATA" /\ type \notin {"GRANT", "RESEND"}
  BY SMTT(30)
<1> HIDE DEF q
<1>4. Sends(q, t, Out, K)
  BY <1>1, <1>2, <1>3 DEF Sends
<1> QED BY <1>4 DEF q

-----------------------------------------------------------------------------
(* Receiving. *)

\* What the model of an assembly takes from the theory of finite sets of numbers.
Numbers ==
  /\ \A S \in SUBSET (0 .. MaxMessageSize - 1) : Cardinality(S) \in Nat
  /\ \A S \in SUBSET Nat : S # {} => Min(S) \in S

\* The bytes of an assembly that have arrived are counted (endpoint.go: data).
LEMMA CountType ==
  ASSUME Numbers, NEW a \in Rx
  PROVE  Count(a) \in Nat /\ a.len \in Nat /\ Window(a) \in Nat
<1>1. a.len \in Nat /\ a.data \in Data
  BY DEF Rx
<1>2. DOMAIN a.data \in SUBSET (0 .. MaxMessageSize - 1)
  BY <1>1, DataType
<1>3. Count(a) \in Nat
  BY <1>2 DEF Numbers, Count
<1> QED BY <1>1, <1>3, ConfigAssumption, SMTT(30) DEF Window, Lesser

\* A struct of the table is found under its key.
LEMMA LiveFiled ==
  ASSUME NEW s, NEW Out, NEW In, Content(s, Out, In), NEW o \in Live(s)
  PROVE  /\ o \in Obj /\ o # Nil /\ s.rpc[o] \in Rpc
         /\ s.rpc[o].key \in Key /\ s.rpcs[s.rpc[o].key] = o
         /\ s.rpc[o].key \in Served(s)
         /\ Holding(s.rpc[o], s.rpc[o].key, Out, In)
<1>1. PICK k \in Key : s.rpcs[k] = o /\ o # Nil
  BY DEF Live
<1>2. Filed(s, k, Out, In)
  BY <1>1, Found
<1> QED BY <1>1, <1>2 DEF Filed, Served

\* The two structs differ in what may be granted.
Alike(r, q) ==
  /\ q.key = r.key /\ q.tx = r.tx /\ q.rx.len = r.rx.len /\ q.rx.data = r.rx.data
  /\ q.received = r.received /\ q.handling = r.handling
  /\ q.expired = r.expired /\ q.result = r.result

\* schedule (endpoint.go:473) raises grants and changes no bytes.
LEMMA ScheduleContent ==
  ASSUME NEW s, NEW Out, NEW In, Content(s, Out, In), Numbers, NEW rank
  PROVE  /\ Content(Schedule(s, rank), Out, In)
         /\ Tunes(s, Schedule(s, rank))
         /\ Schedule(s, rank).payload = s.payload
<1> DEFINE t == Schedule(s, rank)
           New(o) == [s.rpc[o] EXCEPT !.rx.granted = Window(s.rpc[o].rx)]
           G == [o \in Obj |-> IF o \in Granted(s, rank) THEN New(o) ELSE s.rpc[o]]
<1>1. Formed(s)
  BY DEF Content
<1>2. ASSUME NEW o \in Obj
      PROVE  New(o) \in Rpc /\ Alike(s.rpc[o], New(o))
  <2>1. s.rpc[o] \in Rpc /\ s.rpc[o].rx \in Rx
    BY <1>1 DEF Formed, Rpc
  <2>2. Window(s.rpc[o].rx) \in Nat
    BY <2>1, CountType
  <2>3. [s.rpc[o].rx EXCEPT !.granted = Window(s.rpc[o].rx)] \in Rx
    BY <2>1, <2>2 DEF Rx
  <2>4. New(o) = [s.rpc[o] EXCEPT !.rx = [s.rpc[o].rx EXCEPT !.granted = Window(s.rpc[o].rx)]]
    BY <2>1 DEF Rpc
  <2> HIDE DEF New
  <2>5. New(o) \in Rpc
    BY <2>1, <2>3, <2>4 DEF Rpc
  <2>6. /\ New(o).rx.len = s.rpc[o].rx.len /\ New(o).rx.data = s.rpc[o].rx.data
    BY <2>1, <2>4 DEF Rpc, Rx
  <2> QED BY <2>1, <2>4, <2>5, <2>6 DEF Alike, Rpc
<1> HIDE DEF New
<1>3. ASSUME NEW o \in Granted(s, rank)
      PROVE  o \in Obj /\ s.rpc[o].key # Nil
  <2>1. o \in Live(s)
    BY DEF Granted, Candidates
  <2> QED BY <2>1, LiveFiled, KeyAssumption
<1>4. G \in [Obj -> Rpc]
  BY <1>1, <1>2 DEF Formed
<1>5. t = [s EXCEPT !.rpc = G]
  BY DEF Schedule, New
<1>6. ASSUME NEW o \in Obj
      PROVE  Alike(s.rpc[o], G[o]) /\ (s.rpc[o].key = Nil => G[o] = s.rpc[o])
  <2>1. CASE o \in Granted(s, rank)
    BY <1>2, <1>3, <2>1
  <2>2. CASE o \notin Granted(s, rank)
    BY <2>2 DEF Alike
  <2> QED BY <2>1, <2>2
<1> HIDE DEF G, t
<1>7. t = [rpcs |-> s.rpcs, rpc |-> G, payload |-> s.payload,
           buffered |-> s.buffered, workers |-> s.workers]
  BY <1>1, <1>5 DEF Formed, Shaped
<1>8. Formed(t) /\ t.rpcs = s.rpcs /\ t.rpc = G /\ t.payload = s.payload
  BY <1>1, <1>4, <1>7 DEF Formed, Shaped
<1>9. ASSUME NEW o \in Obj
      PROVE  /\ t.rpc[o].key = s.rpc[o].key /\ t.rpc[o].handling = s.rpc[o].handling
             /\ t.rpc[o].result = s.rpc[o].result
             /\ s.rpc[o].key = Nil => t.rpc[o] = s.rpc[o]
             /\ \A k : Holding(s.rpc[o], k, Out, In) => Holding(t.rpc[o], k, Out, In)
  <2>1. Alike(s.rpc[o], t.rpc[o]) /\ (s.rpc[o].key = Nil => t.rpc[o] = s.rpc[o])
    BY <1>6, <1>8
  <2>2. ASSUME NEW M
        PROVE  /\ Assembles(s.rpc[o].rx, M) => Assembles(t.rpc[o].rx, M)
               /\ Complete(s.rpc[o].rx, M) => Complete(t.rpc[o].rx, M)
    BY <2>1 DEF Alike, Assembles, Complete, Count
  <2>3. ASSUME NEW k, Holding(s.rpc[o], k, Out, In)
        PROVE  Holding(t.rpc[o], k, Out, In)
    <3>1. /\ Assembles(s.rpc[o].rx, In[k]) => Assembles(t.rpc[o].rx, In[k])
          /\ Complete(s.rpc[o].rx, In[k]) => Complete(t.rpc[o].rx, In[k])
      BY <2>2
    <3> QED BY <2>1, <2>3, <3>1 DEF Alike, Holding
  <2> QED BY <2>1, <2>3 DEF Alike
<1>10. Content(t, Out, In)
  <2>1. ASSUME NEW k \in Key, t.rpcs[k] # Nil
        PROVE  Holding(t.rpc[t.rpcs[k]], k, Out, In)
    <3>1. t.rpcs[k] = s.rpcs[k]
      BY <1>8
    <3>2. s.rpcs[k] \in Obj /\ Holding(s.rpc[s.rpcs[k]], k, Out, In)
      BY <2>1, <3>1, Found DEF Filed
    <3>3. Holding(t.rpc[s.rpcs[k]], k, Out, In)
      BY <1>9, <3>2
    <3> QED BY <3>1, <3>3
  <2>2. \A o \in Obj : t.rpc[o].key = Nil => t.rpc[o].rx = NoRx /\ t.payload[o] = 0
    BY <1>8, <1>9 DEF Content
  <2>3. \A o \in Obj : t.payload[o] > 0 => ~IsClient(t, o) /\ t.rpc[o].result = <<>>
    BY <1>8, <1>9 DEF Content, IsClient
  <2>4. Handles(t)
    <3>1. \A k \in Key : s.rpcs[k] # Nil => s.rpcs[k] \in Obj
      BY Found DEF Filed
    <3> QED BY <1>8, <1>9, <3>1 DEF Content, Handles
  <2> QED BY <1>8, <2>1, <2>2, <2>3, <2>4 DEF Content
<1>11. Tunes(s, t)
  BY <1>8, <1>9 DEF Tunes
<1> QED BY <1>8, <1>10, <1>11 DEF t

\* The GRANTs that schedule sends are for RPCs of the table.
LEMMA GrantsSends ==
  ASSUME NEW s, NEW Out, NEW In, Content(s, Out, In), Numbers, NEW rank, NEW q \in Grants(s, rank),
         NEW t, NEW K, Served(s) \subseteq K
  PROVE  Sends(q, t, Out, K)
<1>1. PICK o \in Granted(s, rank) :
        q = [type |-> "GRANT", src |-> Local, dst |-> s.rpc[o].key[1],
             id |-> s.rpc[o].key[2], off |-> Window(s.rpc[o].rx), n |-> 0]
  BY DEF Grants
<1> DEFINE k == s.rpc[o].key
<1>2. o \in Live(s)
  BY DEF Granted, Candidates
<1>3. s.rpc[o] \in Rpc /\ k \in Key /\ k \in K
  BY <1>2, LiveFiled
<1>4. Window(s.rpc[o].rx) \in Nat
  BY <1>3, CountType DEF Rpc
<1>5. <<k[1], k[2]>> = k
  <2> HIDE DEF k
  <2> QED BY <1>3, SMTT(30) DEF Key
<1>6. /\ q.type = "GRANT" /\ q.src = Local /\ q.dst = k[1] /\ q.id = k[2]
      /\ q.off = Window(s.rpc[o].rx) /\ q.n = 0
  BY <1>1
<1>7. q.off \in Nat /\ q.n \in Nat
  BY <1>4, <1>6, SMTT(30)
<1>8. q.type # "DATA" /\ q.type # "ACK" /\ q.type # "RPC_UNKNOWN"
  BY <1>6, SMTT(30)
<1> HIDE DEF k
<1> QED BY <1>3, <1>5, <1>6, <1>7, <1>8 DEF Sends

\* requestMissing (endpoint.go:453) asks for a range of offsets.
LEMMA MissingSends ==
  ASSUME Numbers, NEW r \in Rpc, NEW k \in Key, r.key = k, NEW M, Assembles(r.rx, M),
         NEW q \in RequestMissing(r), NEW t, NEW Out, NEW K, k \in K
  PROVE  Sends(q, t, Out, K)
<1> DEFINE a == r.rx
           start == Contiguous(a)
           granted == Lesser(a.granted, a.len)
           end == Min({granted} \cup {i \in start .. granted - 1 : i \in DOMAIN a.data})
           Ask(off, n) == [type |-> "RESEND", src |-> Local, dst |-> r.key[1],
                           id |-> r.key[2], off |-> off, n |-> n]
<1>1. a.len \in Nat /\ a.granted \in Nat
  BY DEF Rpc, Rx
<1>2. ResendAll \in Nat
  BY ConfigAssumption, SMTT(30) DEF ResendAll
<1>3. a.len # 0 => start \in Nat
  <2>1. SUFFICES ASSUME a.len # 0 PROVE start \in Nat
    OBVIOUS
  <2>2. DOMAIN a.data \subseteq 0 .. a.len - 1
    BY <2>1 DEF Assembles
  <2> DEFINE S == {i \in 0 .. a.len : i \notin DOMAIN a.data}
  <2>3. a.len \in S /\ S \in SUBSET Nat
    BY <1>1, <2>2, SMTT(30)
  <2>4. start = Min(S)
    BY DEF Contiguous
  <2> HIDE DEF S
  <2> QED BY <2>3, <2>4 DEF Numbers
<1>4. start \in Nat => end \in Nat
  <2>1. SUFFICES ASSUME start \in Nat PROVE end \in Nat
    OBVIOUS
  <2> DEFINE S == {granted} \cup {i \in start .. granted - 1 : i \in DOMAIN a.data}
  <2> HIDE DEF start
  <2>2. granted \in Nat
    BY <1>1, SMTT(30) DEF Lesser
  <2> HIDE DEF granted
  <2>3. granted \in S /\ S \in SUBSET Nat
    BY <2>1, <2>2, SMTT(30)
  <2> HIDE DEF S
  <2>4. Min(S) \in S
    BY <2>3 DEF Numbers
  <2>5. end = Min(S)
    BY DEF S
  <2> QED BY <2>3, <2>4, <2>5
<1>5. RequestMissing(r) = IF a.len = 0 THEN {Ask(0, ResendAll)}
                          ELSE IF start >= end THEN {} ELSE {Ask(start, end - start)}
  BY DEF RequestMissing
<1>6. \E off \in Nat, n \in Nat : q = Ask(off, n)
  <2> HIDE DEF a, start, end, Ask
  <2>1. CASE a.len = 0
    <3>1. q = Ask(0, ResendAll)
      BY <1>5, <2>1
    <3> QED BY <1>2, <3>1, SMTT(30)
  <2>2. CASE a.len # 0
    <3>1. start \in Nat /\ end \in Nat
      BY <1>3, <1>4, <2>2
    <3>2. ~(start >= end) /\ q = Ask(start, end - start)
      BY <1>5, <2>2
    <3>3. end - start \in Nat
      BY <3>1, <3>2, SMTT(30)
    <3> QED BY <3>1, <3>2, <3>3
  <2> QED BY <2>1, <2>2
<1>7. <<k[1], k[2]>> = k
  BY SMTT(30) DEF Key
<1>8. /\ q.type = "RESEND" /\ q.src = Local /\ q.dst = k[1] /\ q.id = k[2]
      /\ q.off \in Nat /\ q.n \in Nat
  <2>1. PICK off \in Nat, n \in Nat : q = Ask(off, n)
    BY <1>6
  <2> QED BY <2>1, SMTT(30)
<1>9. q.type # "DATA" /\ q.type # "ACK" /\ q.type # "RPC_UNKNOWN"
  BY <1>8, SMTT(30)
<1> QED BY <1>7, <1>8, <1>9 DEF Sends

\* What the timer sends for a silent RPC (timerLoop, endpoint.go:437).
LEMMA RetrySends ==
  ASSUME NEW s, NEW Out, NEW In, Content(s, Out, In), Numbers, NEW o \in Live(s),
         NEW q \in Retry(s, o), NEW t, NEW K, Served(s) \subseteq K
  PROVE  Sends(q, t, Out, K)
<1> DEFINE r == s.rpc[o]
<1>1. r \in Rpc /\ r.key \in Key /\ r.key \in K /\ Assembles(r.rx, In[r.key])
  BY LiveFiled DEF Holding
<1>2. q = Control("NEED_ACK", r.key) \/ q \in RequestMissing(r)
  BY DEF Retry
<1> HIDE DEF r
<1>3. CASE q = Control("NEED_ACK", r.key)
  <2>1. "NEED_ACK" \in {"ACK", "RPC_UNKNOWN", "NEED_ACK", "BUSY"} /\ "NEED_ACK" \notin {"ACK", "RPC_UNKNOWN"}
    BY SMTT(30)
  <2> QED BY <1>1, <1>3, <2>1, ControlSends
<1>4. CASE q \in RequestMissing(r)
  BY <1>1, <1>4, MissingSends
<1> QED BY <1>2, <1>3, <1>4

-----------------------------------------------------------------------------
(* Starting handlers. *)

Ready(s) == {o \in Live(s) : ~IsClient(s, o) /\ s.rpc[o].received}

\* startHandler (endpoint.go:688) hands a complete request to its handler.
LEMMA StartContent ==
  ASSUME NEW s, NEW Out, NEW In, Content(s, Out, In),
         NEW W, W \subseteq Ready(s), \A o \in W : ~s.rpc[o].handling
  PROVE  /\ Content(Start(s, W), Out, In)
         /\ Tunes(s, Start(s, W))
         /\ \A o \in W : Start(s, W).rpc[o].handling
         /\ \A o \in Obj : o \notin W => Start(s, W).payload[o] = s.payload[o]
<1> DEFINE t == Start(s, W)
           G == [o \in Obj |-> IF o \in W THEN Started(s.rpc[o]) ELSE s.rpc[o]]
           P == [o \in Obj |-> IF o \in W THEN s.rpc[o].rx.len ELSE s.payload[o]]
           b == s.buffered - Total(Bits(s), W)
           w == s.workers + Cardinality(W)
<1>1. Formed(s)
  BY DEF Content
<1>2. ASSUME NEW o \in Obj
      PROVE  LET q == Started(s.rpc[o]) IN
             /\ q \in Rpc /\ q.key = s.rpc[o].key /\ q.tx = s.rpc[o].tx /\ q.rx = NoRx
             /\ q.received = s.rpc[o].received /\ q.handling = TRUE
             /\ q.expired = s.rpc[o].expired /\ q.result = s.rpc[o].result
  <2>1. s.rpc[o] \in Rpc
    BY <1>1 DEF Formed
  <2> QED BY <2>1, BlankType DEF Started, Rpc
<1>3. G \in [Obj -> Rpc]
  BY <1>1, <1>2 DEF Formed
<1>4. P \in [Obj -> Nat]
  BY <1>1 DEF Formed, Rpc, Rx
<1>5. t = [s EXCEPT !.rpc = G, !.payload = P, !.buffered = b, !.workers = w]
  BY <1>1 DEF Start, Formed, Shaped
<1>6. \A o \in Obj : /\ G[o] = IF o \in W THEN Started(s.rpc[o]) ELSE s.rpc[o]
                     /\ P[o] = IF o \in W THEN s.rpc[o].rx.len ELSE s.payload[o]
  OBVIOUS
<1> HIDE DEF t, G, P, b, w
<1>7. t = [rpcs |-> s.rpcs, rpc |-> G, payload |-> P, buffered |-> b, workers |-> w]
  BY <1>1, <1>5 DEF Formed, Shaped
<1>8. Formed(t) /\ t.rpcs = s.rpcs /\ t.rpc = G /\ t.payload = P
  BY <1>1, <1>3, <1>4, <1>7 DEF Formed, Shaped
<1>9. ASSUME NEW o \in W
      PROVE  /\ o \in Obj /\ s.rpc[o].key \in Key /\ ~IsClient(s, o) /\ s.rpc[o].received
             /\ Holding(s.rpc[o], s.rpc[o].key, Out, In)
  BY LiveFiled DEF Ready
<1>10. ASSUME NEW o \in Obj
       PROVE  /\ t.rpc[o].key = s.rpc[o].key /\ t.rpc[o].result = s.rpc[o].result
              /\ o \in W => t.rpc[o].handling
              /\ o \notin W => t.rpc[o] = s.rpc[o] /\ t.payload[o] = s.payload[o]
  BY <1>2, <1>6, <1>8
<1>11. Tunes(s, t)
  BY <1>8, <1>10 DEF Tunes
<1>12. ASSUME NEW k \in Key, t.rpcs[k] # Nil
       PROVE  Holding(t.rpc[t.rpcs[k]], k, Out, In)
  <2> DEFINE o == s.rpcs[k]
             q == Started(s.rpc[o])
  <2>1. t.rpcs[k] = o
    BY <1>8
  <2>2. o \in Obj /\ Holding(s.rpc[o], k, Out, In)
    BY <1>12, <2>1, Found DEF Filed
  <2>3. CASE o \notin W
    BY <1>10, <2>1, <2>2, <2>3
  <2>4. CASE o \in W
    <3>1. t.rpc[o] = q
      BY <1>6, <1>8, <2>2, <2>4
    <3>2. /\ q.key = s.rpc[o].key /\ q.tx = s.rpc[o].tx /\ q.rx = NoRx
          /\ q.received = s.rpc[o].received /\ q.handling = TRUE
          /\ q.expired = s.rpc[o].expired /\ q.result = s.rpc[o].result
      BY <1>2, <2>2
    <3>3. s.rpc[o].received
      BY <1>9, <2>4
    <3>4. Assembles(NoRx, In[k])
      BY DEF Assembles, NoRx
    <3> HIDE DEF q, o
    <3>5. Holding(q, k, Out, In)
      BY <2>2, <3>2, <3>3, <3>4 DEF Holding
    <3> QED BY <2>1, <3>1, <3>5
  <2> QED BY <2>3, <2>4
<1>13. ASSUME NEW o \in Obj, t.rpc[o].key = Nil
       PROVE  t.rpc[o].rx = NoRx /\ t.payload[o] = 0
  <2>1. o \notin W
    BY <1>9, <1>10, <1>13, KeyAssumption
  <2>2. t.rpc[o] = s.rpc[o] /\ t.payload[o] = s.payload[o]
    BY <1>10, <2>1
  <2> QED BY <1>13, <2>2 DEF Content
<1>14. ASSUME NEW o \in Obj, t.payload[o] > 0
       PROVE  ~IsClient(t, o) /\ t.rpc[o].result = <<>>
  <2>1. CASE o \in W
    BY <1>9, <1>10, <2>1 DEF IsClient, Holding
  <2>2. CASE o \notin W
    BY <1>10, <1>14, <2>2 DEF IsClient, Content
  <2> QED BY <2>1, <2>2
<1>15. Content(t, Out, In)
  <2>1. \A k \in Key : s.rpcs[k] # Nil => s.rpcs[k] \in Obj
    BY Found DEF Filed
  <2>2. ASSUME NEW k \in Key, t.rpcs[k] # Nil, t.payload[t.rpcs[k]] > 0
        PROVE  t.rpc[t.rpcs[k]].handling
    <3>1. t.rpcs[k] = s.rpcs[k] /\ s.rpcs[k] \in Obj
      BY <1>8, <2>1, <2>2
    <3>2. CASE s.rpcs[k] \in W
      BY <1>10, <3>1, <3>2
    <3>3. CASE s.rpcs[k] \notin W
      <4>1. t.rpc[s.rpcs[k]] = s.rpc[s.rpcs[k]] /\ s.payload[s.rpcs[k]] > 0
        BY <1>10, <2>2, <3>1, <3>3
      <4>2. Handles(s)
        BY DEF Content
      <4> QED BY <2>2, <3>1, <4>1, <4>2 DEF Handles
    <3> QED BY <3>2, <3>3
  <2>3. Handles(t)
    BY <2>2 DEF Handles
  <2> QED BY <1>8, <1>12, <1>13, <1>14, <2>3 DEF Content
<1> QED BY <1>9, <1>10, <1>11, <1>15 DEF t

\* Handlers of W start.
Hands(s, t, W, Out, In) ==
  /\ Content(t, Out, In)
  /\ Tunes(s, t)
  /\ Starts(s, t, In, Buffers(s))
  /\ \A o \in Obj : o \notin W => t.payload[o] = s.payload[o]

\* Nobody is late here, so startHandler finishes nothing.
LEMMA StartHandlersContent ==
  ASSUME NEW s, NEW Out, NEW In, Content(s, Out, In),
         NEW T, T \subseteq Ready(s), NEW W \in Starters(s, T)
  PROVE  Hands(s, StartHandlers(s, T, W), W, Out, In) /\ W \subseteq T
<1> DEFINE f == Finish(s, Overdue(s, T), "deadline")
           t == StartHandlers(s, T, W)
<1>1. ASSUME NEW o \in Ready(s)
      PROVE  /\ o \in Obj /\ o # Nil /\ s.rpc[o] \in Rpc /\ s.rpc[o].key \in Key
             /\ s.rpcs[s.rpc[o].key] = o /\ Holding(s.rpc[o], s.rpc[o].key, Out, In)
  BY LiveFiled DEF Ready
<1>2. Overdue(s, T) = {}
  BY <1>1 DEF Overdue, Startable, Holding
<1>3. W \subseteq T /\ \A o \in W : ~s.rpc[o].handling
  BY DEF Starters, Startable
<1>4. t = Start(f, W)
  BY DEF StartHandlers
<1>5. Content(f, Out, In) /\ Same(s, f)
  <2>1. "deadline" \in Errors
    BY SMTT(30) DEF Errors
  <2> QED BY <1>2, <2>1, FinishNothing
<1> HIDE DEF f, t
<1>6. f.payload = s.payload /\ f.rpc = s.rpc /\ f.rpcs = s.rpcs
  BY <1>5 DEF Same
<1>7. \A o \in W : o \in Ready(f) /\ ~f.rpc[o].handling
  <2>1. SUFFICES ASSUME NEW o \in W PROVE o \in Ready(f) /\ ~f.rpc[o].handling
    OBVIOUS
  <2>2. o \in Ready(s) /\ ~s.rpc[o].handling
    BY <1>3
  <2>3. Live(f) = Live(s)
    BY <1>6 DEF Live
  <2> QED BY <1>6, <2>2, <2>3 DEF Ready, IsClient
<1>8. /\ Content(t, Out, In) /\ Tunes(f, t)
      /\ \A o \in W : t.rpc[o].handling
      /\ \A o \in Obj : o \notin W => t.payload[o] = f.payload[o]
  <2>1. W \subseteq Ready(f) /\ \A o \in W : ~f.rpc[o].handling
    BY <1>7
  <2>2. /\ Content(Start(f, W), Out, In)
        /\ Tunes(f, Start(f, W))
        /\ \A o \in W : Start(f, W).rpc[o].handling
        /\ \A o \in Obj : o \notin W => Start(f, W).payload[o] = f.payload[o]
    BY <1>5, <2>1, StartContent, SMTT(30)
  <2> QED BY <1>4, <2>2
<1>9. Tunes(s, t)
  BY <1>6, <1>8 DEF Tunes
<1>10. \A o \in Obj : o \notin W => t.payload[o] = s.payload[o]
  BY <1>6, <1>8
<1>11. ASSUME NEW o \in Obj, s.payload[o] = 0, t.payload[o] > 0
       PROVE  LET k == t.rpc[o].key IN
              /\ k \in Key /\ t.rpcs[k] = o /\ t.rpc[o].handling
              /\ s.rpcs[k] # Nil => s.rpcs[k] = o /\ ~s.rpc[o].handling
              /\ \E a \in Rx : Complete(a, In[k]) /\ Buffers(s)[o] = a.data
  <2> DEFINE k == t.rpc[o].key
  <2>1. o \in W
    <3>1. ~(0 > 0)
      BY SMTT(30)
    <3> QED BY <1>10, <1>11, <3>1
  <2>2. o \in Ready(s)
    BY <1>3, <2>1
  <2>3. k = s.rpc[o].key
    BY <1>9 DEF Tunes
  <2> HIDE DEF k
  <2>4. k \in Key /\ s.rpcs[k] = o /\ Holding(s.rpc[o], k, Out, In) /\ s.rpc[o].rx \in Rx
    BY <1>1, <2>2, <2>3 DEF Rpc
  <2>5. ~s.rpc[o].handling /\ s.rpc[o].received
    BY <1>3, <2>1, <2>2 DEF Ready
  <2>6. Complete(s.rpc[o].rx, In[k])
    BY <2>4, <2>5 DEF Holding
  <2>7. t.rpcs[k] = o /\ t.rpc[o].handling
    BY <1>8, <1>9, <2>1, <2>4 DEF Tunes
  <2>8. Buffers(s)[o] = s.rpc[o].rx.data
    BY DEF Buffers
  <2> QED BY <2>4, <2>5, <2>6, <2>7, <2>8 DEF k
<1>12. Starts(s, t, In, Buffers(s))
  BY <1>11 DEF Starts
<1>13. Hands(s, t, W, Out, In)
  BY <1>8, <1>9, <1>10, <1>12 DEF Hands
<1> QED BY <1>3, <1>13 DEF t

\* What schedule does after startHandler changes none of this.
LEMMA StartsThrough ==
  ASSUME NEW r, NEW s, NEW t, NEW u, NEW In, NEW seen,
         Same(r, s), Starts(s, t, In, seen), Tunes(t, u), u.payload = t.payload
  PROVE  Starts(r, u, In, seen)
<1>1. r.rpcs = s.rpcs /\ r.rpc = s.rpc /\ r.payload = s.payload
  BY DEF Same
<1>2. SUFFICES ASSUME NEW o \in Obj, r.payload[o] = 0, u.payload[o] > 0
               PROVE  LET k == u.rpc[o].key IN
                      /\ k \in Key /\ u.rpcs[k] = o /\ u.rpc[o].handling
                      /\ r.rpcs[k] # Nil => r.rpcs[k] = o /\ ~r.rpc[o].handling
                      /\ \E a \in Rx : Complete(a, In[k]) /\ seen[o] = a.data
  BY DEF Starts
<1> DEFINE k == t.rpc[o].key
<1>3. /\ k \in Key /\ t.rpcs[k] = o /\ t.rpc[o].handling
      /\ s.rpcs[k] # Nil => s.rpcs[k] = o /\ ~s.rpc[o].handling
      /\ \E a \in Rx : Complete(a, In[k]) /\ seen[o] = a.data
  BY <1>1, <1>2 DEF Starts
<1>4. u.rpc[o].key = k /\ u.rpcs[k] = t.rpcs[k] /\ (t.rpc[o].handling => u.rpc[o].handling)
  BY DEF Tunes
<1> HIDE DEF k
<1> QED BY <1>1, <1>3, <1>4

\* A step that sends the packets X.
LEMMA EvolvesBy ==
  ASSUME NEW Out, NEW In, NEW Enter, NEW Leave, NEW K, NEW X,
         Content(e', Out, In), Passes(e, e', Enter, Leave), Settles(e, e', In),
         net' = Emit(net, X),
         \A q \in X : Sends(q, e', Out, K \cup Served(e) \cup Served(e'))
  PROVE  Evolves(Out, In, Enter, Leave, K)
BY DEF Evolves

-----------------------------------------------------------------------------
(* The timer and the handlers. *)

\* A pass of the timer that finds no deadline passed ends no call, and what it
\* drops or times out starts nothing new (endpoint.go: timerLoop).
LEMMA TickContent ==
  ASSUME NEW Out, NEW In, Content(e, Out, In), Numbers, NEW due, Tick({}, due)
  PROVE  Evolves(Out, In, {}, {}, {}) /\ Starts(e, e', In, Buffers(e))
<1> DEFINE s == Finish(e, {}, "deadline")
<1>1. "deadline" \in Errors
  BY SMTT(30) DEF Errors
<1>2. Content(s, Out, In) /\ Same(e, s)
  BY <1>1, FinishNothing
<1>3. PICK W \in Starters(s, Waiting(s)) :
      \E t \in {StartHandlers(s, Waiting(s), W)} :
      \E rank \in Rankings(t) :
        /\ due \subseteq Live(t)
        /\ e' = Schedule(t, rank)
        /\ net' = Emit(net, (UNION {Retry(t, o) : o \in due}) \cup Grants(t, rank))
  BY DEF Tick
<1> HIDE DEF s
<1> DEFINE t == StartHandlers(s, Waiting(s), W)
<1>4. PICK rank \in Rankings(t) :
        /\ due \subseteq Live(t)
        /\ e' = Schedule(t, rank)
        /\ net' = Emit(net, (UNION {Retry(t, o) : o \in due}) \cup Grants(t, rank))
  BY <1>3
<1>5. Waiting(s) \subseteq Ready(s)
  BY DEF Waiting, Ready
<1>6. Content(t, Out, In) /\ Tunes(s, t) /\ Starts(s, t, In, Buffers(s))
  BY <1>2, <1>5, StartHandlersContent DEF Hands
<1> HIDE DEF t
<1>7. Content(e', Out, In) /\ Tunes(t, e') /\ e'.payload = t.payload
  BY <1>4, <1>6, ScheduleContent
<1>8. Tunes(e, e')
  BY <1>2, <1>6, <1>7 DEF Tunes, Same
<1>9. Starts(e, e', In, Buffers(e))
  <2>1. Buffers(e) = Buffers(s)
    BY <1>2 DEF Buffers, Same
  <2>2. Starts(e, e', In, Buffers(s))
    BY <1>2, <1>6, <1>7, StartsThrough
  <2> QED BY <2>1, <2>2
<1>10. Passes(e, e', {}, {}) /\ Settles(e, e', In)
  BY <1>8, TunesPasses
<1> DEFINE R == UNION {Retry(t, o) : o \in due}
           X == R \cup Grants(t, rank)
           K == {} \cup Served(e) \cup Served(e')
<1>11. \A q \in X : Sends(q, e', Out, K)
  <2>1. Served(t) \subseteq K
    BY <1>7 DEF Served, Tunes
  <2>2. SUFFICES ASSUME NEW q \in X PROVE Sends(q, e', Out, K)
    OBVIOUS
  <2> HIDE DEF K
  <2>3. CASE q \in Grants(t, rank)
    BY <1>6, <2>1, <2>3, GrantsSends
  <2>4. CASE q \in R
    <3>1. PICK o \in due : q \in Retry(t, o)
      BY <2>4
    <3>2. o \in Live(t)
      BY <1>4
    <3> QED BY <1>6, <2>1, <3>1, <3>2, RetrySends
  <2> HIDE DEF R
  <2> QED BY <2>2, <2>3, <2>4
<1>12. Evolves(Out, In, {}, {}, {})
  <2>1. net' = Emit(net, X)
    BY <1>4, SMTT(30)
  <2> HIDE DEF X, K
  <2>2. \A q \in X : Sends(q, e', Out, {} \cup Served(e) \cup Served(e'))
    BY <1>11 DEF K
  <2> QED BY <1>7, <1>10, <2>1, <2>2, EvolvesBy
<1> QED BY <1>9, <1>12

\* A handler goroutine ends (endpoint.go:717).
LEMMA ReleasedContent ==
  ASSUME NEW Out, NEW In, Content(e, Out, In), NEW o \in Obj, e.payload[o] > 0
  PROVE  /\ Content(Released(o), Out, In)
         /\ Released(o).rpcs = e.rpcs
         /\ \A x \in Obj : x # o => /\ Released(o).rpc[x] = e.rpc[x]
                                    /\ Released(o).payload[x] = e.payload[x]
         /\ Released(o).payload[o] = 0
         /\ \/ /\ Current(e, o) /\ Released(o).rpc[o] = e.rpc[o]
               /\ e.rpc[o].key \in Key /\ e.rpcs[e.rpc[o].key] # Nil
            \/ ~Current(e, o) /\ \A k \in Key : e.rpcs[k] # o
<1> DEFINE s == Released(o)
           G == [e.rpc EXCEPT ![o] = IF Current(e, o) THEN e.rpc[o] ELSE Blank]
           P == [e.payload EXCEPT ![o] = 0]
           b == e.buffered - e.payload[o]
           w == e.workers - 1
<1>1. /\ Shaped(e) /\ e.rpcs \in [Key -> Obj \cup {Nil}] /\ e.rpc \in [Obj -> Rpc]
      /\ e.payload \in [Obj -> Nat]
  BY DEF Content, Formed
<1>2. G \in [Obj -> Rpc] /\ P \in [Obj -> Nat]
  BY <1>1, BlankType
<1>3. s = [rpcs |-> e.rpcs, rpc |-> G, payload |-> P, buffered |-> b, workers |-> w]
  <2>1. s = [e EXCEPT !.workers = e.workers - 1, !.buffered = e.buffered - e.payload[o],
                      !.payload = P, !.rpc = G]
    BY <1>1, SMTT(30) DEF Released, Shaped
  <2> HIDE DEF s, G, P
  <2> QED BY <1>1, <2>1 DEF Shaped
<1>4. /\ \A x \in Obj : x # o => G[x] = e.rpc[x] /\ P[x] = e.payload[x]
      /\ P[o] = 0 /\ G[o] = IF Current(e, o) THEN e.rpc[o] ELSE Blank
  BY <1>1
<1> HIDE DEF s, G, P, b, w
<1>5. Formed(s) /\ s.rpcs = e.rpcs /\ s.rpc = G /\ s.payload = P
  BY <1>1, <1>2, <1>3 DEF Formed, Shaped
<1>6. e.rpc[o].key \in Key /\ Nil \notin Obj
  <2>1. e.rpc[o].key = Nil => e.payload[o] = 0
    BY DEF Content
  <2>2. e.rpc[o].key # Nil
    BY <2>1, SMTT(30)
  <2> QED BY <1>1, <2>2, SetAssumption DEF Rpc
<1>7. ~Current(e, o) => \A k \in Key : e.rpcs[k] # o
  <2>1. SUFFICES ASSUME NEW k \in Key, e.rpcs[k] = o PROVE Current(e, o)
    OBVIOUS
  <2>2. e.rpc[o].key = k
    BY <1>6, <2>1, Found DEF Filed
  <2> QED BY <2>1, <2>2 DEF Current
<1>8. ASSUME NEW k \in Key, s.rpcs[k] # Nil
      PROVE  Holding(s.rpc[s.rpcs[k]], k, Out, In)
  <2>1. e.rpcs[k] \in Obj /\ Holding(e.rpc[e.rpcs[k]], k, Out, In)
    BY <1>5, <1>8, Found DEF Filed
  <2>2. G[e.rpcs[k]] = e.rpc[e.rpcs[k]]
    BY <1>4, <1>7, <2>1
  <2> QED BY <1>5, <2>1, <2>2
<1>9. ASSUME NEW x \in Obj, s.rpc[x].key = Nil
      PROVE  s.rpc[x].rx = NoRx /\ s.payload[x] = 0
  <2>1. CASE x = o
    <3>1. G[o] = Blank
      BY <1>4, <1>5, <1>6, <1>9, <2>1, KeyAssumption
    <3> QED BY <1>4, <1>5, <2>1, <3>1, BlankType
  <2>2. CASE x # o
    BY <1>4, <1>5, <1>9, <2>2 DEF Content
  <2> QED BY <2>1, <2>2
<1>10. ASSUME NEW x \in Obj, s.payload[x] > 0
       PROVE  ~IsClient(s, x) /\ s.rpc[x].result = <<>>
  <2>1. x # o
    BY <1>4, <1>5, <1>10, SMTT(30)
  <2> QED BY <1>4, <1>5, <1>10, <2>1 DEF Content, IsClient
<1>11. Content(s, Out, In)
  <2>1. SUFFICES ASSUME NEW k \in Key, s.rpcs[k] # Nil, s.payload[s.rpcs[k]] > 0
                 PROVE  s.rpc[s.rpcs[k]].handling
    BY <1>5, <1>8, <1>9, <1>10 DEF Content, Handles
  <2>2. e.rpcs[k] \in Obj
    BY <1>5, <2>1, Found DEF Filed
  <2>3. e.rpcs[k] # o
    BY <1>4, <1>5, <2>1, SMTT(30)
  <2>4. e.rpc[e.rpcs[k]].handling
    BY <1>4, <1>5, <2>1, <2>2, <2>3 DEF Content, Handles
  <2> QED BY <1>4, <1>5, <2>2, <2>3, <2>4
<1>12. Current(e, o) => e.rpcs[e.rpc[o].key] # Nil
  BY <1>6 DEF Current
<1>13. \/ Current(e, o) /\ s.rpc[o] = e.rpc[o] /\ e.rpc[o].key \in Key /\ e.rpcs[e.rpc[o].key] # Nil
       \/ ~Current(e, o) /\ \A k \in Key : e.rpcs[k] # o
  BY <1>4, <1>5, <1>6, <1>7, <1>12
<1> QED BY <1>4, <1>5, <1>11, <1>13 DEF s

\* The handler returned nothing, or nobody waits for its response.
LEMMA HandlerFailsContent ==
  ASSUME NEW Out, NEW In, Content(e, Out, In), NEW o \in Obj, NEW msg, HandlerFails(o, msg)
  PROVE  Evolves(Out, In, {}, {}, {}) /\ Starts(e, e', In, Buffers(e))
<1>1. e.payload[o] > 0 /\ e' = Released(o) /\ net' = net
  BY DEF HandlerFails
<1>2. /\ Content(e', Out, In)
      /\ e'.rpcs = e.rpcs
      /\ \A x \in Obj : x # o => e'.rpc[x] = e.rpc[x] /\ e'.payload[x] = e.payload[x]
      /\ e'.payload[o] = 0
      /\ e'.rpc[o] = e.rpc[o] \/ \A k \in Key : e.rpcs[k] # o
  BY <1>1, ReleasedContent
<1>3. ~(0 > 0)
  BY SMTT(30)
<1>4. Passes(e, e', {}, {})
  <2>1. \A k \in Key : e.rpcs[k] # Nil => e.rpcs[k] \in Obj
    BY Found DEF Filed
  <2>2. \A k \in Key : e.rpcs[k] # Nil => e'.rpc[e.rpcs[k]] = e.rpc[e.rpcs[k]]
    BY <1>2, <2>1
  <2>3. \A x \in Obj : e.payload[x] > 0 /\ e'.payload[x] > 0 => e'.rpc[x].key = e.rpc[x].key
    BY <1>2, <1>3
  <2> QED BY <1>2, <2>2, <2>3 DEF Passes
<1>5. Settles(e, e', In)
  BY <1>2 DEF Settles
<1>6. Starts(e, e', In, Buffers(e))
  <2>1. \A x \in Obj : ~(e.payload[x] = 0 /\ e'.payload[x] > 0)
    BY <1>2, <1>3
  <2> QED BY <2>1 DEF Starts
<1> QED BY <1>1, <1>2, <1>4, <1>5, <1>6 DEF Evolves

\* The handler's response becomes the message of its RPC (endpoint.go:726).
LEMMA HandlerRespondsContent ==
  ASSUME NEW Out, NEW In, Content(e, Out, In), Lawful(Out), NEW o \in Obj,
         NEW msg \in Out[e.rpc[o].key], HandlerResponds(o, msg)
  PROVE  /\ Evolves(Out, In, {}, {}, {}) /\ Starts(e, e', In, Buffers(e))
         /\ e'.payload[o] = 0
<1> DEFINE s == Released(o)
           k == e.rpc[o].key
           r == [s.rpc[o] EXCEPT !.tx = msg, !.granted = Lesser(msg.len, UnscheduledBytes)]
           t == [s EXCEPT !.rpc[o] = SendNew(r), !.buffered = @ + msg.len]
           b == s.buffered + msg.len
<1>1. /\ e.payload[o] > 0 /\ Current(e, o)
      /\ \E W \in Starters(t, Waiting(t)) : e' = StartHandlers(t, Waiting(t), W)
      /\ net' = Emit(net, NewSegments(r))
  BY DEF HandlerResponds
<1>2. /\ Content(s, Out, In)
      /\ s.rpcs = e.rpcs
      /\ \A x \in Obj : x # o => s.rpc[x] = e.rpc[x] /\ s.payload[x] = e.payload[x]
      /\ s.payload[o] = 0
      /\ s.rpc[o] = e.rpc[o] /\ k \in Key /\ e.rpcs[k] # Nil
  BY <1>1, ReleasedContent
<1>3. e.rpcs[k] = o
  BY <1>1 DEF Current
<1> HIDE DEF s
<1>4. Shaped(s) /\ s.rpc \in [Obj -> Rpc] /\ s.rpc[o] \in Rpc /\ Formed(s)
  BY <1>2 DEF Content, Formed
<1>5. Holding(s.rpc[o], k, Out, In)
  BY <1>2, <1>3 DEF Content
<1>6. msg \in Msg /\ Lesser(msg.len, UnscheduledBytes) \in Nat
  <2>1. msg \in Messages(MaxMessageSize)
    BY <1>2 DEF Lawful
  <2> QED BY <2>1, ConfigAssumption, SMTT(30) DEF Messages, Msg, Lesser
<1>7. /\ r \in Rpc /\ r.tx = msg /\ r.key = s.rpc[o].key /\ r.rx = s.rpc[o].rx
      /\ r.received = s.rpc[o].received /\ r.handling = s.rpc[o].handling
      /\ r.expired = s.rpc[o].expired /\ r.result = s.rpc[o].result
  <2> DEFINE g == Lesser(msg.len, UnscheduledBytes)
  <2> HIDE DEF g
  <2>1. r = [s.rpc[o] EXCEPT !.tx = msg, !.granted = g]
    BY DEF g
  <2>2. g \in Nat
    BY <1>6 DEF g
  <2> HIDE DEF r
  <2> QED BY <1>4, <1>6, <2>1, <2>2 DEF Rpc
<1> HIDE DEF r
<1>8. Holding(r, k, Out, In)
  BY <1>5, <1>7 DEF Holding
<1>9. /\ SendNew(r) \in Rpc /\ Holding(SendNew(r), k, Out, In)
      /\ SendNew(r).key = k /\ SendNew(r).handling = e.rpc[o].handling
  BY <1>2, <1>7, <1>8, SendNewHolding
<1> DEFINE G == [s.rpc EXCEPT ![o] = SendNew(r)]
<1>10. G \in [Obj -> Rpc] /\ G[o] = SendNew(r) /\ \A x \in Obj : x # o => G[x] = s.rpc[x]
  BY <1>4, <1>9
<1>11. t = [rpcs |-> s.rpcs, rpc |-> G, payload |-> s.payload, buffered |-> b, workers |-> s.workers]
  <2>1. t = [s EXCEPT !.rpc = G, !.buffered = s.buffered + msg.len]
    BY <1>4 DEF Shaped
  <2> HIDE DEF t, G
  <2> QED BY <1>4, <2>1 DEF Shaped
<1> HIDE DEF t, G, b
<1>12. Formed(t) /\ t.rpcs = e.rpcs /\ t.rpc = G /\ t.payload = s.payload
  BY <1>2, <1>4, <1>10, <1>11 DEF Formed, Shaped
<1>13. Content(t, Out, In)
  <2>1. s.rpcs[k] = o /\ s.rpcs[k] # Nil /\ t.rpcs = s.rpcs
    BY <1>2, <1>3, <1>12
  <2>2. \A x \in Obj : x # s.rpcs[k] => t.rpc[x] = s.rpc[x]
    BY <1>10, <1>12, <2>1
  <2>3. Holding(t.rpc[s.rpcs[k]], k, Out, In)
    BY <1>9, <1>10, <1>12, <2>1
  <2>4. s.rpc[s.rpcs[k]].handling => t.rpc[s.rpcs[k]].handling
    BY <1>2, <1>9, <1>10, <1>12, <2>1
  <2>5. Replaces(s, t, k, Out, In)
    BY <1>12, <2>1, <2>2, <2>3, <2>4 DEF Replaces
  <2> QED BY <1>2, <2>5, ReplaceContent
<1>14. Tunes(e, t)
  BY <1>2, <1>9, <1>10, <1>12 DEF Tunes
<1>15. PICK W \in Starters(t, Waiting(t)) : e' = StartHandlers(t, Waiting(t), W)
  BY <1>1 DEF t
<1>16. Content(e', Out, In) /\ Tunes(t, e') /\ Starts(t, e', In, Buffers(t))
  <2>1. Waiting(t) \subseteq Ready(t)
    BY DEF Waiting, Ready
  <2> QED BY <1>13, <1>15, <2>1, StartHandlersContent DEF Hands
<1>17. Passes(e, e', {}, {}) /\ Settles(e, e', In)
  <2>1. Tunes(e, e')
    BY <1>14, <1>16 DEF Tunes
  <2> QED BY <2>1, TunesPasses
<1>18. Starts(e, e', In, Buffers(e))
  <2>1. SUFFICES ASSUME NEW x \in Obj, e.payload[x] = 0, e'.payload[x] > 0
                 PROVE  LET j == e'.rpc[x].key IN
                        /\ j \in Key /\ e'.rpcs[j] = x /\ e'.rpc[x].handling
                        /\ e.rpcs[j] # Nil => e.rpcs[j] = x /\ ~e.rpc[x].handling
                        /\ \E a \in Rx : Complete(a, In[j]) /\ Buffers(e)[x] = a.data
    BY DEF Starts
  <2>2. x # o
    BY <1>1, <2>1, SMTT(30)
  <2>3. t.payload[x] = 0 /\ t.rpc[x] = e.rpc[x] /\ t.rpcs = e.rpcs
    BY <1>2, <1>10, <1>12, <2>1, <2>2
  <2>4. Buffers(e)[x] = Buffers(t)[x]
    BY <2>3 DEF Buffers
  <2> DEFINE j == e'.rpc[x].key
  <2>5. /\ j \in Key /\ e'.rpcs[j] = x /\ e'.rpc[x].handling
        /\ t.rpcs[j] # Nil => t.rpcs[j] = x /\ ~t.rpc[x].handling
        /\ \E a \in Rx : Complete(a, In[j]) /\ Buffers(t)[x] = a.data
    BY <1>16, <2>1, <2>3 DEF Starts
  <2> HIDE DEF j
  <2> QED BY <2>3, <2>4, <2>5 DEF j
<1>19. \A q \in NewSegments(r) : Sends(q, e', Out, {} \cup Served(e) \cup Served(e'))
  <2>1. k \in {} \cup Served(e) \cup Served(e')
    BY <1>2 DEF Served
  <2>2. r.key = k /\ r.tx \in Out[k]
    BY <1>2, <1>7
  <2> HIDE DEF k
  <2>3. \A q \in NewSegments(r) : Bears(q, k, Out)
    BY <1>2, <1>7, <2>2, SegmentsBear, SMTT(30)
  <2> QED BY <2>1, <2>3, BearsSends
<1>20. Evolves(Out, In, {}, {}, {})
  BY <1>1, <1>16, <1>17, <1>19, EvolvesBy
<1>21. e'.payload[o] = 0
  <2>1. e.rpc[o].handling
    <3>1. Handles(e)
      BY DEF Content
    <3> QED BY <1>1, <1>2, <1>3, <3>1 DEF Handles
  <2>2. t.payload[o] = 0 /\ t.rpc[o].handling
    BY <1>2, <1>9, <1>10, <1>12, <2>1
  <2>3. ~(e'.payload[o] > 0)
    <3>1. SUFFICES ASSUME e'.payload[o] > 0 PROVE FALSE
      BY SMTT(30)
    <3> DEFINE j == e'.rpc[o].key
    <3>2. /\ j \in Key /\ e'.rpcs[j] = o
          /\ t.rpcs[j] # Nil => t.rpcs[j] = o /\ ~t.rpc[o].handling
      BY <1>16, <2>2, <3>1 DEF Starts
    <3> HIDE DEF j
    <3>3. t.rpcs[j] = o
      BY <1>16, <3>2 DEF Tunes
    <3> QED BY <2>2, <3>2, <3>3, SetAssumption
  <2>4. e'.payload[o] \in Nat
    BY <1>16 DEF Content, Formed
  <2> QED BY <2>3, <2>4, SMTT(30)
<1> QED BY <1>18, <1>20, <1>21

-----------------------------------------------------------------------------
(* Writing and calling. *)

\* A struct is in the table once: finishing it removes one RPC at most
\* (endpoint.go: finish, remove).
LEMMA FinishLosesOne ==
  ASSUME NEW s, NEW Out, NEW In, Content(s, Out, In), NEW o, NEW t,
         Passes(s, t, {}, {k \in Key : s.rpcs[k] \in {o}})
  PROVE  LosesOne(s, t)
<1> SUFFICES ASSUME NEW j \in Key, NEW k \in Key, s.rpcs[j] # Nil, t.rpcs[j] = Nil,
                    s.rpcs[k] # Nil, t.rpcs[k] = Nil
             PROVE  j = k
  BY DEF LosesOne
<1>1. s.rpcs[j] = o /\ s.rpcs[k] = o
  BY DEF Passes
<1>2. s.rpc[o].key = j /\ s.rpc[o].key = k
  BY <1>1 DEF Content, Holding
<1> QED BY <1>2

\* A step under one key removes one RPC at most.
LEMMA KeyLosesOne ==
  ASSUME NEW s, NEW t, NEW Enter, NEW Leave, Passes(s, t, Enter, Leave),
         NEW k, Leave \subseteq {k}
  PROVE  LosesOne(s, t)
BY DEF Passes, LosesOne

\* The socket refuses a packet (endpoint.go:376): its RPC is finished.
LEMMA WriteFailsContent ==
  ASSUME NEW Out, NEW In, Content(e, Out, In), NEW o, WriteFails(o)
  PROVE  Evolves(Out, In, {}, Key, {}) /\ e'.payload = e.payload /\ LosesOne(e, e')
<1>1. e' = Finish(e, {o}, "write") /\ net' = net
  BY DEF WriteFails
<1>2. "write" \in Errors /\ "write" # "ok"
  BY SMTT(30) DEF Errors
<1>3. Content(e', Out, In) /\ Passes(e, e', {}, {k \in Key : e.rpcs[k] \in {o}}) /\ Settles(e, e', In)
  BY <1>1, <1>2, FinishContent
<1>4. Passes(e, e', {}, Key)
  BY <1>3 DEF Passes
<1>5. e'.payload = e.payload
  <2>1. Formed(e)
    BY DEF Content
  <2>2. Without(e, {o}, e')
    BY <1>1, <1>2, <2>1, FinishFields
  <2> QED BY <2>2 DEF Without
<1>6. LosesOne(e, e')
  BY <1>3, FinishLosesOne
<1> QED BY <1>1, <1>3, <1>4, <1>5, <1>6 DEF Evolves

\* A step that leaves the table as it is.
LEMMA IdleEvolves ==
  ASSUME NEW Out, NEW In, Content(e, Out, In), e' = e
  PROVE  /\ Content(e', Out, In) /\ Passes(e, e', {}, {}) /\ Settles(e, e', In)
         /\ e'.payload = e.payload
<1>1. Tunes(e, e')
  BY DEF Tunes
<1>2. Content(e', Out, In)
  OBVIOUS
<1> QED BY <1>1, <1>2, TunesPasses

\* A canceled call leaves the table with an error (endpoint.go:201).
LEMMA AbortContent ==
  ASSUME NEW Out, NEW In, Content(e, Out, In), NEW c, Cancel(c) \/ Abort(c)
  PROVE  Evolves(Out, In, {}, Key, {}) /\ LosesOne(e, e')
<1>1. (e' = Finish(e, {call[c]}, "canceled") \/ e' = e) /\ net' = net
  BY DEF Abort, Cancel
<1>2. CASE e' = e
  <2>1. Content(e', Out, In) /\ Passes(e, e', {}, {}) /\ Settles(e, e', In)
    BY <1>2, IdleEvolves
  <2>2. Passes(e, e', {}, Key) /\ LosesOne(e, e')
    BY <2>1 DEF Passes, LosesOne
  <2> QED BY <1>1, <2>1, <2>2 DEF Evolves
<1>3. CASE e' = Finish(e, {call[c]}, "canceled")
  <2>1. "canceled" \in Errors /\ "canceled" # "ok"
    BY SMTT(30) DEF Errors
  <2>2. /\ Content(e', Out, In) /\ Settles(e, e', In)
        /\ Passes(e, e', {}, {k \in Key : e.rpcs[k] \in {call[c]}})
    BY <1>3, <2>1, FinishContent
  <2>3. Passes(e, e', {}, Key)
    BY <2>2 DEF Passes
  <2>4. LosesOne(e, e')
    BY <2>2, FinishLosesOne
  <2> QED BY <1>1, <2>2, <2>3, <2>4 DEF Evolves
<1> QED BY <1>1, <1>2, <1>3

\* Call returns (endpoint.go:198): its struct left the table before.
LEMMA ReturnContent ==
  ASSUME NEW Out, NEW In, Content(e, Out, In), NEW c, Return(c)
  PROVE  Evolves(Out, In, {}, {}, {}) /\ e'.rpcs = e.rpcs /\ nextID' = nextID
<1> DEFINE o == call[c]
           G == [e.rpc EXCEPT ![o] = Blank]
<1>1. e.rpc[o].result # <<>> /\ e' = [e EXCEPT !.rpc[o] = Blank] /\ net' = net
      /\ nextID' = nextID
  BY DEF Return
<1>2. Shaped(e) /\ e.rpc \in [Obj -> Rpc] /\ Formed(e)
  BY DEF Content, Formed
<1>3. G \in [Obj -> Rpc] /\ \A x \in Obj : G[x] = IF x = o THEN Blank ELSE e.rpc[x]
  BY <1>2, BlankType
<1>4. e' = [rpcs |-> e.rpcs, rpc |-> G, payload |-> e.payload,
            buffered |-> e.buffered, workers |-> e.workers]
  <2>1. e' = [e EXCEPT !.rpc = G]
    BY <1>1, <1>2 DEF Shaped
  <2> HIDE DEF G
  <2> QED BY <1>2, <2>1 DEF Shaped
<1> HIDE DEF G, o
<1>5. Formed(e') /\ e'.rpcs = e.rpcs /\ e'.rpc = G /\ e'.payload = e.payload
  BY <1>2, <1>3, <1>4 DEF Formed, Shaped
<1>6. ASSUME NEW k \in Key, e.rpcs[k] # Nil
      PROVE  e'.rpc[e.rpcs[k]] = e.rpc[e.rpcs[k]] /\ Holding(e.rpc[e.rpcs[k]], k, Out, In)
  <2>1. e.rpcs[k] \in Obj /\ Holding(e.rpc[e.rpcs[k]], k, Out, In)
    BY <1>6, Found DEF Filed
  <2>2. e.rpcs[k] # o
    BY <1>1, <2>1 DEF Holding
  <2> QED BY <1>3, <1>5, <2>1, <2>2
<1>7. ASSUME NEW x \in Obj, e.payload[x] > 0
      PROVE  e'.rpc[x] = e.rpc[x] /\ ~IsClient(e, x) /\ e.rpc[x].result = <<>>
  <2>1. ~IsClient(e, x) /\ e.rpc[x].result = <<>>
    BY <1>7 DEF Content
  <2>2. x # o
    BY <1>1, <2>1
  <2> QED BY <1>3, <1>5, <2>1, <2>2
<1>8. ASSUME NEW x \in Obj, e'.rpc[x].key = Nil
      PROVE  e'.rpc[x].rx = NoRx /\ e'.payload[x] = 0
  <2>1. CASE x = o
    <3>1. e'.rpc[x].rx = NoRx
      BY <1>3, <1>5, <2>1, BlankType
    <3>2. ~(e.payload[x] > 0)
      BY <1>1, <1>7, <2>1, SMTT(30)
    <3>3. e.payload[x] \in Nat
      BY <1>2 DEF Formed
    <3>4. e.payload[x] = 0
      BY <3>2, <3>3, SMTT(30)
    <3> QED BY <1>5, <3>1, <3>4
  <2>2. CASE x # o
    BY <1>3, <1>5, <1>8, <2>2 DEF Content
  <2> QED BY <2>1, <2>2
<1>9. Content(e', Out, In)
  <2>1. \A k \in Key : e'.rpcs[k] # Nil => Holding(e'.rpc[e'.rpcs[k]], k, Out, In)
    BY <1>5, <1>6
  <2>2. \A x \in Obj : e'.payload[x] > 0 => ~IsClient(e', x) /\ e'.rpc[x].result = <<>>
    BY <1>5, <1>7 DEF IsClient
  <2>3. Handles(e')
    BY <1>5, <1>6 DEF Content, Handles
  <2> QED BY <1>5, <1>8, <2>1, <2>2, <2>3 DEF Content
<1>10. Passes(e, e', {}, {})
  BY <1>5, <1>6, <1>7 DEF Passes
<1>11. Settles(e, e', In)
  BY <1>5 DEF Settles
<1> QED BY <1>1, <1>5, <1>9, <1>10, <1>11 DEF Evolves

\* The free struct o enters the table under k.
Enters(s, t, k, o, Out, In) ==
  /\ Formed(t)
  /\ o \in Obj /\ s.rpc[o].key = Nil
  /\ s.rpcs[k] = Nil
  /\ t.rpcs = [s.rpcs EXCEPT ![k] = o]
  /\ t.payload = s.payload
  /\ \A x \in Obj : x # o => t.rpc[x] = s.rpc[x]
  /\ Holding(t.rpc[o], k, Out, In)

\* An RPC that enters the table (Call, and data for a new request).
LEMMA EnterContent ==
  ASSUME NEW s, NEW t, NEW k \in Key, NEW o, NEW Out, NEW In, Content(s, Out, In),
         Enters(s, t, k, o, Out, In)
  PROVE  /\ Content(t, Out, In)
         /\ Passes(s, t, {k}, {}) /\ Settles(s, t, In)
         /\ \A j \in Key : s.rpcs[j] # o
<1>1. /\ Formed(t) /\ o \in Obj /\ s.rpc[o].key = Nil /\ s.rpcs[k] = Nil
      /\ t.rpcs = [s.rpcs EXCEPT ![k] = o] /\ t.payload = s.payload
      /\ Holding(t.rpc[o], k, Out, In)
  BY DEF Enters
<1>2. \A x \in Obj : x # o => t.rpc[x] = s.rpc[x]
  BY DEF Enters
<1>3. t.rpc[o].key = k /\ k # Nil /\ s.payload[o] = 0 /\ o # Nil /\ ~(0 > 0)
  <2>1. t.rpc[o].key = k
    BY <1>1 DEF Holding
  <2>2. s.payload[o] = 0
    BY <1>1 DEF Content
  <2>3. ~(0 > 0)
    BY SMTT(30)
  <2> QED BY <1>1, <2>1, <2>2, <2>3, KeyAssumption, SetAssumption
<1>4. t.rpcs[k] = o /\ \A j \in Key : j # k => t.rpcs[j] = s.rpcs[j]
  <2>1. s.rpcs \in [Key -> Obj \cup {Nil}]
    BY DEF Content, Formed
  <2> QED BY <1>1, <2>1
<1>5. ASSUME NEW j \in Key, s.rpcs[j] # Nil
      PROVE  /\ s.rpcs[j] # o /\ j # k /\ t.rpcs[j] = s.rpcs[j]
             /\ t.rpc[s.rpcs[j]] = s.rpc[s.rpcs[j]] /\ Holding(s.rpc[s.rpcs[j]], j, Out, In)
  <2>1. /\ s.rpcs[j] \in Obj /\ s.rpc[s.rpcs[j]].key = j /\ j # Nil
        /\ Holding(s.rpc[s.rpcs[j]], j, Out, In)
    <3>1. Filed(s, j, Out, In)
      BY <1>5, Found
    <3> QED BY <3>1 DEF Filed
  <2> QED BY <1>1, <1>2, <1>4, <1>5, <2>1
<1>6. ASSUME NEW x \in Obj, s.payload[x] > 0
      PROVE  t.rpc[x] = s.rpc[x]
  BY <1>2, <1>3, <1>6
<1>7. Content(t, Out, In)
  <2>1. ASSUME NEW j \in Key, t.rpcs[j] # Nil
        PROVE  Holding(t.rpc[t.rpcs[j]], j, Out, In)
    BY <1>1, <1>4, <1>5, <2>1
  <2>2. ASSUME NEW x \in Obj, t.rpc[x].key = Nil
        PROVE  t.rpc[x].rx = NoRx /\ t.payload[x] = 0
    <3>1. x # o
      BY <1>3, <2>2
    <3> QED BY <1>1, <1>2, <2>2, <3>1 DEF Content
  <2>3. ASSUME NEW x \in Obj, t.payload[x] > 0
        PROVE  ~IsClient(t, x) /\ t.rpc[x].result = <<>>
    <3>1. t.rpc[x] = s.rpc[x] /\ s.payload[x] > 0
      BY <1>1, <1>6, <2>3
    <3> QED BY <3>1 DEF Content, IsClient
  <2>4. ASSUME NEW j \in Key, t.rpcs[j] # Nil, t.payload[t.rpcs[j]] > 0
        PROVE  t.rpc[t.rpcs[j]].handling
    <3>1. t.rpcs[j] # o
      BY <1>1, <1>3, <2>4
    <3>2. t.rpcs[j] = s.rpcs[j]
      BY <1>4, <3>1
    <3> QED BY <1>1, <1>5, <2>4, <3>2 DEF Content, Handles
  <2> QED BY <1>1, <2>1, <2>2, <2>3, <2>4 DEF Content, Handles
<1>8. Passes(s, t, {k}, {})
  <2>1. \A j \in Key : t.rpcs[j] = s.rpcs[j] \/ (s.rpcs[j] = Nil /\ j \in {k})
    BY <1>1, <1>4
  <2> QED BY <1>5, <1>6, <2>1 DEF Passes
<1>9. Settles(s, t, In)
  BY <1>5 DEF Settles
<1>10. \A j \in Key : s.rpcs[j] # o
  BY <1>3, <1>5
<1> QED BY <1>7, <1>8, <1>9, <1>10

\* Call enters its request into the table and sends what is unscheduled
\* (endpoint.go:183).
LEMMA CallContent ==
  ASSUME NEW Out, NEW In, Content(e, Out, In), Lawful(Out), NEW c, NEW peer \in Peers,
         NEW msg \in Out[<<peer, nextID + 2>>], nextID \in Nat,
         e.rpcs[<<peer, nextID + 2>>] = Nil, Call(c, peer, msg)
  PROVE  /\ Evolves(Out, In, {<<peer, nextID + 2>>}, {}, {})
         /\ e'.rpcs[<<peer, nextID + 2>>] # Nil
<1> DEFINE k == <<peer, nextID + 2>>
           g == Lesser(msg.len, UnscheduledBytes)
           r == [Blank EXCEPT !.key = k, !.tx = msg, !.granted = Lesser(msg.len, UnscheduledBytes)]
<1>1. /\ nextID < 2 * MaxIds /\ net' = Emit(net, NewSegments(r))
      /\ \E o \in Free(e) : e' = [e EXCEPT !.rpcs[k] = o, !.rpc[o] = SendNew(r),
                                           !.buffered = @ + msg.len]
  BY DEF Call
<1>2. PICK o \in Free(e) : e' = [e EXCEPT !.rpcs[k] = o, !.rpc[o] = SendNew(r),
                                          !.buffered = @ + msg.len]
  BY <1>1
<1>3. k \in Key
  BY <1>1, ConfigAssumption, SMTT(30) DEF Key, Id
<1>4. msg \in Msg /\ g \in Nat
  <2>1. msg \in Messages(MaxMessageSize)
    BY <1>3 DEF Lawful
  <2> QED BY <2>1, ConfigAssumption, SMTT(30) DEF Messages, Msg, Lesser
<1>5. r = [Blank EXCEPT !.key = k, !.tx = msg, !.granted = g]
  OBVIOUS
<1> HIDE DEF r, g, k
<1>6. /\ r \in Rpc /\ r.key = k /\ r.tx = msg /\ r.rx = NoRx /\ r.result = <<>>
      /\ ~r.received /\ ~r.handling /\ ~r.expired
  BY <1>3, <1>4, <1>5, BlankType DEF Rpc
<1>7. Assembles(NoRx, In[k])
  BY DEF Assembles, NoRx
<1>8. Holding(r, k, Out, In)
  BY <1>6, <1>7 DEF Holding, k
<1>9. SendNew(r) \in Rpc /\ Holding(SendNew(r), k, Out, In)
  BY <1>6, <1>8, SendNewHolding
<1>10. /\ Shaped(e) /\ e.rpcs \in [Key -> Obj \cup {Nil}] /\ e.rpc \in [Obj -> Rpc]
       /\ e.payload \in [Obj -> Nat]
  BY DEF Content, Formed
<1>11. o \in Obj /\ e.rpc[o].key = Nil
  BY DEF Free
<1> DEFINE F == [e.rpcs EXCEPT ![k] = o]
           G == [e.rpc EXCEPT ![o] = SendNew(r)]
           b == e.buffered + msg.len
<1>12. /\ F \in [Key -> Obj \cup {Nil}] /\ G \in [Obj -> Rpc] /\ G[o] = SendNew(r)
       /\ \A x \in Obj : x # o => G[x] = e.rpc[x]
       /\ F[k] = o
  BY <1>3, <1>9, <1>10, <1>11
<1>13. e' = [rpcs |-> F, rpc |-> G, payload |-> e.payload, buffered |-> b, workers |-> e.workers]
  <2>1. e' = [e EXCEPT !.rpcs = F, !.rpc = G, !.buffered = e.buffered + msg.len]
    BY <1>2, <1>10 DEF Shaped
  <2> HIDE DEF F, G
  <2> QED BY <1>10, <2>1 DEF Shaped
<1>14. Enters(e, e', k, o, Out, In)
  <2> HIDE DEF G, b
  <2>1. /\ Formed(e') /\ e'.rpcs = [e.rpcs EXCEPT ![k] = o] /\ e'.rpc = G
        /\ e'.payload = e.payload
    <3>1. F = [e.rpcs EXCEPT ![k] = o]
      OBVIOUS
    <3> HIDE DEF F
    <3> QED BY <1>10, <1>12, <1>13, <3>1 DEF Formed, Shaped
  <2> HIDE DEF F
  <2>2. e.rpcs[k] = Nil
    BY DEF k
  <2> QED BY <1>9, <1>11, <1>12, <2>1, <2>2 DEF Enters
<1>15. Content(e', Out, In) /\ Passes(e, e', {k}, {}) /\ Settles(e, e', In)
  BY <1>3, <1>14, EnterContent
<1>16. e'.rpcs[k] # Nil
  BY <1>11, <1>12, <1>13, SetAssumption
<1>17. \A q \in NewSegments(r) : Sends(q, e', Out, {} \cup Served(e) \cup Served(e'))
  <2>1. k \in {} \cup Served(e) \cup Served(e')
    BY <1>3, <1>16 DEF Served
  <2>2. r.tx \in Out[k]
    BY <1>6 DEF k
  <2>3. \A q \in NewSegments(r) : Bears(q, k, Out)
    BY <1>3, <1>6, <2>2, SegmentsBear
  <2> QED BY <2>1, <2>3, BearsSends
<1>18. Evolves(Out, In, {k}, {}, {})
  BY <1>1, <1>15, <1>17, EvolvesBy
<1> QED BY <1>16, <1>18 DEF k

\* A step that leaves the payloads as they are starts no handler.
LEMMA NeverStarts ==
  ASSUME NEW s, NEW t, NEW In, NEW seen, t.payload = s.payload
  PROVE  Starts(s, t, In, seen)
<1>1. ~(0 > 0)
  BY SMTT(30)
<1>2. \A o \in Obj : ~(s.payload[o] = 0 /\ t.payload[o] > 0)
  BY <1>1
<1> QED BY <1>2 DEF Starts

-----------------------------------------------------------------------------
(* Receiving control packets. *)

\* The struct under the key k becomes q, and X is sent.
Updates(k, q, X, Out, In) ==
  /\ e.rpcs[k] # Nil
  /\ e' = [e EXCEPT !.rpc[e.rpcs[k]] = q]
  /\ q \in Rpc /\ Holding(q, k, Out, In)
  /\ q.handling = e.rpc[e.rpcs[k]].handling
  /\ net' = Emit(net, X)

\* A step that changes one struct of the table and starts nothing.
LEMMA UpdateContent ==
  ASSUME NEW Out, NEW In, Content(e, Out, In), NEW k \in Key, NEW q, NEW X, NEW K,
         Updates(k, q, X, Out, In),
         \A x \in X : Sends(x, e', Out, K \cup Served(e) \cup Served(e'))
  PROVE  Evolves(Out, In, {}, {}, K) /\ e'.payload = e.payload
<1> DEFINE o == e.rpcs[k]
           G == [e.rpc EXCEPT ![o] = q]
<1>1. /\ o # Nil /\ e' = [e EXCEPT !.rpc[o] = q] /\ q \in Rpc /\ Holding(q, k, Out, In)
      /\ q.handling = e.rpc[o].handling /\ net' = Emit(net, X)
  BY DEF Updates
<1>2. /\ Shaped(e) /\ Formed(e) /\ e.rpc \in [Obj -> Rpc] /\ e.payload \in [Obj -> Nat]
  BY DEF Content, Formed
<1>3. o \in Obj /\ e.rpc[o].key = k /\ q.key = k
  <2>1. Filed(e, k, Out, In)
    BY <1>1, Found
  <2> QED BY <1>1, <2>1 DEF Filed, Holding
<1> HIDE DEF o
<1>4. G \in [Obj -> Rpc] /\ G[o] = q /\ \A x \in Obj : x # o => G[x] = e.rpc[x]
  BY <1>1, <1>2, <1>3
<1>5. e' = [rpcs |-> e.rpcs, rpc |-> G, payload |-> e.payload, buffered |-> e.buffered,
            workers |-> e.workers]
  <2>1. e' = [e EXCEPT !.rpc = G]
    BY <1>1, <1>2 DEF Shaped
  <2> HIDE DEF G
  <2> QED BY <1>2, <2>1 DEF Shaped
<1> HIDE DEF G
<1>6. Formed(e') /\ e'.rpcs = e.rpcs /\ e'.rpc = G /\ e'.payload = e.payload
  BY <1>2, <1>4, <1>5 DEF Formed, Shaped
<1>7. Content(e', Out, In)
  <2>1. \A x \in Obj : x # e.rpcs[k] => e'.rpc[x] = e.rpc[x]
    BY <1>4, <1>6 DEF o
  <2>2. Holding(e'.rpc[e.rpcs[k]], k, Out, In) /\ e.rpcs[k] # Nil
    BY <1>1, <1>4, <1>6 DEF o
  <2>3. e.rpc[e.rpcs[k]].handling => e'.rpc[e.rpcs[k]].handling
    BY <1>1, <1>4, <1>6 DEF o
  <2>4. Replaces(e, e', k, Out, In)
    BY <1>6, <2>1, <2>2, <2>3 DEF Replaces
  <2> QED BY <2>4, ReplaceContent
<1>8. Passes(e, e', {}, {}) /\ Settles(e, e', In)
  <2>1. Tunes(e, e')
    BY <1>1, <1>3, <1>4, <1>6 DEF Tunes
  <2> QED BY <2>1, TunesPasses
<1> QED BY <1>1, <1>6, <1>7, <1>8, EvolvesBy

\* A GRANT lets more of the message be sent (endpoint.go:515).
LEMMA GrantContent ==
  ASSUME NEW Out, NEW In, Content(e, Out, In), Lawful(Out), NEW p, Brings(p, In), ReceiveGrant(p)
  PROVE  Evolves(Out, In, {}, {}, {}) /\ e'.payload = e.payload
<1> DEFINE k == KeyOf(p)
           o == e.rpcs[k]
           g == Lesser(p.off, e.rpc[o].tx.len)
           r == [e.rpc[o] EXCEPT !.granted = Lesser(p.off, e.rpc[o].tx.len)]
<1>1. /\ p.type = "GRANT" /\ o # Nil /\ e' = [e EXCEPT !.rpc[o] = SendNew(r)]
      /\ net' = Emit(net, NewSegments(r))
  BY DEF ReceiveGrant, Arrives
<1>2. k \in Key /\ p.off \in Nat
  BY <1>1 DEF Brings
<1> HIDE DEF k
<1>3. o \in Obj /\ e.rpc[o] \in Rpc /\ Holding(e.rpc[o], k, Out, In)
  <2>1. Filed(e, k, Out, In)
    BY <1>1, <1>2, Found
  <2> QED BY <2>1 DEF Filed
<1>4. g \in Nat
  <2>1. e.rpc[o].tx.len \in Nat
    BY <1>3 DEF Rpc, Msg
  <2> HIDE DEF o
  <2> QED BY <1>2, <2>1, SMTT(30) DEF Lesser
<1>5. r = [e.rpc[o] EXCEPT !.granted = g]
  OBVIOUS
<1> HIDE DEF o, g, r
<1>6. /\ r \in Rpc /\ r.key = e.rpc[o].key /\ r.tx = e.rpc[o].tx /\ r.rx = e.rpc[o].rx
      /\ r.received = e.rpc[o].received /\ r.handling = e.rpc[o].handling
      /\ r.expired = e.rpc[o].expired /\ r.result = e.rpc[o].result
  BY <1>3, <1>4, <1>5 DEF Rpc
<1>7. Holding(r, k, Out, In)
  BY <1>3, <1>6 DEF Holding
<1>8. /\ SendNew(r) \in Rpc /\ Holding(SendNew(r), k, Out, In)
      /\ SendNew(r).handling = e.rpc[o].handling
  BY <1>6, <1>7, SendNewHolding
<1>9. Updates(k, SendNew(r), NewSegments(r), Out, In)
  BY <1>1, <1>8 DEF Updates, o
<1>10. \A q \in NewSegments(r) : Sends(q, e', Out, {} \cup Served(e) \cup Served(e'))
  <2>1. k \in {} \cup Served(e) \cup Served(e')
    BY <1>1, <1>2 DEF Served, o
  <2>2. r.key = k /\ (r.tx = NoMsg \/ r.tx \in Out[k])
    BY <1>7 DEF Holding
  <2>3. \A q \in NewSegments(r) : Bears(q, k, Out)
    BY <1>2, <1>6, <2>2, SegmentsBear
  <2> QED BY <2>1, <2>3, BearsSends
<1> QED BY <1>2, <1>9, <1>10, UpdateContent

\* A RESEND is answered with bytes of the message, with BUSY, or with
\* RPC_UNKNOWN if the RPC is not in the table (endpoint.go:526).
LEMMA ResendContent ==
  ASSUME NEW Out, NEW In, Content(e, Out, In), Lawful(Out), NEW p, Brings(p, In), ReceiveResend(p)
  PROVE  Evolves(Out, In, {}, {}, {KeyOf(p)}) /\ e'.payload = e.payload
<1> DEFINE k == KeyOf(p)
           o == e.rpcs[k]
           r == e.rpc[o]
           end == IF p.n = ResendAll THEN r.sent ELSE Lesser(r.tx.len, p.off + p.n)
           g == [r EXCEPT !.granted = end]
           after == IF end > r.granted THEN SendNew(g) ELSE r
           K == {k} \cup Served(e) \cup Served(e')
<1>1. p.type = "RESEND" /\ (ResendUnknown(p) \/ ResendBusy(p) \/ ResendBytes(p))
  BY DEF ReceiveResend, Arrives
<1>2. k \in Key /\ p.off \in Nat /\ p.n \in Nat
  BY <1>1 DEF Brings
<1>3. k \in K
  OBVIOUS
<1>4. CASE ResendUnknown(p)
  <2>1. e' = e /\ net' = Emit(net, {Control("RPC_UNKNOWN", k)}) /\ e'.rpcs[k] = Nil
    BY <1>4 DEF ResendUnknown
  <2> HIDE DEF k, K
  <2>2. Sends(Control("RPC_UNKNOWN", k), e', Out, K)
    BY <1>2, <1>3, <2>1, ControlSends
  <2>3. Content(e', Out, In) /\ Passes(e, e', {}, {}) /\ Settles(e, e', In)
        /\ e'.payload = e.payload
    BY <2>1, IdleEvolves
  <2> DEFINE X == {Control("RPC_UNKNOWN", k)}
  <2>4. \A q \in X : Sends(q, e', Out, {k} \cup Served(e) \cup Served(e'))
    BY <2>2 DEF K
  <2>5. net' = Emit(net, X)
    BY <2>1
  <2> HIDE DEF X
  <2>6. Evolves(Out, In, {}, {}, {k})
    BY <2>3, <2>4, <2>5, EvolvesBy
  <2> QED BY <2>3, <2>6 DEF k
<1>5. CASE ResendBusy(p)
  <2>1. e' = e /\ net' = Emit(net, {Control("BUSY", k)})
    BY <1>5 DEF ResendBusy
  <2> HIDE DEF k, K
  <2>2. Sends(Control("BUSY", k), e', Out, K)
    BY <1>2, <1>3, ControlSends
  <2>3. Content(e', Out, In) /\ Passes(e, e', {}, {}) /\ Settles(e, e', In)
        /\ e'.payload = e.payload
    BY <2>1, IdleEvolves
  <2> DEFINE X == {Control("BUSY", k)}
  <2>4. \A q \in X : Sends(q, e', Out, {k} \cup Served(e) \cup Served(e'))
    BY <2>2 DEF K
  <2>5. net' = Emit(net, X)
    BY <2>1
  <2> HIDE DEF X
  <2>6. Evolves(Out, In, {}, {}, {k})
    BY <2>3, <2>4, <2>5, EvolvesBy
  <2> QED BY <2>3, <2>6 DEF k
<1>6. CASE ResendBytes(p)
  <2> DEFINE X1 == Resend(r, p.off, end)
             X2 == IF end > r.granted THEN NewSegments(g) ELSE {}
             X3 == IF p.off >= after.sent THEN {Control("BUSY", r.key)} ELSE {}
  <2>1. o # Nil /\ e' = [e EXCEPT !.rpc[o] = after] /\ net' = Emit(net, X1 \cup X2 \cup X3)
    BY <1>6 DEF ResendBytes
  <2> HIDE DEF k, K, after
  <2>2. r \in Rpc /\ Holding(r, k, Out, In) /\ r.key = k
    <3>1. Filed(e, k, Out, In)
      BY <1>2, <2>1, Found
    <3> QED BY <3>1 DEF Filed
  <2>3. end \in Nat
    <3>1. r.tx.len \in Nat /\ r.sent \in Nat
      BY <2>2 DEF Rpc, Msg
    <3> HIDE DEF r
    <3> QED BY <1>2, <3>1, SMTT(30) DEF Lesser
  <2> HIDE DEF o, end
  <2>4. /\ g \in Rpc /\ g.key = r.key /\ g.tx = r.tx /\ g.rx = r.rx
        /\ g.received = r.received /\ g.handling = r.handling
        /\ g.expired = r.expired /\ g.result = r.result
    BY <2>2, <2>3 DEF Rpc
  <2> HIDE DEF g, r
  <2>5. Holding(g, k, Out, In)
    BY <2>2, <2>4 DEF Holding
  <2>6. after \in Rpc /\ Holding(after, k, Out, In) /\ after.handling = r.handling
    <3>1. /\ SendNew(g) \in Rpc /\ Holding(SendNew(g), k, Out, In)
          /\ SendNew(g).handling = r.handling
      BY <2>4, <2>5, SendNewHolding
    <3> QED BY <2>2, <3>1 DEF after
  <2>7. Updates(k, after, X1 \cup X2 \cup X3, Out, In)
    <3> HIDE DEF X1, X2, X3
    <3> QED BY <2>1, <2>6 DEF Updates, o, r
  <2>8. \A q \in X1 : Sends(q, e', Out, K)
    <3>1. r.tx = NoMsg \/ r.tx \in Out[k]
      BY <2>2 DEF Holding
    <3>2. \A q \in X1 : Bears(q, k, Out)
      BY <1>2, <2>2, <2>3, <3>1, SegmentsBear
    <3> QED BY <1>3, <3>2, BearsSends
  <2>9. \A q \in X2 : Sends(q, e', Out, K)
    <3>1. g.key = k /\ (g.tx = NoMsg \/ g.tx \in Out[k])
      BY <2>5 DEF Holding
    <3>2. \A q \in NewSegments(g) : Bears(q, k, Out)
      BY <1>2, <2>3, <2>4, <3>1, SegmentsBear
    <3>3. \A q \in NewSegments(g) : Sends(q, e', Out, K)
      BY <1>3, <3>2, BearsSends
    <3> QED BY <3>3
  <2>10. \A q \in X3 : Sends(q, e', Out, K)
    <3>1. Sends(Control("BUSY", k), e', Out, K)
      BY <1>2, <1>3, ControlSends
    <3> QED BY <2>2, <3>1
  <2> HIDE DEF X1, X2, X3
  <2>11. \A q \in X1 \cup X2 \cup X3 : Sends(q, e', Out, {k} \cup Served(e) \cup Served(e'))
    BY <2>8, <2>9, <2>10 DEF K
  <2> QED BY <1>2, <2>7, <2>11, UpdateContent DEF k
<1> QED BY <1>1, <1>4, <1>5, <1>6

\* A request leaves the table.
LEMMA DropContent ==
  ASSUME NEW s, NEW Out, NEW In, Content(s, Out, In), NEW k \in Key, s.rpcs[k] # Nil,
         ~IsClientID(k[2])
  PROVE  LET t == Remove(s, {s.rpcs[k]}) IN
         /\ Content(t, Out, In) /\ Passes(s, t, {}, {k}) /\ Settles(s, t, In)
         /\ t.payload = s.payload /\ t.rpcs[k] = Nil
<1> DEFINE t == Remove(s, {s.rpcs[k]})
<1>1. Without(s, {s.rpcs[k]}, t)
  BY RemoveFields DEF Content
<1> HIDE DEF t
<1>2. Content(t, Out, In) /\ Passes(s, t, {}, {j \in Key : s.rpcs[j] \in {s.rpcs[k]}})
  BY <1>1, WithoutContent
<1>3. t.rpcs = [j \in Key |-> IF s.rpcs[j] \in {s.rpcs[k]} THEN Nil ELSE s.rpcs[j]]
      /\ t.payload = s.payload
  BY <1>1 DEF Without
<1>4. Filed(s, k, Out, In)
  BY Found
<1>5. {j \in Key : s.rpcs[j] \in {s.rpcs[k]}} = {k}
  BY <1>4 DEF Filed
<1>6. Settles(s, t, In)
  <2>1. \A j \in Key : s.rpcs[j] # Nil /\ t.rpcs[j] = Nil => j = k
    BY <1>3, <1>4 DEF Filed
  <2> QED BY <2>1 DEF Settles
<1>7. t.rpcs[k] = Nil
  BY <1>3
<1> QED BY <1>2, <1>3, <1>5, <1>6, <1>7 DEF t

\* RPC_UNKNOWN drops a request; a call sends its request again
\* (endpoint.go:561).
LEMMA UnknownContent ==
  ASSUME NEW Out, NEW In, Content(e, Out, In), Lawful(Out), NEW p, Brings(p, In), ReceiveUnknown(p)
  PROVE  Evolves(Out, In, {}, {KeyOf(p)}, {}) /\ e'.payload = e.payload
<1> DEFINE k == KeyOf(p)
           o == e.rpcs[k]
<1>1. /\ o # Nil
      /\ \/ ~IsClient(e, o) /\ e' = Remove(e, {o}) /\ net' = net
         \/ e' = e /\ net' = Emit(net, Resend(e.rpc[o], 0, e.rpc[o].sent))
  BY DEF ReceiveUnknown
<1>2. k \in Key
  BY DEF Brings
<1>3. /\ e.rpc[o] \in Rpc /\ e.rpc[o].key = k /\ Holding(e.rpc[o], k, Out, In)
  <2>1. Filed(e, k, Out, In)
    BY <1>1, <1>2, Found
  <2> QED BY <2>1 DEF Filed
<1> HIDE DEF k
<1>4. CASE ~IsClient(e, o) /\ e' = Remove(e, {o}) /\ net' = net
  <2>1. ~IsClientID(k[2])
    BY <1>3, <1>4 DEF IsClient
  <2>2. /\ Content(e', Out, In) /\ Passes(e, e', {}, {k}) /\ Settles(e, e', In)
        /\ e'.payload = e.payload
    BY <1>1, <1>2, <1>4, <2>1, DropContent
  <2> QED BY <1>4, <2>2 DEF Evolves, k
<1>5. CASE e' = e /\ net' = Emit(net, Resend(e.rpc[o], 0, e.rpc[o].sent))
  <2>1. /\ Content(e', Out, In) /\ Passes(e, e', {}, {}) /\ Settles(e, e', In)
        /\ e'.payload = e.payload
    BY <1>5, IdleEvolves
  <2>2. Passes(e, e', {}, {k})
    BY <2>1 DEF Passes
  <2>3. \A q \in Resend(e.rpc[o], 0, e.rpc[o].sent) :
           Sends(q, e', Out, {} \cup Served(e) \cup Served(e'))
    <3>1. k \in {} \cup Served(e) \cup Served(e')
      BY <1>1, <1>2 DEF Served
    <3>2. e.rpc[o].tx = NoMsg \/ e.rpc[o].tx \in Out[k]
      BY <1>3 DEF Holding
    <3>3. e.rpc[o].sent \in Nat
      BY <1>3 DEF Rpc
    <3>4. \A q \in Resend(e.rpc[o], 0, e.rpc[o].sent) : Bears(q, k, Out)
      BY <1>2, <1>3, <3>2, <3>3, SegmentsBear
    <3> QED BY <3>1, <3>4, BearsSends
  <2> QED BY <1>5, <2>1, <2>2, <2>3, EvolvesBy DEF k
<1> QED BY <1>1, <1>4, <1>5

\* NEED_ACK is acknowledged if the call is over; otherwise the client asks for
\* what it lacks (endpoint.go:571).
LEMMA NeedAckContent ==
  ASSUME NEW Out, NEW In, Content(e, Out, In), Numbers, NEW p, Brings(p, In), ReceiveNeedAck(p)
  PROVE  Evolves(Out, In, {}, {}, {KeyOf(p)}) /\ e'.payload = e.payload
<1> DEFINE k == KeyOf(p)
           o == e.rpcs[k]
           X == IF o = Nil THEN {Control("ACK", k)}
                ELSE IF e.rpc[o].received THEN {Control("ACK", k)}
                ELSE RequestMissing(e.rpc[o])
           K == {k} \cup Served(e) \cup Served(e')
<1>1. IsClientID(k[2]) /\ e' = e /\ net' = Emit(net, X)
  BY DEF ReceiveNeedAck
<1>2. k \in Key
  BY DEF Brings
<1>3. Content(e', Out, In) /\ Passes(e, e', {}, {}) /\ Settles(e, e', In)
  BY <1>1, IdleEvolves
<1>4. k \in K
  OBVIOUS
<1> HIDE DEF k, K
<1>5. ASSUME NEW q \in X PROVE Sends(q, e', Out, K)
  <2>1. CASE o = Nil
    <3>1. q = Control("ACK", k) /\ e'.rpcs[k] = Nil
      BY <1>1, <1>5, <2>1
    <3>2. Sends(Control("ACK", k), e', Out, K)
      BY <1>2, <1>4, <3>1, ControlSends
    <3> QED BY <3>1, <3>2
  <2>2. CASE o # Nil
    <3>1. /\ e.rpc[o] \in Rpc /\ e.rpc[o].key = k /\ Holding(e.rpc[o], k, Out, In)
      <4>1. Filed(e, k, Out, In)
        BY <1>2, <2>2, Found
      <4> QED BY <4>1 DEF Filed
    <3>2. ~e.rpc[o].received /\ Assembles(e.rpc[o].rx, In[k])
      BY <1>1, <3>1 DEF Holding
    <3>3. q \in RequestMissing(e.rpc[o])
      BY <1>5, <2>2, <3>2
    <3> HIDE DEF o
    <3> QED BY <1>2, <1>4, <3>1, <3>2, <3>3, MissingSends
  <2> QED BY <2>1, <2>2
<1> HIDE DEF X
<1>6. \A q \in X : Sends(q, e', Out, {k} \cup Served(e) \cup Served(e'))
  BY <1>5 DEF K
<1> QED BY <1>1, <1>3, <1>6, EvolvesBy DEF k

\* A packet without acknowledgements acknowledges nothing.
LEMMA AckedByNothing ==
  ASSUME NEW s, NEW ip, NEW R \in AckedBy(s, ip, {})
  PROVE  R = {}
<1> DEFINE match(id) == {o \in Live(s) : s.rpc[o].key[1][1] = ip
                                         /\ s.rpc[o].key[2] = LocalID(id)}
           hit == {id \in {} : IsClientID(id) /\ match(id) # {}}
<1>1. PICK pick : R = {pick[id] : id \in hit}
  BY DEF AckedBy
<1>2. hit = {}
  OBVIOUS
<1> QED BY <1>1, <1>2

\* Steps one after the other.
LEMMA PassesThrough ==
  ASSUME NEW r, NEW s, NEW t, NEW In, NEW Enter, NEW Leave,
         Passes(r, s, Enter, {}), Passes(s, t, {}, Leave), s.payload = r.payload,
         Settles(s, t, In)
  PROVE  Passes(r, t, Enter, Leave) /\ Settles(r, t, In)
<1>1. \A k \in Key : s.rpcs[k] = r.rpcs[k] \/ (r.rpcs[k] = Nil /\ k \in Enter)
  BY DEF Passes
<1>2. \A k \in Key : t.rpcs[k] = s.rpcs[k] \/ (t.rpcs[k] = Nil /\ k \in Leave)
  BY DEF Passes
<1>3. \A k \in Key : \/ t.rpcs[k] = r.rpcs[k]
                     \/ t.rpcs[k] = Nil /\ k \in Leave
                     \/ r.rpcs[k] = Nil /\ k \in Enter
  BY <1>1, <1>2
<1>4. ASSUME NEW k \in Key, r.rpcs[k] # Nil, t.rpcs[k] = r.rpcs[k], r.rpc[r.rpcs[k]].handling
      PROVE  t.rpc[r.rpcs[k]].handling
  <2>1. s.rpcs[k] = r.rpcs[k]
    BY <1>1, <1>4
  <2>2. s.rpc[r.rpcs[k]].handling
    BY <1>4, <2>1 DEF Passes
  <2> QED BY <1>4, <2>1, <2>2 DEF Passes
<1>5. ASSUME NEW o \in Obj, r.payload[o] > 0, t.payload[o] > 0
      PROVE  t.rpc[o].key = r.rpc[o].key
  <2>1. s.payload[o] > 0
    BY <1>5
  <2>2. s.rpc[o].key = r.rpc[o].key
    BY <1>5, <2>1 DEF Passes
  <2>3. t.rpc[o].key = s.rpc[o].key
    BY <1>5, <2>1 DEF Passes
  <2> QED BY <2>2, <2>3
<1>6. Settles(r, t, In)
  <2>1. \A k \in Key : r.rpcs[k] # Nil => s.rpcs[k] = r.rpcs[k]
    BY <1>1
  <2> QED BY <2>1 DEF Settles
<1> QED BY <1>3, <1>4, <1>5, <1>6 DEF Passes

\* An ACK drops the request that it acknowledges (endpoint.go:581).
LEMMA AckContent ==
  ASSUME NEW Out, NEW In, Content(e, Out, In), NEW p, Brings(p, In), ReceiveAck(p)
  PROVE  Evolves(Out, In, {}, {KeyOf(p)}, {}) /\ e'.payload = e.payload
<1> DEFINE k == KeyOf(p)
           s == Remove(e, {e.rpcs[k]} \ {Nil})
<1>1. /\ p.type = "ACK" /\ ~IsClientID(k[2]) /\ net' = net
      /\ \E R \in AckedBy(s, p.src[1], p.acks) : e' = Remove(s, R)
  BY DEF ReceiveAck, Arrives
<1>2. k \in Key /\ p.acks = {}
  BY <1>1 DEF Brings
<1>3. e' = Remove(s, {})
  BY <1>1, <1>2, AckedByNothing
<1> HIDE DEF k
<1>4. /\ Content(s, Out, In) /\ Passes(e, s, {}, {k}) /\ Settles(e, s, In)
      /\ s.payload = e.payload
  <2>1. CASE e.rpcs[k] = Nil
    <3>1. s = Remove(e, {})
      BY <2>1
    <3>2. Content(s, Out, In) /\ Same(e, s)
      BY <3>1, RemoveNothing
    <3> HIDE DEF s
    <3>3. Tunes(e, s)
      BY <3>2 DEF Same, Tunes
    <3>4. Passes(e, s, {}, {}) /\ Settles(e, s, In)
      BY <3>3, TunesPasses
    <3>5. Passes(e, s, {}, {k})
      BY <3>4 DEF Passes
    <3> QED BY <3>2, <3>4, <3>5 DEF Same
  <2>2. CASE e.rpcs[k] # Nil
    <3>1. s = Remove(e, {e.rpcs[k]})
      <4>1. {e.rpcs[k]} \ {Nil} = {e.rpcs[k]}
        BY <2>2
      <4> QED BY <4>1
    <3>2. LET t == Remove(e, {e.rpcs[k]}) IN
          /\ Content(t, Out, In) /\ Passes(e, t, {}, {k}) /\ Settles(e, t, In)
          /\ t.payload = e.payload
      BY <1>1, <1>2, <2>2, DropContent
    <3> HIDE DEF s
    <3> QED BY <3>1, <3>2
  <2> QED BY <2>1, <2>2
<1> HIDE DEF s
<1>5. Content(e', Out, In) /\ Same(s, e')
  BY <1>3, <1>4, RemoveNothing
<1>6. Passes(e, e', {}, {k}) /\ Settles(e, e', In)
  <2>1. e'.rpcs = s.rpcs /\ e'.rpc = s.rpc /\ e'.payload = s.payload
    BY <1>5 DEF Same
  <2>2. Passes(e, e', {}, {k})
    BY <1>4, <2>1 DEF Passes
  <2>3. Settles(e, e', In)
    BY <1>4, <2>1 DEF Settles
  <2> QED BY <2>2, <2>3
<1>7. e'.payload = e.payload
  BY <1>4, <1>5 DEF Same
<1> QED BY <1>1, <1>5, <1>6, <1>7 DEF Evolves, k

-----------------------------------------------------------------------------
(* Receiving data. *)

\* The buffer that data writes to (endpoint.go:630).
Opened(a, p) ==
  IF a.len > 0 THEN a ELSE [len |-> p.len, data |-> NoBytes, granted |-> p.incoming]

\* A segment of a message adds bytes of this message to the buffer and keeps
\* the bytes that it had (endpoint.go: data).
LEMMA FillAssembles ==
  ASSUME NEW M, M \subseteq Messages(MaxMessageSize), NEW a \in Rx, Assembles(a, M),
         NEW p, Carries(p, M), ValidData(p), a.len > 0 => Fits(a, p)
  PROVE  LET c == Fill(Opened(a, p), p) IN
         /\ c \in Rx /\ Assembles(c, M) /\ c.len = p.len /\ p.len > 0
         /\ c.data = Fill(a, p).data
         /\ Count(c) = p.len => Complete(c, M)
<1> DEFINE b == Opened(a, p)
           D == [i \in DOMAIN b.data \cup Span(p) |->
                   IF i \in DOMAIN b.data THEN b.data[i] ELSE p.body]
           g == Greater(b.granted, p.incoming)
           c == Fill(b, p)
<1>1. PICK m \in M : p.len = m.len /\ p.body = m.body
  BY DEF Carries
<1>2. m.len \in 1 .. MaxMessageSize /\ m.body \in Bodies
  BY <1>1 DEF Messages
<1>3. /\ p.off \in Nat /\ p.n \in Int /\ p.incoming \in Nat
      /\ p.off + p.n <= p.len /\ p.n > 0
  BY DEF Carries, ValidData
<1>4. p.len \in Nat /\ p.len > 0 /\ p.len <= MaxMessageSize /\ p.body \in Bodies
  BY <1>1, <1>2, ConfigAssumption, SMTT(30)
<1>5. Span(p) \subseteq 0 .. p.len - 1
  BY <1>3, <1>4, SMTT(30) DEF Span
<1>6. /\ b \in Rx /\ b.len = p.len /\ DOMAIN b.data \subseteq 0 .. p.len - 1
      /\ \A x \in DOMAIN b.data : \E n \in M : b.data[x] = n.body
      /\ b.data = a.data
  <2>1. a.len \in Nat /\ a.data \in Data /\ a.granted \in Nat
    BY DEF Rx
  <2>2. CASE a.len > 0
    <3>1. b = a /\ a.len = p.len
      BY <2>2 DEF Opened, Fits
    <3>2. a.len # 0
      BY <2>1, <2>2, SMTT(30)
    <3>3. /\ DOMAIN a.data \subseteq 0 .. a.len - 1
          /\ \A x \in DOMAIN a.data : \E n \in M : a.data[x] = n.body
      BY <3>2 DEF Assembles
    <3> HIDE DEF b
    <3> QED BY <3>1, <3>3
  <2>3. CASE ~(a.len > 0)
    <3>1. b = [len |-> p.len, data |-> NoBytes, granted |-> p.incoming]
      BY <2>3 DEF Opened
    <3>2. a.data = NoBytes
      <4>1. CASE a.len = 0 /\ a.data = NoBytes
        BY <4>1, SMTT(30)
      <4>2. CASE \E n \in M : a.len = n.len
        <5>1. \A n \in M : n.len \in 1 .. MaxMessageSize
          BY DEF Messages
        <5>2. PICK n \in M : a.len = n.len
          BY <4>2
        <5>3. a.len \in 1 .. MaxMessageSize
          BY <5>1, <5>2
        <5> QED BY <2>3, <5>3, ConfigAssumption, SMTT(30)
      <4> QED BY <4>1, <4>2 DEF Assembles
    <3>3. DOMAIN NoBytes = {}
      BY DEF NoBytes
    <3> HIDE DEF b
    <3>4. b \in Rx
      BY <1>3, <1>4, <3>1, BlankType DEF Rx
    <3> QED BY <3>1, <3>2, <3>3, <3>4
  <2> QED BY <2>2, <2>3
<1>7. c = [b EXCEPT !.data = D, !.granted = g]
  BY <1>6 DEF Fill, Rx
<1>8. Fill(a, p).data = D
  <2> DEFINE h == Greater(a.granted, p.incoming)
             E == [i \in DOMAIN a.data \cup Span(p) |->
                     IF i \in DOMAIN a.data THEN a.data[i] ELSE p.body]
  <2>1. Fill(a, p) = [a EXCEPT !.data = E, !.granted = h]
    BY DEF Fill, Rx
  <2>2. E = D
    <3> HIDE DEF b
    <3> QED BY <1>6
  <2> HIDE DEF E, h, D
  <2>3. Fill(a, p).data = E
    BY <2>1 DEF Rx
  <2> QED BY <2>2, <2>3
<1> HIDE DEF b, c
<1>9. /\ DOMAIN D \subseteq 0 .. p.len - 1
      /\ \A x \in DOMAIN D : \E n \in M : D[x] = n.body
      /\ D = [i \in DOMAIN D |-> D[i]]
  BY <1>1, <1>5, <1>6
<1>10. D \in Data
  <2> HIDE DEF D
  <2>1. DOMAIN D \subseteq 0 .. MaxMessageSize - 1
    BY <1>4, <1>9, ConfigAssumption, SMTT(30)
  <2>2. \A i \in DOMAIN D : D[i] \in Bodies
    BY <1>9 DEF Messages
  <2> QED BY <1>9, <2>1, <2>2, DataType
<1>11. g \in Nat
  <2>1. b.granted \in Nat
    BY <1>6 DEF Rx
  <2> QED BY <1>3, <2>1, SMTT(30) DEF Greater
<1> HIDE DEF D, g
<1>12. c \in Rx /\ c.len = p.len /\ c.data = D
  BY <1>6, <1>7, <1>10, <1>11 DEF Rx
<1>13. Assembles(c, M)
  BY <1>1, <1>9, <1>12 DEF Assembles
<1>14. Count(c) = p.len => Complete(c, M)
  BY <1>4, <1>12, <1>13 DEF Complete
<1> QED BY <1>4, <1>8, <1>12, <1>13, <1>14 DEF b, c

\* The RPCs that a packet may bring into the table.
Opening(p) == {k \in {KeyOf(p)} : ~IsClientID(k[2])}

\* A request with a handler that runs or has run stays in the table.
Retains(s, t) ==
  \A k \in Key : s.rpcs[k] # Nil /\ ~IsClientID(k[2]) /\ s.rpc[s.rpcs[k]].handling =>
    t.rpcs[k] = s.rpcs[k]

\* The table t after data has found or made the struct o of the packet's RPC.
Taken(t, o, p, Out, In) ==
  /\ Content(t, Out, In)
  /\ o \in Obj /\ t.rpcs[KeyOf(p)] = o
  /\ t.payload = e.payload
  /\ Passes(e, t, Opening(p), {}) /\ Settles(e, t, In)
  /\ t.rpc[o].rx = e.rpc[o].rx
  /\ \A k \in Key : k # KeyOf(p) => t.rpcs[k] = e.rpcs[k]
  /\ \/ e.rpcs[KeyOf(p)] = o /\ t.rpc[o] = e.rpc[o]
     \/ e.rpcs[KeyOf(p)] = Nil

\* data finds the struct of its RPC, or makes one for a new request
\* (endpoint.go:615).
LEMMA ClaimContent ==
  ASSUME NEW Out, NEW In, Content(e, Out, In), NEW s, Content(s, Out, In), Same(e, s),
         NEW p, KeyOf(p) \in Key, NEW o \in Claims(s, KeyOf(p))
  PROVE  Taken(Claim(s, KeyOf(p), o), o, p, Out, In)
<1> DEFINE k == KeyOf(p)
           t == Claim(s, k, o)
<1>1. s.rpcs = e.rpcs /\ s.rpc = e.rpc /\ s.payload = e.payload
  BY DEF Same
<1>2. Passes(e, s, {}, {}) /\ Settles(e, s, In)
  <2>1. Tunes(e, s)
    BY <1>1 DEF Tunes
  <2> QED BY <2>1, TunesPasses
<1>3. CASE s.rpcs[k] # Nil
  <2>1. s.rpcs[k] = o
    BY <1>3 DEF Claims
  <2>2. t = s
    BY <2>1 DEF Claim
  <2>3. o \in Obj
    BY <1>3, <2>1, Found DEF Filed
  <2>4. Passes(e, s, Opening(p), {})
    BY <1>2 DEF Passes
  <2>5. Taken(s, o, p, Out, In)
    BY <1>1, <1>2, <2>1, <2>3, <2>4 DEF Taken
  <2> QED BY <2>2, <2>5
<1>4. CASE s.rpcs[k] = Nil
  <2>1. o \in Free(e) /\ ~IsClientID(k[2])
    BY <1>4 DEF Claims
  <2>2. o \in Obj /\ e.rpc[o].key = Nil /\ s.rpcs[k] # o
    BY <1>4, <2>1, SetAssumption DEF Free
  <2> DEFINE q == [Blank EXCEPT !.key = k]
             F == [s.rpcs EXCEPT ![k] = o]
             G == [s.rpc EXCEPT ![o] = q]
  <2> HIDE DEF k
  <2>3. /\ Shaped(s) /\ s.rpcs \in [Key -> Obj \cup {Nil}] /\ s.rpc \in [Obj -> Rpc]
        /\ s.payload \in [Obj -> Nat] /\ k \in Key
    BY DEF Content, Formed, k
  <2>4. /\ q \in Rpc /\ q.key = k /\ q.rx = NoRx /\ q.tx = NoMsg /\ q.result = <<>>
        /\ ~q.received /\ ~q.handling /\ ~q.expired
    BY <2>3, BlankType DEF Rpc
  <2> HIDE DEF q
  <2>5. Holding(q, k, Out, In)
    <3>1. Assembles(NoRx, In[k])
      BY DEF Assembles, NoRx
    <3> QED BY <2>4, <3>1 DEF Holding
  <2>6. /\ F \in [Key -> Obj \cup {Nil}] /\ G \in [Obj -> Rpc] /\ G[o] = q
        /\ \A x \in Obj : x # o => G[x] = s.rpc[x]
        /\ F[k] = o /\ \A j \in Key : j # k => F[j] = s.rpcs[j]
    BY <2>2, <2>3, <2>4
  <2>7. t = [rpcs |-> F, rpc |-> G, payload |-> s.payload, buffered |-> s.buffered,
             workers |-> s.workers]
    <3>1. t = [s EXCEPT !.rpcs = F, !.rpc = G]
      BY <2>2, <2>3 DEF Claim, Shaped, q
    <3> HIDE DEF F, G, t
    <3> QED BY <2>3, <3>1 DEF Shaped
  <2> HIDE DEF t, G
  <2>8. Formed(t) /\ t.rpcs = F /\ t.rpc = G /\ t.payload = s.payload
    <3> HIDE DEF F
    <3> QED BY <2>3, <2>6, <2>7 DEF Formed, Shaped
  <2>9. Enters(s, t, k, o, Out, In)
    <3>1. t.rpcs = [s.rpcs EXCEPT ![k] = o]
      BY <2>8
    <3>2. s.rpc[o].key = Nil
      BY <1>1, <2>2
    <3> HIDE DEF F
    <3> QED BY <1>4, <2>2, <2>5, <2>6, <2>8, <3>1, <3>2 DEF Enters, k
  <2> HIDE DEF F
  <2>10. Content(t, Out, In) /\ Passes(s, t, {k}, {}) /\ Settles(s, t, In)
    BY <2>3, <2>9, EnterContent
  <2>11. k \in Opening(p)
    BY <2>1 DEF Opening, k
  <2>12. Passes(e, t, Opening(p), {})
    <3>1. \A j \in Key : \/ t.rpcs[j] = e.rpcs[j]
                         \/ e.rpcs[j] = Nil /\ j \in Opening(p)
      BY <1>1, <2>10, <2>11 DEF Passes
    <3> QED BY <1>1, <2>10, <3>1 DEF Passes
  <2>13. Settles(e, t, In)
    BY <1>1, <2>10 DEF Settles
  <2>14. t.rpc[o].rx = e.rpc[o].rx
    <3>1. e.rpc[o].rx = NoRx
      BY <2>2 DEF Content
    <3> QED BY <2>4, <2>6, <2>8, <3>1
  <2>15. \A j \in Key : j # k => t.rpcs[j] = e.rpcs[j]
    BY <1>1, <2>6, <2>8
  <2>16. t.rpcs[k] = o /\ t.payload = e.payload /\ e.rpcs[k] = Nil
    BY <1>1, <1>4, <2>6, <2>8 DEF k
  <2>17. Taken(t, o, p, Out, In)
    BY <2>2, <2>10, <2>12, <2>13, <2>14, <2>15, <2>16 DEF Taken, k
  <2> QED BY <2>17 DEF t, k
<1> QED BY <1>3, <1>4

\* The struct r with a segment added.
Grown(r, p, tx) == [r EXCEPT !.tx = tx, !.rx = Fill(Opened(r.rx, p), p)]

\* The table t with q for the struct o.
Set(t, o, q, b) ==
  [rpcs |-> t.rpcs, rpc |-> [t.rpc EXCEPT ![o] = q], payload |-> t.payload,
   buffered |-> b, workers |-> t.workers]

\* The table t with a segment added to the struct o.
Poured(t, o, p) == [Open(t, o, p) EXCEPT !.rpc[o].rx = Fill(@, p)]

Pours(t, o, p) ==
  \E tx \in {NoMsg, t.rpc[o].tx} : \E b : Poured(t, o, p) = Set(t, o, Grown(t.rpc[o], p, tx), b)

\* Opening the buffer and adding a segment change one struct.
LEMMA OpenFill ==
  ASSUME NEW t, Formed(t), NEW o \in Obj, NEW p
  PROVE  Pours(t, o, p)
<1> DEFINE r == t.rpc[o]
<1>1. Shaped(t) /\ t.rpc \in [Obj -> Rpc] /\ r \in Rpc
  BY DEF Formed
<1>2. CASE r.rx.len > 0
  <2> DEFINE c == Fill(r.rx, p)
             q == [r EXCEPT !.rx = c]
             G == [t.rpc EXCEPT ![o] = q]
  <2>1. Poured(t, o, p) = [t EXCEPT !.rpc[o].rx = c]
    BY <1>1, <1>2 DEF Poured, Open, Shaped
  <2>2. Grown(r, p, r.tx) = [r EXCEPT !.tx = r.tx, !.rx = c]
    BY <1>2 DEF Grown, Opened
  <2> HIDE DEF c
  <2>3. [r EXCEPT !.tx = r.tx, !.rx = c] = q
    <3> HIDE DEF r
    <3> QED BY <1>1 DEF Rpc
  <2>4. [t EXCEPT !.rpc[o].rx = c] = [t EXCEPT !.rpc = G]
    BY <1>1 DEF Shaped
  <2> HIDE DEF q
  <2>5. [t EXCEPT !.rpc = G] = Set(t, o, q, t.buffered)
    <3>1. G = [t.rpc EXCEPT ![o] = q]
      OBVIOUS
    <3> HIDE DEF G
    <3> DEFINE v == [t EXCEPT !.rpc = G]
    <3>2. v = [t EXCEPT !.rpc = G]
      OBVIOUS
    <3> HIDE DEF v
    <3>3. v = [rpcs |-> t.rpcs, rpc |-> G, payload |-> t.payload,
               buffered |-> t.buffered, workers |-> t.workers]
      BY <1>1, <3>2 DEF Shaped
    <3> QED BY <3>1, <3>3 DEF Set, v
  <2> HIDE DEF G, r
  <2>6. Poured(t, o, p) = Set(t, o, Grown(r, p, r.tx), t.buffered)
    BY <2>1, <2>2, <2>3, <2>4, <2>5
  <2>7. r.tx \in {NoMsg, r.tx}
    OBVIOUS
  <2> QED BY <2>6, <2>7 DEF Pours, r
<1>3. CASE ~(r.rx.len > 0)
  <2> DEFINE tx == IF IsClient(t, o) THEN NoMsg ELSE r.tx
             a == [len |-> p.len, data |-> NoBytes, granted |-> p.incoming]
             b == t.buffered + OpenCost(r, p) - (r.tx.len - tx.len)
             q == [r EXCEPT !.rx = a, !.tx = tx]
             G == [t.rpc EXCEPT ![o] = q]
             v == Open(t, o, p)
             w == [v EXCEPT !.rpc[o].rx = Fill(@, p)]
  <2>1. v = [t EXCEPT !.rpc[o].rx = a, !.rpc[o].tx = tx, !.buffered = b]
    BY <1>3 DEF Open
  <2>2. tx \in {NoMsg, r.tx}
    OBVIOUS
  <2>3. Opened(r.rx, p) = a
    BY <1>3 DEF Opened
  <2> HIDE DEF a, b, tx
  <2>4. [t EXCEPT !.rpc[o].rx = a, !.rpc[o].tx = tx, !.buffered = b]
          = [t EXCEPT !.rpc = G, !.buffered = b]
    BY <1>1 DEF Shaped, Rpc
  <2>5. v = [rpcs |-> t.rpcs, rpc |-> G, payload |-> t.payload, buffered |-> b,
             workers |-> t.workers]
    <3> HIDE DEF G, v
    <3> QED BY <1>1, <2>1, <2>4 DEF Shaped
  <2>6. G[o] = q /\ q.rx = a
    <3>1. G[o] = q
      BY <1>1
    <3> HIDE DEF r, G
    <3> QED BY <1>1, <3>1 DEF Rpc
  <2> DEFINE c == Fill(a, p)
             z == [q EXCEPT !.rx = c]
             H == [G EXCEPT ![o] = z]
  <2>7. w = [v EXCEPT !.rpc = H]
    <3> HIDE DEF v, G
    <3>1. v.rpc = G
      BY <2>5
    <3>2. w = [v EXCEPT !.rpc[o].rx = c]
      <4>1. v.rpc[o].rx = a
        <5> HIDE DEF q
        <5> QED BY <2>6, <3>1
      <4>2. c = Fill(v.rpc[o].rx, p)
        BY <4>1
      <4> HIDE DEF c
      <4> QED BY <4>2, SMTT(30)
    <3> HIDE DEF c
    <3> QED BY <2>5, <2>6, <3>1, <3>2
  <2>8. z = Grown(r, p, tx)
    <3>1. Grown(r, p, tx) = [r EXCEPT !.tx = tx, !.rx = c]
      BY <2>3 DEF Grown
    <3> HIDE DEF c, r
    <3> QED BY <1>1, <3>1 DEF Rpc
  <2>9. H = [t.rpc EXCEPT ![o] = z]
    <3> HIDE DEF z, q
    <3> QED BY <1>1
  <2> HIDE DEF H, z, v, w, G
  <2>10. w = [rpcs |-> t.rpcs, rpc |-> H, payload |-> t.payload, buffered |-> b,
              workers |-> t.workers]
    BY <2>5, <2>7
  <2>11. w = Set(t, o, z, b)
    BY <2>9, <2>10 DEF Set
  <2>12. w = Set(t, o, Grown(r, p, tx), b)
    BY <2>8, <2>11
  <2>13. w = Poured(t, o, p)
    BY DEF Poured, w, v
  <2> QED BY <2>2, <2>12, <2>13 DEF Pours
<1> QED BY <1>2, <1>3

Changes(t, u, o, q) ==
  /\ Formed(u) /\ u.rpcs = t.rpcs /\ u.payload = t.payload /\ u.rpc[o] = q
  /\ \A x \in Obj : x # o => u.rpc[x] = t.rpc[x]

\* What remains of the table when the struct o becomes q.
LEMMA SetFields ==
  ASSUME NEW t, Formed(t), NEW o \in Obj, NEW q \in Rpc, NEW b
  PROVE  Changes(t, Set(t, o, q, b), o, q)
<1> DEFINE G == [t.rpc EXCEPT ![o] = q]
           u == Set(t, o, q, b)
<1>1. /\ Shaped(t) /\ t.rpcs \in [Key -> Obj \cup {Nil}] /\ t.rpc \in [Obj -> Rpc]
      /\ t.payload \in [Obj -> Nat]
  BY DEF Formed
<1>2. G \in [Obj -> Rpc] /\ G[o] = q /\ \A x \in Obj : x # o => G[x] = t.rpc[x]
  BY <1>1
<1>3. u = [rpcs |-> t.rpcs, rpc |-> G, payload |-> t.payload, buffered |-> b,
           workers |-> t.workers]
  BY DEF Set
<1> HIDE DEF G, u
<1>4. Formed(u) /\ u.rpcs = t.rpcs /\ u.rpc = G /\ u.payload = t.payload
  BY <1>1, <1>2, <1>3 DEF Formed, Shaped
<1>5. Changes(t, u, o, q)
  BY <1>2, <1>4 DEF Changes
<1> QED BY <1>5 DEF u

\* One struct of the table is replaced by one for the same key.
LEMMA SetContent ==
  ASSUME NEW t, NEW Out, NEW In, Content(t, Out, In), NEW k \in Key, NEW o \in Obj,
         t.rpcs[k] = o, NEW q \in Rpc, Holding(q, k, Out, In),
         t.rpc[o].handling => q.handling, NEW b
  PROVE  Content(Set(t, o, q, b), Out, In) /\ Tunes(t, Set(t, o, q, b))
<1> DEFINE u == Set(t, o, q, b)
<1>1. Formed(t) /\ o # Nil
  BY SetAssumption DEF Content
<1>2. Changes(t, u, o, q)
  BY <1>1, SetFields
<1> HIDE DEF u
<1>3. Replaces(t, u, k, Out, In)
  BY <1>1, <1>2 DEF Replaces, Changes
<1>4. t.rpc[o].key = k /\ q.key = k
  <2>1. Filed(t, k, Out, In)
    BY <1>1, Found
  <2> QED BY <2>1 DEF Filed, Holding
<1>5. Tunes(t, u)
  BY <1>2, <1>4 DEF Tunes, Changes
<1> QED BY <1>3, <1>5, ReplaceContent DEF u

\* The struct r of the table may take the packet p.
Takes(r, k, p, Out, In) ==
  /\ r \in Rpc /\ Holding(r, k, Out, In) /\ ~r.received
  /\ Carries(p, In[k]) /\ ValidData(p)
  /\ r.rx.len > 0 => Fits(r.rx, p)

Grows(r, q, k, p, Out, In) ==
  /\ ~r.handling
  /\ q \in Rpc /\ Holding(q, k, Out, In)
  /\ q.key = k /\ ~q.received /\ ~q.handling /\ q.result = <<>>
  /\ q.rx.len > 0
  /\ q.rx.data = Fill(r.rx, p).data
  /\ Count(q.rx) = p.len => Complete(q.rx, In[k])

\* A segment that fits is added.
LEMMA GrownHolding ==
  ASSUME NEW k \in Key, NEW Out, NEW In, Lawful(In), NEW r, NEW p, Takes(r, k, p, Out, In),
         NEW tx \in {NoMsg, r.tx}
  PROVE  Grows(r, Grown(r, p, tx), k, p, Out, In)
<1> DEFINE c == Fill(Opened(r.rx, p), p)
           q == Grown(r, p, tx)
<1>1. /\ r \in Rpc /\ Holding(r, k, Out, In) /\ ~r.received /\ r.rx \in Rx
      /\ Carries(p, In[k]) /\ ValidData(p) /\ (r.rx.len > 0 => Fits(r.rx, p))
  BY DEF Takes, Rpc
<1>2. Assembles(r.rx, In[k]) /\ In[k] \subseteq Messages(MaxMessageSize)
  BY <1>1 DEF Holding, Lawful
<1>3. /\ c \in Rx /\ Assembles(c, In[k]) /\ c.len = p.len /\ p.len > 0
      /\ c.data = Fill(r.rx, p).data
      /\ Count(c) = p.len => Complete(c, In[k])
  BY <1>1, <1>2, FillAssembles
<1>4. q = [r EXCEPT !.tx = tx, !.rx = c]
  BY DEF Grown
<1>5. tx \in Msg
  BY <1>1, BlankType DEF Rpc
<1> HIDE DEF c, q
<1>6. /\ q \in Rpc /\ q.key = r.key /\ q.tx = tx /\ q.rx = c
      /\ q.received = r.received /\ q.handling = r.handling
      /\ q.expired = r.expired /\ q.result = r.result
  BY <1>1, <1>3, <1>4, <1>5 DEF Rpc
<1>7. /\ r.key = k /\ (r.tx = NoMsg \/ r.tx \in Out[k]) /\ ~r.expired
      /\ r.result = <<>> /\ ~r.handling
  BY <1>1 DEF Holding
<1>8. Holding(q, k, Out, In)
  BY <1>1, <1>3, <1>6, <1>7 DEF Holding
<1>9. Grows(r, q, k, p, Out, In)
  BY <1>1, <1>3, <1>6, <1>7, <1>8 DEF Grows
<1> QED BY <1>9 DEF q

\* A packet that asks for other cutoffs is for the RPC of its DATA packet.
LEMMA CutoffsSends ==
  ASSUME NEW p, NEW out \in SUBSET CutoffsReply(p), NEW q \in out, NEW t, NEW Out, NEW K,
         KeyOf(p) \in K
  PROVE  Sends(q, t, Out, K)
<1>1. q = [type |-> "CUTOFFS", src |-> Local, dst |-> p.src, id |-> LocalID(p.id), version |-> 1]
  BY DEF CutoffsReply
<1>2. /\ q.type = "CUTOFFS" /\ q.src = Local /\ q.dst = p.src /\ q.id = LocalID(p.id)
  BY <1>1
<1>3. <<q.dst, q.id>> \in K
  BY <1>2 DEF KeyOf
<1>4. q.type \notin {"DATA", "GRANT", "RESEND", "ACK", "RPC_UNKNOWN"}
  BY <1>2, SMTT(30)
<1> QED BY <1>2, <1>3, <1>4 DEF Sends

\* What data does: the packet's request enters the table or its call leaves it.
Accepts(p, Out, In) ==
  /\ Evolves(Out, In, Opening(p), {KeyOf(p)}, {KeyOf(p)})
  /\ Starts(e, e', In, Filled(e, p))
  /\ Retains(e, e')

\* How a step from the claimed table ends.
Ends(t, o, p, X, Out, In) ==
  /\ Content(e', Out, In)
  /\ Passes(t, e', {}, {KeyOf(p)}) /\ Settles(t, e', In)
  /\ net' = Emit(net, X)
  /\ e'.rpcs[KeyOf(p)] = o \/ IsClientID(KeyOf(p)[2]) \/ ~t.rpc[o].handling

\* Finding the struct and using it are one step.
LEMMA ClaimedEnds ==
  ASSUME NEW Out, NEW In, NEW p, KeyOf(p) \in Key, NEW t, NEW o, Taken(t, o, p, Out, In),
         NEW X, Ends(t, o, p, X, Out, In),
         \A q \in X : Sends(q, e', Out, {KeyOf(p)} \cup Served(e) \cup Served(e'))
  PROVE  Evolves(Out, In, Opening(p), {KeyOf(p)}, {KeyOf(p)}) /\ Retains(e, e')
<1> DEFINE k == KeyOf(p)
<1>1. /\ Passes(e, t, Opening(p), {}) /\ t.payload = e.payload
      /\ (e.rpcs[k] = o /\ t.rpc[o] = e.rpc[o]) \/ e.rpcs[k] = Nil
  BY DEF Taken
<1>2. /\ Content(e', Out, In) /\ Passes(t, e', {}, {k}) /\ Settles(t, e', In)
      /\ net' = Emit(net, X)
      /\ e'.rpcs[k] = o \/ IsClientID(k[2]) \/ ~t.rpc[o].handling
  BY DEF Ends
<1>3. \A q \in X : Sends(q, e', Out, {k} \cup Served(e) \cup Served(e'))
  OBVIOUS
<1> HIDE DEF k
<1>4. Passes(e, e', Opening(p), {k}) /\ Settles(e, e', In)
  BY <1>1, <1>2, PassesThrough
<1>5. Evolves(Out, In, Opening(p), {k}, {k})
  BY <1>2, <1>3, <1>4, EvolvesBy
<1>6. Retains(e, e')
  <2>1. SUFFICES ASSUME NEW j \in Key, e.rpcs[j] # Nil, ~IsClientID(j[2]),
                        e.rpc[e.rpcs[j]].handling
                 PROVE  e'.rpcs[j] = e.rpcs[j]
    BY DEF Retains
  <2>2. CASE j = k
    BY <1>1, <1>2, <2>1, <2>2
  <2>3. CASE j # k
    <3>1. e'.rpcs[j] = e.rpcs[j] \/ (e'.rpcs[j] = Nil /\ j \in {k})
      BY <1>4, <2>1 DEF Passes
    <3> QED BY <2>3, <3>1
  <2> QED BY <2>2, <2>3
<1> QED BY <1>5, <1>6 DEF k

CallDone(t, o, q, b, out) ==
  LET s == Set(t, o, [q EXCEPT !.received = TRUE], b) IN
  /\ e' = Finish(s, {o}, "ok")
  /\ net' = Emit(net, out \cup {Control("ACK", s.rpc[o].key)})

\* A call is complete: it leaves the table with its response, and the server is
\* told (endpoint.go:675).
LEMMA CompletesCall ==
  ASSUME NEW Out, NEW In, NEW p, KeyOf(p) \in Key, NEW t, NEW o, Taken(t, o, p, Out, In),
         NEW q, Grows(t.rpc[o], q, KeyOf(p), p, Out, In), Count(q.rx) = p.len, NEW b,
         NEW out \in SUBSET CutoffsReply(p), IsClientID(KeyOf(p)[2]),
         CallDone(t, o, q, b, out)
  PROVE  Accepts(p, Out, In)
<1> DEFINE k == KeyOf(p)
           z == [q EXCEPT !.received = TRUE]
           s == Set(t, o, z, b)
           X == out \cup {Control("ACK", k)}
<1>1. /\ Content(t, Out, In) /\ Formed(t) /\ o \in Obj /\ t.rpcs[k] = o
      /\ t.payload = e.payload
  BY DEF Taken, Content
<1>2. /\ q \in Rpc /\ q.key = k /\ q.result = <<>> /\ Complete(q.rx, In[k])
  BY DEF Grows
<1>3. z \in Rpc /\ z.key = k /\ z.result = <<>> /\ z.rx = q.rx
  BY <1>2 DEF Rpc
<1> HIDE DEF z
<1>4. Changes(t, s, o, z)
  BY <1>1, <1>3, SetFields
<1>5. e' = Finish(s, {o}, "ok") /\ net' = Emit(net, out \cup {Control("ACK", s.rpc[o].key)})
  BY DEF CallDone, z
<1> HIDE DEF s
<1>6. net' = Emit(net, X)
  BY <1>3, <1>4, <1>5 DEF Changes
<1>7. /\ t.rpc[o].key = k /\ t.rpc[o].result = <<>> /\ o # Nil
      /\ \A j \in Key : t.rpcs[j] = o => j = k
  <2>1. o # Nil
    BY <1>1, SetAssumption
  <2>2. Filed(t, k, Out, In)
    BY <1>1, <2>1, Found
  <2> QED BY <1>1, <2>1, <2>2 DEF Filed, Holding
<1>8. IsClient(s, o) /\ s.rpc[o] = z /\ Formed(s)
  BY <1>3, <1>4 DEF Changes, IsClient
<1>9. Without(s, {o}, e') /\ e'.rpc[o].result = <<Outcome(z, "ok")>>
  <2>1. "ok" \in Errors
    BY SMTT(30) DEF Errors
  <2>2. /\ Without(s, {o}, Finish(s, {o}, "ok"))
        /\ \A x \in Obj : x \in {o} /\ IsClient(s, x) /\ s.rpc[x].result = <<>> =>
             Finish(s, {o}, "ok").rpc[x].result = <<Outcome(s.rpc[x], "ok")>>
    BY <1>8, <2>1, FinishFields
  <2> QED BY <1>1, <1>3, <1>5, <1>8, <2>2
<1>10. Without(t, {o}, e')
  <2>1. s.rpcs = t.rpcs /\ s.payload = t.payload /\ \A x \in Obj : x # o => s.rpc[x] = t.rpc[x]
    BY <1>4 DEF Changes
  <2>2. IsClient(t, o)
    BY <1>7 DEF IsClient
  <2>3. /\ Formed(e') /\ e'.payload = t.payload
        /\ e'.rpcs = [j \in Key |-> IF t.rpcs[j] \in {o} THEN Nil ELSE t.rpcs[j]]
    BY <1>9, <2>1 DEF Without
  <2>4. \A x \in Obj : x \notin {o} => e'.rpc[x] = t.rpc[x]
    BY <1>9, <2>1 DEF Without
  <2>5. e'.rpc[o].rx = NoRx /\ e'.rpc[o].key = t.rpc[o].key
    BY <1>1, <1>3, <1>7, <1>8, <1>9 DEF Without
  <2> QED BY <2>2, <2>3, <2>4, <2>5 DEF Without
<1>11. Content(e', Out, In) /\ Passes(t, e', {}, {k})
  <2>1. Content(e', Out, In) /\ Passes(t, e', {}, {j \in Key : t.rpcs[j] \in {o}})
    BY <1>1, <1>10, WithoutContent
  <2>2. {j \in Key : t.rpcs[j] \in {o}} = {k}
    BY <1>1, <1>7
  <2> QED BY <2>1, <2>2
<1>12. /\ e'.rpcs[k] = Nil /\ e'.payload = e.payload
       /\ \A j \in Key : t.rpcs[j] # Nil /\ e'.rpcs[j] = Nil => j = k
  <2>1. /\ e'.rpcs = [j \in Key |-> IF t.rpcs[j] \in {o} THEN Nil ELSE t.rpcs[j]]
        /\ e'.payload = t.payload
    BY <1>10 DEF Without
  <2> HIDE DEF k
  <2>2. k \in Key
    BY DEF k
  <2> QED BY <1>1, <1>7, <2>1, <2>2
<1>13. Settles(t, e', In)
  <2>1. Outcome(z, "ok") \in Result /\ Outcome(z, "ok").data = q.rx.data
    <3>1. "ok" \in Errors
      BY SMTT(30) DEF Errors
    <3>2. Outcome(z, "ok").data = z.rx.data
      BY DEF Outcome
    <3> QED BY <1>3, <3>1, <3>2, OutcomeType
  <2>2. q.rx \in Rx
    BY <1>2 DEF Rpc
  <2>3. SUFFICES ASSUME NEW j \in Key, t.rpcs[j] # Nil, e'.rpcs[j] = Nil
                 PROVE  \E x \in Result :
                          /\ e'.rpc[t.rpcs[j]].result = <<x>>
                          /\ x.err = "ok" => \E a \in Rx : Complete(a, In[j]) /\ x.data = a.data
    BY DEF Settles
  <2>4. j = k /\ t.rpcs[j] = o
    BY <1>1, <1>12, <2>3
  <2> HIDE DEF k
  <2> QED BY <1>2, <1>9, <2>1, <2>2, <2>4
<1>14. \A x \in X : Sends(x, e', Out, {k} \cup Served(e) \cup Served(e'))
  <2> DEFINE K == {k} \cup Served(e) \cup Served(e')
  <2>1. k \in K /\ k \in Key
    OBVIOUS
  <2> HIDE DEF K
  <2>2. \A x \in out : Sends(x, e', Out, K)
    BY <2>1, CutoffsSends
  <2> HIDE DEF k
  <2>3. Sends(Control("ACK", k), e', Out, K)
    BY <1>12, <2>1, ControlSends
  <2> QED BY <2>2, <2>3 DEF K
<1> HIDE DEF X
<1>15. Ends(t, o, p, X, Out, In)
  BY <1>6, <1>11, <1>13 DEF Ends
<1>16. Evolves(Out, In, Opening(p), {k}, {k}) /\ Retains(e, e')
  BY <1>14, <1>15, ClaimedEnds
<1>17. Starts(e, e', In, Filled(e, p))
  BY <1>12, NeverStarts
<1> QED BY <1>16, <1>17 DEF Accepts

Scheduled(u, out) ==
  \E rank \in Rankings(u) : e' = Schedule(u, rank) /\ net' = Emit(net, out \cup Grants(u, rank))

\* data ends by giving out grants (endpoint.go:671).
LEMMA ScheduledEnds ==
  ASSUME NEW Out, NEW In, Numbers, NEW p, KeyOf(p) \in Key, NEW t, NEW o,
         Taken(t, o, p, Out, In), NEW out \in SUBSET CutoffsReply(p),
         NEW u, Content(u, Out, In), Tunes(t, u), Scheduled(u, out)
  PROVE  /\ Evolves(Out, In, Opening(p), {KeyOf(p)}, {KeyOf(p)}) /\ Retains(e, e')
         /\ Tunes(u, e') /\ e'.payload = u.payload
<1> DEFINE k == KeyOf(p)
<1>1. PICK rank : e' = Schedule(u, rank) /\ net' = Emit(net, out \cup Grants(u, rank))
  BY DEF Scheduled
<1> DEFINE X == out \cup Grants(u, rank)
<1>2. Content(e', Out, In) /\ Tunes(u, e') /\ e'.payload = u.payload
  BY <1>1, ScheduleContent
<1>3. Content(t, Out, In) /\ t.rpcs[k] = o
  BY DEF Taken
<1>4. Tunes(t, e') /\ e'.rpcs = u.rpcs /\ e'.rpcs = t.rpcs
  BY <1>2 DEF Tunes
<1>5. Passes(t, e', {}, {k}) /\ Settles(t, e', In)
  <2>1. Passes(t, e', {}, {}) /\ Settles(t, e', In)
    BY <1>3, <1>4, TunesPasses
  <2> QED BY <2>1 DEF Passes
<1>6. \A x \in X : Sends(x, e', Out, {k} \cup Served(e) \cup Served(e'))
  <2> DEFINE K == {k} \cup Served(e) \cup Served(e')
  <2>1. k \in K /\ Served(u) \subseteq K
    BY <1>4 DEF Served
  <2> HIDE DEF K
  <2>2. \A x \in out : Sends(x, e', Out, K)
    BY <2>1, CutoffsSends
  <2>3. ASSUME NEW x \in Grants(u, rank) PROVE Sends(x, e', Out, K)
    BY <2>1, <2>3, GrantsSends
  <2> QED BY <2>2, <2>3 DEF K
<1>7. net' = Emit(net, X)
  BY <1>1
<1> HIDE DEF X
<1>8. Ends(t, o, p, X, Out, In)
  BY <1>2, <1>3, <1>4, <1>5, <1>7 DEF Ends
<1>9. Evolves(Out, In, Opening(p), {k}, {k}) /\ Retains(e, e')
  BY <1>6, <1>8, ClaimedEnds
<1> QED BY <1>2, <1>9

\* More of a message is still to come.
LEMMA FillsMore ==
  ASSUME NEW Out, NEW In, Numbers, NEW p, KeyOf(p) \in Key, NEW t, NEW o,
         Taken(t, o, p, Out, In), NEW out \in SUBSET CutoffsReply(p),
         NEW q, Grows(t.rpc[o], q, KeyOf(p), p, Out, In), NEW b,
         Scheduled(Set(t, o, q, b), out)
  PROVE  Accepts(p, Out, In)
<1> DEFINE u == Set(t, o, q, b)
<1>1. /\ Content(t, Out, In) /\ Formed(t) /\ o \in Obj /\ t.rpcs[KeyOf(p)] = o
      /\ t.payload = e.payload
  BY DEF Taken, Content
<1>2. /\ q \in Rpc /\ Holding(q, KeyOf(p), Out, In) /\ ~t.rpc[o].handling
  BY DEF Grows
<1>3. Changes(t, u, o, q)
  BY <1>1, <1>2, SetFields
<1>4. Content(u, Out, In) /\ Tunes(t, u)
  BY <1>1, <1>2, SetContent
<1>5. Scheduled(u, out)
  OBVIOUS
<1> HIDE DEF u
<1>6. /\ Evolves(Out, In, Opening(p), {KeyOf(p)}, {KeyOf(p)}) /\ Retains(e, e')
      /\ e'.payload = u.payload
  BY <1>4, <1>5, ScheduledEnds
<1>7. e'.payload = e.payload
  BY <1>1, <1>3, <1>6 DEF Changes
<1>8. Starts(e, e', In, Filled(e, p))
  BY <1>7, NeverStarts
<1> QED BY <1>6, <1>8 DEF Accepts

RequestDone(t, o, q, b, out) ==
  LET s == Set(t, o, [q EXCEPT !.received = TRUE], b) IN
  \E W \in Starters(s, {o}) : Scheduled(StartHandlers(s, {o}, W), out)

\* A request is complete: a handler starts with its bytes, if a worker is free
\* (endpoint.go:685).
LEMMA CompletesRequest ==
  ASSUME NEW Out, NEW In, Numbers, NEW p, KeyOf(p) \in Key, NEW t, NEW o,
         Taken(t, o, p, Out, In), NEW out \in SUBSET CutoffsReply(p), ~IsClientID(KeyOf(p)[2]),
         NEW q, Grows(t.rpc[o], q, KeyOf(p), p, Out, In), Count(q.rx) = p.len, NEW b,
         RequestDone(t, o, q, b, out)
  PROVE  Accepts(p, Out, In)
<1> DEFINE k == KeyOf(p)
           z == [q EXCEPT !.received = TRUE]
           s == Set(t, o, z, b)
<1>1. /\ Content(t, Out, In) /\ Formed(t) /\ o \in Obj /\ t.rpcs[k] = o
      /\ t.payload = e.payload /\ t.rpc[o].rx = e.rpc[o].rx
      /\ (e.rpcs[k] = o /\ t.rpc[o] = e.rpc[o]) \/ e.rpcs[k] = Nil
  BY DEF Taken, Content
<1>2. /\ q \in Rpc /\ Holding(q, k, Out, In) /\ ~t.rpc[o].handling
      /\ q.rx.data = Fill(t.rpc[o].rx, p).data
      /\ Complete(q.rx, In[k])
  BY DEF Grows
<1>3. /\ z \in Rpc /\ z.key = q.key /\ z.tx = q.tx /\ z.rx = q.rx /\ z.received
      /\ z.handling = q.handling /\ z.expired = q.expired /\ z.result = q.result
  BY <1>2 DEF Rpc
<1>4. PICK W \in Starters(s, {o}) : Scheduled(StartHandlers(s, {o}, W), out)
  BY DEF RequestDone
<1> HIDE DEF z, k
<1>5. Holding(z, k, Out, In)
  BY <1>2, <1>3 DEF Holding, k
<1>6. Changes(t, s, o, z)
  BY <1>1, <1>3, SetFields
<1>7. Content(s, Out, In) /\ Tunes(t, s)
  <2>1. k \in Key
    BY DEF k
  <2> QED BY <1>1, <1>2, <1>3, <1>5, <2>1, SetContent
<1> HIDE DEF s
<1>8. {o} \subseteq Ready(s)
  <2>1. s.rpcs[k] = o /\ k \in Key /\ o # Nil
    BY <1>1, <1>6, SetAssumption DEF Changes, k
  <2>2. o \in Live(s)
    BY <2>1 DEF Live
  <2>3. ~IsClient(s, o) /\ s.rpc[o].received
    BY <1>3, <1>5, <1>6 DEF Changes, IsClient, Holding, k
  <2> QED BY <2>2, <2>3 DEF Ready
<1> DEFINE u == StartHandlers(s, {o}, W)
<1>9. /\ Content(u, Out, In) /\ Tunes(s, u) /\ Starts(s, u, In, Buffers(s))
      /\ W \subseteq {o} /\ \A x \in Obj : x \notin W => u.payload[x] = s.payload[x]
  <2>1. Hands(s, u, W, Out, In) /\ W \subseteq {o}
    BY <1>4, <1>7, <1>8, StartHandlersContent
  <2> HIDE DEF u
  <2> QED BY <2>1 DEF Hands
<1>10. Scheduled(u, out)
  BY <1>4
<1> HIDE DEF u
<1>11. Tunes(t, u)
  BY <1>7, <1>9 DEF Tunes
<1>12. /\ Evolves(Out, In, Opening(p), {KeyOf(p)}, {KeyOf(p)}) /\ Retains(e, e')
       /\ Tunes(u, e') /\ e'.payload = u.payload
  BY <1>9, <1>10, <1>11, ScheduledEnds
<1>13. Starts(s, e', In, Buffers(s))
  <2>1. Same(s, s)
    BY DEF Same
  <2> QED BY <1>9, <1>12, <2>1, StartsThrough
<1>14. Starts(e, e', In, Filled(e, p))
  <2>1. SUFFICES ASSUME NEW x \in Obj, e.payload[x] = 0, e'.payload[x] > 0
                 PROVE  LET j == e'.rpc[x].key IN
                        /\ j \in Key /\ e'.rpcs[j] = x /\ e'.rpc[x].handling
                        /\ e.rpcs[j] # Nil => e.rpcs[j] = x /\ ~e.rpc[x].handling
                        /\ \E a \in Rx : Complete(a, In[j]) /\ Filled(e, p)[x] = a.data
    BY DEF Starts
  <2>2. s.payload[x] = 0
    BY <1>1, <1>6, <2>1 DEF Changes
  <2>3. x = o
    <3>1. ~(0 > 0)
      BY SMTT(30)
    <3> QED BY <1>9, <1>12, <2>1, <2>2, <3>1
  <2>4. e'.rpc[o].key = k
    <3>1. e'.rpc[o].key = s.rpc[o].key
      BY <1>1, <1>9, <1>12 DEF Tunes
    <3> QED BY <1>5, <1>6, <3>1 DEF Changes, Holding
  <2>5. e'.rpcs[k] = o /\ e'.rpc[o].handling /\ k \in Key
    BY <1>13, <2>1, <2>2, <2>3, <2>4 DEF Starts
  <2>6. e.rpcs[k] # Nil => e.rpcs[k] = o /\ ~e.rpc[o].handling
    BY <1>1, <1>2
  <2>7. q.rx \in Rx /\ Filled(e, p)[o] = q.rx.data
    BY <1>1, <1>2 DEF Filled, Rpc
  <2>8. Complete(q.rx, In[k])
    BY <1>2 DEF k
  <2> QED BY <2>3, <2>4, <2>5, <2>6, <2>7, <2>8
<1> QED BY <1>12, <1>14 DEF Accepts

\* A segment that is of no use, or that there is no room for: a request that
\* cannot be stored is dropped (endpoint.go:633).
LEMMA DataRefused ==
  ASSUME NEW Out, NEW In, NEW p, KeyOf(p) \in Key, NEW t, NEW o, Taken(t, o, p, Out, In),
         NEW out \in SUBSET CutoffsReply(p),
         DataUnusable(t, o, p, out) \/ DataNoRoom(t, o, p, out)
  PROVE  Accepts(p, Out, In)
<1> DEFINE k == KeyOf(p)
<1>1. /\ net' = Emit(net, out)
      /\ \/ e' = t
         \/ e' = Remove(t, {o}) /\ ~IsClient(t, o) /\ ~t.rpc[o].received
  BY DEF DataUnusable, DataNoRoom
<1>2. Content(t, Out, In) /\ o \in Obj /\ t.rpcs[k] = o /\ t.payload = e.payload
  BY DEF Taken
<1>3. o # Nil /\ t.rpc[o].key = k /\ (t.rpc[o].handling => t.rpc[o].received)
  <2>1. o # Nil
    BY <1>2, SetAssumption
  <2>2. Filed(t, k, Out, In)
    BY <1>2, <2>1, Found
  <2> QED BY <1>2, <2>1, <2>2 DEF Filed, Holding
<1>4. /\ Content(e', Out, In) /\ Passes(t, e', {}, {k}) /\ Settles(t, e', In)
      /\ e'.payload = t.payload
      /\ e'.rpcs[k] = o \/ ~t.rpc[o].handling
  <2>1. CASE e' = t
    <3>1. Tunes(t, e')
      BY <2>1 DEF Tunes
    <3>2. Passes(t, e', {}, {}) /\ Settles(t, e', In)
      BY <1>2, <3>1, TunesPasses
    <3>3. Passes(t, e', {}, {k})
      BY <3>2 DEF Passes
    <3> QED BY <1>2, <2>1, <3>2, <3>3
  <2>2. CASE e' = Remove(t, {o}) /\ ~IsClient(t, o) /\ ~t.rpc[o].received
    <3>1. ~IsClientID(k[2]) /\ ~t.rpc[o].handling
      BY <1>3, <2>2 DEF IsClient
    <3> HIDE DEF k
    <3>2. t.rpcs[k] # Nil /\ k \in Key /\ Remove(t, {t.rpcs[k]}) = e'
      BY <1>2, <1>3, <2>2 DEF k
    <3>3. LET v == Remove(t, {t.rpcs[k]}) IN
          /\ Content(v, Out, In) /\ Passes(t, v, {}, {k}) /\ Settles(t, v, In)
          /\ v.payload = t.payload
      BY <1>2, <3>1, <3>2, DropContent
    <3> QED BY <3>1, <3>2, <3>3
  <2> QED BY <1>1, <2>1, <2>2
<1>5. \A x \in out : Sends(x, e', Out, {k} \cup Served(e) \cup Served(e'))
  BY CutoffsSends
<1>6. Ends(t, o, p, out, Out, In)
  BY <1>1, <1>4 DEF Ends
<1>7. Evolves(Out, In, Opening(p), {k}, {k}) /\ Retains(e, e')
  BY <1>5, <1>6, ClaimedEnds
<1>8. Starts(e, e', In, Filled(e, p))
  <2>1. e'.payload = e.payload
    BY <1>2, <1>4
  <2> QED BY <2>1, NeverStarts
<1> QED BY <1>7, <1>8 DEF Accepts

\* A segment that fits is added, and completes its message or not.
LEMMA DataFillsContent ==
  ASSUME NEW Out, NEW In, Lawful(In), Numbers, NEW p, KeyOf(p) \in Key,
         Carries(p, In[KeyOf(p)]), ValidData(p),
         NEW t, NEW o, Taken(t, o, p, Out, In),
         NEW out \in SUBSET CutoffsReply(p), DataFills(t, o, p, out)
  PROVE  Accepts(p, Out, In)
<1> DEFINE k == KeyOf(p)
           r == t.rpc[o]
           u == Poured(t, o, p)
<1>1. /\ ~r.received /\ (r.rx.len > 0 => Fits(r.rx, p))
      /\ IF Count(u.rpc[o].rx) = p.len
         THEN DataCompletes([u EXCEPT !.rpc[o].received = TRUE], o, out)
         ELSE \E rank \in Rankings(u) :
                e' = Schedule(u, rank) /\ net' = Emit(net, out \cup Grants(u, rank))
  BY DEF DataFills, Poured
<1>2. Content(t, Out, In) /\ Formed(t) /\ o \in Obj /\ t.rpcs[k] = o
  BY DEF Taken, Content
<1>3. r \in Rpc /\ Holding(r, k, Out, In)
  <2>1. o # Nil
    BY <1>2, SetAssumption
  <2>2. Filed(t, k, Out, In)
    BY <1>2, <2>1, Found
  <2> QED BY <1>2, <2>2 DEF Filed
<1>4. Takes(r, k, p, Out, In)
  BY <1>1, <1>3 DEF Takes
<1>5. PICK tx \in {NoMsg, r.tx} : \E b : u = Set(t, o, Grown(r, p, tx), b)
  <2>1. Pours(t, o, p)
    BY <1>2, OpenFill
  <2> QED BY <2>1 DEF Pours
<1> DEFINE q == Grown(r, p, tx)
           z == [q EXCEPT !.received = TRUE]
<1>6. Grows(r, q, k, p, Out, In)
  <2>1. tx \in {NoMsg, r.tx} /\ k \in Key
    BY <1>5
  <2> HIDE DEF r, k
  <2> QED BY <1>4, <2>1, GrownHolding
<1>7. PICK b : u = Set(t, o, q, b)
  BY <1>5
<1> HIDE DEF u, q
<1>8. q \in Rpc /\ q.key = k
  BY <1>6 DEF Grows
<1>9. Changes(t, u, o, q)
  BY <1>2, <1>7, <1>8, SetFields
<1>10. u.rpc[o] = q /\ Formed(u)
  BY <1>9 DEF Changes
<1>11. CASE Count(q.rx) # p.len
  <2>1. \E rank \in Rankings(u) :
          e' = Schedule(u, rank) /\ net' = Emit(net, out \cup Grants(u, rank))
    BY <1>1, <1>10, <1>11
  <2>2. Scheduled(Set(t, o, q, b), out)
    BY <1>7, <2>1 DEF Scheduled
  <2> QED BY <1>6, <2>2, FillsMore
<1>12. CASE Count(q.rx) = p.len
  <2> DEFINE s == [u EXCEPT !.rpc[o].received = TRUE]
  <2>1. DataCompletes(s, o, out)
    BY <1>1, <1>10, <1>12
  <2>2. s = Set(t, o, z, b)
    <3> DEFINE H == [u.rpc EXCEPT ![o] = z]
    <3>1. Shaped(u) /\ u.rpc \in [Obj -> Rpc] /\ t.rpc \in [Obj -> Rpc]
      BY <1>2, <1>10 DEF Formed
    <3>2. s = [u EXCEPT !.rpc = H]
      BY <1>10, <3>1 DEF Shaped
    <3>3. /\ u.rpcs = t.rpcs /\ u.rpc = [t.rpc EXCEPT ![o] = q] /\ u.payload = t.payload
          /\ u.buffered = b /\ u.workers = t.workers
      BY <1>7 DEF Set
    <3> HIDE DEF z
    <3>4. H = [t.rpc EXCEPT ![o] = z]
      BY <1>2, <3>1, <3>3
    <3> HIDE DEF H, s
    <3>5. s = [rpcs |-> t.rpcs, rpc |-> H, payload |-> t.payload, buffered |-> b,
               workers |-> t.workers]
      BY <3>1, <3>2, <3>3 DEF Shaped
    <3> QED BY <3>4, <3>5 DEF Set
  <2>3. z \in Rpc /\ z.key = k
    BY <1>8 DEF Rpc
  <2>4. Changes(t, Set(t, o, z, b), o, z)
    <3> HIDE DEF z
    <3> QED BY <1>2, <2>3, SetFields
  <2> HIDE DEF s
  <2>5. IsClient(s, o) <=> IsClientID(k[2])
    <3> HIDE DEF z, k
    <3>1. s.rpc[o].key = k
      BY <2>2, <2>3, <2>4 DEF Changes
    <3> QED BY <3>1 DEF IsClient
  <2>6. CASE IsClientID(k[2])
    <3>1. e' = Finish(s, {o}, "ok") /\ net' = Emit(net, out \cup {Control("ACK", s.rpc[o].key)})
      BY <2>1, <2>5, <2>6 DEF DataCompletes
    <3>2. CallDone(t, o, q, b, out)
      BY <2>2, <3>1 DEF CallDone
    <3> QED BY <1>6, <1>12, <2>6, <3>2, CompletesCall
  <2>7. CASE ~IsClientID(k[2])
    <3>1. PICK W \in Starters(s, {o}) :
             \E w \in {StartHandlers(s, {o}, W)} :
             \E rank \in Rankings(w) :
               e' = Schedule(w, rank) /\ net' = Emit(net, out \cup Grants(w, rank))
      BY <2>1, <2>5, <2>7 DEF DataCompletes
    <3>2. Scheduled(StartHandlers(s, {o}, W), out)
      BY <3>1 DEF Scheduled
    <3>3. RequestDone(t, o, q, b, out)
      BY <2>2, <3>1, <3>2 DEF RequestDone
    <3> QED BY <1>6, <1>12, <2>7, <3>3, CompletesRequest
  <2> QED BY <2>6, <2>7
<1> QED BY <1>11, <1>12

\* A DATA packet (endpoint.go:609).
LEMMA DataContent ==
  ASSUME NEW Out, NEW In, Content(e, Out, In), Lawful(In), Numbers,
         NEW p, Brings(p, In), ReceiveData(p)
  PROVE  Accepts(p, Out, In)
<1> DEFINE k == KeyOf(p)
           s == Remove(e, {})
<1>1. /\ p.type = "DATA" /\ ValidData(p)
      /\ \E R \in AckedBy(e, p.src[1], p.acks) :
         \E u \in {Remove(e, R)} :
           \/ e' = u /\ net' = net
           \/ \E o \in Claims(u, k), out \in SUBSET CutoffsReply(p) :
              \E t \in {Claim(u, k, o)} :
                DataUnusable(t, o, p, out) \/ DataNoRoom(t, o, p, out) \/ DataFills(t, o, p, out)
  BY DEF ReceiveData, Arrives
<1>2. k \in Key /\ Carries(p, In[k])
  BY <1>1 DEF Brings
<1>3. p.acks = {}
  BY <1>2 DEF Carries
<1>4. \/ e' = s /\ net' = net
      \/ \E o \in Claims(s, k), out \in SUBSET CutoffsReply(p) :
           LET t == Claim(s, k, o) IN
           DataUnusable(t, o, p, out) \/ DataNoRoom(t, o, p, out) \/ DataFills(t, o, p, out)
  <2>1. PICK R \in AckedBy(e, p.src[1], p.acks) :
         \E u \in {Remove(e, R)} :
           \/ e' = u /\ net' = net
           \/ \E o \in Claims(u, k), out \in SUBSET CutoffsReply(p) :
              \E t \in {Claim(u, k, o)} :
                DataUnusable(t, o, p, out) \/ DataNoRoom(t, o, p, out) \/ DataFills(t, o, p, out)
    BY <1>1
  <2>2. R = {}
    BY <1>3, AckedByNothing
  <2> QED BY <2>1, <2>2
<1>5. Content(s, Out, In) /\ Same(e, s)
  BY RemoveNothing
<1> HIDE DEF s
<1>6. CASE e' = s /\ net' = net
  <2>1. Tunes(e, e') /\ e'.payload = e.payload
    BY <1>5, <1>6 DEF Tunes, Same
  <2>2. Passes(e, e', {}, {}) /\ Settles(e, e', In)
    BY <2>1, TunesPasses
  <2>3. Passes(e, e', Opening(p), {k})
    BY <2>2 DEF Passes
  <2>4. Evolves(Out, In, Opening(p), {k}, {k})
    BY <1>5, <1>6, <2>2, <2>3 DEF Evolves
  <2>5. Retains(e, e')
    BY <2>1 DEF Retains, Tunes
  <2>6. Starts(e, e', In, Filled(e, p))
    BY <2>1, NeverStarts
  <2> QED BY <2>4, <2>5, <2>6 DEF Accepts
<1>7. ASSUME NEW o \in Claims(s, k), NEW out \in SUBSET CutoffsReply(p), NEW t,
             t = Claim(s, k, o),
             DataUnusable(t, o, p, out) \/ DataNoRoom(t, o, p, out) \/ DataFills(t, o, p, out)
      PROVE  Accepts(p, Out, In)
  <2>1. Taken(Claim(s, k, o), o, p, Out, In)
    BY <1>2, <1>5, <1>7, ClaimContent
  <2>2. Taken(t, o, p, Out, In)
    BY <1>7, <2>1
  <2>3. CASE DataUnusable(t, o, p, out) \/ DataNoRoom(t, o, p, out)
    BY <1>2, <1>7, <2>2, <2>3, DataRefused
  <2>4. CASE DataFills(t, o, p, out)
    BY <1>1, <1>2, <1>7, <2>2, <2>4, DataFillsContent
  <2> QED BY <1>7, <2>3, <2>4
<1> QED BY <1>4, <1>6, <1>7

-----------------------------------------------------------------------------
(* Receiving, and what may be sent. *)

\* A step does no more than a weaker description allows.
LEMMA EvolvesWiden ==
  ASSUME NEW Out, NEW In, NEW A, NEW B, NEW K, Evolves(Out, In, A, B, K),
         NEW A2, NEW B2, NEW K2, A \subseteq A2, B \subseteq B2, K \subseteq K2
  PROVE  Evolves(Out, In, A2, B2, K2)
<1>1. Passes(e, e', A2, B2)
  BY DEF Evolves, Passes
<1> DEFINE C == K \cup Served(e) \cup Served(e')
           C2 == K2 \cup Served(e) \cup Served(e')
<1>2. C \subseteq C2
  OBVIOUS
<1>3. net' = net \/ \E X : net' = Emit(net, X) /\ \A q \in X : Sends(q, e', Out, C)
  BY DEF Evolves
<1> HIDE DEF C, C2
<1>4. \A q : Sends(q, e', Out, C) => Sends(q, e', Out, C2)
  BY <1>2 DEF Sends
<1>5. net' = net \/ \E X : net' = Emit(net, X) /\ \A q \in X : Sends(q, e', Out, C2)
  BY <1>3, <1>4
<1> QED BY <1>1, <1>5 DEF Evolves, C2

\* A request that has a handler leaves the table only when a packet says so.
LEMMA PassesRetains ==
  ASSUME NEW s, NEW t, NEW Enter, Passes(s, t, Enter, {})
  PROVE  Retains(s, t)
BY DEF Passes, Retains

\* Every packet (receive, endpoint.go:501): at most its own RPC enters or
\* leaves the table, and a handler that starts has a complete request.
LEMMA ReceiveContent ==
  ASSUME NEW Out, NEW In, Content(e, Out, In), Lawful(Out), Lawful(In), Numbers,
         NEW p, Brings(p, In), Receive(p)
  PROVE  /\ Evolves(Out, In, Opening(p), {KeyOf(p)}, {KeyOf(p)})
         /\ Starts(e, e', In, Filled(e, p))
         /\ p.type \notin {"ACK", "RPC_UNKNOWN"} => Retains(e, e')
         /\ LosesOne(e, e') /\ nextID' = nextID
<1> DEFINE k == KeyOf(p)
<1>0. nextID' = nextID
  BY DEF Receive, ReceiveData, ReceiveGrant, ReceiveResend, ReceiveUnknown, ReceiveNeedAck,
         ReceiveAck, ReceiveCutoffs
<1>1. ASSUME ReceiveData(p)
      PROVE  /\ Evolves(Out, In, Opening(p), {k}, {k})
             /\ Starts(e, e', In, Filled(e, p))
             /\ p.type \notin {"ACK", "RPC_UNKNOWN"} => Retains(e, e')
  BY <1>1, DataContent DEF Accepts
<1>2. ASSUME ReceiveGrant(p) \/ ReceiveResend(p) \/ ReceiveNeedAck(p) \/ ReceiveCutoffs(p)
      PROVE  /\ Evolves(Out, In, Opening(p), {k}, {k})
             /\ Starts(e, e', In, Filled(e, p))
             /\ p.type \notin {"ACK", "RPC_UNKNOWN"} => Retains(e, e')
  <2>1. Evolves(Out, In, {}, {}, {k}) /\ e'.payload = e.payload
    <3>1. CASE ReceiveGrant(p)
      <4>1. Evolves(Out, In, {}, {}, {}) /\ e'.payload = e.payload
        BY <3>1, GrantContent
      <4>2. {} \subseteq {} /\ {} \subseteq {k}
        OBVIOUS
      <4> HIDE DEF k
      <4> QED BY <4>1, EvolvesWiden, SMTT(30)
    <3>2. CASE ReceiveResend(p)
      BY <3>2, ResendContent
    <3>3. CASE ReceiveNeedAck(p)
      BY <3>3, NeedAckContent
    <3>4. CASE ReceiveCutoffs(p)
      <4>1. e' = e /\ net' = net
        BY <3>4 DEF ReceiveCutoffs
      <4>2. /\ Content(e', Out, In) /\ Passes(e, e', {}, {}) /\ Settles(e, e', In)
            /\ e'.payload = e.payload
        BY <4>1, IdleEvolves
      <4> QED BY <4>1, <4>2 DEF Evolves
    <3> QED BY <1>2, <3>1, <3>2, <3>3, <3>4
  <2> HIDE DEF k
  <2>2. Evolves(Out, In, Opening(p), {k}, {k})
    BY <2>1, EvolvesWiden, SMTT(30)
  <2>3. Retains(e, e')
    BY <2>1, PassesRetains DEF Evolves
  <2>4. Starts(e, e', In, Filled(e, p))
    BY <2>1, NeverStarts
  <2> QED BY <2>2, <2>3, <2>4
<1>3. ASSUME ReceiveUnknown(p) \/ ReceiveAck(p)
      PROVE  /\ Evolves(Out, In, Opening(p), {k}, {k})
             /\ Starts(e, e', In, Filled(e, p))
             /\ p.type \notin {"ACK", "RPC_UNKNOWN"} => Retains(e, e')
  <2>1. Evolves(Out, In, {}, {k}, {}) /\ e'.payload = e.payload
    BY <1>3, UnknownContent, AckContent
  <2>2. p.type \in {"ACK", "RPC_UNKNOWN"}
    BY <1>3 DEF ReceiveUnknown, ReceiveAck, Arrives
  <2> HIDE DEF k
  <2>3. Evolves(Out, In, Opening(p), {k}, {k})
    BY <2>1, EvolvesWiden, SMTT(30)
  <2>4. Starts(e, e', In, Filled(e, p))
    BY <2>1, NeverStarts
  <2> QED BY <2>2, <2>3, <2>4
<1>4. /\ Evolves(Out, In, Opening(p), {k}, {k})
      /\ Starts(e, e', In, Filled(e, p))
      /\ p.type \notin {"ACK", "RPC_UNKNOWN"} => Retains(e, e')
  BY <1>1, <1>2, <1>3 DEF Receive
<1>5. LosesOne(e, e')
  BY <1>4, KeyLosesOne DEF Evolves
<1> QED BY <1>0, <1>4, <1>5

\* What holds for some messages holds for more.
LEMMA WidenContent ==
  ASSUME NEW s, NEW Out, NEW In, Content(s, Out, In), NEW Out2, NEW In2,
         \A k \in Key : Out[k] \subseteq Out2[k] /\ In[k] \subseteq In2[k]
  PROVE  Content(s, Out2, In2)
<1>1. ASSUME NEW k \in Key, s.rpcs[k] # Nil
      PROVE  Holding(s.rpc[s.rpcs[k]], k, Out2, In2)
  <2> DEFINE r == s.rpc[s.rpcs[k]]
  <2>1. Holding(r, k, Out, In)
    BY <1>1 DEF Content
  <2> HIDE DEF r
  <2>2. Out[k] \subseteq Out2[k] /\ In[k] \subseteq In2[k]
    BY <1>1
  <2>3. ASSUME NEW a, Assembles(a, In[k]) PROVE Assembles(a, In2[k])
    BY <2>2, <2>3 DEF Assembles
  <2>4. Complete(r.rx, In[k]) => Complete(r.rx, In2[k])
    BY <2>3 DEF Complete
  <2>5. Holding(r, k, Out2, In2)
    BY <2>1, <2>2, <2>3, <2>4 DEF Holding
  <2> QED BY <2>5 DEF r
<1> QED BY <1>1 DEF Content

\* What an endpoint does without a packet: RPCs may only leave its table.
LEMMA AloneContent ==
  ASSUME NEW Out, NEW In, Content(e, Out, In), Numbers, NEW c, NEW due, NEW o,
         Cancel(c) \/ Abort(c) \/ Tick({}, due) \/ WriteFails(o)
  PROVE  Evolves(Out, In, {}, Key, {}) /\ LosesOne(e, e') /\ nextID' = nextID
<1>1. CASE Tick({}, due)
  <2>1. Evolves(Out, In, {}, {}, {})
    BY <1>1, TickContent
  <2>2. {} \subseteq {} /\ {} \subseteq Key
    OBVIOUS
  <2>3. Evolves(Out, In, {}, Key, {})
    BY <2>1, <2>2, EvolvesWiden, SMTT(30)
  <2>4. LosesOne(e, e')
    BY <2>1 DEF Evolves, Passes, LosesOne
  <2> QED BY <1>1, <2>3, <2>4 DEF Tick
<1>2. CASE Cancel(c) \/ Abort(c)
  BY <1>2, AbortContent DEF Cancel, Abort
<1>3. CASE WriteFails(o)
  BY <1>3, WriteFailsContent DEF WriteFails
<1> QED BY <1>1, <1>2, <1>3

\* Call takes the next one.
LEMMA CallTakesID ==
  ASSUME NEW c, NEW peer, NEW msg, Call(c, peer, msg)
  PROVE  nextID < 2 * MaxIds /\ nextID' = nextID + 2
BY DEF Call

=============================================================================
