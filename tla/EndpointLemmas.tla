--------------------------- MODULE EndpointLemmas ---------------------------
(***************************************************************************)
(* What the code inside a critical section does to the RPC table: remove,  *)
(* finish, schedule and startHandler, and then what Call, data and the     *)
(* handler goroutine do to one RPC, which enters the table, changes what   *)
(* it stores, is forgotten, or has its receive buffer opened and filled.   *)
(* Each keeps the table sound (Good), takes nothing from callers (Keeps)   *)
(* and leaves every RPC in a stage of its life (Sound).  First come the    *)
(* laws of Total (module Sums) that the byte accounting rests on.          *)
(***************************************************************************)
EXTENDS Endpoint, FiniteSetTheorems, TLAPS

\* Leaves that do not ask for SMT are proved by Zenon.
USE ZenonT(60)

-----------------------------------------------------------------------------
(* Sums. *)

\* A point lies under the graph of f over S at one place.
LEMMA PointsMember ==
  ASSUME NEW S, NEW f, NEW z
  PROVE  z \in Points(f, S) <=> \E x \in S : \E i \in 1 .. f[x] : z = <<x, i>>
BY SMTT(30) DEF Points

\* A finite sum of naturals is a natural.
LEMMA TotalType ==
  ASSUME NEW S, IsFiniteSet(S), NEW f, \A x \in S : f[x] \in Nat
  PROVE  /\ IsFiniteSet(Points(f, S))
         /\ Total(f, S) \in Nat
<1> DEFINE Col(x) == {x} \X (1 .. f[x])
           C == [x \in S |-> Col(x)]
           R == {Col(x) : x \in S}
<1>1. \A x \in S : IsFiniteSet(Col(x))
  <2> TAKE x \in S
  <2>1. IsFiniteSet({x})
    BY FS_Singleton
  <2>2. f[x] \in Int
    BY SMTT(30)
  <2>3. IsFiniteSet(1 .. f[x])
    BY <2>2, FS_Interval, SMTT(30)
  <2> QED BY <2>1, <2>3, FS_Product
<1>2. IsFiniteSet(R)
  <2>1. C \in Surjection(S, R)
    BY DEF Surjection
  <2> QED BY <2>1, FS_Surjection
<1>3. IsFiniteSet(UNION R)
  BY <1>1, <1>2, FS_UNION
<1>4. Points(f, S) = UNION R
  BY DEF Points
<1> QED BY <1>3, <1>4, FS_CardinalityType DEF Total

\* The sum depends only on the values over S.
LEMMA TotalSame ==
  ASSUME NEW S, NEW f, NEW g, \A x \in S : f[x] = g[x]
  PROVE  Total(f, S) = Total(g, S)
<1>1. Points(f, S) = Points(g, S)
  BY DEF Points
<1> QED BY <1>1 DEF Total

\* What the members of T hold and what the others hold add up.
LEMMA TotalSplit ==
  ASSUME NEW S, IsFiniteSet(S), NEW T \in SUBSET S, NEW f, \A x \in S : f[x] \in Nat
  PROVE  Total(f, S) = Total(f, T) + Total(f, S \ T)
<1> DEFINE A == Points(f, T)
           B == Points(f, S \ T)
<1>1. IsFiniteSet(T) /\ IsFiniteSet(S \ T)
  BY FS_Subset
<1>2. IsFiniteSet(A) /\ IsFiniteSet(B) /\ Total(f, T) \in Nat /\ Total(f, S \ T) \in Nat
  BY <1>1, TotalType
<1>3. Points(f, S) = A \cup B
  BY DEF Points
<1>4. A \cap B = {}
  <2> SUFFICES ASSUME NEW z, z \in A, z \in B PROVE FALSE
    OBVIOUS
  <2>1. PICK x \in T : \E i \in 1 .. f[x] : z = <<x, i>>
    BY PointsMember, SMTT(30)
  <2>2. PICK y \in S \ T : \E j \in 1 .. f[y] : z = <<y, j>>
    BY PointsMember, SMTT(30)
  <2> QED BY <2>1, <2>2, SMTT(30)
<1>5. Cardinality(A \cup B) = Cardinality(A) + Cardinality(B) - Cardinality(A \cap B)
  BY <1>2, FS_Union
<1>6. Cardinality(A \cap B) = 0
  BY <1>4, FS_EmptySet
<1>7. Cardinality(A) \in Nat /\ Cardinality(B) \in Nat
  BY <1>2 DEF Total
<1> QED BY <1>3, <1>5, <1>6, <1>7, SMTT(30) DEF Total

\* A set whose members hold nothing holds nothing.
LEMMA TotalZero ==
  ASSUME NEW S, NEW f, \A x \in S : f[x] = 0
  PROVE  Total(f, S) = 0
<1>1. \A x \in S : 1 .. f[x] = {}
  BY SMTT(30)
<1>2. Points(f, S) = {}
  BY <1>1, PointsMember
<1> QED BY <1>2, FS_EmptySet DEF Total

\* A single member's share is its value.
LEMMA TotalOne ==
  ASSUME NEW x, NEW f, f[x] \in Nat
  PROVE  Total(f, {x}) = f[x]
<1>1. IsFiniteSet(1 .. f[x]) /\ Cardinality(1 .. f[x]) = f[x]
  <2> DEFINE n == f[x]
  <2>1. n \in Int /\ 1 \in Int
    BY SMTT(30)
  <2> HIDE DEF n
  <2>2. IsFiniteSet(1 .. n) /\ Cardinality(1 .. n) = IF 1 > n THEN 0 ELSE n - 1 + 1
    BY <2>1, FS_Interval
  <2>3. n \in Nat
    BY DEF n
  <2>4. Cardinality(1 .. n) = n
    BY <2>2, <2>3, SMTT(30)
  <2> QED BY <2>2, <2>4 DEF n
<1> DEFINE B == [i \in 1 .. f[x] |-> <<x, i>>]
<1>2. \A z : z \in Points(f, {x}) <=> \E i \in 1 .. f[x] : z = <<x, i>>
  BY PointsMember, SMTT(30)
<1>3. B \in Bijection(1 .. f[x], Points(f, {x}))
  BY <1>2 DEF Bijection, Injection, Surjection, IsInjective
<1> QED BY <1>1, <1>3, FS_Bijection, SMTT(30) DEF ExistsBijection, Total

\* g is f on S, but for the members of T, which hold nothing.
Drops(f, g, S, T) ==
  /\ IsFiniteSet(S) /\ T \in SUBSET S /\ \A x \in S : f[x] \in Nat
  /\ \A x \in T : g[x] = 0
  /\ \A x \in S \ T : g[x] = f[x]

\* Giving up what the members of T hold leaves what the others hold.
LEMMA TotalDrop ==
  ASSUME NEW f, NEW g, NEW S, NEW T, Drops(f, g, S, T)
  PROVE  Total(g, S) = Total(f, S) - Total(f, T)
<1>0. /\ IsFiniteSet(S) /\ T \in SUBSET S /\ \A x \in S : f[x] \in Nat
      /\ \A x \in T : g[x] = 0
      /\ \A x \in S \ T : g[x] = f[x]
  BY DEF Drops
<1>1. Total(f, S) = Total(f, T) + Total(f, S \ T)
  BY <1>0, TotalSplit
<1>2. \A x \in S : g[x] \in Nat
  BY <1>0, SMTT(30)
<1>3. Total(g, S) = Total(g, T) + Total(g, S \ T)
  BY <1>0, <1>2, TotalSplit
<1>4. Total(g, T) = 0
  BY <1>0, TotalZero
<1>5. Total(g, S \ T) = Total(f, S \ T)
  BY <1>0, TotalSame
<1>6. IsFiniteSet(T) /\ IsFiniteSet(S \ T)
  BY <1>0, FS_Subset
<1>7. Total(f, T) \in Nat /\ Total(f, S \ T) \in Nat
  BY <1>0, <1>6, TotalType
<1> QED BY <1>1, <1>3, <1>4, <1>5, <1>7, SMTT(30)

\* A change at one member changes the sum by the difference.
LEMMA TotalChange ==
  ASSUME NEW S, IsFiniteSet(S), NEW y \in S, NEW f, \A x \in S : f[x] \in Nat,
         NEW g, g[y] \in Nat, \A x \in S \ {y} : g[x] = f[x]
  PROVE  Total(g, S) = Total(f, S) - f[y] + g[y]
<1>1. Total(f, S) = Total(f, {y}) + Total(f, S \ {y})
  BY TotalSplit
<1>2. \A x \in S : g[x] \in Nat
  OBVIOUS
<1>3. Total(g, S) = Total(g, {y}) + Total(g, S \ {y})
  BY <1>2, TotalSplit
<1>4. Total(f, {y}) = f[y] /\ Total(g, {y}) = g[y]
  BY TotalOne
<1>5. Total(g, S \ {y}) = Total(f, S \ {y})
  BY TotalSame
<1>6. IsFiniteSet(S \ {y})
  BY FS_RemoveElement
<1>7. Total(f, S \ {y}) \in Nat
  BY <1>6, TotalType
<1> QED BY <1>1, <1>3, <1>4, <1>5, <1>7, SMTT(30)

\* The sum of two functions is the function of the sums.
LEMMA TotalAdd ==
  ASSUME NEW S, IsFiniteSet(S), NEW f, NEW g, NEW h,
         \A x \in S : f[x] \in Nat /\ g[x] \in Nat /\ h[x] = f[x] + g[x]
  PROVE  Total(h, S) = Total(f, S) + Total(g, S)
<1> DEFINE P == Points(h, S)
           A == Points(f, S)
           G == Points(g, S)
           up == [z \in G |-> <<z[1], z[2] + f[z[1]]>>]
<1>1. /\ IsFiniteSet(P) /\ IsFiniteSet(A) /\ IsFiniteSet(G)
      /\ Total(h, S) \in Nat /\ Total(f, S) \in Nat /\ Total(g, S) \in Nat
  BY TotalType, SMTT(30)
<1>2. A \subseteq P
  <2> SUFFICES ASSUME NEW z \in A PROVE z \in P
    OBVIOUS
  <2>1. PICK x \in S : \E i \in 1 .. f[x] : z = <<x, i>>
    BY PointsMember, SMTT(30)
  <2>2. \E i \in 1 .. h[x] : z = <<x, i>>
    BY <2>1, SMTT(30)
  <2> QED BY <2>2, PointsMember
<1>3. up \in [G -> P \ A]
  <2> SUFFICES ASSUME NEW z \in G PROVE <<z[1], z[2] + f[z[1]]>> \in P \ A
    OBVIOUS
  <2>1. PICK x \in S : \E i \in 1 .. g[x] : z = <<x, i>>
    BY PointsMember, SMTT(30)
  <2>2. PICK i \in 1 .. g[x] : z = <<x, i>>
    BY <2>1
  <2>3. i + f[x] \in 1 .. h[x] /\ i + f[x] \notin 1 .. f[x]
    BY <2>2, SMTT(30)
  <2>4. <<x, i + f[x]>> \in P
    BY <2>3, PointsMember
  <2>5. <<x, i + f[x]>> \notin A
    BY <2>3, PointsMember, SMTT(30)
  <2> QED BY <2>2, <2>4, <2>5
<1>4. \A a, b \in G : up[a] = up[b] => a = b
  <2> SUFFICES ASSUME NEW a \in G, NEW b \in G, up[a] = up[b] PROVE a = b
    OBVIOUS
  <2>1. PICK x \in S : \E i \in 1 .. g[x] : a = <<x, i>>
    BY PointsMember, SMTT(30)
  <2>2. PICK y \in S : \E j \in 1 .. g[y] : b = <<y, j>>
    BY PointsMember, SMTT(30)
  <2> QED BY <2>1, <2>2, SMTT(30)
<1>5. \A z \in P \ A : \E w \in G : up[w] = z
  <2> SUFFICES ASSUME NEW z \in P \ A PROVE \E w \in G : up[w] = z
    OBVIOUS
  <2>1. PICK x \in S : \E i \in 1 .. h[x] : z = <<x, i>>
    BY PointsMember, SMTT(30)
  <2>2. PICK i \in 1 .. h[x] : z = <<x, i>>
    BY <2>1
  <2>3. i \notin 1 .. f[x]
    BY <2>2, PointsMember
  <2>4. i - f[x] \in 1 .. g[x]
    BY <2>3, SMTT(30)
  <2>5. <<x, i - f[x]>> \in G
    BY <2>4, PointsMember
  <2>6. up[<<x, i - f[x]>>] = z
    BY <2>2, <2>5, SMTT(30)
  <2> QED BY <2>5, <2>6
<1>6. up \in Bijection(G, P \ A)
  <2> HIDE DEF up
  <2> QED BY <1>3, <1>4, <1>5 DEF Bijection, Injection, Surjection, IsInjective
<1>7. Cardinality(P \ A) = Cardinality(G) /\ IsFiniteSet(P \ A)
  BY <1>1, <1>6, FS_Bijection DEF ExistsBijection
<1>8. Cardinality(A \cup (P \ A)) =
        Cardinality(A) + Cardinality(P \ A) - Cardinality(A \cap (P \ A))
  BY <1>1, <1>7, FS_Union
<1>9. A \cup (P \ A) = P /\ A \cap (P \ A) = {}
  BY <1>2
<1>10. Cardinality(A \cap (P \ A)) = 0
  BY <1>9, FS_EmptySet
<1>11. Cardinality(A) \in Nat /\ Cardinality(G) \in Nat
  BY <1>1 DEF Total
<1>12. Cardinality(P) = Cardinality(A) + Cardinality(G)
  <2> HIDE DEF P, A, G
  <2> QED BY <1>7, <1>8, <1>9, <1>10, <1>11, SMTT(30)
<1> QED BY <1>12 DEF Total

-----------------------------------------------------------------------------
(* The table. *)

USE ConfigAssumption, SetAssumption

\* A new receive buffer (data, endpoint.go:639) has accepted no bytes.
LEMMA NoBytesType == NoBytes \in Data
<1>1. NoBytes \in [{} -> Bodies]
  BY DEF NoBytes
<1> QED BY <1>1 DEF Data

\* The zero rpc struct is an rpc struct.
LEMMA BlankType == Blank \in Rpc
<1>1. <<>> \in Seq(Result)
  BY SMTT(30)
<1>2. NoRx \in Rx
  BY NoBytesType DEF NoRx, Rx
<1>3. NoMsg \in Msg
  BY DEF NoMsg, Msg
<1> QED BY <1>1, <1>2, <1>3 DEF Blank, Rpc

\* Header.LocalID maps identifiers to identifiers.
LEMMA LocalIDType ==
  ASSUME NEW id \in Id
  PROVE  LocalID(id) \in Id
BY SMTT(30) DEF LocalID, Id

\* Rounding to whole segments (sendSegment) never loses bytes.
LEMMA RoundUpType ==
  ASSUME NEW n \in Nat
  PROVE  RoundUp(n) \in Nat /\ RoundUp(n) >= n
BY SMTT(30) DEF RoundUp

\* The accepted bytes of a message are a partial function on its offsets.
LEMMA DataType ==
  ASSUME NEW d
  PROVE  d \in Data <=> /\ d = [i \in DOMAIN d |-> d[i]]
                        /\ DOMAIN d \subseteq 0 .. MaxMessageSize - 1
                        /\ \A i \in DOMAIN d : d[i] \in Bodies
<1>1. ASSUME d \in Data
      PROVE  /\ d = [i \in DOMAIN d |-> d[i]]
             /\ DOMAIN d \subseteq 0 .. MaxMessageSize - 1
             /\ \A i \in DOMAIN d : d[i] \in Bodies
  <2>1. PICK S \in SUBSET (0 .. MaxMessageSize - 1) : d \in [S -> Bodies]
    BY <1>1 DEF Data
  <2> QED BY <2>1
<1>2. ASSUME d = [i \in DOMAIN d |-> d[i]],
             DOMAIN d \subseteq 0 .. MaxMessageSize - 1,
             \A i \in DOMAIN d : d[i] \in Bodies
      PROVE  d \in Data
  <2>1. d \in [DOMAIN d -> Bodies]
    BY <1>2
  <2> QED BY <1>2, <2>1 DEF Data
<1> QED BY <1>1, <1>2

\* assembly.count is a natural number.
LEMMA CountType ==
  ASSUME NEW a \in Rx
  PROVE  Count(a) \in Nat /\ IsFiniteSet(DOMAIN a.data)
<1>1. DOMAIN a.data \subseteq 0 .. MaxMessageSize - 1
  BY DataType DEF Rx
<1>2. IsFiniteSet(0 .. MaxMessageSize - 1)
  BY FS_Interval, SMTT(30)
<1> QED BY <1>1, <1>2, FS_Subset, FS_CardinalityType DEF Count

\* sendNew changes only how much of a message was sent.
LEMMA SendNewType ==
  ASSUME NEW r \in Rpc
  PROVE  /\ SendNew(r) \in Rpc
         /\ SendNew(r) = [r EXCEPT !.sent = SendNew(r).sent]
<1> DEFINE upto == Lesser(r.granted, r.tx.len)
<1>1. r.granted \in Nat /\ r.tx.len \in Nat /\ r.sent \in Nat
  BY DEF Rpc, Msg
<1>2. CASE r.sent < upto
  <2>1. upto - r.sent \in Nat
    BY <1>1, <1>2, SMTT(30) DEF Lesser
  <2>2. Lesser(r.tx.len, r.sent + RoundUp(upto - r.sent)) \in Nat
    <3> HIDE DEF upto
    <3> QED BY <1>1, <2>1, RoundUpType, SMTT(30) DEF Lesser
  <2> QED BY <1>2, <2>2 DEF SendNew, Rpc
<1>3. CASE ~(r.sent < upto)
  BY <1>3 DEF SendNew, Rpc
<1> QED BY <1>2, <1>3

-----------------------------------------------------------------------------

\* What a struct holds of the byte budget is a natural number.
LEMMA StoredType ==
  ASSUME NEW r \in Rpc
  PROVE  Stored(r) \in Nat /\ BitBytes(r.rx.len) \in Nat
BY SMTT(30) DEF Stored, BitBytes, Rpc, Rx, Msg

\* So are the sums over all structs and all running handlers.
LEMMA HoldsType ==
  ASSUME NEW s \in Table, NEW S \in SUBSET Obj
  PROVE  /\ \A o \in Obj : Holds(s)[o] \in Nat
         /\ IsFiniteSet(S)
         /\ Total(Holds(s), S) \in Nat
         /\ Total(s.payload, S) \in Nat
<1>1. \A o \in Obj : Holds(s)[o] \in Nat
  BY StoredType DEF Holds, Table
<1>2. IsFiniteSet(S)
  BY FS_Subset
<1>3. \A o \in S : s.payload[o] \in Nat
  BY DEF Table
<1> QED BY <1>1, <1>2, <1>3, TotalType

\* remove leaves a struct with no message and no buffer, under its key
\* if a caller or a handler still refers to it.
LEMMA DetachedType ==
  ASSUME NEW s \in Table, NEW o \in Obj
  PROVE  /\ Detached(s, o) \in Rpc
         /\ Detached(s, o).tx = NoMsg
         /\ Detached(s, o).rx = NoRx
         /\ IsClient(s, o) \/ s.payload[o] > 0
              => /\ Detached(s, o).key = s.rpc[o].key
                 /\ Detached(s, o).result = s.rpc[o].result
         /\ ~IsClient(s, o) /\ ~(s.payload[o] > 0) => Detached(s, o).key = Nil
<1>1. s.rpc[o] \in Rpc
  BY DEF Table
<1>2. Blank \in Rpc /\ Blank.tx = NoMsg /\ Blank.rx = NoRx /\ Blank.key = Nil
  BY BlankType DEF Blank
<1> DEFINE d == [Blank EXCEPT !.key = s.rpc[o].key, !.result = s.rpc[o].result]
<1>3. /\ d \in Rpc /\ d.tx = NoMsg /\ d.rx = NoRx
      /\ d.key = s.rpc[o].key /\ d.result = s.rpc[o].result
  BY <1>1, <1>2 DEF Rpc
<1> HIDE DEF d
<1>4. Detached(s, o) = IF IsClient(s, o) \/ s.payload[o] > 0 THEN d ELSE Blank
  BY DEF Detached, d
<1> QED BY <1>2, <1>3, <1>4

\* What remove, applied to a set of structs, does to each part of the table.
LEMMA RemoveFields ==
  ASSUME NEW s \in Table, NEW S \in SUBSET Obj
  PROVE  /\ Remove(s, S) \in Table
         /\ Remove(s, S).rpcs = [k \in Key |-> IF s.rpcs[k] \in S THEN Nil ELSE s.rpcs[k]]
         /\ Remove(s, S).rpc = [o \in Obj |-> IF o \in S THEN Detached(s, o) ELSE s.rpc[o]]
         /\ Remove(s, S).payload = s.payload
         /\ Remove(s, S).workers = s.workers
         /\ Remove(s, S).buffered = s.buffered - Total(Holds(s), S)
<1>1. Total(Holds(s), S) \in Nat
  BY HoldsType
<1>2. \A o \in Obj : Detached(s, o) \in Rpc
  BY DetachedType
<1> DEFINE F == [k \in Key |-> IF s.rpcs[k] \in S THEN Nil ELSE s.rpcs[k]]
           G == [o \in Obj |-> IF o \in S THEN Detached(s, o) ELSE s.rpc[o]]
           b == s.buffered - Total(Holds(s), S)
<1>3. F \in [Key -> Obj \cup {Nil}] /\ G \in [Obj -> Rpc] /\ b \in Int
  BY <1>1, <1>2, SMTT(30) DEF Table
<1>4. Remove(s, S) = [s EXCEPT !.rpcs = F, !.rpc = G, !.buffered = b]
  BY DEF Remove, Holds, Table
<1> HIDE DEF F, G, b
<1>5. /\ Remove(s, S) \in Table /\ Remove(s, S).rpcs = F /\ Remove(s, S).rpc = G
      /\ Remove(s, S).payload = s.payload /\ Remove(s, S).workers = s.workers
      /\ Remove(s, S).buffered = b
  BY <1>3, <1>4 DEF Table
<1> QED BY <1>5 DEF F, G, b

\* finish delivers a result.
LEMMA OutcomeType ==
  ASSUME NEW r \in Rpc, NEW err \in Errors
  PROVE  Outcome(r, err) \in Result
<1>1. (IF err = "ok" THEN r.rx.data ELSE NoBytes) \in Data
  BY NoBytesType DEF Rpc, Rx
<1>2. (r.sent > 0 \/ r.received) \in BOOLEAN
  OBVIOUS
<1> QED BY <1>1, <1>2 DEF Outcome, Result

\* The table t is what Finish(s, S, err) makes of s.
Finished(s, S, t) ==
  /\ t \in Table
  /\ t.rpcs = [k \in Key |-> IF s.rpcs[k] \in S THEN Nil ELSE s.rpcs[k]]
  /\ t.payload = s.payload
  /\ t.workers = s.workers
  /\ t.buffered = s.buffered - Total(Holds(s), S)
  /\ \A o \in Obj \ S : t.rpc[o] = s.rpc[o]
  /\ \A o \in S : /\ t.rpc[o].tx = NoMsg
                  /\ t.rpc[o].rx = NoRx
                  /\ t.rpc[o].key = Detached(s, o).key
  /\ \A o \in S : IsClient(s, o) =>
       Len(t.rpc[o].result) = Len(s.rpc[o].result) + 1

\* What finish, applied to a set of structs, does to each part of the table.
LEMMA FinishFields ==
  ASSUME NEW s \in Table, NEW S \in SUBSET Obj, NEW err \in Errors
  PROVE  Finished(s, S, Finish(s, S, err))
<1> DEFINE t == Finish(s, S, err)
<1> DEFINE u == Remove(s, S)
           New(o) == [u.rpc[o] EXCEPT !.result = Append(u.rpc[o].result, Outcome(s.rpc[o], err))]
           G == [o \in Obj |-> IF o \in S /\ IsClient(s, o) THEN New(o) ELSE u.rpc[o]]
<1>1. /\ u \in Table
      /\ u.rpcs = [k \in Key |-> IF s.rpcs[k] \in S THEN Nil ELSE s.rpcs[k]]
      /\ u.rpc = [o \in Obj |-> IF o \in S THEN Detached(s, o) ELSE s.rpc[o]]
      /\ u.payload = s.payload /\ u.workers = s.workers
      /\ u.buffered = s.buffered - Total(Holds(s), S)
  BY RemoveFields
<1>2. t = [u EXCEPT !.rpc = G]
  BY <1>1 DEF Finish, Table, Rpc
<1> HIDE DEF u
<1>3. ASSUME NEW o \in Obj
      PROVE  /\ New(o) \in Rpc
             /\ New(o).tx = u.rpc[o].tx /\ New(o).rx = u.rpc[o].rx
             /\ New(o).key = u.rpc[o].key
             /\ Len(New(o).result) = Len(u.rpc[o].result) + 1
  <2>1. u.rpc[o] \in Rpc /\ s.rpc[o] \in Rpc
    BY <1>1 DEF Table
  <2>2. Outcome(s.rpc[o], err) \in Result
    BY <2>1, OutcomeType
  <2>3. /\ Append(u.rpc[o].result, Outcome(s.rpc[o], err)) \in Seq(Result)
        /\ Len(Append(u.rpc[o].result, Outcome(s.rpc[o], err))) = Len(u.rpc[o].result) + 1
    BY <2>1, <2>2, SMTT(30) DEF Rpc
  <2> QED BY <2>1, <2>3 DEF Rpc
<1> HIDE DEF New
<1>4. G \in [Obj -> Rpc]
  BY <1>1, <1>3 DEF Table
<1> HIDE DEF G
<1>5. /\ t \in Table /\ t.rpcs = u.rpcs /\ t.payload = u.payload
      /\ t.workers = u.workers /\ t.buffered = u.buffered /\ t.rpc = G
  BY <1>1, <1>2, <1>4 DEF Table
<1>6. \A o \in Obj \ S : t.rpc[o] = s.rpc[o]
  BY <1>1, <1>5 DEF G
<1>7. ASSUME NEW o \in S
      PROVE  /\ t.rpc[o].tx = NoMsg /\ t.rpc[o].rx = NoRx
             /\ t.rpc[o].key = Detached(s, o).key
             /\ IsClient(s, o) => Len(t.rpc[o].result) = Len(s.rpc[o].result) + 1
  <2>1. u.rpc[o] = Detached(s, o)
    BY <1>1
  <2>2. t.rpc[o] = IF IsClient(s, o) THEN New(o) ELSE u.rpc[o]
    BY <1>5 DEF G
  <2>3. o \in Obj
    OBVIOUS
  <2>4. /\ Detached(s, o).tx = NoMsg /\ Detached(s, o).rx = NoRx
        /\ IsClient(s, o) => Detached(s, o).result = s.rpc[o].result
    BY <2>3, DetachedType
  <2>5. /\ New(o).tx = u.rpc[o].tx /\ New(o).rx = u.rpc[o].rx
        /\ New(o).key = u.rpc[o].key
        /\ Len(New(o).result) = Len(u.rpc[o].result) + 1
    BY <1>3, <2>3
  <2> HIDE DEF t
  <2> QED BY <2>1, <2>2, <2>4, <2>5
<1> HIDE DEF t
<1>8. Finished(s, S, t)
  BY <1>1, <1>5, <1>6, <1>7 DEF Finished
<1> QED BY <1>8 DEF t

-----------------------------------------------------------------------------
(* Steps of the table. *)

\* What a step never takes from the callers: their struct stays theirs, and a
\* call that left the table never comes back.
Keeps(s, t) ==
  /\ \A o \in Obj : s.rpc[o].key \in Key /\ IsClient(s, o) => t.rpc[o].key = s.rpc[o].key
  /\ \A k \in Key : IsClientID(k[2]) => t.rpcs[k] \in {s.rpcs[k], Nil}

\* The structs in the table are structs, each found under its own key.
LEMMA LiveType ==
  ASSUME NEW s \in Table
  PROVE  /\ Live(s) \subseteq Obj
         /\ \A k \in Key : s.rpcs[k] # Nil => s.rpcs[k] \in Live(s)
         /\ Keyed(s) => \A o \in Live(s) : s.rpc[o].key \in Key /\ s.rpcs[s.rpc[o].key] = o
BY SMTT(30) DEF Live, Table, Keyed

\* finish leaves other structs and the running handlers alone.
LEMMA FinishRest ==
  ASSUME NEW s \in Table, NEW S \in SUBSET Obj, NEW err \in Errors
  PROVE  /\ \A o \in Obj \ S : Finish(s, S, err).rpc[o] = s.rpc[o]
         /\ Finish(s, S, err).workers = s.workers
         /\ Finish(s, S, err).payload = s.payload
<1>1. Finished(s, S, Finish(s, S, err))
  BY FinishFields
<1> QED BY <1>1 DEF Finished

\* finish takes exactly its structs out of the table.
LEMMA FinishLive ==
  ASSUME NEW s \in Table, NEW S \in SUBSET Obj, NEW err \in Errors
  PROVE  Live(Finish(s, S, err)) = Live(s) \ S
<1>1. Finished(s, S, Finish(s, S, err))
  BY FinishFields
<1>2. Finish(s, S, err).rpcs = [k \in Key |-> IF s.rpcs[k] \in S THEN Nil ELSE s.rpcs[k]]
  BY <1>1 DEF Finished
<1> QED BY <1>2, SMTT(30) DEF Live, Table

\* finish of any RPCs in the table keeps the table sound: the budget gets
\* back exactly what they held, and each call among them gets one result.
LEMMA FinishGood ==
  ASSUME NEW s, Good(s), NEW S \in SUBSET Live(s), NEW err \in Errors
  PROVE  /\ Good(Finish(s, S, err))
         /\ Keeps(s, Finish(s, S, err))
<1> DEFINE t == Finish(s, S, err)
<1>1. s \in Table /\ Keyed(s) /\ Vacant(s) /\ Serving(s) /\ Unstarted(s)
      /\ Answered(s) /\ Accounted(s) /\ Slots(s)
  BY DEF Good
<1>2. S \in SUBSET Obj /\ Live(s) \subseteq Obj
  BY <1>1, LiveType
<1>3. /\ t \in Table
      /\ t.rpcs = [k \in Key |-> IF s.rpcs[k] \in S THEN Nil ELSE s.rpcs[k]]
      /\ t.payload = s.payload
      /\ t.workers = s.workers
      /\ t.buffered = s.buffered - Total(Holds(s), S)
      /\ \A o \in Obj \ S : t.rpc[o] = s.rpc[o]
      /\ \A o \in S : /\ t.rpc[o].tx = NoMsg
                      /\ t.rpc[o].rx = NoRx
                      /\ t.rpc[o].key = Detached(s, o).key
      /\ \A o \in S : IsClient(s, o) =>
           Len(t.rpc[o].result) = Len(s.rpc[o].result) + 1
  <2>1. Finished(s, S, t)
    BY <1>1, <1>2, FinishFields
  <2> QED BY <2>1 DEF Finished
<1>4. Live(t) = Live(s) \ S
  BY <1>1, <1>2, FinishLive
<1>5. \A o \in S : /\ IsClient(s, o) \/ s.payload[o] > 0 => t.rpc[o].key = s.rpc[o].key
                   /\ ~IsClient(s, o) /\ ~(s.payload[o] > 0) => t.rpc[o].key = Nil
  BY <1>1, <1>2, <1>3, DetachedType, SMTT(30)
<1> HIDE DEF t
<1>6. Nil \notin Key
  BY KeyAssumption
<1>7. Keyed(t)
  BY <1>1, <1>2, <1>3, SMTT(30) DEF Keyed, Table
<1>8. Vacant(t)
  BY <1>1, <1>2, <1>3, <1>4 DEF Vacant
<1>9. Serving(t)
  BY <1>1, <1>2, <1>3, <1>5 DEF Serving, IsClient
<1>10. Unstarted(t)
  BY <1>1, <1>2, <1>3, <1>4 DEF Unstarted, IsClient
<1>11. Answered(t)
  <2> SUFFICES ASSUME NEW o \in Obj, t.rpc[o].key \in Key, IsClient(t, o)
               PROVE  Len(t.rpc[o].result) = IF o \in Live(t) THEN 0 ELSE 1
    BY DEF Answered
  <2>1. CASE o \in S
    <3>1. IsClient(s, o) /\ s.rpc[o].key \in Key
      BY <1>1, <1>2, <1>5, <1>6, <2>1, LiveType DEF IsClient, Serving
    <3>2. o \in Live(s) /\ o \notin Live(t)
      BY <1>4, <2>1
    <3>3. Len(s.rpc[o].result) = 0
      BY <1>1, <3>1, <3>2 DEF Answered
    <3>4. Len(t.rpc[o].result) = Len(s.rpc[o].result) + 1
      BY <1>3, <2>1, <3>1
    <3> QED BY <3>2, <3>3, <3>4, SMTT(30)
  <2>2. CASE o \notin S
    BY <1>1, <1>3, <1>4, <2>2 DEF Answered, IsClient
  <2> QED BY <2>1, <2>2
<1>12. Accounted(t)
  <2>1. \A o \in S : Holds(t)[o] = 0
    BY <1>2, <1>3, SMTT(30) DEF Holds, Stored, BitBytes, NoMsg, NoRx
  <2>2. \A o \in Obj \ S : Holds(t)[o] = Holds(s)[o]
    BY <1>3 DEF Holds
  <2>3. /\ \A o \in Obj : Holds(s)[o] \in Nat
        /\ Total(Holds(s), S) \in Nat /\ Total(Holds(s), Obj) \in Nat
        /\ Total(s.payload, Obj) \in Nat
    BY <1>1, <1>2, HoldsType
  <2>4. Total(Holds(t), Obj) = Total(Holds(s), Obj) - Total(Holds(s), S)
    <3>1. Drops(Holds(s), Holds(t), Obj, S)
      BY <1>2, <2>1, <2>2, <2>3 DEF Drops
    <3> QED BY <3>1, TotalDrop, SMTT(30)
  <2>5. /\ s.buffered = Total(Holds(s), Obj) + Total(s.payload, Obj)
        /\ s.buffered <= MaxBufferedBytes
    BY <1>1 DEF Accounted
  <2>6. t.buffered = s.buffered - Total(Holds(s), S) /\ t.payload = s.payload
    BY <1>3
  <2>7. /\ t.buffered = Total(Holds(t), Obj) + Total(t.payload, Obj)
        /\ t.buffered <= MaxBufferedBytes
    BY <2>3, <2>4, <2>5, <2>6, SMTT(30)
  <2> QED BY <2>7 DEF Accounted
<1>13. Slots(t)
  BY <1>1, <1>3 DEF Slots, Busy
<1>14. Keeps(s, t)
  <2>1. \A o \in Obj : s.rpc[o].key \in Key /\ IsClient(s, o) => t.rpc[o].key = s.rpc[o].key
    BY <1>3, <1>5
  <2>2. \A k \in Key : t.rpcs[k] \in {s.rpcs[k], Nil}
    BY <1>3
  <2> QED BY <2>1, <2>2 DEF Keeps
<1> QED BY <1>3, <1>7, <1>8, <1>9, <1>10, <1>11, <1>12, <1>13, <1>14 DEF Good, t

\* remove without a result keeps the table sound for server RPCs.
LEMMA RemoveGood ==
  ASSUME NEW s, Good(s), NEW S \in SUBSET Live(s), \A o \in S : ~IsClient(s, o)
  PROVE  /\ Good(Remove(s, S))
         /\ Keeps(s, Remove(s, S))
         /\ Live(Remove(s, S)) = Live(s) \ S
         /\ \A o \in Obj \ S : Remove(s, S).rpc[o] = s.rpc[o]
<1> DEFINE t == Remove(s, S)
<1>1. s \in Table /\ S \in SUBSET Obj
  BY LiveType DEF Good
<1>2. t \in Table /\ t.rpc = [o \in Obj |-> IF o \in S THEN Detached(s, o) ELSE s.rpc[o]]
  BY <1>1, RemoveFields
<1>3. Finish(s, S, "ok") =
        [t EXCEPT !.rpc =
          [o \in Obj |->
            IF o \in S /\ IsClient(s, o)
            THEN [t.rpc[o] EXCEPT !.result = Append(@, Outcome(s.rpc[o], "ok"))]
            ELSE t.rpc[o]]]
  BY DEF Finish
<1> HIDE DEF t
<1>4. [o \in Obj |->
         IF o \in S /\ IsClient(s, o)
         THEN [t.rpc[o] EXCEPT !.result = Append(@, Outcome(s.rpc[o], "ok"))]
         ELSE t.rpc[o]] = t.rpc
  BY <1>2
<1>5. Finish(s, S, "ok") = t
  BY <1>2, <1>3, <1>4, SMTT(30) DEF Table
<1>6. "ok" \in Errors
  BY DEF Errors
<1> QED BY <1>1, <1>2, <1>5, <1>6, FinishGood, FinishLive, SMTT(30) DEF t

\* A step that only moves the progress of messages keeps the table good.
SameShape(s, t) ==
  /\ t \in Table
  /\ t.rpcs = s.rpcs /\ t.payload = s.payload
  /\ t.buffered = s.buffered /\ t.workers = s.workers
  /\ \A o \in Obj : /\ t.rpc[o].key = s.rpc[o].key
                    /\ t.rpc[o].tx = s.rpc[o].tx
                    /\ t.rpc[o].rx.len = s.rpc[o].rx.len
                    /\ t.rpc[o].handling = s.rpc[o].handling
                    /\ t.rpc[o].result = s.rpc[o].result
                    /\ o \notin Live(s) => t.rpc[o].rx = s.rpc[o].rx

\* Such a step keeps the table sound.
LEMMA ShapeGood ==
  ASSUME NEW s, Good(s), NEW t, SameShape(s, t)
  PROVE  Good(t) /\ Keeps(s, t) /\ Live(t) = Live(s)
<1>1. Live(t) = Live(s)
  BY DEF Live, SameShape
<1>2. s \in Table /\ t \in Table
  BY DEF Good, SameShape
<1>3. Live(s) \subseteq Obj
  BY <1>2, LiveType
<1>4. Keyed(t)
  BY <1>2, SMTT(30) DEF Good, Keyed, SameShape, Table
<1>5. Vacant(t)
  BY <1>1 DEF Good, Vacant, SameShape
<1>6. Serving(t)
  BY DEF Good, Serving, SameShape, IsClient
<1>7. Unstarted(t)
  BY <1>1, <1>3 DEF Good, Unstarted, SameShape, IsClient
<1>8. Answered(t)
  BY <1>1 DEF Good, Answered, SameShape, IsClient
<1>9. Accounted(t)
  <2>1. \A o \in Obj : Holds(t)[o] = Holds(s)[o]
    BY DEF Holds, Stored, SameShape
  <2>2. Total(Holds(t), Obj) = Total(Holds(s), Obj)
    BY <2>1, TotalSame
  <2> QED BY <2>2 DEF Good, Accounted, SameShape
<1>10. Slots(t)
  BY DEF Good, Slots, Busy, SameShape
<1>11. Keeps(s, t)
  BY DEF Keeps, SameShape
<1> QED BY <1>1, <1>2, <1>4, <1>5, <1>6, <1>7, <1>8, <1>9, <1>10, <1>11 DEF Good

\* The parts of one critical section compose.
LEMMA KeepsTransitive ==
  ASSUME NEW s, NEW t, NEW u, Keeps(s, t), Keeps(t, u)
  PROVE  Keeps(s, u)
BY DEF Keeps, IsClient

\* schedule changes only what was granted.
LEMMA ScheduleGood ==
  ASSUME NEW s, Good(s), NEW rank
  PROVE  /\ Good(Schedule(s, rank))
         /\ Keeps(s, Schedule(s, rank))
         /\ Live(Schedule(s, rank)) = Live(s)
<1> DEFINE Wider(o) == [s.rpc[o] EXCEPT !.rx.granted = Window(s.rpc[o].rx)]
           G == [o \in Obj |-> IF o \in Granted(s, rank) THEN Wider(o) ELSE s.rpc[o]]
           t == Schedule(s, rank)
<1>1. s \in Table
  BY DEF Good
<1>2. ASSUME NEW o \in Obj
      PROVE  /\ Wider(o) \in Rpc
             /\ Wider(o).key = s.rpc[o].key
             /\ Wider(o).tx = s.rpc[o].tx
             /\ Wider(o).rx.len = s.rpc[o].rx.len
             /\ Wider(o).handling = s.rpc[o].handling
             /\ Wider(o).result = s.rpc[o].result
  <2> DEFINE a == s.rpc[o].rx
             b == [a EXCEPT !.granted = Window(a)]
  <2>1. s.rpc[o] \in Rpc /\ a \in Rx
    BY <1>1 DEF Table, Rpc
  <2>2. Window(a) \in Nat
    <3>1. Count(a) \in Nat /\ a.len \in Nat
      BY <2>1, CountType DEF Rx
    <3> QED BY <3>1, SMTT(30) DEF Window, Lesser
  <2>3. b \in Rx /\ b.len = a.len
    BY <2>1, <2>2 DEF Rx
  <2>4. Wider(o) = [s.rpc[o] EXCEPT !.rx = b]
    BY <2>1 DEF Rpc
  <2> HIDE DEF b, Wider
  <2> QED BY <2>1, <2>3, <2>4 DEF Rpc
<1>3. t = [s EXCEPT !.rpc = G]
  BY DEF Schedule
<1>4. Granted(s, rank) \subseteq Live(s)
  BY DEF Granted, Candidates
<1> HIDE DEF Wider, t
<1>5. G \in [Obj -> Rpc]
  BY <1>1, <1>2 DEF Table
<1>6. SameShape(s, t)
  <2>1. /\ t \in Table /\ t.rpcs = s.rpcs /\ t.payload = s.payload
        /\ t.buffered = s.buffered /\ t.workers = s.workers /\ t.rpc = G
    <3> HIDE DEF G
    <3> QED BY <1>1, <1>3, <1>5 DEF Table
  <2> QED BY <1>2, <1>4, <2>1 DEF SameShape
<1> QED BY <1>6, ShapeGood DEF t

\* A started RPC has no receive buffer any more.
LEMMA StartedType ==
  ASSUME NEW r \in Rpc
  PROVE  /\ Started(r) \in Rpc
         /\ Started(r).key = r.key /\ Started(r).tx = r.tx /\ Started(r).rx = NoRx
         /\ Started(r).handling = TRUE /\ Started(r).result = r.result
<1>1. NoRx \in Rx
  BY NoBytesType DEF NoRx, Rx
<1> QED BY <1>1 DEF Started, Rpc

\* The length of every receive buffer.
Lengths(s) == [o \in Obj |-> s.rpc[o].rx.len]

\* The lengths of buffers and bitmaps, and their sums, are natural numbers.
LEMMA LengthsType ==
  ASSUME NEW s \in Table, NEW W \in SUBSET Obj
  PROVE  /\ \A o \in Obj : Lengths(s)[o] \in Nat /\ Bits(s)[o] \in Nat
         /\ Total(Lengths(s), W) \in Nat /\ Total(Bits(s), W) \in Nat
<1>1. \A o \in Obj : s.rpc[o] \in Rpc
  BY DEF Table
<1>2. \A o \in Obj : Lengths(s)[o] \in Nat /\ Bits(s)[o] \in Nat
  BY <1>1, StoredType DEF Lengths, Bits, Rpc, Rx
<1>3. IsFiniteSet(W)
  BY FS_Subset
<1> QED BY <1>2, <1>3, TotalType

\* What starting the handlers of a set of requests does to each part of
\* the table.
LEMMA StartFields ==
  ASSUME NEW s \in Table, NEW W \in SUBSET Obj
  PROVE  /\ Start(s, W) \in Table
         /\ Start(s, W).rpcs = s.rpcs
         /\ Start(s, W).rpc = [o \in Obj |-> IF o \in W THEN Started(s.rpc[o]) ELSE s.rpc[o]]
         /\ Start(s, W).payload =
              [o \in Obj |-> IF o \in W THEN Lengths(s)[o] ELSE s.payload[o]]
         /\ Start(s, W).buffered = s.buffered - Total(Bits(s), W)
         /\ Start(s, W).workers = s.workers + Cardinality(W)
<1> DEFINE G == [o \in Obj |-> IF o \in W THEN Started(s.rpc[o]) ELSE s.rpc[o]]
           P == [o \in Obj |-> IF o \in W THEN Lengths(s)[o] ELSE s.payload[o]]
           b == s.buffered - Total(Bits(s), W)
           n == s.workers + Cardinality(W)
<1>1. G \in [Obj -> Rpc]
  BY StartedType DEF Table
<1>2. P \in [Obj -> Nat]
  BY LengthsType DEF Table
<1>3. b \in Int
  BY LengthsType, SMTT(30) DEF Table
<1>4. n \in Int
  BY FS_Subset, FS_CardinalityType, SMTT(30) DEF Table
<1>5. P = [o \in Obj |-> IF o \in W THEN s.rpc[o].rx.len ELSE s.payload[o]]
  BY DEF Lengths
<1>6. Start(s, W) = [s EXCEPT !.rpc = G, !.payload = P, !.buffered = b, !.workers = n]
  BY <1>5 DEF Start, Table
<1> HIDE DEF G, P, b, n
<1>7. /\ Start(s, W) \in Table /\ Start(s, W).rpcs = s.rpcs /\ Start(s, W).rpc = G
      /\ Start(s, W).payload = P /\ Start(s, W).buffered = b /\ Start(s, W).workers = n
  BY <1>1, <1>2, <1>3, <1>4, <1>6 DEF Table
<1> QED BY <1>7 DEF G, P, b, n

\* Starting handlers keeps the table sound: the bitmap is given back, the
\* payload moves from the struct to the handler, a slot is taken for each.
LEMMA StartGood ==
  ASSUME NEW s, Good(s), NEW W \in SUBSET Live(s),
         \A o \in W : ~IsClient(s, o) /\ ~s.rpc[o].handling /\ s.rpc[o].rx.len > 0,
         s.workers + Cardinality(W) <= HandlerWorkers
  PROVE  Good(Start(s, W)) /\ Keeps(s, Start(s, W)) /\ Live(Start(s, W)) = Live(s)
<1> DEFINE u == Start(s, W)
<1>1. s \in Table /\ Live(s) \subseteq Obj /\ W \in SUBSET Obj
  BY LiveType DEF Good
<1>2. /\ u \in Table
      /\ u.rpcs = s.rpcs
      /\ u.rpc = [o \in Obj |-> IF o \in W THEN Started(s.rpc[o]) ELSE s.rpc[o]]
      /\ u.payload = [o \in Obj |-> IF o \in W THEN Lengths(s)[o] ELSE s.payload[o]]
      /\ u.buffered = s.buffered - Total(Bits(s), W)
      /\ u.workers = s.workers + Cardinality(W)
  BY <1>1, StartFields
<1> HIDE DEF u
<1>3. u \in Table /\ u.rpcs = s.rpcs
  BY <1>2
<1>4. /\ \A o \in Obj \ W : u.rpc[o] = s.rpc[o]
      /\ \A o \in W : u.rpc[o] = Started(s.rpc[o]) /\ s.rpc[o] \in Rpc
  <2>1. u.rpc = [o \in Obj |-> IF o \in W THEN Started(s.rpc[o]) ELSE s.rpc[o]]
    BY <1>2
  <2> QED BY <1>1, <2>1 DEF Table
<1>5. \A o \in W : /\ u.rpc[o].key = s.rpc[o].key
                   /\ u.rpc[o].tx = s.rpc[o].tx
                   /\ u.rpc[o].rx = NoRx
                   /\ u.rpc[o].handling = TRUE
                   /\ u.rpc[o].result = s.rpc[o].result
  <2> SUFFICES ASSUME NEW o \in W
               PROVE  /\ u.rpc[o].key = s.rpc[o].key /\ u.rpc[o].tx = s.rpc[o].tx
                      /\ u.rpc[o].rx = NoRx /\ u.rpc[o].handling = TRUE
                      /\ u.rpc[o].result = s.rpc[o].result
    OBVIOUS
  <2>1. u.rpc[o] = Started(s.rpc[o]) /\ s.rpc[o] \in Rpc
    BY <1>4
  <2>2. /\ Started(s.rpc[o]).key = s.rpc[o].key
        /\ Started(s.rpc[o]).tx = s.rpc[o].tx
        /\ Started(s.rpc[o]).rx = NoRx
        /\ Started(s.rpc[o]).handling = TRUE
        /\ Started(s.rpc[o]).result = s.rpc[o].result
    BY <2>1, StartedType
  <2> QED BY <2>1, <2>2
<1>6. /\ \A o \in Obj \ W : u.payload[o] = s.payload[o]
      /\ \A o \in W : u.payload[o] = s.rpc[o].rx.len
  <2>1. u.payload = [o \in Obj |-> IF o \in W THEN Lengths(s)[o] ELSE s.payload[o]]
    BY <1>2
  <2> QED BY <1>1, <2>1 DEF Lengths
<1>7. \A o \in W : s.rpc[o].tx = NoMsg /\ s.payload[o] = 0 /\ s.rpc[o].key \in Key
  BY <1>1, LiveType DEF Good, Unstarted
<1>8. Live(u) = Live(s)
  BY <1>3 DEF Live
<1>9. \A o \in Obj : /\ u.rpc[o].key = s.rpc[o].key
                     /\ u.rpc[o].tx = s.rpc[o].tx
                     /\ u.rpc[o].result = s.rpc[o].result
  BY <1>4, <1>5
<1>10. Keyed(u)
  BY <1>1, <1>3, <1>9, SMTT(30) DEF Good, Keyed, Table
<1>11. Vacant(u)
  BY <1>1, <1>4, <1>8 DEF Good, Vacant
<1>12. Serving(u)
  BY <1>1, <1>6, <1>7, <1>9 DEF Good, Serving, IsClient
<1>13. Unstarted(u)
  BY <1>1, <1>4, <1>5, <1>6, <1>8 DEF Good, Unstarted, IsClient
<1>14. Answered(u)
  BY <1>8, <1>9 DEF Good, Answered, IsClient
<1>15. Accounted(u)
  <2> DEFINE B == Bits(s)
             L == Lengths(s)
  <2>1. \A o \in Obj : Holds(s)[o] \in Nat /\ B[o] \in Nat /\ L[o] \in Nat
                       /\ s.payload[o] \in Nat /\ u.payload[o] \in Nat
    BY <1>1, <1>3, LengthsType, HoldsType DEF Table
  <2>2. IsFiniteSet(W) /\ IsFiniteSet(Obj)
    BY <1>1, FS_Subset
  <2>3. \A o \in W : Holds(s)[o] = L[o] + B[o]
    BY <1>1, <1>7, <2>1, SMTT(30) DEF Holds, Stored, NoMsg, Bits, Lengths
  <2>4. Total(Holds(s), W) = Total(L, W) + Total(B, W)
    BY <1>1, <2>1, <2>2, <2>3, TotalAdd
  <2>5. Total(Holds(u), Obj) = Total(Holds(s), Obj) - Total(Holds(s), W)
    <3>1. \A o \in W : Holds(u)[o] = 0
      BY <1>1, <1>5, <1>7, SMTT(30) DEF Holds, Stored, BitBytes, NoMsg, NoRx
    <3>2. \A o \in Obj \ W : Holds(u)[o] = Holds(s)[o]
      BY <1>4 DEF Holds
    <3>3. Drops(Holds(s), Holds(u), Obj, W)
      BY <1>1, <2>1, <2>2, <3>1, <3>2 DEF Drops
    <3> QED BY <3>3, TotalDrop, SMTT(30)
  <2>6. Total(s.payload, Obj) = Total(u.payload, Obj) - Total(u.payload, W)
    <3>1. Drops(u.payload, s.payload, Obj, W)
      BY <1>1, <1>6, <1>7, <2>1, <2>2 DEF Drops
    <3> QED BY <3>1, TotalDrop, SMTT(30)
  <2>7. Total(u.payload, W) = Total(L, W)
    <3>1. \A o \in W : u.payload[o] = L[o]
      BY <1>1, <1>6 DEF Lengths
    <3> QED BY <3>1, TotalSame
  <2>8. /\ Total(Holds(s), Obj) \in Nat /\ Total(s.payload, Obj) \in Nat
        /\ Total(u.payload, Obj) \in Nat /\ Total(Holds(u), Obj) \in Nat
    BY <1>1, <1>3, HoldsType
  <2>9. Total(L, W) \in Nat /\ Total(B, W) \in Nat
    BY <1>1, LengthsType
  <2>10. /\ s.buffered = Total(Holds(s), Obj) + Total(s.payload, Obj)
         /\ s.buffered <= MaxBufferedBytes
    BY DEF Good, Accounted
  <2>11. u.buffered = s.buffered - Total(B, W)
    BY <1>2
  <2> HIDE DEF L, B
  <2>12. u.buffered = Total(Holds(u), Obj) + Total(u.payload, Obj)
    BY <2>4, <2>5, <2>6, <2>7, <2>8, <2>9, <2>10, <2>11, SMTT(30)
  <2>13. u.buffered <= MaxBufferedBytes
    BY <2>8, <2>9, <2>10, <2>11, SMTT(30)
  <2> QED BY <2>12, <2>13 DEF Accounted
<1>16. Slots(u)
  <2>1. Busy(u) = Busy(s) \cup W /\ Busy(s) \cap W = {}
    BY <1>1, <1>6, <1>7, SMTT(30) DEF Busy
  <2>2. IsFiniteSet(W) /\ IsFiniteSet(Busy(s))
    BY <1>1, FS_Subset DEF Busy
  <2>3. Cardinality(Busy(s) \cup W) =
          Cardinality(Busy(s)) + Cardinality(W) - Cardinality(Busy(s) \cap W)
    BY <2>2, FS_Union
  <2>4. /\ Cardinality(Busy(s) \cap W) = 0
        /\ Cardinality(Busy(s)) \in Nat /\ Cardinality(W) \in Nat
    BY <2>1, <2>2, FS_EmptySet, FS_CardinalityType
  <2>5. s.workers = Cardinality(Busy(s))
    BY DEF Good, Slots
  <2>6. u.workers = s.workers + Cardinality(W)
    BY <1>2
  <2> QED BY <2>1, <2>3, <2>4, <2>5, <2>6, SMTT(30) DEF Slots
<1>17. Keeps(s, u)
  BY <1>3, <1>9 DEF Keeps
<1> QED BY <1>3, <1>8, <1>10, <1>11, <1>12, <1>13, <1>14, <1>15, <1>16, <1>17 DEF Good, u

\* startHandler for a set of waiting requests, the expired ones finished,
\* keeps the table sound.
LEMMA StartHandlersGood ==
  ASSUME NEW s, Good(s), NEW T \in SUBSET Live(s), \A o \in T : ~IsClient(s, o),
         NEW W \in Starters(s, T)
  PROVE  /\ Good(StartHandlers(s, T, W))
         /\ Keeps(s, StartHandlers(s, T, W))
         /\ Live(StartHandlers(s, T, W)) \subseteq Live(s)
<1> DEFINE D == Overdue(s, T)
           t == Finish(s, D, "deadline")
<1>1. s \in Table /\ Live(s) \subseteq Obj
  BY LiveType DEF Good
<1>2. D \subseteq T /\ W \subseteq Startable(s, T) \ D
  BY DEF Overdue, Startable, Starters
<1>3. "deadline" \in Errors
  BY DEF Errors
<1>4. Good(t) /\ Keeps(s, t)
  BY <1>2, <1>3, FinishGood
<1>5. D \in SUBSET Obj
  BY <1>1, <1>2
<1>6. Live(t) = Live(s) \ D
  BY <1>1, <1>3, <1>5, FinishLive
<1>7. (\A o \in Obj \ D : t.rpc[o] = s.rpc[o]) /\ t.workers = s.workers
  BY <1>1, <1>3, <1>5, FinishRest, SMTT(30)
<1> HIDE DEF t
<1>8. W \subseteq Live(t)
  BY <1>2, <1>6 DEF Startable
<1>9. \A o \in W : ~IsClient(t, o) /\ ~t.rpc[o].handling /\ t.rpc[o].rx.len > 0
  BY <1>1, <1>2, <1>7 DEF Startable, IsClient
<1>10. t.workers + Cardinality(W) <= HandlerWorkers
  <2> DEFINE ready == Startable(s, T) \ D
  <2>1. IsFiniteSet(ready)
    BY <1>1, FS_Subset DEF Startable
  <2>2. Cardinality(ready) \in Nat
    BY <2>1, FS_CardinalityType
  <2>3. Cardinality(W) = Lesser(HandlerWorkers - s.workers, Cardinality(ready))
    BY DEF Starters
  <2>4. s.workers \in Int
    BY <1>1 DEF Table
  <2> HIDE DEF ready
  <2> QED BY <1>7, <2>2, <2>3, <2>4, SMTT(30) DEF Lesser
<1>11. Good(Start(t, W)) /\ Keeps(t, Start(t, W)) /\ Live(Start(t, W)) = Live(t)
  BY <1>4, <1>8, <1>9, <1>10, StartGood
<1>12. StartHandlers(s, T, W) = Start(t, W)
  BY DEF StartHandlers, t
<1> QED BY <1>4, <1>6, <1>11, <1>12, KeepsTransitive

-----------------------------------------------------------------------------
(* The stages of the RPCs (Sound), and what a step tells of the structs before it. *)

\* No handler of s starts between s and t, and what may start in t may in s.
Backs(s, t) ==
  \A o \in Obj : /\ o \in Live(t) /\ Fresh(t.rpc[o]) => Fresh(s.rpc[o])
                 /\ t.payload[o] > 0 => s.payload[o] > 0

\* Every struct outside S is where it should be.
SoundBut(s, S) ==
  \A o \in Obj \ S : IF o \in Live(s) THEN Alive(s.rpc[o]) ELSE Fresh(s.rpc[o])

\* The steps of one critical section compose, as long as no RPC enters the table.
LEMMA BacksTransitive ==
  ASSUME NEW s, NEW t, NEW u, Backs(s, t), Backs(t, u), Live(u) \subseteq Live(t)
  PROVE  Backs(s, u)
BY DEF Backs

\* remove (endpoint.go) leaves the other RPCs in their stages, and the struct it
\* detaches as good as new.
LEMMA RemoveSound ==
  ASSUME NEW s, Good(s), NEW S \in SUBSET Live(s), SoundBut(s, S), \A o \in S : ~IsClient(s, o)
  PROVE  Sound(Remove(s, S)) /\ Backs(s, Remove(s, S))
<1> DEFINE t == Remove(s, S)
<1>1. s \in Table /\ S \in SUBSET Obj
  BY LiveType DEF Good
<1>2. Live(t) = Live(s) \ S
  BY RemoveGood
<1>3. /\ t.payload = s.payload
      /\ t.rpc = [o \in Obj |-> IF o \in S THEN Detached(s, o) ELSE s.rpc[o]]
  BY <1>1, RemoveFields
<1>4. \A o \in S : Fresh(Detached(s, o))
  BY DEF Fresh, Detached, Blank
<1> HIDE DEF t
<1> QED BY <1>1, <1>2, <1>3, <1>4, SMTT(30) DEF Sound, SoundBut, Backs, t

\* So does finish, which also answers the calls among them.
LEMMA FinishSound ==
  ASSUME NEW s, Good(s), Sound(s), NEW S \in SUBSET Live(s), NEW err \in Errors
  PROVE  Sound(Finish(s, S, err)) /\ Backs(s, Finish(s, S, err))
<1> DEFINE t == Finish(s, S, err)
           u == Remove(s, S)
           New(o) == [u.rpc[o] EXCEPT !.result = Append(u.rpc[o].result, Outcome(s.rpc[o], err))]
           G == [o \in Obj |-> IF o \in S /\ IsClient(s, o) THEN New(o) ELSE u.rpc[o]]
<1>1. s \in Table /\ S \in SUBSET Obj
  BY LiveType DEF Good
<1>2. u \in Table /\ u.rpc = [o \in Obj |-> IF o \in S THEN Detached(s, o) ELSE s.rpc[o]]
  BY <1>1, RemoveFields
<1>3. /\ Live(t) = Live(s) \ S /\ t.payload = s.payload
      /\ \A o \in Obj \ S : t.rpc[o] = s.rpc[o]
  BY <1>1, FinishLive, FinishRest, SMTT(30)
<1>4. t.rpc = G
  <2>1. t = [u EXCEPT !.rpc = G]
    BY <1>2 DEF Finish, Table, Rpc
  <2> HIDE DEF G, t, u
  <2> QED BY <1>2, <2>1 DEF Table
<1> HIDE DEF u, t
<1>5. ASSUME NEW o \in S PROVE Fresh(t.rpc[o])
  <2>1. /\ u.rpc[o] \in Rpc /\ u.rpc[o] = Detached(s, o) /\ o \in Obj
    BY <1>1, <1>2 DEF Table
  <2>2. Fresh(Detached(s, o))
    BY DEF Fresh, Detached, Blank
  <2>3. New(o).handling = u.rpc[o].handling /\ New(o).expired = u.rpc[o].expired
    BY <2>1 DEF Rpc
  <2>4. t.rpc[o] = New(o) \/ t.rpc[o] = u.rpc[o]
    BY <1>4, <2>1
  <2> HIDE DEF New, G
  <2> QED BY <2>1, <2>2, <2>3, <2>4 DEF Fresh
<1> HIDE DEF G
<1> QED BY <1>1, <1>3, <1>5 DEF Sound, Backs, t

\* A struct that differs from r in its grants to the peer or its result at most.
Alike(r, q) ==
  /\ q.key = r.key /\ q.tx = r.tx /\ q.sent = r.sent /\ q.granted = r.granted
  /\ q.received = r.received /\ q.handling = r.handling /\ q.expired = r.expired
  /\ q.rx.len = r.rx.len /\ q.rx.data = r.rx.data

\* Such a struct is in the same stage: stages do not depend on grants to the peer.
LEMMA AlikeSound ==
  ASSUME NEW r, NEW q, Alike(r, q)
  PROVE  (Alive(r) => Alive(q)) /\ (Fresh(r) <=> Fresh(q))
BY DEF Alike, Alive, Paces, Staged, Fresh, Count

\* schedule only hands out grants: no RPC changes its stage.
LEMMA ScheduleSound ==
  ASSUME NEW s, Good(s), Sound(s), NEW rank
  PROVE  Sound(Schedule(s, rank)) /\ Backs(s, Schedule(s, rank))
<1> DEFINE Wider(o) == [s.rpc[o] EXCEPT !.rx.granted = Window(s.rpc[o].rx)]
           G == [o \in Obj |-> IF o \in Granted(s, rank) THEN Wider(o) ELSE s.rpc[o]]
           t == Schedule(s, rank)
<1>1. s \in Table /\ Live(t) = Live(s)
  BY ScheduleGood DEF Good
<1>2. t.rpc = G /\ t.payload = s.payload
  <2>1. t = [s EXCEPT !.rpc = G]
    BY DEF Schedule
  <2> HIDE DEF G, t
  <2> QED BY <1>1, <2>1 DEF Table
<1>3. ASSUME NEW o \in Obj PROVE Alike(s.rpc[o], t.rpc[o])
  <2>1. s.rpc[o] \in Rpc /\ s.rpc[o].rx \in Rx
    BY <1>1 DEF Table, Rpc
  <2>2. Alike(s.rpc[o], s.rpc[o])
    BY DEF Alike
  <2>3. Alike(s.rpc[o], Wider(o))
    BY <2>1 DEF Alike, Rpc, Rx
  <2> HIDE DEF Wider, t
  <2> QED BY <1>2, <2>2, <2>3
<1> HIDE DEF t
<1>4. ASSUME NEW o \in Obj
      PROVE  (Alive(s.rpc[o]) => Alive(t.rpc[o])) /\ (Fresh(s.rpc[o]) <=> Fresh(t.rpc[o]))
  BY <1>3, AlikeSound
<1> QED BY <1>1, <1>2, <1>4 DEF Sound, Backs, t

\* A request whose handler starts has been received.
LEMMA StartSound ==
  ASSUME NEW s, Good(s), Sound(s), NEW W \in SUBSET Live(s),
         \A o \in W : s.rpc[o].received
  PROVE  /\ Sound(Start(s, W))
         /\ \A o \in Obj : Start(s, W).payload[o] > 0 => o \in W \/ s.payload[o] > 0
<1> DEFINE t == Start(s, W)
<1>1. s \in Table /\ W \in SUBSET Obj
  BY LiveType DEF Good
<1>2. /\ t.rpcs = s.rpcs
      /\ t.rpc = [o \in Obj |-> IF o \in W THEN Started(s.rpc[o]) ELSE s.rpc[o]]
      /\ t.payload = [o \in Obj |-> IF o \in W THEN Lengths(s)[o] ELSE s.payload[o]]
  BY <1>1, StartFields
<1>3. Live(t) = Live(s)
  BY <1>2, SMTT(30) DEF Live
<1>4. ASSUME NEW o \in W PROVE Alive(Started(s.rpc[o]))
  <2> DEFINE r == s.rpc[o]
             q == Started(r)
  <2>1. r \in Rpc /\ r.received /\ Alive(r)
    BY <1>1 DEF Table, Sound
  <2> HIDE DEF r
  <2>2. /\ q.key = r.key /\ q.tx = r.tx /\ q.sent = r.sent /\ q.granted = r.granted
        /\ q.received = r.received /\ q.handling = TRUE /\ q.rx = NoRx
    BY <2>1 DEF Started, Rpc
  <2> HIDE DEF q
  <2>3. Alive(q)
    BY <2>1, <2>2, SMTT(30) DEF Alive, Paces, Staged, NoRx
  <2> QED BY <2>3 DEF q, r
<1> HIDE DEF t
<1> QED BY <1>1, <1>2, <1>3, <1>4, SMTT(30) DEF Sound, t

\* startHandler starts received requests, none of them for the second time or
\* after its deadline.
LEMMA StartHandlersSound ==
  ASSUME NEW s, Good(s), Sound(s), NEW T \in SUBSET Live(s),
         \A o \in T : ~IsClient(s, o) /\ s.rpc[o].received,
         NEW W \in Starters(s, T)
  PROVE  /\ Sound(StartHandlers(s, T, W))
         /\ \A o \in Obj : StartHandlers(s, T, W).payload[o] > 0 =>
              s.payload[o] > 0 \/ (o \in Live(s) /\ Fresh(s.rpc[o]))
<1> DEFINE D == Overdue(s, T)
           t == Finish(s, D, "deadline")
<1>1. s \in Table /\ D \in SUBSET Live(s) /\ D \in SUBSET Obj /\ "deadline" \in Errors
  BY LiveType DEF Good, Overdue, Startable, Errors
<1>2. /\ W \in SUBSET Live(s) /\ W \cap D = {}
      /\ \A o \in W : o \in T /\ Fresh(s.rpc[o])
  BY <1>1 DEF Starters, Startable, Overdue, Fresh
<1> HIDE DEF D
<1>3. Good(t) /\ Sound(t) /\ Backs(s, t)
  BY <1>1, FinishGood, FinishSound
<1>4. /\ Live(t) = Live(s) \ D /\ t.payload = s.payload
      /\ \A o \in Obj \ D : t.rpc[o] = s.rpc[o]
  BY <1>1, FinishLive, FinishRest, SMTT(30)
<1> HIDE DEF t
<1>5. W \in SUBSET Live(t) /\ \A o \in W : t.rpc[o].received
  BY <1>1, <1>2, <1>4, LiveType
<1>6. /\ Sound(Start(t, W))
      /\ \A o \in Obj : Start(t, W).payload[o] > 0 => o \in W \/ t.payload[o] > 0
  BY <1>3, <1>5, StartSound
<1>7. StartHandlers(s, T, W) = Start(t, W)
  BY DEF StartHandlers, t, D
<1> QED BY <1>2, <1>4, <1>6, <1>7

-----------------------------------------------------------------------------
(* One RPC. *)

\* An RPC of the table changes what it stores, and the budget with it.
Store(s, o, r) ==
  [s EXCEPT !.rpc[o] = r, !.buffered = @ - Stored(s.rpc[o]) + Stored(r)]

\* It keeps the table sound as long as the budget is not exceeded.
LEMMA StoreGood ==
  ASSUME NEW s, Good(s), NEW o \in Live(s), NEW r \in Rpc,
         r.key = s.rpc[o].key, r.result = s.rpc[o].result, r.handling = s.rpc[o].handling,
         s.payload[o] > 0 => r.tx = NoMsg,
         ~IsClient(s, o) /\ ~s.rpc[o].handling => r.tx = NoMsg,
         s.buffered - Stored(s.rpc[o]) + Stored(r) <= MaxBufferedBytes
  PROVE  Good(Store(s, o, r)) /\ Keeps(s, Store(s, o, r)) /\ Live(Store(s, o, r)) = Live(s)
<1> DEFINE t == Store(s, o, r)
           b == s.buffered - Stored(s.rpc[o]) + Stored(r)
<1>1. s \in Table /\ Live(s) \subseteq Obj /\ o \in Obj
  BY LiveType DEF Good
<1>2. s.rpc[o] \in Rpc /\ Stored(s.rpc[o]) \in Nat /\ Stored(r) \in Nat
  BY <1>1, StoredType DEF Table
<1>3. b \in Int
  BY <1>1, <1>2, SMTT(30) DEF Table
<1>4. /\ t \in Table /\ t.rpcs = s.rpcs /\ t.payload = s.payload
      /\ t.workers = s.workers /\ t.buffered = b
      /\ t.rpc = [s.rpc EXCEPT ![o] = r]
  <2>1. t = [s EXCEPT !.rpc = [s.rpc EXCEPT ![o] = r], !.buffered = b]
    BY <1>1 DEF Store, Table
  <2>2. [s.rpc EXCEPT ![o] = r] \in [Obj -> Rpc]
    BY <1>1 DEF Table
  <2> HIDE DEF t, b
  <2> QED BY <1>1, <1>3, <2>1, <2>2 DEF Table
<1> HIDE DEF t
<1>5. t.rpc[o] = r /\ \A x \in Obj \ {o} : t.rpc[x] = s.rpc[x]
  BY <1>1, <1>4 DEF Table
<1>6. Live(t) = Live(s)
  BY <1>4, SMTT(30) DEF Live
<1>7. \A x \in Obj : /\ t.rpc[x].key = s.rpc[x].key
                     /\ t.rpc[x].result = s.rpc[x].result
                     /\ t.rpc[x].handling = s.rpc[x].handling
  BY <1>5
<1>8. Keyed(t)
  BY <1>1, <1>4, <1>7, SMTT(30) DEF Good, Keyed, Table
<1>9. Vacant(t)
  BY <1>5, <1>6 DEF Good, Vacant
<1>10. Serving(t)
  BY <1>4, <1>5, <1>7 DEF Good, Serving, IsClient
<1>11. Unstarted(t)
  BY <1>1, <1>4, <1>5, <1>6, <1>7, SMTT(30) DEF Good, Unstarted, IsClient
<1>12. Answered(t)
  BY <1>6, <1>7 DEF Good, Answered, IsClient
<1>13. Accounted(t)
  <2>1. /\ \A x \in Obj : Holds(s)[x] \in Nat
        /\ Total(Holds(s), Obj) \in Nat /\ Total(s.payload, Obj) \in Nat
    BY <1>1, HoldsType
  <2>2. Holds(t)[o] = Stored(r) /\ Holds(s)[o] = Stored(s.rpc[o])
    BY <1>1, <1>5 DEF Holds
  <2>3. \A x \in Obj \ {o} : Holds(t)[x] = Holds(s)[x]
    BY <1>5 DEF Holds
  <2>4. Holds(t)[o] \in Nat
    BY <1>2, <2>2
  <2>5. Total(Holds(t), Obj) = Total(Holds(s), Obj) - Holds(s)[o] + Holds(t)[o]
    BY <1>1, <2>1, <2>3, <2>4, TotalChange, SMTT(30)
  <2>6. s.buffered = Total(Holds(s), Obj) + Total(s.payload, Obj)
    BY DEF Good, Accounted
  <2> QED BY <1>2, <1>4, <2>1, <2>2, <2>5, <2>6, SMTT(30) DEF Accounted
<1>14. Slots(t)
  BY <1>4 DEF Good, Slots, Busy
<1>15. Keeps(s, t)
  BY <1>4, <1>7 DEF Keeps
<1> QED BY <1>4, <1>6, <1>8, <1>9, <1>10, <1>11, <1>12, <1>13, <1>14, <1>15 DEF Good, t

\* A free struct enters the table under a key that is not in use.
Enter(s, key, o, r) ==
  [s EXCEPT !.rpcs[key] = o, !.rpc[o] = r, !.buffered = @ + Stored(r)]

\* The table t is what Enter(s, key, o, r) makes of s.
Entered(s, key, o, r, t) ==
  /\ Good(t)
  /\ Live(t) = Live(s) \cup {o}
  /\ o \notin Live(s)
  /\ t.rpcs = [s.rpcs EXCEPT ![key] = o]
  /\ t.rpc[o] = r
  /\ \A x \in Obj \ {o} : t.rpc[x] = s.rpc[x]

\* It keeps the table sound as long as the budget is not exceeded.
LEMMA EnterGood ==
  ASSUME NEW s, Good(s), NEW o \in Obj, s.rpc[o].key = Nil,
         NEW key \in Key, s.rpcs[key] = Nil,
         NEW r \in Rpc, r.key = key, r.rx = NoRx, r.result = <<>>, r.handling = FALSE,
         ~IsClientID(key[2]) => r.tx = NoMsg,
         s.buffered + Stored(r) <= MaxBufferedBytes
  PROVE  Entered(s, key, o, r, Enter(s, key, o, r))
<1> DEFINE t == Enter(s, key, o, r)
           b == s.buffered + Stored(r)
<1>1. s \in Table /\ Live(s) \subseteq Obj /\ o # Nil
  BY LiveType DEF Good
<1>2. o \notin Live(s)
  BY <1>1, LiveType, KeyAssumption, SMTT(30) DEF Good
<1>3. s.rpc[o] \in Rpc /\ Stored(s.rpc[o]) = 0 /\ Stored(r) \in Nat
  <2>1. s.rpc[o] \in Rpc /\ Stored(r) \in Nat
    BY <1>1, StoredType DEF Table
  <2>2. s.rpc[o].tx = NoMsg /\ s.rpc[o].rx = NoRx
    BY <1>2 DEF Good, Vacant
  <2> QED BY <2>1, <2>2, SMTT(30) DEF Stored, BitBytes, NoMsg, NoRx
<1>4. s.payload[o] = 0
  <2>1. s.payload[o] \in Nat
    BY <1>1 DEF Table
  <2> QED BY <2>1, KeyAssumption, SMTT(30) DEF Good, Serving
<1>5. /\ t \in Table /\ t.rpcs = [s.rpcs EXCEPT ![key] = o] /\ t.payload = s.payload
      /\ t.workers = s.workers /\ t.buffered = b
      /\ t.rpc = [s.rpc EXCEPT ![o] = r]
  <2>1. t = [s EXCEPT !.rpcs = [s.rpcs EXCEPT ![key] = o],
                      !.rpc = [s.rpc EXCEPT ![o] = r], !.buffered = b]
    BY <1>1 DEF Enter, Table
  <2>2. /\ [s.rpc EXCEPT ![o] = r] \in [Obj -> Rpc]
        /\ [s.rpcs EXCEPT ![key] = o] \in [Key -> Obj \cup {Nil}]
    BY <1>1 DEF Table
  <2>3. b \in Int
    BY <1>1, <1>3, SMTT(30) DEF Table
  <2> HIDE DEF t, b
  <2> QED BY <1>1, <2>1, <2>2, <2>3 DEF Table
<1> HIDE DEF t
<1>6. /\ t.rpc[o] = r /\ \A x \in Obj \ {o} : t.rpc[x] = s.rpc[x]
      /\ t.rpcs[key] = o /\ \A k \in Key \ {key} : t.rpcs[k] = s.rpcs[k]
  BY <1>1, <1>5, SMTT(30) DEF Table
<1>7. Live(t) = Live(s) \cup {o}
  BY <1>1, <1>6, SMTT(30) DEF Live
<1>8. Keyed(t)
  <2> SUFFICES ASSUME NEW k \in Key, t.rpcs[k] # Nil PROVE t.rpc[t.rpcs[k]].key = k
    BY DEF Keyed
  <2>1. CASE k = key
    BY <1>6, <2>1
  <2>2. CASE k # key
    <3>1. t.rpcs[k] = s.rpcs[k] /\ s.rpcs[k] \in Live(s)
      BY <1>1, <1>6, <2>2, LiveType
    <3>2. t.rpc[s.rpcs[k]] = s.rpc[s.rpcs[k]]
      BY <1>1, <1>2, <1>6, <3>1
    <3>3. s.rpc[s.rpcs[k]].key = k
      BY <3>1, <2>2 DEF Good, Keyed
    <3> QED BY <3>1, <3>2, <3>3
  <2> QED BY <2>1, <2>2
<1>9. Vacant(t)
  BY <1>6, <1>7 DEF Good, Vacant
<1>10. Serving(t)
  BY <1>4, <1>5, <1>6, SMTT(30) DEF Good, Serving, IsClient
<1>11. Unstarted(t)
  <2> SUFFICES ASSUME NEW x \in Live(t), ~IsClient(t, x), ~t.rpc[x].handling
               PROVE  t.rpc[x].tx = NoMsg /\ t.payload[x] = 0
    BY DEF Unstarted
  <2>1. CASE x = o
    BY <1>4, <1>5, <1>6, <2>1 DEF IsClient
  <2>2. CASE x # o
    <3>1. x \in Live(s) /\ x \in Obj /\ t.rpc[x] = s.rpc[x]
      BY <1>1, <1>6, <1>7, <2>2
    <3> QED BY <1>5, <3>1 DEF Good, Unstarted, IsClient
  <2> QED BY <2>1, <2>2
<1>12. Answered(t)
  <2> SUFFICES ASSUME NEW x \in Obj, t.rpc[x].key \in Key, IsClient(t, x)
               PROVE  Len(t.rpc[x].result) = IF x \in Live(t) THEN 0 ELSE 1
    BY DEF Answered
  <2>1. CASE x = o
    BY <1>6, <1>7, <2>1
  <2>2. CASE x # o
    BY <1>6, <1>7, <2>2 DEF Good, Answered, IsClient
  <2> QED BY <2>1, <2>2
<1>13. Accounted(t)
  <2>1. /\ \A x \in Obj : Holds(s)[x] \in Nat
        /\ Total(Holds(s), Obj) \in Nat /\ Total(s.payload, Obj) \in Nat
    BY <1>1, HoldsType
  <2>2. Holds(t)[o] = Stored(r) /\ Holds(s)[o] = 0
    BY <1>3, <1>6 DEF Holds
  <2>3. \A x \in Obj \ {o} : Holds(t)[x] = Holds(s)[x]
    BY <1>6 DEF Holds
  <2>4. Holds(t)[o] \in Nat
    BY <1>3, <2>2
  <2>5. Total(Holds(t), Obj) = Total(Holds(s), Obj) - Holds(s)[o] + Holds(t)[o]
    BY <2>1, <2>3, <2>4, TotalChange, SMTT(30)
  <2>6. s.buffered = Total(Holds(s), Obj) + Total(s.payload, Obj)
    BY DEF Good, Accounted
  <2> QED BY <1>3, <1>5, <2>1, <2>2, <2>5, <2>6, SMTT(30) DEF Accounted
<1>14. Slots(t)
  BY <1>5 DEF Good, Slots, Busy
<1>15. Good(t)
  BY <1>5, <1>8, <1>9, <1>10, <1>11, <1>12, <1>13, <1>14 DEF Good
<1> QED BY <1>2, <1>5, <1>6, <1>7, <1>15 DEF t, Entered

\* An RPC of the table changes, but not what it stores.
LEMMA TuneGood ==
  ASSUME NEW s, Good(s), NEW o \in Live(s), NEW r \in Rpc,
         r.key = s.rpc[o].key, r.tx = s.rpc[o].tx, r.rx.len = s.rpc[o].rx.len,
         r.handling = s.rpc[o].handling, r.result = s.rpc[o].result,
         NEW t, t = [s EXCEPT !.rpc[o] = r]
  PROVE  Good(t) /\ Keeps(s, t) /\ Live(t) = Live(s) /\ t.rpc[o] = r
<1>1. s \in Table /\ o \in Obj
  BY LiveType DEF Good
<1>2. /\ t \in Table /\ t.rpcs = s.rpcs /\ t.payload = s.payload
      /\ t.buffered = s.buffered /\ t.workers = s.workers
      /\ t.rpc = [s.rpc EXCEPT ![o] = r]
  <2>1. [s.rpc EXCEPT ![o] = r] \in [Obj -> Rpc]
    BY <1>1 DEF Table
  <2> QED BY <1>1, <2>1 DEF Table
<1>3. t.rpc[o] = r /\ \A x \in Obj \ {o} : t.rpc[x] = s.rpc[x]
  BY <1>1, <1>2 DEF Table
<1>4. SameShape(s, t)
  BY <1>2, <1>3 DEF SameShape
<1> QED BY <1>3, <1>4, ShapeGood

\* A handler goroutine gives back its slot and its payload.
Freed(s, o) ==
  [s EXCEPT !.workers = @ - 1, !.buffered = @ - s.payload[o], !.payload[o] = 0,
            !.rpc[o] = IF Current(s, o) THEN @ ELSE Blank]

\* Giving them back keeps the table sound, whether or not the RPC is still
\* in it (startHandler, endpoint.go:717-720).
LEMMA FreedGood ==
  ASSUME NEW s, Good(s), NEW o \in Obj, s.payload[o] > 0
  PROVE  /\ Good(Freed(s, o)) /\ Keeps(s, Freed(s, o)) /\ Live(Freed(s, o)) = Live(s)
         /\ Current(s, o) <=> o \in Live(s)
         /\ Current(s, o) => Freed(s, o).rpc[o] = s.rpc[o]
         /\ Freed(s, o).payload[o] = 0
<1> DEFINE t == Freed(s, o)
           r == IF Current(s, o) THEN s.rpc[o] ELSE Blank
           G == [s.rpc EXCEPT ![o] = r]
           P == [s.payload EXCEPT ![o] = 0]
           b == s.buffered - s.payload[o]
           n == s.workers - 1
<1>1. s \in Table /\ Live(s) \subseteq Obj /\ s.rpc[o] \in Rpc /\ s.payload[o] \in Nat
  BY LiveType DEF Good, Table
<1>2. s.rpc[o].key \in Key /\ ~IsClient(s, o) /\ s.rpc[o].tx = NoMsg
  BY DEF Good, Serving
<1>3. Current(s, o) <=> o \in Live(s)
  <2>1. ASSUME Current(s, o) PROVE o \in Live(s)
    BY <1>1, <1>2, <2>1, LiveType, SMTT(30) DEF Current
  <2>2. ASSUME o \in Live(s) PROVE Current(s, o)
    BY <1>1, <2>2, LiveType DEF Current, Good
  <2> QED BY <2>1, <2>2
<1>4. r \in Rpc
  BY <1>1, BlankType
<1>5. G \in [Obj -> Rpc] /\ P \in [Obj -> Nat] /\ b \in Int /\ n \in Int
  <2> HIDE DEF r
  <2> QED BY <1>1, <1>4, SMTT(30) DEF Table
<1>6. t = [s EXCEPT !.workers = n, !.buffered = b, !.payload = P, !.rpc = G]
  BY <1>1 DEF Freed, Table
<1>7. /\ t \in Table /\ t.rpcs = s.rpcs /\ t.rpc = G /\ t.payload = P
      /\ t.buffered = b /\ t.workers = n
  <2> HIDE DEF t, G, P, b, n
  <2> QED BY <1>1, <1>5, <1>6 DEF Table
<1>8. /\ t.rpc[o] = r /\ \A x \in Obj \ {o} : t.rpc[x] = s.rpc[x]
      /\ t.payload[o] = 0 /\ \A x \in Obj \ {o} : t.payload[x] = s.payload[x]
  <2> HIDE DEF t, r
  <2> QED BY <1>1, <1>7 DEF Table
<1> HIDE DEF t
<1>9. Live(t) = Live(s)
  BY <1>7, SMTT(30) DEF Live
<1>10. o \in Live(s) => t.rpc[o] = s.rpc[o]
  BY <1>3, <1>8
<1>11. o \notin Live(s) => t.rpc[o] = Blank
  BY <1>3, <1>8
<1> HIDE DEF r
<1>12. Keyed(t)
  <2> SUFFICES ASSUME NEW k \in Key, t.rpcs[k] # Nil PROVE t.rpc[t.rpcs[k]].key = k
    BY DEF Keyed
  <2>1. s.rpcs[k] \in Live(s) /\ t.rpcs[k] = s.rpcs[k]
    BY <1>1, <1>7, LiveType
  <2>2. t.rpc[s.rpcs[k]] = s.rpc[s.rpcs[k]]
    BY <1>1, <1>8, <1>10, <2>1
  <2> QED BY <2>1, <2>2, <1>7 DEF Good, Keyed
<1>13. Vacant(t)
  <2>1. Blank.tx = NoMsg /\ Blank.rx = NoRx
    BY DEF Blank
  <2> QED BY <1>8, <1>9, <1>11, <2>1 DEF Good, Vacant
<1>14. Serving(t)
  BY <1>8, SMTT(30) DEF Good, Serving, IsClient
<1>15. Unstarted(t)
  BY <1>1, <1>8, <1>9, <1>10 DEF Good, Unstarted, IsClient
<1>16. Answered(t)
  <2> SUFFICES ASSUME NEW x \in Obj, t.rpc[x].key \in Key, IsClient(t, x)
               PROVE  Len(t.rpc[x].result) = IF x \in Live(t) THEN 0 ELSE 1
    BY DEF Answered
  <2>1. x # o
    <3>1. Blank.key = Nil
      BY DEF Blank
    <3> QED BY <1>2, <1>10, <1>11, <3>1, KeyAssumption DEF IsClient
  <2> QED BY <1>8, <1>9, <2>1 DEF Good, Answered, IsClient
<1>17. Accounted(t)
  <2>1. /\ \A x \in Obj : Holds(s)[x] \in Nat /\ s.payload[x] \in Nat
        /\ Total(Holds(s), Obj) \in Nat /\ Total(s.payload, Obj) \in Nat
    BY <1>1, HoldsType DEF Table
  <2>2. Holds(t)[o] = Holds(s)[o]
    <3>1. CASE o \in Live(s)
      BY <1>10, <3>1 DEF Holds
    <3>2. CASE o \notin Live(s)
      <4>1. s.rpc[o].rx = NoRx /\ Blank.rx = NoRx /\ Blank.tx = NoMsg
        BY <3>2 DEF Good, Vacant, Blank
      <4> QED BY <1>2, <1>11, <3>2, <4>1 DEF Holds, Stored
    <3> QED BY <3>1, <3>2
  <2>3. \A x \in Obj : Holds(t)[x] = Holds(s)[x]
    BY <1>8, <2>2 DEF Holds
  <2>4. Total(Holds(t), Obj) = Total(Holds(s), Obj)
    BY <2>3, TotalSame
  <2>5. Total(t.payload, Obj) = Total(s.payload, Obj) - s.payload[o] + t.payload[o]
    <3>1. t.payload[o] \in Nat
      BY <1>8, SMTT(30)
    <3> QED BY <1>8, <2>1, <3>1, TotalChange, SMTT(30)
  <2>6. /\ s.buffered = Total(Holds(s), Obj) + Total(s.payload, Obj)
        /\ s.buffered <= MaxBufferedBytes
    BY DEF Good, Accounted
  <2> QED BY <1>1, <1>7, <1>8, <2>1, <2>4, <2>5, <2>6, SMTT(30) DEF Accounted
<1>18. Slots(t)
  <2>1. Busy(t) = Busy(s) \ {o} /\ o \in Busy(s)
    BY <1>8, SMTT(30) DEF Busy
  <2>2. IsFiniteSet(Busy(s))
    BY FS_Subset DEF Busy
  <2>3. Cardinality(Busy(s) \ {o}) = Cardinality(Busy(s)) - 1
    BY ONLY <2>1, <2>2, FS_RemoveElement
  <2>4. Cardinality(Busy(s)) \in Nat
    BY ONLY <2>2, FS_CardinalityType
  <2> QED BY <1>7, <2>1, <2>3, <2>4, SMTT(30) DEF Good, Slots
<1>19. Keeps(s, t)
  BY <1>2, <1>7, <1>8 DEF Keeps
<1>20. Good(t)
  BY <1>7, <1>12, <1>13, <1>14, <1>15, <1>16, <1>17, <1>18 DEF Good
<1> QED BY <1>3, <1>8, <1>9, <1>10, <1>19, <1>20 DEF t

\* A struct out of the table, with no handler, becomes garbage.
LEMMA ForgetGood ==
  ASSUME NEW s, Good(s), NEW o \in Obj, o \notin Live(s), s.payload[o] = 0,
         NEW t, t = [s EXCEPT !.rpc[o] = Blank]
  PROVE  /\ Good(t) /\ Live(t) = Live(s) /\ t.rpcs = s.rpcs
         /\ \A x \in Obj \ {o} : t.rpc[x] = s.rpc[x]
<1>1. s \in Table /\ Live(s) \subseteq Obj
  BY LiveType DEF Good
<1>2. /\ t \in Table /\ t.rpcs = s.rpcs /\ t.payload = s.payload
      /\ t.buffered = s.buffered /\ t.workers = s.workers
      /\ t.rpc = [s.rpc EXCEPT ![o] = Blank]
  <2>1. [s.rpc EXCEPT ![o] = Blank] \in [Obj -> Rpc]
    BY <1>1, BlankType DEF Table
  <2> QED BY <1>1, <2>1 DEF Table
<1>3. t.rpc[o] = Blank /\ \A x \in Obj \ {o} : t.rpc[x] = s.rpc[x]
  BY <1>1, <1>2 DEF Table
<1>4. Live(t) = Live(s)
  BY <1>2, SMTT(30) DEF Live
<1>5. Blank.tx = NoMsg /\ Blank.rx = NoRx /\ Blank.key = Nil
  BY DEF Blank
<1>6. Keyed(t)
  BY <1>1, <1>2, <1>3, LiveType, SMTT(30) DEF Good, Keyed
<1>7. Vacant(t)
  BY <1>3, <1>4, <1>5 DEF Good, Vacant
<1>8. Serving(t)
  BY <1>2, <1>3, SMTT(30) DEF Good, Serving, IsClient
<1>9. Unstarted(t)
  BY <1>1, <1>2, <1>3, <1>4 DEF Good, Unstarted, IsClient
<1>10. Answered(t)
  BY <1>3, <1>4, <1>5, KeyAssumption DEF Good, Answered, IsClient
<1>11. Accounted(t)
  <2>1. s.rpc[o].tx = NoMsg /\ s.rpc[o].rx = NoRx
    BY DEF Good, Vacant
  <2>2. \A x \in Obj : Holds(t)[x] = Holds(s)[x]
    BY <1>3, <1>5, <2>1, SMTT(30) DEF Holds, Stored
  <2>3. Total(Holds(t), Obj) = Total(Holds(s), Obj)
    BY <2>2, TotalSame
  <2> QED BY <1>2, <2>3 DEF Good, Accounted
<1>12. Slots(t)
  BY <1>2 DEF Good, Slots, Busy
<1> QED BY <1>2, <1>3, <1>4, <1>6, <1>7, <1>8, <1>9, <1>10, <1>11, <1>12 DEF Good

\* The RPC a DATA packet is for, existing or new, leaves the table sound.
LEMMA ClaimGood ==
  ASSUME NEW s, Good(s), NEW key \in Key, NEW o \in Claims(s, key),
         \A x \in Free(e) : x \in Obj /\ s.rpc[x].key = Nil,
         Cardinality(Live(s)) <= MaxRPCs
  PROVE  /\ Good(Claim(s, key, o)) /\ Keeps(s, Claim(s, key, o))
         /\ Cardinality(Live(Claim(s, key, o))) <= MaxRPCs
         /\ o \in Live(Claim(s, key, o))
         /\ Claim(s, key, o).rpc[o].key = key
<1>1. s \in Table /\ Live(s) \subseteq Obj /\ s.rpcs[key] \in Obj \cup {Nil}
  BY LiveType DEF Good, Table
<1>2. CASE s.rpcs[key] # Nil
  <2>1. o = s.rpcs[key] /\ Claim(s, key, o) = s
    BY <1>2 DEF Claims, Claim
  <2>2. o \in Live(s) /\ s.rpc[o].key = key
    BY <1>1, <1>2, <2>1, LiveType DEF Good, Keyed
  <2>3. Keeps(s, s)
    BY DEF Keeps
  <2> QED BY <2>1, <2>2, <2>3
<1>3. CASE s.rpcs[key] = Nil
  <2> DEFINE r == [Blank EXCEPT !.key = key]
             t == Enter(s, key, o, r)
  <2>1. /\ ~IsClientID(key[2]) /\ Cardinality(Live(s)) < MaxRPCs
        /\ o \in Obj /\ s.rpc[o].key = Nil
    <3>1. o \in Free(e) /\ ~IsClientID(key[2]) /\ ~(Cardinality(Live(s)) >= MaxRPCs)
      BY <1>3 DEF Claims
    <3>2. IsFiniteSet(Live(s))
      BY <1>1, FS_Subset
    <3>3. Cardinality(Live(s)) \in Nat
      BY <3>2, FS_CardinalityType
    <3> QED BY <3>1, <3>3, SMTT(30)
  <2>2. /\ r \in Rpc /\ r.key = key /\ r.rx = NoRx /\ r.result = <<>>
        /\ r.handling = FALSE /\ r.tx = NoMsg /\ Stored(r) = 0
    <3>1. r \in Rpc
      BY BlankType DEF Rpc
    <3> QED BY <3>1, SMTT(30) DEF Blank, Stored, NoMsg, NoRx, BitBytes
  <2>3. Claim(s, key, o) = t
    <3>1. s.rpcs[key] # o
      BY <1>3, <2>1
    <3> HIDE DEF r
    <3>2. s.buffered + Stored(r) = s.buffered
      BY <1>1, <2>2, SMTT(30) DEF Table
    <3>3. Claim(s, key, o) = [s EXCEPT !.rpcs[key] = o, !.rpc[o] = r]
      BY <3>1 DEF Claim, r
    <3> QED BY <1>1, <3>2, <3>3 DEF Enter, Table
  <2>4. s.buffered + Stored(r) <= MaxBufferedBytes
    BY <1>1, <2>2, SMTT(30) DEF Good, Accounted, Table
  <2> HIDE DEF r
  <2>5. /\ Good(t) /\ Live(t) = Live(s) \cup {o} /\ o \notin Live(s)
        /\ t.rpcs = [s.rpcs EXCEPT ![key] = o] /\ t.rpc[o] = r
        /\ \A x \in Obj \ {o} : t.rpc[x] = s.rpc[x]
    <3>1. Entered(s, key, o, r, t)
      BY <1>3, <2>1, <2>2, <2>4, EnterGood
    <3> QED BY <3>1 DEF Entered
  <2> HIDE DEF t
  <2>6. Keeps(s, t)
    <3>1. \A x \in Obj : s.rpc[x].key \in Key => t.rpc[x].key = s.rpc[x].key
      BY <2>1, <2>5, KeyAssumption
    <3>2. \A k \in Key : IsClientID(k[2]) => t.rpcs[k] = s.rpcs[k]
      BY <1>1, <2>1, <2>5 DEF Table
    <3> QED BY <3>1, <3>2 DEF Keeps
  <2>7. Cardinality(Live(t)) <= MaxRPCs
    <3>1. IsFiniteSet(Live(s))
      BY <1>1, FS_Subset
    <3>2. Cardinality(Live(s)) \in Nat
      BY <3>1, FS_CardinalityType
    <3>3. Cardinality(Live(s) \cup {o}) = Cardinality(Live(s)) + 1
      BY <2>5, <3>1, FS_AddElement
    <3> QED BY <2>1, <2>5, <3>2, <3>3, SMTT(30)
  <2> QED BY <2>2, <2>3, <2>5, <2>6, <2>7
<1> QED BY <1>2, <1>3

\* Allocating a receive buffer that the budget has room for.
LEMMA OpenGood ==
  ASSUME NEW s, Good(s), NEW o \in Live(s), NEW p,
         p.len \in Nat, p.incoming \in Nat,
         s.rpc[o].rx.len > 0 \/ Room(s, OpenCost(s.rpc[o], p))
  PROVE  /\ Good(Open(s, o, p)) /\ Keeps(s, Open(s, o, p))
         /\ Live(Open(s, o, p)) = Live(s)
<1>1. s \in Table /\ o \in Obj /\ s.rpc[o] \in Rpc /\ s.buffered \in Int
  BY LiveType DEF Good, Table
<1>2. /\ s.rpc[o].rx \in Rx /\ s.rpc[o].rx.len \in Nat
      /\ s.rpc[o].tx \in Msg /\ s.rpc[o].tx.len \in Nat
  BY <1>1 DEF Rpc, Rx, Msg
<1>3. CASE s.rpc[o].rx.len > 0
  <2>1. Open(s, o, p) = s
    BY <1>3 DEF Open
  <2> QED BY <2>1 DEF Keeps
<1>4. CASE ~(s.rpc[o].rx.len > 0)
  <2> DEFINE tx == IF IsClient(s, o) THEN NoMsg ELSE s.rpc[o].tx
             rx == [len |-> p.len, data |-> NoBytes, granted |-> p.incoming]
             r == [s.rpc[o] EXCEPT !.rx = rx, !.tx = tx]
             cost == p.len + BitBytes(p.len)
  <2>1. s.rpc[o].rx.len = 0
    BY <1>2, <1>4, SMTT(30)
  <2>2. OpenCost(s.rpc[o], p) = cost /\ cost \in Nat
    <3>1. BitBytes(p.len) \in Nat /\ cost \in Nat
      BY SMTT(30) DEF BitBytes
    <3> QED BY <2>1, <3>1 DEF OpenCost
  <2>3. tx \in Msg /\ rx \in Rx /\ rx.len = p.len /\ tx.len \in Nat /\ tx.len <= s.rpc[o].tx.len
    <3>1. rx \in Rx /\ rx.len = p.len
      BY NoBytesType DEF Rx
    <3>2. NoMsg \in Msg /\ NoMsg.len = 0
      BY SMTT(30) DEF NoMsg, Msg
    <3>3. tx \in {NoMsg, s.rpc[o].tx}
      OBVIOUS
    <3>4. 0 \in Nat /\ \A n \in Nat : 0 <= n /\ n <= n
      BY SMTT(30)
    <3> HIDE DEF tx, rx
    <3> QED BY <1>2, <3>1, <3>2, <3>3, <3>4
  <2> HIDE DEF tx, rx
  <2>4. /\ r \in Rpc /\ r.key = s.rpc[o].key /\ r.result = s.rpc[o].result
        /\ r.handling = s.rpc[o].handling /\ r.tx = tx /\ r.rx = rx
    BY <1>1, <2>3 DEF Rpc
  <2>5. Stored(s.rpc[o]) = s.rpc[o].tx.len /\ Stored(r) = tx.len + cost
    BY <1>2, <2>1, <2>2, <2>3, <2>4, SMTT(30) DEF Stored, BitBytes
  <2> HIDE DEF cost
  <2>6. Open(s, o, p) = [s EXCEPT !.rpc[o] = r,
                                  !.buffered = @ + cost - (s.rpc[o].tx.len - tx.len)]
    <3>1. Open(s, o, p) = [s EXCEPT !.rpc[o].rx = rx, !.rpc[o].tx = tx,
                             !.buffered = @ + OpenCost(s.rpc[o], p) - (s.rpc[o].tx.len - tx.len)]
      BY <1>4 DEF Open, rx, tx
    <3> QED BY <1>1, <2>2, <3>1, ZenonT(60) DEF Table, Rpc
  <2> HIDE DEF r
  <2>7. Open(s, o, p) = Store(s, o, r)
    <3>1. s.buffered + cost - (s.rpc[o].tx.len - tx.len) = s.buffered - Stored(s.rpc[o]) + Stored(r)
      <4>1. {s.buffered, s.rpc[o].tx.len, tx.len, cost} \subseteq Int
        BY <1>1, <1>2, <2>2, <2>3, SMTT(30)
      <4> QED BY <2>5, <4>1, SMTT(30)
    <3> QED BY <1>1, <2>6, <3>1 DEF Store, Table
  <2>8. s.buffered - Stored(s.rpc[o]) + Stored(r) <= MaxBufferedBytes
    <3>1. cost <= MaxBufferedBytes - s.buffered
      BY <1>4, <2>2 DEF Room
    <3> QED BY <1>1, <1>2, <2>2, <2>3, <2>5, <3>1, SMTT(30)
  <2>9. s.payload[o] > 0 => r.tx = NoMsg
    BY <1>1, <2>4 DEF Good, Serving, tx
  <2>10. ~IsClient(s, o) /\ ~s.rpc[o].handling => r.tx = NoMsg
    BY <1>1, <2>4 DEF Good, Unstarted, tx
  <2>11. /\ Good(Store(s, o, r)) /\ Keeps(s, Store(s, o, r))
         /\ Live(Store(s, o, r)) = Live(s)
    BY <2>4, <2>8, <2>9, <2>10, StoreGood
  <2> QED BY <2>7, <2>11
<1> QED BY <1>3, <1>4

\* Accepting the bytes of a valid packet.
LEMMA FillType ==
  ASSUME NEW a \in Rx, NEW p, p.off \in Nat, p.n \in Nat, p.incoming \in Nat,
         p.body \in Bodies, p.off + p.n <= MaxMessageSize
  PROVE  Fill(a, p) \in Rx /\ Fill(a, p).len = a.len
<1> DEFINE D == DOMAIN a.data \cup Span(p)
           d == [i \in D |-> IF i \in DOMAIN a.data THEN a.data[i] ELSE p.body]
<1>1. /\ DOMAIN a.data \subseteq 0 .. MaxMessageSize - 1
      /\ \A i \in DOMAIN a.data : a.data[i] \in Bodies
  BY DataType DEF Rx
<1>2. Span(p) \subseteq 0 .. MaxMessageSize - 1
  BY SMTT(30) DEF Span
<1>3. d \in [D -> Bodies] /\ D \in SUBSET (0 .. MaxMessageSize - 1)
  BY <1>1, <1>2
<1>4. d \in Data
  BY <1>3 DEF Data
<1>5. Greater(a.granted, p.incoming) \in Nat
  BY DEF Greater, Rx
<1>6. Fill(a, p) = [a EXCEPT !.data = d, !.granted = Greater(a.granted, p.incoming)]
  BY DEF Fill, Rx
<1> HIDE DEF d
<1> QED BY <1>4, <1>5, <1>6 DEF Rx

\* The fields each type of packet has.
LEMMA PacketFields ==
  ASSUME NEW p \in Incoming
  PROVE  /\ p.type = "DATA" => /\ p.len \in Nat /\ p.off \in Nat /\ p.n \in Nat
                               /\ p.incoming \in Nat /\ p.body \in Bodies
                               /\ p.acks \in SUBSET Id
         /\ p.type \in {"GRANT", "RESEND"} => p.off \in Nat /\ p.n \in Nat
         /\ p.type = "ACK" => p.acks \in SUBSET Id
         /\ p.type = "CUTOFFS" => p.version \in Nat
BY IncomingAssumption DEF Packets

\* The table once the bytes of p are in the buffer of o, and once they were the
\* last ones.
Accepted(s, o, p) == [Open(s, o, p) EXCEPT !.rpc[o].rx = Fill(@, p)]

Completed(s, o) == [s EXCEPT !.rpc[o].received = TRUE]

\* Accepting bytes keeps the table sound.
LEMMA AcceptGood ==
  ASSUME NEW s, Good(s), NEW o \in Live(s), NEW p \in Incoming, p.type = "DATA", ValidData(p),
         s.rpc[o].rx.len > 0 \/ Room(s, OpenCost(s.rpc[o], p))
  PROVE  /\ Good(Accepted(s, o, p)) /\ Keeps(s, Accepted(s, o, p))
         /\ Live(Accepted(s, o, p)) = Live(s)
<1> DEFINE t == Open(s, o, p)
           u == Accepted(s, o, p)
<1>1. /\ p.len \in Nat /\ p.off \in Nat /\ p.n \in Nat /\ p.incoming \in Nat /\ p.body \in Bodies
      /\ p.off + p.n <= MaxMessageSize
  BY PacketFields, SMTT(30) DEF ValidData
<1>2. Good(t) /\ Keeps(s, t) /\ Live(t) = Live(s)
  BY <1>1, OpenGood
<1>3. u = [t EXCEPT !.rpc[o].rx = Fill(@, p)]
  BY DEF Accepted
<1> HIDE DEF t, u
<1>4. /\ t \in Table /\ o \in Live(t) /\ o \in Obj /\ t.rpc[o] \in Rpc /\ t.rpc[o].rx \in Rx
  <2>1. t \in Table /\ o \in Live(t) /\ o \in Obj
    BY <1>2, LiveType DEF Good
  <2>2. t.rpc[o] \in Rpc
    BY <2>1 DEF Table
  <2> QED BY <2>1, <2>2 DEF Rpc
<1>5. Good(u) /\ Keeps(t, u) /\ Live(u) = Live(t)
  <2> DEFINE a == Fill(t.rpc[o].rx, p)
             r == [t.rpc[o] EXCEPT !.rx = a]
  <2>1. a \in Rx /\ a.len = t.rpc[o].rx.len
    BY <1>1, <1>4, FillType
  <2>2. u = [t EXCEPT !.rpc[o] = r]
    BY <1>3, <1>4 DEF Table
  <2> HIDE DEF a
  <2>3. /\ r \in Rpc /\ r.key = t.rpc[o].key /\ r.tx = t.rpc[o].tx /\ r.rx = a
        /\ r.handling = t.rpc[o].handling /\ r.result = t.rpc[o].result
    BY <1>4, <2>1 DEF Rpc
  <2> HIDE DEF r
  <2> QED BY <1>2, <1>4, <2>1, <2>2, <2>3, TuneGood, SMTT(30)
<1>6. Keeps(s, u)
  BY <1>2, <1>5, KeepsTransitive
<1> QED BY <1>2, <1>5, <1>6 DEF u

\* So does noting that they are all there.
LEMMA CompleteGood ==
  ASSUME NEW u, Good(u), NEW o \in Live(u)
  PROVE  /\ Good(Completed(u, o)) /\ Keeps(u, Completed(u, o))
         /\ Live(Completed(u, o)) = Live(u)
<1> DEFINE r == [u.rpc[o] EXCEPT !.received = TRUE]
           v == Completed(u, o)
<1>1. u \in Table /\ o \in Obj /\ u.rpc[o] \in Rpc
  BY LiveType DEF Good, Table
<1>2. v = [u EXCEPT !.rpc[o] = r]
  BY <1>1 DEF Completed, Table
<1>3. /\ r \in Rpc /\ r.key = u.rpc[o].key /\ r.tx = u.rpc[o].tx /\ r.rx = u.rpc[o].rx
      /\ r.handling = u.rpc[o].handling /\ r.result = u.rpc[o].result
  BY <1>1 DEF Rpc
<1> HIDE DEF r, v
<1>4. Good(v) /\ Keeps(u, v) /\ Live(v) = Live(u)
  BY <1>1, <1>2, <1>3, TuneGood, SMTT(30)
<1> QED BY <1>4 DEF v

-----------------------------------------------------------------------------
(* The stages of one RPC (Sound). *)

\* One RPC moves on, and the others stay where they are: what any critical section
\* that changes the struct of one RPC relies on.
LEMMA SetSound ==
  ASSUME NEW s \in Table, NEW o \in Live(s), SoundBut(s, {o}),
         NEW r, Alive(r), Fresh(r) => Fresh(s.rpc[o]),
         NEW t, t.rpcs = s.rpcs, t.payload = s.payload, t.rpc = [s.rpc EXCEPT ![o] = r]
  PROVE  Sound(t) /\ Backs(s, t)
<1>1. Live(t) = Live(s) /\ o \in Obj
  BY LiveType, SMTT(30) DEF Live
<1>2. t.rpc[o] = r /\ \A x \in Obj \ {o} : t.rpc[x] = s.rpc[x]
  BY <1>1 DEF Table
<1> QED BY <1>1, <1>2 DEF Sound, SoundBut, Backs

\* t is s with r for the struct of o.
SetsOne(s, o, r, t) ==
  t.rpcs = s.rpcs /\ t.payload = s.payload /\ t.rpc = [s.rpc EXCEPT ![o] = r]

\* The same for a table that is given by its fields.
LEMMA SetOneSound ==
  ASSUME NEW s \in Table, NEW o \in Live(s), SoundBut(s, {o}),
         NEW r, Alive(r), Fresh(r) => Fresh(s.rpc[o]), NEW t, SetsOne(s, o, r, t)
  PROVE  Sound(t) /\ Backs(s, t)
BY SetSound DEF SetsOne

\* sendNew advances by whole segments: from a segment boundary to a boundary.
LEMMA RoundUpWhole ==
  ASSUME NEW m \in Nat, m % SegmentBytes = 0, NEW n \in Nat
  PROVE  (m + RoundUp(n)) % SegmentBytes = 0
<1> DEFINE a == m \div SegmentBytes
           q == (n + SegmentBytes - 1) \div SegmentBytes
<1>1. a \in Nat /\ q \in Nat /\ m = a * SegmentBytes /\ RoundUp(n) = q * SegmentBytes
  BY SMTT(30) DEF RoundUp
<1> HIDE DEF a, q
<1>2. m + RoundUp(n) = (a + q) * SegmentBytes /\ a + q \in Nat
  BY <1>1, SMTT(30)
<1>3. \A c \in Nat : (c * SegmentBytes) % SegmentBytes = 0
  BY SMTT(30)
<1> QED BY <1>2, <1>3

\* sendNew stops only when all that is granted was sent, at a boundary or at the
\* end of the message.
LEMMA SendNewPaces ==
  ASSUME NEW r \in Rpc, r.tx.len > 0, r.sent <= r.tx.len,
         r.sent % SegmentBytes = 0 \/ r.sent = r.tx.len
  PROVE  Paces(SendNew(r))
<1> DEFINE n == SendNew(r)
           upto == Lesser(r.granted, r.tx.len)
           m == r.sent + RoundUp(upto - r.sent)
<1>1. r.granted \in Nat /\ r.tx.len \in Nat /\ r.sent \in Nat /\ upto \in Nat /\ upto <= r.tx.len
  BY SMTT(30) DEF Rpc, Msg, Lesser
<1>2. n.tx = r.tx /\ n.granted = r.granted
  <2>1. n = [r EXCEPT !.sent = n.sent]
    BY SendNewType
  <2> HIDE DEF n
  <2> QED BY <2>1 DEF Rpc
<1>3. CASE r.sent < upto
  <2>1. n.sent = Lesser(r.tx.len, m)
    BY <1>3 DEF SendNew, Rpc
  <2>2. upto - r.sent \in Nat /\ r.sent % SegmentBytes = 0
    BY <1>1, <1>3, SMTT(30)
  <2> HIDE DEF n, upto
  <2>3. m \in Nat /\ m >= upto /\ m % SegmentBytes = 0
    <3>1. RoundUp(upto - r.sent) \in Nat /\ RoundUp(upto - r.sent) >= upto - r.sent
      BY <2>2, RoundUpType
    <3>2. m % SegmentBytes = 0
      BY <1>1, <2>2, RoundUpWhole
    <3>3. {upto, r.sent, RoundUp(upto - r.sent)} \subseteq Nat
      BY <1>1, <3>1
    <3> QED BY <3>1, <3>2, <3>3, SMTT(30)
  <2> HIDE DEF m
  <2>4. n.sent >= upto /\ n.sent <= r.tx.len /\ (n.sent % SegmentBytes = 0 \/ n.sent = r.tx.len)
    BY <1>1, <2>1, <2>3, SMTT(30) DEF Lesser
  <2> QED BY <1>1, <1>2, <2>4, SMTT(30) DEF Paces, upto, n
<1>4. CASE ~(r.sent < upto)
  <2>1. n = r
    BY <1>4 DEF SendNew
  <2> QED BY <1>1, <1>4, <2>1, SMTT(30) DEF Paces
<1> QED BY <1>3, <1>4

\* A handler that returns leaves its RPC in its stage.
LEMMA FreedSound ==
  ASSUME NEW s, Good(s), Sound(s), NEW o \in Obj, s.payload[o] > 0
  PROVE  Sound(Freed(s, o)) /\ Backs(s, Freed(s, o))
<1> DEFINE t == Freed(s, o)
           r == IF Current(s, o) THEN s.rpc[o] ELSE Blank
<1>1. /\ s \in Table /\ Live(t) = Live(s) /\ (Current(s, o) <=> o \in Live(s))
  BY FreedGood DEF Good
<1>2. t.rpc = [s.rpc EXCEPT ![o] = r] /\ t.payload = [s.payload EXCEPT ![o] = 0]
  BY <1>1 DEF Freed, Table
<1> HIDE DEF t, r
<1>3. /\ t.rpc[o] = r /\ \A x \in Obj \ {o} : t.rpc[x] = s.rpc[x]
      /\ t.payload[o] = 0 /\ \A x \in Obj \ {o} : t.payload[x] = s.payload[x]
  BY <1>1, <1>2 DEF Table
<1>4. o \notin Live(s) => Fresh(r)
  BY <1>1 DEF r, Fresh, Blank
<1>5. o \in Live(s) => r = s.rpc[o]
  BY <1>1 DEF r
<1>6. Sound(t)
  BY <1>1, <1>3, <1>4, <1>5 DEF Sound
<1>7. Backs(s, t)
  BY <1>1, <1>3, <1>5 DEF Backs
<1> QED BY <1>6, <1>7 DEF t

\* A struct that data may fill: in its stage, or new.
Ready(r) ==
  /\ Paces(r)
  /\ ~IsClientID(r.key[2]) => Staged(r) \/ (~r.handling /\ ~r.received /\ r.rx.len = 0)

\* data finds the RPC of its packet in its stage, or takes a new struct.
LEMMA ClaimSound ==
  ASSUME NEW s, Good(s), Sound(s), NEW key \in Key, NEW o \in Claims(s, key),
         \A x \in Free(e) : x \in Obj /\ s.rpc[x].key = Nil /\ Fresh(e.rpc[x]),
         Backs(e, s)
  PROVE  /\ SoundBut(Claim(s, key, o), {o}) /\ Ready(Claim(s, key, o).rpc[o])
         /\ Backs(e, Claim(s, key, o))
<1>1. s \in Table /\ Live(s) \subseteq Obj /\ s.rpcs[key] \in Obj \cup {Nil}
  BY LiveType DEF Good, Table
<1>2. CASE s.rpcs[key] # Nil
  <2>1. o = s.rpcs[key] /\ Claim(s, key, o) = s
    BY <1>2 DEF Claims, Claim
  <2>2. o \in Live(s) /\ o \in Obj
    BY <1>1, <1>2, <2>1, LiveType
  <2>3. Alive(s.rpc[o])
    BY <2>2 DEF Sound
  <2> QED BY <2>1, <2>3 DEF Sound, SoundBut, Ready, Alive
<1>3. CASE s.rpcs[key] = Nil
  <2> DEFINE r == [Blank EXCEPT !.key = key]
             t == Claim(s, key, o)
  <2>1. o \in Free(e) /\ s.rpcs[key] # o
    BY <1>3 DEF Claims
  <2>2. o \in Obj /\ Fresh(e.rpc[o])
    BY <2>1
  <2>3. /\ t.rpcs = [s.rpcs EXCEPT ![key] = o] /\ t.rpc = [s.rpc EXCEPT ![o] = r]
        /\ t.payload = s.payload
    BY <1>1, <2>1 DEF Claim, Table
  <2>4. Ready(r)
    BY DEF Ready, Paces, Blank, NoMsg, NoRx
  <2> HIDE DEF r, t
  <2>5. t.rpc[o] = r /\ \A x \in Obj \ {o} : t.rpc[x] = s.rpc[x]
    BY <1>1, <2>2, <2>3, SMTT(30) DEF Table
  <2>6. \A x \in Obj \ {o} : x \in Live(t) <=> x \in Live(s)
    BY <1>1, <1>3, <2>3, SMTT(30) DEF Live, Table
  <2>7. SoundBut(t, {o})
    BY <2>5, <2>6 DEF Sound, SoundBut
  <2>8. Backs(e, t)
    BY <2>2, <2>3, <2>5, <2>6 DEF Backs
  <2> QED BY <2>4, <2>5, <2>7, <2>8 DEF t
<1> QED BY <1>2, <1>3

\* sendNew changes nothing but what was sent.
LEMMA SendNewKeeps ==
  ASSUME NEW r \in Rpc
  PROVE  LET n == SendNew(r) IN
         /\ n.key = r.key /\ n.tx = r.tx /\ n.granted = r.granted /\ n.rx = r.rx
         /\ n.received = r.received /\ n.handling = r.handling /\ n.expired = r.expired
<1> DEFINE n == SendNew(r)
<1>1. n = [r EXCEPT !.sent = n.sent]
  BY SendNewType
<1> HIDE DEF n
<1>2. /\ n.key = r.key /\ n.tx = r.tx /\ n.granted = r.granted /\ n.rx = r.rx
      /\ n.received = r.received /\ n.handling = r.handling /\ n.expired = r.expired
  BY <1>1 DEF Rpc
<1> QED BY <1>2 DEF n

\* The struct q is r with another receive buffer, and without the request if it
\* is a call.
Opened(r, q) ==
  /\ q.key = r.key /\ q.sent = r.sent /\ q.granted = r.granted
  /\ q.received = r.received /\ q.handling = r.handling /\ q.expired = r.expired
  /\ q.tx = r.tx \/ (q.tx = NoMsg /\ IsClientID(r.key[2]))

\* t is s but for what data does to the struct of o.
OpensTo(s, o, t) ==
  /\ t.rpcs = s.rpcs /\ t.payload = s.payload
  /\ t.rpc = [s.rpc EXCEPT ![o] = t.rpc[o]]
  /\ Opened(s.rpc[o], t.rpc[o])

\* The length of the message that p belongs to.
MessageLen(r, p) == IF r.rx.len > 0 THEN r.rx.len ELSE p.len

\* Allocating a receive buffer changes only the struct of the packet.
LEMMA OpenFields ==
  ASSUME NEW s \in Table, NEW o \in Obj, NEW p
  PROVE  /\ OpensTo(s, o, Open(s, o, p))
         /\ Open(s, o, p).rpc[o].rx.len = MessageLen(s.rpc[o], p)
<1> DEFINE t == Open(s, o, p)
<1>1. s.rpc[o] \in Rpc
  BY DEF Table
<1>2. CASE s.rpc[o].rx.len > 0
  <2>1. t = s
    BY <1>2 DEF Open
  <2>2. s.rpc = [s.rpc EXCEPT ![o] = s.rpc[o]]
    BY DEF Table
  <2> QED BY <1>2, <2>1, <2>2 DEF Opened, OpensTo, MessageLen
<1>3. CASE ~(s.rpc[o].rx.len > 0)
  <2> DEFINE tx == IF IsClient(s, o) THEN NoMsg ELSE s.rpc[o].tx
             rx == [len |-> p.len, data |-> NoBytes, granted |-> p.incoming]
             q == [s.rpc[o] EXCEPT !.rx = rx, !.tx = tx]
             b == s.buffered + OpenCost(s.rpc[o], p) - (s.rpc[o].tx.len - tx.len)
  <2>1. t = [s EXCEPT !.rpc[o].rx = rx, !.rpc[o].tx = tx, !.buffered = b]
    BY <1>3 DEF Open
  <2>2. rx.len = p.len /\ (tx = s.rpc[o].tx \/ (tx = NoMsg /\ IsClientID(s.rpc[o].key[2])))
    BY DEF IsClient
  <2> HIDE DEF b, t, tx, rx
  <2>3. t = [s EXCEPT !.rpc = [s.rpc EXCEPT ![o] = q], !.buffered = b]
    BY <1>1, <2>1 DEF Table, Rpc
  <2>4. Opened(s.rpc[o], q) /\ q.rx = rx
    BY <1>1, <2>2 DEF Opened, Rpc
  <2> HIDE DEF q
  <2>5. t.rpcs = s.rpcs /\ t.payload = s.payload /\ t.rpc = [s.rpc EXCEPT ![o] = q]
    BY <2>3 DEF Table
  <2>6. t.rpc[o] = q
    BY <2>5 DEF Table
  <2> QED BY <1>3, <2>2, <2>4, <2>5, <2>6 DEF OpensTo, MessageLen, t
<1> QED BY <1>2, <1>3

\* The struct of a DATA packet once data has put its bytes into the buffer.
LEMMA AcceptFields ==
  ASSUME NEW s, Good(s), NEW o \in Live(s), NEW p \in Incoming, p.type = "DATA", ValidData(p),
         s.rpc[o].rx.len > 0 => Fits(s.rpc[o].rx, p),
         s.rpc[o].rx.len > 0 \/ Room(s, OpenCost(s.rpc[o], p))
  PROVE  OpensTo(s, o, Accepted(s, o, p)) /\ Accepted(s, o, p).rpc[o].rx.len = p.len
<1> DEFINE t == Open(s, o, p)
           u == Accepted(s, o, p)
           q == [t.rpc[o] EXCEPT !.rx = Fill(t.rpc[o].rx, p)]
<1>1. /\ p.len \in Nat /\ p.off \in Nat /\ p.n \in Nat /\ p.incoming \in Nat /\ p.body \in Bodies
      /\ p.off + p.n <= MaxMessageSize
  BY PacketFields, SMTT(30) DEF ValidData
<1>2. s \in Table /\ o \in Obj /\ Good(t)
  BY <1>1, OpenGood, LiveType DEF Good
<1>3. t \in Table /\ t.rpc[o] \in Rpc
  BY <1>2 DEF Good, Table
<1>4. /\ t.rpcs = s.rpcs /\ t.payload = s.payload
      /\ t.rpc = [s.rpc EXCEPT ![o] = t.rpc[o]]
      /\ Opened(s.rpc[o], t.rpc[o])
      /\ t.rpc[o].rx.len = MessageLen(s.rpc[o], p)
  <2>1. OpensTo(s, o, t) /\ t.rpc[o].rx.len = MessageLen(s.rpc[o], p)
    BY <1>2, OpenFields
  <2> QED BY <2>1 DEF OpensTo
<1>5. t.rpc[o].rx.len = p.len
  BY <1>4 DEF Fits, MessageLen
<1>6. u = [t EXCEPT !.rpc[o].rx = Fill(@, p)]
  BY DEF Accepted
<1> HIDE DEF t, u
<1>7. Fill(t.rpc[o].rx, p).len = p.len
  <2>1. t.rpc[o].rx \in Rx
    BY <1>3 DEF Rpc
  <2> QED BY <1>1, <1>5, <2>1, FillType
<1>8. u = [t EXCEPT !.rpc = [t.rpc EXCEPT ![o] = q]]
  BY <1>3, <1>6 DEF Table, Rpc
<1>9. Opened(s.rpc[o], q) /\ q.rx.len = p.len
  <2> DEFINE f == Fill(t.rpc[o].rx, p)
  <2> HIDE DEF f
  <2>1. q = [t.rpc[o] EXCEPT !.rx = f] /\ f.len = p.len
    BY <1>7 DEF f
  <2> HIDE DEF q
  <2> QED BY <1>3, <1>4, <2>1 DEF Opened, Rpc
<1> HIDE DEF q
<1>10. u.rpcs = t.rpcs /\ u.payload = t.payload /\ u.rpc = [t.rpc EXCEPT ![o] = q]
  BY <1>3, <1>8 DEF Table
<1>11. u.rpc[o] = q /\ u.rpc = [s.rpc EXCEPT ![o] = q]
  BY <1>2, <1>3, <1>4, <1>10 DEF Table
<1> QED BY <1>4, <1>9, <1>10, <1>11 DEF OpensTo, u

\* A request whose bytes data accepts is still being assembled or, with the last
\* of them, received.
LEMMA AcceptSound ==
  ASSUME NEW s, Good(s), NEW o \in Live(s), SoundBut(s, {o}), Ready(s.rpc[o]), ~s.rpc[o].received,
         NEW p \in Incoming, p.type = "DATA", ValidData(p),
         s.rpc[o].rx.len > 0 => Fits(s.rpc[o].rx, p),
         s.rpc[o].rx.len > 0 \/ Room(s, OpenCost(s.rpc[o], p)),
         NEW u, u = Accepted(s, o, p), NEW v, v = Completed(u, o)
  PROVE  /\ Count(u.rpc[o].rx) = p.len => Sound(v) /\ Backs(s, v) /\ v.rpc[o].received
         /\ Count(u.rpc[o].rx) # p.len => Sound(u) /\ Backs(s, u)
<1> DEFINE r == s.rpc[o]
           q == u.rpc[o]
           w == [q EXCEPT !.received = TRUE]
<1>1. p.len \in Nat /\ p.len > 0
  BY PacketFields, SMTT(30) DEF ValidData
<1>2. s \in Table /\ o \in Obj /\ Good(u)
  BY AcceptGood, LiveType DEF Good
<1>3. u \in Table /\ q \in Rpc
  BY <1>2 DEF Good, Table
<1>4. /\ u.rpcs = s.rpcs /\ u.payload = s.payload /\ u.rpc = [s.rpc EXCEPT ![o] = q]
      /\ Opened(r, q) /\ q.rx.len = p.len
  <2>1. OpensTo(s, o, Accepted(s, o, p)) /\ Accepted(s, o, p).rpc[o].rx.len = p.len
    BY AcceptFields
  <2>2. OpensTo(s, o, u) /\ u.rpc[o].rx.len = p.len
    BY <2>1
  <2> QED BY <2>2 DEF OpensTo
<1>5. v.rpcs = s.rpcs /\ v.payload = s.payload /\ v.rpc = [s.rpc EXCEPT ![o] = w]
  <2>1. v = [u EXCEPT !.rpc = [u.rpc EXCEPT ![o] = w]]
    BY <1>2, <1>3 DEF Completed, Table
  <2> HIDE DEF w, q
  <2>2. v.rpcs = u.rpcs /\ v.payload = u.payload /\ v.rpc = [u.rpc EXCEPT ![o] = w]
    BY <1>3, <2>1 DEF Table
  <2>3. [u.rpc EXCEPT ![o] = w] = [s.rpc EXCEPT ![o] = w]
    BY <1>2, <1>4 DEF Table
  <2> QED BY <1>4, <2>2, <2>3
<1>6. v.rpc[o] = w
  BY <1>2, <1>5 DEF Table
<1> HIDE DEF r, q
<1>7. /\ w.key = q.key /\ w.tx = q.tx /\ w.sent = q.sent /\ w.granted = q.granted
      /\ w.rx = q.rx /\ w.handling = q.handling /\ w.expired = q.expired /\ w.received = TRUE
  BY <1>3 DEF Rpc
<1> HIDE DEF w
<1>8. Ready(r) /\ ~r.received
  BY DEF r
<1>9. Paces(q) /\ (~IsClientID(q.key[2]) => ~q.handling)
  <2>1. Paces(r) /\ (~IsClientID(r.key[2]) => ~r.handling)
    BY <1>8 DEF Ready, Staged
  <2>2. q.key = r.key /\ q.sent = r.sent /\ q.granted = r.granted /\ q.handling = r.handling
    BY <1>4 DEF Opened
  <2>3. CASE q.tx = r.tx
    BY <2>1, <2>2, <2>3 DEF Paces
  <2>4. CASE q.tx = NoMsg /\ IsClientID(r.key[2])
    <3>1. NoMsg.len = 0
      BY DEF NoMsg
    <3> QED BY <2>1, <2>2, <2>4, <3>1 DEF Paces
  <2> QED BY <1>4, <2>3, <2>4 DEF Opened
<1>10. Count(q.rx) # p.len => Alive(q)
  BY <1>1, <1>4, <1>8, <1>9 DEF Opened, Alive, Staged
<1>11. Count(q.rx) = p.len => Alive(w)
  <2>1. Paces(w)
    BY <1>7, <1>9 DEF Paces
  <2> QED BY <1>1, <1>4, <1>7, <1>9, <2>1 DEF Alive, Staged
<1>12. (Fresh(q) => Fresh(r)) /\ (Fresh(w) => Fresh(r))
  BY <1>4, <1>7 DEF Opened, Fresh
<1>13. ASSUME Count(q.rx) = p.len PROVE Sound(v) /\ Backs(s, v) /\ v.rpc[o].received
  <2>1. Alive(w) /\ (Fresh(w) => Fresh(s.rpc[o]))
    BY <1>11, <1>12, <1>13 DEF r
  <2>2. SetsOne(s, o, w, v)
    BY <1>5 DEF SetsOne
  <2>3. Sound(v) /\ Backs(s, v)
    BY <1>2, <2>1, <2>2, SetOneSound
  <2> QED BY <1>6, <1>7, <2>3
<1>14. ASSUME Count(q.rx) # p.len PROVE Sound(u) /\ Backs(s, u)
  <2>1. Alive(q) /\ (Fresh(q) => Fresh(s.rpc[o]))
    BY <1>10, <1>12, <1>14 DEF r
  <2>2. SetsOne(s, o, q, u)
    BY <1>4 DEF SetsOne
  <2> QED BY <1>2, <2>1, <2>2, SetOneSound
<1> QED BY <1>13, <1>14 DEF q

=============================================================================
