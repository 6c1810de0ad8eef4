----------------------------- MODULE RpcService -----------------------------
(***************************************************************************)
(* What a pair of endpoints promises its applications (README.md, api.go): *)
(* a call that succeeds returns one whole response that the peer's handler *)
(* gave to this call's request; a call that fails says nothing about       *)
(* whether the handler ran, and a handler may run more than once.          *)
(***************************************************************************)
CONSTANTS
  Calls,      \* identifiers of calls
  Requests,   \* contents of requests
  None, Failed,
  Replies(_)  \* the responses a handler may give to a request

VARIABLES
  asked,      \* the request of each call that was made
  ran,        \* the responses that handlers gave, per call
  outcome     \* None while a call is open, then its response or Failed

vars == <<asked, ran, outcome>>

Init ==
  /\ asked = [i \in Calls |-> None]
  /\ ran = [i \in Calls |-> {}]
  /\ outcome = [i \in Calls |-> None]

Open == {i \in Calls : asked[i] # None /\ outcome[i] = None}

Ask(i, req) ==
  /\ asked[i] = None
  /\ asked' = [asked EXCEPT ![i] = req]
  /\ UNCHANGED <<ran, outcome>>

\* Also for a call that is over: its request may still be under way.
Run(i) ==
  /\ asked[i] # None
  /\ \E res \in Replies(asked[i]) : ran' = [ran EXCEPT ![i] = @ \cup {res}]
  /\ UNCHANGED <<asked, outcome>>

Succeed(i) ==
  /\ i \in Open
  /\ \E res \in ran[i] : outcome' = [outcome EXCEPT ![i] = res]
  /\ UNCHANGED <<asked, ran>>

\* One tick or one shutdown can end several calls.
Fail(I) ==
  /\ outcome' = [i \in Calls |-> IF i \in I THEN Failed ELSE outcome[i]]
  /\ UNCHANGED <<asked, ran>>

Next ==
  \/ \E i \in Calls : Run(i) \/ Succeed(i) \/ \E req \in Requests : Ask(i, req)
  \/ \E I \in SUBSET Open : Fail(I)

Spec == Init /\ [][Next]_vars

=============================================================================
