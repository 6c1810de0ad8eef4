-------------------------------- MODULE Calls --------------------------------
(***************************************************************************)
(* The calls of a client and a server (Exchange): their messages, and the  *)
(* names that the two sides have for each other and for a call.            *)
(***************************************************************************)
EXTENDS Naturals, FiniteSets

CONSTANTS
  Nil, COut, SOut,               \* COut, SOut: rpc structs of the two sides
  Requests, Responses,           \* messages, [len, body]
  Replies(_),                    \* the responses the handler may give to a request
  MaxSize,                       \* Config.MaxMessageSize, common to both sides
  MaxCalls,                      \* bound: calls made
  Faults                         \* which of the faults of Exchange happen

ClientAddr == <<"client", 1>>
ServerAddr == <<"server", 1>>

Bodies == {m.body : m \in Requests \cup Responses}

\* The identifiers that a client gives to its calls, and the key of call i in
\* the table of each side (Common.LocalID).
Ids == {2 * i : i \in 1 .. MaxCalls}

ClientKey(i) == <<ServerAddr, i>>
ServerKey(i) == <<ClientAddr, i + 1>>

KeysOf(peer) == {peer} \X (2 .. 2 * MaxCalls + 1)

BytesOf(m) == [x \in 0 .. m.len - 1 |-> m.body]

ReplyTo(m) == Replies(m.body)

\* What a call that ended with the result g gave its caller.
OutcomeOf(g, failed) ==
  IF g = Nil THEN Nil
  ELSE IF g.err # "ok" THEN failed
  ELSE IF \E m \in Responses : g.data = BytesOf(m)
  THEN CHOOSE m \in Responses : g.data = BytesOf(m)
  ELSE [len |-> 0, body |-> "torn"]

ASSUME MessagesAssumption ==
  /\ MaxSize \in Nat \ {0} /\ MaxCalls \in Nat \ {0}
  /\ Requests \cup Responses \subseteq [len : 1 .. MaxSize, body : Bodies]
  /\ Nil \notin Requests

ASSUME StructsAssumption ==
  /\ IsFiniteSet(COut) /\ Nil \notin COut
  /\ IsFiniteSet(SOut) /\ Nil \notin SOut
  /\ Nil \notin KeysOf(ServerAddr) /\ Nil \notin KeysOf(ClientAddr)

=============================================================================
