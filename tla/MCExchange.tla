----------------------------- MODULE MCExchange -----------------------------
(***************************************************************************)
(* Exchange for TLC: requests and responses of two segments, of which one  *)
(* is unscheduled, and handlers that answer the same or not.               *)
(***************************************************************************)
EXTENDS Exchange, TLC

CONSTANT Contents                \* what the messages of an echo server hold

Long(bodies) == [len : {2}, body : bodies]

LongA == Long({"a"})
LongX == Long({"x"})
LongXY == Long({"x", "y"})

Short == [len : {1}, body : Contents]
ShortX == [len : {1}, body : {"x"}]

\* The handler of an echo server.
Echo(b) == {m \in Responses : m.body = b}

\* A handler whose response may change from one run to the next.
AnyReply(b) == Responses

Symmetry == Permutations(COut) \cup Permutations(SOut) \cup Permutations(Callers)
            \cup Permutations(Contents)

=============================================================================
