-------------------------------- MODULE Sums --------------------------------
(***************************************************************************)
(* Sums of natural-valued functions over finite sets, written as the       *)
(* number of points under the function's graph.  The endpoint uses them    *)
(* for its byte accounting, where one critical section may release the     *)
(* buffers of many RPCs.  Counting points instead of folding keeps every   *)
(* law of the sum provable from the facts about cardinalities.             *)
(***************************************************************************)
EXTENDS Integers, FiniteSets

Points(f, S) == UNION {{x} \X (1 .. f[x]) : x \in S}

Total(f, S) == Cardinality(Points(f, S))

\* min and max of two integers (the Go builtins).
Lesser(a, b) == IF a <= b THEN a ELSE b

Greater(a, b) == IF a >= b THEN a ELSE b

=============================================================================
