----------------------------- MODULE MCOutbound -----------------------------
(***************************************************************************)
(* Outbound for TLC: structs, keys and closers are interchangeable.        *)
(***************************************************************************)
EXTENDS Outbound, TLC

Symmetry == Permutations(Obj) \cup Permutations(Key) \cup Permutations(Closers)

=============================================================================
