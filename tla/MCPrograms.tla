---------------------------- MODULE MCPrograms -----------------------------
(* Small runs of the programs: two rounds of one size, two samples each. *)
EXTENDS Programs

OneSize == <<64>>
TwoEchoSizes == <<1, 65536>>

=============================================================================
