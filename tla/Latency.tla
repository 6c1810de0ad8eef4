------------------------------ MODULE Latency ------------------------------
(* The rank that latencySummary (cmd/homa-bench/main.go) reads percentile q at,  *)
(* among n sorted samples: int(math.Ceil(q*float64(n))), with q in percent.  The *)
(* floating-point product is exact enough for every q and n the program takes.   *)
EXTENDS Naturals

Rank(q, n) == (q * n + 99) \div 100

=============================================================================
