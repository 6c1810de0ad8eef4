\* homa-bench client against homa-bench serve, homa-echo and the VM check.
\* Every program ends, so deadlock is not an error.
SPECIFICATION Spec
CONSTANTS
  Conns = {mine, other}
  Mine = mine
  Nobody = Nobody
  Limit = 1
  Rounds = 2
  Sizes <- OneSize
  Warmup = 1
  SmallSamples = 2
  LargeSamples = 1
  Echoes = 3
  EchoSizes <- TwoEchoSizes
  Times = {1, 2}
INVARIANTS
  ServedIsTracked
  SweptStaysClosed
  OwnReply
  ReportTrue
PROPERTIES
  ServeReturns
CHECK_DEADLOCK FALSE
