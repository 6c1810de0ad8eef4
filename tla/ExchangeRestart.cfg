\* One call, a handler that may answer differently when it runs again, a server that restarts or drops the RPC.
CONSTANTS
  Nil = Nil
  Contents = {a}
  Callers = {c}
  COut = {p1}
  SOut = {s1, s2}
  Requests <- LongA
  Responses <- LongXY
  Replies <- AnyReply
  MaxSize = 2
  Budget = 20
  Workers = 1
  ClientSegment = 1
  ServerSegment = 1
  Unscheduled = 2
  GrantBytes = 1
  Overcommit = 1
  MaxCalls = 1
  MaxLost = 0
  Faults = {"duplicate", "restart", "write"}
SPECIFICATION Spec
SYMMETRY Symmetry
INVARIANTS
  RequestWhole
  ResponseWhole
  AckMeansDone
CHECK_DEADLOCK FALSE
