\* Two calls of one segment by one caller, the first canceled or not while its packets are under way, and an echo server.
CONSTANTS
  Nil = Nil
  Contents = {a, b}
  Callers = {c1}
  COut = {p1}
  SOut = {s1, s2}
  Requests <- Short
  Responses <- Short
  Replies <- Echo
  MaxSize = 2
  Budget = 20
  Workers = 1
  ClientSegment = 1
  ServerSegment = 1
  Unscheduled = 1
  GrantBytes = 1
  Overcommit = 1
  MaxCalls = 2
  MaxLost = 0
  Faults = {"duplicate", "cancel", "fail"}
SPECIFICATION Spec
SYMMETRY Symmetry
INVARIANTS
  OnceWhileOpen
PROPERTIES
  ServesCalls
CHECK_DEADLOCK FALSE
