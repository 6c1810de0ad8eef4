\* A request of two segments, one of them granted, and a response of one, on a network that loses any one packet.
CONSTANTS
  Nil = Nil
  Contents = {a}
  Callers = {c}
  COut = {p1}
  SOut = {s1}
  Requests <- LongA
  Responses <- ShortX
  Replies <- AnyReply
  MaxSize = 2
  Budget = 20
  Workers = 1
  ClientSegment = 1
  ServerSegment = 1
  Unscheduled = 1
  GrantBytes = 1
  Overcommit = 1
  MaxCalls = 1
  MaxLost = 1
  Faults = {}
SPECIFICATION FairSpec
PROPERTIES
  CallRecovers
  ServerForgets
CHECK_DEADLOCK FALSE
