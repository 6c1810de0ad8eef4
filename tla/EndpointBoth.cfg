\* Client and server at once: one call and one request share the budget.
CONSTANTS
  Local <- MCLocal
  Peers <- OnePeer
  Obj = {o1, o2, o3}
  Nil = Nil
  Callers = {c1}
  Bodies = {x}
  HasHandler = TRUE
  MaxMessageSize = 2
  MaxRPCs = 2
  MaxBufferedBytes = 5
  HandlerWorkers = 1
  SegmentBytes = 1
  UnscheduledBytes = 1
  GrantWindow = 1
  Overcommit = 1
  MaxIds = 1
  Incoming <- ToBoth
  Emit <- Discard
SPECIFICATION FairSpec
INVARIANTS
  SInv
PROPERTIES
  CallReturns
  NoIdleWorker
  CloseReleases
CHECK_DEADLOCK FALSE
