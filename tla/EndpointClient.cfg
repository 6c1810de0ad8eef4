\* A client: two callers and three calls, no handler.
CONSTANTS
  Local <- MCLocal
  Peers <- OnePeer
  Obj = {o1, o2}
  Nil = Nil
  Callers = {c1, c2}
  Bodies = {x, y}
  HasHandler = FALSE
  MaxMessageSize = 2
  MaxRPCs = 2
  MaxBufferedBytes = 5
  HandlerWorkers = 1
  SegmentBytes = 1
  UnscheduledBytes = 1
  GrantWindow = 1
  Overcommit = 1
  MaxIds = 3
  Incoming <- ToClient
  Emit <- Discard
SPECIFICATION Spec
SYMMETRY Symmetry
INVARIANTS
  CallNotStranded
CHECK_DEADLOCK FALSE
