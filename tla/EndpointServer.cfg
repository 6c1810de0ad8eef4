\* A server: no callers, two requests, one worker.
CONSTANTS
  Local <- MCLocal
  Peers <- OnePeer
  Obj = {o1, o2, o3, o4}
  Nil = Nil
  Callers = {}
  Bodies = {x}
  HasHandler = TRUE
  MaxMessageSize = 3
  MaxRPCs = 2
  MaxBufferedBytes = 7
  HandlerWorkers = 1
  SegmentBytes = 2
  UnscheduledBytes = 2
  GrantWindow = 1
  Overcommit = 1
  MaxIds = 2
  Incoming <- ToServer
  Emit <- Discard
SPECIFICATION Spec
SYMMETRY Symmetry
INVARIANTS
  BufferedAccounted
  WorkersCounted
  ServerStages
  GrantedIsSent
PROPERTIES
  HandlerStartsOnce
CHECK_DEADLOCK FALSE
