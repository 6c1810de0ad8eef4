\* A server with clients on three hosts, two of them behind one address.
CONSTANTS
  Local <- MCLocal
  Peers <- Hosts
  Obj = {o1, o2, o3}
  Nil = Nil
  Callers = {}
  Bodies = {x}
  HasHandler = TRUE
  MaxMessageSize = 1
  MaxRPCs = 2
  MaxBufferedBytes = 4
  HandlerWorkers = 1
  SegmentBytes = 1
  UnscheduledBytes = 1
  GrantWindow = 1
  Overcommit = 1
  MaxIds = 1
  Incoming <- FromHosts
  Emit <- Discard
SPECIFICATION Spec
SYMMETRY Symmetry
INVARIANTS
  TableSound
CHECK_DEADLOCK FALSE
