\* Goroutines that share a raw socket, or the stream to QEMU.
\* After Close nothing needs to happen, so deadlock is not an error.
SPECIFICATION Spec
CONSTANTS
  Writers = {w1, w2}
  Readers = {r1, r2}
  Priorities = {0, 7}
  short1 = short1
  short2 = short2
  long = long
  arp = arp
  other = other
  Arrivals = {short1, short2, long, arp, other}
  Class <- Classes
  Parts = 2
  MaxWrites = 2
  MaxArrivals = 2
  None = None
INVARIANTS
  PriorityOwn
  FramesWhole
  DatagramsOnce
PROPERTIES
  CloseUnblocks
CHECK_DEADLOCK FALSE
