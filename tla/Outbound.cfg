\* One key reused by two structs, two priorities of one slot each, two Close calls and a reader that may fail.
CONSTANTS
  Key = {k}
  Obj = {o1, o2}
  Nil = Nil
  Levels = 2
  Slots = 1
  Closers = {c1, c2}
  MaxSends = 2
SPECIFICATION FairSpec
INVARIANTS
  NoLostWakeup
  AtMostOneLate
PROPERTIES
  WriteErrorScoped
  QuietAfterClose
  QueuesDrain
  CloseEnds
CHECK_DEADLOCK FALSE
