\* Every struct with every Type, DATA around its bounds, every cut and some padding; four segments of a message.
CONSTANTS
  Base = 32
  Width = 2
  Packets <- MCPackets
  Segments <- MCSegments
  MaxPieces = 4
  MaxMessage = 4
  MaxPad = 2
  Nil = Nil
  Err = Err
SPECIFICATION Spec
INVARIANTS
  RoundTrip
  Assembled
CHECK_DEADLOCK FALSE
