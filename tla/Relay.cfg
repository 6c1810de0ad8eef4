\* One datagram and one frame, in every order with the guest, the stop and the report.
CONSTANTS
  FromLAN <- Acks
  FromVM <- Frames
  TOS = {0, 1}
  Nothing = Nothing
  Required = 1
  MaxAcks = 1
  FrameParts = 2
  MaxLAN = 1
  MaxVM = 1
SPECIFICATION RelayFairSpec
INVARIANTS
  CompleteIsEarned
  CountersHonest
  StreamWhole
  ReadyFileScoped
PROPERTIES
  AlwaysReports
CHECK_DEADLOCK FALSE
