SPECIFICATION FairSpec
CONSTANTS
  Players = {p1}
  Clients = {c1, c2}
  SendCap = 2
  NoPlayer = NoPlayer
INVARIANTS
  TypeOK
  ClosedIffOut
  OneConnectionPerPlayer
PROPERTIES
  OnlyPumpsPanic
  GivenUpEnds
CHECK_DEADLOCK FALSE
