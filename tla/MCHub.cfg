SPECIFICATION HubFairSpec
CONSTANTS
  Players = {p1, p2}
  Clients = {c1}
  SendCap = 2
  NoPlayer = NoPlayer
  NoTimer = NoTimer
  Overlap = TRUE
PROPERTIES
  ImplementsPresence
  LostIsResolved
CHECK_DEADLOCK FALSE
