SPECIFICATION PresenceFairSpec
CONSTANTS
  Players = {p1}
  Clients = {c1, c2, c3}
  NoPlayer = NoPlayer
  NoTimer = NoTimer
  Overlap = TRUE
INVARIANTS
  PresenceTypeOK
  MappedTimerPending
  MissingIsOnTheClock
PROPERTY MissingIsResolved
CHECK_DEADLOCK FALSE
