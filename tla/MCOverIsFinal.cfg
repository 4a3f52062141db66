SPECIFICATION Spec
CONSTANTS
  Players = {p1, p2}
  Creator = p1
  Slots = {s1, s2}
  Timers = {t1}
  NoTimer = NoTimer
  Nobody = Nobody
  Chat = TRUE
  Timed = TRUE
  Serial = FALSE
  MaxCount = 1
  Offers <- AllOps
PROPERTY OverIsFinal
CHECK_DEADLOCK FALSE
