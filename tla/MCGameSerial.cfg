SPECIFICATION FairSpec
CONSTANTS
  Players = {p1, p2}
  Creator = p1
  Slots = {s1}
  Timers = {t1, t2, t3}
  NoTimer = NoTimer
  Nobody = Nobody
  Chat = TRUE
  Timed = TRUE
  Serial = TRUE
  MaxCount = 2
  Offers <- AllOps
INVARIANTS
  TypeOK
  RowCoherent
  GoingIsTimed
  
  PausedIsUntimed
  MappedTimerPending
PROPERTIES
  
  NoGameHangs
CHECK_DEADLOCK FALSE
