SPECIFICATION Spec
CONSTANTS
  Seats = {h, j, k}
  Host = h
  Creators = {h}
  Pumps = {p1, p2}
  None = None
SYMMETRY Symmetry
INVARIANTS
  RosterHasThePlayers
  SwapFindsOpponent
CHECK_DEADLOCK FALSE
