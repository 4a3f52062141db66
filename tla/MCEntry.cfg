SPECIFICATION Spec
CONSTANTS
  Lobbies = {l1, l2}
  set = set  c1 = c1  c2 = c2  c3 = c3  c4 = c4
  Sets = {set}
  Pool <- Pools  First <- Firsts
  Min = 2
  Slots = {r1, r2}
  None = None
  MaxClicks = 3
  MaxChanges = 1
SYMMETRY Symmetry
CHECK_DEADLOCK FALSE
INVARIANTS  NoSelfConflict LeaveIsFinal CreatedAsChosen
