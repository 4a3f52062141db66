SPECIFICATION Spec
CONSTANTS
  Users = {u1, u2}
  Guests = {}
  Lobbies = {l1}
  Seats = {r1, r2}
  Slots = {s1}
  Nil = Nil
  Serial = TRUE
SYMMETRY Symmetry
PROPERTY JoinerLeavingReopens
CHECK_DEADLOCK FALSE
