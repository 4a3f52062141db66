SPECIFICATION Spec
CONSTANTS
  Users = {u1, u2, u3, g1}
  Guests = {g1}
  Lobbies = {l1, l2}
  Seats = {r1, r2, r3, r4}
  Slots = {s1}
  Nil = Nil
  Serial = TRUE
SYMMETRY Symmetry
INVARIANTS
  HostSeated
  TwoSeats
  
CHECK_DEADLOCK FALSE
