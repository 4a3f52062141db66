SPECIFICATION Spec
CONSTANTS
  Players = {p1, p2}
  NoOne = NoOne
  MaxClicks = 5
  MaxFaults = 2
SYMMETRY Symmetry
CHECK_DEADLOCK FALSE
INVARIANTS PagesAgree GuessHasAnswer Together WaitsForSomething
