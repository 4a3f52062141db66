SPECIFICATION FairSpec
CONSTANTS
  Players = {p1, p2}
  NoOne = NoOne
  MaxAsks = 2
  MaxFaults = 1
CHECK_DEADLOCK FALSE
INVARIANTS  LogTrue
 
