SPECIFICATION Spec
CONSTANTS
  Files = {f1, f2}
  Nameless = {f2}
  Olds = {o1, o2}
  MinCharacters = 1
  MaxCharacters = 2
  MinCrop = 4
  Canvases = {8}
  Moves <- PointerMoves
  Nil = Nil
  MaxEdits = 5
  MaxDrags = 3
  MaxFaults = 1
SYMMETRY Symmetry
INVARIANTS
  TypeOK
  DragHasNoMemory
  SavedIsShown
  EnoughCharacters
  PublicIsAcknowledged
CHECK_DEADLOCK FALSE
