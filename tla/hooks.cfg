SPECIFICATION FairSpec
CONSTANTS
  p1 = p1
  p2 = p2
  p3 = p3
  Parts <- ThreeParts
  Order <- ThreeInOrder
  MaxRounds = 2
  MaxStops = 2
  MaxFaults = 2
  ChildAborts = TRUE
  SlowParts = FALSE
INVARIANTS
  NobodyLeftBehind
  AbortsAreOurs
PROPERTIES
  InterruptEnds
  OneHook
CHECK_DEADLOCK FALSE
