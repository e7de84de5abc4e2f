SPECIFICATION FairSpec
CONSTANTS
  Generators <- SmallGenerators
  MaxConfigures = 2
  MaxPauses = 2
  MaxCalls = 3
  MaxInFlight = 1
  LateFrames = FALSE
INVARIANTS
  NextBoundary
  FileIsRight
PROPERTIES
  RunsEnd
CHECK_DEADLOCK FALSE
