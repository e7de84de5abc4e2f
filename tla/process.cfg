SPECIFICATION ProcessFairSpec
CONSTANTS
  host = host
  comms = comms
  block = block
  proxy = proxy
  p1 = p1
  p2 = p2
  first = first
  second = second
  Controllers <- AllControllers
  Initial <- InitialControllers
  Host = host
  Comms = comms
  Hidden <- Proxies
  Adders <- TwoAdders
  Adds <- AddsOne
  ClearCount = 4
  MaxStartFaults = 1
  Parts <- OnePart
  Order <- OneInOrder
  MaxRounds = 1
  MaxStops = 1
  MaxFaults = 1
  ChildAborts = FALSE
  SlowParts = TRUE
  OverlapAdds = FALSE
  LateClears = FALSE
  StopInHooks = TRUE
INVARIANTS
  StopIsTrue
  PublishedIsRight
PROPERTIES
  StopEnds
CHECK_DEADLOCK FALSE
