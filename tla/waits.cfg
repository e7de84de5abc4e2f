SPECIFICATION FairSpec
CONSTANTS
  c1 = c1
  c2 = c2
  w1 = w1
  w2 = w2
  Calls <- TwoCalls
  Whens <- OneWhen
  Watches <- OneWatch
  MaxSubscriptions = 1
  MaxUpdates = 1
  MaxInterruptions = 2
  MaxFutures = 2
  MaxNesting = 2
  MaxTimeouts = 1
  NestInLists = FALSE
INVARIANTS
  NothingDoneIsAwaited
PROPERTIES
  StopsObeyed
  ReturnsAreRight
  WaitsEnd
CHECK_DEADLOCK FALSE
