SPECIFICATION FairSpec
CONSTANTS
  None = None
  field = field
  other = other
  p1 = p1
  p2 = p2
  Fields <- OneField
  Own <- OneField
  PutOrder <- OnePut
  MaxConns = 2
  MaxChanges = 2
  MaxRefused = 1
  MaxLosses = 1
  OneSubscriber = FALSE
  MaxRequests = 0
  FieldsChange = FALSE
INVARIANTS
  ReadyIsConnected
  ProxyInStep
PROPERTIES
  PutsEnd
CHECK_DEADLOCK FALSE
