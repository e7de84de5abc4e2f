SPECIFICATION FairSpec
CONSTANTS
  None = None
  field = field
  other = other
  Fields <- OneField
  Own <- OneField
  MaxConns = 2
  MaxChanges = 2
  MaxRequests = 2
  Batch = 2
  OneSubscriber = TRUE
  FieldsChange = FALSE
INVARIANTS
  DeadHandlesLeave
PROPERTIES
  NobodyIsKept
  ServesBlock
CHECK_DEADLOCK FALSE
