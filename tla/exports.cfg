SPECIFICATION FairSpec
CONSTANTS
  own = own
  exported = exported
  method = method
  t1 = t1
  t2 = t2
  t3 = t3
  None = None
  Attributes <- TwoAttributes
  Methods <- OneMethod
  Own <- OwnFields
  Values <- OneOrZero
  Saved = 0
  Threads <- ThreeThreads
  ExportMethods = FALSE
  FieldsReturn = FALSE
  OverlapChanges = FALSE
INVARIANTS
  ExportsInStep
  PartInStep
PROPERTIES
  EveryCallEnds
CHECK_DEADLOCK FALSE
