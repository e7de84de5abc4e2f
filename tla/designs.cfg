SPECIFICATION Spec
CONSTANTS
  p1 = p1
  p2 = p2
  a1 = a1
  a2 = a2
  v1 = v1
  v2 = v2
  t1 = t1
  t2 = t2
  d1 = d1
  d2 = d2
  None = None
  Parts <- TwoParts
  Attrs <- OneAttr
  Values <- TwoValues
  Tables <- TwoTables
  Names <- OneName
  MaxBlocked = 2
  MaxFaults = 1
  MaxAsked = 1
  ChangesInHooks = FALSE
SYMMETRY Symmetry
INVARIANTS
  CleanIsDesign
  ReportsCurrent
CHECK_DEADLOCK FALSE
