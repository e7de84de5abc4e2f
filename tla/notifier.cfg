SPECIFICATION Spec
CONSTANTS
  f1 = f1
  f2 = f2
  l1 = l1
  o1 = o1
  o2 = o2
  o3 = o3
  v1 = v1
  v2 = v2
  s1 = s1
  s2 = s2
  None = None
  Fields <- TwoFields
  Leaves <- OneLeaf
  Values <- TwoValues
  Objects <- ThreeObjects
  Subscribers <- TwoSubscribers
  MaxNesting = 2
  MaxChanges = 3
SYMMETRY Symmetry
INVARIANTS
  ClientsInStep
  TreeFits
CHECK_DEADLOCK FALSE
