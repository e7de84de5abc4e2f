SPECIFICATION Spec
CONSTANTS
  t1 = t1
  t2 = t2
  t3 = t3
  NoThread = NoThread
  Threads <- TwoThreads
  Scans <- OneScan
  Calls <- AllCalls
  MaxFaults = 1
  ChildAborts = TRUE
  SlowHooks = TRUE
  SeekAnywhere = FALSE
  OverlapConfigure = TRUE
  OverlapPause = TRUE
SYMMETRY Symmetry
INVARIANTS
  TypeOK
  NoRunLeftBehind
  BusyHasWorker
  NoLeftoverStop
CHECK_DEADLOCK FALSE
