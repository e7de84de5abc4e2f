SPECIFICATION FairSpec
CONSTANTS
  t1 = t1
  t2 = t2
  t3 = t3
  NoThread = NoThread
  Threads <- ThreeThreads
  Scans <- BrokenScan
  Calls <- ScanCalls
  MaxFaults = 0
  ChildAborts = FALSE
  SlowHooks = FALSE
  SeekAnywhere = FALSE
  OverlapConfigure = FALSE
  OverlapPause = FALSE
INVARIANTS
  StepsAccountedFor
  AnswersFindTheirRun
  OutcomeIsTrue
PROPERTIES
  BusyEnds
  OperationsReturn
CHECK_DEADLOCK FALSE
