SPECIFICATION FairSpec
CONSTANTS
  Stop = Stop
  bit = bit
  table = table
  user = user
  Bits <- OneBit
  Tables <- OneTable
  Users <- OneUser
  Callers <- UserAndManager
  MaxRequests = 7
  MaxFaults = 1
  MaxChanges = 2
  OverlapCalls = FALSE
  ResetFaulty = FALSE
INVARIANTS
  ResponsesMatch
  PollFollowsState
  BitsInStep
PROPERTIES
  DisableReturns
CHECK_DEADLOCK FALSE
