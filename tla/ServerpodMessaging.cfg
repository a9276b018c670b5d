SPECIFICATION FairMessagingSpec
CONSTANTS
  Subs = {s1}
  Workers = {w1}
  Callers = {1, 2}
  Concurrency = 1
  MaxInbox = 1
  MaxCalls = 3
  MaxFaults = 1
INVARIANTS MessagingTypeOK LifecycleHolds
PROPERTIES StopReturns
CHECK_DEADLOCK FALSE
