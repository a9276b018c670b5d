SPECIFICATION FairSpec
CONSTANTS
  Jobs = {j1}
  Workers = {w1, w2}
  Concurrency = 1
  Prefetch = 2
  MaxAttempts = 2
  DeadLetters = {w1}
  RetryQueues = {w1}
  NoCopy = NoCopy
  MaxFaults = 1
  MaxRetries = 1
  MaxCloses = 1
INVARIANTS TypeOK JobsAccounted StuckIsReported
PROPERTIES EventuallySettled
CHECK_DEADLOCK FALSE
