SPECIFICATION FairSpec
CONSTANTS
  Jobs = {j1, j2}
  Loops = {l1, l2}
  NoDelivery = NoDelivery
  FetchBatch = 2
  MaxAttempts = 2
  DeadLetters = TRUE
  MaxFaults = 1
  MaxRetries = 1
INVARIANTS TypeOK JobsAccounted
PROPERTIES KeepsPromise EventuallySettled
CHECK_DEADLOCK FALSE
