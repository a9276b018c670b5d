SPECIFICATION FairSpec
CONSTANTS
  Rows = {1, 2}
  Relays = {w1, w2}
  NoRelay = NoRelay
  NoRow = NoRow
  BatchSize = 2
  MaxAttempts = 2
  Reaper = TRUE
  MaxFaults = 2
INVARIANTS TypeOK DeliveredWithinAttempts ExtraAttemptsNeedFaults
PROPERTIES OnlyHolderSettles KeepsPromise EventuallySettled
CHECK_DEADLOCK FALSE
