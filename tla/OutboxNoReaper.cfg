SPECIFICATION FairSpec
CONSTANTS
  Rows = {1, 2}
  Relays = {w1, w2}
  NoRelay = NoRelay
  NoRow = NoRow
  BatchSize = 2
  MaxAttempts = 2
  Reaper = FALSE
  MaxFaults = 1
PROPERTIES ExpiredLeaseRecovered
CHECK_DEADLOCK FALSE
