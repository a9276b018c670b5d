SPECIFICATION FairSpec
CONSTANTS
  w1 = w1
  w2 = w2
  Jobs = {j1, j2}
  Workers = {w1, w2}
  Slots <- MCSlots
  Idle = Idle
  MaxAttempts = 2
  DeadLetters = TRUE
  MaxFaults = 1
  MaxRetries = 1
  MaxCloses = 2
  MaxExtras = 2
INVARIANTS TypeOK JobsAccounted ClosedIsQuiet
CHECK_DEADLOCK FALSE
PROPERTIES EventuallyMeetsFate
