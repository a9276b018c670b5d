SPECIFICATION FairEnqueueSpec
CONSTANTS
  c1 = c1
  c2 = c2
  c3 = c3
  k1 = k1
  k2 = k2
  Keys = {k1, k2}
  Callers = {c1, c2, c3}
  KeyOf <- MCKeyOf
  Nobody = Nobody
  MaxRepeats = 1
  MaxFailures = 2
INVARIANTS EnqueueTypeOK JobsNeedLapses AcceptedIsOwed ForeignReleaseNeedsFaults
PROPERTIES EventuallyStored
CHECK_DEADLOCK FALSE
