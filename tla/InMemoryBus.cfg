SPECIFICATION FairSpec
CONSTANTS
  Messages = {m1, m2, m3}
  Direct = {}
  Grouped = {s1, s2}
  NoSub = NoSub
  Limit = 1
  MaxFaults = 1
  MaxCloses = 1
INVARIANTS GatesAccounted ClosedIsQuiet
PROPERTIES PublicationsEnd
CHECK_DEADLOCK FALSE
