SPECIFICATION FairSpec
CONSTANTS
  p1 = p1
  Partitions <- MCPartitions
  Undecodable <- MCUndecodable
  BadKeys <- MCBadKeys
  Workers = {w1, w2}
  DeadLetters = {w1}
  MaxOffset = 4
  NoWorker = NoWorker
  NoRecord = NoRecord
  MaxFaults = 1
  MaxLateAcks = 1
  MaxCloses = 1
INVARIANTS TypeOK CommittedInOrder
CHECK_DEADLOCK FALSE
PROPERTIES EventuallyHandled
