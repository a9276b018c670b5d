SPECIFICATION FairSpec
CONSTANTS
  h1 = h1
  h2 = h2
  w1 = w1
  w2 = w2
  Messages = {m1, m2}
  Handlers = {h1, h2}
  Workers = {w1, w2}
  WorkerOf <- MCWorkerOf
  Nobody = Nobody
  NoMessage = NoMessage
  AckWhenNull = TRUE
  MaxFaults = 1
PROPERTIES EventuallyCompleted
CHECK_DEADLOCK FALSE
