SPECIFICATION FairPipelineSpec
CONSTANTS
  h1 = h1
  h2 = h2
  w1 = w1
  w2 = w2
  Messages = {m1, m2}
  Handlers = {h1, h2}
  Workers = {w1, w2}
  WorkerOf <- MCWorkerOf
  Nobody = Nobody
  NoMessage = NoMessage
  AckWhenNull = FALSE
  MaxFaults = 2
  MaxPublications = 2
INVARIANTS PipelineTypeOK DuplicatesNeedFaults
PROPERTIES OnlyHolderSettles EndToEndPromise PublishedIsCompleted
CHECK_DEADLOCK FALSE
