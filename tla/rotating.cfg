SPECIFICATION FairSpec
CONSTANTS
  Writers = {w1, w2}
  Owner = owner
  Rotater = rotater
  Worker = worker
  Nobody = nobody
  FailureOk = TRUE
  QueueLimit = 1
  MaxFiles = 3
  MaxWrites = 1
  MaxCalls = 2
INVARIANTS ExtentsInOrder NoLostWakeup CallbacksStop
PROPERTIES CallsReturn
