SPECIFICATION FairSpec
CONSTANTS
  NExtents = 12
  EndOffset <- MCEndOffset
  max_used_memory = 3
INVARIANTS BufferBounded NoLostWakeup
PROPERTIES ImplementsStream CallsReturn
CHECK_DEADLOCK FALSE
