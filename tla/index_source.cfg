SPECIFICATION FairSpec
CONSTANTS
  Consumer = consumer
  Closers = {c1}
  Unpackers = {t1, t2, t3}
  NExtents = 5
  PackedBytes <- MCPackedBytes
  UnpackedBytes <- MCUnpackedBytes
  MaxCompressed = 3
  MaxUnpacked = 6
  MaxResets = 1
INVARIANTS MemoryBounded NoLostWakeup WorkStaysQueued CloseIsComplete
PROPERTIES ImplementsStream CallsReturn
CHECK_DEADLOCK FALSE
