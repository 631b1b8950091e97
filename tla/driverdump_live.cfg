SPECIFICATION FairSpec
CONSTANTS
  Workers = {w1, w2}
  Capacity = 3
  MaxFiles = 3
  BusyFinish = FALSE
  MaxPackets = 5
  MaxBuffers = 4
  MaxSignals = 1
  MaxRuns = 2
CHECK_DEADLOCK FALSE
PROPERTIES AbortEnds
