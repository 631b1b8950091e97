SPECIFICATION Spec
CONSTANTS
  Workers = {w1, w2, w3}
  Capacity = 3
  MaxFiles = 3
  BusyFinish = FALSE
  MaxPackets = 5
  MaxBuffers = 4
  MaxSignals = 1
  MaxRuns = 2
CHECK_DEADLOCK FALSE
SYMMETRY ThreadSymmetry
INVARIANTS PacketsInOrder  NoLostWakeup
