SPECIFICATION Spec
CONSTANTS
  Writers = {w1, w2}
  Owner = owner
  Compressors = {t1, t2}
  Library = lib
  Index = idx
  NoStats = noStats
  RawSize <- MCRawSize
  PackedSize <- MCPackedSize
  MaxBytes = 9
  MaxBytesChoices = {6, 20}
  MaxCalls = 2
  MaxTotalCalls = 3
  MaxFiles = 2
INVARIANTS BytesAccounting WorkStaysQueued NoLostWakeup IndexMatchesFile StatsExact
PROPERTIES FlushMeansWritten ImplementsLog
SYMMETRY Symmetry
