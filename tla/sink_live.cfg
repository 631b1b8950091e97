SPECIFICATION FairSpec
CONSTANTS
  Writers = {w1, w2}
  Owner = owner
  Compressors = {t1}
  Library = lib
  Index = idx
  NoStats = noStats
  RawSize <- MCRawSize
  PackedSize <- MCPackedSize
  MaxBytes = 9
  MaxBytesChoices = {}
  MaxCalls = 2
  MaxTotalCalls = 3
  MaxFiles = 1
PROPERTIES CallsReturn
