CONSTANTS
  NExtents = 5
  StartAt <- MCStartAt
  PrefixSize = 2
  fail_limit = 1
  MaxDamaged = 3
SPECIFICATION FairSpec
INVARIANTS NothingInvented NothingLost
PROPERTIES ReadingEnds
CHECK_DEADLOCK FALSE
