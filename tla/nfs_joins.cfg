SPECIFICATION FairSpec
CONSTANTS
  MaxPackets = 6
  PacketAt <- Times
  AttrRows <- Replied
  NoExtent = NoExtent
  Options <- Chosen
  RotateInterval = 2
  MissingTime = 2
  Microsecond = 1
  OutputRows = 2
CHECK_DEADLOCK FALSE
INVARIANTS JoinedRows MergedRows KeptForTheInterval
PROPERTY ReadingEnds
