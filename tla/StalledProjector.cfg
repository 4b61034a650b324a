SPECIFICATION FairSpec
CHECK_DEADLOCK FALSE
CONSTANTS
  Appenders = {p1, p2}
  Readers = {"projector", "journal"}
  Runs = {"a", "b"}
  Msg <- TwoRuns
  Wirings <- OwnLog
  Capacity = 1
  MaxRecords = 5
  MaxTrims = 0
  MaxMishaps = 0
  Width = 4
  Rollup = 8
  PagePositions = 2
  MostHeld = 9
  DedupCapacity = 3
  FlushBatch = 2
  MaxTicks = 0
PROPERTY EverythingIsRead
