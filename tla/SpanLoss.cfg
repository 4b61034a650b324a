SPECIFICATION Spec
CHECK_DEADLOCK FALSE
CONSTANTS
  Appenders = {p1, p2}
  Readers = {"projector", "journal"}
  Runs = {"a", "b"}
  Msg <- TwoRuns
  Wirings <- Broker
  Capacity = 2
  MaxRecords = 5
  MaxTrims = 0
  MaxMishaps = 1
  Width = 4
  Rollup = 8
  PagePositions = 2
  MostHeld = 9
  DedupCapacity = 3
  FlushBatch = 2
  MaxTicks = 1
INVARIANT CommittedSpansAreStored
