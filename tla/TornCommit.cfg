SPECIFICATION Spec
CHECK_DEADLOCK FALSE
CONSTANTS
  Parts = {"journal"}
  Commit <- AskedStep
  RowKeys = {"a", "b"}
  MaxBreaks = 2
  Tickers = {w1, w2}
  SlotTimes = {1, 2}
  ActiveFrom = 0
  FirstTickReachesBack = 2
  SlotLease = 1
  Overlap = "skip"
  EndOfTime = 3
  MaxTrouble = 2
  Deciders = {d1, d2}
  Bells = {p1, p2}
  TimerIds = {"t"}
  DeciderLease = 1
  TimersPerTick = 1
  LastHour = 2
  MaxTurns = 2
  EndedAt <- TwoFailures
  MaxAttempts = 2
  Backoff = 1
  LastMinute = 3
  MaxOutages = 1
  Spans <- SpanTree
  OrphanTimeout = 1
  MaxOpenSpans = 2
  LastInstant = 2
  MaxEvents = 4
  Streams = {"a", "b"}
  Cuts = {"between", "inside"}
  MaxPieces = 5
  MaxFaults = 2
INVARIANT CommittedIsWhole
