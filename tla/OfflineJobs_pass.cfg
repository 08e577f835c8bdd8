SPECIFICATION Spec
CHECK_DEADLOCK FALSE
CONSTANTS
  Ids = 3
  Chunks = 1
  Arguments <- GivenArguments
  Concurrency = 2
  MaxTries = 1
  MaxTokens = 2
  MaxRuns = 2
  Cutover = 14
  PreCutover = 3
  Weekly = 1
  Firsts = {11}
  Span = 4
  MaxWindow = 3
  MaxCode = 2
  MaxOffset = 1
  Holidays = {15, 22}
  Budget = 4
  RateRetries = 1
  Bars <- LastBars
  MaxPulls = 2
  Collectors = {p1}
  Runners = {p2}
  MaxDay = 2
  Expiries = {1}
  Lookback = 1
  Spots = {10}
  Closes = {2, 24}
  Strikes = {4, 6, 8, 14, 16, 18}
  Gaps = {18}
  Step = 2
  Wings = 2
  Reach = 3
  MaxFaults = 1
  MaxCalls = 3
  MaxFlushes = 3
INVARIANTS BackfillSound HistorySound PaperSound ReportIsExact
PROPERTIES WrittenStays BackfillFinishes MaturedResolves
