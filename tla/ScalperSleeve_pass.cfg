SPECIFICATION FairSpec
CHECK_DEADLOCK FALSE
CONSTANTS
  Underlyings <- MCUnderlyings
  Order <- MCOrder
  Pnls <- MCPnls
  Strikes = {"k1"}
  MaxTrades = 2
  MaxTradesEach = 2
  MaxConcurrent = 2
  MaxConcurrentEach = 2
  MaxLoss = 2
  ProfitLock = 1
  FirstFloor = 0
  GiveBack = 1
  LockStops = FALSE
  StreakStop = 2
  MaxShort = 1
  MaxFaults = 1
  MaxDays = 1
INVARIANTS TradesWithinCap LegsAccounted
PROPERTIES LossCapHolds GovernorLatches SquareOffFlattens
