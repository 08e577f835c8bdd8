SPECIFICATION LimitSpec
CONSTANTS
  Sids = {s1, s2}
  Sides = {"BUY"}
  MaxOpen = 1
  MaxEntries = 1
  MaxQty = 1
  MaxDays = 2
  MaxFaults = 2
  Live = FALSE
INVARIANTS LimitsHold
PROPERTIES RestartRestoresSettled
CHECK_DEADLOCK FALSE
