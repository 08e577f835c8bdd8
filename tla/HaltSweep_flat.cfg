SPECIFICATION SweepSpec
CONSTANTS
  Sids = {s1}
  Sides <- LongOnly
  MaxOpen = 1
  MaxEntries = 1
  MaxQty = 1
  MaxDays = 1
  MaxFaults = 0
  Live = FALSE
INVARIANTS HaltLeavesFlat
