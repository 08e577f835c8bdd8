SPECIFICATION FairSpec
CONSTANTS
  Sids = {s1}
  Sides <- BothSides
  MaxOpen = 1
  MaxEntries = 2
  MaxQty = 2
  MaxDays = 2
  MaxFaults = 2
  Live = TRUE
INVARIANTS RunnersInStep ExitOnlyReduces BookAgrees
PROPERTIES OneEntryPerSide SquareOffFlattens
CHECK_DEADLOCK FALSE
