SPECIFICATION SweepFairSpec
CONSTANTS
  Sids = {s1}
  Sides <- LongOnly
  MaxOpen = 1
  MaxEntries = 2
  MaxQty = 2
  MaxDays = 1
  MaxFaults = 1
  Live = TRUE
INVARIANTS SweepKeepsBooks
PROPERTIES ReversedOnlyIfContested SquareOffSurvivesUncontestedHalt
