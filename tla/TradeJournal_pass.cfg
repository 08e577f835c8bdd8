SPECIFICATION Spec
CHECK_DEADLOCK FALSE
CONSTANTS
  MaxQty = 2
  MaxRows = 2
  MaxFaults = 2
  Modes = {"PAPER", "LIVE"}
INVARIANTS RowsFollowTrades
PROPERTIES ClosedRowsStay
