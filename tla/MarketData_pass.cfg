SPECIFICATION Spec
CHECK_DEADLOCK FALSE
CONSTANTS
  MaxMinute = 1
  MaxTrades = 3
  MaxPending = 1
  MaxDrops = 1
  Callers = {c1, c2}
  Own = c1
INVARIANTS BarsSound PricesSound
PROPERTIES QuotesFresh
