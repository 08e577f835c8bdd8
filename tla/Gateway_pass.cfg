SPECIFICATION Spec
CONSTANTS
  Reqs = {o1, o2}
  Orders = {o1, o2}
  MaxAttempts = 2
  MaxTokens = 3
  MaxFaults = 1
  PerSec = 1
  PerMin = 2
  PerDay = 3
INVARIANTS WindowsHold OrdersOnceAndBooked
PROPERTIES TokensAgree
