SPECIFICATION TickingSpec
CONSTANTS
  Trades = {t1}
  Writers = {w1}
  Entries = {}
  Estimate = 1
  Net = 2
  Limit = 3
PROPERTIES PendingCloseKeepsLeaseOut ReadinessReturns PendingCloseIsResolved
