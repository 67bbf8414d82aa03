SPECIFICATION Spec
CONSTANTS
  Trades = {t1}
  Writers = {w1}
  Entries = {e1}
  Estimate = 1
  Net = 2
  Limit = 3
INVARIANTS PendingCloseNeverAdmits
