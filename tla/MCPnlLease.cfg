SPECIFICATION Spec
CONSTANTS
  Trades = {t1}
  Writers = {w1, w2}
  Entries = {e1}
  Estimate = 1
  Net = 2
  Limit = 3
SYMMETRY SwapWriters
INVARIANTS TypeOK LeaseTellsTheJournal
PROPERTIES AdmittedOnTheJournal
