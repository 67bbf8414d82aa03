CONSTANTS
  w1 = w1
  w2 = w2
  w3 = w3
  b1 = b1
  b2 = b2
  e1 = e1
  e2 = e2
  Critical <- MCCritical
  Workers <- MCWorkers
  Blockers <- MCBlockers
  Reasons = {"worker_failed"}
  Entries <- MCEntries
  MaxGeneration = 6
SPECIFICATION Spec
INVARIANTS TypeOK TokenInv ClosedGateHasReason
PROPERTIES SentOnlyThroughAnOpenGate
