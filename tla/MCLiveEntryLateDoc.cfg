CONSTANTS
  e1 = e1
  e2 = e2
  i1 = i1
  NoOne = NoOne
  Entries <- MCEntries
  Instruments = {i1}
  Inst <- Together
  Exch <- OneExchange
  MaxPositions = 2
  Critical = {}
  Blockers <- MCBlockers
  Reasons = {"worker"}
SPECIFICATION Spec
PROPERTIES CompletedIsNeverCandidate
CHECK_DEADLOCK FALSE
