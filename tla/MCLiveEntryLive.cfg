CONSTANTS
  e1 = e1
  e2 = e2
  i1 = i1
  NoOne = NoOne
  Entries = {e1}
  Instruments = {i1}
  Inst <- Alone
  Exch <- OneExchange
  MaxPositions = 1
  Critical = {"w"}
  Blockers <- MCBlockers
  Reasons = {"worker"}
SPECIFICATION FairSpec
PROPERTIES UnresolvedIsNoticed LateFillIsSettled
