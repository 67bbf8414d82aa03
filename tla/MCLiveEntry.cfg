CONSTANTS
  e1 = e1
  e2 = e2
  i1 = i1
  NoOne = NoOne
  Entries <- MCEntries
  Instruments <- MCEntries
  Inst <- Apart
  Exch <- OneExchangeEach
  MaxPositions = 1
  Critical = {}
  Blockers <- MCBlockers
  Reasons = {"worker"}
SPECIFICATION Spec
SYMMETRY Swap
INVARIANTS TypeOK ExposureIsReserved CapacityKept KnownUnresolvedBlocks
PROPERTIES CleanScanOwnsPositions
