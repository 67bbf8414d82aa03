CONSTANTS
  Executors = {inl, wrk}
  Inline = inl
  Exits = {x1}
  NoOne = NoOne
  Owned = 2
  Foreign = 1
  MaxRejected = 2
  MaxCloses = 2
  MaxFaults = 2
SPECIFICATION MCSpec
INVARIANTS TypeOK PassInv ClosesWithinOwned
PROPERTIES KeepsPromise TaskEnds NoSendBesideAnExit AccountsTheWhole
CHECK_DEADLOCK FALSE
