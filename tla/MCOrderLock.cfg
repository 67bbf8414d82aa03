CONSTANTS
  Ops = {o1, o2}
  TTL = 3
  Interval = 2
  NoOne = NoOne
SPECIFICATION Spec
INVARIANTS TypeOK OwnerUndisturbed NormalMeansExclusive AtMostOneInBody BodyOwnsTheKey
PROPERTIES OnlyTheOwnerTouchesTheKey LeaseIsFreedEventually
CHECK_DEADLOCK FALSE
