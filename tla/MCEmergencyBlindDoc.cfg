SPECIFICATION Spec
CONSTANTS
  Executors = {inl, wrk}
  Inline = inl
  Exits = {}
  NoOne = NoOne
  Owned = 2
  Foreign = 1
  MaxRejected = 2
  MaxCloses = 2
  MaxFaults = 0
INVARIANTS OneCloseAtATime
CHECK_DEADLOCK FALSE
