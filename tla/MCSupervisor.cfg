CONSTANTS
  crit = crit
  side = side
  Order <- MCOrder
  Enabled <- MCEnabled
  Critical <- MCCritical
  Policy <- BoundedPolicy
  Budget <- MCBudget
  Blockers = {}
  Reasons = {"operational"}
  MaxFailures = 2
  StaleTimeout = 1
  Window = 2
  BackoffBase = 1
  BackoffMax = 2
  MaxPass = 1
SPECIFICATION Spec
INVARIANTS TypeOK OpenGateMeansCriticalRunning SilenceIsBounded ClosedForGood RestartBudgetKept
PROPERTIES NoSpawnAfterStop EndedWorkerIsHandled HealthyGateReopens
CHECK_DEADLOCK FALSE
