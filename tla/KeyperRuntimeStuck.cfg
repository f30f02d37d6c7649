\* What becomes of PendingHalfStep when a transaction reverts.
SPECIFICATION Spec
CONSTANTS
  Workers = 1
  MaxParallel = 1
  FirstHalfStep = 1
  MaxHalfSteps = 2
  MaxMessages = 1
  MaxFailures = 1
PROPERTY WaitsOnlyForPendingTX
