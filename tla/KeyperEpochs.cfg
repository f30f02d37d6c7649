SPECIFICATION Spec
CONSTANTS
  k1 = k1
  k2 = k2
  k3 = k3
  k4 = k4
  Keypers = {k1, k2, k3, k4}
  Honest = {k1, k2, k4}
  Lagging = {k2}
  Threshold = 3
  BatchConfigs <- MCBatchConfigs
  MaxBatch = 0
  MaxBlock = 5
  MaxTxs = 2
  MaxEons = 2
  MaxParallel = 10
  ExecutionStaggering = 1
  Slow = {k2}
  StuckAt = {1}
  Misbehaviour <- MCMisbehaviour
  FaultyResults = {{1}}
SYMMETRY MCSymmetry
INVARIANTS
  TypeOK
  SecretUntilClosed
  OneKeyPerEpoch
  ExecutedResultsRight
PROPERTY HonestNotAccused
CHECK_DEADLOCK FALSE
