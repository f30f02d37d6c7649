SPECIFICATION Spec
CONSTANTS
  alice = alice
  bob = bob
  Tx <- MCTxs
  GenesisKeypers = {alice}
  NewKeypers = {bob}
  MaxTxsPerBlock = 2
  Proposals <- MCProposals
  MaxHeight = 4
  MaxCrashes = 1
  MaxBatchIndex = 1
  MaxRestarts = 1
INVARIANTS
  AppFollowsChain
  AppliedOnce
  MempoolWithinLimits
  HandledOnce
CHECK_DEADLOCK FALSE
