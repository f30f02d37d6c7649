\* Two keypers, one of them faulty.  The chain ends at block MaxBlock.
SPECIFICATION Spec
CONSTANTS
  k1 = k1
  k2 = k2
  tx = tx
  Accounts = {k1, k2}
  Transactions = {tx}
  Terms <- MCTerms
  HeadsUp = 0
  MaxBlock = 5
  MaxBatch = 1
  MaxConfigs = 4
  AppealBlocks = 1
  Faulty = {k1}
  Depositors = {k1}
  Delays = {1}
  MaxDeposit = 1
CHECK_DEADLOCK FALSE
INVARIANTS
  PlainAssertsHold
  ReceiptsMatchBatches
  OnlyRightDecryptionsAppealed
  SlashedForGood
PROPERTIES
  BatchFixedOnceOpen
  DepositHeldForAppeal
