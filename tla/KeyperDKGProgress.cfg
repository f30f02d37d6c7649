\* One keyper that runs and one that is silent and checks in late.
SPECIFICATION FairSpec
CONSTANTS
  k1 = k1
  k2 = k2
  k3 = k3
  Keypers <- MCTwo
  Honest <- MCOne
  LateCheckIns <- MCLate
  Misbehaviour <- MCSilence
  Threshold = 1
  PhaseLength = 2
  StartHeight = 1
  Slow <- MCOne
  MaxLag = 6
  MaxHeight = 6
  MaxLosses = 1
PROPERTY EveryDKGEnds
