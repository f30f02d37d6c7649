\* Two keypers, both honest, with late check-ins, lost answers, late syncs.
SPECIFICATION Spec
CONSTANTS
  k1 = k1
  k2 = k2
  k3 = k3
  Keypers <- MCTwo
  Honest <- MCTwo
  LateCheckIns <- MCNobody
  Misbehaviour <- MCSilence
  Threshold = 1
  PhaseLength = 2
  StartHeight = 1
  MaxHeight = 6
  Slow <- MCTwo
  MaxLag = 6
  MaxLosses = 1
INVARIANTS
  KnowsTheChain
  AgreeOnParticipants
