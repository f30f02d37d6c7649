\* Two honest keypers and one that is not, threshold 2.
SPECIFICATION VotesSpec
CONSTANTS
  k1 = k1
  k2 = k2
  k3 = k3
  NoKey = NoKey
  WrongVotes <- MCWrongVotes
  Keypers <- MCThree
  Honest <- MCTwo
  LateCheckIns <- MCNobody
  Misbehaviour <- MCMisbehaviour
  Threshold = 2
  PhaseLength = 2
  StartHeight = 1
  MaxHeight = 6
  Slow = {k1}
  MaxLag = 0
  MaxLosses = 0
INVARIANTS
  AgreeOnParticipants
  HonestDealerCounts
  TimelyDKGSucceeds
  BestKeyIsRight
