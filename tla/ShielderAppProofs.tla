------------------------- MODULE ShielderAppProofs -------------------------
(***************************************************************************)
(* Proofs about ShielderApp, for every set of addresses, every genesis and *)
(* every set of proposed configs and votes.                                *)
(***************************************************************************)
EXTENDS ShielderApp, FiniteSetTheorems, TLAPS

----------------------------------------------------------------------------
(* Lemmas on the ballot box.                                               *)

(* Adding a vote for c never adds a voter to another candidate.            *)
LEMMA AddVoteOthers ==
    ASSUME NEW votes, NEW sender, NEW c, NEW w, w # c
    PROVE  Voters(AddVote(votes, sender, c), w) \subseteq Voters(votes, w)
BY DEF Voters, AddVote

(* The voters for c after the vote are those before it and the sender.     *)
LEMMA AddVoteOwn ==
    ASSUME NEW votes, NEW sender, NEW c
    PROVE  Voters(AddVote(votes, sender, c), c) = Voters(votes, c) \cup {sender}
BY DEF Voters, AddVote

LEMMA VotersFinite ==
    ASSUME NEW votes, DOMAIN votes \subseteq Address, NEW w
    PROVE  /\ IsFiniteSet(Voters(votes, w))
           /\ Cardinality(Voters(votes, w)) \in Nat
<1>1. Voters(votes, w) \in SUBSET Address
  BY DEF Voters
<1>2. IsFiniteSet(Address)
  BY ConstantsAssumption
<1> QED
  BY <1>1, <1>2, FS_Subset, FS_CardinalityType

(* An empty ballot box has no candidate with a positive number of votes.   *)
LEMMA NewVotingNoMajority ==
    ASSUME NEW w, NEW n \in Nat, n > 0
    PROVE  ~HasEnoughVotes(NewVoting, w, n)
<1>1. Voters(NewVoting, w) = {}
  BY DEF Voters, NewVoting
<1> QED
  BY <1>1, FS_EmptySet DEF HasEnoughVotes

(* If no candidate had enough votes, then after one more vote only the     *)
(* candidate just voted for can have enough: the outcome is unique,        *)
(* whatever order the code's map iteration takes.                          *)
LEMMA OutcomeIsTheVote ==
    ASSUME NEW votes, DOMAIN votes \subseteq Address,
           NEW sender \in Address, NEW c, NEW n \in Nat,
           NEW w \in Outcome(AddVote(votes, sender, c), n),
           ~HasEnoughVotes(votes, w, n)
    PROVE  w = c
<1> DEFINE after == AddVote(votes, sender, c)
<1> SUFFICES ASSUME w # c PROVE FALSE
  OBVIOUS
<1>1. Voters(after, w) \in SUBSET Voters(votes, w)
  BY AddVoteOthers
<1>2. IsFiniteSet(Voters(votes, w)) /\ Cardinality(Voters(votes, w)) \in Nat
  BY VotersFinite
<1>3. Cardinality(Voters(after, w)) <= Cardinality(Voters(votes, w))
  BY <1>1, <1>2, FS_Subset
<1>4. Cardinality(Voters(after, w)) \in Nat
  BY <1>1, <1>2, FS_Subset, FS_CardinalityType
<1>5. Cardinality(Voters(after, w)) >= n
  BY DEF Outcome, HasEnoughVotes
<1>6. ~(Cardinality(Voters(votes, w)) >= n)
  BY DEF HasEnoughVotes
<1> QED
  BY <1>2, <1>3, <1>4, <1>5, <1>6

(* No outcome means that nobody has enough votes, if one vote is needed.   *)
LEMMA NoOutcomeNoMajority ==
    ASSUME NEW votes, DOMAIN votes \subseteq Address,
           NEW n \in Nat, n > 0, Outcome(votes, n) = {}, NEW w
    PROVE  ~HasEnoughVotes(votes, w, n)
<1> SUFFICES ASSUME HasEnoughVotes(votes, w, n) PROVE FALSE
  OBVIOUS
<1>1. Cardinality(Voters(votes, w)) >= n /\ Cardinality(Voters(votes, w)) \in Nat
  BY VotersFinite DEF HasEnoughVotes
<1>2. Voters(votes, w) # {}
  BY <1>1, FS_EmptySet
<1>3. \E a \in DOMAIN votes : votes[a] = w
  BY <1>2 DEF Voters
<1>4. w \in Outcome(votes, n)
  BY <1>3 DEF Outcome
<1> QED
  BY <1>4

----------------------------------------------------------------------------
(* Lemmas on configs.                                                      *)

LEMMA GenesisFacts ==
    /\ GenesisConfig \in BatchConfig
    /\ EnsureValid(GenesisConfig)
    /\ GenesisConfig.StartBatchIndex = 0
    /\ GenesisConfig.Started = FALSE
BY ConstantsAssumption DEF GenesisConfig

(* A nonempty set of positions of a sequence has a last one.               *)
LEMMA LastPosition ==
    ASSUME NEW n \in Nat, NEW S \in SUBSET (1..n), S # {}
    PROVE  \E i \in S : \A j \in S : j <= i
<1> DEFINE dist == {n - i : i \in S}
<1>1. dist \subseteq Nat /\ dist # {}
  <2>1. \A i \in S : i \in 1..n
    OBVIOUS
  <2>2. \A i \in S : n - i \in Nat
    BY <2>1
  <2> QED
    BY <2>2
<1>2. PICK d \in dist : \A e \in dist : ~(<<e, d>> \in OpToRel(<, Nat))
  <2>1. IsWellFoundedOn(OpToRel(<, Nat), Nat)
    BY NatLessThanWellFounded
  <2> QED
    BY <1>1, <2>1, WFMin
<1>3. \A e \in dist : ~(e < d)
  BY <1>1, <1>2 DEF OpToRel
<1>4. PICK i \in S : d = n - i
  BY <1>2
<1>5. \A j \in S : j <= i
  <2> SUFFICES ASSUME NEW j \in S, ~(j <= i) PROVE FALSE
    OBVIOUS
  <2>1. n - j \in dist /\ n - j < d
    BY <1>4
  <2> QED
    BY <1>3, <2>1
<1> QED
  BY <1>5

(* getConfig finds a config: the genesis config covers every batch.        *)
LEMMA ConfigForExists ==
    ASSUME NEW cfgs \in Seq(BatchConfig), Len(cfgs) > 0,
           cfgs[1].StartBatchIndex = 0, NEW b \in Nat
    PROVE  \E i \in DOMAIN cfgs :
              /\ ConfigFor(cfgs, b) = cfgs[i]
              /\ cfgs[i].StartBatchIndex <= b
              /\ \A j \in DOMAIN cfgs : j > i => cfgs[j].StartBatchIndex > b
<1> DEFINE covers == {i \in DOMAIN cfgs : cfgs[i].StartBatchIndex <= b}
<1>1. DOMAIN cfgs = 1..Len(cfgs) /\ Len(cfgs) \in Nat
  OBVIOUS
<1>2. 1 \in covers
  BY <1>1
<1>3. PICK i \in covers : \A j \in covers : j <= i
  BY <1>1, <1>2, LastPosition
<1>4. \A j \in DOMAIN cfgs : cfgs[j].StartBatchIndex \in Nat
  <2>1. \A j \in DOMAIN cfgs : cfgs[j] \in BatchConfig
    OBVIOUS
  <2> QED
    BY <2>1 DEF BatchConfig, BatchConfigOf
<1>5. \A j \in DOMAIN cfgs : j > i => cfgs[j].StartBatchIndex > b
  BY <1>1, <1>3, <1>4
<1>6. \E k \in DOMAIN cfgs :
         /\ cfgs[k].StartBatchIndex <= b
         /\ \A j \in DOMAIN cfgs : j > k => cfgs[j].StartBatchIndex > b
  BY <1>3, <1>5
<1> QED
  BY <1>6 DEF ConfigFor

(* A member of Configs, field by field.                                    *)
LEMMA ConfigFields ==
    ASSUME NEW cfg \in BatchConfig
    PROVE  /\ cfg.StartBatchIndex \in Nat
           /\ cfg.Keypers \in Seq(Address)
           /\ cfg.Threshold \in Nat
           /\ cfg.ConfigIndex \in Nat
           /\ cfg.Started \in BOOLEAN
           /\ cfg.ValidatorsUpdated \in BOOLEAN
BY DEF BatchConfig, BatchConfigOf

----------------------------------------------------------------------------
(* The inductive invariant.                                                *)

(* Ballots are only cast by those entitled to vote, and a ballot box for   *)
(* eon starts belongs to an accepted config.  The second part is what lets *)
(* a new config not meet votes that were cast before it existed.           *)
VotersAreKeypers ==
    /\ \A a \in DOMAIN ConfigVoting : IsKeyper(LastConfig, a)
    /\ \A c \in DOMAIN EonStartVotings : \E i \in DOMAIN Configs :
          /\ Configs[i].ConfigIndex = c
          /\ \A a \in DOMAIN EonStartVotings[c] : IsKeyper(Configs[i], a)

IInv ==
    /\ TypeOK
    /\ ConfigsOrdered
    /\ VotersAreKeypers
    /\ NoDanglingMajority

(* The configs in force are well typed and need at least one vote.         *)
LEMMA ConfigsFacts ==
    ASSUME ConfigsTypeOK, ConfigsOrdered
    PROVE  /\ Len(Configs) \in Nat \ {0} /\ DOMAIN Configs = 1..Len(Configs)
           /\ LastConfig \in BatchConfig
           /\ \A i \in DOMAIN Configs :
                 /\ Configs[i] \in BatchConfig
                 /\ Configs[i].Threshold \in Nat /\ Configs[i].Threshold > 0
                 /\ Configs[i].ConfigIndex \in Nat
                 /\ Configs[i].StartBatchIndex \in Nat
<1>1. Len(Configs) \in Nat \ {0} /\ DOMAIN Configs = 1..Len(Configs)
  BY DEF ConfigsTypeOK
<1>2. \A i \in DOMAIN Configs : Configs[i] \in BatchConfig
  BY DEF ConfigsTypeOK
<1>3. LastConfig \in BatchConfig
  BY <1>1, <1>2 DEF LastConfig
<1>4. \A i \in DOMAIN Configs : Configs[i].Threshold > 0
  BY DEF ConfigsOrdered, EnsureValid
<1> QED
  BY <1>1, <1>2, <1>3, <1>4, ConfigFields

THEOREM InitInv == Init => IInv
<1> SUFFICES ASSUME Init PROVE IInv
  OBVIOUS
<1> USE DEF Init
<1>1. Len(Configs) = 1 /\ Configs[1] = GenesisConfig /\ DOMAIN Configs = {1}
  OBVIOUS
<1>2. ConfigsTypeOK
  BY GenesisFacts DEF ConfigsTypeOK
<1>3. VotingsTypeOK
  BY DEF VotingsTypeOK, NewVoting
<1>4. ValidatorsTypeOK
  BY ConstantsAssumption DEF ValidatorsTypeOK
<1>5. EonsTypeOK
  BY DEF EonsTypeOK
<1>6. BatchStatesTypeOK
  BY DEF BatchStatesTypeOK
<1>7. ConfigsOrdered
  BY <1>1, GenesisFacts DEF ConfigsOrdered
<1>8. VotersAreKeypers
  BY DEF VotersAreKeypers, NewVoting
<1>9. NoConfigMajority
  <2>1. LastConfig.Threshold \in Nat /\ LastConfig.Threshold > 0
    BY <1>1, GenesisFacts, ConfigFields DEF LastConfig, EnsureValid
  <2> QED
    BY <2>1, NewVotingNoMajority DEF NoConfigMajority
<1>10. NoEonStartMajority
  BY DEF NoEonStartMajority
<1> QED
  BY <1>2, <1>3, <1>4, <1>5, <1>6, <1>7, <1>8, <1>9, <1>10
     DEF IInv, TypeOK, NoDanglingMajority

(* Starting a DKG keeps the eons typed and consecutive.                    *)
LEMMA StartDKGEons ==
    ASSUME EonsTypeOK, NEW config \in BatchConfig, NEW b \in Nat,
           StartDKG(config, b)
    PROVE  EonsTypeOK'
<1> DEFINE new == EONCounter + 1
<1>1. EONCounter' = new /\ new \in Nat
  BY DEF StartDKG, EonsTypeOK
<1>2. DOMAIN DKGMap' = 1..new
  BY DEF StartDKG, EonsTypeOK
<1>3. NewDKGInstance(config, new) \in DKGInstanceType
  BY <1>1 DEF NewDKGInstance, DKGInstanceType
<1>4. NewDKGInstance(config, new).Eon = new
  BY DEF NewDKGInstance
<1>5. ASSUME NEW e \in DOMAIN DKGMap'
      PROVE  DKGMap'[e] \in DKGInstanceType /\ DKGMap'[e].Eon = e
  <2>1. CASE e = new
    BY <1>3, <1>4, <1>5, <2>1 DEF StartDKG
  <2>2. CASE e # new
    <3>1. e \in DOMAIN DKGMap /\ DKGMap'[e] = DKGMap[e]
      BY <1>5, <2>2 DEF StartDKG
    <3> QED
      BY <3>1 DEF EonsTypeOK
  <2> QED
    BY <2>1, <2>2
<1>6. events' \in Seq(Event)
  <2>1. EonStarted(new, b) \in Event
    BY <1>1 DEF EonStarted, Event
  <2>2. events \in Seq(Event) /\ events' = Append(events, EonStarted(new, b))
    BY DEF StartDKG, EonsTypeOK
  <2> QED
    BY <2>1, <2>2
<1> QED
  BY <1>1, <1>2, <1>5, <1>6 DEF EonsTypeOK

(* Appending an admissible config keeps the sequence of configs in order.  *)
LEMMA AppendConfig ==
    ASSUME ConfigsTypeOK, ConfigsOrdered, NEW bc \in BatchConfig,
           checkConfig(bc), Configs' = Append(Configs, bc)
    PROVE  /\ ConfigsTypeOK' /\ ConfigsOrdered'
           /\ LastConfig' = bc
           /\ Len(Configs') = Len(Configs) + 1
           /\ \A i \in DOMAIN Configs :
                 /\ i \in DOMAIN Configs' /\ Configs'[i] = Configs[i]
                 /\ Configs[i].ConfigIndex < bc.ConfigIndex
           /\ \A i \in DOMAIN Configs' : i \in DOMAIN Configs \/ Configs'[i] = bc
<1>1. /\ Len(Configs) \in Nat \ {0} /\ DOMAIN Configs = 1..Len(Configs)
      /\ \A i \in DOMAIN Configs :
            /\ Configs[i].ConfigIndex \in Nat
            /\ Configs[i].StartBatchIndex \in Nat
  BY ConfigsFacts
<1>2. /\ Configs' \in Seq(BatchConfig)
      /\ Len(Configs') = Len(Configs) + 1
      /\ DOMAIN Configs' = 1..(Len(Configs) + 1)
      /\ Configs'[Len(Configs) + 1] = bc
      /\ \A i \in DOMAIN Configs : Configs'[i] = Configs[i]
  BY DEF ConfigsTypeOK
<1>3. bc.ConfigIndex \in Nat /\ bc.StartBatchIndex \in Nat
  BY ConfigFields
<1>4. \A i \in DOMAIN Configs :
         /\ Configs[i].ConfigIndex < bc.ConfigIndex
         /\ Configs[i].StartBatchIndex <= bc.StartBatchIndex
  <2> SUFFICES ASSUME NEW i \in DOMAIN Configs
               PROVE  /\ Configs[i].ConfigIndex < bc.ConfigIndex
                      /\ Configs[i].StartBatchIndex <= bc.StartBatchIndex
    OBVIOUS
  <2>1. /\ bc.ConfigIndex > LastConfig.ConfigIndex
        /\ bc.StartBatchIndex >= LastConfig.StartBatchIndex
    BY DEF checkConfig
  <2>2. CASE i = Len(Configs)
    BY <1>1, <1>3, <2>1, <2>2 DEF LastConfig
  <2>3. CASE i < Len(Configs)
    <3>1. /\ Configs[i].ConfigIndex < LastConfig.ConfigIndex
          /\ Configs[i].StartBatchIndex <= LastConfig.StartBatchIndex
      BY <1>1, <2>3 DEF ConfigsOrdered, LastConfig
    <3>2. LastConfig.ConfigIndex \in Nat /\ LastConfig.StartBatchIndex \in Nat
      BY <1>1 DEF LastConfig
    <3> QED
      BY <1>1, <1>3, <2>1, <3>1, <3>2
  <2> QED
    BY <1>1, <2>2, <2>3
<1>5. ConfigsOrdered'
  <2>1. \A i \in DOMAIN Configs' : EnsureValid(Configs'[i])
    <3>1. EnsureValid(bc)
      BY DEF checkConfig
    <3>2. \A i \in DOMAIN Configs : EnsureValid(Configs[i])
      BY DEF ConfigsOrdered
    <3> QED
      BY <1>1, <1>2, <3>1, <3>2
  <2>2. Configs'[1].StartBatchIndex = 0
    BY <1>1, <1>2 DEF ConfigsOrdered
  <2>3. ASSUME NEW i \in DOMAIN Configs', NEW j \in DOMAIN Configs', i < j
        PROVE  /\ Configs'[i].ConfigIndex < Configs'[j].ConfigIndex
               /\ Configs'[i].StartBatchIndex <= Configs'[j].StartBatchIndex
    <3>1. i \in DOMAIN Configs
      BY <1>1, <1>2, <2>3
    <3>2. CASE j \in DOMAIN Configs
      BY <1>2, <2>3, <3>1, <3>2 DEF ConfigsOrdered
    <3>3. CASE j = Len(Configs) + 1
      BY <1>2, <1>4, <3>1, <3>3
    <3> QED
      BY <1>1, <1>2, <3>2, <3>3
  <2> QED
    BY <2>1, <2>2, <2>3 DEF ConfigsOrdered
<1>6. ConfigsTypeOK'
  BY <1>1, <1>2 DEF ConfigsTypeOK
<1>7. LastConfig' = bc
  BY <1>2 DEF LastConfig
<1> QED
  BY <1>1, <1>2, <1>4, <1>5, <1>6, <1>7

LEMMA BatchConfigStep ==
    ASSUME IInv, NEW sender \in Address, NEW bc \in ProposedConfigs,
           deliverBatchConfig(sender, bc)
    PROVE  IInv'
<1> DEFINE votes == AddVote(ConfigVoting, sender, bc)
<1>1. /\ ConfigsTypeOK /\ ConfigsOrdered /\ EonsTypeOK /\ VotingsTypeOK
      /\ ValidatorsTypeOK /\ BatchStatesTypeOK
      /\ VotersAreKeypers /\ NoConfigMajority /\ NoEonStartMajority
  BY DEF IInv, TypeOK, NoDanglingMajority
<1>2. bc \in BatchConfig /\ bc.StartBatchIndex \in Nat
  BY ConstantsAssumption, ConfigFields
<1>3. /\ LastConfig.Threshold \in Nat /\ LastConfig.Threshold > 0
      /\ Len(Configs) \in DOMAIN Configs
  BY <1>1, ConfigsFacts DEF LastConfig
<1>4. /\ DOMAIN votes \subseteq Address
      /\ \A a \in DOMAIN votes : votes[a] \in ProposedConfigs
      /\ \A a \in DOMAIN votes : IsKeyper(LastConfig, a)
  <2>1. IsKeyper(LastConfig, sender)
    BY DEF deliverBatchConfig
  <2>2. /\ DOMAIN votes = DOMAIN ConfigVoting \cup {sender}
        /\ \A a \in DOMAIN votes :
              votes[a] = IF a = sender THEN bc ELSE ConfigVoting[a]
    BY DEF AddVote
  <2> HIDE DEF votes
  <2>3. DOMAIN votes \subseteq Address
    BY <1>1, <2>2 DEF VotingsTypeOK
  <2>4. \A a \in DOMAIN votes : votes[a] \in ProposedConfigs
    BY <1>1, <2>2 DEF VotingsTypeOK
  <2>5. \A a \in DOMAIN votes : IsKeyper(LastConfig, a)
    BY <1>1, <2>1, <2>2 DEF VotersAreKeypers
  <2> QED
    BY <2>3, <2>4, <2>5
<1>5. /\ ValidatorsTypeOK' /\ BatchStatesTypeOK'
      /\ EonStartVotings' = EonStartVotings /\ StartedVotes' = StartedVotes
  BY <1>1 DEF deliverBatchConfig, ValidatorsTypeOK, BatchStatesTypeOK,
              startVars, validatorVars
<1>6. CASE Outcome(votes, LastConfig.Threshold) = {}
  <2>1. ConfigVoting' = votes /\ Configs' = Configs /\ UNCHANGED eonVars
    BY <1>6 DEF deliverBatchConfig
  <2>2. NoConfigMajority'
    BY <1>3, <1>4, <1>6, <2>1, NoOutcomeNoMajority DEF NoConfigMajority, LastConfig
  <2>3. NoEonStartMajority' /\ ConfigsTypeOK' /\ ConfigsOrdered'
    BY <1>1, <1>5, <2>1 DEF NoEonStartMajority, ConfigsTypeOK, ConfigsOrdered
  <2>4. EonsTypeOK'
    BY <1>1, <2>1 DEF EonsTypeOK, eonVars
  <2>5. VotingsTypeOK'
    BY <1>1, <1>4, <1>5, <2>1 DEF VotingsTypeOK
  <2>6. VotersAreKeypers'
    BY <1>1, <1>4, <1>5, <2>1 DEF VotersAreKeypers, LastConfig
  <2> QED
    BY <1>5, <2>2, <2>3, <2>4, <2>5, <2>6 DEF IInv, TypeOK, NoDanglingMajority
<1>7. CASE Outcome(votes, LastConfig.Threshold) # {}
  <2>1. /\ ConfigVoting' = NewVoting /\ Configs' = Append(Configs, bc)
        /\ StartDKG(bc, bc.StartBatchIndex) \/ UNCHANGED eonVars
        /\ checkConfig(bc)
    BY <1>7 DEF deliverBatchConfig
  <2>2. EonsTypeOK'
    <3>1. CASE StartDKG(bc, bc.StartBatchIndex)
      BY <1>1, <1>2, <3>1, StartDKGEons
    <3>2. CASE UNCHANGED eonVars
      BY <1>1, <3>2 DEF EonsTypeOK, eonVars
    <3> QED
      BY <2>1, <3>1, <3>2
  <2>3. /\ ConfigsTypeOK' /\ ConfigsOrdered'
        /\ LastConfig' = bc
        /\ \A i \in DOMAIN Configs :
              /\ i \in DOMAIN Configs' /\ Configs'[i] = Configs[i]
              /\ Configs[i].ConfigIndex < bc.ConfigIndex
        /\ \A i \in DOMAIN Configs' : i \in DOMAIN Configs \/ Configs'[i] = bc
    BY <1>1, <1>2, <2>1, AppendConfig
  <2>4. NoConfigMajority'
    <3>1. bc.Threshold \in Nat /\ bc.Threshold > 0
      BY <1>2, <2>1, ConfigFields DEF checkConfig, EnsureValid
    <3> QED
      BY <2>1, <2>3, <3>1, NewVotingNoMajority DEF NoConfigMajority
  <2>5. NoEonStartMajority'
    <3> SUFFICES ASSUME NEW c \in DOMAIN EonStartVotings, NEW i \in DOMAIN Configs',
                        Configs'[i].ConfigIndex = c, NEW b \in EonVoteBatches
                 PROVE  ~HasEnoughVotes(EonStartVotings[c], b, Configs'[i].Threshold)
      BY <1>5 DEF NoEonStartMajority
    <3>1. PICK k \in DOMAIN Configs : Configs[k].ConfigIndex = c
      BY <1>1 DEF VotersAreKeypers
    <3>2. Configs[k].ConfigIndex < bc.ConfigIndex /\ Configs[k].ConfigIndex \in Nat
      BY <1>1, <2>3, ConfigsFacts
    <3>3. c # bc.ConfigIndex
      BY <1>2, <3>1, <3>2, ConfigFields
    <3>4. i \in DOMAIN Configs /\ Configs'[i] = Configs[i]
      BY <2>3, <3>3
    <3> QED
      BY <1>1, <3>4 DEF NoEonStartMajority
  <2>6. VotingsTypeOK'
    BY <1>1, <1>5, <2>1 DEF VotingsTypeOK, NewVoting
  <2>7. VotersAreKeypers'
    BY <1>1, <1>5, <2>1, <2>3 DEF VotersAreKeypers, NewVoting
  <2> QED
    BY <1>5, <2>2, <2>3, <2>4, <2>5, <2>6, <2>7 DEF IInv, TypeOK, NoDanglingMajority
<1> QED
  BY <1>6, <1>7

LEMMA CheckInStep ==
    ASSUME IInv, NEW sender \in Address, NEW pk \in CheckInPubkeys,
           deliverCheckIn(sender, pk)
    PROVE  IInv'
<1>1. pk \in ValidatorPubkey
  BY ConstantsAssumption
<1>2. ValidatorsTypeOK'
  BY <1>1 DEF IInv, TypeOK, ValidatorsTypeOK, deliverCheckIn
<1>3. UNCHANGED <<Configs, ConfigVoting, EonStartVotings, StartedVotes,
                  EONCounter, DKGMap, events, BatchStates>>
  BY DEF deliverCheckIn, configVars, startVars, eonVars
<1> QED
  BY <1>2, <1>3
     DEF IInv, TypeOK, ConfigsTypeOK, VotingsTypeOK, EonsTypeOK,
         BatchStatesTypeOK, ConfigsOrdered, VotersAreKeypers, LastConfig,
         NoDanglingMajority, NoConfigMajority, NoEonStartMajority

LEMMA BatchConfigStartedStep ==
    ASSUME IInv, NEW sender \in Address, NEW i \in StartedIndices,
           deliverBatchConfigStarted(sender, i)
    PROVE  IInv'
<1>1. UNCHANGED <<Configs, ConfigVoting, EonStartVotings, Identities,
                  Validators, EONCounter, DKGMap, events, BatchStates>>
  BY DEF deliverBatchConfigStarted, configVars, validatorVars, eonVars
<1>2. VotingsTypeOK'
  BY <1>1 DEF IInv, TypeOK, VotingsTypeOK, deliverBatchConfigStarted
<1> QED
  BY <1>1, <1>2
     DEF IInv, TypeOK, ConfigsTypeOK, ValidatorsTypeOK, EonsTypeOK,
         BatchStatesTypeOK, ConfigsOrdered, VotersAreKeypers, LastConfig,
         NoDanglingMajority, NoConfigMajority, NoEonStartMajority

(* The config an eon start vote or a signature is counted for.             *)
LEMMA GetConfigFacts ==
    ASSUME ConfigsTypeOK, ConfigsOrdered, NEW b \in Nat
    PROVE  /\ getConfig(b) \in BatchConfig
           /\ \E i \in DOMAIN Configs : getConfig(b) = Configs[i]
<1>1. \E i \in DOMAIN Configs : getConfig(b) = Configs[i]
  BY ConfigForExists DEF getConfig, ConfigsTypeOK, ConfigsOrdered
<1> QED
  BY <1>1, ConfigsFacts

LEMMA SignatureStep ==
    ASSUME IInv, NEW sender \in Address, NEW b \in SignedBatches,
           deliverDecryptionSignature(sender, b)
    PROVE  IInv'
<1>1. UNCHANGED <<Configs, ConfigVoting, EonStartVotings, StartedVotes,
                  Identities, Validators, EONCounter, DKGMap, events>>
  BY DEF deliverDecryptionSignature, configVars, startVars, validatorVars, eonVars
<1>2. BatchStatesTypeOK'
  <2> DEFINE BS == [Config : BatchConfig, Signers : Seq(Address)]
             bs == IF b \in DOMAIN BatchStates THEN BatchStates[b]
                   ELSE [Config |-> getConfig(b), Signers |-> <<>>]
             new == [bs EXCEPT !.Signers = Append(@, sender)]
  <2>1. getConfig(b) \in BatchConfig
    BY ConstantsAssumption, GetConfigFacts DEF IInv, TypeOK
  <2>2. bs \in BS
    BY <2>1 DEF IInv, TypeOK, BatchStatesTypeOK
  <2>3. new \in BS
    <3> HIDE DEF bs
    <3>1. bs.Config \in BatchConfig /\ bs.Signers \in Seq(Address)
      BY <2>2
    <3>2. Append(bs.Signers, sender) \in Seq(Address)
      BY <3>1
    <3> HIDE DEF BatchConfig
    <3> QED
      BY <2>2, <3>1, <3>2
  <2>4. BatchStates' = [x \in DOMAIN BatchStates \cup {b} |->
                          IF x = b THEN new ELSE BatchStates[x]]
    BY DEF deliverDecryptionSignature
  <2> HIDE DEF new, bs
  <2> QED
    BY <2>3, <2>4 DEF IInv, TypeOK, BatchStatesTypeOK
<1> QED
  BY <1>1, <1>2
     DEF IInv, TypeOK, ConfigsTypeOK, VotingsTypeOK, ValidatorsTypeOK,
         EonsTypeOK, ConfigsOrdered, VotersAreKeypers, LastConfig,
         NoDanglingMajority, NoConfigMajority, NoEonStartMajority

LEMMA DKGMessageStep ==
    ASSUME IInv, NEW msg \in DKGMsgs, deliverDKGMessage(msg)
    PROVE  IInv'
<1>1. msg \in DKGMsg
  BY ConstantsAssumption
<1>2. PICK dkg \in DKGInstanceType :
         /\ msg.Eon \in DOMAIN DKGMap /\ dkg.Eon = msg.Eon
         /\ PublishDKGMsg(msg, dkg)
  <2>1. \A e \in DOMAIN DKGMap : DKGMap[e] \in DKGInstanceType /\ DKGMap[e].Eon = e
    BY DEF IInv, TypeOK, EonsTypeOK
  <2>2. msg.Sender \in Address /\ msg.Others \subseteq Address
    BY <1>1 DEF DKGMsg
  <2>3. CASE handlePolyEvalMsg(msg)
    BY <2>1, <2>2, <2>3 DEF handlePolyEvalMsg, RegisterPolyEvalMsg, DKGInstanceType
  <2>4. CASE handlePolyCommitmentMsg(msg)
    BY <2>1, <2>2, <2>4 DEF handlePolyCommitmentMsg, RegisterPolyCommitmentMsg,
                            DKGInstanceType
  <2>5. CASE handleAccusationMsg(msg)
    BY <2>1, <2>2, <2>5 DEF handleAccusationMsg, RegisterAccusationMsg, DKGInstanceType
  <2>6. CASE handleApologyMsg(msg)
    BY <2>1, <2>2, <2>6 DEF handleApologyMsg, RegisterApologyMsg, DKGInstanceType
  <2> QED
    BY <2>3, <2>4, <2>5, <2>6 DEF deliverDKGMessage
<1>3. UNCHANGED <<Configs, ConfigVoting, EonStartVotings, StartedVotes,
                  Identities, Validators, EONCounter, BatchStates>>
  BY <1>2 DEF PublishDKGMsg, configVars, startVars, validatorVars
<1>4. EonsTypeOK'
  <2>1. DKGMap' = [DKGMap EXCEPT ![msg.Eon] = dkg]
    BY <1>2 DEF PublishDKGMsg
  <2>2. events' \in Seq(Event)
    <3>1. DKGEvent(msg) \in Event
      BY <1>1 DEF DKGEvent, Event
    <3> QED
      BY <1>2, <3>1 DEF PublishDKGMsg, IInv, TypeOK, EonsTypeOK
  <2> QED
    BY <1>2, <1>3, <2>1, <2>2 DEF IInv, TypeOK, EonsTypeOK
<1> QED
  BY <1>3, <1>4
     DEF IInv, TypeOK, ConfigsTypeOK, VotingsTypeOK, ValidatorsTypeOK,
         BatchStatesTypeOK, ConfigsOrdered, VotersAreKeypers, LastConfig,
         NoDanglingMajority, NoConfigMajority, NoEonStartMajority

(* What an eon start vote does, with its guard spelled out.                *)
LEMMA EonStartVoteFacts ==
    ASSUME IInv, NEW sender \in Address, NEW b \in EonVoteBatches,
           deliverEonStartVoteMsg(sender, b),
           NEW before,
           before = IF getConfig(b).ConfigIndex \in DOMAIN EonStartVotings
                    THEN EonStartVotings[getConfig(b).ConfigIndex] ELSE NewVoting
    PROVE  /\ DOMAIN before \subseteq Address
           /\ \A a \in DOMAIN before : before[a] \in EonVoteBatches
           /\ \A a \in DOMAIN before : IsKeyper(getConfig(b), a)
           /\ \A w \in EonVoteBatches :
                 ~HasEnoughVotes(before, w, getConfig(b).Threshold)
<1>1. ConfigsTypeOK /\ ConfigsOrdered /\ b \in Nat
  BY ConstantsAssumption DEF IInv, TypeOK
<1>2. PICK i \in DOMAIN Configs : getConfig(b) = Configs[i]
  BY <1>1, GetConfigFacts
<1>3. Configs[i].Threshold \in Nat /\ Configs[i].Threshold > 0
  BY <1>1, ConfigsFacts
<1>4. CASE Configs[i].ConfigIndex \in DOMAIN EonStartVotings
  <2>1. before = EonStartVotings[Configs[i].ConfigIndex]
    BY <1>2, <1>4
  <2>2. PICK k \in DOMAIN Configs :
           /\ Configs[k].ConfigIndex = Configs[i].ConfigIndex
           /\ \A a \in DOMAIN before : IsKeyper(Configs[k], a)
    BY <1>4, <2>1 DEF IInv, VotersAreKeypers
  <2>3. k = i
    <3>1. /\ i \in Nat /\ k \in Nat
          /\ Configs[i].ConfigIndex \in Nat /\ Configs[k].ConfigIndex \in Nat
      BY <1>1, ConfigsFacts
    <3>2. ~(i < k) /\ ~(k < i)
      BY <1>1, <2>2, <3>1 DEF ConfigsOrdered
    <3> QED
      BY <3>1, <3>2
  <2> QED
    BY <1>2, <1>4, <2>1, <2>2, <2>3
       DEF IInv, TypeOK, VotingsTypeOK, NoDanglingMajority, NoEonStartMajority
<1>5. CASE Configs[i].ConfigIndex \notin DOMAIN EonStartVotings
  <2>1. before = NewVoting
    BY <1>2, <1>5
  <2> QED
    BY <1>2, <1>3, <2>1, NewVotingNoMajority DEF NewVoting
<1> QED
  BY <1>4, <1>5

LEMMA EonStartVoteStep ==
    ASSUME IInv, NEW sender \in Address, NEW b \in EonVoteBatches,
           deliverEonStartVoteMsg(sender, b)
    PROVE  IInv'
<1> DEFINE config == getConfig(b)
           index  == config.ConfigIndex
           before == IF index \in DOMAIN EonStartVotings
                     THEN EonStartVotings[index] ELSE NewVoting
           votes  == AddVote(before, sender, b)
<1>1. ConfigsTypeOK /\ ConfigsOrdered /\ VotingsTypeOK /\ EonsTypeOK
      /\ VotersAreKeypers /\ NoEonStartMajority /\ b \in Nat
  BY ConstantsAssumption DEF IInv, TypeOK, NoDanglingMajority
<1>2. UNCHANGED <<Configs, ConfigVoting, StartedVotes, Identities, Validators,
                  BatchStates>>
  BY DEF deliverEonStartVoteMsg, configVars, startVars, validatorVars
<1>3. /\ IsKeyper(config, sender)
      /\ \/ /\ Outcome(votes, config.Threshold) = {}
            /\ EonStartVotings' =
                  [c \in DOMAIN EonStartVotings \cup {index} |->
                      IF c = index THEN votes ELSE EonStartVotings[c]]
            /\ UNCHANGED eonVars
         \/ \E s \in Outcome(votes, config.Threshold) :
            /\ EonStartVotings' =
                  [c \in DOMAIN EonStartVotings \ {index} |-> EonStartVotings[c]]
            /\ StartDKG(config, s)
  BY DEF deliverEonStartVoteMsg
<1>4. /\ config \in BatchConfig
      /\ config.Threshold \in Nat /\ config.Threshold > 0
      /\ \E i \in DOMAIN Configs : config = Configs[i]
  BY <1>1, GetConfigFacts, ConfigsFacts
<1>5. /\ DOMAIN before \subseteq Address
      /\ \A a \in DOMAIN before : before[a] \in EonVoteBatches
      /\ \A a \in DOMAIN before : IsKeyper(config, a)
      /\ \A w \in EonVoteBatches : ~HasEnoughVotes(before, w, config.Threshold)
  BY EonStartVoteFacts
<1> HIDE DEF before, config
<1>6. /\ DOMAIN votes \subseteq Address
      /\ \A a \in DOMAIN votes : votes[a] \in EonVoteBatches
      /\ \A a \in DOMAIN votes : IsKeyper(config, a)
  BY <1>3, <1>5 DEF AddVote
<1> HIDE DEF votes
<1>7. CASE Outcome(votes, config.Threshold) = {}
  <2>1. /\ UNCHANGED eonVars
        /\ EonStartVotings' =
              [c \in DOMAIN EonStartVotings \cup {index} |->
                  IF c = index THEN votes ELSE EonStartVotings[c]]
    BY <1>3, <1>7
  <2>2. EonsTypeOK'
    BY <1>1, <2>1 DEF EonsTypeOK, eonVars
  <2>3. VotingsTypeOK'
    BY <1>1, <1>2, <1>6, <2>1 DEF VotingsTypeOK
  <2>4. VotersAreKeypers'
    <3>1. \A a \in DOMAIN ConfigVoting' : IsKeyper(LastConfig', a)
      BY <1>1, <1>2 DEF VotersAreKeypers, LastConfig
    <3> SUFFICES ASSUME NEW c \in DOMAIN EonStartVotings'
                 PROVE  \E i \in DOMAIN Configs :
                          /\ Configs[i].ConfigIndex = c
                          /\ \A a \in DOMAIN EonStartVotings'[c] :
                                IsKeyper(Configs[i], a)
      BY <1>2, <3>1 DEF VotersAreKeypers
    <3>2. CASE c = index
      BY <1>4, <1>6, <2>1, <3>2
    <3>3. CASE c # index
      BY <1>1, <2>1, <3>3 DEF VotersAreKeypers
    <3> QED
      BY <3>2, <3>3
  <2>5. NoEonStartMajority'
    <3> SUFFICES ASSUME NEW c \in DOMAIN EonStartVotings', NEW i \in DOMAIN Configs,
                        Configs[i].ConfigIndex = c, NEW w \in EonVoteBatches
                 PROVE  ~HasEnoughVotes(EonStartVotings'[c], w, Configs[i].Threshold)
      BY <1>2 DEF NoEonStartMajority
    <3>1. CASE c = index
      <4>1. PICK k \in DOMAIN Configs : config = Configs[k]
        BY <1>4
      <4>2. i = k
        <5>1. /\ i \in Nat /\ k \in Nat
              /\ Configs[i].ConfigIndex \in Nat /\ Configs[k].ConfigIndex \in Nat
          BY <1>1, ConfigsFacts
        <5>2. Configs[i].ConfigIndex = Configs[k].ConfigIndex
          BY <3>1, <4>1
        <5>3. ~(i < k) /\ ~(k < i)
          BY <1>1, <5>1, <5>2 DEF ConfigsOrdered
        <5> QED
          BY <5>1, <5>3
      <4>3. EonStartVotings'[c] = votes
        BY <2>1, <3>1
      <4> QED
        BY <1>4, <1>6, <1>7, <4>1, <4>2, <4>3, NoOutcomeNoMajority
    <3>2. CASE c # index
      BY <1>1, <2>1, <3>2 DEF NoEonStartMajority
    <3> QED
      BY <3>1, <3>2
  <2> QED
    BY <1>2, <2>2, <2>3, <2>4, <2>5
       DEF IInv, TypeOK, ConfigsTypeOK, ValidatorsTypeOK, BatchStatesTypeOK,
           ConfigsOrdered, LastConfig, NoDanglingMajority, NoConfigMajority
<1>8. CASE Outcome(votes, config.Threshold) # {}
  <2>1. PICK s \in Outcome(votes, config.Threshold) :
          /\ EonStartVotings' =
                [c \in DOMAIN EonStartVotings \ {index} |-> EonStartVotings[c]]
          /\ StartDKG(config, s)
    BY <1>3, <1>8
  <2>2. s \in Nat
    BY <1>6, ConstantsAssumption DEF Outcome
  <2>3. EonsTypeOK'
    BY <1>1, <1>4, <2>1, <2>2, StartDKGEons
  <2>4. VotingsTypeOK' /\ NoEonStartMajority'
    BY <1>1, <1>2, <2>1 DEF VotingsTypeOK, NoEonStartMajority
  <2>5. VotersAreKeypers'
    BY <1>1, <1>2, <2>1 DEF VotersAreKeypers, LastConfig
  <2> QED
    BY <1>2, <2>3, <2>4, <2>5
       DEF IInv, TypeOK, ConfigsTypeOK, ValidatorsTypeOK, BatchStatesTypeOK,
           ConfigsOrdered, LastConfig, NoDanglingMajority, NoConfigMajority
<1> QED
  BY <1>7, <1>8

----------------------------------------------------------------------------
(* Validators and EndBlock.                                                *)

(* Every keyper of a config brings its power to some key.                  *)
LEMMA MakePowermapType ==
    ASSUME ValidatorsTypeOK, NEW keypers \in Seq(Address)
    PROVE  /\ DOMAIN makePowermap(keypers)
                \subseteq ValidatorPubkey \cup {NonExistentValidator}
           /\ makePowermap(keypers)
                \in [DOMAIN makePowermap(keypers) -> Nat \ {0}]
<1> DEFINE At(pk) == {i \in DOMAIN keypers : KeyOf(keypers[i]) = pk}
           pks == {KeyOf(keypers[i]) : i \in DOMAIN keypers}
<1>1. \A i \in DOMAIN keypers :
         KeyOf(keypers[i]) \in ValidatorPubkey \cup {NonExistentValidator}
  BY DEF KeyOf, ValidatorsTypeOK
<1>2. ASSUME NEW pk \in pks
      PROVE  10 * Cardinality(At(pk)) \in Nat \ {0}
  <2>1. IsFiniteSet(DOMAIN keypers)
    BY FS_Interval
  <2>2. At(pk) \in SUBSET DOMAIN keypers /\ At(pk) # {}
    OBVIOUS
  <2>3. IsFiniteSet(At(pk))
    BY <2>1, <2>2, FS_Subset
  <2>4. Cardinality(At(pk)) \in Nat /\ Cardinality(At(pk)) # 0
    BY <2>2, <2>3, FS_CardinalityType, FS_EmptySet
  <2> QED
    BY <2>4
<1>3. makePowermap(keypers) = [pk \in pks |-> 10 * Cardinality(At(pk))]
  BY DEF makePowermap
<1> HIDE DEF At
<1> QED
  BY <1>1, <1>2, <1>3

LEMMA CurrentValidatorsType ==
    ASSUME ValidatorsTypeOK, NEW cfgs \in Seq(BatchConfig)
    PROVE  /\ DOMAIN CurrentValidators(cfgs)
                \subseteq ValidatorPubkey \cup {NonExistentValidator}
           /\ CurrentValidators(cfgs)
                \in [DOMAIN CurrentValidators(cfgs) -> Nat \ {0}]
<1> DEFINE live == {i \in DOMAIN cfgs :
                      cfgs[i].Started /\ cfgs[i].ValidatorsUpdated}
           last == CHOOSE i \in live : \A j \in live : j <= i
<1>1. CASE live = {}
  BY <1>1 DEF CurrentValidators, ValidatorsTypeOK
<1>2. CASE live # {}
  <2>1. live \in SUBSET (1..Len(cfgs)) /\ Len(cfgs) \in Nat
    OBVIOUS
  <2>2. \E i \in live : \A j \in live : j <= i
    BY <1>2, <2>1, LastPosition
  <2>3. last \in DOMAIN cfgs
    BY <2>2
  <2>4. cfgs[last] \in BatchConfig
    BY <2>3
  <2>5. cfgs[last].Keypers \in Seq(Address)
    BY <2>4, ConfigFields
  <2>6. CurrentValidators(cfgs) = makePowermap(cfgs[last].Keypers)
    BY <1>2 DEF CurrentValidators
  <2> QED
    BY <2>5, <2>6, MakePowermapType
<1> QED
  BY <1>1, <1>2

(* Tendermint, told the difference, ends up with the new powermap.         *)
LEMMA DiffIsExact ==
    ASSUME NEW oldpm, NEW newpm,
           oldpm \in [DOMAIN oldpm -> Nat \ {0}],
           newpm \in [DOMAIN newpm -> Nat \ {0}]
    PROVE  ApplyValidatorUpdates(oldpm, DiffPowermaps(oldpm, newpm)) = newpm
<1> DEFINE diff == DiffPowermaps(oldpm, newpm)
           gone == DOMAIN oldpm \ DOMAIN newpm
           chg  == {v \in DOMAIN newpm : PowerOf(oldpm, v) # newpm[v]}
           res  == ApplyValidatorUpdates(oldpm, diff)
<1>1. /\ DOMAIN diff = gone \cup chg
      /\ \A v \in gone : diff[v] = 0
      /\ \A v \in chg : diff[v] = newpm[v] /\ diff[v] # 0
  BY DEF DiffPowermaps, PowerOf
<1>2. res = [v \in (DOMAIN oldpm \cup DOMAIN diff)
                      \ {u \in DOMAIN diff : diff[u] = 0} |->
               IF v \in DOMAIN diff THEN diff[v] ELSE oldpm[v]]
  BY DEF ApplyValidatorUpdates
<1> HIDE DEF diff, res
<1>3. {u \in DOMAIN diff : diff[u] = 0} = gone
  BY <1>1
<1>4. \A v \in DOMAIN newpm : v \notin chg => v \in DOMAIN oldpm /\ oldpm[v] = newpm[v]
  BY DEF PowerOf
<1>5. DOMAIN res = DOMAIN newpm
  BY <1>1, <1>2, <1>3, <1>4
<1>6. \A v \in DOMAIN newpm : res[v] = newpm[v]
  BY <1>1, <1>2, <1>3, <1>4
<1>7. res = [v \in DOMAIN res |-> res[v]]
  BY <1>2
<1>8. newpm = [v \in DOMAIN newpm |-> newpm[v]]
  OBVIOUS
<1> QED
  BY <1>5, <1>6, <1>7, <1>8 DEF res, diff

LEMMA SetFlags ==
    ASSUME NEW cfg \in BatchConfig, NEW st \in BOOLEAN, NEW up \in BOOLEAN
    PROVE  /\ WithFlags(cfg, st, up) \in BatchConfig
           /\ WithFlags(cfg, st, up).Keypers = cfg.Keypers
           /\ WithFlags(cfg, st, up).Threshold = cfg.Threshold
           /\ WithFlags(cfg, st, up).ConfigIndex = cfg.ConfigIndex
           /\ WithFlags(cfg, st, up).StartBatchIndex = cfg.StartBatchIndex
BY DEF BatchConfig, BatchConfigOf, WithFlags

LEMMA ReplaceAt ==
    ASSUME NEW S, NEW s \in Seq(S), NEW k \in DOMAIN s, NEW v, NEW t,
           t = [s EXCEPT ![k] = v]
    PROVE  /\ DOMAIN t = DOMAIN s
           /\ \A i \in DOMAIN s : i # k => t[i] = s[i]
           /\ t[k] = v
OBVIOUS

(* EndBlock only sets the two flags of the last config.                    *)
LEMMA EndBlockConfigs ==
    ASSUME ConfigsTypeOK, ConfigsOrdered, EndBlock
    PROVE  /\ ConfigsTypeOK' /\ ConfigsOrdered'
           /\ Len(Configs') = Len(Configs) /\ DOMAIN Configs' = DOMAIN Configs
           /\ \A i \in DOMAIN Configs :
                 /\ Configs'[i].Keypers = Configs[i].Keypers
                 /\ Configs'[i].Threshold = Configs[i].Threshold
                 /\ Configs'[i].ConfigIndex = Configs[i].ConfigIndex
                 /\ Configs'[i].StartBatchIndex = Configs[i].StartBatchIndex
<1> DEFINE n == Len(Configs)
<1>1. n \in Nat \ {0} /\ DOMAIN Configs = 1..n /\ LastConfig = Configs[n]
  BY ConfigsFacts DEF LastConfig
<1>2. PICK st \in BOOLEAN, up \in BOOLEAN :
         Configs' = [Configs EXCEPT ![n] =
                       WithFlags(Configs[n], st, up)]
  <2> DEFINE st == LastConfig.Started \/ EnoughStartedVotes
             up == LastConfig.ValidatorsUpdated
                     \/ (st /\ countCheckedInKeypers(LastConfig.Keypers)
                                  >= LastConfig.Threshold)
  <2>1. st \in BOOLEAN /\ up \in BOOLEAN
    OBVIOUS
  <2>2. Configs' = [Configs EXCEPT ![n] =
                      WithFlags(Configs[n], st, up)]
    BY DEF EndBlock
  <2> HIDE DEF st, up
  <2> QED
    BY <2>1, <2>2
<1>3. \A i \in 1..n : Configs[i] \in BatchConfig
  BY <1>1 DEF ConfigsTypeOK
<1>4. /\ DOMAIN Configs' = 1..n
      /\ \A i \in 1..n : i # n => Configs'[i] = Configs[i]
      /\ Configs'[n] = WithFlags(Configs[n], st, up)
  <2>1. Configs \in Seq(BatchConfig) /\ n \in DOMAIN Configs
    BY <1>1 DEF ConfigsTypeOK
  <2> QED
    BY <1>1, <1>2, <2>1, ReplaceAt
<1>5. /\ Configs'[n] \in BatchConfig
      /\ Configs'[n].Keypers = Configs[n].Keypers
      /\ Configs'[n].Threshold = Configs[n].Threshold
      /\ Configs'[n].ConfigIndex = Configs[n].ConfigIndex
      /\ Configs'[n].StartBatchIndex = Configs[n].StartBatchIndex
  <2>1. n \in 1..n /\ Configs[n] \in BatchConfig
    BY <1>1, <1>3
  <2> QED
    BY <1>4, <2>1, SetFlags
<1>6. Configs' \in Seq(BatchConfig) /\ Len(Configs') = n
  <2>1. \A i \in 1..n : Configs'[i] \in BatchConfig
    BY <1>3, <1>4, <1>5
  <2>2. Configs' = [i \in 1..n |-> Configs'[i]]
    BY <1>1, <1>2 DEF ConfigsTypeOK
  <2>3. Configs' \in [1..n -> BatchConfig]
    BY <2>1, <2>2
  <2> QED
    BY <1>1, <2>3
<1>7. \A i \in DOMAIN Configs :
         /\ Configs'[i].Keypers = Configs[i].Keypers
         /\ Configs'[i].Threshold = Configs[i].Threshold
         /\ Configs'[i].ConfigIndex = Configs[i].ConfigIndex
         /\ Configs'[i].StartBatchIndex = Configs[i].StartBatchIndex
  BY <1>1, <1>4, <1>5
<1>8. ConfigsTypeOK' /\ ConfigsOrdered'
  <2>1. 1 \in DOMAIN Configs
    BY <1>1
  <2>2. DOMAIN Configs' = DOMAIN Configs
    BY <1>1, <1>4, Zenon
  <2> QED
    BY <1>1, <1>6, <1>7, <2>1, <2>2 DEF ConfigsTypeOK, ConfigsOrdered, EnsureValid
<1> QED
  BY <1>1, <1>4, <1>6, <1>7, <1>8

LEMMA EndBlockStep ==
    ASSUME IInv, EndBlock
    PROVE  IInv'
<1>1. /\ ConfigsTypeOK /\ ConfigsOrdered /\ EonsTypeOK /\ VotingsTypeOK
      /\ ValidatorsTypeOK /\ BatchStatesTypeOK
      /\ VotersAreKeypers /\ NoConfigMajority /\ NoEonStartMajority
  BY DEF IInv, TypeOK, NoDanglingMajority
<1>2. UNCHANGED <<ConfigVoting, EonStartVotings, Identities, EONCounter, DKGMap,
                  events, BatchStates>>
  BY DEF EndBlock, eonVars
<1>3. /\ ConfigsTypeOK' /\ ConfigsOrdered'
      /\ Len(Configs') = Len(Configs) /\ DOMAIN Configs' = DOMAIN Configs
      /\ \A i \in DOMAIN Configs :
            /\ Configs'[i].Keypers = Configs[i].Keypers
            /\ Configs'[i].Threshold = Configs[i].Threshold
            /\ Configs'[i].ConfigIndex = Configs[i].ConfigIndex
  BY <1>1, EndBlockConfigs
<1>4. Len(Configs) \in DOMAIN Configs
  BY <1>1, ConfigsFacts
<1>5. VotingsTypeOK'
  <2>1. StartedVotes' \subseteq StartedVotes
    BY DEF EndBlock
  <2> QED
    BY <1>1, <1>2, <2>1 DEF VotingsTypeOK
<1>6. ValidatorsTypeOK'
  <2>1. Validators' = CurrentValidators(Configs')
    BY DEF EndBlock
  <2>2. Configs' \in Seq(BatchConfig)
    BY <1>3 DEF ConfigsTypeOK
  <2>3. /\ DOMAIN CurrentValidators(Configs')
             \subseteq ValidatorPubkey \cup {NonExistentValidator}
        /\ CurrentValidators(Configs')
             \in [DOMAIN CurrentValidators(Configs') -> Nat \ {0}]
    BY <1>1, <2>2, CurrentValidatorsType
  <2> QED
    BY <1>1, <1>2, <2>1, <2>3 DEF ValidatorsTypeOK
<1>7. EonsTypeOK' /\ BatchStatesTypeOK'
  BY <1>1, <1>2 DEF EonsTypeOK, BatchStatesTypeOK
<1>8. \A i \in DOMAIN Configs : \A a :
         IsKeyper(Configs'[i], a) <=> IsKeyper(Configs[i], a)
  BY <1>3 DEF IsKeyper
<1>9. VotersAreKeypers'
  BY <1>1, <1>2, <1>3, <1>4, <1>8 DEF VotersAreKeypers, LastConfig
<1>10. NoConfigMajority'
  BY <1>1, <1>2, <1>3, <1>4 DEF NoConfigMajority, LastConfig
<1>11. NoEonStartMajority'
  BY <1>1, <1>2, <1>3 DEF NoEonStartMajority
<1> QED
  BY <1>3, <1>5, <1>6, <1>7, <1>9, <1>10, <1>11 DEF IInv, TypeOK, NoDanglingMajority

----------------------------------------------------------------------------
(* Theorems.                                                               *)

(* Every step of the application keeps the inductive invariant.            *)
THEOREM NextInv == IInv /\ [Next]_vars => IInv'
<1> SUFFICES ASSUME IInv, [Next]_vars PROVE IInv'
  OBVIOUS
<1>1. ASSUME NEW sender \in Address, deliverMessage(sender)
      PROVE  IInv'
  BY <1>1, BatchConfigStep, CheckInStep, BatchConfigStartedStep,
     EonStartVoteStep, SignatureStep DEF deliverMessage
<1>2. ASSUME NEW msg \in DKGMsgs, deliverDKGMessage(msg)
      PROVE  IInv'
  BY <1>2, DKGMessageStep
<1>3. CASE EndBlock
  BY <1>3, EndBlockStep
<1>4. CASE UNCHANGED vars
  BY <1>4
     DEF vars, IInv, TypeOK, ConfigsTypeOK, VotingsTypeOK, ValidatorsTypeOK,
         EonsTypeOK, BatchStatesTypeOK, ConfigsOrdered, VotersAreKeypers,
         LastConfig, NoDanglingMajority, NoConfigMajority, NoEonStartMajority
<1> QED
  BY <1>1, <1>2, <1>3, <1>4 DEF Next

THEOREM Invariance == Spec => []IInv
BY InitInv, NextInv, PTL DEF Spec

(* The application state keeps its types: eons are numbered consecutively, *)
(* ballots name proposed candidates, validators have positive power.       *)
THEOREM TypeCorrect == Spec => []TypeOK
<1>1. IInv => TypeOK
  BY DEF IInv
<1> QED
  BY <1>1, Invariance, PTL

(* Accepted configs are valid and in order, so getConfig is total.         *)
THEOREM ConfigsStayOrdered == Spec => []ConfigsOrdered
<1>1. IInv => ConfigsOrdered
  BY DEF IInv
<1> QED
  BY <1>1, Invariance, PTL

(* No completed vote is ever left lying in a ballot box.                   *)
THEOREM NoMajorityLeftBehind == Spec => []NoDanglingMajority
<1>1. IInv => NoDanglingMajority
  BY DEF IInv
<1> QED
  BY <1>1, Invariance, PTL

(* Only a BatchConfig message lengthens Configs.                           *)
LEMMA OnlyVotesAddConfigs ==
    ASSUME IInv, [Next]_vars, Len(Configs') > Len(Configs)
    PROVE  \E sender \in Address, bc \in ProposedConfigs :
              deliverBatchConfig(sender, bc)
<1> SUFFICES ASSUME \A sender \in Address, bc \in ProposedConfigs :
                       ~deliverBatchConfig(sender, bc)
             PROVE  Len(Configs') = Len(Configs)
  <2>1. Len(Configs) \in Nat
    BY DEF IInv, TypeOK, ConfigsTypeOK
  <2> QED
    BY <2>1
<1>1. CASE EndBlock
  BY <1>1, EndBlockConfigs DEF IInv, TypeOK
<1>2. ASSUME NEW sender \in Address, deliverMessage(sender)
      PROVE  Configs' = Configs
  BY <1>2 DEF deliverMessage, deliverCheckIn, deliverBatchConfigStarted,
              deliverEonStartVoteMsg, deliverDecryptionSignature, configVars
<1>3. ASSUME NEW msg \in DKGMsgs, deliverDKGMessage(msg)
      PROVE  Configs' = Configs
  BY <1>3 DEF deliverDKGMessage, handlePolyEvalMsg, handlePolyCommitmentMsg,
              handleAccusationMsg, handleApologyMsg, PublishDKGMsg, configVars
<1>4. CASE UNCHANGED vars
  BY <1>4 DEF vars
<1> QED
  BY <1>1, <1>2, <1>3, <1>4 DEF Next

(* A vote that completes a majority completes it for its own config.       *)
LEMMA CompletedVote ==
    ASSUME IInv, NEW sender \in Address, NEW bc \in ProposedConfigs,
           deliverBatchConfig(sender, bc),
           Outcome(AddVote(ConfigVoting, sender, bc), LastConfig.Threshold) # {}
    PROVE  LET voters == Voters(ConfigVoting, bc) \cup {sender}
           IN  /\ Cardinality(voters) >= LastConfig.Threshold
               /\ \A v \in voters : IsKeyper(LastConfig, v)
<1> DEFINE votes == AddVote(ConfigVoting, sender, bc)
<1>1. /\ DOMAIN ConfigVoting \subseteq Address
      /\ \A a \in DOMAIN ConfigVoting : ConfigVoting[a] \in ProposedConfigs
      /\ \A a \in DOMAIN ConfigVoting : IsKeyper(LastConfig, a)
      /\ \A w \in ProposedConfigs :
            ~HasEnoughVotes(ConfigVoting, w, LastConfig.Threshold)
  BY DEF IInv, TypeOK, VotingsTypeOK, VotersAreKeypers, NoDanglingMajority,
         NoConfigMajority
<1>2. LastConfig.Threshold \in Nat
  BY ConfigsFacts, ConfigFields DEF IInv, TypeOK
<1>3. PICK w \in Outcome(votes, LastConfig.Threshold) : TRUE
  OBVIOUS
<1>4. w \in ProposedConfigs
  BY <1>1 DEF Outcome, AddVote
<1>5. w = bc
  BY <1>1, <1>2, <1>4, OutcomeIsTheVote
<1>6. Cardinality(Voters(votes, bc)) >= LastConfig.Threshold
  BY <1>3, <1>5 DEF Outcome, HasEnoughVotes
<1>7. Voters(votes, bc) = Voters(ConfigVoting, bc) \cup {sender}
  BY AddVoteOwn
<1>8. \A v \in Voters(ConfigVoting, bc) \cup {sender} : IsKeyper(LastConfig, v)
  BY <1>1 DEF Voters, deliverBatchConfig
<1> QED
  BY <1>6, <1>7, <1>8

(* A config is only accepted with the votes of a threshold of the keypers  *)
(* of the config before it, although the code never looks at the outcome.  *)
THEOREM AcceptedByMajority == Spec => AcceptedConfigHasMajority
<1> DEFINE Accepted ==
      Len(Configs') > Len(Configs) =>
        LET bc == Configs'[Len(Configs')]
        IN  \E sender \in Address \ DOMAIN ConfigVoting :
               LET voters == Voters(ConfigVoting, bc) \cup {sender}
               IN  /\ Cardinality(voters) >= LastConfig.Threshold
                   /\ \A v \in voters : IsKeyper(LastConfig, v)
<1>1. IInv /\ [Next]_vars => Accepted
  <2> SUFFICES ASSUME IInv, [Next]_vars, Len(Configs') > Len(Configs)
               PROVE  Accepted
    OBVIOUS
  <2>1. PICK sender \in Address, bc \in ProposedConfigs :
           deliverBatchConfig(sender, bc)
    BY OnlyVotesAddConfigs
  <2>2. Len(Configs) \in Nat /\ Configs \in Seq(BatchConfig)
    BY DEF IInv, TypeOK, ConfigsTypeOK
  <2>3. /\ Outcome(AddVote(ConfigVoting, sender, bc), LastConfig.Threshold) # {}
        /\ Configs' = Append(Configs, bc)
    BY <2>1, <2>2 DEF deliverBatchConfig
  <2>4. Configs'[Len(Configs')] = bc
    <3>1. bc \in BatchConfig
      BY ConstantsAssumption
    <3> QED
      BY <2>2, <2>3, <3>1
  <2>5. sender \in Address \ DOMAIN ConfigVoting
    BY <2>1 DEF deliverBatchConfig
  <2> QED
    BY <2>1, <2>3, <2>4, <2>5, CompletedVote
<1>2. Spec => [][Accepted]_vars
  BY <1>1, Invariance, PTL DEF Spec
<1> QED
  BY <1>2 DEF AcceptedConfigHasMajority

(* What StartDKG leaves behind: the newest eon, its config and its event.  *)
LEMMA StartDKGEffect ==
    ASSUME EonsTypeOK, NEW config \in BatchConfig, NEW b \in Nat,
           StartDKG(config, b)
    PROVE  /\ events'[Len(events')] = EonStarted(EONCounter', b)
           /\ DKGMap'[EONCounter'].Config = config
<1>1. EONCounter' = EONCounter + 1 /\ EONCounter \in Nat
  BY DEF StartDKG, EonsTypeOK
<1>2. events'[Len(events')] = EonStarted(EONCounter + 1, b)
  <2>1. events \in Seq(Event)
    BY DEF EonsTypeOK
  <2>2. EonStarted(EONCounter + 1, b) \in Event
    BY <1>1 DEF EonStarted, Event
  <2>3. events' = Append(events, EonStarted(EONCounter + 1, b))
    BY DEF StartDKG
  <2> QED
    BY <2>1, <2>2, <2>3
<1>3. DKGMap'[EONCounter + 1] = NewDKGInstance(config, EONCounter + 1)
  BY DEF StartDKG
<1>4. NewDKGInstance(config, EONCounter + 1).Config = config
  BY DEF NewDKGInstance
<1> QED
  BY <1>1, <1>2, <1>3, <1>4

(* The newest config covers the batch it starts with.                      *)
LEMMA NewestConfigCovers ==
    ASSUME ConfigsTypeOK', ConfigsOrdered', NEW bc \in BatchConfig,
           Configs'[Len(Configs')] = bc
    PROVE  ConfigFor(Configs', bc.StartBatchIndex) = bc
<1>1. /\ Configs' \in Seq(BatchConfig) /\ Len(Configs') > 0
      /\ Configs'[1].StartBatchIndex = 0
  BY DEF ConfigsTypeOK, ConfigsOrdered
<1>2. bc.StartBatchIndex \in Nat
  BY ConfigFields
<1>3. PICK i \in DOMAIN Configs' :
         /\ ConfigFor(Configs', bc.StartBatchIndex) = Configs'[i]
         /\ \A j \in DOMAIN Configs' :
               j > i => Configs'[j].StartBatchIndex > bc.StartBatchIndex
  BY <1>1, <1>2, ConfigForExists
<1>4. Len(Configs') \in DOMAIN Configs' /\ Len(Configs') >= i
  BY <1>1
<1>5. ~(Len(Configs') > i)
  BY <1>2, <1>3, <1>4
<1>6. i = Len(Configs')
  BY <1>1, <1>4, <1>5
<1> QED
  BY <1>3, <1>6

(* Only StartDKG advances the eon counter, in the handlers of BatchConfig  *)
(* and EonStartVote messages.                                              *)
LEMMA OnlyVotesStartEons ==
    ASSUME IInv, [Next]_vars, EONCounter' > EONCounter
    PROVE  \E sender \in Address :
              \/ \E bc \in ProposedConfigs : deliverBatchConfig(sender, bc)
              \/ \E b \in EonVoteBatches : deliverEonStartVoteMsg(sender, b)
<1> SUFFICES ASSUME \A sender \in Address :
                       /\ \A bc \in ProposedConfigs : ~deliverBatchConfig(sender, bc)
                       /\ \A b \in EonVoteBatches : ~deliverEonStartVoteMsg(sender, b)
             PROVE  EONCounter' = EONCounter
  <2>1. EONCounter \in Nat
    BY DEF IInv, TypeOK, EonsTypeOK
  <2> QED
    BY <2>1
<1>1. CASE EndBlock
  BY <1>1 DEF EndBlock, eonVars
<1>2. ASSUME NEW sender \in Address, deliverMessage(sender)
      PROVE  EONCounter' = EONCounter
  BY <1>2 DEF deliverMessage, deliverCheckIn, deliverBatchConfigStarted,
              deliverDecryptionSignature, eonVars
<1>3. ASSUME NEW msg \in DKGMsgs, deliverDKGMessage(msg)
      PROVE  EONCounter' = EONCounter
  BY <1>3 DEF deliverDKGMessage, handlePolyEvalMsg, handlePolyCommitmentMsg,
              handleAccusationMsg, handleApologyMsg, PublishDKGMsg
<1>4. CASE UNCHANGED vars
  BY <1>4 DEF vars
<1> QED
  BY <1>1, <1>2, <1>3, <1>4 DEF Next

(* The event of a new eon names a batch of the config whose keypers run it.*)
LEMMA EonOfNewConfig ==
    ASSUME IInv, NEW sender \in Address, NEW bc \in ProposedConfigs,
           deliverBatchConfig(sender, bc), EONCounter' > EONCounter
    PROVE  /\ events'[Len(events')] = EonStarted(EONCounter', bc.StartBatchIndex)
           /\ DKGMap'[EONCounter'].Config = ConfigFor(Configs', bc.StartBatchIndex)
<1>1. ConfigsTypeOK /\ ConfigsOrdered /\ EonsTypeOK /\ EONCounter \in Nat
  BY DEF IInv, TypeOK, EonsTypeOK
<1>2. bc \in BatchConfig /\ bc.StartBatchIndex \in Nat
  BY ConstantsAssumption, ConfigFields
<1>3. /\ Configs' = Append(Configs, bc) /\ checkConfig(bc)
      /\ StartDKG(bc, bc.StartBatchIndex)
  BY <1>1 DEF deliverBatchConfig, eonVars
<1>4. ConfigsTypeOK' /\ ConfigsOrdered' /\ Configs'[Len(Configs')] = bc
  BY <1>1, <1>2, <1>3, AppendConfig DEF LastConfig
<1> QED
  BY <1>1, <1>2, <1>3, <1>4, StartDKGEffect, NewestConfigCovers

LEMMA EonOfVote ==
    ASSUME IInv, NEW sender \in Address, NEW b \in EonVoteBatches,
           deliverEonStartVoteMsg(sender, b), EONCounter' > EONCounter
    PROVE  /\ events'[Len(events')] = EonStarted(EONCounter', b)
           /\ DKGMap'[EONCounter'].Config = ConfigFor(Configs', b)
<1> DEFINE config == getConfig(b)
           before == IF config.ConfigIndex \in DOMAIN EonStartVotings
                     THEN EonStartVotings[config.ConfigIndex] ELSE NewVoting
           votes  == AddVote(before, sender, b)
<1>1. ConfigsTypeOK /\ ConfigsOrdered /\ EonsTypeOK /\ EONCounter \in Nat
  BY DEF IInv, TypeOK, EonsTypeOK
<1>2. b \in Nat
  BY ConstantsAssumption
<1>3. config \in BatchConfig /\ config.Threshold \in Nat
  BY <1>1, <1>2, GetConfigFacts, ConfigFields
<1>4. PICK s \in Outcome(votes, config.Threshold) : StartDKG(config, s)
  BY <1>1 DEF deliverEonStartVoteMsg, eonVars
<1>5. /\ DOMAIN before \subseteq Address
      /\ \A a \in DOMAIN before : before[a] \in EonVoteBatches
      /\ \A w \in EonVoteBatches : ~HasEnoughVotes(before, w, config.Threshold)
  BY EonStartVoteFacts
<1> HIDE DEF before
<1>6. s \in EonVoteBatches
  BY <1>5 DEF Outcome, AddVote
<1>7. s = b
  BY <1>3, <1>5, <1>6, OutcomeIsTheVote
<1>8. Configs' = Configs
  BY DEF deliverEonStartVoteMsg, configVars
<1>9. StartDKG(config, b)
  BY <1>4, <1>7
<1>10. /\ events'[Len(events')] = EonStarted(EONCounter', b)
       /\ DKGMap'[EONCounter'].Config = config
  BY <1>1, <1>2, <1>3, <1>9, StartDKGEffect
<1> QED
  BY <1>8, <1>10 DEF getConfig

(* Every eon is run by the keypers of the config its event's batch index   *)
(* belongs to, so keypers find the participants from the event alone.      *)
THEOREM EonParticipants == Spec => EonRunByItsKeypers
<1> DEFINE RunByItsKeypers ==
      EONCounter' > EONCounter =>
        LET ev == events'[Len(events')]
        IN  /\ ev = EonStarted(EONCounter', ev.BatchIndex)
            /\ DKGMap'[EONCounter'].Config = ConfigFor(Configs', ev.BatchIndex)
<1>1. IInv /\ [Next]_vars => RunByItsKeypers
  <2> SUFFICES ASSUME IInv, [Next]_vars, EONCounter' > EONCounter
               PROVE  RunByItsKeypers
    OBVIOUS
  <2>1. PICK b : /\ events'[Len(events')] = EonStarted(EONCounter', b)
                 /\ DKGMap'[EONCounter'].Config = ConfigFor(Configs', b)
    BY OnlyVotesStartEons, EonOfNewConfig, EonOfVote
  <2>2. EonStarted(EONCounter', b).BatchIndex = b
    BY DEF EonStarted
  <2> QED
    BY <2>1, <2>2
<1>2. Spec => [][RunByItsKeypers]_vars
  BY <1>1, Invariance, PTL DEF Spec
<1> QED
  BY <1>2 DEF EonRunByItsKeypers

(* Outside dev mode Tendermint's validator set always equals the app's.    *)
THEOREM ValidatorsStayInSync == Spec => []ValidatorsInSync
<1>1. Init => ValidatorsInSync
  BY DEF Init, ValidatorsInSync
<1>2. IInv /\ ValidatorsInSync /\ [Next]_vars => ValidatorsInSync'
  <2> SUFFICES ASSUME IInv, ValidatorsInSync, [Next]_vars, ~DevMode
               PROVE  tmValidators' = Validators'
    BY DEF ValidatorsInSync
  <2>1. tmValidators = Validators
    BY DEF ValidatorsInSync
  <2>2. ASSUME NEW sender \in Address, deliverMessage(sender)
        PROVE  UNCHANGED <<Validators, tmValidators>>
    BY <2>2 DEF deliverMessage, deliverBatchConfig, deliverCheckIn,
                deliverBatchConfigStarted, deliverEonStartVoteMsg,
                deliverDecryptionSignature, validatorVars
  <2>3. ASSUME NEW msg \in DKGMsgs, deliverDKGMessage(msg)
        PROVE  UNCHANGED <<Validators, tmValidators>>
    BY <2>3 DEF deliverDKGMessage, handlePolyEvalMsg, handlePolyCommitmentMsg,
                handleAccusationMsg, handleApologyMsg, PublishDKGMsg, validatorVars
  <2>4. CASE EndBlock
    <3>1. ValidatorsTypeOK'
      BY <2>4, EndBlockStep DEF IInv, TypeOK
    <3>2. /\ Validators \in [DOMAIN Validators -> Nat \ {0}]
          /\ Validators' \in [DOMAIN Validators' -> Nat \ {0}]
      BY <3>1 DEF IInv, TypeOK, ValidatorsTypeOK
    <3>3. tmValidators' = ApplyValidatorUpdates(tmValidators,
                            DiffPowermaps(Validators, Validators'))
      BY <2>4 DEF EndBlock
    <3> QED
      BY <2>1, <3>2, <3>3, DiffIsExact
  <2>5. CASE UNCHANGED vars
    BY <2>1, <2>5 DEF vars
  <2> QED
    BY <2>1, <2>2, <2>3, <2>4, <2>5 DEF Next
<1> QED
  BY <1>1, <1>2, Invariance, PTL DEF Spec

=============================================================================
