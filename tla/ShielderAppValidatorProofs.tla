-------------------- MODULE ShielderAppValidatorProofs --------------------
(***************************************************************************)
(* Proofs about how ShielderApp starts configs and hands the validator set *)
(* over to them, for all values of the constants.                          *)
(***************************************************************************)
EXTENDS ShielderAppProofs

----------------------------------------------------------------------------
(* What a step does to the configs, the votes and the validators.          *)

LEMMA StepKinds ==
    ASSUME [Next]_vars
    PROVE  \/ EndBlock
           \/ /\ UNCHANGED Validators
              /\ DOMAIN Identities \subseteq DOMAIN Identities'
              /\ \/ Configs' = Configs /\ UNCHANGED startVars
                 \/ \E sender \in Address, i \in StartedIndices :
                       deliverBatchConfigStarted(sender, i)
                 \/ /\ \E bc \in ProposedConfigs :
                          checkConfig(bc) /\ Configs' = Append(Configs, bc)
                    /\ UNCHANGED startVars
<1>1. ASSUME NEW sender \in Address, NEW bc \in ProposedConfigs,
             deliverBatchConfig(sender, bc)
      PROVE  /\ UNCHANGED <<Validators, Identities>>
             /\ UNCHANGED startVars
             /\ \/ Configs' = Configs
                \/ checkConfig(bc) /\ Configs' = Append(Configs, bc)
  BY <1>1 DEF deliverBatchConfig, validatorVars
<1>2. ASSUME NEW sender \in Address, NEW pk \in CheckInPubkeys,
             deliverCheckIn(sender, pk)
      PROVE  /\ UNCHANGED Validators /\ DOMAIN Identities \subseteq DOMAIN Identities'
             /\ Configs' = Configs /\ UNCHANGED startVars
  BY <1>2 DEF deliverCheckIn, configVars
<1>3. ASSUME NEW sender \in Address, NEW i \in StartedIndices,
             deliverBatchConfigStarted(sender, i)
      PROVE  UNCHANGED <<Validators, Identities>>
  BY <1>3 DEF deliverBatchConfigStarted, validatorVars
<1>4. ASSUME NEW sender \in Address, NEW b,
             \/ deliverEonStartVoteMsg(sender, b)
             \/ deliverDecryptionSignature(sender, b)
      PROVE  UNCHANGED <<Validators, Identities>> /\ Configs' = Configs
             /\ UNCHANGED startVars
  BY <1>4 DEF deliverEonStartVoteMsg, deliverDecryptionSignature, validatorVars,
              configVars
<1>5. ASSUME NEW msg \in DKGMsgs, deliverDKGMessage(msg)
      PROVE  UNCHANGED <<Validators, Identities>> /\ Configs' = Configs
             /\ UNCHANGED startVars
  BY <1>5 DEF deliverDKGMessage, handlePolyEvalMsg, handlePolyCommitmentMsg,
              handleAccusationMsg, handleApologyMsg, PublishDKGMsg,
              configVars, validatorVars
<1>6. CASE UNCHANGED vars
  BY <1>6 DEF vars, startVars
<1> QED
  BY <1>1, <1>2, <1>3, <1>4, <1>5, <1>6 DEF Next, deliverMessage

(* EndBlock sets the flags of the last config and leaves the others alone. *)
LEMMA EndBlockFlags ==
    ASSUME ConfigsTypeOK, ConfigsOrdered, EndBlock
    PROVE  LET n == Len(Configs)
               enough == EnoughStartedVotes
           IN  /\ \A i \in DOMAIN Configs : i # n => Configs'[i] = Configs[i]
               /\ Configs'[n].Started <=> Configs[n].Started \/ enough
               /\ Configs'[n].ValidatorsUpdated <=>
                     \/ Configs[n].ValidatorsUpdated
                     \/ /\ Configs'[n].Started
                        /\ countCheckedInKeypers(Configs[n].Keypers)
                              >= Configs[n].Threshold
<1> DEFINE n  == Len(Configs)
           st == LastConfig.Started \/ EnoughStartedVotes
           up == \/ LastConfig.ValidatorsUpdated
                 \/ /\ st
                    /\ countCheckedInKeypers(LastConfig.Keypers)
                          >= LastConfig.Threshold
<1>1. /\ n \in Nat \ {0} /\ DOMAIN Configs = 1..n /\ LastConfig = Configs[n]
      /\ Configs \in Seq(BatchConfig) /\ n \in DOMAIN Configs
  BY ConfigsFacts DEF LastConfig, ConfigsTypeOK
<1>2. Configs' = [Configs EXCEPT ![n] = WithFlags(Configs[n], st, up)]
  BY DEF EndBlock
<1> HIDE DEF st, up
<1>3. /\ \A i \in DOMAIN Configs : i # n => Configs'[i] = Configs[i]
      /\ Configs'[n] = WithFlags(Configs[n], st, up)
  BY <1>1, <1>2, ReplaceAt
<1>4. Configs[n] \in BatchConfig
  BY <1>1
<1>5. /\ WithFlags(Configs[n], st, up).Started = st
      /\ WithFlags(Configs[n], st, up).ValidatorsUpdated = up
  BY <1>4 DEF WithFlags, BatchConfig, BatchConfigOf
<1> QED
  BY <1>1, <1>3, <1>5 DEF st, up

----------------------------------------------------------------------------
(* Started votes.                                                          *)

(* The senders that voted for config i or one before it.                   *)
Backers(cfgs, i, votes) ==
    {a \in Address : \E j \in 2..i : <<a, cfgs[j].ConfigIndex>> \in votes}

(* The votes that have not led to a start yet are in the history.          *)
StartedVotesInHistory ==
    StartedVotes \subseteq Backers(Configs, Len(Configs), ballots)

LEMMA BackersFinite ==
    ASSUME NEW S \in SUBSET Address
    PROVE  IsFiniteSet(S) /\ Cardinality(S) \in Nat
<1>1. IsFiniteSet(Address)
  BY ConstantsAssumption
<1> QED
  BY <1>1, FS_Subset, FS_CardinalityType

LEMMA MoreBackers ==
    ASSUME NEW S \in SUBSET Address, NEW T \in SUBSET Address, S \subseteq T,
           NEW t \in Nat, Cardinality(S) >= t
    PROVE  Cardinality(T) >= t
<1>1. IsFiniteSet(T) /\ Cardinality(T) \in Nat /\ Cardinality(S) \in Nat
  BY BackersFinite
<1>2. Cardinality(S) <= Cardinality(T)
  BY <1>1, FS_Subset
<1> QED
  BY <1>1, <1>2

(* As long as the configs there are keep their index, threshold and flag,  *)
(* more votes and more configs that have not been started do no harm.      *)
LEMMA StartedConfigsKept ==
    ASSUME ConfigsTypeOK, ConfigsOrdered, StartedConfigHasVotes,
           DOMAIN Configs \subseteq DOMAIN Configs',
           ballots \subseteq ballots',
           \A i \in DOMAIN Configs :
              /\ Configs'[i].ConfigIndex = Configs[i].ConfigIndex
              /\ Configs'[i].Threshold = Configs[i].Threshold,
           NEW i \in DOMAIN Configs, Configs[i].Started
    PROVE  /\ i > 1
           /\ Cardinality(Backers(Configs', i, ballots'))
                 >= Configs'[i - 1].Threshold
<1>1. /\ i > 1
      /\ Cardinality(Backers(Configs, i, ballots)) >= Configs[i - 1].Threshold
  BY DEF StartedConfigHasVotes, Backers
<1>2. DOMAIN Configs = 1..Len(Configs) /\ Len(Configs) \in Nat
  BY ConfigsFacts
<1>3. i - 1 \in DOMAIN Configs /\ \A j \in 2..i : j \in DOMAIN Configs
  BY <1>1, <1>2
<1>4. Configs[i - 1].Threshold \in Nat /\ Configs'[i - 1].Threshold = Configs[i - 1].Threshold
  BY <1>3, ConfigsFacts
<1>5. Backers(Configs, i, ballots) \subseteq Backers(Configs', i, ballots')
  BY <1>3 DEF Backers
<1>6. /\ Backers(Configs, i, ballots) \in SUBSET Address
      /\ Backers(Configs', i, ballots') \in SUBSET Address
  BY DEF Backers
<1> QED
  BY <1>1, <1>4, <1>5, <1>6, MoreBackers

LEMMA EndBlockStartsBacked ==
    ASSUME IInv, StartedConfigHasVotes, StartedVotesInHistory, EndBlock
    PROVE  StartedConfigHasVotes' /\ StartedVotesInHistory'
<1> DEFINE n == Len(Configs)
<1>1. ConfigsTypeOK /\ ConfigsOrdered /\ StartedVotes \subseteq Address
  BY DEF IInv, TypeOK, VotingsTypeOK
<1>2. /\ n \in Nat \ {0} /\ DOMAIN Configs = 1..n
      /\ \A i \in DOMAIN Configs : Configs[i].Threshold \in Nat
  BY <1>1, ConfigsFacts
<1>3. /\ Len(Configs') = n /\ DOMAIN Configs' = DOMAIN Configs
      /\ \A i \in DOMAIN Configs :
            /\ Configs'[i].ConfigIndex = Configs[i].ConfigIndex
            /\ Configs'[i].Threshold = Configs[i].Threshold
  BY <1>1, EndBlockConfigs
<1>4. /\ \A i \in DOMAIN Configs : i # n => Configs'[i] = Configs[i]
      /\ Configs'[n].Started <=> Configs[n].Started \/ EnoughStartedVotes
  BY <1>1, EndBlockFlags
<1>5. ballots' = ballots /\ StartedVotes' \subseteq StartedVotes
  BY DEF EndBlock
<1>6. \A i \in DOMAIN Configs :
         Backers(Configs', i, ballots') = Backers(Configs, i, ballots)
  <2>1. \A i \in DOMAIN Configs : \A j \in 2..i : j \in DOMAIN Configs
    BY <1>2
  <2> QED
    BY <1>3, <1>5, <2>1 DEF Backers
<1>7. StartedVotesInHistory'
  BY <1>2, <1>3, <1>5, <1>6 DEF StartedVotesInHistory
<1>8. ASSUME NEW i \in DOMAIN Configs, Configs'[i].Started
      PROVE  /\ i > 1
             /\ Cardinality(Backers(Configs', i, ballots'))
                   >= Configs'[i - 1].Threshold
  <2>1. CASE Configs[i].Started
    BY <1>1, <1>3, <1>5, <2>1, StartedConfigsKept
  <2>2. CASE ~Configs[i].Started
    <3>1. i = n /\ EnoughStartedVotes
      BY <1>4, <1>8, <2>2
    <3>2. n >= 2 /\ Cardinality(StartedVotes) >= Configs[n - 1].Threshold
      BY <3>1 DEF EnoughStartedVotes
    <3>3. n - 1 \in DOMAIN Configs
      BY <1>2, <3>2
    <3>4. StartedVotes \subseteq Backers(Configs', n, ballots')
      BY <1>2, <1>6 DEF StartedVotesInHistory
    <3>5. Backers(Configs', n, ballots') \in SUBSET Address
      BY DEF Backers
    <3>6. Configs'[n - 1].Threshold = Configs[n - 1].Threshold
          /\ Configs[n - 1].Threshold \in Nat
      BY <1>2, <1>3, <3>3
    <3>7. Cardinality(Backers(Configs', n, ballots')) >= Configs[n - 1].Threshold
      BY <1>1, <3>2, <3>4, <3>5, <3>6, MoreBackers
    <3> QED
      BY <1>2, <3>1, <3>2, <3>6, <3>7
  <2> QED
    BY <2>1, <2>2
<1>9. StartedConfigHasVotes'
  BY <1>3, <1>8 DEF StartedConfigHasVotes, Backers
<1> QED
  BY <1>7, <1>9

LEMMA VoteIsRemembered ==
    ASSUME IInv, StartedConfigHasVotes, StartedVotesInHistory,
           NEW sender \in Address, NEW c \in StartedIndices,
           deliverBatchConfigStarted(sender, c)
    PROVE  StartedConfigHasVotes' /\ StartedVotesInHistory'
<1>1. ConfigsTypeOK /\ ConfigsOrdered
  BY DEF IInv, TypeOK
<1>2. /\ Configs' = Configs
      /\ StartedVotes' = StartedVotes \cup {sender}
      /\ ballots' = ballots \cup {<<sender, c>>}
      /\ c = Configs[Len(Configs)].ConfigIndex /\ Len(Configs) > 1
  BY DEF deliverBatchConfigStarted, configVars, LastConfig
<1>3. Len(Configs) \in 2..Len(Configs)
  BY <1>1, <1>2, ConfigsFacts
<1>4. StartedVotesInHistory'
  BY <1>2, <1>3 DEF StartedVotesInHistory, Backers
<1>5. \A i \in DOMAIN Configs : Configs[i].Started =>
         i > 1 /\ Cardinality(Backers(Configs', i, ballots')) >= Configs'[i - 1].Threshold
  BY <1>1, <1>2, StartedConfigsKept
<1>6. StartedConfigHasVotes'
  BY <1>2, <1>5 DEF StartedConfigHasVotes, Backers
<1> QED
  BY <1>4, <1>6

LEMMA NewConfigNotStarted ==
    ASSUME IInv, StartedConfigHasVotes, StartedVotesInHistory,
           NEW bc \in ProposedConfigs, checkConfig(bc),
           Configs' = Append(Configs, bc), UNCHANGED startVars
    PROVE  StartedConfigHasVotes' /\ StartedVotesInHistory'
<1>1. ConfigsTypeOK /\ ConfigsOrdered /\ bc \in BatchConfig /\ ~bc.Started
  BY ConstantsAssumption, FlagsAssumption DEF IInv, TypeOK
<1>2. /\ Len(Configs') = Len(Configs) + 1
      /\ \A i \in DOMAIN Configs : i \in DOMAIN Configs' /\ Configs'[i] = Configs[i]
      /\ \A i \in DOMAIN Configs' : i \in DOMAIN Configs \/ Configs'[i] = bc
  BY <1>1, AppendConfig
<1>3. DOMAIN Configs = 1..Len(Configs) /\ Len(Configs) \in Nat
  BY <1>1, ConfigsFacts
<1>4. ballots' = ballots /\ StartedVotes' = StartedVotes
  BY DEF startVars
<1>5. StartedVotesInHistory'
  <2>1. \A j \in 2..Len(Configs) : j \in 2..Len(Configs') /\ Configs'[j] = Configs[j]
    BY <1>2, <1>3
  <2> QED
    BY <1>4, <2>1 DEF StartedVotesInHistory, Backers
<1>6. \A i \in DOMAIN Configs : Configs[i].Started =>
         i > 1 /\ Cardinality(Backers(Configs', i, ballots')) >= Configs'[i - 1].Threshold
  BY <1>1, <1>2, <1>4, StartedConfigsKept
<1>7. StartedConfigHasVotes'
  BY <1>1, <1>2, <1>6 DEF StartedConfigHasVotes, Backers
<1> QED
  BY <1>5, <1>7

(* A config that has been started was backed by Threshold keypers that had *)
(* voted for it or for a config before it: EndBlock does not ask which one *)
(* the votes were for.                                                     *)
THEOREM StartedByVotes == Spec => []StartedConfigHasVotes
<1>1. Init => StartedConfigHasVotes /\ StartedVotesInHistory
  <2> SUFFICES ASSUME Init PROVE StartedConfigHasVotes /\ StartedVotesInHistory
    OBVIOUS
  <2>1. DOMAIN Configs = {1} /\ Configs[1] = GenesisConfig
    BY DEF Init
  <2> QED
    BY <2>1, GenesisFacts DEF Init, StartedConfigHasVotes, StartedVotesInHistory
<1>2. IInv /\ StartedConfigHasVotes /\ StartedVotesInHistory /\ [Next]_vars
         => StartedConfigHasVotes' /\ StartedVotesInHistory'
  <2> SUFFICES ASSUME IInv, StartedConfigHasVotes, StartedVotesInHistory, [Next]_vars
               PROVE  StartedConfigHasVotes' /\ StartedVotesInHistory'
    OBVIOUS
  <2>1. ASSUME Configs' = Configs, UNCHANGED startVars
        PROVE  StartedConfigHasVotes' /\ StartedVotesInHistory'
    BY <2>1 DEF startVars, StartedConfigHasVotes, StartedVotesInHistory
  <2> QED
    BY <2>1, StepKinds, EndBlockStartsBacked, VoteIsRemembered, NewConfigNotStarted
<1> QED
  BY <1>1, <1>2, Invariance, PTL DEF Spec

----------------------------------------------------------------------------
(* The validator set.                                                      *)

Live(cfg) == cfg.Started /\ cfg.ValidatorsUpdated

(* The validators were handed over to a config only when enough of its     *)
(* keypers had checked in, and nobody checks out.                          *)
HandedOverWhenEnough ==
    \A i \in DOMAIN Configs : Configs[i].ValidatorsUpdated =>
       countCheckedInKeypers(Configs[i].Keypers) >= Configs[i].Threshold

(* The placeholder's power is that of the keypers that are not checked in. *)
LEMMA PlaceholderPower ==
    ASSUME ValidatorsTypeOK, NEW cfg \in BatchConfig, EnsureValid(cfg),
           countCheckedInKeypers(cfg.Keypers) >= cfg.Threshold
    PROVE  LET powers == makePowermap(cfg.Keypers)
           IN  /\ DOMAIN powers # {}
               /\ NonExistentValidator \in DOMAIN powers =>
                     powers[NonExistentValidator] + 10 * cfg.Threshold
                        <= 10 * Len(cfg.Keypers)
<1> DEFINE kp     == cfg.Keypers
           absent == {i \in DOMAIN kp : KeyOf(kp[i]) = NonExistentValidator}
           here   == {i \in DOMAIN kp : kp[i] \in DOMAIN Identities}
           pks    == {KeyOf(kp[i]) : i \in DOMAIN kp}
<1>1. /\ kp \in Seq(Address) /\ cfg.Threshold \in Nat
      /\ Len(kp) \in Nat /\ DOMAIN kp = 1..Len(kp) /\ Len(kp) > 0
  BY ConfigFields DEF EnsureValid
<1>2. IsFiniteSet(DOMAIN kp) /\ Cardinality(DOMAIN kp) = Len(kp)
  BY <1>1, FS_Interval
<1>3. absent = DOMAIN kp \ here
  BY ConstantsAssumption DEF KeyOf, ValidatorsTypeOK
<1>4. (DOMAIN kp) \cap here = here
  OBVIOUS
<1>5. IsFiniteSet(here) /\ Cardinality(here) \in Nat
  BY <1>2, FS_Subset, FS_CardinalityType
<1>6. Cardinality(absent) = Len(kp) - Cardinality(here)
  <2> HIDE DEF here, absent
  <2>1. Cardinality((DOMAIN kp) \ here)
          = Cardinality(DOMAIN kp) - Cardinality((DOMAIN kp) \cap here)
    BY <1>2, FS_Difference
  <2> QED
    BY <1>2, <1>3, <1>4, <2>1
<1>7. Cardinality(here) >= cfg.Threshold
  BY DEF countCheckedInKeypers
<1>8. makePowermap(kp) =
        [pk \in pks |-> 10 * Cardinality({i \in DOMAIN kp : KeyOf(kp[i]) = pk})]
  BY DEF makePowermap
<1>9. DOMAIN makePowermap(kp) = pks
  BY <1>8
<1>10. pks # {}
  <2>1. 1 \in DOMAIN kp
    BY <1>1
  <2> QED
    BY <2>1
<1>11. NonExistentValidator \in pks =>
         makePowermap(kp)[NonExistentValidator] = 10 * Cardinality(absent)
  BY <1>8
<1> HIDE DEF absent, here, pks
<1> QED
  BY <1>1, <1>5, <1>6, <1>7, <1>9, <1>10, <1>11

(* More keypers are checked in after a check-in.                           *)
LEMMA MoreCheckedIn ==
    ASSUME NEW kp, IsFiniteSet(DOMAIN kp), NEW t \in Nat, NEW before, NEW after,
           before \subseteq after,
           Cardinality({p \in DOMAIN kp : kp[p] \in before}) >= t
    PROVE  Cardinality({p \in DOMAIN kp : kp[p] \in after}) >= t
<1> DEFINE here  == {p \in DOMAIN kp : kp[p] \in before}
           later == {p \in DOMAIN kp : kp[p] \in after}
<1>1. IsFiniteSet(later) /\ here \subseteq later
  BY FS_Subset
<1>2. /\ Cardinality(here) <= Cardinality(later)
      /\ Cardinality(here) \in Nat /\ Cardinality(later) \in Nat
  BY <1>1, FS_Subset, FS_CardinalityType
<1>3. Cardinality(here) >= t
  OBVIOUS
<1> HIDE DEF here, later
<1>4. Cardinality(later) >= t
  BY <1>2, <1>3
<1> QED
  BY <1>4 DEF later

(* EndBlock hands over only if the condition holds.                        *)
LEMMA EndBlockHandover ==
    ASSUME IInv, HandedOverWhenEnough, EndBlock
    PROVE  HandedOverWhenEnough'
<1>1. ConfigsTypeOK /\ ConfigsOrdered
  BY DEF IInv, TypeOK
<1>2. /\ DOMAIN Configs' = DOMAIN Configs /\ Len(Configs) \in DOMAIN Configs
      /\ \A i \in DOMAIN Configs :
            /\ Configs'[i].Keypers = Configs[i].Keypers
            /\ Configs'[i].Threshold = Configs[i].Threshold
  BY <1>1, EndBlockConfigs, ConfigsFacts
<1>3. \A i \in DOMAIN Configs : Configs'[i].ValidatorsUpdated =>
         \/ Configs[i].ValidatorsUpdated
         \/ countCheckedInKeypers(Configs[i].Keypers) >= Configs[i].Threshold
  BY <1>1, <1>2, EndBlockFlags
<1>4. Identities' = Identities
  BY DEF EndBlock
<1> QED
  BY <1>2, <1>3, <1>4 DEF HandedOverWhenEnough, countCheckedInKeypers

LEMMA EndBlockKeepsLive ==
    ASSUME IInv, HandedOverWhenEnough, EnoughLiveValidators, EndBlock
    PROVE  EnoughLiveValidators'
<1> DEFINE live == {i \in DOMAIN Configs' : Live(Configs'[i])}
           last == CHOOSE i \in live : \A j \in live : j <= i
<1>1. /\ ConfigsTypeOK /\ ConfigsOrdered /\ ValidatorsTypeOK
      /\ ConfigsTypeOK' /\ ConfigsOrdered' /\ HandedOverWhenEnough'
  BY EndBlockStep, EndBlockHandover DEF IInv, TypeOK
<1>2. /\ Configs' \in Seq(BatchConfig) /\ DOMAIN Configs' = 1..Len(Configs')
      /\ Len(Configs') \in Nat /\ DOMAIN Configs' = DOMAIN Configs
  BY <1>1, EndBlockConfigs DEF ConfigsTypeOK
<1>3. Validators' = IF live = {} THEN Validators
                                 ELSE makePowermap(Configs'[last].Keypers)
  BY DEF EndBlock, CurrentValidators, Live
<1>4. CASE live = {}
  <2>1. \A i \in DOMAIN Configs : Live(Configs[i]) => Live(Configs'[i])
    BY <1>1, EndBlockFlags DEF Live
  <2>2. \A i \in DOMAIN Configs : ~Live(Configs[i])
    BY <1>2, <1>4, <2>1
  <2>3. DOMAIN Validators # {} /\ NonExistentValidator \notin DOMAIN Validators
    BY <2>2 DEF EnoughLiveValidators, Live
  <2> QED
    BY <1>3, <1>4, <2>3 DEF EnoughLiveValidators
<1>5. CASE live # {}
  <2>1. live \in SUBSET (1..Len(Configs'))
    BY <1>2
  <2>2. \E i \in live : \A j \in live : j <= i
    BY <1>2, <1>5, <2>1, LastPosition
  <2>3. last \in live /\ \A j \in live : j <= last
    BY <2>2
  <2> HIDE DEF last
  <2>4. /\ last \in DOMAIN Configs' /\ Live(Configs'[last])
        /\ Configs'[last] \in BatchConfig /\ EnsureValid(Configs'[last])
    BY <1>1, <1>2, <2>3 DEF ConfigsOrdered
  <2>5. countCheckedInKeypers(Configs'[last].Keypers) >= Configs'[last].Threshold
    <3>1. Identities' = Identities
      BY DEF EndBlock
    <3> QED
      BY <1>1, <2>4, <3>1 DEF HandedOverWhenEnough, countCheckedInKeypers, Live
  <2>6. Validators' = makePowermap(Configs'[last].Keypers)
    BY <1>3, <1>5
  <2>7. /\ DOMAIN Validators' # {}
        /\ NonExistentValidator \in DOMAIN Validators' =>
              Validators'[NonExistentValidator] + 10 * Configs'[last].Threshold
                 <= 10 * Len(Configs'[last].Keypers)
    BY <1>1, <2>4, <2>5, <2>6, PlaceholderPower
  <2>8. \A j \in DOMAIN Configs' : j > last => ~Live(Configs'[j])
    <3> SUFFICES ASSUME NEW j \in live, j > last PROVE FALSE
      OBVIOUS
    <3>1. j <= last /\ j \in Nat /\ last \in Nat
      BY <1>2, <2>3, <2>4
    <3> QED
      BY <3>1
  <2> QED
    BY <2>4, <2>7, <2>8 DEF EnoughLiveValidators, Live
<1> QED
  BY <1>4, <1>5

LEMMA MessagesKeepLive ==
    ASSUME IInv, HandedOverWhenEnough, EnoughLiveValidators,
           UNCHANGED Validators, DOMAIN Identities \subseteq DOMAIN Identities',
           \/ Configs' = Configs
           \/ \E bc \in ProposedConfigs :
                 checkConfig(bc) /\ Configs' = Append(Configs, bc)
    PROVE  HandedOverWhenEnough' /\ EnoughLiveValidators'
<1>1. ConfigsTypeOK /\ ConfigsOrdered
  BY DEF IInv, TypeOK
<1>2. /\ \A i \in DOMAIN Configs : i \in DOMAIN Configs' /\ Configs'[i] = Configs[i]
      /\ \A i \in DOMAIN Configs' : i \in DOMAIN Configs \/ ~Configs'[i].ValidatorsUpdated
  <2>1. CASE Configs' = Configs
    BY <2>1
  <2>2. ASSUME NEW bc \in ProposedConfigs, checkConfig(bc),
               Configs' = Append(Configs, bc)
        PROVE  /\ \A i \in DOMAIN Configs :
                      i \in DOMAIN Configs' /\ Configs'[i] = Configs[i]
               /\ \A i \in DOMAIN Configs' :
                      i \in DOMAIN Configs \/ ~Configs'[i].ValidatorsUpdated
    <3>1. bc \in BatchConfig /\ ~bc.ValidatorsUpdated
      BY ConstantsAssumption, FlagsAssumption
    <3> QED
      BY <1>1, <2>2, <3>1, AppendConfig
  <2> QED
    BY <2>1, <2>2
<1>3. HandedOverWhenEnough'
  <2>1. ASSUME NEW i \in DOMAIN Configs, Configs[i].ValidatorsUpdated
        PROVE  countCheckedInKeypers(Configs[i].Keypers)' >= Configs'[i].Threshold
    <3>1. Configs[i].Keypers \in Seq(Address) /\ Configs[i].Threshold \in Nat
      BY <1>1, ConfigsFacts, ConfigFields
    <3>2. countCheckedInKeypers(Configs[i].Keypers) >= Configs[i].Threshold
      BY <2>1 DEF HandedOverWhenEnough
    <3>3. /\ Configs'[i] = Configs[i]
          /\ Cardinality({p \in DOMAIN Configs[i].Keypers :
                            Configs[i].Keypers[p] \in DOMAIN Identities'})
                >= Configs[i].Threshold
      <4>1. IsFiniteSet(DOMAIN Configs[i].Keypers)
        BY <3>1, FS_Interval
      <4>2. Cardinality({p \in DOMAIN Configs[i].Keypers :
                           Configs[i].Keypers[p] \in DOMAIN Identities})
               >= Configs[i].Threshold
        BY <3>2 DEF countCheckedInKeypers
      <4> DEFINE kp == Configs[i].Keypers
                 t  == Configs[i].Threshold
      <4>3. IsFiniteSet(DOMAIN kp) /\ t \in Nat
        BY <3>1, <4>1
      <4>4. Cardinality({p \in DOMAIN kp : kp[p] \in DOMAIN Identities}) >= t
        BY <4>2
      <4> HIDE DEF kp, t
      <4>5. Cardinality({p \in DOMAIN kp : kp[p] \in DOMAIN Identities'}) >= t
        BY <4>3, <4>4, MoreCheckedIn
      <4> QED
        BY <1>2, <4>5 DEF kp, t
    <3> QED
      BY <3>3 DEF countCheckedInKeypers
  <2> QED
    BY <1>2, <2>1 DEF HandedOverWhenEnough, countCheckedInKeypers
<1>4. EnoughLiveValidators'
  <2>1. Validators' = Validators
    OBVIOUS
  <2>2. CASE NonExistentValidator \notin DOMAIN Validators
    BY <2>1, <2>2 DEF EnoughLiveValidators
  <2>3. CASE NonExistentValidator \in DOMAIN Validators
    <3>1. PICK i \in DOMAIN Configs :
             /\ Live(Configs[i])
             /\ \A j \in DOMAIN Configs : j > i => ~Live(Configs[j])
             /\ Validators[NonExistentValidator] + 10 * Configs[i].Threshold
                   <= 10 * Len(Configs[i].Keypers)
      BY <2>3 DEF EnoughLiveValidators, Live
    <3>2. i \in DOMAIN Configs' /\ Configs'[i] = Configs[i]
      BY <1>2
    <3>3. \A j \in DOMAIN Configs' : j > i => ~Live(Configs'[j])
      BY <1>2, <3>1 DEF Live
    <3> QED
      BY <2>1, <3>1, <3>2, <3>3 DEF EnoughLiveValidators, Live
  <2> QED
    BY <2>2, <2>3
<1> QED
  BY <1>3, <1>4

(* The placeholder never has more power than the keypers beyond the        *)
(* threshold: EndBlock hands over once Threshold keypers have checked in.  *)
THEOREM LiveValidatorsSuffice == Spec => []EnoughLiveValidators
<1>1. Init => HandedOverWhenEnough /\ EnoughLiveValidators
  <2> SUFFICES ASSUME Init PROVE HandedOverWhenEnough /\ EnoughLiveValidators
    OBVIOUS
  <2>1. DOMAIN Configs = {1} /\ ~Configs[1].ValidatorsUpdated
    BY DEF Init, GenesisConfig
  <2>2. NonExistentValidator \notin DOMAIN Validators /\ DOMAIN Validators # {}
    BY ConstantsAssumption, GenesisValidatorsAssumption DEF Init
  <2> QED
    BY <2>1, <2>2 DEF HandedOverWhenEnough, EnoughLiveValidators
<1>2. IInv /\ HandedOverWhenEnough /\ EnoughLiveValidators /\ [Next]_vars
         => HandedOverWhenEnough' /\ EnoughLiveValidators'
  <2> SUFFICES ASSUME IInv, HandedOverWhenEnough, EnoughLiveValidators, [Next]_vars
               PROVE  HandedOverWhenEnough' /\ EnoughLiveValidators'
    OBVIOUS
  <2>1. CASE EndBlock
    BY <2>1, EndBlockHandover, EndBlockKeepsLive
  <2>2. ASSUME NEW sender \in Address, NEW i \in StartedIndices,
               deliverBatchConfigStarted(sender, i)
        PROVE  Configs' = Configs
    BY <2>2 DEF deliverBatchConfigStarted, configVars
  <2> QED
    BY <2>1, <2>2, StepKinds, MessagesKeepLive
<1> QED
  BY <1>1, <1>2, Invariance, PTL DEF Spec

=============================================================================
