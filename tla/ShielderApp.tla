---------------------------- MODULE ShielderApp ----------------------------
(***************************************************************************)
(* The shuttermint application (app/app.go): the replicated state machine  *)
(* through which the keypers agree on batch configs, start key generations *)
(* (eons), publish DKG messages and decryption signatures, and change the  *)
(* Tendermint validator set.                                               *)
(*                                                                         *)
(* One action is one delivered transaction or one EndBlock.  Tendermint    *)
(* delivers transactions to every replica in the same order; the model     *)
(* lets any keyper (or stranger) send any message of the given input sets  *)
(* at any time.  A delivery that the handler answers with an error or with *)
(* success but no effect changes no state, so it is a stuttering step.     *)
(***************************************************************************)
EXTENDS Voting, DKGInstance, Powermap

CONSTANTS
    Address,            \* senders of transactions
    ValidatorPubkey,    \* validator keys
    NonExistentValidator, \* artificial key of those that did not check in
    GenesisKeypers,     \* sequence of the genesis app state's keypers
    GenesisThreshold,
    GenesisValidators,  \* powermap of the validators of the genesis file
    ProposedConfigs,    \* batch configs that BatchConfig messages carry
    CheckInPubkeys,     \* validator keys that CheckIn messages carry
    StartedIndices,     \* config indices that BatchConfigStarted messages carry
    EonVoteBatches,     \* start batch indices that EonStartVotes carry
    SignedBatches,      \* batch indices of decryption signatures
    DKGMsgs,            \* DKG messages senders may send
    MaxEons,            \* bound on EONCounter
    DevMode             \* in dev mode Tendermint gets no validator updates

BatchConfig == BatchConfigOf(Address)

GenesisConfig ==
    [StartBatchIndex |-> 0, Keypers |-> GenesisKeypers,
     Threshold |-> GenesisThreshold, ConfigIndex |-> 0,
     Started |-> FALSE, ValidatorsUpdated |-> FALSE]

DKGMsg == [Kind : DKGMsgKind, Eon : Nat, Sender : Address,
           Others : SUBSET Address]

(* InitChain refuses an invalid genesis config.  A BatchConfig message with*)
(* a repeated keyper is refused when it is parsed.                         *)
ASSUME ConstantsAssumption ==
    /\ IsFiniteSet(Address)
    /\ NonExistentValidator \notin ValidatorPubkey
    /\ GenesisConfig \in BatchConfig
    /\ EnsureValid(GenesisConfig)
    /\ DOMAIN GenesisValidators \subseteq ValidatorPubkey
    /\ GenesisValidators \in [DOMAIN GenesisValidators -> Nat \ {0}]
    /\ ProposedConfigs \subseteq BatchConfig
    /\ \A c \in ProposedConfigs :
          \A i, j \in DOMAIN c.Keypers :
             c.Keypers[i] = c.Keypers[j] => i = j
    /\ CheckInPubkeys \subseteq ValidatorPubkey
    /\ EonVoteBatches \subseteq Nat
    /\ SignedBatches \subseteq Nat
    /\ DKGMsgs \subseteq DKGMsg
    /\ MaxEons \in Nat
    /\ DevMode \in BOOLEAN

(* Tendermint does not start a chain without a validator.                  *)
ASSUME GenesisValidatorsAssumption == DOMAIN GenesisValidators # {}

(* The app takes both flags from the message; keypers always send them     *)
(* unset (sendBatchConfig, keyper/decide.go).  Only the theorems about the *)
(* validators use it.                                                      *)
ASSUME FlagsAssumption ==
    \A c \in ProposedConfigs : ~c.Started /\ ~c.ValidatorsUpdated

VARIABLES
    Configs,         \* sequence of accepted batch configs
    ConfigVoting,    \* ballots on the next batch config
    EonStartVotings, \* per config index, ballots on a start batch index
    StartedVotes,    \* keypers that voted for starting the last config
    Identities,      \* validator key of each checked-in keyper
    Validators,      \* powermap of the current validators
    EONCounter,
    DKGMap,          \* DKG instance of each eon
    BatchStates,     \* per batch index, its config and its signers
    events,          \* EonStarted events and DKG events, in block order
    tmValidators,    \* validator set of the consensus engine (external)
    ballots          \* history: <<sender, config index>> of started votes

configVars    == <<Configs, ConfigVoting>>
startVars     == <<StartedVotes, ballots>>
validatorVars == <<Identities, Validators, tmValidators>>
eonVars       == <<EONCounter, DKGMap, events>>

vars == <<Configs, ConfigVoting, EonStartVotings, StartedVotes, Identities,
          Validators, EONCounter, DKGMap, BatchStates, events, tmValidators,
          ballots>>

----------------------------------------------------------------------------
(* Helpers.                                                                *)

LastConfig == Configs[Len(Configs)]

(* The last config that starts at or before batchIndex.                    *)
ConfigFor(cfgs, batchIndex) ==
    cfgs[CHOOSE i \in DOMAIN cfgs :
           /\ cfgs[i].StartBatchIndex <= batchIndex
           /\ \A j \in DOMAIN cfgs :
                 j > i => cfgs[j].StartBatchIndex > batchIndex]

getConfig(batchIndex) == ConfigFor(Configs, batchIndex)

(* A wrong variant: the config index may stay the same.                    *)
checkConfigSameIndex(cfg) ==
    /\ EnsureValid(cfg)
    /\ cfg.StartBatchIndex >= LastConfig.StartBatchIndex
    /\ cfg.ConfigIndex >= LastConfig.ConfigIndex

checkConfig(cfg) ==
    /\ EnsureValid(cfg)
    /\ cfg.StartBatchIndex >= LastConfig.StartBatchIndex
    /\ cfg.ConfigIndex > LastConfig.ConfigIndex

isKeyper(a) == \E i \in DOMAIN Configs : IsKeyper(Configs[i], a)

(* A wrong variant: only the number of keypers is compared.                *)
ShouldStartDKGByNumber(config) ==
    \/ EONCounter \notin DOMAIN DKGMap
    \/ Len(DKGMap[EONCounter].Config.Keypers) # Len(config.Keypers)

ShouldStartDKG(config) ==
    \/ EONCounter \notin DOMAIN DKGMap
    \/ ~SameKeypersAndThreshold(DKGMap[EONCounter].Config, config)

EonStarted(eon, batchIndex) ==
    [type |-> "EonStarted", Eon |-> eon, BatchIndex |-> batchIndex]

DKGEvent(msg) == [type |-> "DKG", msg |-> msg]

(* A wrong variant: the instance is stored before the counter is advanced. *)
StartDKGUnderOldCounter(config, batchIndex) ==
    /\ EONCounter < MaxEons
    /\ EONCounter' = EONCounter + 1
    /\ DKGMap' = [e \in DOMAIN DKGMap \cup {EONCounter} |->
                     NewDKGInstance(config, EONCounter)]
    /\ events' = Append(events, EonStarted(EONCounter, batchIndex))

(* StartDKG, with the event the two callers emit for the new eon.          *)
StartDKG(config, batchIndex) ==
    /\ EONCounter < MaxEons
    /\ EONCounter' = EONCounter + 1
    /\ DKGMap' = [e \in DOMAIN DKGMap \cup {EONCounter + 1} |->
                     IF e = EONCounter + 1
                     THEN NewDKGInstance(config, EONCounter + 1)
                     ELSE DKGMap[e]]
    /\ events' = Append(events, EonStarted(EONCounter + 1, batchIndex))

(* Key under which the voting power of keyper k is accounted.              *)
KeyOf(k) == IF k \in DOMAIN Identities THEN Identities[k]
                                       ELSE NonExistentValidator

makePowermap(keypers) ==
    [pk \in {KeyOf(keypers[i]) : i \in DOMAIN keypers} |->
        10 * Cardinality({i \in DOMAIN keypers : KeyOf(keypers[i]) = pk})]

(* A wrong variant: whoever checked in is counted.                         *)
countAllCheckedIn(keypers) == Cardinality(DOMAIN Identities)

countCheckedInKeypers(keypers) ==
    Cardinality({i \in DOMAIN keypers : keypers[i] \in DOMAIN Identities})

(* CurrentValidators, for the configs as EndBlock has just left them.      *)
CurrentValidators(cfgs) ==
    LET live == {i \in DOMAIN cfgs :
                    cfgs[i].Started /\ cfgs[i].ValidatorsUpdated}
    IN  IF live = {}
        THEN Validators
        ELSE makePowermap(
               cfgs[CHOOSE i \in live : \A j \in live : j <= i].Keypers)

----------------------------------------------------------------------------
(* Initial state: InitChain on a new application.                          *)

Init ==
    /\ Configs = <<GenesisConfig>>
    /\ ConfigVoting = NewVoting
    /\ EonStartVotings = [c \in {} |-> NewVoting]
    /\ StartedVotes = {}
    /\ Identities = [a \in {} |-> NonExistentValidator]
    /\ Validators = GenesisValidators
    /\ EONCounter = 0
    /\ DKGMap = [e \in {} |-> NewDKGInstance(GenesisConfig, 0)]
    /\ BatchStates = [b \in {} |-> [Config |-> GenesisConfig, Signers |-> <<>>]]
    /\ events = <<>>
    /\ tmValidators = GenesisValidators
    /\ ballots = {}

----------------------------------------------------------------------------
(* Transaction handlers.                                                   *)

(* A vote for a batch config.  When the vote completes a majority the code *)
(* forgets all ballots and adds the config of this very message; it does   *)
(* not look at which candidate Outcome reports.                            *)
deliverBatchConfig(sender, bc) ==
    LET votes == AddVote(ConfigVoting, sender, bc)
    IN  /\ bc # LastConfig
        /\ checkConfig(bc)
        /\ IsKeyper(LastConfig, sender)
        /\ sender \notin DOMAIN ConfigVoting
        /\ \/ /\ Outcome(votes, LastConfig.Threshold) = {}
              /\ ConfigVoting' = votes
              /\ UNCHANGED <<Configs, eonVars>>
           \/ /\ Outcome(votes, LastConfig.Threshold) # {}
              /\ ConfigVoting' = NewVoting
              /\ Configs' = Append(Configs, bc)
              /\ IF ShouldStartDKG(bc)
                 THEN StartDKG(bc, bc.StartBatchIndex)
                 ELSE UNCHANGED eonVars
        /\ UNCHANGED <<EonStartVotings, startVars, validatorVars, BatchStates>>

(* A keyper of any config registers its validator key, once.               *)
deliverCheckIn(sender, pubkey) ==
    /\ sender \notin DOMAIN Identities
    /\ isKeyper(sender)
    /\ Identities' = [a \in DOMAIN Identities \cup {sender} |->
                         IF a = sender THEN pubkey ELSE Identities[a]]
    /\ UNCHANGED <<configVars, EonStartVotings, startVars, Validators,
                   tmValidators, eonVars, BatchStates>>

(* A keyper of the config before the last one votes for starting the last. *)
deliverBatchConfigStarted(sender, configIndex) ==
    /\ configIndex = LastConfig.ConfigIndex
    /\ Len(Configs) > 1
    /\ IsKeyper(Configs[Len(Configs) - 1], sender)
    /\ ~LastConfig.Started
    /\ StartedVotes' = StartedVotes \cup {sender}
    /\ ballots' = ballots \cup {<<sender, configIndex>>}
    /\ UNCHANGED <<configVars, EonStartVotings, validatorVars, eonVars,
                   BatchStates>>

(* A vote for a new key generation, counted for the config that the start  *)
(* batch index belongs to.  A keyper may change its vote.                  *)
deliverEonStartVoteMsg(sender, batchIndex) ==
    LET config == getConfig(batchIndex)
        index  == config.ConfigIndex
        before == IF index \in DOMAIN EonStartVotings
                  THEN EonStartVotings[index] ELSE NewVoting
        votes  == AddVote(before, sender, batchIndex)
    IN  /\ IsKeyper(config, sender)
        /\ \/ /\ Outcome(votes, config.Threshold) = {}
              /\ EonStartVotings' =
                    [c \in DOMAIN EonStartVotings \cup {index} |->
                        IF c = index THEN votes ELSE EonStartVotings[c]]
              /\ UNCHANGED eonVars
           \/ \E startBatchIndex \in Outcome(votes, config.Threshold) :
              /\ EonStartVotings' =
                    [c \in DOMAIN EonStartVotings \ {index} |->
                        EonStartVotings[c]]
              /\ StartDKG(config, startBatchIndex)
        /\ UNCHANGED <<configVars, startVars, validatorVars, BatchStates>>

(* A wrong variant: the signer is checked against the config of the moment.*)
deliverSignatureNewestConfig(sender, batchIndex) ==
    LET bs == IF batchIndex \in DOMAIN BatchStates
              THEN BatchStates[batchIndex]
              ELSE [Config |-> getConfig(batchIndex), Signers |-> <<>>]
    IN  /\ IsKeyper(getConfig(batchIndex), sender)
        /\ \A i \in DOMAIN bs.Signers : bs.Signers[i] # sender
        /\ BatchStates' =
              [b \in DOMAIN BatchStates \cup {batchIndex} |->
                  IF b = batchIndex
                  THEN [bs EXCEPT !.Signers = Append(@, sender)]
                  ELSE BatchStates[b]]
        /\ UNCHANGED <<configVars, EonStartVotings, startVars, validatorVars,
                       eonVars>>

(* The batch's config is looked up for its first signature and kept.       *)
deliverDecryptionSignature(sender, batchIndex) ==
    LET bs == IF batchIndex \in DOMAIN BatchStates
              THEN BatchStates[batchIndex]
              ELSE [Config |-> getConfig(batchIndex), Signers |-> <<>>]
    IN  /\ IsKeyper(bs.Config, sender)
        /\ \A i \in DOMAIN bs.Signers : bs.Signers[i] # sender
        /\ BatchStates' =
              [b \in DOMAIN BatchStates \cup {batchIndex} |->
                  IF b = batchIndex
                  THEN [bs EXCEPT !.Signers = Append(@, sender)]
                  ELSE BatchStates[b]]
        /\ UNCHANGED <<configVars, EonStartVotings, startVars, validatorVars,
                       eonVars>>

(* The four DKG handlers register the message with the eon's instance and  *)
(* publish it as an event.                                                 *)
PublishDKGMsg(msg, dkg) ==
    /\ DKGMap' = [DKGMap EXCEPT ![msg.Eon] = dkg]
    /\ events' = Append(events, DKGEvent(msg))
    /\ UNCHANGED <<configVars, EonStartVotings, startVars, validatorVars,
                   EONCounter, BatchStates>>

handlePolyEvalMsg(msg) ==
    /\ msg.Kind = "PolyEval"
    /\ msg.Eon \in DOMAIN DKGMap
    /\ CanRegisterPolyEvalMsg(DKGMap[msg.Eon], msg)
    /\ PublishDKGMsg(msg, RegisterPolyEvalMsg(DKGMap[msg.Eon], msg))

handlePolyCommitmentMsg(msg) ==
    /\ msg.Kind = "PolyCommitment"
    /\ msg.Eon \in DOMAIN DKGMap
    /\ CanRegisterPolyCommitmentMsg(DKGMap[msg.Eon], msg)
    /\ PublishDKGMsg(msg, RegisterPolyCommitmentMsg(DKGMap[msg.Eon], msg))

handleAccusationMsg(msg) ==
    /\ msg.Kind = "Accusation"
    /\ msg.Eon \in DOMAIN DKGMap
    /\ CanRegisterAccusationMsg(DKGMap[msg.Eon], msg)
    /\ PublishDKGMsg(msg, RegisterAccusationMsg(DKGMap[msg.Eon], msg))

handleApologyMsg(msg) ==
    /\ msg.Kind = "Apology"
    /\ msg.Eon \in DOMAIN DKGMap
    /\ CanRegisterApologyMsg(DKGMap[msg.Eon], msg)
    /\ PublishDKGMsg(msg, RegisterApologyMsg(DKGMap[msg.Eon], msg))

(* deliverMessage, for the messages whose handlers keep state.             *)
deliverMessage(sender) ==
    \/ \E bc \in ProposedConfigs : deliverBatchConfig(sender, bc)
    \/ \E pk \in CheckInPubkeys : deliverCheckIn(sender, pk)
    \/ \E i \in StartedIndices : deliverBatchConfigStarted(sender, i)
    \/ \E b \in EonVoteBatches : deliverEonStartVoteMsg(sender, b)
    \/ \E b \in SignedBatches : deliverDecryptionSignature(sender, b)

deliverDKGMessage(msg) ==
    \/ handlePolyEvalMsg(msg)
    \/ handlePolyCommitmentMsg(msg)
    \/ handleAccusationMsg(msg)
    \/ handleApologyMsg(msg)

WithFlags(cfg, started, updated) ==
    [cfg EXCEPT !.Started = started, !.ValidatorsUpdated = updated]

(* A wrong variant: the threshold of the config to be started.             *)
EnoughVotesForLast ==
    /\ Len(Configs) >= 2
    /\ Cardinality(StartedVotes) >= LastConfig.Threshold

EnoughStartedVotes ==
    /\ Len(Configs) >= 2
    /\ Cardinality(StartedVotes) >= Configs[Len(Configs) - 1].Threshold

(* The end of a block: start the last config if there are enough votes,    *)
(* hand the validator set over to it once enough of its keypers checked in *)
(* and tell Tendermint what changed.                                       *)
EndBlock ==
    LET n       == Len(Configs)
        enough  == EnoughStartedVotes
        started == LastConfig.Started \/ enough
        updated == \/ LastConfig.ValidatorsUpdated
                   \/ /\ started
                      /\ countCheckedInKeypers(LastConfig.Keypers)
                            >= LastConfig.Threshold
    IN  /\ Configs' = [Configs EXCEPT ![n] = WithFlags(@, started, updated)]
        /\ StartedVotes' = IF enough THEN {} ELSE StartedVotes
        /\ Validators' = CurrentValidators(Configs')
        /\ tmValidators' =
              IF DevMode THEN tmValidators
              ELSE ApplyValidatorUpdates(tmValidators,
                       DiffPowermaps(Validators, Validators'))
        /\ UNCHANGED <<ConfigVoting, EonStartVotings, Identities, ballots,
                       eonVars, BatchStates>>

Next ==
    \/ \E sender \in Address : deliverMessage(sender)
    \/ \E msg \in DKGMsgs : deliverDKGMessage(msg)
    \/ EndBlock

Spec == Init /\ [][Next]_vars

----------------------------------------------------------------------------
(* Properties.                                                             *)

DKGInstanceType ==
    [Config : BatchConfig, Eon : Nat,
     PolyEvalsSeen : SUBSET (Address \X Address),
     PolyCommitmentsSeen : SUBSET Address,
     AccusationsSeen : SUBSET Address, ApologiesSeen : SUBSET Address]

Event == [type : {"EonStarted"}, Eon : Nat, BatchIndex : Nat]
            \cup [type : {"DKG"}, msg : DKGMsg]

ConfigsTypeOK == Configs \in Seq(BatchConfig) /\ Len(Configs) > 0

VotingsTypeOK ==
    /\ DOMAIN ConfigVoting \subseteq Address
    /\ \A a \in DOMAIN ConfigVoting : ConfigVoting[a] \in ProposedConfigs
    /\ \A c \in DOMAIN EonStartVotings :
          /\ DOMAIN EonStartVotings[c] \subseteq Address
          /\ \A a \in DOMAIN EonStartVotings[c] :
                EonStartVotings[c][a] \in EonVoteBatches
    /\ StartedVotes \subseteq Address

ValidatorsTypeOK ==
    /\ DOMAIN Identities \subseteq Address
    /\ \A a \in DOMAIN Identities : Identities[a] \in ValidatorPubkey
    /\ DOMAIN Validators \subseteq ValidatorPubkey \cup {NonExistentValidator}
    /\ Validators \in [DOMAIN Validators -> Nat \ {0}]

EonsTypeOK ==
    /\ EONCounter \in Nat
    /\ DOMAIN DKGMap = 1..EONCounter
    /\ \A e \in DOMAIN DKGMap :
          DKGMap[e] \in DKGInstanceType /\ DKGMap[e].Eon = e
    /\ events \in Seq(Event)

BatchStatesTypeOK ==
    /\ DOMAIN BatchStates \subseteq SignedBatches
    /\ \A b \in DOMAIN BatchStates :
          BatchStates[b] \in [Config : BatchConfig, Signers : Seq(Address)]

(* Every field of the application state has the type app/types.go gives it.*)
(* In particular the eons that exist are exactly 1..EONCounter, so the     *)
(* lookup DKGMap[EONCounter] of ShouldStartDKG only misses before the first*)
(* eon.                                                                    *)
TypeOK ==
    /\ ConfigsTypeOK
    /\ VotingsTypeOK
    /\ ValidatorsTypeOK
    /\ EonsTypeOK
    /\ BatchStatesTypeOK

NoConfigMajority ==
    \A bc \in ProposedConfigs :
        ~HasEnoughVotes(ConfigVoting, bc, LastConfig.Threshold)

NoEonStartMajority ==
    \A c \in DOMAIN EonStartVotings : \A i \in DOMAIN Configs :
        Configs[i].ConfigIndex = c =>
            \A b \in EonVoteBatches :
                ~HasEnoughVotes(EonStartVotings[c], b, Configs[i].Threshold)

(* At rest no candidate has enough votes: a completed vote is acted upon in*)
(* the transaction that completes it.  deliverBatchConfig relies on it when*)
(* it adds its own config without asking which candidate won, and all      *)
(* replicas rely on it when OutcomeIndex ranges over a Go map, whose order *)
(* differs between replicas: two winners would make the replicas diverge.  *)
NoDanglingMajority == NoConfigMajority /\ NoEonStartMajority

(* A config is accepted only with the votes of at least Threshold distinct *)
(* keypers of the config before it, all of them for this very config.      *)
AcceptedConfigHasMajority ==
    [][Len(Configs') > Len(Configs) =>
        LET bc == Configs'[Len(Configs')]
        IN  \E sender \in Address \ DOMAIN ConfigVoting :
               LET voters == Voters(ConfigVoting, bc) \cup {sender}
               IN  /\ Cardinality(voters) >= LastConfig.Threshold
                   /\ \A v \in voters : IsKeyper(LastConfig, v)]_vars

(* An EonStarted event names a batch of the config whose keypers run the   *)
(* eon's DKG.  Keypers have only the event's batch index to find out who   *)
(* takes part (startDKG in keyper/decide.go); the app decides by the config*)
(* whose ballot box the winning vote was in.                               *)
EonRunByItsKeypers ==
    [][EONCounter' > EONCounter =>
        LET ev == events'[Len(events')]
        IN  /\ ev = EonStarted(EONCounter', ev.BatchIndex)
            /\ DKGMap'[EONCounter'].Config = ConfigFor(Configs', ev.BatchIndex)]_vars

(* A restart of the key generation is backed by Threshold distinct keypers *)
(* of the config, all asking for the batch index that the event names.     *)
EonRestartHasMajority ==
    [][EONCounter' > EONCounter /\ Configs' = Configs =>
        LET b      == events'[Len(events')].BatchIndex
            config == getConfig(b)
            old    == IF config.ConfigIndex \in DOMAIN EonStartVotings
                      THEN EonStartVotings[config.ConfigIndex] ELSE NewVoting
        IN  \E sender \in Address :
               LET voters == Voters(old, b) \cup {sender}
               IN  /\ Cardinality(voters) >= config.Threshold
                   /\ \A v \in voters : IsKeyper(config, v)]_vars

(* Whatever the order of restarts and new configs, once there is a config  *)
(* besides genesis some eon was started for its keypers and threshold.     *)
LastConfigHasEon ==
    Len(Configs) > 1 =>
        \E e \in DOMAIN DKGMap :
            SameKeypersAndThreshold(DKGMap[e].Config, LastConfig)

(* The sequence of accepted configs is ordered and every one is valid, so  *)
(* the config of a batch (getConfig) is the newest one that covers it.     *)
ConfigsOrdered ==
    /\ \A i \in DOMAIN Configs : EnsureValid(Configs[i])
    /\ Configs[1].StartBatchIndex = 0
    /\ \A i, j \in DOMAIN Configs : i < j =>
          /\ Configs[i].ConfigIndex < Configs[j].ConfigIndex
          /\ Configs[i].StartBatchIndex <= Configs[j].StartBatchIndex

(* Applying the differences that EndBlock reports, block after block, keeps*)
(* the validator set of Tendermint equal to the app's.                     *)
ValidatorsInSync == ~DevMode => tmValidators = Validators

(* The validator set is never empty, and the power that nobody can vote    *)
(* with is at most what the keypers beyond the threshold would have: the   *)
(* set is handed over only when Threshold keypers have checked in.         *)
EnoughLiveValidators ==
    /\ DOMAIN Validators # {}
    /\ NonExistentValidator \in DOMAIN Validators =>
          \E i \in DOMAIN Configs :
             /\ Configs[i].Started /\ Configs[i].ValidatorsUpdated
             /\ \A j \in DOMAIN Configs : j > i =>
                   ~(Configs[j].Started /\ Configs[j].ValidatorsUpdated)
             /\ Validators[NonExistentValidator] + 10 * Configs[i].Threshold
                   <= 10 * Len(Configs[i].Keypers)

(* Only the last config is ever started, by at least Threshold distinct    *)
(* senders that voted for it or for a config before it.                    *)
StartedConfigHasVotes ==
    \A i \in DOMAIN Configs : Configs[i].Started =>
        /\ i > 1
        /\ Cardinality({a \in Address : \E j \in 2..i :
                           <<a, Configs[j].ConfigIndex>> \in ballots})
              >= Configs[i - 1].Threshold

(* A batch's decryption signatures come from distinct keypers of one and   *)
(* the same config, whatever configs are accepted between two signatures.  *)
SignersOfOneConfig ==
    \A b \in DOMAIN BatchStates :
        LET bs == BatchStates[b]
        IN  /\ \A i \in DOMAIN bs.Signers : IsKeyper(bs.Config, bs.Signers[i])
            /\ \A i, j \in DOMAIN bs.Signers :
                  bs.Signers[i] = bs.Signers[j] => i = j

(* The published DKG messages never let a keyper contradict itself: of one *)
(* sender and eon there is at most one message of each kind, or several    *)
(* poly evals for different receivers, and it comes after the eon's start. *)
NoEquivocation ==
    \A i \in DOMAIN events : events[i].type = "DKG" =>
        LET m == events[i].msg
        IN  /\ \E k \in 1..(i - 1) : /\ events[k].type = "EonStarted"
                                      /\ events[k].Eon = m.Eon
            /\ \A j \in 1..(i - 1) :
                  events[j].type = "DKG" =>
                     LET n == events[j].msg
                     IN  (n.Eon = m.Eon /\ n.Kind = m.Kind
                            /\ n.Sender = m.Sender)
                         => (m.Kind = "PolyEval" /\ n.Others \cap m.Others = {})

=============================================================================
