----------------------- MODULE ShielderAppDKGProofs -----------------------
(***************************************************************************)
(* Proofs about what ShielderApp publishes: signatures, eons and DKG       *)
(* messages, for all values of the constants.                              *)
(***************************************************************************)
EXTENDS ShielderAppProofs

----------------------------------------------------------------------------
(* Signatures.                                                             *)

LEMMA OnlySignaturesChangeBatchStates ==
    ASSUME [Next]_vars
    PROVE  \/ BatchStates' = BatchStates
           \/ \E sender \in Address, b \in SignedBatches :
                 deliverDecryptionSignature(sender, b)
<1>1. ASSUME NEW sender \in Address, deliverMessage(sender)
      PROVE  \/ BatchStates' = BatchStates
             \/ \E b \in SignedBatches : deliverDecryptionSignature(sender, b)
  BY <1>1 DEF deliverMessage, deliverBatchConfig, deliverCheckIn,
              deliverBatchConfigStarted, deliverEonStartVoteMsg
<1>2. ASSUME NEW msg \in DKGMsgs, deliverDKGMessage(msg)
      PROVE  BatchStates' = BatchStates
  BY <1>2 DEF deliverDKGMessage, handlePolyEvalMsg, handlePolyCommitmentMsg,
              handleAccusationMsg, handleApologyMsg, PublishDKGMsg
<1>3. CASE EndBlock
  BY <1>3 DEF EndBlock
<1>4. CASE UNCHANGED vars
  BY <1>4 DEF vars
<1> QED
  BY <1>1, <1>2, <1>3, <1>4 DEF Next

(* What SignersOfOneConfig says of one batch.                              *)
ProperSigners(bs) ==
    /\ \A i \in DOMAIN bs.Signers : IsKeyper(bs.Config, bs.Signers[i])
    /\ \A i, j \in DOMAIN bs.Signers :
          bs.Signers[i] = bs.Signers[j] => i = j

LEMMA OneMoreSigner ==
    ASSUME NEW bs \in [Config : BatchConfig, Signers : Seq(Address)],
           NEW sender \in Address,
           ProperSigners(bs), IsKeyper(bs.Config, sender),
           \A i \in DOMAIN bs.Signers : bs.Signers[i] # sender
    PROVE  ProperSigners([bs EXCEPT !.Signers = Append(@, sender)])
<1> DEFINE new == [bs EXCEPT !.Signers = Append(@, sender)]
           n   == Len(bs.Signers)
<1>1. bs.Signers \in Seq(Address) /\ n \in Nat /\ DOMAIN bs.Signers = 1..n
  OBVIOUS
<1>2. new.Config = bs.Config /\ new.Signers = Append(bs.Signers, sender)
  OBVIOUS
<1>3. /\ DOMAIN new.Signers = 1..(n + 1)
      /\ \A i \in 1..n : new.Signers[i] = bs.Signers[i]
      /\ new.Signers[n + 1] = sender
  BY <1>1, <1>2
<1>4. \A i \in 1..(n + 1) : i \in 1..n \/ i = n + 1
  BY <1>1
<1> HIDE DEF new
<1>5. \A i \in DOMAIN new.Signers : IsKeyper(new.Config, new.Signers[i])
  BY <1>1, <1>2, <1>3, <1>4 DEF ProperSigners
<1>6. \A i, j \in DOMAIN new.Signers :
         new.Signers[i] = new.Signers[j] => i = j
  BY <1>1, <1>3, <1>4 DEF ProperSigners
<1> QED
  BY <1>5, <1>6 DEF ProperSigners

(* A batch's signers are distinct keypers of the config that its first     *)
(* signature was checked against (deliverDecryptionSignature).             *)
THEOREM SignersBelongTogether == Spec => []SignersOfOneConfig
<1>1. Init => SignersOfOneConfig
  BY DEF Init, SignersOfOneConfig
<1>2. IInv /\ SignersOfOneConfig /\ [Next]_vars => SignersOfOneConfig'
  <2> SUFFICES ASSUME IInv, SignersOfOneConfig,
                      NEW sender \in Address, NEW b \in SignedBatches,
                      deliverDecryptionSignature(sender, b)
               PROVE  SignersOfOneConfig'
    BY OnlySignaturesChangeBatchStates DEF SignersOfOneConfig
  <2> DEFINE bs == IF b \in DOMAIN BatchStates THEN BatchStates[b]
                   ELSE [Config |-> getConfig(b), Signers |-> <<>>]
             new == [bs EXCEPT !.Signers = Append(@, sender)]
  <2>1. /\ IsKeyper(bs.Config, sender)
        /\ \A i \in DOMAIN bs.Signers : bs.Signers[i] # sender
        /\ BatchStates' = [x \in DOMAIN BatchStates \cup {b} |->
                             IF x = b THEN new ELSE BatchStates[x]]
    BY DEF deliverDecryptionSignature
  <2>2. getConfig(b) \in BatchConfig
    BY ConstantsAssumption, GetConfigFacts DEF IInv, TypeOK
  <2>3. bs \in [Config : BatchConfig, Signers : Seq(Address)]
    BY <2>2 DEF IInv, TypeOK, BatchStatesTypeOK
  <2>4. \A x \in DOMAIN BatchStates : ProperSigners(BatchStates[x])
    BY DEF SignersOfOneConfig, ProperSigners
  <2>5. ProperSigners(bs)
    <3>1. CASE b \in DOMAIN BatchStates
      BY <2>4, <3>1
    <3>2. CASE b \notin DOMAIN BatchStates
      <4>1. bs.Signers = <<>>
        BY <3>2
      <4> QED
        BY <4>1 DEF ProperSigners
    <3> QED
      BY <3>1, <3>2
  <2> HIDE DEF bs
  <2>6. ProperSigners(new)
    BY <2>1, <2>3, <2>5, OneMoreSigner
  <2> HIDE DEF new
  <2>7. \A x \in DOMAIN BatchStates' : ProperSigners(BatchStates'[x])
    BY <2>1, <2>4, <2>6
  <2> QED
    BY <2>7 DEF SignersOfOneConfig, ProperSigners
<1> QED
  BY <1>1, <1>2, Invariance, PTL DEF Spec
----------------------------------------------------------------------------
(* Eons.                                                                   *)

(* Starting a DKG keeps the instances there are and adds the new one.      *)
LEMMA StartDKGKeepsEons ==
    ASSUME EonsTypeOK, NEW config, NEW b, StartDKG(config, b)
    PROVE  /\ \A e \in DOMAIN DKGMap : e \in DOMAIN DKGMap' /\ DKGMap'[e] = DKGMap[e]
           /\ DOMAIN DKGMap' = DOMAIN DKGMap \cup {EONCounter'}
           /\ DKGMap'[EONCounter'].Config = config
<1>1. EONCounter' = EONCounter + 1 /\ EONCounter + 1 \notin DOMAIN DKGMap
  BY DEF StartDKG, EonsTypeOK
<1>2. DKGMap' = [e \in DOMAIN DKGMap \cup {EONCounter + 1} |->
                    IF e = EONCounter + 1
                    THEN NewDKGInstance(config, EONCounter + 1)
                    ELSE DKGMap[e]]
  BY DEF StartDKG
<1>3. NewDKGInstance(config, EONCounter + 1).Config = config
  BY DEF NewDKGInstance
<1> QED
  BY <1>1, <1>2, <1>3

(* A DKG message only adds to what its instance has seen.                  *)
LEMMA PublishKeepsConfig ==
    ASSUME EonsTypeOK, NEW msg \in DKGMsgs, deliverDKGMessage(msg)
    PROVE  \A e \in DOMAIN DKGMap :
              e \in DOMAIN DKGMap' /\ DKGMap'[e].Config = DKGMap[e].Config
<1>1. \A e \in DOMAIN DKGMap : DKGMap[e] \in DKGInstanceType
  BY DEF EonsTypeOK
<1>2. PICK dkg : /\ msg.Eon \in DOMAIN DKGMap
                 /\ dkg.Config = DKGMap[msg.Eon].Config
                 /\ DKGMap' = [DKGMap EXCEPT ![msg.Eon] = dkg]
  <2>1. CASE handlePolyEvalMsg(msg)
    BY <1>1, <2>1 DEF handlePolyEvalMsg, RegisterPolyEvalMsg, PublishDKGMsg,
                      DKGInstanceType
  <2>2. CASE handlePolyCommitmentMsg(msg)
    BY <1>1, <2>2 DEF handlePolyCommitmentMsg, RegisterPolyCommitmentMsg,
                      PublishDKGMsg, DKGInstanceType
  <2>3. CASE handleAccusationMsg(msg)
    BY <1>1, <2>3 DEF handleAccusationMsg, RegisterAccusationMsg, PublishDKGMsg,
                      DKGInstanceType
  <2>4. CASE handleApologyMsg(msg)
    BY <1>1, <2>4 DEF handleApologyMsg, RegisterApologyMsg, PublishDKGMsg,
                      DKGInstanceType
  <2> QED
    BY <2>1, <2>2, <2>3, <2>4 DEF deliverDKGMessage
<1> QED
  BY <1>2

(* No step loses an instance or changes the config it was started for.     *)
LEMMA EonsKeepTheirConfig ==
    ASSUME IInv, [Next]_vars
    PROVE  \A e \in DOMAIN DKGMap :
              e \in DOMAIN DKGMap' /\ DKGMap'[e].Config = DKGMap[e].Config
<1>1. EonsTypeOK
  BY DEF IInv, TypeOK
<1>2. ASSUME NEW sender \in Address, deliverMessage(sender)
      PROVE  UNCHANGED DKGMap \/ \E config, b : StartDKG(config, b)
  BY <1>2 DEF deliverMessage, deliverBatchConfig, deliverCheckIn,
              deliverBatchConfigStarted, deliverEonStartVoteMsg,
              deliverDecryptionSignature, eonVars
<1>3. CASE EndBlock
  BY <1>3 DEF EndBlock, eonVars
<1>4. CASE UNCHANGED vars
  BY <1>4 DEF vars
<1> QED
  BY <1>1, <1>2, <1>3, <1>4, StartDKGKeepsEons, PublishKeepsConfig DEF Next

(* A step other than accepting a config leaves the last config's keypers   *)
(* and threshold alone.                                                    *)
LEMMA LastConfigKept ==
    ASSUME IInv, [Next]_vars,
           \A sender \in Address, bc \in ProposedConfigs :
              ~deliverBatchConfig(sender, bc)
    PROVE  /\ Len(Configs') = Len(Configs)
           /\ SameKeypersAndThreshold(LastConfig', LastConfig)
<1>1. ConfigsTypeOK /\ ConfigsOrdered
  BY DEF IInv, TypeOK
<1>2. ASSUME Configs' = Configs
      PROVE  /\ Len(Configs') = Len(Configs)
             /\ SameKeypersAndThreshold(LastConfig', LastConfig)
  BY <1>2 DEF LastConfig, SameKeypersAndThreshold
<1>3. CASE EndBlock
  <2>1. Len(Configs) \in DOMAIN Configs
    BY <1>1, ConfigsFacts
  <2> QED
    BY <1>1, <1>3, <2>1, EndBlockConfigs DEF LastConfig, SameKeypersAndThreshold
<1>4. ASSUME NEW sender \in Address, deliverMessage(sender)
      PROVE  Configs' = Configs
  BY <1>4 DEF deliverMessage, deliverCheckIn, deliverBatchConfigStarted,
              deliverEonStartVoteMsg, deliverDecryptionSignature, configVars
<1>5. ASSUME NEW msg \in DKGMsgs, deliverDKGMessage(msg)
      PROVE  Configs' = Configs
  BY <1>5 DEF deliverDKGMessage, handlePolyEvalMsg, handlePolyCommitmentMsg,
              handleAccusationMsg, handleApologyMsg, PublishDKGMsg, configVars
<1>6. CASE UNCHANGED vars
  BY <1>2, <1>6 DEF vars
<1> QED
  BY <1>2, <1>3, <1>4, <1>5, <1>6 DEF Next

(* Whenever there is a config besides genesis, some eon was started for    *)
(* its keypers and threshold: either with the config, or it is the newest  *)
(* one that ShouldStartDKG compared the config with.                       *)
THEOREM LastConfigGotItsEon == Spec => []LastConfigHasEon
<1>1. Init => LastConfigHasEon
  BY DEF Init, LastConfigHasEon
<1>2. IInv /\ LastConfigHasEon /\ [Next]_vars => LastConfigHasEon'
  <2> SUFFICES ASSUME IInv, LastConfigHasEon, [Next]_vars, Len(Configs') > 1
               PROVE  \E e \in DOMAIN DKGMap' :
                         SameKeypersAndThreshold(DKGMap'[e].Config, LastConfig')
    BY DEF LastConfigHasEon
  <2>1. \A e \in DOMAIN DKGMap :
           e \in DOMAIN DKGMap' /\ DKGMap'[e].Config = DKGMap[e].Config
    BY EonsKeepTheirConfig
  <2>2. CASE /\ Len(Configs') = Len(Configs)
             /\ SameKeypersAndThreshold(LastConfig', LastConfig)
    BY <2>1, <2>2 DEF LastConfigHasEon, SameKeypersAndThreshold
  <2>3. ASSUME NEW sender \in Address, NEW bc \in ProposedConfigs,
               deliverBatchConfig(sender, bc), Configs' # Configs
        PROVE  \E e \in DOMAIN DKGMap' :
                  SameKeypersAndThreshold(DKGMap'[e].Config, LastConfig')
    <3>1. /\ Configs' = Append(Configs, bc)
          /\ IF ShouldStartDKG(bc) THEN StartDKG(bc, bc.StartBatchIndex)
                                   ELSE UNCHANGED eonVars
      BY <2>3 DEF deliverBatchConfig
    <3>2. LastConfig' = bc
      <4>1. Configs \in Seq(BatchConfig) /\ bc \in BatchConfig
        BY ConstantsAssumption DEF IInv, TypeOK, ConfigsTypeOK
      <4> QED
        BY <3>1, <4>1 DEF LastConfig
    <3>3. CASE ShouldStartDKG(bc)
      <4>1. EONCounter' \in DOMAIN DKGMap' /\ DKGMap'[EONCounter'].Config = bc
        BY <3>1, <3>3, StartDKGKeepsEons DEF IInv, TypeOK
      <4> QED
        BY <3>2, <4>1 DEF SameKeypersAndThreshold
    <3>4. CASE ~ShouldStartDKG(bc)
      BY <3>1, <3>2, <3>4 DEF ShouldStartDKG, eonVars
    <3> QED
      BY <3>3, <3>4
  <2>4. ASSUME NEW sender \in Address, NEW bc \in ProposedConfigs,
               deliverBatchConfig(sender, bc), Configs' = Configs
        PROVE  /\ Len(Configs') = Len(Configs)
               /\ SameKeypersAndThreshold(LastConfig', LastConfig)
    BY <2>4 DEF LastConfig, SameKeypersAndThreshold
  <2> QED
    BY <2>2, <2>3, <2>4, LastConfigKept
<1> QED
  BY <1>1, <1>2, Invariance, PTL DEF Spec

(* A vote that restarts an eon completes a majority for its own batch.     *)
LEMMA RestartVoteCompletes ==
    ASSUME IInv, NEW sender \in Address, NEW b \in EonVoteBatches,
           deliverEonStartVoteMsg(sender, b), EONCounter' > EONCounter,
           NEW before,
           before = IF getConfig(b).ConfigIndex \in DOMAIN EonStartVotings
                    THEN EonStartVotings[getConfig(b).ConfigIndex] ELSE NewVoting
    PROVE  LET voters == Voters(before, b) \cup {sender}
           IN  /\ Cardinality(voters) >= getConfig(b).Threshold
               /\ \A v \in voters : IsKeyper(getConfig(b), v)
<1> DEFINE config == getConfig(b)
           votes  == AddVote(before, sender, b)
<1>1. ConfigsTypeOK /\ ConfigsOrdered /\ EONCounter \in Nat /\ b \in Nat
  BY ConstantsAssumption DEF IInv, TypeOK, EonsTypeOK
<1>2. config.Threshold \in Nat
  BY <1>1, GetConfigFacts, ConfigFields
<1>3. PICK s \in Outcome(votes, config.Threshold) : TRUE
  BY <1>1 DEF deliverEonStartVoteMsg, eonVars
<1>4. /\ DOMAIN before \subseteq Address
      /\ \A a \in DOMAIN before : before[a] \in EonVoteBatches
      /\ \A a \in DOMAIN before : IsKeyper(config, a)
      /\ \A w \in EonVoteBatches : ~HasEnoughVotes(before, w, config.Threshold)
  BY EonStartVoteFacts
<1>5. s \in EonVoteBatches
  BY <1>4 DEF Outcome, AddVote
<1>6. s = b
  BY <1>2, <1>4, <1>5, OutcomeIsTheVote
<1>7. Cardinality(Voters(votes, b)) >= config.Threshold
  BY <1>3, <1>6 DEF Outcome, HasEnoughVotes
<1>8. Voters(votes, b) = Voters(before, b) \cup {sender}
  BY AddVoteOwn
<1>9. IsKeyper(config, sender)
  BY DEF deliverEonStartVoteMsg
<1>10. \A v \in Voters(before, b) \cup {sender} : IsKeyper(config, v)
  BY <1>4, <1>9 DEF Voters
<1> QED
  BY <1>7, <1>8, <1>10

(* A key generation is repeated only if Threshold keypers of the config    *)
(* ask for it, all for the batch index that the event names.               *)
THEOREM RestartByMajority == Spec => EonRestartHasMajority
<1> DEFINE HasMajority ==
      EONCounter' > EONCounter /\ Configs' = Configs =>
        LET b      == events'[Len(events')].BatchIndex
            config == getConfig(b)
            old    == IF config.ConfigIndex \in DOMAIN EonStartVotings
                      THEN EonStartVotings[config.ConfigIndex] ELSE NewVoting
        IN  \E sender \in Address :
               LET voters == Voters(old, b) \cup {sender}
               IN  /\ Cardinality(voters) >= config.Threshold
                   /\ \A v \in voters : IsKeyper(config, v)
<1>1. IInv /\ [Next]_vars => HasMajority
  <2> SUFFICES ASSUME IInv, [Next]_vars, EONCounter' > EONCounter,
                      Configs' = Configs
               PROVE  HasMajority
    OBVIOUS
  <2>1. ASSUME NEW sender \in Address, NEW bc \in ProposedConfigs,
               deliverBatchConfig(sender, bc)
        PROVE  FALSE
    <3>1. Configs \in Seq(BatchConfig) /\ bc \in BatchConfig /\ EONCounter \in Nat
      BY ConstantsAssumption DEF IInv, TypeOK, ConfigsTypeOK, EonsTypeOK
    <3>2. Configs' = Append(Configs, bc)
      BY <2>1, <3>1 DEF deliverBatchConfig, eonVars
    <3>3. Len(Append(Configs, bc)) = Len(Configs) + 1 /\ Len(Configs) \in Nat
      BY <3>1
    <3> QED
      BY <3>2, <3>3
  <2>2. PICK sender \in Address, b \in EonVoteBatches :
           deliverEonStartVoteMsg(sender, b)
    BY <2>1, OnlyVotesStartEons
  <2>3. events'[Len(events')].BatchIndex = b
    <3>1. events'[Len(events')] = EonStarted(EONCounter', b)
      BY <2>2, EonOfVote
    <3>2. EonStarted(EONCounter', b).BatchIndex = b
      BY DEF EonStarted
    <3> QED
      BY <3>1, <3>2
  <2> DEFINE old == IF getConfig(b).ConfigIndex \in DOMAIN EonStartVotings
                    THEN EonStartVotings[getConfig(b).ConfigIndex] ELSE NewVoting
             voters == Voters(old, b) \cup {sender}
  <2>4. /\ Cardinality(voters) >= getConfig(b).Threshold
        /\ \A v \in voters : IsKeyper(getConfig(b), v)
    BY <2>2, RestartVoteCompletes
  <2> QED
    BY <2>3, <2>4
<1>2. Spec => [][HasMajority]_vars
  BY <1>1, Invariance, PTL DEF Spec
<1> QED
  BY <1>2 DEF EonRestartHasMajority

----------------------------------------------------------------------------
(* DKG messages.                                                           *)

(* An instance has registered a message.                                   *)
Seen(dkg, m) ==
    /\ m.Kind = "PolyEval"       => {m.Sender} \X m.Others \subseteq dkg.PolyEvalsSeen
    /\ m.Kind = "PolyCommitment" => m.Sender \in dkg.PolyCommitmentsSeen
    /\ m.Kind = "Accusation"     => m.Sender \in dkg.AccusationsSeen
    /\ m.Kind = "Apology"        => m.Sender \in dkg.ApologiesSeen

(* Every instance has an event, every DKG event is seen by its instance.   *)
EveryEventSeen ==
    /\ \A e \in DOMAIN DKGMap : \E k \in DOMAIN events :
          events[k].type = "EonStarted" /\ events[k].Eon = e
    /\ \A i \in DOMAIN events : events[i].type = "DKG" =>
          /\ events[i].msg.Eon \in DOMAIN DKGMap
          /\ Seen(DKGMap[events[i].msg.Eon], events[i].msg)

NoContradiction(m, n) ==
    n.Eon = m.Eon /\ n.Kind = m.Kind /\ n.Sender = m.Sender =>
       m.Kind = "PolyEval" /\ n.Others \cap m.Others = {}

(* Registering a message keeps what has been seen, adds the message, and   *)
(* is refused if the sender would contradict himself.                      *)
LEMMA MessageRegistered ==
    ASSUME EonsTypeOK, NEW msg \in DKGMsgs, deliverDKGMessage(msg)
    PROVE  \E dkg :
              /\ msg.Eon \in DOMAIN DKGMap
              /\ PublishDKGMsg(msg, dkg)
              /\ Seen(dkg, msg)
              /\ \A n \in DKGMsg : Seen(DKGMap[msg.Eon], n) =>
                    Seen(dkg, n) /\ NoContradiction(msg, n)
<1>1. msg \in DKGMsg /\ msg.Sender \in Address /\ msg.Others \subseteq Address
  BY ConstantsAssumption DEF DKGMsg
<1>2. \A e \in DOMAIN DKGMap : DKGMap[e] \in DKGInstanceType
  BY DEF EonsTypeOK
<1> DEFINE old == DKGMap[msg.Eon]
<1>3. CASE handlePolyEvalMsg(msg)
  <2> DEFINE dkg == RegisterPolyEvalMsg(old, msg)
  <2>1. /\ msg.Kind = "PolyEval" /\ msg.Eon \in DOMAIN DKGMap
        /\ \A r \in msg.Others : <<msg.Sender, r>> \notin old.PolyEvalsSeen
        /\ PublishDKGMsg(msg, dkg)
    BY <1>3 DEF handlePolyEvalMsg, CanRegisterPolyEvalMsg
  <2>2. /\ dkg.PolyEvalsSeen = old.PolyEvalsSeen \cup ({msg.Sender} \X msg.Others)
        /\ dkg.PolyCommitmentsSeen = old.PolyCommitmentsSeen
        /\ dkg.AccusationsSeen = old.AccusationsSeen
        /\ dkg.ApologiesSeen = old.ApologiesSeen
    BY <1>2, <2>1 DEF RegisterPolyEvalMsg, DKGInstanceType
  <2> HIDE DEF dkg, old
  <2>3. ASSUME NEW n \in DKGMsg, Seen(old, n), n.Kind = msg.Kind,
               n.Sender = msg.Sender
        PROVE  n.Others \cap msg.Others = {}
    <3>1. \A r \in n.Others : <<msg.Sender, r>> \in old.PolyEvalsSeen
      BY <2>1, <2>3 DEF Seen
    <3> QED
      BY <2>1, <3>1
  <2>4. Seen(dkg, msg)
    BY <2>1, <2>2 DEF Seen
  <2>5. \A n \in DKGMsg : Seen(old, n) => Seen(dkg, n)
    BY <2>2 DEF Seen
  <2>6. \A n \in DKGMsg : Seen(old, n) => NoContradiction(msg, n)
    BY <2>1, <2>3 DEF NoContradiction
  <2> QED
    BY <2>1, <2>4, <2>5, <2>6 DEF old
<1>4. CASE handlePolyCommitmentMsg(msg)
  <2> DEFINE dkg == RegisterPolyCommitmentMsg(old, msg)
  <2>1. /\ msg.Kind = "PolyCommitment" /\ msg.Eon \in DOMAIN DKGMap
        /\ msg.Sender \notin old.PolyCommitmentsSeen
        /\ PublishDKGMsg(msg, dkg)
    BY <1>4 DEF handlePolyCommitmentMsg, CanRegisterPolyCommitmentMsg
  <2>2. /\ dkg.PolyCommitmentsSeen = old.PolyCommitmentsSeen \cup {msg.Sender}
        /\ dkg.PolyEvalsSeen = old.PolyEvalsSeen
        /\ dkg.AccusationsSeen = old.AccusationsSeen
        /\ dkg.ApologiesSeen = old.ApologiesSeen
    BY <1>2, <2>1 DEF RegisterPolyCommitmentMsg, DKGInstanceType
  <2> HIDE DEF dkg, old
  <2>3. Seen(dkg, msg)
    BY <2>1, <2>2 DEF Seen
  <2>4. \A n \in DKGMsg : Seen(old, n) => Seen(dkg, n) /\ NoContradiction(msg, n)
    BY <2>1, <2>2 DEF Seen, NoContradiction
  <2> QED
    BY <2>1, <2>3, <2>4 DEF old
<1>5. CASE handleAccusationMsg(msg)
  <2> DEFINE dkg == RegisterAccusationMsg(old, msg)
  <2>1. /\ msg.Kind = "Accusation" /\ msg.Eon \in DOMAIN DKGMap
        /\ msg.Sender \notin old.AccusationsSeen
        /\ PublishDKGMsg(msg, dkg)
    BY <1>5 DEF handleAccusationMsg, CanRegisterAccusationMsg
  <2>2. /\ dkg.AccusationsSeen = old.AccusationsSeen \cup {msg.Sender}
        /\ dkg.PolyEvalsSeen = old.PolyEvalsSeen
        /\ dkg.PolyCommitmentsSeen = old.PolyCommitmentsSeen
        /\ dkg.ApologiesSeen = old.ApologiesSeen
    BY <1>2, <2>1 DEF RegisterAccusationMsg, DKGInstanceType
  <2> HIDE DEF dkg, old
  <2>3. Seen(dkg, msg)
    BY <2>1, <2>2 DEF Seen
  <2>4. \A n \in DKGMsg : Seen(old, n) => Seen(dkg, n) /\ NoContradiction(msg, n)
    BY <2>1, <2>2 DEF Seen, NoContradiction
  <2> QED
    BY <2>1, <2>3, <2>4 DEF old
<1>6. CASE handleApologyMsg(msg)
  <2> DEFINE dkg == RegisterApologyMsg(old, msg)
  <2>1. /\ msg.Kind = "Apology" /\ msg.Eon \in DOMAIN DKGMap
        /\ msg.Sender \notin old.ApologiesSeen
        /\ PublishDKGMsg(msg, dkg)
    BY <1>6 DEF handleApologyMsg, CanRegisterApologyMsg
  <2>2. /\ dkg.ApologiesSeen = old.ApologiesSeen \cup {msg.Sender}
        /\ dkg.PolyEvalsSeen = old.PolyEvalsSeen
        /\ dkg.PolyCommitmentsSeen = old.PolyCommitmentsSeen
        /\ dkg.AccusationsSeen = old.AccusationsSeen
    BY <1>2, <2>1 DEF RegisterApologyMsg, DKGInstanceType
  <2> HIDE DEF dkg, old
  <2>3. Seen(dkg, msg)
    BY <2>1, <2>2 DEF Seen
  <2>4. \A n \in DKGMsg : Seen(old, n) => Seen(dkg, n) /\ NoContradiction(msg, n)
    BY <2>1, <2>2 DEF Seen, NoContradiction
  <2> QED
    BY <2>1, <2>3, <2>4 DEF old
<1> QED
  BY <1>3, <1>4, <1>5, <1>6 DEF deliverDKGMessage

LEMMA AppendEvent ==
    ASSUME events \in Seq(Event), NEW ev \in Event, events' = Append(events, ev)
    PROVE  /\ Len(events) \in Nat
           /\ DOMAIN events = 1..Len(events)
           /\ DOMAIN events' = 1..(Len(events) + 1)
           /\ \A i \in 1..Len(events) : events'[i] = events[i]
           /\ events'[Len(events) + 1] = ev
           /\ \A i \in DOMAIN events' : i \in DOMAIN events \/ i = Len(events) + 1
OBVIOUS

LEMMA DKGEventMsg ==
    ASSUME events \in Seq(Event), NEW i \in DOMAIN events, events[i].type = "DKG"
    PROVE  events[i].msg \in DKGMsg
<1>1. events[i] \in Event
  OBVIOUS
<1> QED
  BY <1>1 DEF Event

(* A new eon contradicts nobody.                                           *)
LEMMA NewEonKeepsOrder ==
    ASSUME EonsTypeOK, EveryEventSeen, NoEquivocation,
           NEW config, NEW b \in Nat, StartDKG(config, b)
    PROVE  EveryEventSeen' /\ NoEquivocation'
<1> DEFINE n  == Len(events)
           ev == EonStarted(EONCounter', b)
<1>1. events \in Seq(Event) /\ EONCounter' \in Nat
  BY DEF EonsTypeOK, StartDKG
<1>2. ev \in Event /\ ev.type = "EonStarted" /\ ev.Eon = EONCounter'
  BY <1>1 DEF EonStarted, Event
<1>3. events' = Append(events, ev)
  BY DEF StartDKG
<1>4. /\ \A e \in DOMAIN DKGMap : e \in DOMAIN DKGMap' /\ DKGMap'[e] = DKGMap[e]
      /\ DOMAIN DKGMap' = DOMAIN DKGMap \cup {EONCounter'}
  BY StartDKGKeepsEons
<1>5. /\ n \in Nat /\ DOMAIN events = 1..n /\ DOMAIN events' = 1..(n + 1)
      /\ \A i \in 1..n : events'[i] = events[i]
      /\ events'[n + 1] = ev
      /\ \A i \in DOMAIN events' : i \in DOMAIN events \/ i = n + 1
  BY <1>1, <1>2, <1>3, AppendEvent
<1>6. \A i \in DOMAIN events' : events'[i].type = "DKG" =>
         i \in 1..n /\ events'[i] = events[i]
  BY <1>2, <1>5
<1> HIDE DEF ev, n
<1>7. \A e \in DOMAIN DKGMap' : \E k \in DOMAIN events' :
         events'[k].type = "EonStarted" /\ events'[k].Eon = e
  <2>1. n + 1 \in DOMAIN events' /\ \A k \in 1..n : k \in DOMAIN events'
    BY <1>5
  <2> QED
    BY <1>2, <1>4, <1>5, <2>1 DEF EveryEventSeen
<1>8. EveryEventSeen'
  BY <1>4, <1>5, <1>6, <1>7 DEF EveryEventSeen
<1>9. NoEquivocation'
  <2> SUFFICES ASSUME NEW i \in DOMAIN events', events'[i].type = "DKG"
               PROVE
        LET m == events'[i].msg
        IN  /\ \E k \in 1..(i - 1) : /\ events'[k].type = "EonStarted"
                                      /\ events'[k].Eon = m.Eon
            /\ \A j \in 1..(i - 1) :
                  events'[j].type = "DKG" => NoContradiction(m, events'[j].msg)
    BY DEF NoEquivocation, NoContradiction
  <2>1. i \in 1..n /\ events'[i] = events[i]
    BY <1>6
  <2>2. \A j \in 1..(i - 1) : j \in 1..n /\ events'[j] = events[j]
    BY <1>5, <2>1
  <2> QED
    BY <1>5, <2>1, <2>2 DEF NoEquivocation, NoContradiction
<1> QED
  BY <1>8, <1>9

(* Neither does a message that is registered.                              *)
LEMMA NewMessageKeepsOrder ==
    ASSUME EonsTypeOK, EveryEventSeen, NoEquivocation,
           NEW msg \in DKGMsgs, deliverDKGMessage(msg)
    PROVE  EveryEventSeen' /\ NoEquivocation'
<1> DEFINE n  == Len(events)
           ev == DKGEvent(msg)
<1>1. PICK dkg : /\ msg.Eon \in DOMAIN DKGMap
                 /\ PublishDKGMsg(msg, dkg)
                 /\ Seen(dkg, msg)
                 /\ \A m \in DKGMsg : Seen(DKGMap[msg.Eon], m) =>
                       Seen(dkg, m) /\ NoContradiction(msg, m)
  BY MessageRegistered
<1>2. events \in Seq(Event) /\ msg \in DKGMsg
  BY ConstantsAssumption DEF EonsTypeOK
<1>3. ev \in Event /\ ev.type = "DKG" /\ ev.msg = msg
  BY <1>2 DEF DKGEvent, Event
<1>4. /\ events' = Append(events, ev)
      /\ DKGMap' = [DKGMap EXCEPT ![msg.Eon] = dkg]
  BY <1>1 DEF PublishDKGMsg
<1>5. /\ n \in Nat /\ DOMAIN events = 1..n /\ DOMAIN events' = 1..(n + 1)
      /\ \A i \in 1..n : events'[i] = events[i]
      /\ events'[n + 1] = ev
      /\ \A i \in DOMAIN events' : i \in DOMAIN events \/ i = n + 1
  BY <1>2, <1>3, <1>4, AppendEvent
<1>6. /\ DOMAIN DKGMap' = DOMAIN DKGMap
      /\ DKGMap'[msg.Eon] = dkg
      /\ \A e \in DOMAIN DKGMap : e # msg.Eon => DKGMap'[e] = DKGMap[e]
  BY <1>1, <1>4
<1>7. \A i \in 1..n : events[i].type = "DKG" =>
         /\ events[i].msg \in DKGMsg
         /\ events[i].msg.Eon \in DOMAIN DKGMap
         /\ Seen(DKGMap[events[i].msg.Eon], events[i].msg)
  BY <1>2, <1>5, DKGEventMsg DEF EveryEventSeen
<1> HIDE DEF ev, n
<1>8. EveryEventSeen'
  <2>1. \A e \in DOMAIN DKGMap' : \E k \in DOMAIN events' :
           events'[k].type = "EonStarted" /\ events'[k].Eon = e
    <3>1. \A k \in 1..n : k \in DOMAIN events'
      BY <1>5
    <3> QED
      BY <1>5, <1>6, <3>1 DEF EveryEventSeen
  <2>2. ASSUME NEW i \in 1..n, events[i].type = "DKG"
        PROVE  Seen(DKGMap'[events[i].msg.Eon], events[i].msg)
    BY <1>1, <1>6, <1>7, <2>2
  <2>3. ASSUME NEW i \in DOMAIN events', events'[i].type = "DKG"
        PROVE  /\ events'[i].msg.Eon \in DOMAIN DKGMap'
               /\ Seen(DKGMap'[events'[i].msg.Eon], events'[i].msg)
    BY <1>1, <1>3, <1>5, <1>6, <1>7, <2>2, <2>3
  <2> QED
    BY <2>1, <2>3 DEF EveryEventSeen
<1>9. NoEquivocation'
  <2> SUFFICES ASSUME NEW i \in DOMAIN events', events'[i].type = "DKG"
               PROVE
        LET m == events'[i].msg
        IN  /\ \E k \in 1..(i - 1) : /\ events'[k].type = "EonStarted"
                                      /\ events'[k].Eon = m.Eon
            /\ \A j \in 1..(i - 1) :
                  events'[j].type = "DKG" => NoContradiction(m, events'[j].msg)
    BY DEF NoEquivocation, NoContradiction
  <2>1. CASE i \in 1..n
    <3>1. \A j \in 1..(i - 1) : j \in 1..n
      BY <1>5, <2>1
    <3> QED
      BY <1>5, <2>1, <3>1 DEF NoEquivocation, NoContradiction
  <2>2. CASE i = n + 1
    <3>1. 1..(i - 1) = 1..n
      BY <1>5, <2>2
    <3>2. events'[i].msg = msg
      BY <1>3, <1>5, <2>2
    <3>3. \E k \in 1..n : events'[k].type = "EonStarted" /\ events'[k].Eon = msg.Eon
      BY <1>1, <1>5 DEF EveryEventSeen
    <3>4. ASSUME NEW j \in 1..n, events'[j].type = "DKG"
          PROVE  NoContradiction(msg, events'[j].msg)
      <4>1. CASE events[j].msg.Eon = msg.Eon
        BY <1>1, <1>5, <1>7, <3>4, <4>1
      <4>2. CASE events[j].msg.Eon # msg.Eon
        BY <1>5, <4>2 DEF NoContradiction
      <4> QED
        BY <4>1, <4>2
    <3> QED
      BY <3>1, <3>2, <3>3, <3>4
  <2> QED
    BY <1>5, <2>1, <2>2
<1> QED
  BY <1>8, <1>9

(* The DKG messages on the chain never let a keyper contradict itself:     *)
(* the instance of the eon remembers what it has published.                *)
THEOREM NobodyEquivocates == Spec => []NoEquivocation
<1>1. Init => EveryEventSeen /\ NoEquivocation
  BY DEF Init, EveryEventSeen, NoEquivocation
<1>2. IInv /\ EveryEventSeen /\ NoEquivocation /\ [Next]_vars
         => EveryEventSeen' /\ NoEquivocation'
  <2> SUFFICES ASSUME IInv, EveryEventSeen, NoEquivocation, [Next]_vars
               PROVE  EveryEventSeen' /\ NoEquivocation'
    OBVIOUS
  <2>1. EonsTypeOK
    BY DEF IInv, TypeOK
  <2>2. ASSUME UNCHANGED <<DKGMap, events>>
        PROVE  EveryEventSeen' /\ NoEquivocation'
    BY <2>2 DEF EveryEventSeen, NoEquivocation
  <2>3. ASSUME NEW sender \in Address, deliverMessage(sender)
        PROVE  UNCHANGED <<DKGMap, events>> \/ \E config : \E b \in Nat : StartDKG(config, b)
    <3>1. ASSUME NEW bc \in ProposedConfigs, deliverBatchConfig(sender, bc)
          PROVE  \/ UNCHANGED <<DKGMap, events>>
                 \/ \E config : \E b \in Nat : StartDKG(config, b)
      <4>1. bc.StartBatchIndex \in Nat
        BY ConstantsAssumption, ConfigFields
      <4> QED
        BY <3>1, <4>1 DEF deliverBatchConfig, eonVars
    <3>2. ASSUME NEW b \in EonVoteBatches, deliverEonStartVoteMsg(sender, b)
          PROVE  \/ UNCHANGED <<DKGMap, events>>
                 \/ \E config : \E c \in Nat : StartDKG(config, c)
      <4> DEFINE before == IF getConfig(b).ConfigIndex \in DOMAIN EonStartVotings
                           THEN EonStartVotings[getConfig(b).ConfigIndex]
                           ELSE NewVoting
      <4>1. \A a \in DOMAIN before : before[a] \in EonVoteBatches
        BY <3>2, EonStartVoteFacts
      <4>2. \/ UNCHANGED eonVars
            \/ \E s \in Outcome(AddVote(before, sender, b), getConfig(b).Threshold) :
                  StartDKG(getConfig(b), s)
        BY <3>2 DEF deliverEonStartVoteMsg
      <4> HIDE DEF before
      <4>3. \A s \in Outcome(AddVote(before, sender, b), getConfig(b).Threshold) :
               s \in EonVoteBatches
        BY <4>1 DEF Outcome, AddVote
      <4> QED
        BY <4>2, <4>3, ConstantsAssumption DEF eonVars
    <3> QED
      BY <2>3, <3>1, <3>2 DEF deliverMessage, deliverCheckIn, deliverBatchConfigStarted,
                         deliverDecryptionSignature, eonVars
  <2>4. CASE EndBlock
    BY <2>2, <2>4 DEF EndBlock, eonVars
  <2>5. CASE UNCHANGED vars
    BY <2>2, <2>5 DEF vars
  <2> QED
    BY <2>1, <2>2, <2>3, <2>4, <2>5, NewEonKeepsOrder, NewMessageKeepsOrder DEF Next
<1> QED
  BY <1>1, <1>2, Invariance, PTL DEF Spec

=============================================================================
