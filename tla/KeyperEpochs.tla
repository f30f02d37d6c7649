---------------------------- MODULE KeyperEpochs ----------------------------
(***************************************************************************)
(* What keypers do with an eon key (keyper/decide.go, handleEpochKG and    *)
(* what follows): once a batch is closed they publish their shares of its  *)
(* key on shuttermint, decrypt it when there are enough, sign the result,  *)
(* execute it with enough signatures, skip it after the timeout, and       *)
(* accuse an executor with another result than their own.                  *)
(*                                                                         *)
(* A keyper sees both chains with a delay of its own.  It decides whenever *)
(* either of them has grown; its messages and transactions get through in  *)
(* order, at some time.  Crashes and lost answers are the subject of       *)
(* KeyperRuntime.                                                          *)
(***************************************************************************)
EXTENDS ObservedMainChain

CONSTANTS Honest,              \* the keypers that run the program
          Lagging,             \* those whose main chain node may be behind, see Late
          Threshold,           \* of the eons' keys
          ExecutionStaggering, \* in blocks, see executionDelay
          MaxParallel,         \* maxParallelHalfSteps
          MaxBlock,            \* bound: the last block
          StuckAt,             \* bound: blocks where the node of such a keyper gets stuck
          MaxTxs,              \* bound: cipher transactions per batch
          MaxEons,             \* bound: number of eons
          Slow,                \* bound: honest keypers that may decide late
          Misbehaviour,        \* bound: messages the others may send, each once
          FaultyResults        \* bound: results they may execute

ASSUME ConstantsAssumption ==
    /\ Honest \subseteq Keypers /\ Lagging \subseteq Honest /\ Slow \subseteq Honest
    /\ {Threshold, MaxParallel, MaxBlock, MaxEons} \subseteq Nat \ {0}
    /\ {ExecutionStaggering, MaxTxs} \subseteq Nat
    /\ FaultyResults \subseteq SUBSET Nat

Faulty == Keypers \ Honest

(* The trust in keypers, see the properties: a threshold of keypers has an *)
(* honest one in it that is not behind, two of them have one in common.    *)
ASSUME FewFaulty ==
    /\ IsFiniteSet(Keypers)
    /\ Cardinality(Faulty \cup Lagging) < Threshold
    /\ 2 * Threshold > Cardinality(Keypers) + Cardinality(Faulty)
    /\ \A i \in DOMAIN BatchConfigs :
         IsActive(BatchConfigs[i]) => BatchConfigs[i].Threshold >= Threshold

VARIABLES
    log,      \* the shuttermint chain: its events, the height is the position
    keypers   \* the state of each honest keyper

vars == <<block, txs, halfSteps, accusations, log, keypers>>

KG == INSTANCE EpochKG WITH Epochs <- Batches

-----------------------------------------------------------------------------
(* Events on shuttermint and what a keyper finds among them.  An eon has   *)
(* an event when it starts and one where its DKG ends, with success for    *)
(* all but some keypers; those of the DKG in between are the subject of    *)
(* KeyperDKG.                                                              *)

BatchConfigAdded(i) == [type |-> "BatchConfig", ConfigIndex |-> i]
EonStarted(eon, b) == [type |-> "EonStarted", Eon |-> eon, BatchIndex |-> b]
DKGFinalized(eon, failed) ==
    [type |-> "DKGFinalized", Eon |-> eon, Failed |-> failed]
EpochSecretKeyShare(eon, epoch, sender, verifies) ==
    [type |-> "EpochSecretKeyShare", Eon |-> eon, Epoch |-> epoch,
     Sender |-> sender, Verifies |-> verifies]
DecryptionSignature(b, sender, hash) ==
    [type |-> "DecryptionSignature", BatchIndex |-> b, Sender |-> sender,
     Hash |-> hash]

(* Whether the app has accepted the config at an index.                    *)
FindBatchConfigByConfigIndex(i, height) ==
    \E n \in 1 .. height : log[n] = BatchConfigAdded(i)

(* Events are known by their heights.  The last eon that has been started  *)
(* for a batch up to b.                                                    *)
EonsFor(b, height) ==
    {n \in 1 .. height : log[n].type = "EonStarted" /\ log[n].BatchIndex <= b}
FindEonByBatchIndex(b, height) == log[Max(EonsFor(b, height))].Eon

EpochSecretKeyShares(eon) ==
    {n \in DOMAIN log : log[n].type = "EpochSecretKeyShare" /\ log[n].Eon = eon}

DecryptionSignatures(b, height) ==
    {n \in 1 .. height : log[n].type = "DecryptionSignature" /\ log[n].BatchIndex = b}

(* The messages of a faulty keyper, see SendFaulty.                        *)
ASSUME MisbehaviourAssumption ==
    Misbehaviour \subseteq
      [type : {"EpochSecretKeyShare"}, Eon : Nat, Epoch : Batches, Sender : Faulty,
       Verifies : BOOLEAN]
      \cup [type : {"DecryptionSignature"}, BatchIndex : Batches, Sender : Faulty,
            Hash : Nat \X SUBSET Nat]

-----------------------------------------------------------------------------
(* A keyper's state.  main is the block it has synced to on the main       *)
(* chain, SyncHeight the first height on shuttermint it has not handled.   *)

NoBatch == [present |-> FALSE]

NewKeyper ==
    [main |-> 0, SyncHeight |-> 1, EKGs |-> <<>>,
     Batches |-> [b \in Batches |-> NoBatch],
     PendingHalfStep |-> {}, NextEpochSecretShare |-> 0, HalfStepsChecked |-> 0,
     messages |-> <<>>, mainChainTXs |-> <<>>]

(* A loop from one number up to another, which appends some elements for   *)
(* each.                                                                   *)
Collected(parts, from, to) ==
    LET upto[n \in 0 .. to] == IF n <= from THEN <<>> ELSE upto[n - 1] \o parts[n - 1]
    IN  upto[to]

(* In each of these operators kp is the state of keyper k, and height the  *)
(* height it has synced to on shuttermint.                                 *)

executionTimeoutReachedOrInactive(kp, b) ==
    LET c == ConfigForBatchIndex(b)
    IN  ~IsActive(c) \/ kp.main >= ExecutionTimeoutBlock(c, b) - 1

(* handleDKGs, as far as the keyper gets the key of an eon.                *)
GetEonKeys(kp, k, height) ==
    LET found == [n \in kp.SyncHeight .. height |->
                    IF log[n].type = "DKGFinalized" /\ k \notin log[n].Failed
                      THEN <<[Eon |-> log[n].Eon, EpochKG |-> KG!NewEpochKG]>>
                      ELSE <<>>]
    IN  [kp EXCEPT !.EKGs = @ \o Collected(found, kp.SyncHeight, height + 1)]

(* What is signed: the batch before and after the decryption.              *)
DecryptedBatch(kp, b, eon) ==
    LET txsInBatch == DecryptTransactions(b, kp.main, eon)
    IN  [present |-> TRUE,
         DecryptionSignatureHash |-> <<EncryptedBatchHash(b, kp.main), txsInBatch>>,
         DecryptedTransactions |-> txsInBatch,
         DecryptionSignatureIndex |-> 0,
         SignatureCount |-> 0]

(* A wrong variant: the signature may be for any result.                   *)
VerifyAnySignature(batch, signature) == TRUE

VerifySignature(batch, signature) ==
    batch.DecryptionSignatureHash = signature.Hash

(* Counts the valid ones among the signatures that are new; the index up   *)
(* to which they are counted is taken as the height of the chain.          *)
syncBatch(batch, b, height) ==
    LET new == {n \in DecryptionSignatures(b, height) :
                  /\ n > batch.DecryptionSignatureIndex
                  /\ IsKeyper(ConfigForBatchIndex(b), log[n].Sender)
                  /\ VerifySignature(batch, log[n])}
    IN  IF ~batch.present \/ batch.DecryptedTransactions = {}
          THEN batch
          ELSE [batch EXCEPT !.SignatureCount = @ + Cardinality(new),
                             !.DecryptionSignatureIndex = height]

SignaturesMissing(batch, b) ==
    batch.SignatureCount < ConfigForBatchIndex(b).Threshold

(* decryptTransactions and sendDecryptionSignature.                        *)
DecryptAndSign(kp, k, b, eon, height) ==
    LET decrypted == DecryptedBatch(kp, b, eon)
        synced    == syncBatch(decrypted, b, height)
        signature == DecryptionSignature(b, k, synced.DecryptionSignatureHash)
    IN  IF executionTimeoutReachedOrInactive(kp, b)
          THEN [kp EXCEPT !.Batches[b] = decrypted]
          ELSE [kp EXCEPT
                  !.Batches[b] = synced,
                  !.messages = IF /\ SignaturesMissing(synced, b)
                                  /\ synced.DecryptedTransactions # {}
                                 THEN Append(@, signature) ELSE @]

(* The share that makes the key has the batch decrypted.                   *)
HandleShare(kp, k, i, share, height) ==
    LET ekg == kp.EKGs[i].EpochKG
        new == KG!HandleEpochSecretKeyShare(ekg, share)
        kp2 == [kp EXCEPT !.EKGs[i].EpochKG = new]
    IN  IF new.SecretKeys = ekg.SecretKeys
          THEN kp2
          ELSE DecryptAndSign(kp2, k, share.Epoch, share.Eon, height)

SharesHandled(kp, k, i, height) ==
    LET after[n \in 0 .. height] ==
          IF n < kp.SyncHeight THEN kp
          ELSE IF n \in EpochSecretKeyShares(kp.EKGs[i].Eon)
            THEN HandleShare(after[n - 1], k, i, log[n], height)
          ELSE after[n - 1]
    IN  after

syncEKGWithEon(kp, k, i, height) == SharesHandled(kp, k, i, height)[height]

EKGsSynced(kp, k, height) ==
    LET after[i \in 0 .. Len(kp.EKGs)] ==
          IF i = 0 THEN kp ELSE syncEKGWithEon(after[i - 1], k, i, height)
    IN  after

syncEKGs(kp, k, height) == EKGsSynced(kp, k, height)[Len(kp.EKGs)]

-----------------------------------------------------------------------------
(* Publishing shares: once for every batch that has closed since the last  *)
(* time, with the key of the eon that is the last one known by then.  If   *)
(* that key is not there yet, no share is published later either.          *)

(* A wrong variant: the current batch counts as closed.                    *)
CurrentClosed(kp) == BatchIndex(ActiveConfig(kp.main), kp.main) + 1

ClosedBatches(kp) == BatchIndex(ActiveConfig(kp.main), kp.main)

(* A wrong variant: a new key is used for every batch closed so far.       *)
ClosedForNewKey(kp) ==
    IF kp.EKGs # <<>> /\ kp.EKGs[Len(kp.EKGs)].EpochKG = KG!NewEpochKG
      THEN 0 .. ClosedBatches(kp) - 1
      ELSE kp.NextEpochSecretShare .. ClosedBatches(kp) - 1

NewlyClosed(kp) == kp.NextEpochSecretShare .. ClosedBatches(kp) - 1

(* publishEpochSecretKeyShare: the eon whose key is used, if any.          *)
PublishedIn(kp, b, height) ==
    {kp.EKGs[i].Eon : i \in {j \in DOMAIN kp.EKGs :
        /\ EonsFor(b, height) # {}
        /\ kp.EKGs[j].Eon = FindEonByBatchIndex(b, height)
        /\ b \notin kp.EKGs[j].EpochKG.SecretKeys}}

(* Nothing is published until shuttermint has the active config.           *)
publishEpochSecretKeyShares(kp, k, height) ==
    LET known == FindBatchConfigByConfigIndex(ActiveConfigIndex(kp.main), height)
        eon(b) == CHOOSE e \in PublishedIn(kp, b, height) : TRUE
        published == [b \in 0 .. ClosedBatches(kp) - 1 |->
           IF /\ b \in NewlyClosed(kp) \cap Batches
              /\ ~executionTimeoutReachedOrInactive(kp, b)
              /\ PublishedIn(kp, b, height) # {}
             THEN <<EpochSecretKeyShare(eon(b), b, k, TRUE)>>
             ELSE <<>>]
    IN  IF ~known
          THEN kp
          ELSE [kp EXCEPT
                  !.messages = @ \o Collected(published, 0, ClosedBatches(kp)),
                  !.NextEpochSecretShare = ClosedBatches(kp)]

handleDecryptionSignatures(kp, height) ==
    [kp EXCEPT !.Batches = [b \in Batches |-> syncBatch(@[b], b, height)]]

-----------------------------------------------------------------------------
(* Execution.                                                              *)

CipherTX(h, hash, result) ==
    [type |-> "cipher", halfStep |-> h, hash |-> hash, result |-> result]
TX(type, h) == [type |-> type, halfStep |-> h]

LesserOf(a, b) == IF a <= b THEN a ELSE b

(* The keypers take turns in who comes first.                              *)
executionDelay(c, k, h) ==
    LET divisor == Len(c.Keypers) - 1
        maxStaggering == IF divisor = 0 THEN 0
                                        ELSE c.ExecutionTimeout \div (2 * divisor)
        place == (h + KeyperIndex(c, k)) % Len(c.Keypers)
    IN  place * LesserOf(ExecutionStaggering, maxStaggering)

(* A wrong variant: signatures are not asked for.                          *)
MayExecuteUnsigned(batch, b) == batch.present

MayExecuteCipherBatch(batch, b) ==
    /\ batch.present
    /\ batch.DecryptedTransactions # {} => ~SignaturesMissing(batch, b)

executeCipherBatch(kp, b) ==
    IF MayExecuteCipherBatch(kp.Batches[b], b)
      THEN {CipherTX(2 * b, EncryptedBatchHash(b, kp.main),
                     kp.Batches[b].DecryptedTransactions)}
      ELSE {}

(* The transaction for half step h, if there is any to be sent.            *)
maybeExecuteHalfStep(kp, k, h) ==
    LET b == h \div 2
        c == ConfigForBatchIndex(b)
        delay == executionDelay(c, k, h)
        isCipherBatch == h % 2 = 0
        late == isCipherBatch /\ kp.main >= ExecutionTimeoutBlock(c, b)
    IN  IF ~IsActive(c) THEN {}
        ELSE IF late
          THEN IF kp.main >= ExecutionTimeoutBlock(c, b) + delay
                 THEN {TX("skip", h)} ELSE {}
        ELSE IF ~IsKeyper(c, k) \/ kp.main < BatchEndBlock(c, b) + delay THEN {}
        ELSE IF isCipherBatch THEN executeCipherBatch(kp, b)
        ELSE {TX("plain", h)}

(* The half steps to be executed are the next ones of closed batches, up   *)
(* to the first one there is nothing to be sent for.                       *)
HalfStepsToExecute(kp, k, next) ==
    LET closed == 2 * LesserOf(BatchIndex(ActiveConfig(kp.main), kp.main), MaxBatch + 1)
        candidates == next .. LesserOf(next + MaxParallel, closed) - 1
    IN  {h \in candidates :
           \A g \in next .. h : maybeExecuteHalfStep(kp, k, g) # {}}

maybeExecuteBatch(kp, k) ==
    LET next    == NumExecutionHalfSteps(kp.main)
        pending == {h \in kp.PendingHalfStep : next <= h}
        steps   == HalfStepsToExecute(kp, k, next)
        tx(h)   == CHOOSE t \in maybeExecuteHalfStep(kp, k, h) : TRUE
    IN  IF ~IsActive(ActiveConfig(kp.main)) THEN kp
        ELSE IF pending # {} \/ steps = {} THEN [kp EXCEPT !.PendingHalfStep = pending]
        ELSE [kp EXCEPT
                !.PendingHalfStep = {Max(steps)},
                !.mainChainTXs = @ \o [i \in 1 .. Max(steps) - next + 1 |-> tx(next + i - 1)]]

-----------------------------------------------------------------------------
(* Accusations.  maybeAppeal is not modelled.                              *)

ToAccuse(kp) ==
    {h \in kp.HalfStepsChecked .. NumExecutionHalfSteps(kp.main) - 1 :
       LET batch == kp.Batches[h \div 2] IN
       /\ h % 2 = 0
       /\ HasReceipt(h, kp.main)
       /\ batch.present
       /\ batch.DecryptedTransactions # ReceiptBatchHash(h, kp.main)
       /\ ~IsAccused(h, kp.main)}

maybeAccuse(kp) ==
    LET numHalfSteps == NumExecutionHalfSteps(kp.main)
        accused == [h \in 0 .. numHalfSteps - 1 |->
                      IF h \in ToAccuse(kp) THEN <<TX("accuse", h)>> ELSE <<>>]
    IN  [kp EXCEPT !.mainChainTXs = @ \o Collected(accused, 0, numHalfSteps),
                   !.HalfStepsChecked = numHalfSteps]

(* Decide, from handleDKGs on.                                             *)
Decided(kp, k, height) ==
    LET kp1 == GetEonKeys(kp, k, height)
        kp2 == syncEKGs(kp1, k, height)
        kp3 == publishEpochSecretKeyShares(kp2, k, height)
        kp4 == handleDecryptionSignatures(kp3, height)
        kp5 == maybeExecuteBatch(kp4, k)
        kp6 == maybeAccuse(kp5)
    IN  [kp6 EXCEPT !.SyncHeight = height + 1]

-----------------------------------------------------------------------------

Init ==
    /\ block = 1
    /\ txs = [b \in Batches |-> <<>>]
    /\ halfSteps = <<>>
    /\ accusations = {}
    /\ log = <<BatchConfigAdded(2), EonStarted(1, 0), DKGFinalized(1, {})>>
    /\ keypers = [k \in Honest |-> NewKeyper]

EonEvents(type) == {log[i].Eon : i \in {j \in DOMAIN log : log[j].type = type}}

(* Bound: either there are transactions and keypers that are late, or there*)
(* are several eons or a config that shuttermint accepts late.             *)
ConfigsInTime ==
    \A i \in 2 .. Len(BatchConfigs) : FindBatchConfigByConfigIndex(i, Len(log))

Undisturbed == EonEvents("EonStarted") = {1} /\ ConfigsInTime

Late(some) == IF Undisturbed THEN some ELSE {}

(* Bound: with several eons the chain is one block shorter.                *)
LastBlock(eons) == IF Cardinality(eons) = 1 THEN MaxBlock ELSE MaxBlock - 1

(* runOneStep: either of the chains has grown (SyncToHead).  A keyper is   *)
(* given the head of the chain, as its node knows it; that it may take     *)
(* longer to decide makes no difference, since its messages and            *)
(* transactions may be late.  A keyper that is not lagging has seen at     *)
(* least the last block but one when it decides.                           *)
InTime(k) == k \in Late(Lagging) \/ keypers[k].main + 2 >= block

DecideOnMainChain(k, v) ==
    /\ v > keypers[k].main
    /\ v = block - 1 \/ (v \in StuckAt /\ k \in Late(Lagging))
    /\ keypers' = [keypers EXCEPT ![k] =
         Decided([@ EXCEPT !.main = v], k, @.SyncHeight - 1)]
    /\ UNCHANGED <<chainVars, log>>

DecideOnShielder(k) ==
    /\ Len(log) >= keypers[k].SyncHeight
    /\ InTime(k)
    /\ keypers' = [keypers EXCEPT ![k] = Decided(@, k, Len(log))]
    /\ UNCHANGED <<chainVars, log>>

-----------------------------------------------------------------------------
(* Shuttermint.  The app takes any share, and one decryption signature per *)
(* sender and batch; what it does not take leaves no event.                *)

Accepted(event) ==
    \A i \in DOMAIN log :
       ~ /\ event.type = "DecryptionSignature" /\ log[i].type = event.type
         /\ log[i].BatchIndex = event.BatchIndex /\ log[i].Sender = event.Sender

Deliver(k) ==
    LET messages == keypers[k].messages IN
    /\ messages # <<>>
    /\ log' = IF Accepted(Head(messages)) THEN Append(log, Head(messages)) ELSE log
    /\ keypers' = [keypers EXCEPT ![k].messages = Tail(messages)]
    /\ UNCHANGED chainVars

StartEon(b) ==
    LET eon == Cardinality(EonEvents("EonStarted")) + 1 IN
    /\ eon <= MaxEons
    /\ block <= LastBlock({1, eon})
    /\ \A c \in Batches : txs[c] = <<>> /\ DecryptionSignatures(c, Len(log)) = {}
    /\ \A k \in Honest : keypers[k].messages = <<>>
    /\ log' = Append(log, EonStarted(eon, b))
    /\ UNCHANGED <<chainVars, keypers>>

(* Bound: the DKG fails for slow keypers only, while a config is missing.   *)
EndDKG(eon, failed) ==
    /\ eon \in EonEvents("EonStarted") \ EonEvents("DKGFinalized")
    /\ failed # {} => ~ConfigsInTime
    /\ log' = Append(log, DKGFinalized(eon, failed))
    /\ UNCHANGED <<chainVars, keypers>>

(* A majority of the keypers has voted for the next config, see            *)
(* ShielderApp.  Bound: this is before anything else, or when the config   *)
(* has just started.                                                       *)
AddBatchConfig(i) ==
    /\ i = Cardinality({n \in DOMAIN log : log[n].type = "BatchConfig"}) + 2
    /\ \/ Len(log) = 3 /\ \A k \in Slow : keypers[k] = NewKeyper
       \/ block = BatchConfigs[i].StartBlockNumber + 1
    /\ log' = Append(log, BatchConfigAdded(i))
    /\ UNCHANGED <<chainVars, keypers>>

(* The others send what they like, when they like; bound: their shares     *)
(* once there is a key, then a signature in undisturbed times.             *)
SendFaulty(message) ==
    /\ \A i \in DOMAIN log : log[i] # message
    /\ Accepted(message)
    /\ IF message.type = "EpochSecretKeyShare"
         THEN message.Eon \in EonEvents("DKGFinalized")
         ELSE /\ Undisturbed
              /\ \E i \in DOMAIN log : /\ log[i].type = "EpochSecretKeyShare"
                                      /\ log[i].Sender = message.Sender
    /\ log' = Append(log, message)
    /\ UNCHANGED <<chainVars, keypers>>

(* Bound: messages get through, and who is not slow decides, before        *)
(* anything else happens.  In a block transactions are mined in any order, *)
(* or not yet: only those of a slow keyper take longer than a block.       *)
UpToDate(k) ==
    /\ keypers[k].messages = <<>>
    /\ \/ k \in Slow
       \/ keypers[k].main = block - 1 /\ keypers[k].SyncHeight = Len(log) + 1

Quiet == \A k \in Honest : UpToDate(k)

-----------------------------------------------------------------------------
(* The main chain: ExecutorContract, KeyperSlasher and BatcherContract as  *)
(* far as these transactions are concerned, see BatchContracts.            *)

CurrentBatch  == Len(halfSteps) \div 2
CurrentConfig == ConfigForBatchIndex(CurrentBatch)
TimedOut == block >= ExecutionTimeoutBlock(CurrentConfig, CurrentBatch)
Closed   == block >= BatchEndBlock(CurrentConfig, CurrentBatch)

Turn(types, tx) ==
    /\ tx.type \in types
    /\ tx.halfStep = Len(halfSteps)
    /\ IsActive(CurrentConfig)

MayBeExecuted(executor, hash, result) ==
    /\ Closed /\ ~TimedOut
    /\ IsKeyper(CurrentConfig, executor)
    /\ hash = Len(txs[CurrentBatch])
    /\ hash = 0 <=> result = {}

Executes(k, tx) == Turn({"cipher"}, tx) /\ MayBeExecuted(k, tx.hash, tx.result)
Skips(k, tx) == Turn({"cipher", "skip"}, tx) /\ TimedOut
ExecutesPlain(k, tx) == Turn({"plain"}, tx) /\ Closed
Accuses(k, tx) ==
    /\ tx.type = "accuse"
    /\ halfSteps[tx.halfStep + 1].kind = "cipher"
    /\ ~IsAccused(tx.halfStep, block)
    /\ IsKeyper(ConfigForBatchIndex(tx.halfStep \div 2), k)

HalfStepDone(kind, executor, result) ==
    /\ halfSteps' = Append(halfSteps, [kind |-> kind, block |-> block,
                                       executor |-> executor, result |-> result])
    /\ UNCHANGED accusations

NextTX(k) == Head(keypers[k].mainChainTXs)

Mined(k) ==
    /\ keypers[k].mainChainTXs # <<>> /\ Quiet
    /\ keypers' = [keypers EXCEPT ![k].mainChainTXs = Tail(@)]
    /\ UNCHANGED <<block, txs, log>>

ExecuteCipherBatch(k) ==
    /\ Mined(k) /\ Executes(k, NextTX(k))
    /\ HalfStepDone("cipher", {k}, NextTX(k).result)

SkipCipherBatch(k) ==
    /\ Mined(k) /\ Skips(k, NextTX(k))
    /\ HalfStepDone("skip", {}, {})

ExecutePlainBatch(k) ==
    /\ Mined(k) /\ ExecutesPlain(k, NextTX(k))
    /\ HalfStepDone("plain", {}, {})

Accuse(k) ==
    /\ Mined(k) /\ Accuses(k, NextTX(k))
    /\ accusations' = accusations \cup
         {[halfStep |-> NextTX(k).halfStep, accuser |-> k, block |-> block]}
    /\ UNCHANGED halfSteps

(* A transaction that fails is not repeated.                               *)
Revert(k) ==
    /\ Mined(k)
    /\ LET tx == NextTX(k)
       IN  ~Executes(k, tx) /\ ~Skips(k, tx) /\ ~ExecutesPlain(k, tx) /\ ~Accuses(k, tx)
    /\ UNCHANGED <<halfSteps, accusations>>

(* Bound: others execute in the first block in which they can.             *)
ExecuteFaulty(k, result) ==
    /\ CurrentBatch \in Batches /\ Len(halfSteps) % 2 = 0
    /\ IsActive(CurrentConfig)
    /\ Undisturbed /\ block = BatchEndBlock(CurrentConfig, CurrentBatch)
    /\ MayBeExecuted(k, Len(txs[CurrentBatch]), result)
    /\ HalfStepDone("cipher", {k}, result)
    /\ UNCHANGED <<block, txs, log, keypers>>

(* A user encrypts for an eon whose key has been broadcast; bound: one     *)
(* transaction per batch and block.                                        *)
AddTransaction(b, eon) ==
    LET c == ConfigForBatchIndex(b) IN
    /\ IsActive(c)
    /\ block >= BatchOpens(c, b) /\ block < BatchEndBlock(c, b)
    /\ Len(txs[b]) < MaxTxs /\ \A i \in DOMAIN txs[b] : txs[b][i].block < block
    /\ Undisturbed
    /\ eon \in EonEvents("DKGFinalized")
    /\ txs' = [txs EXCEPT ![b] = Append(@, [block |-> block, eon |-> eon])]
    /\ UNCHANGED <<block, halfSteps, accusations, log, keypers>>

NextBlock ==
    /\ block < LastBlock(EonEvents("EonStarted"))
    /\ \A k \in Honest \ Slow : keypers[k].mainChainTXs = <<>>
    /\ block' = block + 1
    /\ UNCHANGED <<txs, halfSteps, accusations, log, keypers>>

Arrive(k) ==
    \/ Deliver(k)
    \/ ExecuteCipherBatch(k)
    \/ SkipCipherBatch(k)
    \/ ExecutePlainBatch(k)
    \/ Accuse(k)
    \/ Revert(k)

Decide(k) ==
    \/ \E v \in 1 .. block - 1 : DecideOnMainChain(k, v)
    \/ DecideOnShielder(k)

Next ==
    \/ \E k \in Honest : Arrive(k)
    \/ \E k \in Honest \ Slow : Decide(k)
    \/ Quiet /\ \/ NextBlock
                \/ \E b \in Batches, eon \in 1 .. MaxEons : AddTransaction(b, eon)
                \/ \E b \in Batches : StartEon(b)
                \/ \E eon \in 1 .. MaxEons, failed \in SUBSET Slow : EndDKG(eon, failed)
                \/ \E i \in DOMAIN BatchConfigs : AddBatchConfig(i)
                \/ \E message \in Misbehaviour : SendFaulty(message)
                \/ \E k \in Faulty, result \in FaultyResults : ExecuteFaulty(k, result)
                \/ \E k \in Slow : Decide(k)

Spec == Init /\ [][Next]_vars

-----------------------------------------------------------------------------
(* Properties.                                                             *)

SharesOnChain(eon, b) ==
    {log[n].Sender : n \in {m \in EpochSecretKeyShares(eon) :
                              log[m].Epoch = b /\ log[m].Verifies}}

HasKey(eon, b) == Cardinality(SharesOnChain(eon, b)) >= Threshold

Batch ==
    {NoBatch} \cup
    [present : {TRUE}, DecryptedTransactions : SUBSET (1 .. MaxTxs),
     DecryptionSignatureHash : (0 .. MaxTxs) \X SUBSET (1 .. MaxTxs),
     DecryptionSignatureIndex : Nat, SignatureCount : Nat]

(* Types; a keyper decrypts a batch only with an epoch's key, which it     *)
(* gets from a threshold of shares on the chain (epochkg).                 *)
TypeOK ==
    /\ block \in 1 .. MaxBlock
    /\ \A i \in DOMAIN halfSteps : halfSteps[i].block \in 1 .. block
    /\ \A k \in Honest :
         LET kp == keypers[k] IN
         /\ kp.main \in 0 .. block - 1
         /\ kp.SyncHeight \in 1 .. Len(log) + 1
         /\ kp.Batches \in [Batches -> Batch]
         /\ kp.PendingHalfStep \subseteq 0 .. 2 * MaxBatch + 1
         /\ {kp.NextEpochSecretShare, kp.HalfStepsChecked} \subseteq Nat
         /\ \A i \in DOMAIN kp.EKGs :
              /\ kp.EKGs[i].EpochKG \in KG!EpochKGState
              /\ \A b \in kp.EKGs[i].EpochKG.SecretKeys : HasKey(kp.EKGs[i].Eon, b)

(* Nobody can decrypt a batch before it is closed: honest keypers publish  *)
(* their shares only then (publishEpochSecretKeyShares), and the others    *)
(* are too few.  The one exception is a batch that is skipped: a config    *)
(* that starts with a later batch has started already, which the config    *)
(* contract allows after an inactive config (ConfigContract.sol:395).      *)
SecretUntilClosed ==
    \A eon \in 1 .. MaxEons, b \in Batches :
       HasKey(eon, b) =>
          \/ block >= BatchEndBlock(ConfigForBatchIndex(b), b)
          \/ \E i \in DOMAIN BatchConfigs :
                /\ BatchConfigs[i].StartBatchIndex > b
                /\ BatchConfigs[i].StartBlockNumber < block

(* The batches that this may happen to.                                    *)
Overtaken(b) ==
    \E i \in DOMAIN BatchConfigs :
       /\ BatchConfigs[i].StartBatchIndex > b
       /\ BatchConfigs[i].StartBlockNumber < BatchEndBlock(ConfigForBatchIndex(b), b)

(* Every honest keyper publishes a share of the key of a batch for one eon *)
(* only, although keypers may learn of a new eon at different times, so    *)
(* there cannot be two keys (NextEpochSecretShare, FindEonByBatchIndex).   *)
OneKeyPerEpoch ==
    \A b \in Batches : Cardinality({eon \in 1 .. MaxEons : HasKey(eon, b)}) <= 1

(* What an honest keyper executes is what the key decrypts the batch to,   *)
(* even if its main chain node was behind when it decrypted the batch      *)
(* (decryptTransactions): there is no threshold of signatures for anything *)
(* else (executeCipherBatch), and the contract does not accept the empty   *)
(* result for a batch that is not.  Only a batch whose key came out early  *)
(* may have got more transactions since.                                   *)
ExecutedResultsRight ==
    \A i \in DOMAIN halfSteps :
       LET b == (i - 1) \div 2 IN
       /\ halfSteps[i].kind = "cipher" /\ halfSteps[i].executor \subseteq Honest
       /\ ~Overtaken(b)
       => \E eon \in 1 .. MaxEons :
            /\ HasKey(eon, b)
            /\ halfSteps[i].result = {j \in DOMAIN txs[b] : txs[b][j].eon = eon}

Elements(seq) == {seq[i] : i \in DOMAIN seq}

(* The half steps whose executors a keyper decides to accuse.              *)
Accusing(k) ==
    {h \in 0 .. Len(halfSteps) - 1 :
       TX("accuse", h) \in Elements(keypers'[k].mainChainTXs)
                            \ Elements(keypers[k].mainChainTXs)}

(* A keyper behind on the main chain has decrypted part of the batch.      *)
CopyIncomplete(k, b) ==
    /\ k \in Lagging
    /\ keypers[k].Batches[b].DecryptionSignatureHash[1] < Len(txs[b])

(* A skipped half step has put its zero receipt in place of that of half   *)
(* step 0, before the keyper has looked at that one.                       *)
ReceiptLost(k) ==
    \E i \in DOMAIN halfSteps :
       /\ halfSteps[i].kind = "skip"
       /\ k \in Slow \/ halfSteps[i].block = halfSteps[1].block

(* A keyper that runs the program accuses another one that runs the program*)
(* (maybeAccuse) for three reasons only: it has decrypted an incomplete    *)
(* copy of the batch, it does not see the receipt of half step 0 any more, *)
(* or the batch's key came out early.                                      *)
HonestNotAccused ==
    [][\A k \in Honest : \A h \in Accusing(k) :
         halfSteps[h + 1].kind = "cipher" /\ halfSteps[h + 1].executor \subseteq Honest =>
            \/ CopyIncomplete(k, h \div 2)'
            \/ h = 0 /\ ReceiptLost(k)
            \/ Overtaken(h \div 2)]_vars
=============================================================================
