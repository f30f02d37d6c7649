------------------------ MODULE KeyperSlashingProofs ------------------------
(***************************************************************************)
(* Proofs about the main chain contracts, for any configs, notice, batch   *)
(* spans and number of batches.                                            *)
(***************************************************************************)
EXTENDS KeyperSlashing, FiniteSetTheorems, WellFoundedInduction, NaturalsInduction, TLAPS

BatchConfig == [startBatchIndex : Nat, startBlockNumber : Nat,
                terms : ConfigTerms]

ConfigsTypeOK ==
    /\ block \in Nat
    /\ configs \in Seq(BatchConfig)
    /\ Len(configs) > 0
    /\ configs[1].startBatchIndex = 0

Closed(b) ==
    LET c == ConfigForBatchIndex(b) IN BatchingActive(c) /\ block >= End(c, b)

Opened(b) ==
    LET c == ConfigForBatchIndex(b) IN BatchingActive(c) /\ block >= Start(c, b)

HalfStepsTypeOK ==
    /\ numExecutionHalfSteps \in Nat
    /\ numExecutionHalfSteps <= 2 * MaxBatch + 2
    /\ DOMAIN cipherExecutionReceipts = HalfSteps
    /\ DOMAIN batchHashes = Batches
    /\ \A b \in Batches : DOMAIN batchHashes[b] = TransactionType

(* A half step is only done when its batch is closed.                      *)
DoneBatchesClosed ==
    \A b \in Batches : 2 * b < numExecutionHalfSteps => Closed(b)

ReceiptsOfDoneHalfSteps ==
    \A h \in HalfSteps :
       cipherExecutionReceipts[h].executed => h < numExecutionHalfSteps

IInv ==
    /\ ConfigsTypeOK
    /\ HalfStepsTypeOK
    /\ DoneBatchesClosed
    /\ ReceiptsOfDoneHalfSteps
    /\ ReceiptsMatchBatches

-----------------------------------------------------------------------------
(* Facts about configs and the boundaries of batches.                      *)

LEMMA Parameters ==
    /\ HeadsUp \in Nat /\ MaxBlock \in Nat /\ MaxBatch \in Nat
    /\ Terms \subseteq ConfigTerms
BY ConstantsAssumption

LEMMA ConfigFields ==
    ASSUME NEW c \in BatchConfig
    PROVE  /\ c.startBatchIndex \in Nat
           /\ c.startBlockNumber \in Nat
           /\ c.terms.batchSpan \in Nat
           /\ c.terms.executionTimeout \in Nat
BY DEF BatchConfig, ConfigTerms

LEMMA ProductMonotone ==
    ASSUME NEW s \in Nat, NEW x \in Nat, NEW y \in Nat, x <= y
    PROVE  x * s <= y * s
OBVIOUS

LEMMA OneMore ==
    ASSUME NEW s \in Nat, NEW x \in Nat
    PROVE  (x + 1) * s = x * s + s /\ x * s \in Nat
OBVIOUS

(* A batch opens when its config starts or later, and before it closes.    *)
LEMMA Boundaries ==
    ASSUME NEW c \in BatchConfig, NEW b \in Nat, c.startBatchIndex <= b,
           BatchingActive(c)
    PROVE  /\ Start(c, b) \in Int /\ End(c, b) \in Int
           /\ c.startBlockNumber <= Start(c, b)
           /\ Start(c, b) < End(c, b)
<1> DEFINE s == c.terms.batchSpan
           d == b - c.startBatchIndex
<1>1. c.startBatchIndex \in Nat /\ c.startBlockNumber \in Nat /\ s \in Nat
  BY ConfigFields
<1>2. s > 0
  BY DEF BatchingActive
<1>3. d \in Nat /\ d + 1 \in Nat
  BY <1>1
<1>4. (d + 1) * s = d * s + s /\ d * s \in Nat
  BY <1>1, <1>3, OneMore
<1>5. End(c, b) = c.startBlockNumber + d * s + s
  <2>1. End(c, b) = c.startBlockNumber + (d + 1) * s
    BY DEF End
  <2> HIDE DEF s, d
  <2> QED
    BY <1>1, <1>4, <2>1
<1>6. CASE b > c.startBatchIndex
  <2>1. d \in Nat /\ 1 <= d
    BY <1>1, <1>6
  <2>2. s <= d * s
    BY <1>1, <2>1, ProductMonotone, 1 * s = s
  <2>3. Start(c, b) = End(c, b) - s - s
    BY <1>6 DEF Start
  <2> HIDE DEF s, d
  <2> QED
    BY <1>1, <1>2, <1>4, <1>5, <2>2, <2>3
<1>7. CASE ~(b > c.startBatchIndex)
  <2>1. Start(c, b) = End(c, b) - s - 0
    BY <1>7 DEF Start
  <2> HIDE DEF s, d
  <2> QED
    BY <1>1, <1>2, <1>4, <1>5, <2>1
<1> QED
  BY <1>6, <1>7
(* A nonempty set of positions of a sequence has a last one.               *)
LEMMA LastPosition ==
    ASSUME NEW n \in Nat, NEW S \in SUBSET (1..n), S # {}
    PROVE  \E i \in S : \A j \in S : j <= i
<1> DEFINE dist == {n - i : i \in S}
<1>1. dist \subseteq Nat /\ dist # {}
  <2>1. \A i \in S : i \in 1..n
    OBVIOUS
  <2>2. \A i \in S : n - i \in Nat
    BY <2>1
  <2> QED
    BY <2>2
<1>2. PICK d \in dist : \A e \in dist : ~(<<e, d>> \in OpToRel(<, Nat))
  <2>1. IsWellFoundedOn(OpToRel(<, Nat), Nat)
    BY NatLessThanWellFounded
  <2> QED
    BY <1>1, <2>1, WFMin
<1>3. \A e \in dist : ~(e < d)
  BY <1>1, <1>2 DEF OpToRel
<1>4. PICK i \in S : d = n - i
  BY <1>2
<1>5. \A j \in S : j <= i
  <2> SUFFICES ASSUME NEW j \in S, ~(j <= i) PROVE FALSE
    OBVIOUS
  <2>1. n - j \in dist /\ n - j < d
    BY <1>4
  <2> QED
    BY <1>3, <2>1
<1> QED
  BY <1>5

(* Position i holds the config of batch b.                                 *)
IsConfigOf(i, cfgs, b) ==
    /\ i \in DOMAIN cfgs
    /\ cfgs[i].startBatchIndex <= b
    /\ \A j \in DOMAIN cfgs : j > i => cfgs[j].startBatchIndex > b

(* configIndexForBatchIndex never runs into its assert(false).             *)
LEMMA ConfigIndexExists ==
    ASSUME NEW cfgs \in Seq(BatchConfig), Len(cfgs) > 0,
           cfgs[1].startBatchIndex = 0, NEW b \in Nat
    PROVE  IsConfigOf(ConfigIndexIn(cfgs, b), cfgs, b)
<1> DEFINE covers == {i \in DOMAIN cfgs : cfgs[i].startBatchIndex <= b}
<1>1. DOMAIN cfgs = 1..Len(cfgs) /\ Len(cfgs) \in Nat
  OBVIOUS
<1>2. 1 \in covers
  BY <1>1
<1>3. PICK i \in covers : \A j \in covers : j <= i
  BY <1>1, <1>2, LastPosition
<1>4. \A j \in DOMAIN cfgs : cfgs[j].startBatchIndex \in Nat
  <2>1. \A j \in DOMAIN cfgs : cfgs[j] \in BatchConfig
    OBVIOUS
  <2> QED
    BY <2>1 DEF BatchConfig
<1>5. \A j \in DOMAIN cfgs : j > i => cfgs[j].startBatchIndex > b
  BY <1>1, <1>3, <1>4
<1>6. \E k \in DOMAIN cfgs :
         /\ cfgs[k].startBatchIndex <= b
         /\ \A j \in DOMAIN cfgs : j > k => cfgs[j].startBatchIndex > b
  BY <1>3, <1>5
<1> QED
  BY <1>6 DEF ConfigIndexIn, IsConfigOf

LEMMA ConfigIndexUnique ==
    ASSUME NEW cfgs \in Seq(BatchConfig), NEW b \in Nat, NEW i, NEW j,
           IsConfigOf(i, cfgs, b), IsConfigOf(j, cfgs, b)
    PROVE  i = j
<1>1. i \in 1..Len(cfgs) /\ j \in 1..Len(cfgs)
  BY DEF IsConfigOf
<1>2. cfgs[i].startBatchIndex \in Nat /\ cfgs[j].startBatchIndex \in Nat
  BY <1>1, ConfigFields
<1>3. ~(j > i) /\ ~(i > j)
  BY <1>1, <1>2 DEF IsConfigOf
<1> QED
  BY <1>1, <1>3

(* A sequence of configs that agrees with another up to the config of b,   *)
(* and whose further configs start later, has the same config for b.       *)
LEMMA SameConfig ==
    ASSUME NEW cfgs \in Seq(BatchConfig), NEW next \in Seq(BatchConfig),
           NEW b \in Nat, Len(cfgs) > 0, cfgs[1].startBatchIndex = 0,
           Len(next) > 0, next[1].startBatchIndex = 0,
           LET i == ConfigIndexIn(cfgs, b) IN
             /\ i \in DOMAIN next /\ next[i] = cfgs[i]
             /\ \A j \in DOMAIN next :
                  j > i => next[j].startBatchIndex > b
    PROVE  next[ConfigIndexIn(next, b)] = cfgs[ConfigIndexIn(cfgs, b)]
<1> DEFINE i == ConfigIndexIn(cfgs, b)
<1>1. IsConfigOf(i, cfgs, b) /\ IsConfigOf(ConfigIndexIn(next, b), next, b)
  BY ConfigIndexExists
<1>2. IsConfigOf(i, next, b)
  BY <1>1 DEF IsConfigOf
<1> QED
  BY <1>1, <1>2, ConfigIndexUnique

LEMMA ConfigOfBatch ==
    ASSUME ConfigsTypeOK, NEW b \in Nat
    PROVE  /\ IsConfigOf(ConfigIndexIn(configs, b), configs, b)
           /\ ConfigForBatchIndex(b) \in BatchConfig
           /\ ConfigForBatchIndex(b).startBatchIndex <= b
<1>1. IsConfigOf(ConfigIndexIn(configs, b), configs, b)
  BY ConfigIndexExists DEF ConfigsTypeOK
<1> QED
  BY <1>1 DEF IsConfigOf, ConfigForBatchIndex, ConfigsTypeOK

LEMMA NextConfigsType == NextConfigs \subseteq BatchConfig
<1> SUFFICES ASSUME NEW sb \in Batches, NEW sn \in 0 .. MaxBlock, NEW t \in Terms
             PROVE  Config(sb, sn, t) \in BatchConfig
  BY DEF NextConfigs
<1>1. sb \in Nat /\ sn \in Nat /\ t \in ConfigTerms
  BY Parameters DEF Batches
<1> QED
  BY <1>1 DEF Config, BatchConfig

-----------------------------------------------------------------------------
(* An open batch keeps its config.                                         *)

(* The next config starts after every batch that is open: at least one     *)
(* batch span, and one block, must lie before it.                          *)
LEMMA NextStartsLater ==
    ASSUME ConfigsTypeOK, NEW next \in BatchConfig, NEW b \in Nat, Opened(b),
           next.startBlockNumber >= EarliestStart(configs[Len(configs)]),
           Seamless(configs[Len(configs)], next)
    PROVE  next.startBatchIndex > b
<1> DEFINE last == configs[Len(configs)]
           i == ConfigIndexIn(configs, b)
           c == ConfigForBatchIndex(b)
           s == last.terms.batchSpan
<1>1. IsConfigOf(i, configs, b) /\ c = configs[i]
  BY ConfigOfBatch DEF ConfigForBatchIndex
<1>2. Len(configs) \in 1..Len(configs) /\ last \in BatchConfig
  BY DEF ConfigsTypeOK
<1>3. last.startBatchIndex \in Nat /\ last.startBlockNumber \in Nat /\ s \in Nat
  BY <1>2, ConfigFields
<1>4. next.startBatchIndex \in Nat /\ next.startBlockNumber \in Nat
  BY ConfigFields
<1>5. next.startBatchIndex >= last.startBatchIndex
  BY <1>3, <1>4 DEF Seamless
<1>6. CASE i # Len(configs)
  <2>1. last.startBatchIndex > b
    BY <1>1, <1>2, <1>6 DEF IsConfigOf
  <2> QED
    BY <1>3, <1>4, <1>5, <2>1
<1>7. CASE i = Len(configs)
  <2>1. BatchingActive(last) /\ block >= Start(last, b) /\ last.startBatchIndex <= b
    BY <1>1, <1>7 DEF Opened, IsConfigOf
  <2>2. next.startBatchIndex > last.startBatchIndex
        /\ next.startBlockNumber
             = last.startBlockNumber
                 + s * (next.startBatchIndex - last.startBatchIndex)
    BY <2>1 DEF Seamless
  <2>3. next.startBlockNumber >= block + 1 + s
    <3>1. EarliestStart(last) >= block + 1 + s /\ EarliestStart(last) \in Nat
      BY <1>3, Parameters DEF EarliestStart, ConfigsTypeOK
    <3> QED
      BY <1>3, <1>4, <3>1 DEF ConfigsTypeOK
  <2>4. SUFFICES ASSUME next.startBatchIndex <= b PROVE FALSE
    BY <1>4
  <2> DEFINE d == b - last.startBatchIndex
             e == next.startBatchIndex - last.startBatchIndex
  <2>5. d \in Nat /\ e \in Nat /\ e <= d
    BY <1>3, <1>4, <2>1, <2>2, <2>4
  <2>6. Start(last, b) = last.startBlockNumber + (d + 1) * s - s - s
    <3>1. b > last.startBatchIndex
      BY <1>3, <1>4, <2>2, <2>4
    <3>2. Start(last, b) = End(last, b) - s - s
      BY <3>1 DEF Start
    <3>3. End(last, b) = last.startBlockNumber + (d + 1) * s
      BY DEF End
    <3> HIDE DEF s, d
    <3>4. (d + 1) * s \in Nat
      BY <1>3, <2>5, OneMore
    <3> QED
      BY <1>3, <3>2, <3>3, <3>4
  <2>7. (d + 1) * s = d * s + s /\ d * s \in Nat /\ e * s <= d * s /\ e * s \in Nat
    BY <1>3, <2>5, OneMore, ProductMonotone
  <2>8. next.startBlockNumber = last.startBlockNumber + e * s
    <3>1. s * e = e * s
      <4> HIDE DEF s, e
      <4> QED
        BY <1>3, <2>5
    <3> QED
      BY <2>2, <3>1
  <2>9. block \in Nat
    BY DEF ConfigsTypeOK
  <2> HIDE DEF s, d, e
  <2> QED
    BY <1>3, <1>4, <2>1, <2>3, <2>6, <2>7, <2>8, <2>9
<1> QED
  BY <1>6, <1>7

LEMMA ScheduleKeepsConfig ==
    ASSUME ConfigsTypeOK, NEW next \in BatchConfig, scheduleNextConfig(next)
    PROVE  /\ ConfigsTypeOK'
           /\ \A b \in Nat : Opened(b) =>
                 ConfigForBatchIndex(b)' = ConfigForBatchIndex(b)
<1>1. configs \in Seq(BatchConfig) /\ Len(configs) \in Nat /\ Len(configs) > 0
  BY DEF ConfigsTypeOK
<1>2. configs' = Append(configs, next) /\ block' = block
  BY DEF scheduleNextConfig
<1>3. /\ configs' \in Seq(BatchConfig) /\ Len(configs') = Len(configs) + 1
      /\ \A j \in 1..Len(configs) : configs'[j] = configs[j]
      /\ configs'[Len(configs) + 1] = next
  BY <1>1, <1>2
<1>4. ConfigsTypeOK'
  BY <1>1, <1>2, <1>3 DEF ConfigsTypeOK
<1>5. ASSUME NEW b \in Nat, Opened(b)
      PROVE  ConfigForBatchIndex(b)' = ConfigForBatchIndex(b)
  <2> DEFINE i == ConfigIndexIn(configs, b)
  <2>1. next.startBatchIndex > b
    BY <1>5, NextStartsLater DEF scheduleNextConfig
  <2>2. IsConfigOf(i, configs, b)
    BY ConfigOfBatch
  <2>3. i \in 1..Len(configs)
    BY <2>2 DEF IsConfigOf
  <2>4. i \in DOMAIN configs' /\ configs'[i] = configs[i]
    BY <1>1, <1>3, <2>3
  <2>5. \A j \in DOMAIN configs' : j > i => configs'[j].startBatchIndex > b
    <3> SUFFICES ASSUME NEW j \in 1..Len(configs) + 1, j > i
                 PROVE  configs'[j].startBatchIndex > b
      BY <1>1, <1>3
    <3>1. CASE j = Len(configs) + 1
      BY <1>3, <2>1, <3>1
    <3>2. CASE j \in 1..Len(configs)
      BY <1>3, <2>2, <3>2 DEF IsConfigOf
    <3> QED
      BY <1>1, <3>1, <3>2
  <2>6. configs'[ConfigIndexIn(configs', b)] = configs[i]
    BY <1>3, <1>4, <2>4, <2>5, SameConfig DEF ConfigsTypeOK
  <2> QED
    BY <2>6 DEF ConfigForBatchIndex
<1> QED
  BY <1>4, <1>5

(* Only configs are removed that start later than any open batch.          *)
LEMMA UnscheduleKeepsConfig ==
    ASSUME ConfigsTypeOK, NEW from \in Nat, unscheduleConfigs(from)
    PROVE  /\ ConfigsTypeOK'
           /\ \A b \in Nat : Opened(b) =>
                 ConfigForBatchIndex(b)' = ConfigForBatchIndex(b)
<1>1. /\ configs \in Seq(BatchConfig) /\ Len(configs) \in Nat /\ Len(configs) > 0
      /\ block \in Nat
  BY DEF ConfigsTypeOK
<1>2. PICK n \in 1 .. Len(configs) - 1 :
         /\ \A i \in n + 1 .. Len(configs) : configs[i].startBlockNumber >= from
         /\ configs' = SubSeq(configs, 1, n)
  BY DEF unscheduleConfigs
<1>3. /\ configs' \in Seq(BatchConfig) /\ Len(configs') = n
      /\ DOMAIN configs' = 1..n
      /\ \A j \in 1..n : configs'[j] = configs[j]
  BY <1>1, <1>2
<1>4. block' = block
  BY DEF unscheduleConfigs
<1>5. ConfigsTypeOK'
  BY <1>1, <1>2, <1>3, <1>4 DEF ConfigsTypeOK
<1>6. ASSUME NEW b \in Nat, Opened(b)
      PROVE  ConfigForBatchIndex(b)' = ConfigForBatchIndex(b)
  <2> DEFINE i == ConfigIndexIn(configs, b)
             c == ConfigForBatchIndex(b)
  <2>1. IsConfigOf(i, configs, b) /\ c \in BatchConfig /\ c = configs[i]
        /\ c.startBatchIndex <= b
    BY ConfigOfBatch DEF ConfigForBatchIndex
  <2>2. c.startBlockNumber <= block
    <3>1. BatchingActive(c) /\ block >= Start(c, b)
      BY <1>6 DEF Opened
    <3>2. c.startBlockNumber <= Start(c, b) /\ Start(c, b) \in Int
      BY <2>1, <3>1, Boundaries
    <3>3. c.startBlockNumber \in Nat
      BY <2>1, ConfigFields
    <3> QED
      BY <1>1, <3>1, <3>2, <3>3
  <2>3. from > block
    <3>1. from > block + HeadsUp
      BY DEF unscheduleConfigs, NoticeGiven
    <3> QED
      BY <1>1, <3>1, Parameters
  <2>4. i \in 1..n
    <3>1. i \in 1..Len(configs)
      BY <2>1 DEF IsConfigOf
    <3>2. ~(configs[i].startBlockNumber >= from)
      BY <1>1, <2>1, <2>2, <2>3, ConfigFields
    <3> QED
      BY <1>1, <1>2, <3>1, <3>2
  <2>5. \A j \in DOMAIN configs' : j > i => configs'[j].startBatchIndex > b
    BY <1>1, <1>2, <1>3, <2>1 DEF IsConfigOf
  <2>6. configs'[ConfigIndexIn(configs', b)] = configs[i]
    BY <1>1, <1>3, <1>5, <2>4, <2>5, SameConfig DEF ConfigsTypeOK
  <2> QED
    BY <2>6 DEF ConfigForBatchIndex
<1> QED
  BY <1>5, <1>6

(* Every step keeps the config of an open batch and the types of configs.  *)
LEMMA StepKeepsConfig ==
    ASSUME ConfigsTypeOK, [Next]_vars
    PROVE  /\ ConfigsTypeOK'
           /\ block' >= block
           /\ \A b \in Nat : Opened(b) =>
                 ConfigForBatchIndex(b)' = ConfigForBatchIndex(b)
<1> block \in Nat
  BY DEF ConfigsTypeOK
<1>1. CASE UNCHANGED configs /\ block' \in Nat /\ block' >= block
  <2>1. ConfigsTypeOK'
    BY <1>1 DEF ConfigsTypeOK
  <2>2. \A b : ConfigForBatchIndex(b)' = ConfigForBatchIndex(b)
    BY <1>1 DEF ConfigForBatchIndex
  <2> QED
    BY <1>1, <2>1, <2>2
<1>2. CASE \E next \in NextConfigs : scheduleNextConfig(next)
  <2>1. block' = block
    BY <1>2 DEF scheduleNextConfig
  <2> QED
    BY <1>2, <2>1, NextConfigsType, ScheduleKeepsConfig
<1>3. CASE \E from \in 0 .. MaxBlock : unscheduleConfigs(from)
  <2>1. block' = block
    BY <1>3 DEF unscheduleConfigs
  <2>2. PICK from \in Nat : unscheduleConfigs(from)
    BY <1>3, Parameters
  <2> QED
    BY <2>1, <2>2, UnscheduleKeepsConfig
<1>4. CASE NextBlock
  BY <1>1, <1>4 DEF NextBlock
<1>5. CASE \E b \in Batches, type \in TransactionType, tx \in Transactions :
              addTransaction(b, type, tx)
  BY <1>1, <1>5 DEF addTransaction
<1>6. CASE \/ \E a \in Accounts, outcome \in DecryptedHash :
                executeCipherBatch(a, outcome)
           \/ skipCipherExecution
           \/ executePlainBatch
  <2>1. UNCHANGED <<block, configs>>
    BY <1>6 DEF executeCipherBatch, skipCipherExecution, executePlainBatch,
                HalfStepDone
  <2> QED
    BY <1>1, <2>1
<1>7. CASE UNCHANGED batchVars
  BY <1>1, <1>7 DEF batchVars
<1>8. CASE UNCHANGED vars
  BY <1>1, <1>8 DEF vars
<1>9. Next => BatchNext \/ UNCHANGED batchVars
  BY DEF Next, accuse, appeal, slash, deposit, requestWithdrawal, withdraw
<1> QED
  BY <1>2, <1>3, <1>4, <1>5, <1>6, <1>7, <1>8, <1>9 DEF BatchNext

LEMMA InitTypes == Init => ConfigsTypeOK
<1> SUFFICES ASSUME Init PROVE ConfigsTypeOK
  OBVIOUS
<1>1. block = 1 /\ configs = <<ZeroConfig>>
  BY DEF Init, BatchInit
<1>2. ZeroConfig \in BatchConfig /\ ZeroConfig.startBatchIndex = 0
  BY DEF ZeroConfig, Config, BatchConfig, ConfigTerms
<1> QED
  BY <1>1, <1>2 DEF ConfigsTypeOK

(* A batch keeps its config, and with it its boundaries, its keypers and   *)
(* its limits, from the block it opens in (batchBoundaryBlocks): the       *)
(* notice that scheduleNextConfig and unscheduleConfigs ask for suffices,  *)
(* whatever the spans of the batches are.                                  *)
THEOREM OpenBatchesFixed == Spec => BatchFixedOnceOpen
<1>1. ConfigsTypeOK /\ [Next]_vars => ConfigsTypeOK'
  BY StepKeepsConfig
<1>2. ConfigsTypeOK /\ [Next]_vars =>
        [\A b \in Batches :
           LET c == ConfigForBatchIndex(b) IN
           BatchingActive(c) /\ block >= Start(c, b)
              => ConfigForBatchIndex(b)' = c]_vars
  <2>1. Batches \subseteq Nat
    BY Parameters DEF Batches
  <2> QED
    BY <2>1, StepKeepsConfig DEF Opened
<1> QED
  BY <1>1, <1>2, InitTypes, PTL DEF Spec, BatchFixedOnceOpen

-----------------------------------------------------------------------------
(* Half steps are done of closed batches only, and those never change.     *)

LEMMA ClosedStays ==
    ASSUME ConfigsTypeOK, [Next]_vars, NEW b \in Nat, Closed(b)
    PROVE  Closed(b)'
<1> DEFINE c == ConfigForBatchIndex(b)
<1>1. c \in BatchConfig /\ c.startBatchIndex <= b
  BY ConfigOfBatch
<1>2. BatchingActive(c) /\ block >= End(c, b)
  BY DEF Closed
<1>3. Start(c, b) < End(c, b) /\ Start(c, b) \in Int /\ End(c, b) \in Int
  BY <1>1, <1>2, Boundaries
<1>4. block \in Nat /\ block' \in Nat /\ block' >= block
  BY StepKeepsConfig DEF ConfigsTypeOK
<1>5. Opened(b)
  BY <1>2, <1>3, <1>4 DEF Opened
<1>6. ConfigForBatchIndex(b)' = c
  BY <1>5, StepKeepsConfig
<1>7. block' >= End(c, b)
  BY <1>2, <1>3, <1>4
<1> QED
  BY <1>2, <1>6, <1>7 DEF Closed

LEMMA HalfStepArithmetic ==
    ASSUME NEW n \in Nat, NEW b \in Nat
    PROVE  /\ n \div 2 \in Nat
           /\ n % 2 = 0 => n = 2 * (n \div 2)
           /\ n % 2 # 0 => n = 2 * (n \div 2) + 1
           /\ (2 * b) \div 2 = b
OBVIOUS

(* A closed batch gets no further transactions.                            *)
LEMMA NothingAddedOnceClosed ==
    ASSUME IInv, NEW b \in Batches, NEW type \in TransactionType,
           NEW tx \in Transactions, addTransaction(b, type, tx)
    PROVE  ~Closed(b)
<1> DEFINE c == ConfigForBatchIndex(b)
<1>1. b \in Nat /\ c \in BatchConfig /\ c.startBatchIndex <= b
  BY Parameters, ConfigOfBatch DEF Batches, IInv
<1>2. BatchingActive(c) /\ block < End(c, b)
  BY DEF addTransaction, BatchOpen
<1>3. End(c, b) \in Int /\ block \in Nat
  BY <1>1, <1>2, Boundaries DEF IInv, ConfigsTypeOK
<1> QED
  BY <1>2, <1>3 DEF Closed

LEMMA InitInv == Init => IInv
<1> SUFFICES ASSUME Init PROVE IInv
  OBVIOUS
<1>1. /\ numExecutionHalfSteps = 0
      /\ cipherExecutionReceipts = [h \in HalfSteps |-> NoReceipt]
      /\ batchHashes = [b \in Batches |-> [t \in TransactionType |-> ZeroHash]]
  BY DEF Init, BatchInit
<1>2. \A h \in HalfSteps : ~cipherExecutionReceipts[h].executed
  BY <1>1 DEF NoReceipt
<1>3. HalfStepsTypeOK
  BY <1>1, Parameters DEF HalfStepsTypeOK
<1>4. DoneBatchesClosed
  BY <1>1, Parameters DEF DoneBatchesClosed, Batches
<1> QED
  BY <1>2, <1>3, <1>4, InitTypes
     DEF IInv, ReceiptsOfDoneHalfSteps, ReceiptsMatchBatches

(* Steps that are no half steps and add no transaction.                    *)
LEMMA OtherStep ==
    ASSUME IInv, [Next]_vars,
           UNCHANGED <<batchHashes, numExecutionHalfSteps,
                       cipherExecutionReceipts>>
    PROVE  IInv'
<1>1. ConfigsTypeOK'
  BY StepKeepsConfig DEF IInv
<1>2. HalfStepsTypeOK'
  BY DEF IInv, HalfStepsTypeOK
<1>3. DoneBatchesClosed'
  <2> SUFFICES ASSUME NEW b \in Batches, 2 * b < numExecutionHalfSteps
               PROVE  Closed(b)'
    BY DEF DoneBatchesClosed
  <2>1. b \in Nat /\ Closed(b)
    BY Parameters DEF IInv, DoneBatchesClosed, Batches
  <2> QED
    BY <2>1, ClosedStays DEF IInv
<1>4. ReceiptsOfDoneHalfSteps' /\ ReceiptsMatchBatches'
  BY DEF IInv, ReceiptsOfDoneHalfSteps, ReceiptsMatchBatches
<1> QED
  BY <1>1, <1>2, <1>3, <1>4 DEF IInv

LEMMA AddTransactionStep ==
    ASSUME IInv, Next, NEW b \in Batches, NEW type \in TransactionType,
           NEW tx \in Transactions, addTransaction(b, type, tx)
    PROVE  IInv'
<1>1. /\ UNCHANGED <<block, configs, numExecutionHalfSteps,
                     cipherExecutionReceipts>>
      /\ batchHashes' = [batchHashes EXCEPT ![b][type] = Append(@, tx)]
  BY DEF addTransaction
<1>2. ConfigsTypeOK'
  BY <1>1 DEF IInv, ConfigsTypeOK
<1>3. HalfStepsTypeOK'
  BY <1>1 DEF IInv, HalfStepsTypeOK
<1>4. DoneBatchesClosed'
  BY <1>1 DEF IInv, DoneBatchesClosed, Closed, ConfigForBatchIndex
<1>5. ReceiptsOfDoneHalfSteps'
  BY <1>1 DEF IInv, ReceiptsOfDoneHalfSteps
<1>6. ReceiptsMatchBatches'
  <2> SUFFICES ASSUME NEW h \in HalfSteps, cipherExecutionReceipts[h].executed
               PROVE  cipherExecutionReceipts[h].cipherBatchHash
                        = batchHashes'[h \div 2]["Cipher"]
    BY <1>1 DEF ReceiptsMatchBatches
  <2>1. PICK d \in Batches : h = 2 * d
    BY DEF HalfSteps
  <2>2. d \in Nat /\ h \div 2 = d
    BY <2>1, Parameters, HalfStepArithmetic DEF Batches
  <2>3. Closed(d)
    BY <2>1 DEF IInv, ReceiptsOfDoneHalfSteps, DoneBatchesClosed
  <2>4. d # b
    BY <2>3, NothingAddedOnceClosed
  <2>5. batchHashes'[d] = batchHashes[d]
    BY <1>1, <2>4 DEF IInv, HalfStepsTypeOK
  <2> QED
    BY <2>2, <2>5 DEF IInv, ReceiptsMatchBatches
<1> QED
  BY <1>2, <1>3, <1>4, <1>5, <1>6 DEF IInv

(* The half step that has just been done was one of a closed batch.        *)
LEMMA HalfStepClosed ==
    ASSUME IInv, HalfStepDone, CurrentBatch \in Batches, Closed(CurrentBatch)
    PROVE  ConfigsTypeOK' /\ DoneBatchesClosed'
<1>1. /\ numExecutionHalfSteps' = numExecutionHalfSteps + 1
      /\ UNCHANGED <<block, configs, batchHashes>>
      /\ numExecutionHalfSteps \in Nat
  BY DEF HalfStepDone, IInv, HalfStepsTypeOK
<1>2. ConfigsTypeOK'
  BY <1>1 DEF IInv, ConfigsTypeOK
<1>3. DoneBatchesClosed'
  <2> SUFFICES ASSUME NEW b \in Batches, 2 * b < numExecutionHalfSteps + 1
               PROVE  Closed(b)
    BY <1>1 DEF DoneBatchesClosed, Closed, ConfigForBatchIndex
  <2>1. b \in Nat
    BY Parameters DEF Batches
  <2>2. CASE 2 * b < numExecutionHalfSteps
    BY <2>2 DEF IInv, DoneBatchesClosed
  <2>3. CASE 2 * b = numExecutionHalfSteps
    BY <2>1, <2>3, HalfStepArithmetic DEF CurrentBatch
  <2> QED
    BY <1>1, <2>1, <2>2, <2>3
<1> QED
  BY <1>2, <1>3 DEF IInv

LEMMA HalfStepTypes ==
    ASSUME IInv, HalfStepDone, CurrentBatch \in Batches,
           DOMAIN cipherExecutionReceipts' = HalfSteps
    PROVE  HalfStepsTypeOK'
<1>1. /\ numExecutionHalfSteps' = numExecutionHalfSteps + 1
      /\ batchHashes' = batchHashes
      /\ numExecutionHalfSteps \in Nat
  BY DEF HalfStepDone, IInv, HalfStepsTypeOK
<1>2. CurrentBatch \in Nat /\ CurrentBatch <= MaxBatch
  BY Parameters DEF Batches
<1>3. numExecutionHalfSteps <= 2 * CurrentBatch + 1
  BY <1>1, HalfStepArithmetic DEF CurrentBatch
<1>4. numExecutionHalfSteps' <= 2 * MaxBatch + 2
  BY <1>1, <1>2, <1>3, Parameters
<1> QED
  BY <1>1, <1>4 DEF IInv, HalfStepsTypeOK

LEMMA ExecuteCipherBatchStep ==
    ASSUME IInv, NEW a \in Accounts, NEW outcome \in DecryptedHash,
           executeCipherBatch(a, outcome)
    PROVE  IInv'
<1> DEFINE n == numExecutionHalfSteps
           b == CurrentBatch
<1>1. /\ HalfStepDone /\ CipherTurn /\ b \in Batches
      /\ BatchingActive(ConfigForBatchIndex(b))
      /\ block >= End(ConfigForBatchIndex(b), b)
  BY DEF executeCipherBatch
<1>2. /\ n' = n + 1 /\ batchHashes' = batchHashes /\ n \in Nat
      /\ DOMAIN cipherExecutionReceipts = HalfSteps
  BY <1>1 DEF HalfStepDone, IInv, HalfStepsTypeOK
<1>3. \E r : /\ cipherExecutionReceipts'
                   = [cipherExecutionReceipts EXCEPT ![n] = r]
             /\ r.cipherBatchHash = batchHashes[b]["Cipher"]
  <2> DEFINE hash == batchHashes[b]["Cipher"]
             receipt ==
               [executed |-> TRUE, executor |-> a, cipherBatchHash |-> hash,
                batchHash |-> IF hash = ZeroHash THEN "Empty" ELSE outcome]
  <2>1. cipherExecutionReceipts'
          = [cipherExecutionReceipts EXCEPT ![n] = receipt]
    BY DEF executeCipherBatch
  <2>2. receipt.cipherBatchHash = batchHashes[b]["Cipher"]
    OBVIOUS
  <2> HIDE DEF receipt
  <2> QED
    BY <2>1, <2>2
<1>4. Closed(b)
  BY <1>1 DEF Closed
<1>5. ConfigsTypeOK' /\ DoneBatchesClosed'
  BY <1>1, <1>4, HalfStepClosed
<1>6. HalfStepsTypeOK'
  BY <1>1, <1>2, <1>3, HalfStepTypes
<1>7. b = n \div 2
  BY DEF CurrentBatch
<1>8. \A h \in HalfSteps : h \in Nat
  BY Parameters DEF HalfSteps, Batches
<1>9. ReceiptsOfDoneHalfSteps'
  BY <1>2, <1>3, <1>8 DEF IInv, ReceiptsOfDoneHalfSteps
<1>10. ReceiptsMatchBatches'
  <2> SUFFICES ASSUME NEW h \in HalfSteps, cipherExecutionReceipts'[h].executed
               PROVE  cipherExecutionReceipts'[h].cipherBatchHash
                        = batchHashes[h \div 2]["Cipher"]
    BY <1>2 DEF ReceiptsMatchBatches
  <2>1. CASE h = n
    BY <1>2, <1>3, <1>7, <2>1
  <2>2. CASE h # n
    BY <1>2, <1>3, <2>2 DEF IInv, ReceiptsMatchBatches
  <2> QED
    BY <2>1, <2>2
<1> QED
  BY <1>5, <1>6, <1>9, <1>10 DEF IInv

(* A half step that leaves no receipt: a skipped or a plain one.           *)
LEMMA HalfStepWithoutReceipt ==
    ASSUME IInv, HalfStepDone, CurrentBatch \in Batches, Closed(CurrentBatch),
           UNCHANGED cipherExecutionReceipts
    PROVE  IInv'
<1>1. ConfigsTypeOK' /\ DoneBatchesClosed'
  BY HalfStepClosed
<1>2. HalfStepsTypeOK'
  BY HalfStepTypes DEF IInv, HalfStepsTypeOK
<1>3. /\ numExecutionHalfSteps' = numExecutionHalfSteps + 1
      /\ batchHashes' = batchHashes /\ numExecutionHalfSteps \in Nat
  BY DEF HalfStepDone, IInv, HalfStepsTypeOK
<1>4. \A h \in HalfSteps : h \in Nat
  BY Parameters DEF HalfSteps, Batches
<1>5. ReceiptsOfDoneHalfSteps'
  BY <1>3, <1>4 DEF IInv, ReceiptsOfDoneHalfSteps
<1>6. ReceiptsMatchBatches'
  BY <1>3 DEF IInv, ReceiptsMatchBatches
<1> QED
  BY <1>1, <1>2, <1>5, <1>6 DEF IInv

LEMMA SkipCipherExecutionStep ==
    ASSUME IInv, skipCipherExecution
    PROVE  IInv'
<1> DEFINE b == CurrentBatch
           c == ConfigForBatchIndex(b)
<1>1. /\ HalfStepDone /\ b \in Batches /\ BatchingActive(c)
      /\ block >= Timeout(c, b) /\ UNCHANGED cipherExecutionReceipts
  BY DEF skipCipherExecution
<1>2. b \in Nat /\ c \in BatchConfig /\ c.startBatchIndex <= b
  BY <1>1, Parameters, ConfigOfBatch DEF Batches, IInv
<1>3. End(c, b) \in Int /\ c.terms.executionTimeout \in Nat /\ block \in Nat
  BY <1>1, <1>2, Boundaries, ConfigFields DEF IInv, ConfigsTypeOK
<1>4. block >= End(c, b)
  BY <1>1, <1>3 DEF Timeout
<1>5. Closed(b)
  BY <1>1, <1>4 DEF Closed
<1> QED
  BY <1>1, <1>5, HalfStepWithoutReceipt

(* The asserts of executePlainBatch never fail.                            *)
LEMMA PlainTurn ==
    ASSUME IInv, ~CipherTurn
    PROVE  CurrentBatch \in Batches /\ Closed(CurrentBatch)
<1> DEFINE n == numExecutionHalfSteps
<1>1. n \in Nat /\ n <= 2 * MaxBatch + 2 /\ n % 2 # 0 /\ CurrentBatch = n \div 2
  BY DEF IInv, HalfStepsTypeOK, CipherTurn, CurrentBatch
<1>2. CurrentBatch \in Nat /\ n = 2 * CurrentBatch + 1
  BY <1>1, HalfStepArithmetic
<1>3. CurrentBatch \in Batches /\ 2 * CurrentBatch < n
  BY <1>1, <1>2, Parameters DEF Batches
<1> QED
  BY <1>3 DEF IInv, DoneBatchesClosed

LEMMA StepInv == IInv /\ [Next]_vars => IInv'
<1> SUFFICES ASSUME IInv, [Next]_vars PROVE IInv'
  OBVIOUS
<1>1. CASE NextBlock
  BY <1>1, OtherStep DEF NextBlock
<1>2. CASE \E next \in NextConfigs : scheduleNextConfig(next)
  BY <1>2, OtherStep DEF scheduleNextConfig
<1>3. CASE \E from \in 0 .. MaxBlock : unscheduleConfigs(from)
  BY <1>3, OtherStep DEF unscheduleConfigs
<1>4. ASSUME NEW b \in Batches, NEW type \in TransactionType,
             NEW tx \in Transactions, addTransaction(b, type, tx), Next
      PROVE  IInv'
  BY <1>4, AddTransactionStep
<1>5. CASE \E a \in Accounts, outcome \in DecryptedHash :
              executeCipherBatch(a, outcome)
  BY <1>5, ExecuteCipherBatchStep
<1>6. CASE skipCipherExecution
  BY <1>6, SkipCipherExecutionStep
<1>7. CASE executePlainBatch
  <2>1. ~CipherTurn /\ HalfStepDone /\ UNCHANGED cipherExecutionReceipts
    BY <1>7 DEF executePlainBatch
  <2> QED
    BY <2>1, PlainTurn, HalfStepWithoutReceipt
<1>8. CASE UNCHANGED batchVars
  BY <1>8, OtherStep DEF batchVars
<1>9. CASE UNCHANGED vars
  BY <1>9, OtherStep DEF vars
<1>10. Next => BatchNext \/ UNCHANGED batchVars
  BY DEF Next, accuse, appeal, slash, deposit, requestWithdrawal, withdraw
<1>11. CASE Next /\ BatchNext
  BY <1>1, <1>2, <1>3, <1>4, <1>5, <1>6, <1>7, <1>11 DEF BatchNext
<1> QED
  BY <1>8, <1>9, <1>10, <1>11

(* The inductive invariant.  A half step is only executed once its batch   *)
(* is closed (executeCipherBatch, skipCipherExecution), a closed batch was *)
(* opened, and opened batches keep their config (OpenBatchesFixed), so     *)
(* nothing a receipt or a half step relies on changes later.               *)
THEOREM Invariance == Spec => []IInv
BY InitInv, StepInv, PTL DEF Spec

(* executePlainBatch asserts that the batch is active and closed: both     *)
(* were checked for the cipher half step, and no config change since can   *)
(* have made them false.                                                   *)
THEOREM PlainAssertsNeverFail == Spec => []PlainAssertsHold
<1>1. IInv => PlainAssertsHold
  BY PlainTurn DEF PlainAssertsHold, Closed
<1> QED
  BY <1>1, Invariance, PTL

(* addTransaction refuses closed batches and executeCipherBatch open ones, *)
(* so the hash in a receipt stays the hash of the batch.                   *)
THEOREM ReceiptsStayTrue == Spec => []ReceiptsMatchBatches
<1>1. IInv => ReceiptsMatchBatches
  BY DEF IInv
<1> QED
  BY <1>1, Invariance, PTL

-----------------------------------------------------------------------------
(* Deposits and accusations.                                               *)

Deposit == [amount : Nat, withdrawalDelayBlocks : Nat,
            withdrawalRequestedBlock : Nat, slashed : BOOLEAN]

Accusation == [accused : {TRUE}, appealed : BOOLEAN, slashed : BOOLEAN,
               executor : Accounts, blockNumber : Nat]

SlashingTypeOK ==
    /\ deposits \in [Accounts -> Deposit]
    /\ accusations \in [HalfSteps -> {NoAccusation} \cup Accusation]
    /\ \A h \in HalfSteps :
         cipherExecutionReceipts[h].executed =>
            cipherExecutionReceipts[h].executor \in Accounts

SlashInv == SlashingTypeOK /\ SlashedForGood

LEMMA SlashingParameters ==
    /\ AppealBlocks \in Nat /\ Depositors \subseteq Accounts
    /\ Delays \subseteq Nat /\ MaxDeposit \in Nat
BY SlashingAssumption

LEMMA NoDepositType == NoDeposit \in Deposit /\ ~NoDeposit.slashed
BY DEF NoDeposit, Deposit

(* A deposit that changes without the slashed mark changing.               *)
LEMMA DepositChange ==
    ASSUME SlashInv, NEW a \in Accounts, NEW d \in Deposit,
           ~deposits[a].slashed, ~d.slashed,
           deposits' = [deposits EXCEPT ![a] = d],
           UNCHANGED <<batchVars, accusations>>
    PROVE  SlashInv'
<1>1. /\ cipherExecutionReceipts' = cipherExecutionReceipts
      /\ deposits \in [Accounts -> Deposit]
  BY DEF batchVars, SlashInv, SlashingTypeOK
<1>2. deposits' \in [Accounts -> Deposit]
  BY <1>1
<1>3. \A x \in Accounts : /\ x = a => deposits'[x] = d
                          /\ x # a => deposits'[x] = deposits[x]
  BY <1>1
<1>4. SlashingTypeOK'
  BY <1>1, <1>2 DEF SlashInv, SlashingTypeOK
<1>5. \A x \in Accounts : /\ deposits'[x].slashed <=> deposits[x].slashed
                          /\ deposits[x].slashed => deposits'[x] = deposits[x]
  BY <1>3
<1>6. SlashedForGood'
  BY <1>5 DEF SlashInv, SlashedForGood
<1> QED
  BY <1>4, <1>6 DEF SlashInv

LEMMA DepositUpdate ==
    ASSUME NEW e \in Deposit, NEW n \in Nat, NEW delay \in Nat
    PROVE  LET d == [e EXCEPT !.amount = n, !.withdrawalDelayBlocks = delay]
           IN  d \in Deposit /\ d.slashed = e.slashed
BY DEF Deposit

LEMMA DepositStep ==
    ASSUME SlashInv, NEW a \in Depositors, NEW amount \in 1 .. MaxDeposit,
           NEW delay \in Delays, deposit(a, amount, delay)
    PROVE  SlashInv'
<1> DEFINE d == [deposits[a] EXCEPT !.amount = @ + amount,
                                    !.withdrawalDelayBlocks = delay]
<1>1. a \in Accounts /\ amount \in Nat /\ delay \in Nat
  BY SlashingParameters
<1>2. deposits[a] \in Deposit /\ deposits \in [Accounts -> Deposit]
  BY <1>1 DEF SlashInv, SlashingTypeOK
<1>3. d \in Deposit /\ d.slashed = deposits[a].slashed
  <2>1. deposits[a].amount + amount \in Nat
    BY <1>1, <1>2 DEF Deposit
  <2> QED
    BY <1>1, <1>2, <2>1, DepositUpdate
<1>4. ~deposits[a].slashed /\ UNCHANGED <<batchVars, accusations>>
  BY DEF deposit, MayDeposit
<1>5. deposits' = [deposits EXCEPT ![a] = d]
  BY <1>1, <1>2 DEF deposit
<1> HIDE DEF d
<1> QED
  BY <1>1, <1>3, <1>4, <1>5, DepositChange

LEMMA RequestWithdrawalStep ==
    ASSUME SlashInv, block \in Nat, NEW a \in Depositors, requestWithdrawal(a)
    PROVE  SlashInv'
<1> DEFINE d == [deposits[a] EXCEPT !.withdrawalRequestedBlock = block]
<1>1. a \in Accounts
  BY SlashingParameters
<1>2. deposits[a] \in Deposit /\ deposits \in [Accounts -> Deposit]
  BY <1>1 DEF SlashInv, SlashingTypeOK
<1>3. d \in Deposit /\ d.slashed = deposits[a].slashed
  BY <1>2 DEF Deposit
<1>4. ~deposits[a].slashed /\ UNCHANGED <<batchVars, accusations>>
  BY DEF requestWithdrawal
<1>5. deposits' = [deposits EXCEPT ![a] = d]
  BY <1>1, <1>2 DEF requestWithdrawal
<1> HIDE DEF d
<1> QED
  BY <1>1, <1>3, <1>4, <1>5, DepositChange

LEMMA WithdrawStep ==
    ASSUME SlashInv, NEW a \in Depositors, withdraw(a)
    PROVE  SlashInv'
<1>1. a \in Accounts
  BY SlashingParameters
<1> QED
  BY <1>1, NoDepositType, DepositChange DEF withdraw

(* An accusation that changes without its end changing.                    *)
LEMMA AccusationChange ==
    ASSUME SlashInv, NEW h \in HalfSteps, NEW acc \in Accusation,
           accusations' = [accusations EXCEPT ![h] = acc],
           acc.slashed = accusations[h].slashed,
           acc.slashed => acc.executor = accusations[h].executor,
           UNCHANGED <<batchVars, deposits>>
    PROVE  SlashInv'
<1>1. /\ cipherExecutionReceipts' = cipherExecutionReceipts
      /\ accusations \in [HalfSteps -> {NoAccusation} \cup Accusation]
  BY DEF batchVars, SlashInv, SlashingTypeOK
<1>2. SlashingTypeOK'
  BY <1>1 DEF SlashInv, SlashingTypeOK
<1>3. \A g \in HalfSteps :
         /\ accusations'[g].slashed = accusations[g].slashed
         /\ accusations[g].slashed =>
               accusations'[g].executor = accusations[g].executor
  BY <1>1
<1>4. SlashedForGood'
  BY <1>3 DEF SlashInv, SlashedForGood
<1> QED
  BY <1>2, <1>4 DEF SlashInv

LEMMA AccuseStep ==
    ASSUME SlashInv, block \in Nat, NEW h \in HalfSteps, NEW a \in Accounts,
           accuse(h, a)
    PROVE  SlashInv'
<1> DEFINE acc == [accused |-> TRUE, appealed |-> FALSE, slashed |-> FALSE,
                   executor |-> cipherExecutionReceipts[h].executor,
                   blockNumber |-> block]
<1>1. /\ accusations' = [accusations EXCEPT ![h] = acc]
      /\ UNCHANGED <<batchVars, deposits>>
      /\ ~accusations[h].accused
      /\ cipherExecutionReceipts[h].executed
  BY DEF accuse
<1>2. acc \in Accusation /\ acc.slashed = FALSE
  BY <1>1 DEF SlashInv, SlashingTypeOK, Accusation
<1>3. accusations[h] = NoAccusation
  BY <1>1 DEF SlashInv, SlashingTypeOK, Accusation
<1>4. accusations[h].slashed = FALSE
  BY <1>3 DEF NoAccusation
<1> HIDE DEF acc
<1> QED
  BY <1>1, <1>2, <1>4, AccusationChange

LEMMA AppealStep ==
    ASSUME SlashInv, NEW h \in HalfSteps, appeal(h)
    PROVE  SlashInv'
<1> DEFINE acc == [accusations[h] EXCEPT !.appealed = TRUE]
<1>1. accusations \in [HalfSteps -> {NoAccusation} \cup Accusation]
  BY DEF SlashInv, SlashingTypeOK
<1>2. accusations[h] \in Accusation
  BY <1>1 DEF appeal, NoAccusation
<1>3. /\ acc \in Accusation /\ acc.slashed = accusations[h].slashed
      /\ acc.executor = accusations[h].executor
  BY <1>2 DEF Accusation
<1>4. /\ accusations' = [accusations EXCEPT ![h] = acc]
      /\ UNCHANGED <<batchVars, deposits>>
  BY <1>1 DEF appeal
<1> HIDE DEF acc
<1> QED
  BY <1>3, <1>4, AccusationChange

LEMMA SlashStep ==
    ASSUME SlashInv, NEW h \in HalfSteps, slash(h)
    PROVE  SlashInv'
<1> DEFINE acc  == [accusations[h] EXCEPT !.slashed = TRUE]
           ex   == accusations[h].executor
           lost == [NoDeposit EXCEPT !.slashed = TRUE]
<1>1. /\ accusations \in [HalfSteps -> {NoAccusation} \cup Accusation]
      /\ deposits \in [Accounts -> Deposit]
  BY DEF SlashInv, SlashingTypeOK
<1>2. accusations[h] \in Accusation /\ ex \in Accounts
  <2>1. accusations[h] \in Accusation
    BY <1>1 DEF slash, NoAccusation
  <2> QED
    BY <2>1 DEF Accusation
<1>3. acc \in Accusation /\ acc.slashed = TRUE /\ acc.executor = ex
  BY <1>2 DEF Accusation
<1>4. lost \in Deposit /\ lost.slashed = TRUE /\ lost.amount = 0
  BY DEF NoDeposit, Deposit
<1>5. /\ accusations' = [accusations EXCEPT ![h] = acc]
      /\ deposits' = [deposits EXCEPT ![ex] = lost]
      /\ cipherExecutionReceipts' = cipherExecutionReceipts
      /\ accusations[h].slashed = FALSE
  BY <1>1, <1>2 DEF slash, batchVars, Accusation
<1> HIDE DEF acc, lost
<1>6. SlashingTypeOK'
  BY <1>1, <1>2, <1>3, <1>4, <1>5 DEF SlashInv, SlashingTypeOK
<1>7. SlashedForGood'
  <2> SUFFICES ASSUME NEW a \in Accounts
               PROVE  /\ deposits'[a].slashed <=>
                           \E g \in HalfSteps : /\ accusations'[g].slashed
                                                /\ accusations'[g].executor = a
                      /\ deposits'[a].slashed => deposits'[a].amount = 0
    BY DEF SlashedForGood
  <2>1. accusations'[h] = acc
    BY <1>1, <1>5
  <2>2. \A g \in HalfSteps : g # h => accusations'[g] = accusations[g]
    BY <1>1, <1>5
  <2>3. CASE a = ex
    <3>1. deposits'[a] = lost
      BY <1>1, <1>5, <2>3
    <3> QED
      BY <1>3, <1>4, <2>1, <2>3, <3>1
  <2>4. CASE a # ex
    <3>1. deposits'[a] = deposits[a]
      BY <1>1, <1>5, <2>4
    <3>2. \A g \in HalfSteps :
             (accusations'[g].slashed /\ accusations'[g].executor = a)
                <=> (accusations[g].slashed /\ accusations[g].executor = a)
      BY <1>3, <2>1, <2>2, <2>4
    <3> QED
      BY <3>1, <3>2 DEF SlashInv, SlashedForGood
  <2> QED
    BY <2>3, <2>4
<1> QED
  BY <1>6, <1>7 DEF SlashInv

LEMMA BatchStep ==
    ASSUME IInv, SlashInv, BatchNext, UNCHANGED <<accusations, deposits>>
    PROVE  SlashInv'
<1>1. SlashedForGood'
  BY DEF SlashInv, SlashedForGood
<1>2. \A h \in HalfSteps : cipherExecutionReceipts'[h].executed =>
                             cipherExecutionReceipts'[h].executor \in Accounts
  <2>1. CASE UNCHANGED cipherExecutionReceipts
    BY <2>1 DEF SlashInv, SlashingTypeOK
  <2>2. ASSUME NEW a \in Accounts, NEW outcome \in DecryptedHash,
               executeCipherBatch(a, outcome), NEW h \in HalfSteps,
               cipherExecutionReceipts'[h].executed
        PROVE  cipherExecutionReceipts'[h].executor \in Accounts
    <3> DEFINE hash == batchHashes[CurrentBatch]["Cipher"]
               receipt ==
                 [executed |-> TRUE, executor |-> a, cipherBatchHash |-> hash,
                  batchHash |-> IF hash = ZeroHash THEN "Empty" ELSE outcome]
    <3>1. cipherExecutionReceipts'
            = [cipherExecutionReceipts EXCEPT ![numExecutionHalfSteps] = receipt]
      BY <2>2 DEF executeCipherBatch
    <3>2. receipt.executor = a
      OBVIOUS
    <3>3. DOMAIN cipherExecutionReceipts = HalfSteps
      BY DEF IInv, HalfStepsTypeOK
    <3> HIDE DEF receipt
    <3>4. CASE h = numExecutionHalfSteps
      BY <3>1, <3>2, <3>3, <3>4
    <3>5. CASE h # numExecutionHalfSteps
      <4>1. cipherExecutionReceipts'[h] = cipherExecutionReceipts[h]
        BY <3>1, <3>3, <3>5
      <4> QED
        BY <2>2, <4>1 DEF SlashInv, SlashingTypeOK
    <3> QED
      BY <3>4, <3>5
  <2>3. \/ UNCHANGED cipherExecutionReceipts
        \/ \E a \in Accounts, outcome \in DecryptedHash :
             executeCipherBatch(a, outcome)
    BY DEF BatchNext, NextBlock, scheduleNextConfig, unscheduleConfigs,
           addTransaction, skipCipherExecution, executePlainBatch
  <2> QED
    BY <2>1, <2>2, <2>3
<1>3. SlashingTypeOK'
  BY <1>2 DEF SlashInv, SlashingTypeOK
<1> QED
  BY <1>1, <1>3 DEF SlashInv

LEMMA SlashingStep == IInv /\ SlashInv /\ [Next]_vars => SlashInv'
<1> SUFFICES ASSUME IInv, SlashInv, [Next]_vars PROVE SlashInv'
  OBVIOUS
<1>1. block \in Nat
  BY DEF IInv, ConfigsTypeOK
<1>2. CASE UNCHANGED vars
  BY <1>2 DEF vars, SlashInv, SlashingTypeOK, SlashedForGood
<1> QED
  BY <1>1, <1>2, BatchStep, AccuseStep, AppealStep, SlashStep, DepositStep,
     RequestWithdrawalStep, WithdrawStep DEF Next

LEMMA SlashingInit == Init => SlashInv
<1> SUFFICES ASSUME Init PROVE SlashInv
  OBVIOUS
<1>1. /\ accusations = [h \in HalfSteps |-> NoAccusation]
      /\ deposits = [a \in Accounts |-> NoDeposit]
      /\ cipherExecutionReceipts = [h \in HalfSteps |-> NoReceipt]
  BY DEF Init, BatchInit
<1>2. \A h \in HalfSteps : ~accusations[h].slashed
  BY <1>1 DEF NoAccusation
<1>3. \A h \in HalfSteps : ~cipherExecutionReceipts[h].executed
  BY <1>1 DEF NoReceipt
<1> QED
  BY <1>1, <1>2, <1>3, NoDepositType
     DEF SlashInv, SlashingTypeOK, SlashedForGood

(* The types of the deposits and accusations, and SlashedForGood, which is *)
(* inductive given the types: deposit and requestWithdrawal refuse the     *)
(* slashed, and slash is called once per accusation.                       *)
THEOREM SlashingInvariance == Spec => []SlashInv
BY InitInv, StepInv, SlashingInit, SlashingStep, PTL DEF Spec

(* Slashing (DepositContract.slash) is final: no deposit, withdrawal or    *)
(* further accusation takes the mark away, and the asserts of              *)
(* requestWithdrawal and withdraw never fail.                              *)
THEOREM SlashedStaySlashed == Spec => []SlashedForGood
BY SlashingInvariance, PTL DEF SlashInv

(* withdraw compares the block with that of the request and the delay,     *)
(* slash with that of the accusation and the appeal period.  So who did    *)
(* not ask for the withdrawal before the accusation cannot withdraw while  *)
(* an appeal is awaited, given a delay not below the appeal period.        *)
THEOREM DepositsHeld == Spec => DepositHeldForAppeal
<1>1. IInv /\ SlashInv /\ [Next]_vars =>
        [\A a \in Depositors, h \in HalfSteps :
           LET d == deposits[a]
               accusation == accusations[h]
           IN
           /\ d.amount > 0 /\ deposits'[a] = NoDeposit
           /\ d.withdrawalDelayBlocks >= AppealBlocks
           /\ accusation.accused /\ accusation.executor = a
           /\ block < accusation.blockNumber + AppealBlocks
           => d.withdrawalRequestedBlock < accusation.blockNumber]_vars
  <2> SUFFICES ASSUME IInv, SlashInv, Next,
                      NEW a \in Depositors, NEW h \in HalfSteps,
                      deposits[a].amount > 0, deposits'[a] = NoDeposit,
                      deposits[a].withdrawalDelayBlocks >= AppealBlocks,
                      accusations[h].accused,
                      block < accusations[h].blockNumber + AppealBlocks
               PROVE  deposits[a].withdrawalRequestedBlock
                        < accusations[h].blockNumber
    OBVIOUS
  <2>1. /\ a \in Accounts /\ deposits \in [Accounts -> Deposit]
        /\ accusations \in [HalfSteps -> {NoAccusation} \cup Accusation]
        /\ block \in Nat /\ AppealBlocks \in Nat
    BY SlashingParameters DEF SlashInv, SlashingTypeOK, IInv, ConfigsTypeOK
  <2>2. /\ deposits[a].amount \in Nat
        /\ deposits[a].withdrawalDelayBlocks \in Nat
        /\ deposits[a].withdrawalRequestedBlock \in Nat
    BY <2>1 DEF Deposit
  <2>3. accusations[h].blockNumber \in Nat
    <3>1. accusations[h] \in Accusation
      BY <2>1 DEF NoAccusation
    <3> QED
      BY <3>1 DEF Accusation
  <2>4. deposits'[a].amount = 0 /\ ~deposits'[a].slashed
    BY DEF NoDeposit
  <2>5. deposits' # deposits
    BY <2>2, <2>4
  <2>6. \A x \in Depositors, amount \in 1 .. MaxDeposit, delay \in Delays :
           ~deposit(x, amount, delay)
    <3> SUFFICES ASSUME NEW x \in Depositors, NEW amount \in 1 .. MaxDeposit,
                        NEW delay \in Delays, deposit(x, amount, delay)
                 PROVE  FALSE
      OBVIOUS
    <3>1. deposits' = [deposits EXCEPT ![x].amount = @ + amount,
                                       ![x].withdrawalDelayBlocks = delay]
      BY DEF deposit
    <3>2. amount \in Nat /\ amount > 0 /\ x \in Accounts
      BY SlashingParameters
    <3>3. CASE x = a
      <4>1. deposits'[a].amount = deposits[a].amount + amount
        BY <2>1, <3>1, <3>3 DEF Deposit
      <4> QED
        BY <2>2, <2>4, <3>2, <4>1
    <3>4. CASE x # a
      BY <2>1, <2>2, <2>4, <3>1, <3>4
    <3> QED
      BY <3>3, <3>4
  <2>7. \A x \in Depositors : ~requestWithdrawal(x)
    <3> SUFFICES ASSUME NEW x \in Depositors, requestWithdrawal(x) PROVE FALSE
      OBVIOUS
    <3>1. deposits' = [deposits EXCEPT ![x].withdrawalRequestedBlock = block]
      BY DEF requestWithdrawal
    <3>2. deposits'[a].amount = deposits[a].amount
      BY <2>1, <3>1 DEF Deposit
    <3> QED
      BY <2>2, <2>4, <3>2
  <2>8. \A g \in HalfSteps : ~slash(g)
    <3> SUFFICES ASSUME NEW g \in HalfSteps, slash(g) PROVE FALSE
      OBVIOUS
    <3> DEFINE lost == [NoDeposit EXCEPT !.slashed = TRUE]
    <3>1. deposits' = [deposits EXCEPT ![accusations[g].executor] = lost]
      BY DEF slash
    <3>2. lost.slashed = TRUE
      BY DEF NoDeposit
    <3> HIDE DEF lost
    <3>3. deposits'[a] = lost \/ deposits'[a] = deposits[a]
      BY <2>1, <3>1
    <3> QED
      BY <2>2, <2>4, <3>2, <3>3
  <2>9. PICK x \in Depositors : withdraw(x)
    BY <2>5, <2>6, <2>7, <2>8 DEF Next, accuse, appeal
  <2>10. x = a
    <3>1. deposits' = [deposits EXCEPT ![x] = NoDeposit]
      BY <2>9 DEF withdraw
    <3>2. x # a => deposits'[a] = deposits[a]
      BY <2>1, <3>1
    <3> QED
      BY <2>2, <2>4, <3>2
  <2>11. block >= deposits[a].withdrawalRequestedBlock
                    + deposits[a].withdrawalDelayBlocks
    BY <2>9, <2>10 DEF withdraw, DelayPassed
  <2> QED
    BY <2>1, <2>2, <2>3, <2>11
<1> QED
  BY <1>1, Invariance, SlashingInvariance, PTL DEF Spec, DepositHeldForAppeal

-----------------------------------------------------------------------------
(* Appeals.                                                                *)

ConfigsOfTerms ==
    \A i \in DOMAIN configs :
       configs[i] = ZeroConfig \/ configs[i].terms \in Terms

AccusedWhenExecuted ==
    \A h \in HalfSteps :
       /\ accusations[h].accused => cipherExecutionReceipts[h].executed
       /\ accusations[h].appealed => accusations[h].accused

AppealInv ==
    ConfigsOfTerms /\ AccusedWhenExecuted /\ OnlyRightDecryptionsAppealed

LEMMA ConfigsOfTermsStep ==
    ASSUME IInv, ConfigsOfTerms, [Next]_vars
    PROVE  ConfigsOfTerms'
<1>1. configs \in Seq(BatchConfig) /\ Len(configs) \in Nat
  BY DEF IInv, ConfigsTypeOK
<1>2. CASE UNCHANGED configs
  BY <1>2 DEF ConfigsOfTerms
<1>3. ASSUME NEW next \in NextConfigs, scheduleNextConfig(next)
      PROVE  ConfigsOfTerms'
  <2>1. next.terms \in Terms
    BY DEF NextConfigs, Config
  <2>2. configs' = Append(configs, next)
    BY <1>3 DEF scheduleNextConfig
  <2>3. \A i \in DOMAIN configs' :
           (i \in DOMAIN configs /\ configs'[i] = configs[i]) \/ configs'[i] = next
    BY <1>1, <2>2
  <2> QED
    BY <2>1, <2>3 DEF ConfigsOfTerms
<1>4. ASSUME NEW from \in 0 .. MaxBlock, unscheduleConfigs(from)
      PROVE  ConfigsOfTerms'
  <2>1. PICK n \in 1 .. Len(configs) - 1 : configs' = SubSeq(configs, 1, n)
    BY <1>4 DEF unscheduleConfigs
  <2>2. \A i \in DOMAIN configs' :
           i \in DOMAIN configs /\ configs'[i] = configs[i]
    BY <1>1, <2>1
  <2> QED
    BY <2>2 DEF ConfigsOfTerms
<1> QED
  BY <1>2, <1>3, <1>4
     DEF Next, BatchNext, NextBlock, addTransaction, executeCipherBatch,
         skipCipherExecution, executePlainBatch, HalfStepDone, accuse, appeal,
         slash, deposit, requestWithdrawal, withdraw, batchVars, vars

(* Enough signatures include one of a keyper that is not faulty.           *)
LEMMA AuthorizedIsRight ==
    ASSUME IInv, ConfigsOfTerms, NEW h \in HalfSteps,
           cipherExecutionReceipts[h].executed,
           NEW signers \in
              SUBSET DOMAIN ConfigForBatchIndex(h \div 2).terms.keypers,
           Authorized(signers, h)
    PROVE  cipherExecutionReceipts[h].batchHash = "Right"
<1> DEFINE b == h \div 2
           c == ConfigForBatchIndex(b)
           keypers == c.terms.keypers
           faulty == {i \in DOMAIN keypers : keypers[i] \in Faulty}
<1>1. b \in Nat /\ Closed(b)
  <2>1. PICK d \in Batches : h = 2 * d
    BY DEF HalfSteps
  <2>2. d \in Nat /\ h \div 2 = d
    BY <2>1, Parameters, HalfStepArithmetic DEF Batches
  <2>3. Closed(d)
    BY <2>1 DEF IInv, ReceiptsOfDoneHalfSteps, DoneBatchesClosed
  <2> QED
    BY <2>2, <2>3
<1>2. c.terms \in Terms
  <2>1. c = configs[ConfigIndexIn(configs, b)]
        /\ ConfigIndexIn(configs, b) \in DOMAIN configs
    BY <1>1, ConfigOfBatch DEF ConfigForBatchIndex, IsConfigOf, IInv
  <2>2. c.terms.batchSpan > 0
    BY <1>1 DEF Closed, BatchingActive
  <2>3. ZeroConfig.terms.batchSpan = 0
    BY DEF ZeroConfig, Config
  <2>4. c # ZeroConfig
    BY <2>2, <2>3
  <2> QED
    BY <2>1, <2>4 DEF ConfigsOfTerms
<1>3. Cardinality(faulty) < c.terms.threshold
  BY <1>2, FewFaulty
<1>4. c.terms \in ConfigTerms
  BY <1>2, Parameters
<1>5. keypers \in Seq(Accounts) /\ c.terms.threshold \in Nat
  BY <1>4 DEF ConfigTerms
<1>6. IsFiniteSet(faulty)
  <2>1. DOMAIN keypers = 1 .. Len(keypers) /\ Len(keypers) \in Nat
    BY <1>5
  <2>2. IsFiniteSet(DOMAIN keypers)
    BY <2>1, FS_Interval
  <2> QED
    BY <2>2, FS_Subset
<1>7. SUFFICES ASSUME cipherExecutionReceipts[h].batchHash # "Right" PROVE FALSE
  OBVIOUS
<1>8. signers \subseteq faulty
  BY <1>7 DEF Authorized, Signs
<1>9. /\ Cardinality(signers) \in Nat /\ Cardinality(faulty) \in Nat
      /\ Cardinality(signers) <= Cardinality(faulty)
  BY <1>6, <1>8, FS_Subset, FS_CardinalityType
<1>10. Cardinality(signers) >= c.terms.threshold
  BY DEF Authorized
<1> HIDE DEF faulty, c
<1> QED
  BY <1>3, <1>5, <1>9, <1>10

(* A receipt is written once.                                              *)
LEMMA ReceiptsKept ==
    ASSUME IInv, [Next]_vars, NEW h \in HalfSteps,
           cipherExecutionReceipts[h].executed
    PROVE  cipherExecutionReceipts'[h] = cipherExecutionReceipts[h]
<1>1. CASE UNCHANGED cipherExecutionReceipts
  BY <1>1
<1>2. CASE \E r : cipherExecutionReceipts'
                    = [cipherExecutionReceipts EXCEPT ![numExecutionHalfSteps] = r]
  <2>1. h < numExecutionHalfSteps /\ numExecutionHalfSteps \in Nat /\ h \in Nat
    BY Parameters
       DEF IInv, ReceiptsOfDoneHalfSteps, HalfStepsTypeOK, HalfSteps, Batches
  <2> QED
    BY <1>2, <2>1 DEF IInv, HalfStepsTypeOK
<1>3. ASSUME NEW a \in Accounts, NEW outcome \in DecryptedHash,
             executeCipherBatch(a, outcome)
      PROVE  \E r : cipherExecutionReceipts'
                   = [cipherExecutionReceipts EXCEPT ![numExecutionHalfSteps] = r]
  BY <1>3 DEF executeCipherBatch
<1> QED
  BY <1>1, <1>2, <1>3
     DEF Next, BatchNext, NextBlock, scheduleNextConfig, unscheduleConfigs,
         addTransaction, skipCipherExecution, executePlainBatch, accuse, appeal,
         slash, deposit, requestWithdrawal, withdraw, batchVars, vars

LEMMA AppealInvStep ==
    IInv /\ SlashInv /\ AppealInv /\ [Next]_vars => AppealInv'
<1> SUFFICES ASSUME IInv, SlashInv, AppealInv, [Next]_vars PROVE AppealInv'
  OBVIOUS
<1>1. ConfigsOfTerms'
  BY ConfigsOfTermsStep DEF AppealInv
<1>2. SUFFICES AccusedWhenExecuted' /\ OnlyRightDecryptionsAppealed'
  BY <1>1 DEF AppealInv
<1>3. accusations \in [HalfSteps -> {NoAccusation} \cup Accusation]
  BY DEF SlashInv, SlashingTypeOK
<1>4. CASE UNCHANGED accusations
  BY <1>4, ReceiptsKept
     DEF AppealInv, AccusedWhenExecuted, OnlyRightDecryptionsAppealed
<1>5. ASSUME NEW g \in HalfSteps, NEW a \in Accounts, accuse(g, a)
      PROVE  AccusedWhenExecuted' /\ OnlyRightDecryptionsAppealed'
  <2> DEFINE acc == [accused |-> TRUE, appealed |-> FALSE, slashed |-> FALSE,
                     executor |-> cipherExecutionReceipts[g].executor,
                     blockNumber |-> block]
  <2>1. /\ accusations' = [accusations EXCEPT ![g] = acc]
        /\ cipherExecutionReceipts' = cipherExecutionReceipts
        /\ cipherExecutionReceipts[g].executed
    BY <1>5 DEF accuse, batchVars
  <2>2. acc.accused /\ ~acc.appealed
    OBVIOUS
  <2> HIDE DEF acc
  <2> QED
    BY <1>3, <2>1, <2>2
       DEF AppealInv, AccusedWhenExecuted, OnlyRightDecryptionsAppealed
<1>6. ASSUME NEW g \in HalfSteps, appeal(g)
      PROVE  AccusedWhenExecuted' /\ OnlyRightDecryptionsAppealed'
  <2>1. /\ accusations' = [accusations EXCEPT ![g].appealed = TRUE]
        /\ cipherExecutionReceipts' = cipherExecutionReceipts
        /\ accusations[g].accused
    BY <1>6 DEF appeal, batchVars
  <2>2. accusations[g] \in Accusation
    BY <1>3, <2>1 DEF NoAccusation
  <2>3. accusations'[g].accused
    BY <1>3, <2>1, <2>2 DEF Accusation
  <2>4. \A h \in HalfSteps : h # g => accusations'[h] = accusations[h]
    BY <1>3, <2>1
  <2>5. cipherExecutionReceipts[g].executed
    BY <2>1 DEF AppealInv, AccusedWhenExecuted
  <2>6. cipherExecutionReceipts[g].batchHash = "Right"
    BY <1>6, <2>5, AuthorizedIsRight DEF appeal, AppealInv
  <2> QED
    BY <2>1, <2>3, <2>4, <2>5, <2>6
       DEF AppealInv, AccusedWhenExecuted, OnlyRightDecryptionsAppealed
<1>7. ASSUME NEW g \in HalfSteps, slash(g)
      PROVE  AccusedWhenExecuted' /\ OnlyRightDecryptionsAppealed'
  <2>1. /\ accusations' = [accusations EXCEPT ![g].slashed = TRUE]
        /\ cipherExecutionReceipts' = cipherExecutionReceipts
        /\ accusations[g].accused
    BY <1>7 DEF slash, batchVars
  <2>2. accusations[g] \in Accusation
    BY <1>3, <2>1 DEF NoAccusation
  <2>3. \A h \in HalfSteps :
           /\ accusations'[h].accused = accusations[h].accused
           /\ accusations'[h].appealed = accusations[h].appealed
    BY <1>3, <2>1, <2>2 DEF Accusation
  <2> QED
    BY <2>1, <2>3
       DEF AppealInv, AccusedWhenExecuted, OnlyRightDecryptionsAppealed
<1> QED
  BY <1>4, <1>5, <1>6, <1>7
     DEF Next, deposit, requestWithdrawal, withdraw, vars

LEMMA AppealInvInit == Init => AppealInv
<1> SUFFICES ASSUME Init PROVE AppealInv
  OBVIOUS
<1>1. /\ accusations = [h \in HalfSteps |-> NoAccusation]
      /\ configs = <<ZeroConfig>>
  BY DEF Init, BatchInit
<1>2. \A h \in HalfSteps : ~accusations[h].accused /\ ~accusations[h].appealed
  BY <1>1 DEF NoAccusation
<1>3. ConfigsOfTerms
  BY <1>1 DEF ConfigsOfTerms
<1> QED
  BY <1>2, <1>3 DEF AppealInv, AccusedWhenExecuted, OnlyRightDecryptionsAppealed

(* _verifyAuthorization looks the keypers up when the appeal is made; they *)
(* are still those of the batch, so fewer faulty ones than the threshold   *)
(* cannot defend a wrong decryption.                                       *)
THEOREM WrongDecryptionsNotAppealed == Spec => []OnlyRightDecryptionsAppealed
<1>1. Init => IInv /\ SlashInv /\ AppealInv
  BY InitInv, SlashingInit, AppealInvInit
<1>2. IInv /\ SlashInv /\ AppealInv /\ [Next]_vars
        => IInv' /\ SlashInv' /\ AppealInv'
  BY StepInv, SlashingStep, AppealInvStep
<1>3. AppealInv => OnlyRightDecryptionsAppealed
  BY DEF AppealInv
<1> QED
  BY <1>1, <1>2, <1>3, PTL DEF Spec
=============================================================================
