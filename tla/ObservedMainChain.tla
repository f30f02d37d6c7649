------------------------- MODULE ObservedMainChain -------------------------
(***************************************************************************)
(* The main chain and what a keyper knows of it that has synced to block   *)
(* v (keyper/observe/mainchain.go, contract/config.go).  The chain keeps   *)
(* the block of everything that happens, so that what a keyper sees is a   *)
(* function of v.  The configs are those of the config contract and do not *)
(* change here; scheduling is the subject of BatchContracts.  Of a batch   *)
(* only the cipher portion is modelled: the plain transactions a keyper    *)
(* takes from the main chain as they are.                                  *)
(***************************************************************************)
EXTENDS Integers, Sequences, FiniteSets, FiniteSetsExt

CONSTANTS Keypers,
          BatchConfigs,   \* the config contract's configs, the zero config first
          MaxBatch        \* bound: index of the last batch considered

IsActive(c) == c.BatchSpan > 0

(* What scheduleNextConfig asks of the next config: it starts where a batch*)
(* of an active config ends, and goes on where an inactive one stopped: it *)
(* may then even start before that one does.                               *)
IsSeamless(c, next) ==
    IF IsActive(c)
      THEN /\ next.StartBatchIndex > c.StartBatchIndex
           /\ next.StartBlockNumber = c.StartBlockNumber
                + (next.StartBatchIndex - c.StartBatchIndex) * c.BatchSpan
      ELSE next.StartBatchIndex = c.StartBatchIndex

ASSUME ConfigsAssumption ==
    /\ BatchConfigs \in Seq([StartBatchIndex : Nat, StartBlockNumber : Nat,
                             BatchSpan : Nat, ExecutionTimeout : Nat,
                             Threshold : Nat, Keypers : Seq(Keypers)])
    /\ BatchConfigs # <<>>
    /\ \A i \in 1 .. Len(BatchConfigs) - 1 :
         IsSeamless(BatchConfigs[i], BatchConfigs[i + 1])
    /\ BatchConfigs[1].StartBatchIndex = 0 /\ BatchConfigs[1].StartBlockNumber = 0
    /\ MaxBatch \in Nat

Batches == 0 .. MaxBatch

VARIABLES
    block,         \* the block being built; keypers may have seen earlier ones
    txs,           \* batch -> its cipher transactions, with block and eon
    halfSteps,     \* the half steps done, with block, executor and result
    accusations    \* the accusations, with half step, accuser and block

chainVars == <<block, txs, halfSteps, accusations>>

-----------------------------------------------------------------------------
(* Configs and the boundaries of batches.                                  *)

(* The last config that has started at block v.                            *)
ActiveConfigIndex(v) ==
    CHOOSE i \in DOMAIN BatchConfigs :
        /\ BatchConfigs[i].StartBlockNumber <= v
        /\ \A j \in DOMAIN BatchConfigs :
             j > i => BatchConfigs[j].StartBlockNumber > v

ActiveConfig(v) == BatchConfigs[ActiveConfigIndex(v)]

(* The last config that starts at or before batch b; its being active is   *)
(* for the caller to check.                                                *)
ConfigForBatchIndex(b) ==
    BatchConfigs[CHOOSE i \in DOMAIN BatchConfigs :
                   /\ BatchConfigs[i].StartBatchIndex <= b
                   /\ \A j \in DOMAIN BatchConfigs :
                        j > i => BatchConfigs[j].StartBatchIndex > b]

BatchEndBlock(c, b) ==
    c.StartBlockNumber + (b - c.StartBatchIndex) * c.BatchSpan + c.BatchSpan

(* The batch that is current at block v.                                   *)
BatchIndex(c, v) ==
    IF IsActive(c)
      THEN c.StartBatchIndex + (v - c.StartBlockNumber) \div c.BatchSpan
      ELSE c.StartBatchIndex

(* batchBoundaryBlocks of the config contract: all but the first batch of  *)
(* a config open one span early.                                           *)
BatchOpens(c, b) ==
    BatchEndBlock(c, b) - (IF b > c.StartBatchIndex THEN 2 ELSE 1) * c.BatchSpan

ExecutionTimeoutBlock(c, b) == BatchEndBlock(c, b) + c.ExecutionTimeout

IsKeyper(c, k) == \E i \in DOMAIN c.Keypers : c.Keypers[i] = k

(* Indices count from 0; that of somebody else is 0 as well.               *)
KeyperIndex(c, k) ==
    IF IsKeyper(c, k) THEN (CHOOSE i \in DOMAIN c.Keypers : c.Keypers[i] = k) - 1
                      ELSE 0

-----------------------------------------------------------------------------
(* What a keyper at block v sees.                                          *)

(* The transactions are named by their positions.                          *)
EncryptedTransactions(b, v) == {i \in DOMAIN txs[b] : txs[b][i].block <= v}

(* Transactions are only ever added, so the number of them stands for the  *)
(* hash, and 0 for the hash of no transactions.                            *)
EncryptedBatchHash(b, v) == Cardinality(EncryptedTransactions(b, v))

(* With the key of an eon those come out that were encrypted for it.       *)
DecryptTransactions(b, v, eon) ==
    {i \in EncryptedTransactions(b, v) : txs[b][i].eon = eon}

(* Half steps are counted from 0.                                          *)
NumExecutionHalfSteps(v) ==
    Cardinality({i \in DOMAIN halfSteps : halfSteps[i].block <= v})

(* The receipts of even half steps.  Those of a skipped one is zero in     *)
(* every field, the half step included: it ends up as that of half step 0, *)
(* in place of what was there.                                             *)
SkippedCipherSteps(v) ==
    {h \in 0 .. NumExecutionHalfSteps(v) - 1 : halfSteps[h + 1].kind = "skip"}

HasReceipt(h, v) ==
    IF h = 0 THEN NumExecutionHalfSteps(v) > 0
             ELSE h < NumExecutionHalfSteps(v) /\ halfSteps[h + 1].kind = "cipher"

(* 0, the hash of no transactions, is the zero hash.                       *)
ReceiptBatchHash(h, v) ==
    IF h = 0 /\ SkippedCipherSteps(v) # {} THEN {} ELSE halfSteps[h + 1].result

IsAccused(h, v) == \E a \in accusations : a.halfStep = h /\ a.block <= v
=============================================================================
