--------------------------- MODULE BatchContracts ---------------------------
(***************************************************************************)
(* The main chain contracts that collect and execute batches:              *)
(* ConfigContract.sol, BatcherContract.sol and ExecutorContract.sol.       *)
(*                                                                         *)
(* One action is one contract call in the current block, or the next       *)
(* block.  The owner may schedule and unschedule configs at any time,      *)
(* anyone may add transactions and execute plain batches, keypers execute  *)
(* cipher batches.  A call that reverts changes nothing: it is a           *)
(* stuttering step, and a failed require is a guard.                       *)
(*                                                                         *)
(* Every transaction has size 1.  A hash of a sequence of transactions is  *)
(* the sequence itself; what the decrypted transactions of a cipher batch  *)
(* hash to is Right when the executor decrypted them as it should, Wrong   *)
(* when not.  Fees and the calls into the target contract (whose errors    *)
(* are ignored) are left out.  Sums revert on overflow, which no block     *)
(* number in reach causes.                                                 *)
(***************************************************************************)
EXTENDS Integers, Sequences, FiniteSets

CONSTANTS
    Accounts,      \* callers of the contracts
    Transactions,  \* transactions users add to batches
    Terms,         \* fields of a new config other than where it starts
    HeadsUp,       \* configChangeHeadsUpBlocks
    MaxBlock,      \* bound: last block of the main chain
    MaxBatch,      \* bound: last batch index used
    MaxConfigs     \* bound: length of the sequence of configs

ConfigTerms == [batchSpan : Nat, executionTimeout : Nat, batchSizeLimit : Nat,
                keypers : Seq(Accounts), threshold : Nat]

ASSUME ConstantsAssumption ==
    /\ Terms \subseteq ConfigTerms
    /\ {HeadsUp, MaxBlock, MaxBatch, MaxConfigs} \subseteq Nat

VARIABLES
    block,                   \* number of the current block
    configs,                 \* ConfigContract.configs, the zero config first
    batchHashes,             \* batch index -> type -> hash
    numExecutionHalfSteps,
    cipherExecutionReceipts  \* even half step -> receipt

batchVars == <<block, configs, batchHashes, numExecutionHalfSteps,
               cipherExecutionReceipts>>

Batches   == 0 .. MaxBatch
HalfSteps == {2 * b : b \in Batches}
TransactionType == {"Cipher", "Plain"}
ZeroHash == <<>>
DecryptedHash == {"Right", "Wrong"}  \* of a cipher batch that is not empty

-----------------------------------------------------------------------------
(* ConfigContract: reading.                                                *)

Config(startBatch, startBlock, terms) ==
    [startBatchIndex |-> startBatch, startBlockNumber |-> startBlock,
     terms |-> terms]

ZeroConfig ==
    Config(0, 0, [batchSpan |-> 0, executionTimeout |-> 0,
                  batchSizeLimit |-> 0, keypers |-> <<>>, threshold |-> 0])

(* The last config that starts at or before the batch.                     *)
ConfigIndexIn(cfgs, b) ==
    CHOOSE i \in DOMAIN cfgs :
        /\ cfgs[i].startBatchIndex <= b
        /\ \A j \in DOMAIN cfgs : j > i => cfgs[j].startBatchIndex > b

ConfigForBatchIndex(b) == configs[ConfigIndexIn(configs, b)]

BatchingActive(c) == c.terms.batchSpan > 0

End(c, b) ==
    c.startBlockNumber + (b - c.startBatchIndex + 1) * c.terms.batchSpan

(* The first batch of a config opens with the config, all others one span  *)
(* before the batch ahead of them closes.                                  *)
Start(c, b) ==
    End(c, b) - c.terms.batchSpan
              - (IF b > c.startBatchIndex THEN c.terms.batchSpan ELSE 0)

Timeout(c, b) == End(c, b) + c.terms.executionTimeout

IsKeyper(a, c) == \E i \in DOMAIN c.terms.keypers : c.terms.keypers[i] = a

-----------------------------------------------------------------------------
(* ConfigContract: scheduling.  The setters of nextConfig only concern     *)
(* nextConfig, which nothing but scheduleNextConfig reads, and             *)
(* scheduleNextConfig resets it: the config it schedules is any the        *)
(* setters can build.                                                      *)

NextConfigs ==
    {Config(sb, sn, t) : sb \in Batches, sn \in 0 .. MaxBlock, t \in Terms}

(* A wrong variant: the batch span of the last config is not considered.   *)
EarliestStartShort(c) == block + HeadsUp + 1

EarliestStart(c) ==
    block + 1 + (IF c.terms.batchSpan > HeadsUp THEN c.terms.batchSpan
                                                ELSE HeadsUp)

Seamless(c, next) ==
    IF BatchingActive(c)
      THEN /\ next.startBatchIndex > c.startBatchIndex
           /\ next.startBlockNumber =
                c.startBlockNumber + c.terms.batchSpan
                  * (next.startBatchIndex - c.startBatchIndex)
      ELSE next.startBatchIndex = c.startBatchIndex

scheduleNextConfig(next) ==
    LET last == configs[Len(configs)] IN
    /\ Len(configs) < MaxConfigs
    /\ next.startBlockNumber >= EarliestStart(last)
    /\ Seamless(last, next)
    /\ configs' = Append(configs, next)
    /\ UNCHANGED <<block, batchHashes, numExecutionHalfSteps,
                   cipherExecutionReceipts>>

(* A wrong variant: notice need not be given.                              *)
NoticeGivenAny(from) == TRUE

NoticeGiven(from) == from > block + HeadsUp

(* Configs are removed from the end up to the first one that starts before *)
(* from; the zero config stays.                                            *)
unscheduleConfigs(from) ==
    /\ NoticeGiven(from)
    /\ \E n \in 1 .. Len(configs) - 1 :
         /\ \A i \in n + 1 .. Len(configs) : configs[i].startBlockNumber >= from
         /\ n = 1 \/ configs[n].startBlockNumber < from
         /\ configs' = SubSeq(configs, 1, n)
    /\ UNCHANGED <<block, batchHashes, numExecutionHalfSteps,
                   cipherExecutionReceipts>>

-----------------------------------------------------------------------------
(* BatcherContract.                                                        *)

BatchSize(b) == Len(batchHashes[b]["Cipher"]) + Len(batchHashes[b]["Plain"])

(* A wrong variant: a batch stays open for its last block.                 *)
BatchOpenTooLong(c, b) == block >= Start(c, b) /\ block <= End(c, b)

BatchOpen(c, b) == block >= Start(c, b) /\ block < End(c, b)

addTransaction(b, type, tx) ==
    LET c == ConfigForBatchIndex(b) IN
    /\ BatchingActive(c)
    /\ BatchOpen(c, b)
    /\ BatchSize(b) + 1 <= c.terms.batchSizeLimit
    /\ batchHashes' = [batchHashes EXCEPT ![b][type] = Append(@, tx)]
    /\ UNCHANGED <<block, configs, numExecutionHalfSteps,
                   cipherExecutionReceipts>>

-----------------------------------------------------------------------------
(* ExecutorContract.  Half steps 2b and 2b + 1 execute the cipher and the  *)
(* plain portion of batch b.                                               *)

NoReceipt == [executed |-> FALSE]

CurrentBatch == numExecutionHalfSteps \div 2
CipherTurn   == numExecutionHalfSteps % 2 = 0

HalfStepDone ==
    /\ numExecutionHalfSteps' = numExecutionHalfSteps + 1
    /\ UNCHANGED <<block, configs, batchHashes>>

executeCipherBatch(sender, outcome) ==
    LET b == CurrentBatch
        c == ConfigForBatchIndex(b)
        hash == batchHashes[b]["Cipher"]
    IN
    /\ CipherTurn
    /\ b \in Batches
    /\ BatchingActive(c)
    /\ block >= End(c, b)
    /\ block < Timeout(c, b)
    /\ IsKeyper(sender, c)
    /\ cipherExecutionReceipts' =
         [cipherExecutionReceipts EXCEPT ![numExecutionHalfSteps] =
            [executed |-> TRUE, executor |-> sender, cipherBatchHash |-> hash,
             batchHash |-> IF hash = ZeroHash THEN "Empty" ELSE outcome]]
    /\ HalfStepDone

(* skipCipherExecution, and executeCipherBatch once the timeout is reached.*)
skipCipherExecution ==
    LET b == CurrentBatch
        c == ConfigForBatchIndex(b)
    IN
    /\ CipherTurn
    /\ b \in Batches
    /\ BatchingActive(c)
    /\ block >= Timeout(c, b)
    /\ HalfStepDone
    /\ UNCHANGED cipherExecutionReceipts

(* The two conditions are asserts in the code.  The transactions given     *)
(* must hash to the batch's plain hash.  One step: the calls to the target *)
(* (ExecutorContract.sol:249) happen before the half step is counted, and  *)
(* a target that calls the executor itself is left out, as targets are.    *)
executePlainBatch ==
    LET b == CurrentBatch
        c == ConfigForBatchIndex(b)
    IN
    /\ ~CipherTurn
    /\ BatchingActive(c)
    /\ block >= End(c, b)
    /\ HalfStepDone
    /\ UNCHANGED cipherExecutionReceipts

-----------------------------------------------------------------------------
NextBlock ==
    /\ block < MaxBlock
    /\ block' = block + 1
    /\ UNCHANGED <<configs, batchHashes, numExecutionHalfSteps,
                   cipherExecutionReceipts>>

BatchInit ==
    /\ block = 1
    /\ configs = <<ZeroConfig>>
    /\ batchHashes = [b \in Batches |-> [t \in TransactionType |-> ZeroHash]]
    /\ numExecutionHalfSteps = 0
    /\ cipherExecutionReceipts = [h \in HalfSteps |-> NoReceipt]

BatchNext ==
    \/ NextBlock
    \/ \E next \in NextConfigs : scheduleNextConfig(next)
    \/ \E from \in 0 .. MaxBlock : unscheduleConfigs(from)
    \/ \E b \in Batches, type \in TransactionType, tx \in Transactions :
         addTransaction(b, type, tx)
    \/ \E a \in Accounts, outcome \in DecryptedHash :
         executeCipherBatch(a, outcome)
    \/ skipCipherExecution
    \/ executePlainBatch

BatchSpec == BatchInit /\ [][BatchNext]_batchVars
=============================================================================
