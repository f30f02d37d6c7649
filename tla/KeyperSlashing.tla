--------------------------- MODULE KeyperSlashing ---------------------------
(***************************************************************************)
(* Keypers answer for the cipher batches they execute with a deposit:      *)
(* KeyperSlasher.sol and DepositContract.sol, on top of the contracts that *)
(* execute batches.                                                        *)
(*                                                                         *)
(* A keyper accuses the executor of a half step.  Anyone who shows enough  *)
(* decryption signatures for what was executed appeals.  Without an appeal *)
(* the executor is slashed after the appeal period.  Signatures are        *)
(* external: a keyper that is not Faulty signs nothing but the right       *)
(* decryption of a batch.  One that runs the program but decrypts with a   *)
(* main chain that lags behind (keyper/decide.go:702) counts as Faulty.    *)
(***************************************************************************)
EXTENDS BatchContracts

CONSTANTS
    AppealBlocks,  \* the appeal period
    Faulty,        \* keypers that sign anything
    Depositors,    \* accounts that make deposits
    Delays,        \* withdrawal delays depositors choose
    MaxDeposit     \* bound: amount of a deposit

ASSUME SlashingAssumption ==
    /\ AppealBlocks \in Nat
    /\ Faulty \subseteq Accounts
    /\ Depositors \subseteq Accounts
    /\ Delays \subseteq Nat
    /\ MaxDeposit \in Nat

(* The trust in keypers: of those of any config fewer than the threshold   *)
(* are faulty.                                                             *)
ASSUME FewFaulty ==
    \A terms \in Terms :
       Cardinality({i \in DOMAIN terms.keypers : terms.keypers[i] \in Faulty})
          < terms.threshold

VARIABLES
    accusations,  \* even half step -> accusation
    deposits      \* account -> deposit

vars == <<block, configs, batchHashes, numExecutionHalfSteps,
          cipherExecutionReceipts, accusations, deposits>>

-----------------------------------------------------------------------------
(* KeyperSlasher.                                                          *)

NoAccusation == [accused |-> FALSE, appealed |-> FALSE, slashed |-> FALSE]

accuse(h, sender) ==
    LET receipt == cipherExecutionReceipts[h] IN
    /\ ~accusations[h].accused
    /\ IsKeyper(sender, ConfigForBatchIndex(h \div 2))
    /\ receipt.executed
    /\ receipt.cipherBatchHash # ZeroHash
    /\ accusations' = [accusations EXCEPT ![h] =
         [accused |-> TRUE, appealed |-> FALSE, slashed |-> FALSE,
          executor |-> receipt.executor, blockNumber |-> block]]
    /\ UNCHANGED <<batchVars, deposits>>

Signs(keyper, receipt) == receipt.batchHash = "Right" \/ keyper \in Faulty

(* A wrong variant: one signature is enough.                               *)
AuthorizedByOne(signers, h) ==
    LET terms == ConfigForBatchIndex(h \div 2).terms IN
    /\ signers # {}
    /\ \A i \in signers : Signs(terms.keypers[i], cipherExecutionReceipts[h])

(* The signer indices are distinct and every signature is by its keyper.   *)
Authorized(signers, h) ==
    LET terms == ConfigForBatchIndex(h \div 2).terms IN
    /\ Cardinality(signers) >= terms.threshold
    /\ \A i \in signers : Signs(terms.keypers[i], cipherExecutionReceipts[h])

appeal(h) ==
    /\ accusations[h].accused
    /\ ~accusations[h].appealed
    /\ \E signers \in SUBSET DOMAIN ConfigForBatchIndex(h \div 2).terms.keypers :
         Authorized(signers, h)
    /\ accusations' = [accusations EXCEPT ![h].appealed = TRUE]
    /\ UNCHANGED <<batchVars, deposits>>

-----------------------------------------------------------------------------
(* DepositContract.                                                        *)

NoDeposit == [amount |-> 0, withdrawalDelayBlocks |-> 0,
              withdrawalRequestedBlock |-> 0, slashed |-> FALSE]

(* A wrong variant: a slashed account may deposit again.                   *)
MayDepositAgain(d, delay) ==
    /\ delay >= d.withdrawalDelayBlocks
    /\ d.withdrawalRequestedBlock = 0

MayDeposit(d, delay) ==
    /\ delay >= d.withdrawalDelayBlocks
    /\ d.withdrawalRequestedBlock = 0
    /\ ~d.slashed

(* Reached through tokensReceived of the ERC777 token.                     *)
deposit(a, amount, delay) ==
    /\ deposits[a].amount + amount <= MaxDeposit
    /\ MayDeposit(deposits[a], delay)
    /\ deposits' = [deposits EXCEPT ![a].amount = @ + amount,
                                    ![a].withdrawalDelayBlocks = delay]
    /\ UNCHANGED <<batchVars, accusations>>

requestWithdrawal(a) ==
    /\ deposits[a].amount > 0
    /\ ~deposits[a].slashed
    /\ deposits[a].withdrawalRequestedBlock = 0
    /\ deposits' = [deposits EXCEPT ![a].withdrawalRequestedBlock = block]
    /\ UNCHANGED <<batchVars, accusations>>

(* A wrong variant: the delay is counted from the start of the chain.      *)
DelayPassedSinceStart(d) == block >= d.withdrawalDelayBlocks

DelayPassed(d) ==
    block >= d.withdrawalRequestedBlock + d.withdrawalDelayBlocks

withdraw(a) ==
    /\ deposits[a].amount > 0
    /\ ~deposits[a].slashed
    /\ deposits[a].withdrawalRequestedBlock > 0
    /\ DelayPassed(deposits[a])
    /\ deposits' = [deposits EXCEPT ![a] = NoDeposit]
    /\ UNCHANGED <<batchVars, accusations>>

(* KeyperSlasher.slash and the DepositContract.slash it calls.             *)
slash(h) ==
    LET accusation == accusations[h] IN
    /\ accusation.accused
    /\ ~accusation.appealed
    /\ ~accusation.slashed
    /\ block >= accusation.blockNumber + AppealBlocks
    /\ deposits' = [deposits EXCEPT ![accusation.executor] =
                      [NoDeposit EXCEPT !.slashed = TRUE]]
    /\ accusations' = [accusations EXCEPT ![h].slashed = TRUE]
    /\ UNCHANGED batchVars

-----------------------------------------------------------------------------
Init ==
    /\ BatchInit
    /\ accusations = [h \in HalfSteps |-> NoAccusation]
    /\ deposits = [a \in Accounts |-> NoDeposit]

Next ==
    \/ BatchNext /\ UNCHANGED <<accusations, deposits>>
    \/ \E h \in HalfSteps, a \in Accounts : accuse(h, a)
    \/ \E h \in HalfSteps : appeal(h)
    \/ \E h \in HalfSteps : slash(h)
    \/ \E a \in Depositors, amount \in 1 .. MaxDeposit, delay \in Delays :
         deposit(a, amount, delay)
    \/ \E a \in Depositors : requestWithdrawal(a)
    \/ \E a \in Depositors : withdraw(a)

Spec == Init /\ [][Next]_vars

-----------------------------------------------------------------------------
(* Once a batch is open, neither scheduling nor unscheduling a config can  *)
(* change its boundaries, its keypers or its limits.  Users have already   *)
(* encrypted for it.                                                       *)
BatchFixedOnceOpen ==
    [][\A b \in Batches :
         LET c == ConfigForBatchIndex(b) IN
         BatchingActive(c) /\ block >= Start(c, b)
            => ConfigForBatchIndex(b)' = c]_vars

(* The asserts of executePlainBatch: when the cipher portion of a batch is *)
(* done, "the config cannot be changed anymore (since the batching period  *)
(* is over)".                                                              *)
PlainAssertsHold ==
    ~CipherTurn => LET c == ConfigForBatchIndex(CurrentBatch) IN
                   BatchingActive(c) /\ block >= End(c, CurrentBatch)

(* The batch a receipt was written for never changes again: the signatures *)
(* an executor appeals with are still for the batch the batcher contract   *)
(* holds.                                                                  *)
ReceiptsMatchBatches ==
    \A h \in HalfSteps :
       cipherExecutionReceipts[h].executed =>
          cipherExecutionReceipts[h].cipherBatchHash
             = batchHashes[h \div 2]["Cipher"]

(* With fewer faulty keypers than the threshold nobody appeals for a batch *)
(* that was decrypted wrongly, also when configs have changed since.       *)
OnlyRightDecryptionsAppealed ==
    \A h \in HalfSteps :
       accusations[h].appealed => cipherExecutionReceipts[h].batchHash = "Right"

(* An account is marked as slashed exactly if an accusation of it ended    *)
(* so, for ever, and has no deposit then: the asserts of requestWithdrawal *)
(* and withdraw hold, although withdraw deletes the mark.                  *)
SlashedForGood ==
    \A a \in Accounts :
       /\ deposits[a].slashed <=>
            \E h \in HalfSteps : /\ accusations[h].slashed
                                 /\ accusations[h].executor = a
       /\ deposits[a].slashed => deposits[a].amount = 0

(* A deposit whose withdrawal takes at least the appeal period leaves only *)
(* during the appeal period of an accusation of its owner if the owner had *)
(* asked for it before the accusation.                                     *)
DepositHeldForAppeal ==
    [][\A a \in Depositors, h \in HalfSteps :
         LET d == deposits[a]
             accusation == accusations[h]
         IN
         /\ d.amount > 0 /\ deposits'[a] = NoDeposit
         /\ d.withdrawalDelayBlocks >= AppealBlocks
         /\ accusation.accused /\ accusation.executor = a
         /\ block < accusation.blockNumber + AppealBlocks
         => d.withdrawalRequestedBlock < accusation.blockNumber]_vars
=============================================================================
