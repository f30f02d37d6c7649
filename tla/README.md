# TLA+ models of Shutter

Shutter keeps the transactions of a batch encrypted until their order is fixed.  A group of
*keypers* generates a key for every *eon*, releases a decryption key for every batch, and
executes the batches on the main chain (Ethereum).  The keypers agree with each other through a
chain of their own, *shuttermint*, a Tendermint application.

This directory holds models of the parts of the program in which processes, messages and crashes
meet, the TLC runs that check them on small instances, and proofs, for all instances, of what is
most important about the shuttermint application and the main chain contracts.

## The system

| component | state | operations | what makes it correct |
|---|---|---|---|
| **shuttermint app: governance** (`app/app.go`, `voting.go`, `configvoting.go`, `eonvoting.go`) | the batch configs, one vote per keyper for the next one, restart votes per config, votes for starting the last config, the counter of eons | `deliverBatchConfig`, `deliverEonStartVoteMsg`, `deliverBatchConfigStarted`, `EndBlock` | only a majority of the right keypers changes anything, a majority takes effect at once, configs are ordered, an eon is run by the keypers who think they run it |
| **shuttermint app: validator set** (`powermap.go`) | validator keys of the keypers that checked in, voting powers | `deliverCheckIn`, `EndBlock` | Tendermint and the app agree on the validators, and enough of them are alive |
| **shuttermint app: DKG instances** (`dkg.go`, `messages.go`) | who has published which message | `handlePolyEvalMsg`, `handlePolyCommitmentMsg`, `handleAccusationMsg`, `handleApologyMsg` | nobody contradicts himself on the chain |
| **pure DKG** (`keyper/puredkg`) | commitments, evaluations, accusations, apologies, phase | three phase changes, four message handlers, `ComputeResult` | keypers that obtain a key obtain it from the same dealers |
| **keyper: DKG** (`keyper/decide.go`, first half) | a `PureDKG` per eon, evaluations that cannot be sent yet, the height up to which the chain has been read | `syncDKGWithEon`, `sendPolyEvals`, `handleDKGs` | no event is missed or counted in the wrong phase, an honest dealer is not excluded, the DKG ends |
| **keyper: runtime** (`keyper/keyper.go`, `keyper/fx`) | the saved state, the pending actions on disk, channels, workers | `runOneStep`, `runActions`, `Load`, `handleActions`, `handleInFlightTXs` | no action is lost or done in the wrong order, whenever the keyper crashes, and none that can be sent blocks for good |
| **keyper: execution** (`maybeExecuteBatch`) | `PendingHalfStep`, `LastHalfStep...` | who executes, when, and what instead if it is too late | half steps are executed once and never for ever not at all |
| **keyper: epoch keys** (`keyper/epochkg`, `decide.go`) | key shares per epoch, decrypted batches, signatures | epoch secret key shares, decryption, decryption signatures | a batch stays secret until it is closed, and there is one key for it |
| **keyper: appeals** (`maybeAccuse`, `maybeAppeal`) | pending appeals | accusing the executor of a wrong half step, answering an accusation | no honest executor is accused |
| **keyper: observation** (`keyper/observe`) | a copy of both chains, cut down by filters | `applyTxEvents`, `SyncToHead`, `ApplyFilter`, `SaveState`, `LoadState` | every event is handled once, what a filter drops is not needed again |
| **config, batcher and executor contract** (`contracts/contracts`) | the sequence of configs, batch hashes, the number of half steps, receipts | `scheduleNextConfig`, `unscheduleConfigs`, `addTransaction`, `executeCipherBatch`, `skipCipherExecution`, `executePlainBatch` | nothing about a batch changes once it is open, half steps are about closed batches |
| **slasher and deposit contract** | accusations, deposits | `accuse`, `appeal`, `slash`, `tokensReceived`, `requestWithdrawal`, `withdraw` | a wrong decryption cannot be defended, a deposit is held while an accusation can be appealed, slashing is final |
| **key broadcast contract** | votes for eon keys | `vote` | the key with most votes is the one the keypers generated |
| **fee bank contract** | a balance per receiver | `deposit`, `withdraw` | no fee is paid out twice |
| **mempool checks** (`checktx.go`, `noncetracker.go`) | nonces, transactions per block and keyper | `CheckTx` | bounded use of blocks, no transaction twice |
| **persistence of the app** | the gob file | `PersistToDisk`, `LoadShielderAppFromFile` | replaying blocks gives the same state |

Keypers and the app interact by transactions (`shmsg`) and the ABCI events they produce
(`keyper/shutterevents`).  The order of events is the same for all keypers; when a keyper sees
them is not, and neither is when its transactions get into a block.  Keypers and the main chain
interact by transactions whose receipts take a while and that may revert.  Inside a keyper a main
loop, a worker for shuttermint messages, a worker for main chain transactions and several workers
that wait for receipts share the pending actions and three channels.

What is hard to get right is therefore: the order of votes and config changes (governance), the
phase a message falls into when its sender, the chain and its readers are at different heights
(DKG), crashes between saving, adding, scheduling and sending (runtime), and values that are
remembered for too long (started votes, pending half steps).  `PROJECT.json` lists these hazards
by line, with the properties that cover them.

## Modules

```
Voting  BatchConfig  Powermap          pure parts of the app
           |
        DKGInstance                    what the app keeps of one DKG
           |      \
     ShielderApp    \                   the app: every handler of a transaction, EndBlock
      |        |     \
MCShielderApp  ShielderAppProofs        instances for TLC; the inductive invariant, theorems
                 |     \   \
  ShielderAppDKGProofs  \  ShielderAppValidatorProofs      more theorems
                         \
           PureDKG ----- KeyperDKG --- MCKeyperDKG     one eon, several keypers, one chain
                             |             |
  KeyBroadcastContract - EonKeyVotes - MCEonKeyVotes   and the votes on the eon key
                             |
                       KeyperDKGProofs  theorems

KeyperRuntime                          a keyper's main loop, workers, disk and crashes
      |
KeyperRuntimeProofs                    theorems

ObservedMainChain                      executor and slasher contract, as keypers see them
        |
KeyperEpochs --- MCKeyperEpochs        keys, decryption, execution, accusations of a batch
  |         \
EpochKG   KeyperEpochsProofs           epoch secret key shares; theorems

ShielderNode                           Tendermint and the app: blocks, mempool, disk, crashes
        |
KeyperObserver --- MCKeyperObserver    a keyper that follows the node
        |
ShielderNodeProofs                     theorems

BatchContracts --- KeyperSlashing --- MCKeyperSlashing
                        |              the main chain contracts; with deposits; instance
               KeyperSlashingProofs    theorems
```

**ShielderApp.**  The variables are the fields of the struct `ShielderApp` (`app/types.go`) under
their own names, plus `tmValidators` (what Tendermint makes of the validator updates), `events`
(the ABCI events) and `ballots` (a history of the votes for starting configs).  A transaction is
an action; its guard is the conjunction of the conditions under which the handler does not return
an error, since a transaction that fails changes nothing.  `EndBlock` is one action: it starts the
last config, hands over to the validators of the newest started config once enough of its keypers
have checked in, and reports the difference of voting powers.  A voting is a function from voters
to candidates.  Go's maps become functions, their random iteration order becomes a choice that the
invariant `NoDanglingMajority` shows to be none.  Abstracted: payloads of DKG messages, ABCI
encoding, log messages, ConfigContractAddress and `EpochSecretKeyShare`, which the app passes on
without keeping anything.

**PureDKG, KeyperDKG.**  Polynomials and their evaluations are reduced to what the code tells
apart: a commitment has the right degree or not, an evaluation verifies (`good`), does not (`bad`),
is out of range (`invalid`) or is missing (`none`).  Heights are explicit.  `Decide(k)` is the
whole of `handleDKGs` in one step of keyper k, with the four phase changes and the four syncs in
the order of `syncDKGWithEon`; in between, `NextBlock` commits blocks.  In every block each honest
keyper has at most one message, since `BroadcastTxCommit` waits for the block, and Tendermint
decides its fate: not yet, delivered, delivered with the answer lost (so that it is sent again),
or refused by `CheckTx` (which `SendMessage` takes for a success, as it looks only at the result of
`DeliverTx`).  Keypers that are not honest send what `Misbehaviour` permits.  The app's part is
`DKGInstance`, the same module that `ShielderApp` uses.

**EonKeyVotes, KeyBroadcastContract.**  What a keyper does with the result of its DKG: it votes for
the eon key.  The key is the sum of the participants' commitments, so the set of participants
stands for it.  The votes start when all honest keypers have finished the DKG; that loses nothing,
since a vote does not influence a DKG and the contract accepts votes in any order.  A keyper that
is not honest votes for anything in `WrongVotes`, once, since the contract refuses a second vote.

**KeyperRuntime.**  `State` and `stored` are the keyper's state in memory and in `state.gob`,
`Pending` is `actions.gob` (every change is on disk before anything else happens, so one variable
serves both).  Every step between two points at which other goroutines or a crash may intervene is
an action: deciding and saving, adding, scheduling one action (it may block on a channel),
advancing the counter, sending, recording the hash, passing it on, waiting.  `CrashAndRestart`
keeps what is on disk; the main chain that the keyper observes afterwards ends anywhere between the
block it had seen before and the newest one (it follows the chain at a distance,
`MainChainFollowDistance`).  Of the decisions only `maybeExecuteBatch` is in the model; messages
stand for everything else a keyper may want to send.  `GobCopy` is what gob makes of the state: a
pointer to 0 is not written, so a pending half step 0 is forgotten by a restart; see "Noticed as
well".

**ObservedMainChain, EpochKG, KeyperEpochs.**  What happens to a batch once there is an eon key.
The shuttermint chain is a sequence of blocks of events, the main chain one of blocks; a keyper's
knowledge of either is the height it has synced to, and everything it concludes is a function of
that height (`ObservedMainChain`).  `Decide(k)` is the whole of a step of keyper k after a sync:
shares for every batch that has closed, `EpochKG`'s handling of the shares seen, decryption,
signatures, `maybeExecuteBatch` with its delay, timeout and skipping, and `maybeAccuse`.  Syncing
and deciding are one action: a sync only changes what the next decision reads.  Messages and
transactions then get through one at a time, at some time and in order.  The DKG of an eon is
reduced to the event that ends it, with the keypers for which it failed; the voting for a config to
the event that shuttermint has accepted it (`AddBatchConfig`): until then
`publishEpochSecretKeyShares` returns early.  Shares of a dishonest keyper verify or do not.

**ShielderNode, KeyperObserver.**  `ShielderNode` is Tendermint's side of the app: `BeginBlock`,
`DeliverTx`, `EndBlock` and `Commit` one after the other, `CheckTx` of any transaction between two
of them, the recheck after a block, saving after some blocks (30 seconds are nothing the model can
count), a crash between any two calls and the replay of the blocks after the saved height.  What
the messages do to the app is abstracted to the sequence of the applied ones and who is a keyper;
that is what nonces, mempool and replay depend on.  `KeyperObserver` adds a keyper that runs next to
this node: the goroutine that fetches new events, the channel in which a newer copy waits for the
main loop, the main loop's decision, `saveState`, the filter it sends back if there is room, and
its restart.  Events a decision handles are those between `SyncHeight` and the height of the
observed copy.  What the filters and a decision take of the events is `Since`, a recursive function,
as the prover knows nothing of `SelectSeq`.


**BatchContracts, KeyperSlashing.**  Variables and actions have the names of the contracts' state
variables and functions; `block` is `block.number`.  A call is atomic, as on the main chain, a
failed `require` or `assert` reverts it and is a guard.  `BatchContracts` is the config, batcher and
executor contract, `KeyperSlashing` extends it by the slasher and the deposits, so that
accusations and withdrawals are interleaved with config changes and executions.  The setters of
`nextConfig` touch nothing else, so the owner schedules any config they can build.  Hashes are the
sequences they are computed from; `batchHash` of a receipt is `Right` or `Wrong`.  Left out: gas,
targets and their errors, fees, the size of single transactions.  `executePlainBatch` is atomic,
although `ExecutorContract.sol:249` calls the target between the checks and counting the half step,
without a guard against re-entrancy: a target that calls the executor is not covered (the one in the
repository calls nobody).  In `KeyperSlashing` a keyper is `Faulty` if it signs anything but the right
result, so also one that runs the program but decrypted the batch with a main chain that lagged
behind (`decide.go:702`).

## Runs

| run | instance | states | shows |
|---|---|---|---|
| `governance` | 3 addresses, two rival configs for index 1 and one for index 2, 2 validator keys | 17 k | `TypeOK`, `NoDanglingMajority`, `ConfigsOrdered`, `ValidatorsInSync`, `EnoughLiveValidators`, `StartedConfigHasVotes`, `AcceptedConfigHasMajority` |
| `eons` | two configs, restart votes for three batches, up to 4 eons | 134 k | `LastConfigHasEon`, `EonRunByItsKeypers`, `EonRestartHasMajority` |
| `messages` | a genesis of two keypers, a first config of three and a second one, overlapping and contradictory DKG messages of two eons, signatures for two batches | 410 k | `NoEquivocation`, `SignersOfOneConfig` |
| `dkg_timing` | 2 honest keypers, each up to 6 blocks behind, messages late, one refused or sent twice | 704 k | `KnowsTheChain`, `AgreeOnParticipants` |
| `dkg_faults` | 2 honest keypers, one of them slow to get messages on the chain, and one that misbehaves, in the DKG and in the vote on its key; threshold 2 | 390 k | `AgreeOnParticipants`, `HonestDealerCounts`, `TimelyDKGSucceeds`, `BestKeyIsRight` |
| `dkg_progress` | one keyper that runs and one that is silent and checks in late | 6 k | `EveryDKGEnds` |
| `runtime` | half step 1, 2 messages, 2 crashes or lost answers | 525 k | `NeverPanics`, `NothingLost`, `MessagesInOrder`, `NeverResent` |
| `runtime_progress` | half steps 0 and 1, also in parallel, 2 crashes or lost answers | 409 k | `NoCompetingExecutions`, `EveryActionEnds` |
| `epochs` | 4 keypers, threshold 3: two that are up to date, one that is late, whose node gets stuck at block 1 and whose DKG may fail, one that is faulty; three configs, 1 batch, 2 transactions, 5 blocks; up to 2 eons | 234 k | `TypeOK`, `SecretUntilClosed`, `OneKeyPerEpoch`, `ExecutedResultsRight`, `HonestNotAccused` |
| `observer` | a chain of 4 blocks, 7 transactions, two of them with a nonce used before, one of a keyper to be; 1 crash of the node or 1 restart of the keyper | 931 k | `AppFollowsChain`, `AppliedOnce`, `MempoolWithinLimits`, `HandledOnce` |
| `contracts` | 2 keypers of whom one is faulty, threshold 2; 3 configs after the zero config, active with a span of one block or inactive; 2 batches, 1 transaction each, 5 blocks; one deposit | 855 k | `PlainAssertsHold`, `ReceiptsMatchBatches`, `BatchFixedOnceOpen`, `OnlyRightDecryptionsAppealed`, `SlashedForGood`, `DepositHeldForAppeal` |
| `runtime_stuck` | 1 half step, 1 message, 1 crash or lost answer | | what the code does not do although a comment says so, see below |

Deadlock is checked in all of them but three: in `contracts` and `epochs` the main chain ends at
block `MaxBlock`, in `observer` the chain at height `MaxHeight`, and nothing may be left to do then.
Each property is stated in a comment where it is defined.

*Why the bounds are enough.*  Governance needs three addresses so that two disjoint groups cannot
both be a majority but overlapping ones can, rival candidates so that votes split, and configs
whose keypers change and change back.  The threshold of the last config is 1 in some instances and
2 in others, below and at the number of keypers.  In the DKG a phase of two blocks has a first
block, in which a message sent at once arrives, and a last one next to the boundary; six blocks
after the start cover all phases and the first block after them, and a keyper may be so late that
it passes all phases in one step (`MaxLag = 6`).  In `dkg_faults` the keypers are never behind
(`MaxLag = 0`), since lateness is the subject of `dkg_timing`, but one keyper's messages may be
late.  The dishonest keyper deals wrongly, accuses without reason, apologizes wrongly or does
nothing, and votes for a key without one of the honest keypers.

In the runtime two messages are the least that can be out of order, and two failures the least
with a crash during the recovery from another one.  `runtime` starts with half step 1, like
every later one, and explores messages next to one execution; `runtime_progress` has the first two
half steps without messages, so that half step 0 is forgotten by a crash and two executions may be
under way at once.

In the contracts three configs are enough for one to be followed by an inactive one
and that by an active one; two batches for one to be open, with the config of the next still being
changed, and for the next to open before the first closes; five blocks for scheduling, a batch,
its execution, the accusation, the end of the appeal period and a withdrawal.

In `epochs` a batch has two blocks, so that a transaction, the end of the batch, its execution, the
timeout two blocks later and an accusation fit into five blocks.  The zero config comes first, the
second active config takes over when the batch ends; shuttermint accepts it before anything else, or
a block too late, or never.  A config that overtakes a batch, and a skipped half step that takes the
receipt of half step 0 away, would each need another batch, which is too much for TLC: the run shows
the properties without these exceptions, the theorems with them.  Either there are transactions and
keypers that are late, or several eons or a config that shuttermint accepts late (`Undisturbed`):
what eons and configs disturb is which key is used and when, what lateness disturbs is who executes
what.  A DKG fails only for the slow keyper, and while a config is missing.  A keyper that is not
`Lagging` decides with at most one block missing, since it would be out of sync otherwise; the
lagging one may be given a head of block 1 for as long as its node is stuck there.  Transactions of
keypers that are not `Slow` are mined within the block, in any order; those of the slow one at any
time.  A faulty keyper executes as soon as it may, with a wrong result.  The keypers k1 and k4 are
symmetric although they have different places in the configs: the place matters only for
`executionDelay`, and with these timeouts, less than twice the number of the other keypers, all
delays are zero blocks.

In `observer` four blocks are enough for the registration of the keyper, an event before it, one
after it, and a block that the keyper's goroutine has fetched but its main loop has not seen.  The
chain is shorter by a block where the node's crashes and mempool are explored.  An execution
belongs to either half (`watched`): the keyper sees only events of executed blocks, and
`AppFollowsChain` shows these to be the same with and without crashes.  A limit of two
transactions per block and sender is reached by a mempool of three.

*Fairness.*  `KeyperDKG!FairSpec`: blocks keep coming (Tendermint) and a keyper keeps deciding,
since `Keyper.Run` makes a step for every new block; nothing is assumed of messages.
`KeyperRuntime!FairSpec`: every goroutine that can take a step takes one (Go's scheduler), sends
are answered at some time (they are repeated every second until they are), transactions are mined
at some time.  Nothing is assumed of decisions; crashes stop because they are bounded, and the
property is about a keyper that stops crashing.  That a transaction can be sent at some time, or
expires, is an assumption the code justifies for executions only: an accusation or an appeal never
expires (`actions.go:154`), and one whose gas estimate reverts for good is tried again for ever
(`runenv.go:182`) and keeps the worker from all transactions after it.

### Where code and comments disagree

`runtime_stuck`: a keyper executes nothing as long as `PendingHalfStep` is set, in order to "wait
for them to confirm first" (`keyper/decide.go:864`).  It is reset only by the half step being
executed.  When the keyper's transaction reverts, the keyper waits for a transaction that is no
longer there, until it is restarted or another keyper executes the half step.

### Noticed as well

These have no run of their own.  Where a property had to be stated more weakly because of one, the
property is named.

* `EndBlock` starts "last config if there are enough votes" (`app/app.go:768`), but `StartedVotes`
  does not say which config the votes are for and is not reset when a config is added: votes for
  one config start the next one.  What holds is `StartedConfigHasVotes`.
* `ShouldStartDKG` is to start a DKG "because the threshold or the list of keypers changed", but
  compares with the DKG started last.  After a restart for an older config, a new config with that
  config's keypers starts no eon.  What holds is `LastConfigHasEon`.
* The README (`src/README.md:217`) says that "The config contract enforces that transitions between
  batches are seamless".  After an inactive config `scheduleNextConfig` compares batch indices only,
  so the next config's batches may overlap in time with those before.  `BatchFixedOnceOpen` holds.
  But if an inactive config starts at block 5 and the active one after it at block 3, a keyper at
  block 4 takes the batches up to the start of the inactive config for closed.  `SecretUntilClosed`
  says that this is the only way for a key to come out early: a config that starts with a later
  batch has started.  Such a batch may still get transactions (`Overtaken`), so `ExecutedResultsRight`
  and `HonestNotAccused` leave it out.
* `PendingHalfStep` is a pointer; gob does not write a pointer to 0 (`GobCopy`).  A keyper that
  restarts while it executes half step 0 may execute it again.  `NoCompetingExecutions` excepts this
  half step, after a crash.
* When all transactions of a batch are undecryptable its execution reverts, and the executor is stuck
  as in `runtime_stuck`.
* `LoadState` takes a `SyncHeight` of 0 for that of an older version and sets it to the height of the
  saved copy.  A keyper that has put off all decisions so far has it too, and skips the DKG events
  it has observed (`HandledOnce` excludes this).
* `ApplyFilter` clones an eon without its epoch secret key shares, so also those of blocks that are
  not handled yet are dropped, if a decision is put off (`HandledOnce` excludes this).
* The filter for decryption signatures drops those of a batch once its plain half step has been
  executed, so that `maybeAppeal` cannot answer an accusation that comes later.
* `FindBatchConfigByBatchIndex` counts up (`i++`) in a loop that starts at the newest config.
* The receipt of a skipped half step is the zero receipt, and the keyper stores it for half step 0.
  A keyper that has been away while half step 0 was executed and a later one skipped compares its
  own result with the zero receipt and accuses the executor of half step 0, who did nothing wrong; so
  does any keyper if both half steps are in one block.  `HonestNotAccused` names this as an exception
  (`ReceiptLost`), for half step 0 only.
* `syncConfigs` appends the configs it does not have yet, but never drops one that the owner has
  unscheduled.
* `executionDelay` is computed modulo the number of keypers before the keyper has asked whether it is
  one of them: a config with a span but without keypers would stop every keyper.
* `MaxTxsPerBlock` is enforced by `CheckTx` only: a proposer may put more into a block.
* `NextEpochSecretShare` advances over batches of an eon for which the keyper has no key yet: it does
  not publish its share for them later on.
* A keyper that decrypts a batch with a main chain that lags behind decrypts what it has seen of the
  batch, and does not repeat it (the code says so, `decide.go:702`).  `ExecutedResultsRight` holds
  nevertheless, for a threshold of keypers has to sign the result; but such a keyper accuses those who
  executed the right one (`CopyIncomplete` in `HonestNotAccused`).
* A keyper votes on an eon key once per start batch index; after a restart of the key generation for
  the same batch there is no vote on the new key.
* `GetConfigByIndex` of the keyper drops repeated keypers, the contract does not.

## Proofs

### The app

`ShielderAppProofs`, `ShielderAppDKGProofs` and `ShielderAppValidatorProofs` prove about
`ShielderApp`, for all sets of addresses, configs, batches and messages, every property that the
runs `governance`, `eons` and `messages` check:

| theorem | property |
|---|---|
| `TypeCorrect` | `TypeOK` |
| `ConfigsStayOrdered` | `ConfigsOrdered` |
| `NoMajorityLeftBehind` | `NoDanglingMajority` |
| `AcceptedByMajority` | `AcceptedConfigHasMajority` |
| `EonParticipants` | `EonRunByItsKeypers` |
| `ValidatorsStayInSync` | `ValidatorsInSync` |
| `SignersBelongTogether` | `SignersOfOneConfig` |
| `LastConfigGotItsEon` | `LastConfigHasEon` |
| `RestartByMajority` | `EonRestartHasMajority` |
| `NobodyEquivocates` | `NoEquivocation` |
| `StartedByVotes` | `StartedConfigHasVotes` |
| `LiveValidatorsSuffice` | `EnoughLiveValidators` |

The assumptions are those on the constants in `ShielderApp`: finitely many addresses, a valid
genesis config, positive voting powers, the placeholder key is not a validator key, and proposed
configs, batch indices and messages of the right types.  Only the last two theorems need that
keypers propose configs with both flags unset (`FlagsAssumption`; the app takes them from the
message), and only the last one that the genesis has a validator.

The inductive invariant is
`IInv == TypeOK /\ ConfigsOrdered /\ VotersAreKeypers /\ NoDanglingMajority` (`Invariance`).
`ConfigsOrdered` alone is inductive, given the types.  `NoDanglingMajority` is not: it needs that
configs have distinct indices, because restart votes are kept by config index, so the vote for one
config must not complete the voting of another.  `AcceptedByMajority` needs `VotersAreKeypers`
(who has voted for the next config is a keyper of the last one, because the votes are dropped when
a config is added) and `NoDanglingMajority`: the handler adds the config of the vote at hand
without asking which candidate won, and only because no candidate had won before must this one be
the winner.  `EonParticipants` and `RestartByMajority` need `NoDanglingMajority` for the same
reason: the batch index of the event is the winner of the voting, the DKG's config is that of the
vote at hand; an older vote in the same ballot box may be for a batch that a newer config has
taken over since, but it cannot be the winner.  `ValidatorsStayInSync` rests on a lemma about
`DiffPowermaps`: applying the difference to the old powers gives the new ones.

`SignersBelongTogether` and `LastConfigGotItsEon` are inductive together with `IInv`: the first, because
a batch state keeps the config of its first signature; the second, because a new config starts an
eon or there was one with the same keypers and threshold, and no eon changes its config later
(`EonsKeepTheirConfig`).  The others strengthen `IInv` further:

* `EveryEventSeen` for `NobodyEquivocates`: a published message is registered in the DKG instance of
  its eon, which refuses the second one.
* `StartedVotesInHistory` for `StartedByVotes`: who is in `StartedVotes` has voted for the last
  config or one before it, and it is the last config that is started.
* `HandedOverWhenEnough` for `LiveValidatorsSuffice`: the flag `ValidatorsUpdated` is set only with
  `Threshold` keypers checked in, and nobody checks out, so the placeholder's share of the powers is
  that of the keypers beyond the threshold at most.

### The DKG

`KeyperDKGProofs` proves all safety properties of the runs `dkg_timing` and `dkg_faults`, for any
finite set of keypers, any of them honest, any threshold, phase length, start height, lag, losses
and misbehaviour:

| theorem | property |
|---|---|
| `EveryKeyperKnowsTheChain` | `KnowsTheChain` |
| `KeypersAgreeOnParticipants` | `AgreeOnParticipants` |
| `HonestDealersCount` | `HonestDealerCounts` |
| `TimelyKeypersSucceed` | `TimelyDKGSucceeds` |
| `BestKeyOfTheContractIsRight` | `BestKeyIsRight` |

Of the constants it assumes what the modules name: `KeypersAssumption` (finitely many keypers),
`MisbehaviourAssumption` (messages a decoder accepts: every evaluation has a receiver, since
`app/messages.go` refuses lists of different lengths), and bounds that are numbers.  The honest
keypers' number matters in the last two theorems only, and there it is part of the property.

The inductive invariant `IInv` (`SpecIInv`) says

* of every keyper (`KeyperOK`, `PhaseRight`): the types, that its phase is that of the height it
  handles next, that it verifies its own evaluation, that the messages it has still to send are
  such as its state determines (`HonestMsgs`; what it accuses and to whom it apologizes is settled
  once it is in the phase), and that its result is what `ComputeResult` makes of its state exactly
  if it is `Finalized`;
* `KnowsTheChain`;
* of the events (`EventOK`, `HonestEvents`): they are from blocks after the eon's start, about
  keypers, and one of an honest keyper is in `HonestMsgs` of its present state, so that no later
  step of it changes what it has said;
* `OneApologyEach`: a keyper has at most one apology published, since `DKGInstance` refuses another.

`KnowsTheChain` alone is not inductive, because a keyper that has begun a phase late still has to
fetch older messages before it may compute with them; the proof has one lemma per stage of
`handleDKGs`, in the order of the code.  With it, `AgreeOnParticipants` follows from the fact that
a keyper that is `Finalized` has synced to a height at which the last phase is over (`FinalChain`):
from there on the chain's commitments, accusations and apologies do not change, so that two
keypers, however far apart, have the same.  `HonestDealerCounts` needs, moreover, that an
honest dealer answers every accusation with the evaluation the accuser misses
(`HonestEvents`), and `TimelyDKGSucceeds` that an evaluation that is missing or wrong was
accused in time, so that the dealer has apologized or is corrupt for all.

For the votes `VotesIInv` says that there is a function from the keypers that voted to their
keys of which the contract's counters are the cardinalities, and that honest keypers' votes are the
keys they obtained.  A key with `Threshold` votes then has one of an honest keyper, if fewer than
`Threshold` are not.  `VotesImplementTheDKG` is the refinement `VotesSpec => Spec`.

### The contracts

`KeyperSlashingProofs` proves all properties of the run `contracts`: `OpenBatchesFixed`
(`BatchFixedOnceOpen`), `PlainAssertsNeverFail` (`PlainAssertsHold`), `ReceiptsStayTrue`
(`ReceiptsMatchBatches`), `SlashedStaySlashed` (`SlashedForGood`), `DepositsHeld`
(`DepositHeldForAppeal`) and `WrongDecryptionsNotAppealed` (`OnlyRightDecryptionsAppealed`), for any
keypers, spans, notice and appeal periods, numbers of batches and bounds on blocks.  The last one
assumes that of the keypers of a config fewer than the threshold are faulty (`FewFaulty` in
`KeyperSlashing`).

The inductive invariant `IInv` of `BatchContracts` has four parts besides `ReceiptsMatchBatches`.
`ConfigsTypeOK` (with the order of start batches and
blocks) and `HalfStepsTypeOK` say what the contracts' variables look like.  `DoneBatchesClosed` says
that the batch of a half step that was executed or skipped is closed, and `ReceiptsOfDoneHalfSteps`
that receipts are about such half steps only.  They are what it takes for the config of a half
step to stay the same: a closed batch has been opened, and an opened batch keeps its config, for a
config is scheduled to start later than the current block and the batches that begin in the
notice period, and only configs that start after the current block are removed.  For slashing,
`SlashInv` adds the types and `SlashedForGood` itself, and `AppealInv` says that an accused half step
has been executed, an appealed one accused, and that every config has terms its owner may
choose, whose faulty keypers `FewFaulty` bounds.

### A keyper's actions

`KeyperRuntimeProofs` proves all safety properties of the runs `runtime` and `runtime_progress`:
`NoActionIsLost` (`NothingLost`), `MessagesArriveInOrder` (`MessagesInOrder`), `RecordedTXsAreNotResent`
(`NeverResent`), `WorkersFindTheirActions` (`NeverPanics`) and `KeyperDoesNotCompete`
(`NoCompetingExecutions`), for any numbers of workers, half steps, messages and crashes, and any
half step to start with.  None of them has an assumption; that half step 0 may be executed twice
after a crash is part of the last property.

The inductive invariant has, besides these, the types and four parts that say where an action is at any moment:

* `Counters`: the actions in the saved state are the last ones decided on, and `CurrentID` is
  between the first and the last of them.  They overlap with those pending when the keyper crashed
  after `AddActions` and before it saved again; this is why `AddActions` may skip those below
  `CurrentID`, and why it never meets a gap.
* `Places`: an id is still to be scheduled, in a channel, or with one worker, never in two places;
  ids are scheduled in increasing order; and a transaction has a hash exactly if it is past the
  worker that sends it.  Whoever removes an action is thus its only holder, and what is scheduled
  after a restart with a hash has been sent.
* `SentFirst`: a worker that removes a message has delivered it, and what has a hash is on the
  main chain.
* `InOrder`: a message that was not delivered is the one at hand or still to be scheduled, and all
  before the one at hand were delivered.  After a crash this follows from `NothingLost`: what was
  not delivered is a pending action, and `SortedIDs` has all of these in increasing order
  (`SortedIDsFacts`).

`KeyperDoesNotCompete` adds `CompetitionInv`: of the transactions that may still be sent, now or
after a crash, no two execute the same half step, and each executes one that the keyper has
observed to be executed, or one up to the pending half step, both in memory and in the file.  So
when a decision finds no pending half step from the next one on, all earlier transactions are for
half steps before it.

### The node

`ShielderNodeProofs` proves that the app follows the chain (`EveryNodeFollowsTheChain`,
`AppFollowsChain`), that the mempool stays within its limits (`MempoolStaysWithinLimits`,
`MempoolWithinLimits`) and that no message is applied twice (`EachAppliedOnce`, `AppliedOnce`), for
any senders, messages, proposals, limit and numbers of blocks and crashes.
`ObserverDoesNotDisturb` is the refinement `KeyperObserver!Spec => NodeSpec`, a keyper that observes
only reads what the node has executed; three properties of the run `observer` follow from it
(`FollowsTheChainObserved`, `MempoolObserved`, `EachAppliedOnceObserved`).  The fourth is
`EventsHandledOnce` (`HandledOnce`): the keyper handles each event once and in order.  The only
assumption that is not a bound is `GenesisAssumption`: there is a genesis keyper, for `InitChain`
gives up otherwise (`EnsureValid`), and without keypers `CheckTx` would let anybody in.

The inductive invariant `NodeInv` says where the app is at any moment: between two transactions of
a block it is what the blocks before and the transactions delivered so far make it
(`AppFollows`), the file is an app after a block, with nothing counted for the mempool
(`FileOK`), and `CheckTx` has counted at least what is in the mempool (`MempoolOK`; the messages
delivered in the meantime are still in it, which is why the limit is only claimed for a node that
waits).  `AppliedInv` adds that the nonces of all applied messages are remembered, in memory and in
the file, which may become the app in memory.

What the blocks make of the app (`Executed`, `AppAfter`) and a recheck (`Recheck`) are recursive
functions.  `ExecutedIs`, `AppAfterIs` and `RecheckIs` prove that such functions exist, the only
induction being that a set of numbers has a least element (`LeastNat`), and that later blocks do
not change what earlier ones make of the app (`AppAfterAppend`).

For the keyper that observes, the invariant is `ObserverInv`.  `HandledOnce` itself says what the
state in memory and the one in the file have handled (`HandledSoFar`, `Handles`).  Whether the next
decision handles the right events depends on what the Shielders still contain: of the kinds that are
wanted, all from `SyncHeight` on (`Fits`).  This has to hold of three of them, that of `SyncShielder`
(`SyncOK`), that of the main loop, which is not newer (`WorldOK`), and the one in the file, for the
state in the file (`StoredOK`).  `ApplyFilter` keeps it so if the filter is not newer than the state
(`FiltersOK`).  But it drops all shares.  That is harmless since a filter is taken only when nothing
is being handed over: then the main loop has the goroutine's Shielder, and all of it is handled,
unless the decision was put off; or the keyper is not one yet, and its shares do not count.  For the
same reason the DKG's events and the shares are treated as different `Wanted` kinds, each with the
block from which on it is wanted, and a block that the node adds must not change any of this
(`RegisteredLater`, `WantedLater`).

These proofs are about sequences: what `Since` and `FlattenSeq` make of an element more (`SinceIs`,
`FlattenIs`, by the same induction), of two sequences (`SinceOfBoth`) and of their own result
(`SinceTwice`), and that the log of a chain only grows (`LoggedSplit`, `LoggedStays`).

### Epoch keys

`KeyperEpochsProofs` proves, for any keypers, configs that the config contract accepts (`IsSeamless`),
eons, delays and misbehaviour within `FewFaulty`, and with no other assumption:

* `KeypersHaveTheKeys` (`TypeOK`): a keyper has the key of an epoch only when a threshold of shares
  of it is on the chain.
* `OneKeyPerBatch` (`OneKeyPerEpoch`): a batch has the key of one eon at most.
* `BatchesAreSecretUntilClosed` (`SecretUntilClosed`): nobody has it before the batch is closed,
  unless a config that starts with a later batch has started.
* `ExecutedResultsAreRight` (`ExecutedResultsRight`): what honest keypers execute is what the key
  decrypts the batch to, if the batch was not overtaken in this way.
* `HonestAreNotAccused` (`HonestNotAccused`): a keyper accuses somebody who runs the program for one of
  three reasons only: its copy of the batch is incomplete, it does not see the receipt of half step 0
  any more, or the batch was overtaken.

The inductive invariant is `EpochsInv`.  Beside types it says that the shares a keyper keeps are on
the chain (`EKGOK`), that `NextEpochSecretShare` is no later than the batch that is current at the
block the keyper has seen (`KeyperOK`), and of the shares a keyper has sent, on the chain or not
yet: all of them are for batches before `NextEpochSecretShare`, and two for one batch are for one
eon (`SharesOK`).  A key takes a threshold of shares, and one of them is of an honest keyper
(`HonestSender`); two keys for a batch have an honest keyper in common (`HonestInCommon`).  That the
batch of such a share is closed is arithmetic about configs: the current batch does not go back
(`CurrentGrows`), and every earlier one has ended or is passed over by a config that starts later
(`ClosedBeforeCurrent`, `PassedOver`), across any number of configs, active or not (`InvSecret`,
`InvClosed`).

A decision is a long function of the keyper's state, with recursive functions for its loops.
`CollectedIs`, `SharesHandledIs` and `EKGsSyncedIs` prove that those exist, and `DecidedIs` what
comes out of a decision: which messages, batches and transactions may be new (`IsDecided`).  Every
step is then one of two kinds (`Steps`): no keyper decides, and messages and transactions only get
through (`NothingDecided`), or one does (`Decides`).  The proofs about steps use nothing else.

For results the invariant is `ResultsInv`.  A batch with a key that was not overtaken is closed, so
that no transaction is added to it any more (`SteadyStep`) and a keyper that is at most a block behind
sees all of it (`SeesAll`).  Hence what such a keyper has decrypted and signed is the right result
(`BatchesOK`, `SignaturesOK`).  A keyper that lags may have another one, but the signatures it counts
are by different keypers (`OneSignature`), for this very result, each counted once (`BatchOK`); among a
threshold of them is one of a keyper that does not lag (`EnoughSignatures`).  So what waits to be
mined is right as well, or empty for a batch that is not, which the contract does not take
(`TransactionOK`).

For accusations (`AccusedByRight`): a receipt of an honest executor is for the right result, and there
is one key per batch, so that a keyper with another result has decrypted fewer transactions than the
batch has (`CopyOK`: a copy with all of them gives the right result), or has lost the receipt, that of
half step 0, to one of a skipped half step.  `LostReceipt` says how the latter happens.  By
`AccusationsInv` half steps are in the order of their blocks (`StepsInOrder`), and a keyper that is
not slow has checked all half steps up to the last block but one (`NeverBehind`).  So if it has not
checked half step 0, both were in the one block it had not seen before.

### How the proofs are laid out, and what is only model-checked

There is one step per action; lemmas state what a vote does to the set of voters, what appending a
config or an eon leaves unchanged, what a call does to the config of a batch, what adding or
removing an action does to the others, and so on.

Every invariant that a run checks is proved, except that of `runtime_stuck`, which is violated.
Liveness (`EveryDKGEnds`, `EveryActionEnds`) stays with TLC: the prover does not handle
fairness and `ENABLED`.

## Not modelled

* *Threshold cryptography* (`shcrypto`): algebra over elliptic curves, assumed to be correct.  A
  share verifies or it does not, a key is known by what it was made of.
* *Generated code* (`contract/binding.go`, `shmsg.pb.go`), *message encoding* (`shmsg`,
  `shutterevents`) and *commands* (`cmd`, `sandbox`): no protocol state.
* *Fee bank*: a balance per receiver that only its receiver withdraws; the batcher's fee is left out
  of `BatchContracts` as well.
* *The keyper's side of appeals* (`maybeAppeal`, `PendingAppeals`): it would take `KeyperEpochs`,
  `KeyperSlashing` and the filter for decryption signatures in one state, which is out of TLC's
  reach; the contract's side is in `KeyperSlashing`, accusing in `KeyperEpochs`.
* *What a keyper votes for* (`maybeSendBatchConfig`, `maybeSendCheckIn`): `ShielderApp` lets keypers
  send such messages in any order, so that nothing depends on it but the progress of a voting.
* *Several configs in the keyper's copy of shuttermint* (`FindBatchConfigByBatchIndex`): the DKG has
  one config, and `KeyperEpochs` takes the keypers from the eon.
* *Failing calls to the nodes and concurrent access to the keyper's copies* while a client reads
  them: a call that fails is repeated, or left out until the next block.
