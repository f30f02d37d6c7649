---------------------------- MODULE ShielderNode ----------------------------
(***************************************************************************)
(* One shuttermint node: how Tendermint drives the app (app/app.go).  The  *)
(* blocks are agreed upon elsewhere; this node executes them one           *)
(* transaction at a time, answers CheckTx for its mempool in between, and  *)
(* saves the app to disk after some blocks.  When it crashes, Tendermint   *)
(* still has all blocks; it asks the app (Info) for the height it was      *)
(* saved at and replays the blocks from there.                             *)
(*                                                                         *)
(* What a message does is the subject of ShielderApp.  Here the app's      *)
(* state is the sequence of the messages applied, and who is a keyper.     *)
(***************************************************************************)
EXTENDS Naturals, Sequences, SequencesExt, FiniteSets

CONSTANTS Tx,               \* the transactions
          GenesisKeypers,   \* the keypers of the genesis config
          NewKeypers,       \* the keypers that a config message adds
          MaxTxsPerBlock,   \* MaxTxsPerBlock
          Proposals,        \* bound: the blocks other nodes may propose
          MaxHeight,        \* bound: blocks
          MaxCrashes        \* bound: crashes of the node

Sender == {tx.Sender : tx \in Tx}
RandomNonce == {tx.RandomNonce : tx \in Tx}
Msg == {"config", "deal", "share"}

ASSUME TxAssumption ==
    \A tx \in Tx : DOMAIN tx = {"Sender", "RandomNonce", "Msg"} /\ tx.Msg \in Msg
ASSUME GenesisAssumption == GenesisKeypers # {}   \* EnsureValid
ASSUME ProposalsAssumption == Proposals \subseteq Seq(Tx)
ASSUME BoundsAssumption ==
    /\ MaxTxsPerBlock \in Nat \ {0}
    /\ MaxHeight \in Nat
    /\ MaxCrashes \in Nat

VARIABLES
    blocks,     \* the block store: the blocks committed so far
    app,        \* the app in memory
    gob,        \* the app as last saved to disk; NoFile if it never was
    mempool,    \* the transactions that passed CheckTx, in order
    exec,       \* how far the node is with the block it executes
    crashes     \* number of crashes

nodeVars == <<blocks, app, gob, mempool, exec, crashes>>

NoFile == [LastBlockHeight |-> 0]

-----------------------------------------------------------------------------
(* CheckTx (app/checktx.go, app/noncetracker.go).                          *)

Id(tx) == <<tx.Sender, tx.RandomNonce>>

Reset(state) == [state EXCEPT !.TxCounts = [s \in Sender |-> 0], !.NonceTracker = {}]

NewCheckTxState == Reset([Members |-> {}, TxCounts |-> <<>>, NonceTracker |-> {}])

(* A wrong variant: no limit.                                              *)
CanAddTxUnlimited(state, tx) ==
    /\ state.Members # {} => tx.Sender \in state.Members
    /\ Id(tx) \notin state.NonceTracker

CanAddTx(state, tx) ==
    /\ state.Members # {} => tx.Sender \in state.Members
    /\ state.TxCounts[tx.Sender] < MaxTxsPerBlock
    /\ Id(tx) \notin state.NonceTracker

AddTx(state, tx) ==
    [state EXCEPT !.TxCounts[tx.Sender] = @ + 1,
                  !.NonceTracker = @ \cup {Id(tx)}]

(* A wrong variant: a message delivered before may be sent again.          *)
PassesCheckTxAgain(a, tx) == CanAddTx(a.CheckTxState, tx)

PassesCheckTx(a, tx) == Id(tx) \notin a.NonceTracker /\ CanAddTx(a.CheckTxState, tx)

CheckTx(a, tx) == [a EXCEPT !.CheckTxState = AddTx(@, tx)]

-----------------------------------------------------------------------------
(* The app's other methods.                                                *)

NewShielderApp ==
    [Keypers |-> {}, Applied |-> <<>>, NonceTracker |-> {},
     CheckTxState |-> NewCheckTxState, LastBlockHeight |-> 0]

(* The keypers of all configs may send transactions.                       *)
updateCheckTxMembers(a) == [a EXCEPT !.CheckTxState.Members = a.Keypers]

InitChain(a) ==
    updateCheckTxMembers([a EXCEPT !.Keypers = GenesisKeypers,
                                   !.CheckTxState = NewCheckTxState])

(* Only keypers are listened to.                                           *)
deliverMessage(a, tx) ==
    CASE tx.Sender \notin a.Keypers -> a
      [] tx.Sender \in a.Keypers /\ tx.Msg = "config" ->
           updateCheckTxMembers([a EXCEPT !.Applied = Append(@, tx),
                                          !.Keypers = @ \cup NewKeypers])
      [] OTHER -> [a EXCEPT !.Applied = Append(@, tx)]

(* A wrong variant: the nonce is not remembered.                           *)
DeliverTxWithoutNonce(a, tx) ==
    IF Id(tx) \in a.NonceTracker THEN a ELSE deliverMessage(a, tx)

DeliverTx(a, tx) ==
    IF Id(tx) \in a.NonceTracker
      THEN a
      ELSE deliverMessage([a EXCEPT !.NonceTracker = @ \cup {Id(tx)}], tx)

(* The rest of EndBlock is in ShielderApp.                                 *)
EndBlock(a, height) == [a EXCEPT !.LastBlockHeight = height]

CommitReset(a) == [a EXCEPT !.CheckTxState = Reset(@)]

(* A wrong variant: the nonces are not in the file.                        *)
LoadWithoutNonces(file) ==
    IF file = NoFile
      THEN InitChain(NewShielderApp)
      ELSE [file EXCEPT !.NonceTracker = {}]

(* Tendermint calls InitChain again if the app has no block.               *)
LoadShielderAppFromFile(file) ==
    IF file = NoFile THEN InitChain(NewShielderApp) ELSE file

-----------------------------------------------------------------------------
(* Tendermint.                                                             *)

(* The height of the block being executed, how many of its transactions    *)
(* have been delivered, and whether it had been executed before a crash.   *)
Ready == [pc |-> "ready", height |-> 0, i |-> 0, replay |-> FALSE]
Execute(height, replay) ==
    [pc |-> "deliver", height |-> height, i |-> 0, replay |-> replay]

NodeInit ==
    /\ blocks = <<>>
    /\ app = InitChain(NewShielderApp)
    /\ gob = NoFile
    /\ mempool = <<>>
    /\ exec = Ready
    /\ crashes = 0

(* A transaction arrives, possibly between two transactions of a block.    *)
(* Tendermint does not check again what is in the mempool, has no mempool  *)
(* while it replays blocks, and forgets a transaction that does not pass.  *)
ReceiveTx(tx) ==
    /\ ~exec.replay
    /\ ~Contains(mempool, tx)
    /\ PassesCheckTx(app, tx)
    /\ app' = CheckTx(app, tx)
    /\ mempool' = Append(mempool, tx)
    /\ UNCHANGED <<blocks, gob, exec, crashes>>

(* A block is committed.  This node proposes what is first in its mempool, *)
(* another one may propose anything, also what was delivered before.       *)
NewBlock(block) ==
    /\ exec = Ready
    /\ Len(blocks) < MaxHeight
    /\ blocks' = Append(blocks, block)
    /\ exec' = Execute(Len(blocks) + 1, FALSE)
    /\ UNCHANGED <<app, gob, mempool, crashes>>

Deliver ==
    /\ exec.pc = "deliver"
    /\ exec.i < Len(blocks[exec.height])
    /\ app' = DeliverTx(app, blocks[exec.height][exec.i + 1])
    /\ exec' = [exec EXCEPT !.i = @ + 1]
    /\ UNCHANGED <<blocks, gob, mempool, crashes>>

EndTheBlock ==
    /\ exec.pc = "deliver"
    /\ exec.i = Len(blocks[exec.height])
    /\ app' = EndBlock(app, exec.height)
    /\ exec' = [exec EXCEPT !.pc = "commit"]
    /\ UNCHANGED <<blocks, gob, mempool, crashes>>

(* After a block Tendermint drops its transactions from the mempool and    *)
(* checks the others again, before it lets new ones in: the app and the    *)
(* new mempool after each of them.                                         *)
Recheck(a, block, txs) ==
    LET after[n \in 0 .. Len(txs)] ==
          IF n = 0
            THEN [app |-> a, mempool |-> <<>>]
            ELSE LET r == after[n - 1]
                 IN  IF ~Contains(block, txs[n]) /\ PassesCheckTx(r.app, txs[n])
                       THEN [app     |-> CheckTx(r.app, txs[n]),
                             mempool |-> Append(r.mempool, txs[n])]
                       ELSE r
    IN  after

(* The app is saved if the last time was long enough ago, in one step: the *)
(* file is written under another name first.                               *)
Commit(persist) ==
    LET committed == CommitReset(app)
        rechecked == Recheck(committed, blocks[exec.height], mempool)[Len(mempool)]
    IN  /\ exec.pc = "commit"
        /\ gob' = IF persist THEN committed ELSE gob
        /\ app' = rechecked.app
        /\ mempool' = rechecked.mempool
        /\ exec' = IF exec.height = Len(blocks)
                     THEN Ready
                     ELSE Execute(exec.height + 1, exec.replay)
        /\ UNCHANGED <<blocks, crashes>>

(* A crash at any moment.  Info returns the height of what was loaded.     *)
CrashAndRestart ==
    LET loaded == LoadShielderAppFromFile(gob)
    IN  /\ crashes < MaxCrashes
        /\ crashes' = crashes + 1
        /\ app' = loaded
        /\ mempool' = <<>>
        /\ exec' = IF loaded.LastBlockHeight = Len(blocks)
                     THEN Ready
                     ELSE Execute(loaded.LastBlockHeight + 1, TRUE)
        /\ UNCHANGED <<blocks, gob>>

Proposed == Proposals \cup {SubSeq(mempool, 1, n) : n \in 1 .. Len(mempool)}

NodeNext ==
    \/ \E tx \in Tx : ReceiveTx(tx)
    \/ \E block \in Proposed : NewBlock(block)
    \/ Deliver
    \/ EndTheBlock
    \/ \E persist \in BOOLEAN : Commit(persist)
    \/ CrashAndRestart

NodeSpec == NodeInit /\ [][NodeNext]_nodeVars

-----------------------------------------------------------------------------
(* Properties.                                                             *)

(* The app after each of the transactions, executed without interruption,  *)
(* and after each of the blocks.                                           *)
Executed(a, txs) ==
    LET after[n \in 0 .. Len(txs)] ==
          IF n = 0 THEN a ELSE DeliverTx(after[n - 1], txs[n])
    IN  after

AppAfter(chain) ==
    LET after[h \in 0 .. Len(chain)] ==
          IF h = 0
            THEN InitChain(NewShielderApp)
            ELSE Executed(after[h - 1], chain[h])[Len(chain[h])]
    IN  after

AppAt(height) == AppAfter(blocks)[height]

SameState(a, b) ==
    /\ a.Applied = b.Applied
    /\ a.Keypers = b.Keypers
    /\ a.NonceTracker = b.NonceTracker
    /\ a.CheckTxState.Members = b.CheckTxState.Members

(* Wherever the node crashed and however old the file was it restarted     *)
(* from, after every block the app is what the blocks up to there make it, *)
(* as on a node that never crashed, and so is the app in the file.         *)
AppFollowsChain ==
    /\ exec.pc = "ready" => SameState(app, AppAt(Len(blocks)))
    /\ gob # NoFile => SameState(gob, AppAt(gob.LastBlockHeight))

(* No keyper's message is applied twice, though a proposer may put it into *)
(* two blocks, a keyper may send it again and blocks are replayed.         *)
AppliedOnce ==
    \A i, j \in DOMAIN app.Applied :
       Id(app.Applied[i]) = Id(app.Applied[j]) => i = j

(* When the node waits for the next block, all in its mempool is from      *)
(* keypers, at most MaxTxsPerBlock transactions from each, with different  *)
(* nonces, and nothing that has been delivered: so are the blocks the node *)
(* proposes, also after a restart and when others are about to be checked  *)
(* again.                                                                  *)
MempoolWithinLimits ==
    exec.pc = "ready" =>
      /\ \A i \in DOMAIN mempool :
           /\ mempool[i].Sender \in app.Keypers
           /\ Id(mempool[i]) \notin app.NonceTracker
           /\ \A j \in DOMAIN mempool : Id(mempool[i]) = Id(mempool[j]) => i = j
      /\ \A s \in Sender :
           Cardinality({i \in DOMAIN mempool : mempool[i].Sender = s}) <= MaxTxsPerBlock
=============================================================================
