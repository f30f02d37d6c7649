--------------------------- MODULE KeyperRuntime ---------------------------
(***************************************************************************)
(* How a keyper turns decisions into messages and transactions, and what   *)
(* survives a crash (keyper/keyper.go, keyper/fx).                         *)
(*                                                                         *)
(* The main loop decides on actions, saves its state together with them    *)
(* (state.gob), adds them to the pending actions (actions.gob) and         *)
(* schedules them.  Workers carry them out: one for shuttermint messages,  *)
(* one that sends main chain transactions, Workers that wait for receipts. *)
(* Every change of the pending actions is on disk before anything else     *)
(* happens.  A crash loses the rest: the state is what was saved last, the *)
(* channels and the workers are empty, the pending actions are scheduled   *)
(* again.  Of the decisions only maybeExecuteBatch is modelled in detail,  *)
(* since PendingHalfStep depends on what becomes of its transactions.      *)
(***************************************************************************)
EXTENDS Naturals, Sequences, SequencesExt, FiniteSets

CONSTANTS Workers,         \* numMainChainWorkers
          MaxParallel,     \* maxParallelHalfSteps
          FirstHalfStep,   \* the first half step to be executed
          MaxHalfSteps,    \* bound: the half steps are those below
          MaxMessages,     \* bound: shuttermint messages decided on
          MaxFailures      \* bound: crashes and lost answers

ASSUME ConstantsAssumption ==
    /\ Workers \in Nat \ {0}
    /\ MaxParallel \in Nat \ {0}
    /\ FirstHalfStep \in Nat /\ MaxHalfSteps \in Nat
    /\ MaxMessages \in Nat
    /\ MaxFailures \in Nat

VARIABLES
    State,         \* the keyper's state: ActionCounter, Actions, PendingHalfStep
    stored,        \* the state as last saved
    Pending,       \* PendingActions, in memory and on disk
    main,          \* the main loop: where it is and what it still schedules
    msgWorker,     \* the worker of the channel shuttermintMessages
    mainChainTXs,  \* the buffered channel
    txWorker,      \* its worker
    inFlight,      \* ids the other workers wait for
    world,         \* NumExecutionHalfSteps as the keyper has observed it
    chain,         \* the main chain: the half steps executed, the keyper's txs
    delivered,     \* history: ids of the messages shuttermint has received
    decided,       \* history: all actions ever decided on and saved
    failures       \* number of crashes and lost answers

volatile == <<State, main, msgWorker, mainChainTXs, txWorker, inFlight>>
workers  == <<msgWorker, mainChainTXs, txWorker, inFlight>>
history  == <<delivered, decided, failures>>
vars == <<State, stored, Pending, main, msgWorker, mainChainTXs, txWorker,
          inFlight, world, chain, delivered, decided, failures>>

Message == [type |-> "message"]
Execute(h) == [type |-> "tx", HalfStep |-> h]
Action == {Message} \cup {Execute(h) : h \in 0 .. MaxHalfSteps}

Idle == [pc |-> "idle"]
Busy(pc, id) == [pc |-> pc, id |-> id]

-----------------------------------------------------------------------------
(* Pending actions (fx/pending.go).  Action ids count the actions ever     *)
(* added, from 0.                                                          *)

NoPending == [ActionMap |-> [i \in {} |-> Message], MainChainTXHashes |-> [i \in {} |-> 0],
              CurrentID |-> 0]

(* A wrong variant: does not notice that the actions were added before.    *)
AddActionsAgain(id, actions) ==
    LET from == Pending.CurrentID
    IN  [Pending EXCEPT
           !.ActionMap = [i \in DOMAIN @ \cup from .. from + Len(actions) - 1 |->
                            IF i < from THEN @[i] ELSE actions[i - from + 1]],
           !.CurrentID = from + Len(actions)]

(* id is the number of the first of the actions.                           *)
AddActions(id, actions) ==
    LET from == Pending.CurrentID
        to   == id + Len(actions)
    IN  IF from >= to
          THEN Pending
          ELSE [Pending EXCEPT
                  !.ActionMap = [i \in DOMAIN @ \cup from .. to - 1 |->
                                   IF i < from THEN @[i] ELSE actions[i - id + 1]],
                  !.CurrentID = to]

SetMainChainTXHash(id, hash) ==
    [Pending EXCEPT !.MainChainTXHashes =
       [i \in DOMAIN @ \cup {id} |-> IF i = id THEN hash ELSE @[i]]]

RemoveAction(id) ==
    [Pending EXCEPT
       !.ActionMap = [i \in DOMAIN @ \ {id} |-> @[i]],
       !.MainChainTXHashes = [i \in DOMAIN @ \ {id} |-> @[i]]]

(* Wrong variants: the newest first, and none at all.                      *)
NewestFirst == SetToSortSeq(DOMAIN Pending.ActionMap, >)
NoIDs == <<>>

SortedIDs ==
    LET ids == DOMAIN Pending.ActionMap
    IN  CHOOSE s \in [1 .. Cardinality(ids) -> ids] :
           \A i, j \in DOMAIN s : i < j => s[i] < s[j]

IsExpired(action) == action.type = "tx" /\ world > action.HalfStep

-----------------------------------------------------------------------------
(* Decisions.                                                              *)

(* A wrong variant: the pending half step is forgotten on every decision.  *)
ForgetPendingHalfStep(h) == {}

(* What PendingHalfStep is when half step h is the next to be executed: it *)
(* is reset when it has been executed.                                     *)
StillPending(h) == {p \in State.PendingHalfStep : h <= p}

(* maybeExecuteBatch: n half steps, from the next one.                     *)
Executions(h, n) == [i \in 1 .. n |-> Execute(h + i - 1)]

-----------------------------------------------------------------------------

Init ==
    /\ State = [ActionCounter |-> 0, Actions |-> <<>>, PendingHalfStep |-> {}]
    /\ stored = State
    /\ Pending = NoPending
    /\ main = [pc |-> "decide", ids |-> <<>>, havePendingActions |-> FALSE]
    /\ msgWorker = Idle
    /\ mainChainTXs = <<>>
    /\ txWorker = Idle
    /\ inFlight = {}
    /\ world = FirstHalfStep
    /\ chain = [NumExecutionHalfSteps |-> FirstHalfStep, txs |-> <<>>]
    /\ delivered = <<>>
    /\ decided = <<>>
    /\ failures = 0

NumMessages == Cardinality({i \in DOMAIN decided : decided[i] = Message})

(* The state as it is read from the file: gob omits a pointer to 0, so the *)
(* pending half step 0 is not there after a restart, and the keyper may    *)
(* execute it once more.                                                   *)
GobCopy(state) == [state EXCEPT !.PendingHalfStep = @ \ {0}]

(* runOneStep up to saveState: the keyper has observed h half steps, sends *)
(* m messages and executes n half steps.  It does nothing about half steps *)
(* when it is out of sync or the current config is not active.             *)
DecideAndSave(h, m, n, active) ==
    LET waiting == IF active THEN StillPending(h) ELSE State.PendingHalfStep
        actions == [i \in 1 .. m |-> Message] \o Executions(h, n)
    IN  /\ main.pc = "decide"
        /\ NumMessages + m <= MaxMessages
        /\ n > 0 => active /\ waiting = {} /\ h + n <= MaxHalfSteps
        /\ world' = h
        /\ State' = [State EXCEPT
                       !.Actions = actions,
                       !.PendingHalfStep = IF n > 0 THEN {h + n - 1} ELSE waiting]
        /\ stored' = GobCopy(State')
        /\ decided' = decided \o actions
        /\ main' = [main EXCEPT !.pc = IF actions = <<>> THEN "decide" ELSE "add"]
        /\ UNCHANGED <<Pending, workers, chain, delivered, failures>>

(* runActions: AddActions, which panics unless ActionCounter <= CurrentID. *)
Add ==
    /\ main.pc = "add"
    /\ State.ActionCounter <= Pending.CurrentID
    /\ Pending' = AddActions(State.ActionCounter, State.Actions)
    /\ main' = [main EXCEPT
                  !.pc = "schedule",
                  !.ids = [i \in 1 .. Pending'.CurrentID - Pending.CurrentID |->
                             Pending.CurrentID + i - 1]]
    /\ UNCHANGED <<State, stored, workers, world, chain, history>>

(* A wrong variant: every transaction is sent, even if it has a hash.      *)
ScheduleAnew ==
    LET id == Head(main.ids)
        isTX == Pending.ActionMap[id].type = "tx"
    IN  /\ main.pc \in {"schedule", "load"}
        /\ main.ids # <<>>
        /\ main' = [main EXCEPT !.ids = Tail(@)]
        /\ \/ /\ ~isTX
              /\ msgWorker.pc = "idle"
              /\ msgWorker' = Busy("send", id)
              /\ UNCHANGED mainChainTXs
           \/ /\ isTX
              /\ Len(mainChainTXs) < Workers
              /\ mainChainTXs' = Append(mainChainTXs, id)
              /\ UNCHANGED msgWorker
        /\ UNCHANGED <<State, stored, Pending, txWorker, inFlight, world, chain,
                       history>>

(* scheduleAction blocks until the channel takes the id.                   *)
Schedule ==
    LET id == Head(main.ids)
        isTX == Pending.ActionMap[id].type = "tx"
        hasHash == id \in DOMAIN Pending.MainChainTXHashes
    IN  /\ main.pc \in {"schedule", "load"}
        /\ main.ids # <<>>
        /\ main' = [main EXCEPT !.ids = Tail(@)]
        /\ \/ /\ ~isTX
              /\ msgWorker.pc = "idle"
              /\ msgWorker' = Busy("send", id)
              /\ UNCHANGED <<mainChainTXs, inFlight>>
           \/ /\ isTX /\ ~hasHash
              /\ Len(mainChainTXs) < Workers
              /\ mainChainTXs' = Append(mainChainTXs, id)
              /\ UNCHANGED <<msgWorker, inFlight>>
           \/ /\ isTX /\ hasHash
              /\ Cardinality(inFlight) < Workers
              /\ inFlight' = inFlight \cup {id}
              /\ UNCHANGED <<msgWorker, mainChainTXs>>
        /\ UNCHANGED <<State, stored, Pending, txWorker, world, chain, history>>

(* The end of runActions.                                                  *)
Scheduled ==
    /\ main.pc = "schedule"
    /\ main.ids = <<>>
    /\ State' = [State EXCEPT !.ActionCounter = @ + Len(State.Actions),
                              !.Actions = <<>>]
    /\ main' = [main EXCEPT !.pc = "decide"]
    /\ UNCHANGED <<stored, Pending, workers, world, chain, history>>

(* A chain receives what a worker sends; the answer may get lost.          *)
Answers(answered) ==
    /\ answered \/ failures < MaxFailures
    /\ failures' = IF answered THEN failures ELSE failures + 1

(* The message worker.  A message is sent again after an error that says   *)
(* nothing of shuttermint, even if shuttermint has received it.            *)
SendMessage(answered) ==
    /\ msgWorker.pc = "send"
    /\ Answers(answered)
    /\ delivered' = Append(delivered, msgWorker.id)
    /\ msgWorker' = IF answered THEN Busy("remove", msgWorker.id) ELSE msgWorker
    /\ UNCHANGED <<State, stored, Pending, main, mainChainTXs, txWorker, inFlight,
                   world, chain, decided>>

MessageSent ==
    /\ msgWorker.pc = "remove"
    /\ Pending' = RemoveAction(msgWorker.id)
    /\ msgWorker' = Idle
    /\ UNCHANGED <<State, stored, main, mainChainTXs, txWorker, inFlight, world,
                   chain, history>>

(* The transaction worker.                                                 *)
TakeTX ==
    /\ txWorker.pc = "idle"
    /\ mainChainTXs # <<>>
    /\ txWorker' = Busy("send", Head(mainChainTXs))
    /\ mainChainTXs' = Tail(mainChainTXs)
    /\ UNCHANGED <<State, stored, Pending, main, msgWorker, inFlight, world, chain,
                   history>>

Expire ==
    /\ txWorker.pc = "send"
    /\ IsExpired(Pending.ActionMap[txWorker.id])
    /\ Pending' = RemoveAction(txWorker.id)
    /\ txWorker' = Idle
    /\ UNCHANGED <<State, stored, main, msgWorker, mainChainTXs, inFlight, world,
                   chain, history>>

(* A transaction's hash is its number.  After an error it is sent again,   *)
(* although the node may have got it.                                      *)
SendTX(answered) ==
    LET id == txWorker.id
    IN  /\ txWorker.pc = "send"
        /\ ~IsExpired(Pending.ActionMap[id])
        /\ Answers(answered)
        /\ chain' = [chain EXCEPT !.txs =
             Append(@, [id |-> id, HalfStep |-> Pending.ActionMap[id].HalfStep,
                        status |-> "pending"])]
        /\ txWorker' = IF answered THEN Busy("sent", id) ELSE txWorker
        /\ UNCHANGED <<State, stored, Pending, main, msgWorker, mainChainTXs,
                       inFlight, world, delivered, decided>>

RecordTX ==
    /\ txWorker.pc = "sent"
    /\ Pending' = SetMainChainTXHash(txWorker.id, Len(chain.txs))
    /\ txWorker' = Busy("pass", txWorker.id)
    /\ UNCHANGED <<State, stored, main, msgWorker, mainChainTXs, inFlight, world,
                   chain, history>>

PassTX ==
    /\ txWorker.pc = "pass"
    /\ Cardinality(inFlight) < Workers
    /\ inFlight' = inFlight \cup {txWorker.id}
    /\ txWorker' = Idle
    /\ UNCHANGED <<State, stored, Pending, main, msgWorker, mainChainTXs, world,
                   chain, history>>

(* A worker gets the receipt of its transaction, or an error instead.  It  *)
(* removes the action in any case, whatever the receipt says.              *)
TXMined(id, error) ==
    /\ id \in inFlight
    /\ error \/ chain.txs[Pending.MainChainTXHashes[id]].status # "pending"
    /\ Pending' = RemoveAction(id)
    /\ inFlight' = inFlight \ {id}
    /\ UNCHANGED <<State, stored, main, msgWorker, mainChainTXs, txWorker, world,
                   chain, history>>

-----------------------------------------------------------------------------
(* The main chain mines the keyper's transactions in order.  Executing any *)
(* half step but the next one reverts; it may also revert for reasons of   *)
(* its own, such as gas or what the batch contains.                        *)

NextTX == CHOOSE i \in DOMAIN chain.txs :
             /\ chain.txs[i].status = "pending"
             /\ \A j \in 1 .. i - 1 : chain.txs[j].status # "pending"

Mine(success) ==
    /\ \E i \in DOMAIN chain.txs : chain.txs[i].status = "pending"
    /\ success => chain.txs[NextTX].HalfStep = chain.NumExecutionHalfSteps
    /\ chain' = [chain EXCEPT
                   !.txs[NextTX].status = IF success THEN "success" ELSE "reverted",
                   !.NumExecutionHalfSteps = IF success THEN @ + 1 ELSE @]
    /\ UNCHANGED <<volatile, stored, Pending, world, history>>

(* Another keyper executes the next half step.                             *)
OtherExecutes ==
    /\ chain.NumExecutionHalfSteps < MaxHalfSteps
    /\ chain' = [chain EXCEPT !.NumExecutionHalfSteps = @ + 1]
    /\ UNCHANGED <<volatile, stored, Pending, world, history>>

-----------------------------------------------------------------------------
(* A crash, and the start of the program up to runenv.Load.  The main      *)
(* chain has been synced by then, up to the block the keyper follows it    *)
(* to, which is no older than the one it had seen before.                  *)
CrashAndRestart ==
    /\ failures < MaxFailures
    /\ failures' = failures + 1
    /\ State' = stored
    /\ main' = [pc |-> "load", ids |-> SortedIDs,
                havePendingActions |-> DOMAIN Pending.ActionMap # {}]
    /\ msgWorker' = Idle
    /\ mainChainTXs' = <<>>
    /\ txWorker' = Idle
    /\ inFlight' = {}
    /\ world' \in world .. chain.NumExecutionHalfSteps
    /\ UNCHANGED <<stored, Pending, chain, delivered, decided>>

(* A wrong variant: the actions saved with the state are not run.          *)
LoadedForgettingActions ==
    /\ main.pc = "load"
    /\ main.ids = <<>>
    /\ main' = [main EXCEPT !.pc = "decide"]
    /\ UNCHANGED <<State, stored, Pending, workers, world, chain, history>>

(* After runenv.Load: PendingHalfStep is repaired, saved actions are run.  *)
Loaded ==
    /\ main.pc = "load"
    /\ main.ids = <<>>
    /\ State' = IF ~main.havePendingActions /\ State.Actions = <<>>
                  THEN [State EXCEPT !.PendingHalfStep = {}]
                  ELSE State
    /\ main' = [main EXCEPT !.pc = IF State.Actions = <<>> THEN "decide" ELSE "add"]
    /\ UNCHANGED <<stored, Pending, workers, world, chain, history>>

MainLoop ==
    \/ \E h \in world .. chain.NumExecutionHalfSteps, m \in 0 .. MaxMessages,
          n \in 0 .. MaxParallel, active \in BOOLEAN : DecideAndSave(h, m, n, active)
    \/ Add \/ Schedule \/ Scheduled \/ Loaded

Worker ==
    \/ \E answered \in BOOLEAN : SendMessage(answered) \/ SendTX(answered)
    \/ MessageSent
    \/ TakeTX \/ Expire \/ RecordTX \/ PassTX
    \/ \E id \in inFlight, error \in BOOLEAN : TXMined(id, error)

MainChain == OtherExecutes \/ \E success \in BOOLEAN : Mine(success)

Next == MainLoop \/ Worker \/ MainChain \/ CrashAndRestart

Spec == Init /\ [][Next]_vars

(* The goroutines keep running, shuttermint answers at last, transactions  *)
(* are mined at last.  Nothing is assumed of decisions and of crashes.  An *)
(* execution is retried until it is sent or expires; that it can be sent   *)
(* or expires at last is assumed (WF of SendTX).  The code does not assure *)
(* it of accusations and appeals: these never expire, and one whose gas    *)
(* estimate fails for good would keep the worker.                          *)
Fairness ==
    /\ WF_vars(Add \/ Schedule \/ Scheduled \/ Loaded)
    /\ WF_vars(SendMessage(TRUE) \/ MessageSent)
    /\ WF_vars(TakeTX \/ Expire \/ SendTX(TRUE) \/ RecordTX \/ PassTX)
    /\ WF_vars(\E id \in inFlight : TXMined(id, FALSE))
    /\ WF_vars(\E success \in BOOLEAN : Mine(success))

FairSpec == Spec /\ Fairness

-----------------------------------------------------------------------------
(* Properties.                                                             *)

ActionID == 0 .. Len(decided) - 1

(* The internal checks of the code never fail, whenever the keyper has     *)
(* crashed: AddActions is not called with an id it has not reached yet, a  *)
(* step does not begin with actions left over, and an action that is to be *)
(* scheduled or carried out is still there.                                *)
NeverPanics ==
    /\ main.pc = "add" => State.ActionCounter <= Pending.CurrentID
    /\ main.pc = "decide" => State.Actions = <<>>
    /\ ToSet(main.ids) \cup ToSet(mainChainTXs) \cup inFlight
          \subseteq DOMAIN Pending.ActionMap
    /\ \A w \in {msgWorker, txWorker} :
          w.pc # "idle" => w.id \in DOMAIN Pending.ActionMap

HasBeenTried(id) ==
    LET action == decided[id + 1]
    IN  \/ action = Message /\ id \in ToSet(delivered)
        \/ /\ action.type = "tx"
           /\ \/ \E i \in DOMAIN chain.txs : chain.txs[i].id = id
              \/ chain.NumExecutionHalfSteps > action.HalfStep

(* No action that was decided on gets lost or becomes another one, at      *)
(* whatever moment the keyper crashes.  It is in the saved state until it  *)
(* is a pending action, and a pending action until it has reached its      *)
(* chain, or the chain is past it.                                         *)
NothingLost ==
    \A id \in ActionID :
       IF id >= Pending.CurrentID
         THEN /\ id - stored.ActionCounter + 1 \in DOMAIN stored.Actions
              /\ stored.Actions[id - stored.ActionCounter + 1] = decided[id + 1]
         ELSE IF id \in DOMAIN Pending.ActionMap
                THEN Pending.ActionMap[id] = decided[id + 1]
                ELSE HasBeenTried(id)

(* Shuttermint receives a message only after all messages that were        *)
(* decided on before, also when they are sent again after a crash.         *)
MessagesInOrder ==
    \A i \in DOMAIN delivered, id \in ActionID :
       id < delivered[i] /\ decided[id + 1] = Message =>
          \E j \in 1 .. i - 1 : delivered[j] = id

(* A keyper does not compete with itself: no two transactions that execute *)
(* the same half step are under way.  Only half step 0 may be executed     *)
(* twice, and only by a keyper that has crashed, since its state does not  *)
(* keep a pending half step 0.                                             *)
NoCompetingExecutions ==
    \A i, j \in DOMAIN Pending.ActionMap :
       /\ Pending.ActionMap[i].type = "tx"
       /\ Pending.ActionMap[i] = Pending.ActionMap[j]
       => i = j \/ (Pending.ActionMap[i].HalfStep = 0 /\ failures > 0)

(* A transaction that was sent and whose hash was recorded is not sent     *)
(* again after a restart.                                                  *)
NeverResent ==
    [][Len(chain'.txs) > Len(chain.txs) =>
         txWorker.id \notin DOMAIN Pending.MainChainTXHashes]_vars

(* Every action is done with at some time, if the keyper stops crashing.   *)
EveryActionEnds ==
    \A id \in 0 .. MaxMessages + MaxHalfSteps :
       (id \in ActionID) ~>
          (id < Pending.CurrentID /\ id \notin DOMAIN Pending.ActionMap)

Decide == \E h \in world .. chain.NumExecutionHalfSteps, m \in 0 .. MaxMessages,
             n \in 0 .. MaxParallel, active \in BOOLEAN :
                DecideAndSave(h, m, n, active)

ExecutionUnderWay ==
    \/ \E id \in DOMAIN Pending.ActionMap : Pending.ActionMap[id].type = "tx"
    \/ \E i \in DOMAIN State'.Actions : State'.Actions[i].type = "tx"
    \/ \E i \in DOMAIN chain.txs : chain.txs[i].status = "pending"

(* A keyper that, after a decision, holds back executions because of a     *)
(* pending half step, that nobody has executed, has a transaction under    *)
(* way that may execute it.                                                *)
WaitsOnlyForPendingTX ==
    [][Decide => \A p \in State'.PendingHalfStep :
                    p >= chain.NumExecutionHalfSteps => ExecutionUnderWay]_vars
=============================================================================
