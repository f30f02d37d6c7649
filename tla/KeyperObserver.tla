--------------------------- MODULE KeyperObserver ---------------------------
(***************************************************************************)
(* How a keyper gets to know what its shuttermint node has executed        *)
(* (keyper/keyper.go, keyper/observe/shutter.go).                          *)
(*                                                                         *)
(* One goroutine, SyncShielder, fetches the events of new blocks into its  *)
(* Shielder and hands it over to the main loop.  The main loop decides     *)
(* (here: handles the events from SyncHeight on), saves its state together *)
(* with the Shielder it decided on, and sends a filter back, if there is   *)
(* room in the channel: the goroutine may then forget the older events.    *)
(* It goes on in the meantime, so its Shielder may be newer than the       *)
(* filter.  A crash loses all but the file.                                *)
(*                                                                         *)
(* The keyper is one of NewKeypers: it is registered by a config message.  *)
(***************************************************************************)
EXTENDS ShielderNode, Integers

CONSTANTS MaxBatchIndex,     \* bound: batches executed on the main chain
          MaxRestarts        \* bound: restarts of the keyper

ASSUME ObserverAssumption == MaxBatchIndex \in Nat /\ MaxRestarts \in Nat

VARIABLES
    sync,       \* the goroutine SyncShielder: its Shielder, and whether it hands it over
    filters,    \* the channel filter
    world,      \* what the main loop was given last; None when it starts
    State,      \* the keyper's state: SyncHeight, and the events handled so far
    stored,     \* the file state.gob
    restarts,   \* number of restarts
    skipped,    \* history: a decision was put off since a chain was not in sync
    repaired,   \* history: LoadState has changed SyncHeight
    watched     \* bound: whether the keyper runs; else the node may crash

keyperVars == <<sync, filters, world, State, stored, restarts, skipped, repaired, watched>>
vars == <<nodeVars, keyperVars>>

None == [BatchIndex |-> 0]

-----------------------------------------------------------------------------
(* The events of the chain.                                                *)

EventsAt(height) ==
    LET before == Len(AppAt(height - 1).Applied)
        after  == AppAt(height).Applied
    IN  [i \in 1 .. Len(after) - before |->
           [Height |-> height, Msg |-> after[before + i]]]

EventsBetween(from, to) ==
    IF to < from
      THEN <<>>
      ELSE FlattenSeq([i \in 1 .. to |-> IF i < from THEN <<>> ELSE EventsAt(i)])

(* The events from the block at height on that are of one of the kinds     *)
(* msgs, in order.  (A recursive function, as the prover does not know     *)
(* SelectSeq.)                                                             *)
Since(events, height, msgs) ==
    LET kept[n \in 0 .. Len(events)] ==
          IF n = 0
            THEN <<>>
            ELSE IF events[n].Height >= height /\ events[n].Msg.Msg \in msgs
                   THEN Append(kept[n - 1], events[n])
                   ELSE kept[n - 1]
    IN  kept[Len(events)]

OfMsg(events, msg) == Since(events, 0, {msg})

From(events, height) == Since(events, height, Msg)

-----------------------------------------------------------------------------
(* Shielder.                                                               *)

NewShielder ==
    [CurrentBlock |-> -1, Registered |-> FALSE, Events |-> <<>>,
     Filter |-> [SyncHeight |-> 0, BatchIndex |-> 0]]

NeedsUpdate(filter, new) ==
    new.SyncHeight > filter.SyncHeight \/ new.BatchIndex > filter.BatchIndex

(* A wrong variant: no event is kept.                                      *)
FilterAll(events, height) == <<>>

(* What Eon.ApplyFilter keeps: the shares are not copied at all.           *)
FilterSyncHeight(events, height) ==
    Since(events, height, Msg \ {"share"})

ApplyFilter(shielder, filter) ==
    IF NeedsUpdate(shielder.Filter, filter)
      THEN [shielder EXCEPT !.Filter = filter,
                            !.Events = FilterSyncHeight(@, filter.SyncHeight)]
      ELSE shielder

fetchAndApplyEvents(shielder, height) ==
    LET new == EventsBetween(shielder.CurrentBlock + 1, height)
    IN  [shielder EXCEPT
           !.Registered = @ \/ OfMsg(new, "config") # <<>>,
           !.Events = @ \o Since(new, 0, Msg \ {"config"}),
           !.CurrentBlock = height]

-----------------------------------------------------------------------------
(* The main loop.                                                          *)

NewState == [SyncHeight |-> 0, Handled |-> <<>>]

(* Whether both nodes are in sync is found out with every step.            *)
Decide(state, w) ==
    IF w.InSync /\ w.Shielder.Registered
      THEN [SyncHeight |-> w.Shielder.CurrentBlock + 1,
            Handled |-> state.Handled \o From(w.Shielder.Events, state.SyncHeight)]
      ELSE state

GetShielderFilter(state, w) ==
    [SyncHeight |-> state.SyncHeight, BatchIndex |-> w.BatchIndex]

(* Decide, save, offer the filter: no other goroutine sees a difference if *)
(* this is one step.                                                       *)
runOneStep(w) ==
    LET state  == Decide(State, w)
        filter == GetShielderFilter(state, w)
    IN  /\ world' = w
        /\ State' = state
        /\ stored' = [State |-> state, world |-> w]
        /\ skipped' = (skipped \/ ~w.InSync)
        /\ filters' = IF Len(filters) < 3 THEN Append(filters, filter) ELSE filters

(* What a step finds: how many batches have been executed on the main      *)
(* chain, and whether the nodes are in sync.                               *)
MainChain(w) == {b \in 0 .. MaxBatchIndex : b >= w.BatchIndex} \X BOOLEAN

WorldOf(shielder, mainChain) ==
    [Shielder |-> shielder, BatchIndex |-> mainChain[1], InSync |-> mainChain[2]]

-----------------------------------------------------------------------------
(* Actions.                                                                *)

KeyperInit ==
    /\ sync = [Shielder |-> NewShielder, sending |-> FALSE]
    /\ filters = <<>>
    /\ world = None
    /\ State = NewState
    /\ stored = None
    /\ restarts = 0
    /\ skipped = FALSE
    /\ repaired = FALSE
    /\ watched \in BOOLEAN

Init == NodeInit /\ KeyperInit

(* A block arrives: fetch the events of all blocks but the last.  If that  *)
(* fails it is tried again with the next block.                            *)
SyncToHead ==
    LET height == Len(blocks) - 1 IN
    /\ ~sync.sending
    /\ height >= 0 /\ height # sync.Shielder.CurrentBlock
    /\ sync' = [Shielder |-> fetchAndApplyEvents(sync.Shielder, height), sending |-> TRUE]
    /\ UNCHANGED <<filters, world, State, stored, restarts, skipped, repaired, watched>>

TakeFilter ==
    /\ ~sync.sending
    /\ filters # <<>>
    /\ sync' = [sync EXCEPT !.Shielder = ApplyFilter(@, Head(filters))]
    /\ filters' = Tail(filters)
    /\ UNCHANGED <<world, State, stored, restarts, skipped, repaired, watched>>

(* The channel is not buffered.  No decision is made on the first Shielder *)
(* after a start.                                                          *)
ReceiveShielder(mainChain) ==
    LET w == WorldOf(sync.Shielder, mainChain) IN
    /\ sync.sending
    /\ sync' = [sync EXCEPT !.sending = FALSE]
    /\ IF world = None
         THEN world' = w /\ UNCHANGED <<filters, State, stored, skipped>>
         ELSE mainChain = <<world.BatchIndex, world.InSync>> /\ runOneStep(w)
    /\ UNCHANGED <<restarts, repaired, watched>>

ReceiveMainChain(mainChain) ==
    /\ world # None /\ mainChain # <<world.BatchIndex, world.InSync>>
    /\ runOneStep(WorldOf(world.Shielder, mainChain))
    /\ UNCHANGED <<sync, restarts, repaired, watched>>

(* LoadState: a file of an older version has no SyncHeight.  Neither has   *)
(* that of a keyper that has put off all decisions so far.                 *)
NeedsFixing(file) ==
    file.State.SyncHeight = 0 /\ file.world.Shielder.CurrentBlock > 0

LoadState(file) ==
    IF NeedsFixing(file)
      THEN [file.State EXCEPT !.SyncHeight = file.world.Shielder.CurrentBlock]
      ELSE file.State

Restart ==
    /\ restarts < MaxRestarts
    /\ restarts' = restarts + 1
    /\ filters' = <<>>
    /\ world' = None
    /\ IF stored = None
         THEN /\ State' = NewState
              /\ sync' = [Shielder |-> NewShielder, sending |-> FALSE]
              /\ UNCHANGED repaired
         ELSE /\ State' = LoadState(stored)
              /\ sync' = [Shielder |-> stored.world.Shielder, sending |-> FALSE]
              /\ repaired' = (repaired \/ NeedsFixing(stored))
    /\ UNCHANGED <<stored, skipped, watched>>

KeyperNext ==
    \/ SyncToHead
    \/ TakeFilter
    \/ \E mainChain \in MainChain(world) :
          ReceiveShielder(mainChain) \/ ReceiveMainChain(mainChain)
    \/ Restart

(* Bound: where the keyper runs the node neither crashes nor receives      *)
(* transactions, nothing is delivered twice, and the keyper does nothing   *)
(* while a block is executed.  It only sees what has been executed, which  *)
(* is the same after a crash.  Where it does not run the chain is shorter. *)
NextOfNode ==
    IF watched
      THEN \/ exec # Ready /\ (Deliver \/ EndTheBlock \/ Commit(FALSE))
           \/ \E block \in Proposals :
                /\ \A i \in DOMAIN block : Id(block[i]) \notin app.NonceTracker
                /\ IsInjective([i \in DOMAIN block |-> Id(block[i])])
                /\ NewBlock(block)
      ELSE NodeNext /\ Len(blocks') < MaxHeight - 1

Next ==
    \/ NextOfNode /\ UNCHANGED keyperVars
    \/ watched /\ exec = Ready /\ KeyperNext /\ UNCHANGED nodeVars

Spec == Init /\ [][Next]_vars

-----------------------------------------------------------------------------
(* Properties.                                                             *)

(* The block in which the keyper was registered, or the next one.          *)
RegisteredAt ==
    Min({e.Height : e \in ToSet(OfMsg(EventsBetween(1, Len(blocks)), "config"))}
          \cup {Len(blocks) + 1})

AsKeyper(events) == From(events, RegisteredAt)

Expected(state, msg) == OfMsg(EventsBetween(1, state.SyncHeight - 1), msg)

(* The events the keyper has handled are those of the blocks below         *)
(* SyncHeight, each once, in order, wherever it crashed and whatever the   *)
(* filter has removed, in memory and in the file: the DKG's in any case,   *)
(* the shares since it is a keyper.  There are two exceptions.  If a       *)
(* decision was put off shares may be lost: ApplyFilter drops all of them, *)
(* not only those below SyncHeight.  And if LoadState has set SyncHeight,  *)
(* all that the blocks before contained is lost.                           *)
HandledOnce ==
    ~repaired =>
      \A state \in {State} \cup {f.State : f \in {stored} \ {None}} :
         /\ OfMsg(state.Handled, "deal") = Expected(state, "deal")
         /\ ~skipped => AsKeyper(OfMsg(state.Handled, "share"))
                          = AsKeyper(Expected(state, "share"))
=============================================================================
