----------------------------- MODULE KeyperDKG -----------------------------
(***************************************************************************)
(* One eon: the keypers of a batch config generate the eon key by sending  *)
(* each other messages through the shuttermint chain (keyper/decide.go,    *)
(* keyper/observe/shutter.go).  The phases of the protocol are intervals   *)
(* of block heights.  A keyper looks at the chain whenever it gets to it,  *)
(* at any height; what it sends reaches the chain in order, but any number *)
(* of blocks later, possibly twice, possibly never.                        *)
(*                                                                         *)
(* The keypers in Honest run the program.  The others may send the         *)
(* messages of Misbehaviour at any height, in any order.                   *)
(***************************************************************************)
EXTENDS PureDKG, Sequences, DKGInstance

CONSTANTS Honest,        \* the keypers that follow the protocol
          PhaseLength,   \* DKGPhaseLength, in blocks
          StartHeight,   \* the height of the EonStarted event
          MaxHeight,     \* bound: the last block that is committed
          LateCheckIns,  \* keypers whose check-in is not yet on the chain
          Misbehaviour,  \* the sets of messages the others may send in a block
          Slow,          \* bound: honest keypers whose messages may be late
          MaxLag,        \* bound: blocks an honest keyper may be behind
          MaxLosses      \* bound: messages refused and answers lost

ASSUME HonestAssumption == Honest \subseteq Keypers
ASSUME PhaseLengthAssumption == PhaseLength \in Nat \ {0}
ASSUME StartHeightAssumption == StartHeight \in Nat
ASSUME MaxHeightAssumption == MaxHeight \in Nat /\ MaxHeight >= StartHeight
ASSUME SlowAssumption == Slow \subseteq Honest
ASSUME MaxLagAssumption == MaxLag \in Nat
ASSUME MaxLossesAssumption == MaxLosses \in Nat

Eon == 1

VARIABLES
    height,     \* height of the last committed block
    events,     \* the events of the eon, each with the height of its block
    checkIns,   \* the keypers' check-in events
    keypers,    \* the state of each honest keyper
    losses      \* the number of refused messages and lost answers

vars == <<height, events, checkIns, keypers, losses>>

(* Others are the keypers a message is about, see DKGInstance; Evals are   *)
(* the evaluations sent to them, if any.                                   *)
Msg(kind, sender, others, evals, degreeOK) ==
    [Kind |-> kind, Eon |-> Eon, Sender |-> sender, Others |-> others,
     Evals |-> evals, DegreeOK |-> degreeOK]

MsgType ==
    [Kind : DKGMsgKind \cup {"EonStartVote"}, Eon : {Eon}, Sender : Keypers,
     Others : SUBSET Keypers,
     Evals : UNION {[s -> {"good", "bad", "invalid"}] : s \in SUBSET Keypers},
     DegreeOK : BOOLEAN]

(* Only keypers that are not honest misbehave.  Parsing refuses a message  *)
(* without an evaluation for each keyper it is about (app/messages.go:29   *)
(* and 96).  In one block a keyper can have one message of a kind accepted *)
(* about another keyper; a block holds no more than that.                  *)
ASSUME MisbehaviourAssumption ==
    \A msgs \in Misbehaviour :
       /\ msgs \subseteq {m \in MsgType : m.Sender \notin Honest}
       /\ \A m \in msgs :
            m.Kind \in {"PolyEval", "Apology"} => DOMAIN m.Evals = m.Others
       /\ \A m, n \in msgs :
            m.Sender = n.Sender /\ m.Kind = n.Kind =>
               m = n \/ (m.Kind = "PolyEval" /\ m.Others \cap n.Others = {})

PolyCommitmentMsg(k) == Msg("PolyCommitment", k, {}, <<>>, TRUE)
PolyEvalMsg(k, receivers) ==
    Msg("PolyEval", k, receivers, [r \in receivers |-> "good"], TRUE)
AccusationMsg(k, accused) == Msg("Accusation", k, accused, <<>>, TRUE)
ApologyMsg(k, accusers) ==
    Msg("Apology", k, accusers, [a \in accusers |-> "good"], TRUE)
EonStartVoteMsg(k) == Msg("EonStartVote", k, {}, <<>>, TRUE)

-----------------------------------------------------------------------------
(* Phases.                                                                 *)

getPhaseAtHeight(h) ==
    CASE h < StartHeight                   -> Off
      [] h \in StartHeight .. StartHeight + PhaseLength - 1 -> Dealing
      [] h \in StartHeight + PhaseLength .. StartHeight + 2 * PhaseLength - 1
                                           -> Accusing
      [] h \in StartHeight + 2 * PhaseLength .. StartHeight + 3 * PhaseLength - 1
                                           -> Apologizing
      [] OTHER                             -> Finalized

(* A wrong variant: looks one block too far ahead.                         *)
phaseTwoBlocksAhead(currentBlock) == getPhaseAtHeight(currentBlock + 2)

(* The phase of the first block a message sent now can get into.           *)
phaseAtNextBlockHeight(currentBlock) == getPhaseAtHeight(currentBlock + 1)

(* A wrong variant: the phase is not looked at.                            *)
PublishedInAnyPhase(kind, phase, from, to) ==
    {e.Msg : e \in {f \in events : f.Msg.Kind = kind /\ f.Height \in from .. to}}

(* The messages of a kind that were published at a height from from to to  *)
(* in the given phase.                                                     *)
Published(kind, phase, from, to) ==
    {e.Msg : e \in {f \in events : /\ f.Msg.Kind = kind
                                   /\ f.Height \in from .. to
                                   /\ getPhaseAtHeight(f.Height) = phase}}

-----------------------------------------------------------------------------
(* A keyper kp is a record of its PureDKG and, for this eon: the receivers *)
(* of the poly evals it still has to send, the messages handed to the run  *)
(* environment and not yet acknowledged, the height up to which events     *)
(* have been handled, and the outcome.                                     *)

NewKeyper ==
    [Pure |-> NewPureDKG, Outgoing |-> {}, Actions |-> <<>>,
     SyncHeight |-> StartHeight, Result |-> "running"]

Send(kp, msg) == [kp EXCEPT !.Actions = Append(@, msg)]

(* A wrong variant: the keyper also sends itself an evaluation.            *)
startPhase1SendToAll(kp, k, next) ==
    LET dealt == [kp EXCEPT !.Pure = StartPhase1Dealing(@, k)]
    IN  CASE kp.Pure.Phase # Off \/ next < Dealing -> kp
          [] kp.Pure.Phase = Off /\ next = Dealing ->
               Send([dealt EXCEPT !.Outgoing = Keypers], PolyCommitmentMsg(k))
          [] OTHER -> dealt

startPhase1Dealing(kp, k, next) ==
    LET dealt == [kp EXCEPT !.Pure = StartPhase1Dealing(@, k)]
    IN  CASE kp.Pure.Phase # Off \/ next < Dealing -> kp
          [] kp.Pure.Phase = Off /\ next = Dealing ->
               Send([dealt EXCEPT !.Outgoing = Keypers \ {k}], PolyCommitmentMsg(k))
          [] OTHER -> dealt

startPhase2Accusing(kp, k, next) ==
    LET accusing == [kp EXCEPT !.Pure.Phase = Accusing]
    IN  CASE kp.Pure.Phase # Dealing \/ next < Accusing -> kp
          [] kp.Pure.Phase = Dealing /\ next = Accusing ->
               Send(accusing, AccusationMsg(k, ToAccuse(kp.Pure, k)))
          [] OTHER -> accusing

(* A wrong variant: a keyper that skipped the apologizing phase stays put. *)
startPhase3OnTime(kp, k, next) ==
    IF kp.Pure.Phase = Accusing /\ next = Apologizing
      THEN Send([kp EXCEPT !.Pure.Phase = Apologizing],
                ApologyMsg(k, ToApologize(kp.Pure, k)))
      ELSE kp

startPhase3Apologizing(kp, k, next) ==
    LET apologizing == [kp EXCEPT !.Pure.Phase = Apologizing]
    IN  CASE kp.Pure.Phase # Accusing \/ next < Apologizing -> kp
          [] kp.Pure.Phase = Accusing /\ next = Apologizing ->
               Send(apologizing, ApologyMsg(k, ToApologize(kp.Pure, k)))
          [] OTHER -> apologizing

dkgFinalize(kp, k, next) ==
    LET final == [kp EXCEPT !.Pure.Phase = Finalized]
    IN  CASE kp.Pure.Phase # Apologizing \/ next < Finalized -> kp
          [] kp.Pure.Phase = Apologizing /\ next >= Finalized
             /\ ComputeResultOK(kp.Pure, k) -> [final EXCEPT !.Result = "ok"]
          [] OTHER -> Send([final EXCEPT !.Result = "failed"], EonStartVoteMsg(k))

(* The events of blocks SyncHeight .. currentBlock go to the PureDKG, each *)
(* kind before the phase change that ends its phase.                       *)
syncPolyMsgs(kp, k, currentBlock) ==
    [kp EXCEPT !.Pure =
       HandlePolyEvalMsgs(
         HandlePolyCommitmentMsgs(@,
           Published("PolyCommitment", Dealing, kp.SyncHeight, currentBlock)),
         k, Published("PolyEval", Dealing, kp.SyncHeight, currentBlock))]

syncAccusations(kp, currentBlock) ==
    [kp EXCEPT !.Pure =
       HandleAccusationMsgs(@,
         Published("Accusation", Accusing, kp.SyncHeight, currentBlock))]

syncApologies(kp, currentBlock) ==
    [kp EXCEPT !.Pure =
       HandleApologyMsgs(@,
         Published("Apology", Apologizing, kp.SyncHeight, currentBlock))]

syncDKGWithEon(kp, k, currentBlock) ==
    LET next == phaseAtNextBlockHeight(currentBlock)
        kp1 == startPhase1Dealing(kp, k, next)
        kp2 == syncPolyMsgs(kp1, k, currentBlock)
        kp3 == startPhase2Accusing(kp2, k, next)
        kp4 == syncAccusations(kp3, currentBlock)
        kp5 == startPhase3Apologizing(kp4, k, next)
        kp6 == syncApologies(kp5, currentBlock)
    IN  dkgFinalize(kp6, k, next)

(* Poly evals can be sent to keypers whose encryption key is known.        *)
sendPolyEvals(kp, k, currentBlock) ==
    LET known == {r \in kp.Outgoing :
                    \E c \in checkIns : c.Sender = r /\ c.Height <= currentBlock}
    IN  CASE kp.Pure.Phase > Dealing -> [kp EXCEPT !.Outgoing = {}]
          [] kp.Pure.Phase <= Dealing /\ known # {} ->
               Send([kp EXCEPT !.Outgoing = @ \ known], PolyEvalMsg(k, known))
          [] OTHER -> kp

handleDKGs(kp, k, currentBlock) ==
    IF kp.Pure.Phase = Finalized
      THEN kp
      ELSE sendPolyEvals(syncDKGWithEon(kp, k, currentBlock), k, currentBlock)

-----------------------------------------------------------------------------
(* The app's part: a message is published unless its sender has published  *)
(* such a message before.  What the app remembers of the eon follows from  *)
(* the events it has published.  It only asks the config who is a keyper,  *)
(* so here the keypers index themselves instead of being put in an order.  *)

MsgsOf(kind) == {e.Msg : e \in {f \in events : f.Msg.Kind = kind}}

AppInstance ==
    [NewDKGInstance([Keypers |-> [k \in Keypers |-> k]], Eon) EXCEPT
       !.PolyEvalsSeen = UNION {{m.Sender} \X m.Others : m \in MsgsOf("PolyEval")},
       !.PolyCommitmentsSeen = {m.Sender : m \in MsgsOf("PolyCommitment")},
       !.AccusationsSeen = {m.Sender : m \in MsgsOf("Accusation")},
       !.ApologiesSeen = {m.Sender : m \in MsgsOf("Apology")}]

CanRegister(msg) ==
    CASE msg.Kind = "PolyEval"       -> CanRegisterPolyEvalMsg(AppInstance, msg)
      [] msg.Kind = "PolyCommitment" -> CanRegisterPolyCommitmentMsg(AppInstance, msg)
      [] msg.Kind = "Accusation"     -> CanRegisterAccusationMsg(AppInstance, msg)
      [] msg.Kind = "Apology"        -> CanRegisterApologyMsg(AppInstance, msg)
      [] OTHER                       -> FALSE

-----------------------------------------------------------------------------
(* Actions.                                                                *)

Init ==
    /\ height = StartHeight
    /\ events = {}
    /\ checkIns = {[Height |-> StartHeight, Sender |-> k] :
                     k \in Keypers \ LateCheckIns}
    /\ keypers = [k \in Honest |-> NewKeyper]
    /\ losses = 0

(* What becomes of the oldest message a keyper's message worker has to     *)
(* send, in one block.  BroadcastTxCommit waits for the block, so there is *)
(* only one.  The worker is done with the message when it is told that it  *)
(* succeeded or failed, and sends it again when the answer is lost.  If    *)
(* CheckTx refuses the transaction the message is gone too: SendMessage    *)
(* looks only at the result of DeliverTx.                                  *)
Fate == {"later", "delivered", "unanswered", "refused"}

Waiting == {k \in Honest : keypers[k].Actions # <<>>}

Lost(fate) == {k \in Waiting : fate[k] \in {"unanswered", "refused"}}

(* Tendermint commits a block with some of the honest keypers' messages,   *)
(* some of the others', and some check-ins.                                *)
Block(fate, others, newKeys) ==
    LET sent == {Head(keypers[k].Actions) :
                   k \in {j \in Waiting : fate[j] \in {"delivered", "unanswered"}}}
    IN  /\ height < MaxHeight
        /\ \A k \in Waiting \ Slow : fate[k] # "later"
        /\ losses + Cardinality(Lost(fate)) <= MaxLosses
        /\ \A k \in Honest : height + 1 - keypers[k].SyncHeight <= MaxLag
        /\ height' = height + 1
        /\ events' = events \cup
             {[Height |-> height + 1, Msg |-> m] :
                m \in {n \in sent \cup others : CanRegister(n)}}
        /\ keypers' =
             [k \in Honest |->
                IF k \in Waiting /\ fate[k] \in {"delivered", "refused"}
                  THEN [keypers[k] EXCEPT !.Actions = Tail(@)]
                  ELSE keypers[k]]
        /\ losses' = losses + Cardinality(Lost(fate))
        /\ checkIns' = checkIns \cup
             {[Height |-> height + 1, Sender |-> k] : k \in newKeys}

(* An honest keyper syncs with the chain and decides what to do.           *)
Decide(k) ==
    /\ keypers' = [keypers EXCEPT ![k] =
                     [handleDKGs(@, k, height) EXCEPT !.SyncHeight = height + 1]]
    /\ UNCHANGED <<height, events, checkIns, losses>>

NotCheckedIn == {k \in Keypers : \A c \in checkIns : c.Sender # k}

NextBlock ==
    \E fate \in [Waiting -> Fate], others \in Misbehaviour,
       newKeys \in SUBSET NotCheckedIn : Block(fate, others, newKeys)

Next ==
    \/ NextBlock
    \/ \E k \in Honest : Decide(k)

Spec == Init /\ [][Next]_vars

(* Blocks keep coming and a keyper keeps deciding: Keyper.Run makes a step *)
(* for every new block.  Nothing is assumed of messages.                   *)
FairSpec == Spec /\ WF_vars(NextBlock) /\ \A k \in Honest : WF_vars(Decide(k))

-----------------------------------------------------------------------------
(* Properties.                                                             *)

(* What the chain says about the eon, up to and including a height.        *)
ChainCommitments(h) ==
    {m.Sender : m \in {n \in Published("PolyCommitment", Dealing, StartHeight, h) :
                         n.DegreeOK}}
ChainAccusations(h) ==
    {a \in Keypers \X Keypers :
        \E m \in Published("Accusation", Accusing, StartHeight, h) :
           m.Sender = a[1] /\ a[2] \in m.Others}
ChainApologies(h) ==
    [a \in Keypers \X Keypers |->
       EvalIn(Published("Apology", Apologizing, StartHeight, h), a[2], a[1])]

(* A keyper that has handled the events up to some height knows exactly    *)
(* the commitments, the accusations and the apologies published there in   *)
(* their phase: none is refused because the PureDKG is already in a later  *)
(* phase, skipped between two syncs, or counted in the wrong phase.        *)
KnowsTheChain ==
    \A k \in Honest :
      LET pure == keypers[k].Pure
          h    == keypers[k].SyncHeight - 1
      IN  /\ pure.Commitments = ChainCommitments(h)
          /\ pure.Accusations = ChainAccusations(h)
          /\ pure.Apologies = ChainApologies(h)

(* Honest keypers that obtain a key obtain it from the same dealers, so    *)
(* they agree on the eon public key, however late each of them was.        *)
AgreeOnParticipants ==
    \A j, k \in Honest :
       keypers[j].Result = "ok" /\ keypers[k].Result = "ok" =>
          Participants(keypers[j].Pure) = Participants(keypers[k].Pure)

(* Whether k's message of a kind got on the chain in the given phase.      *)
InTime(k, kind, phase) ==
    \E m \in Published(kind, phase, StartHeight, height + 1) : m.Sender = k

(* An honest keyper whose commitment was published in time, and whose      *)
(* apologies were if it has been accused, is not excluded by anyone.       *)
HonestDealerCounts ==
    \A k \in Honest :
       /\ InTime(k, "PolyCommitment", Dealing)
       /\ \/ InTime(k, "Apology", Apologizing)
          \/ \A a \in ChainAccusations(height + 1) : a[2] # k
       => \A j \in Honest :
             keypers[j].Result # "running" => k \in Participants(keypers[j].Pure)

(* If all messages of the honest keypers are published in their phases and *)
(* enough keypers are honest, no honest keyper's DKG fails, whatever the   *)
(* others do: a dealer that cheated a keyper is either excluded by all or  *)
(* has published the evaluation it owed.                                   *)
TimelyDKGSucceeds ==
    /\ Cardinality(Honest) >= Threshold
    /\ \A k \in Honest :
         /\ InTime(k, "PolyCommitment", Dealing)
         /\ InTime(k, "Accusation", Accusing)
         /\ InTime(k, "Apology", Apologizing)
    => \A k \in Honest : keypers[k].Result # "failed"

(* Every honest keyper finishes the DKG one way or the other, even if it   *)
(* looks at the chain too late for one or more phases.                     *)
EveryDKGEnds == \A k \in Honest : <>(keypers[k].Pure.Phase = Finalized)
=============================================================================
