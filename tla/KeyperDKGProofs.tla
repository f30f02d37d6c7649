-------------------------- MODULE KeyperDKGProofs --------------------------
(***************************************************************************)
(* Honest keypers obtain the same eon key however late each of them looks  *)
(* at the chain, for any keypers, phase length and behaviour of the        *)
(* others, and a key with enough votes is that key: proofs about KeyperDKG *)
(* and EonKeyVotes.                                                        *)
(***************************************************************************)
EXTENDS EonKeyVotes, FiniteSetTheorems, TLAPS

(* What an honest keyper k whose DKG is in the state pure may have sent.   *)
(* What it accuses and to whom it apologizes is settled by then.           *)
HonestMsgs(pure, k) ==
    {PolyCommitmentMsg(k), EonStartVoteMsg(k)}
    \cup {PolyEvalMsg(k, r) : r \in SUBSET Keypers}
    \cup (IF pure.Phase >= Accusing
            THEN {AccusationMsg(k, ToAccuse(pure, k))} ELSE {})
    \cup (IF pure.Phase >= Apologizing
            THEN {ApologyMsg(k, ToApologize(pure, k))} ELSE {})

(* The outcome of a DKG that has come to the state pure.                   *)
Outcome(pure, k) ==
    CASE pure.Phase # Finalized -> "running"
      [] pure.Phase = Finalized /\ ComputeResultOK(pure, k) -> "ok"
      [] OTHER -> "failed"

(* An honest keyper by itself.                                             *)
KeyperOK(kp, k) ==
    /\ kp \in [Pure : PureState, Outgoing : SUBSET Keypers,
               Actions : Seq(HonestMsgs(kp.Pure, k)), SyncHeight : Nat,
               Result : {"running", "ok", "failed"}]
    /\ kp.Pure.Phase # Off => kp.Pure.Evals[k] = "good"
    /\ kp.Result = Outcome(kp.Pure, k)

(* Its phase is that of the block it handles next.                         *)
PhaseRight(kp) ==
    /\ kp.SyncHeight >= StartHeight
    /\ kp.Pure.Phase = IF kp.SyncHeight = StartHeight
                         THEN Off ELSE getPhaseAtHeight(kp.SyncHeight)

KeypersOK ==
    /\ keypers = [k \in Honest |-> keypers[k]]
    /\ \A k \in Honest : /\ KeyperOK(keypers[k], k)
                         /\ PhaseRight(keypers[k])
                         /\ keypers[k].SyncHeight <= height + 1

(* The events: what the app lets through.                                  *)
EventOK(e) ==
    /\ e.Height \in StartHeight + 1 .. height
    /\ e.Msg.Sender \in Keypers
    /\ e.Msg.Others \subseteq Keypers
    /\ e.Msg.Kind \in {"PolyEval", "Apology"} =>
         \A a \in e.Msg.Others : e.Msg.Evals[a] \in {"good", "bad", "invalid"}

HonestEvents ==
    \A e \in events :
       e.Msg.Sender \in Honest =>
          e.Msg \in HonestMsgs(keypers[e.Msg.Sender].Pure, e.Msg.Sender)

OneApologyEach ==
    \A e, f \in events :
       /\ e.Msg.Kind = "Apology"
       /\ f.Msg.Kind = "Apology"
       /\ e.Msg.Sender = f.Msg.Sender
       => e.Msg = f.Msg

IInv ==
    /\ height \in Nat /\ height >= StartHeight
    /\ KeypersOK
    /\ \A e \in events : EventOK(e)
    /\ HonestEvents
    /\ OneApologyEach
    /\ KnowsTheChain
-----------------------------------------------------------------------------
(* Phases.                                                                 *)

LEMMA PhaseAt ==
    ASSUME NEW h \in Nat
    PROVE  getPhaseAtHeight(h) =
             IF h < StartHeight THEN Off
             ELSE IF h < StartHeight + PhaseLength THEN Dealing
             ELSE IF h < StartHeight + 2 * PhaseLength THEN Accusing
             ELSE IF h < StartHeight + 3 * PhaseLength THEN Apologizing
             ELSE Finalized
BY StartHeightAssumption, PhaseLengthAssumption DEF getPhaseAtHeight

(* The phases follow each other.                                           *)
LEMMA PhasesInOrder ==
    ASSUME NEW g \in Nat, NEW h \in Nat, g <= h
    PROVE  /\ getPhaseAtHeight(g) \in Phase
           /\ getPhaseAtHeight(h) \in Phase
           /\ getPhaseAtHeight(g) <= getPhaseAtHeight(h)
BY PhaseAt, StartHeightAssumption, PhaseLengthAssumption
   DEF Phase, Off, Dealing, Accusing, Apologizing, Finalized

(* No keyper is off once the eon has started.                              *)
LEMMA StartedPhase ==
    ASSUME NEW h \in Nat, h >= StartHeight
    PROVE  getPhaseAtHeight(h) \in Dealing .. Finalized
BY PhaseAt, StartHeightAssumption, PhaseLengthAssumption
   DEF Phase, Off, Dealing, Accusing, Apologizing, Finalized

-----------------------------------------------------------------------------
(* The state of a DKG only advances.  The dealers' part is settled when    *)
(* the accusing phase begins, the accusations when the apologizing does.   *)

Advances(p, q) ==
    /\ p.Phase <= q.Phase
    /\ p.Phase >= Accusing => q.Commitments = p.Commitments /\ q.Evals = p.Evals
    /\ p.Phase >= Apologizing => q.Accusations = p.Accusations

(* So what has been sent stays right.                                      *)
LEMMA MsgsStayRight ==
    ASSUME NEW k, NEW p \in PureState, NEW q \in PureState, Advances(p, q)
    PROVE  HonestMsgs(p, k) \subseteq HonestMsgs(q, k)
<1>0. p.Phase \in 0 .. 4 /\ q.Phase \in 0 .. 4
  BY DEF PureState, Phase, Off, Finalized
<1>1. p.Phase >= Accusing => ToAccuse(p, k) = ToAccuse(q, k) /\ q.Phase >= Accusing
  BY <1>0 DEF Advances, ToAccuse, Accusing
<1>2. p.Phase >= Apologizing => ToApologize(p, k) = ToApologize(q, k) /\ q.Phase >= Apologizing
  BY <1>0 DEF Advances, ToApologize, Apologizing
<1> QED
  BY <1>1, <1>2, Zenon DEF HonestMsgs

LEMMA AdvancesTransitive ==
    ASSUME NEW p \in PureState, NEW q \in PureState, NEW r \in PureState,
           Advances(p, q), Advances(q, r)
    PROVE  Advances(p, r)
<1>1. p.Phase \in 0 .. 4 /\ q.Phase \in 0 .. 4 /\ r.Phase \in 0 .. 4
  BY DEF PureState, Phase, Off, Finalized
<1> QED
  BY <1>1 DEF Advances, Accusing, Apologizing

LEMMA SendsMore ==
    ASSUME NEW S, NEW T, S \subseteq T, NEW s \in Seq(S), NEW m \in T
    PROVE  s \in Seq(T) /\ Append(s, m) \in Seq(T)
OBVIOUS

-----------------------------------------------------------------------------
(* What each step of handleDKGs does to a keyper.                          *)

IsKeyperRecord(kp) ==
    kp = [Pure |-> kp.Pure, Outgoing |-> kp.Outgoing, Actions |-> kp.Actions,
          SyncHeight |-> kp.SyncHeight, Result |-> kp.Result]

Step(kp, kq, k) ==
    /\ KeyperOK(kq, k)
    /\ Advances(kp.Pure, kq.Pure)
    /\ kq.SyncHeight = kp.SyncHeight

LEMMA KeyperParts ==
    ASSUME NEW kp, NEW k, KeyperOK(kp, k)
    PROVE  /\ kp.Pure \in PureState
           /\ kp.Outgoing \in SUBSET Keypers
           /\ kp.Actions \in Seq(HonestMsgs(kp.Pure, k))
           /\ kp.SyncHeight \in Nat
           /\ IsKeyperRecord(kp)
<1> DEFINE A == Seq(HonestMsgs(kp.Pure, k))
<1>1. kp \in [Pure : PureState, Outgoing : SUBSET Keypers, Actions : A,
             SyncHeight : Nat, Result : {"running", "ok", "failed"}]
  BY DEF KeyperOK
<1>2. A = Seq(HonestMsgs(kp.Pure, k))
  OBVIOUS
<1> HIDE DEF A
<1> QED
  BY <1>1, <1>2 DEF IsKeyperRecord

LEMMA BuildStep ==
    ASSUME NEW kp, NEW k, KeyperOK(kp, k), NEW kq, IsKeyperRecord(kq),
           kq.Pure \in PureState, Advances(kp.Pure, kq.Pure),
           kq.Pure.Phase # Off => kq.Pure.Evals[k] = "good",
           kq.Outgoing \in SUBSET Keypers,
           kq.Actions \in Seq(HonestMsgs(kq.Pure, k)),
           kq.SyncHeight = kp.SyncHeight,
           kq.Result = Outcome(kq.Pure, k)
    PROVE  Step(kp, kq, k)
<1> DEFINE A == Seq(HonestMsgs(kq.Pure, k))
<1>1. Outcome(kq.Pure, k) \in {"running", "ok", "failed"}
  BY DEF Outcome
<1>2. kq.Actions \in A /\ kq.SyncHeight \in Nat
  BY KeyperParts
<1> HIDE DEF A
<1>3. kq \in [Pure : PureState, Outgoing : SUBSET Keypers, Actions : A,
             SyncHeight : Nat, Result : {"running", "ok", "failed"}]
  BY <1>1, <1>2 DEF IsKeyperRecord
<1> QED
  BY <1>3 DEF Step, KeyperOK, A

LEMMA SetPure ==
    ASSUME NEW kp, IsKeyperRecord(kp), NEW p
    PROVE  LET kq == [kp EXCEPT !.Pure = p]
           IN  /\ IsKeyperRecord(kq)
               /\ kq.Pure = p /\ kq.Outgoing = kp.Outgoing /\ kq.Actions = kp.Actions
               /\ kq.SyncHeight = kp.SyncHeight /\ kq.Result = kp.Result
BY DEF IsKeyperRecord

LEMMA SetOutgoing ==
    ASSUME NEW kp, IsKeyperRecord(kp), NEW out
    PROVE  LET kq == [kp EXCEPT !.Outgoing = out]
           IN  /\ IsKeyperRecord(kq)
               /\ kq.Pure = kp.Pure /\ kq.Outgoing = out /\ kq.Actions = kp.Actions
               /\ kq.SyncHeight = kp.SyncHeight /\ kq.Result = kp.Result
BY DEF IsKeyperRecord

LEMMA SetResult ==
    ASSUME NEW kp, IsKeyperRecord(kp), NEW r
    PROVE  LET kq == [kp EXCEPT !.Result = r]
           IN  /\ IsKeyperRecord(kq)
               /\ kq.Pure = kp.Pure /\ kq.Outgoing = kp.Outgoing
               /\ kq.Actions = kp.Actions
               /\ kq.SyncHeight = kp.SyncHeight /\ kq.Result = r
BY DEF IsKeyperRecord

LEMMA SendAppends ==
    ASSUME NEW kp, IsKeyperRecord(kp), NEW msg
    PROVE  LET kq == Send(kp, msg)
           IN  /\ IsKeyperRecord(kq)
               /\ kq.Pure = kp.Pure /\ kq.Outgoing = kp.Outgoing
               /\ kq.Actions = Append(kp.Actions, msg)
               /\ kq.SyncHeight = kp.SyncHeight /\ kq.Result = kp.Result
BY DEF IsKeyperRecord, Send
LEMMA HonestAreKeypers == \A k \in Honest : k \in Keypers
BY HonestAssumption

LEMMA PhaseIsNumber ==
    ASSUME NEW p \in PureState
    PROVE  p.Phase \in 0 .. 4
BY DEF PureState, Phase, Off, Finalized

LEMMA OutcomeIs ==
    ASSUME NEW p, NEW k
    PROVE  /\ p.Phase # Finalized => Outcome(p, k) = "running"
           /\ p.Phase = Finalized =>
                Outcome(p, k) = IF ComputeResultOK(p, k) THEN "ok" ELSE "failed"
BY DEF Outcome

LEMMA StepTransitive ==
    ASSUME NEW kp, NEW kq, NEW kr, NEW k,
           KeyperOK(kp, k), Step(kp, kq, k), Step(kq, kr, k)
    PROVE  Step(kp, kr, k)
BY KeyperParts, AdvancesTransitive DEF Step

LEMMA NoStep ==
    ASSUME NEW kp, NEW k, KeyperOK(kp, k)
    PROVE  Step(kp, kp, k)
<1>1. Advances(kp.Pure, kp.Pure)
  BY KeyperParts, PhaseIsNumber DEF Advances
<1> QED
  BY <1>1 DEF Step

(* Setting the phase of a DKG to a later one leaves the rest alone.        *)
LEMMA LaterPhase ==
    ASSUME NEW p \in PureState, NEW f \in Phase, p.Phase <= f
    PROVE  LET q == [p EXCEPT !.Phase = f]
           IN  /\ q \in PureState
               /\ q.Phase = f
               /\ q.Commitments = p.Commitments
               /\ q.Evals = p.Evals
               /\ q.Accusations = p.Accusations
               /\ q.Apologies = p.Apologies
               /\ Advances(p, q)
BY DEF PureState, Advances

LEMMA DealsToItself ==
    ASSUME NEW p \in PureState, p.Phase = Off, NEW k \in Keypers
    PROVE  LET q == StartPhase1Dealing(p, k)
           IN  /\ q \in PureState
               /\ q.Phase = Dealing
               /\ q.Evals[k] = "good"
               /\ q.Commitments = p.Commitments
               /\ q.Accusations = p.Accusations
               /\ q.Apologies = p.Apologies
               /\ Advances(p, q)
<1> DEFINE evals == [p.Evals EXCEPT ![k] = "good"]
           q == StartPhase1Dealing(p, k)
<1>1. p.Evals \in [Keypers -> Eval] /\ "good" \in Eval
  BY DEF PureState, Eval
<1>2. evals \in [Keypers -> Eval] /\ evals[k] = "good"
  BY <1>1
<1> DEFINE r == [p EXCEPT !.Phase = Dealing]
<1>3. q = [r EXCEPT !.Evals = evals]
  BY DEF StartPhase1Dealing, PureState
<1>5. /\ r \in PureState /\ r.Phase = Dealing /\ r.Commitments = p.Commitments
      /\ r.Accusations = p.Accusations /\ r.Apologies = p.Apologies
  <2>1. Dealing \in Phase /\ p.Phase <= Dealing
    BY DEF Phase, Off, Dealing, Finalized
  <2> QED
    BY <2>1, LaterPhase
<1> HIDE DEF evals, r, q
<1>4. /\ q \in PureState /\ q.Phase = Dealing /\ q.Evals = evals
      /\ q.Commitments = p.Commitments /\ q.Accusations = p.Accusations
      /\ q.Apologies = p.Apologies
  BY <1>2, <1>3, <1>5 DEF PureState
<1> QED
  BY <1>2, <1>4 DEF q, Advances, Off, Dealing, Accusing, Apologizing

(* What a change to a phase does, whether a message is sent or not.        *)
PhaseStep(kp, kq, k, to) ==
    /\ Step(kp, kq, k)
    /\ kq.Pure.Phase = to
    /\ kq.Pure.Commitments = kp.Pure.Commitments
    /\ kq.Pure.Accusations = kp.Pure.Accusations
    /\ kq.Pure.Apologies = kp.Pure.Apologies

LEMMA startPhase1DealingStep ==
    ASSUME NEW k \in Honest, NEW kp, KeyperOK(kp, k), NEW next \in Dealing .. Finalized
    PROVE  PhaseStep(kp, startPhase1Dealing(kp, k, next), k,
                     IF kp.Pure.Phase = Off THEN Dealing ELSE kp.Pure.Phase)
<1> DEFINE p == StartPhase1Dealing(kp.Pure, k)
           dealt == [kp EXCEPT !.Pure = p]
           kq == startPhase1Dealing(kp, k, next)
<1>1. CASE kp.Pure.Phase # Off
  <2>1. kq = kp
    BY <1>1 DEF startPhase1Dealing
  <2> QED
    BY <1>1, <2>1, NoStep DEF PhaseStep
<1>2. CASE kp.Pure.Phase = Off
  <2>1. /\ p \in PureState /\ p.Phase = Dealing /\ p.Evals[k] = "good"
        /\ p.Commitments = kp.Pure.Commitments /\ p.Accusations = kp.Pure.Accusations
        /\ p.Apologies = kp.Pure.Apologies /\ Advances(kp.Pure, p)
    BY <1>2, KeyperParts, DealsToItself, HonestAreKeypers
  <2>2. HonestMsgs(kp.Pure, k) \subseteq HonestMsgs(p, k)
    BY <2>1, KeyperParts, MsgsStayRight
  <2>3. kp.Actions \in Seq(HonestMsgs(p, k))
    BY <2>2, KeyperParts
  <2>4. Outcome(p, k) = Outcome(kp.Pure, k) /\ kp.Result = Outcome(kp.Pure, k)
    BY <1>2, <2>1, OutcomeIs DEF KeyperOK, Off, Dealing, Finalized
  <2> HIDE DEF p
  <2>5. /\ IsKeyperRecord(dealt) /\ dealt.Pure = p /\ dealt.Outgoing = kp.Outgoing
        /\ dealt.Actions = kp.Actions /\ dealt.SyncHeight = kp.SyncHeight
        /\ dealt.Result = kp.Result
    BY KeyperParts, SetPure
  <2>6. CASE next = Dealing
    <3> DEFINE out == [dealt EXCEPT !.Outgoing = Keypers \ {k}]
    <3>1. kq = Send(out, PolyCommitmentMsg(k))
      BY <1>2, <2>6 DEF startPhase1Dealing, p, Off, Dealing
    <3>2. /\ IsKeyperRecord(out) /\ out.Pure = p /\ out.Outgoing = Keypers \ {k}
          /\ out.Actions = kp.Actions /\ out.SyncHeight = kp.SyncHeight
          /\ out.Result = kp.Result
      <4> HIDE DEF dealt
      <4> QED
        BY <2>5, SetOutgoing
    <3> HIDE DEF out, kq
    <3>3. /\ IsKeyperRecord(kq) /\ kq.Pure = p /\ kq.Outgoing = Keypers \ {k}
          /\ kq.Actions = Append(kp.Actions, PolyCommitmentMsg(k))
          /\ kq.SyncHeight = kp.SyncHeight /\ kq.Result = kp.Result
      BY <3>1, <3>2, SendAppends
    <3>4. PolyCommitmentMsg(k) \in HonestMsgs(p, k)
      BY DEF HonestMsgs
    <3>5. kq.Actions \in Seq(HonestMsgs(p, k))
      BY <2>3, <3>3, <3>4
    <3>6. Step(kp, kq, k)
      BY <2>1, <2>4, <3>3, <3>5, BuildStep
    <3> QED
      BY <1>2, <2>1, <3>3, <3>6 DEF PhaseStep, kq
  <2>7. CASE next # Dealing
    <3>1. kq = dealt
      BY <1>2, <2>7 DEF startPhase1Dealing, p, Off, Dealing, Finalized
    <3> HIDE DEF kq, dealt
    <3>2. Step(kp, kq, k)
      BY <2>1, <2>3, <2>4, <2>5, <3>1, KeyperParts, BuildStep
    <3> QED
      BY <1>2, <2>1, <2>5, <3>1, <3>2 DEF PhaseStep, kq
  <2> QED
    BY <2>6, <2>7
<1> QED
  BY <1>1, <1>2
(* The phase changes that follow.  What is sent fits the new phase.        *)
LEMMA StartLaterPhase ==
    ASSUME NEW kp, NEW k, KeyperOK(kp, k), NEW to \in Accusing .. Apologizing,
           kp.Pure.Phase = to - 1, NEW kq,
           \/ kq = [kp EXCEPT !.Pure.Phase = to]
           \/ \E m \in HonestMsgs([kp.Pure EXCEPT !.Phase = to], k) :
                 kq = Send([kp EXCEPT !.Pure.Phase = to], m)
    PROVE  PhaseStep(kp, kq, k, to)
<1> DEFINE p == [kp.Pure EXCEPT !.Phase = to]
           kr == [kp EXCEPT !.Pure = p]
<1>0. kr = [kp EXCEPT !.Pure.Phase = to]
  OBVIOUS
<1>1. to \in Phase /\ kp.Pure.Phase <= to /\ kp.Pure.Phase # Off /\ kp.Pure.Phase # Finalized
      /\ to # Finalized
  BY DEF Phase, Off, Accusing, Apologizing, Finalized
<1>2. /\ p \in PureState /\ p.Phase = to /\ p.Commitments = kp.Pure.Commitments
      /\ p.Evals = kp.Pure.Evals /\ p.Accusations = kp.Pure.Accusations
      /\ p.Apologies = kp.Pure.Apologies /\ Advances(kp.Pure, p)
  BY <1>1, KeyperParts, LaterPhase
<1>3. kp.Actions \in Seq(HonestMsgs(p, k))
  BY <1>2, KeyperParts, MsgsStayRight
<1>4. Outcome(p, k) = Outcome(kp.Pure, k) /\ kp.Result = Outcome(kp.Pure, k)
  <2> HIDE DEF p
  <2> QED
    BY <1>1, <1>2, OutcomeIs DEF KeyperOK
<1>5. p.Evals[k] = "good"
  BY <1>1, <1>2 DEF KeyperOK
<1> HIDE DEF p
<1>6. /\ IsKeyperRecord(kr) /\ kr.Pure = p /\ kr.Outgoing = kp.Outgoing
      /\ kr.Actions = kp.Actions /\ kr.SyncHeight = kp.SyncHeight /\ kr.Result = kp.Result
  BY KeyperParts, SetPure
<1> HIDE DEF kr
<1>7. CASE kq = kr
  <2>1. Step(kp, kq, k)
    BY <1>2, <1>3, <1>4, <1>5, <1>6, <1>7, KeyperParts, BuildStep
  <2> QED
    BY <1>2, <1>6, <1>7, <2>1 DEF PhaseStep
<1>8. CASE \E m \in HonestMsgs(p, k) : kq = Send(kr, m)
  <2>1. PICK m \in HonestMsgs(p, k) : kq = Send(kr, m)
    BY <1>8
  <2>2. /\ IsKeyperRecord(kq) /\ kq.Pure = p /\ kq.Outgoing = kp.Outgoing
        /\ kq.Actions = Append(kp.Actions, m) /\ kq.SyncHeight = kp.SyncHeight
        /\ kq.Result = kp.Result
    BY <1>6, <2>1, SendAppends
  <2>3. kq.Actions \in Seq(HonestMsgs(p, k))
    BY <1>3, <2>2
  <2>4. Step(kp, kq, k)
    BY <1>2, <1>4, <1>5, <2>2, <2>3, KeyperParts, BuildStep
  <2> QED
    BY <1>2, <2>2, <2>4 DEF PhaseStep
<1> QED
  BY <1>0, <1>7, <1>8 DEF p

LEMMA startPhase2AccusingStep ==
    ASSUME NEW k \in Honest, NEW kp, KeyperOK(kp, k), NEW next \in Dealing .. Finalized
    PROVE  PhaseStep(kp, startPhase2Accusing(kp, k, next), k,
                     IF kp.Pure.Phase = Dealing /\ next >= Accusing
                       THEN Accusing ELSE kp.Pure.Phase)
<1> DEFINE p == [kp.Pure EXCEPT !.Phase = Accusing]
           accusing == [kp EXCEPT !.Pure.Phase = Accusing]
           msg == AccusationMsg(k, ToAccuse(kp.Pure, k))
           kq == startPhase2Accusing(kp, k, next)
<1>1. CASE kp.Pure.Phase # Dealing \/ next < Accusing
  <2>1. kq = kp
    BY <1>1 DEF startPhase2Accusing
  <2> QED
    BY <1>1, <2>1, NoStep DEF PhaseStep, Dealing, Accusing, Finalized
<1>2. CASE kp.Pure.Phase = Dealing /\ next >= Accusing
  <2>1. /\ p.Phase >= Accusing /\ p.Commitments = kp.Pure.Commitments
        /\ p.Evals = kp.Pure.Evals
    BY <1>2, KeyperParts, LaterPhase
       DEF Phase, Off, Dealing, Accusing, Finalized
  <2>2. msg \in HonestMsgs(p, k)
    BY <2>1, Zenon DEF HonestMsgs, ToAccuse
  <2>3. \/ kq = accusing
        \/ kq = Send(accusing, msg)
    BY <1>2 DEF startPhase2Accusing, Dealing, Accusing, Finalized
  <2>4. /\ Accusing \in Accusing .. Apologizing
        /\ kp.Pure.Phase = Accusing - 1
    BY <1>2 DEF Dealing, Accusing, Apologizing
  <2> HIDE DEF kq, msg
  <2>5. \/ kq = [kp EXCEPT !.Pure.Phase = Accusing]
        \/ \E m \in HonestMsgs([kp.Pure EXCEPT !.Phase = Accusing], k) :
              kq = Send([kp EXCEPT !.Pure.Phase = Accusing], m)
    BY <2>2, <2>3
  <2>6. PhaseStep(kp, kq, k, Accusing)
    BY <2>4, <2>5, StartLaterPhase, Zenon
  <2> QED
    BY <1>2, <2>6 DEF kq
<1> QED
  BY <1>1, <1>2 DEF Dealing, Accusing, Finalized

LEMMA startPhase3ApologizingStep ==
    ASSUME NEW k \in Honest, NEW kp, KeyperOK(kp, k), NEW next \in Dealing .. Finalized
    PROVE  PhaseStep(kp, startPhase3Apologizing(kp, k, next), k,
                     IF kp.Pure.Phase = Accusing /\ next >= Apologizing
                       THEN Apologizing ELSE kp.Pure.Phase)
<1> DEFINE p == [kp.Pure EXCEPT !.Phase = Apologizing]
           apologizing == [kp EXCEPT !.Pure.Phase = Apologizing]
           msg == ApologyMsg(k, ToApologize(kp.Pure, k))
           kq == startPhase3Apologizing(kp, k, next)
<1>1. CASE kp.Pure.Phase # Accusing \/ next < Apologizing
  <2>1. kq = kp
    BY <1>1 DEF startPhase3Apologizing
  <2> QED
    BY <1>1, <2>1, NoStep DEF PhaseStep, Dealing, Apologizing, Finalized
<1>2. CASE kp.Pure.Phase = Accusing /\ next >= Apologizing
  <2>1. p.Phase >= Apologizing /\ p.Accusations = kp.Pure.Accusations
    BY <1>2, KeyperParts, LaterPhase
       DEF Phase, Off, Accusing, Apologizing, Finalized
  <2>2. msg \in HonestMsgs(p, k)
    BY <2>1, Zenon DEF HonestMsgs, ToApologize
  <2>3. \/ kq = apologizing
        \/ kq = Send(apologizing, msg)
    BY <1>2 DEF startPhase3Apologizing, Accusing, Apologizing, Finalized
  <2>4. /\ Apologizing \in Accusing .. Apologizing
        /\ kp.Pure.Phase = Apologizing - 1
    BY <1>2 DEF Accusing, Apologizing
  <2> HIDE DEF kq, msg
  <2>5. \/ kq = [kp EXCEPT !.Pure.Phase = Apologizing]
        \/ \E m \in HonestMsgs([kp.Pure EXCEPT !.Phase = Apologizing], k) :
              kq = Send([kp EXCEPT !.Pure.Phase = Apologizing], m)
    BY <2>2, <2>3
  <2>6. PhaseStep(kp, kq, k, Apologizing)
    BY <2>4, <2>5, StartLaterPhase, Zenon
  <2> QED
    BY <1>2, <2>6 DEF kq
<1> QED
  BY <1>1, <1>2 DEF Dealing, Apologizing, Finalized
(* The result depends on what is known of the dealers, not on the phase.   *)
LEMMA ResultOfKnowledge ==
    ASSUME NEW p, NEW q, NEW k, q.Commitments = p.Commitments, q.Evals = p.Evals,
           q.Accusations = p.Accusations, q.Apologies = p.Apologies
    PROVE  /\ Participants(q) = Participants(p)
           /\ ComputeResultOK(q, k) = ComputeResultOK(p, k)
<1>1. \A d : isCorrupt(q, d) = isCorrupt(p, d)
  BY DEF isCorrupt
<1>2. Participants(q) = Participants(p)
  BY <1>1 DEF Participants
<1>3. \A d : polyEval(q, k, d) = polyEval(p, k, d)
  BY DEF polyEval
<1> QED
  BY <1>2, <1>3 DEF ComputeResultOK

LEMMA dkgFinalizeStep ==
    ASSUME NEW k \in Honest, NEW kp, KeyperOK(kp, k), NEW next \in Dealing .. Finalized
    PROVE  PhaseStep(kp, dkgFinalize(kp, k, next), k,
                     IF kp.Pure.Phase = Apologizing /\ next >= Finalized
                       THEN Finalized ELSE kp.Pure.Phase)
<1> DEFINE p == [kp.Pure EXCEPT !.Phase = Finalized]
           final == [kp EXCEPT !.Pure.Phase = Finalized]
           kq == dkgFinalize(kp, k, next)
<1>1. CASE kp.Pure.Phase # Apologizing \/ next < Finalized
  <2>1. kq = kp
    <3> DEFINE final1 == [kp EXCEPT !.Pure.Phase = Finalized]
               ok == [final1 EXCEPT !.Result = "ok"]
               failed == Send([final1 EXCEPT !.Result = "failed"], EonStartVoteMsg(k))
    <3>1. kq = CASE kp.Pure.Phase # Apologizing \/ next < Finalized -> kp
                 [] kp.Pure.Phase = Apologizing /\ next >= Finalized
                    /\ ComputeResultOK(kp.Pure, k) -> ok
                 [] OTHER -> failed
      BY DEF dkgFinalize
    <3> HIDE DEF kq, ok, failed
    <3>2. ~(kp.Pure.Phase = Apologizing /\ next >= Finalized)
      BY <1>1 DEF Dealing, Finalized
    <3> QED
      BY <1>1, <3>1, <3>2
  <2> QED
    BY <1>1, <2>1, NoStep DEF PhaseStep, Dealing, Finalized
<1>2. CASE kp.Pure.Phase = Apologizing /\ next >= Finalized
  <2>1. Finalized \in Phase /\ kp.Pure.Phase <= Finalized /\ kp.Pure.Phase # Off
    BY <1>2 DEF Phase, Off, Apologizing, Finalized
  <2>2. /\ p \in PureState /\ p.Phase = Finalized /\ p.Commitments = kp.Pure.Commitments
        /\ p.Evals = kp.Pure.Evals /\ p.Accusations = kp.Pure.Accusations
        /\ p.Apologies = kp.Pure.Apologies /\ Advances(kp.Pure, p)
    BY <2>1, KeyperParts, LaterPhase
  <2> HIDE DEF p
  <2>3. kp.Actions \in Seq(HonestMsgs(p, k))
    BY <2>2, KeyperParts, MsgsStayRight
  <2>4. p.Evals[k] = "good"
    BY <2>1, <2>2 DEF KeyperOK
  <2>5. Outcome(p, k) = IF ComputeResultOK(kp.Pure, k) THEN "ok" ELSE "failed"
    BY <2>2, OutcomeIs, ResultOfKnowledge
  <2>6. final = [kp EXCEPT !.Pure = p]
    BY DEF p
  <2> HIDE DEF final
  <2>7. /\ IsKeyperRecord(final) /\ final.Pure = p /\ final.Outgoing = kp.Outgoing
        /\ final.Actions = kp.Actions /\ final.SyncHeight = kp.SyncHeight
    BY <2>6, KeyperParts, SetPure
  <2>8. CASE ComputeResultOK(kp.Pure, k)
    <3>1. kq = [final EXCEPT !.Result = "ok"]
      BY <1>2, <2>8 DEF dkgFinalize, final
    <3>2. /\ IsKeyperRecord(kq) /\ kq.Pure = p /\ kq.Outgoing = kp.Outgoing
          /\ kq.Actions = kp.Actions /\ kq.SyncHeight = kp.SyncHeight /\ kq.Result = "ok"
      BY <2>7, <3>1, SetResult
    <3> HIDE DEF kq
    <3>3. Step(kp, kq, k)
      BY <2>2, <2>3, <2>4, <2>5, <2>8, <3>2, KeyperParts, BuildStep
    <3> QED
      BY <1>2, <2>2, <3>2, <3>3 DEF PhaseStep, kq
  <2>9. CASE ~ComputeResultOK(kp.Pure, k)
    <3> DEFINE failed == [final EXCEPT !.Result = "failed"]
    <3>1. kq = Send(failed, EonStartVoteMsg(k))
      <4>1. ~(kp.Pure.Phase # Apologizing \/ next < Finalized)
        BY <1>2 DEF Dealing, Finalized
      <4> QED
        BY <2>9, <4>1, Zenon DEF dkgFinalize, final
    <3>2. /\ IsKeyperRecord(failed) /\ failed.Pure = p /\ failed.Outgoing = kp.Outgoing
          /\ failed.Actions = kp.Actions /\ failed.SyncHeight = kp.SyncHeight
          /\ failed.Result = "failed"
      BY <2>7, SetResult
    <3> HIDE DEF kq, failed
    <3>3. /\ IsKeyperRecord(kq) /\ kq.Pure = p /\ kq.Outgoing = kp.Outgoing
          /\ kq.Actions = Append(kp.Actions, EonStartVoteMsg(k))
          /\ kq.SyncHeight = kp.SyncHeight /\ kq.Result = "failed"
      BY <3>1, <3>2, SendAppends
    <3>4. EonStartVoteMsg(k) \in HonestMsgs(p, k)
      BY DEF HonestMsgs
    <3>5. kq.Actions \in Seq(HonestMsgs(p, k))
      BY <2>3, <3>3, <3>4
    <3>6. Step(kp, kq, k)
      BY <2>2, <2>4, <2>5, <2>9, <3>3, <3>5, KeyperParts, BuildStep
    <3> QED
      BY <1>2, <2>2, <3>3, <3>6 DEF PhaseStep, kq
  <2> QED
    BY <2>8, <2>9
<1> QED
  BY <1>1, <1>2 DEF Dealing, Finalized
-----------------------------------------------------------------------------
(* The events that a sync brings.                                          *)

EventsOK == \A e \in events : EventOK(e)

LEMMA PublishedOK ==
    ASSUME EventsOK, NEW kind, NEW phase, NEW from, NEW to,
           NEW m \in Published(kind, phase, from, to)
    PROVE  /\ m.Kind = kind
           /\ m.Sender \in Keypers
           /\ m.Others \subseteq Keypers
           /\ kind \in {"PolyEval", "Apology"} =>
                \A a \in m.Others : m.Evals[a] \in {"good", "bad", "invalid"}
BY DEF Published, EventsOK, EventOK

LEMMA EvalInType ==
    ASSUME NEW msgs, NEW s, NEW a,
           \A m \in msgs : a \in m.Others => m.Evals[a] \in {"good", "bad", "invalid"}
    PROVE  EvalIn(msgs, s, a) \in Eval
<1> DEFINE found == {m \in msgs : m.Sender = s /\ a \in m.Others /\ m.Evals[a] # "invalid"}
<1>1. CASE found = {}
  BY <1>1 DEF EvalIn, Eval
<1>2. CASE found # {}
  <2>1. (CHOOSE m \in found : TRUE) \in found
    BY <1>2
  <2>2. EvalIn(msgs, s, a) = (CHOOSE m \in found : TRUE).Evals[a]
    BY <1>2 DEF EvalIn
  <2> HIDE DEF found
  <2> DEFINE c == CHOOSE m \in found : TRUE
  <2>3. c \in found
    BY <2>1
  <2> HIDE DEF c
  <2>4. c.Evals[a] \in {"good", "bad"}
    BY <2>3 DEF found
  <2> QED
    BY <2>2, <2>4 DEF c, Eval
<1> QED
  BY <1>1, <1>2

(* A keyper that takes over the knowledge of another DKG state.            *)
LEMMA NewKnowledge ==
    ASSUME NEW k, NEW kp, KeyperOK(kp, k), NEW p \in PureState,
           p.Phase = kp.Pure.Phase, Advances(kp.Pure, p), p.Evals[k] = kp.Pure.Evals[k],
           p.Phase = Finalized => p = kp.Pure
    PROVE  LET kq == [kp EXCEPT !.Pure = p]
           IN  Step(kp, kq, k) /\ kq.Pure = p
<1> DEFINE kq == [kp EXCEPT !.Pure = p]
<1>1. /\ IsKeyperRecord(kq) /\ kq.Pure = p /\ kq.Outgoing = kp.Outgoing
      /\ kq.Actions = kp.Actions /\ kq.SyncHeight = kp.SyncHeight /\ kq.Result = kp.Result
  BY KeyperParts, SetPure
<1> HIDE DEF kq
<1>2. kp.Actions \in Seq(HonestMsgs(p, k))
  BY KeyperParts, MsgsStayRight
<1>3. kp.Result = Outcome(p, k)
  BY OutcomeIs DEF KeyperOK
<1>4. p.Phase # Off => p.Evals[k] = "good"
  BY DEF KeyperOK
<1>5. Step(kp, kq, k)
  BY <1>1, <1>2, <1>3, <1>4, KeyperParts, BuildStep
<1> QED
  BY <1>1, <1>5 DEF kq
(* The dealers with a commitment among the messages.                       *)
CommittedIn(msgs) == {m.Sender : m \in {n \in msgs : n.DegreeOK}}

LEMMA syncPolyMsgsStep ==
    ASSUME NEW k \in Honest, NEW kp, KeyperOK(kp, k), EventsOK, NEW b
    PROVE  LET kq == syncPolyMsgs(kp, k, b)
           IN  /\ Step(kp, kq, k)
               /\ kq.Pure.Phase = kp.Pure.Phase
               /\ kq.Pure.Commitments =
                    IF kp.Pure.Phase > Dealing THEN kp.Pure.Commitments
                    ELSE kp.Pure.Commitments \cup
                         CommittedIn(Published("PolyCommitment", Dealing, kp.SyncHeight, b))
               /\ kq.Pure.Accusations = kp.Pure.Accusations
               /\ kq.Pure.Apologies = kp.Pure.Apologies
<1> DEFINE msgs == Published("PolyCommitment", Dealing, kp.SyncHeight, b)
           dealt == Published("PolyEval", Dealing, kp.SyncHeight, b)
           p == kp.Pure
           q == HandlePolyCommitmentMsgs(p, msgs)
           r == HandlePolyEvalMsgs(q, k, dealt)
           kq == syncPolyMsgs(kp, k, b)
<1>1. kq = [kp EXCEPT !.Pure = r]
  BY DEF syncPolyMsgs
<1>2. p \in PureState /\ p.Phase \in 0 .. 4
  BY KeyperParts, PhaseIsNumber
<1>3. CASE p.Phase > Dealing
  <2>1. q = p
    BY <1>3 DEF HandlePolyCommitmentMsgs
  <2>2. r = p
    BY <1>3, <2>1 DEF HandlePolyEvalMsgs
  <2>3. Advances(p, p) /\ Step(kp, kq, k) /\ kq.Pure = p
    <3>1. Advances(p, p)
      BY <1>2 DEF Advances
    <3> HIDE DEF kq, r
    <3> QED
      BY <1>1, <1>2, <2>2, <3>1, NewKnowledge
  <2> QED
    BY <1>3, <2>3
<1>4. CASE ~(p.Phase > Dealing)
  <2> DEFINE evals == [d \in Keypers |-> IF d # k /\ p.Evals[d] = "none"
                                           THEN EvalIn(dealt, d, k) ELSE p.Evals[d]]
  <2>1. q = [p EXCEPT !.Commitments = p.Commitments \cup CommittedIn(msgs)]
    BY <1>4 DEF HandlePolyCommitmentMsgs, CommittedIn
  <2>2. CommittedIn(msgs) \subseteq Keypers
    BY PublishedOK DEF CommittedIn
  <2>3. \A d \in Keypers : EvalIn(dealt, d, k) \in Eval
    BY PublishedOK, EvalInType
  <2>4. evals \in [Keypers -> Eval]
    BY <1>2, <2>3 DEF PureState
  <2>5. evals[k] = p.Evals[k]
    BY HonestAreKeypers
  <2> HIDE DEF msgs, dealt
  <2>6. /\ q \in PureState /\ q.Phase = p.Phase /\ q.Evals = p.Evals
        /\ q.Commitments = p.Commitments \cup CommittedIn(msgs)
        /\ q.Accusations = p.Accusations /\ q.Apologies = p.Apologies
    <3> HIDE DEF q, p
    <3> QED
      BY <1>2, <2>1, <2>2 DEF PureState
  <2>7. r = [q EXCEPT !.Evals = evals]
    BY <1>4, <2>6 DEF HandlePolyEvalMsgs
  <2> HIDE DEF evals, q, r, kq
  <2>8. /\ r \in PureState /\ r.Phase = p.Phase /\ r.Evals = evals
        /\ r.Commitments = p.Commitments \cup CommittedIn(msgs)
        /\ r.Accusations = p.Accusations /\ r.Apologies = p.Apologies
    BY <2>4, <2>6, <2>7 DEF PureState
  <2>9. Advances(p, r) /\ r.Phase # Finalized
    BY <1>2, <1>4, <2>8 DEF Advances, Dealing, Accusing, Apologizing, Finalized
  <2>10. Step(kp, kq, k) /\ kq.Pure = r
    BY <1>1, <2>5, <2>8, <2>9, NewKnowledge
  <2> QED
    BY <1>4, <2>8, <2>10 DEF kq, msgs
<1> QED
  BY <1>3, <1>4

(* The accusations among the messages.                                     *)
AccusedIn(msgs) == UNION {{m.Sender} \X m.Others : m \in msgs}

LEMMA syncAccusationsStep ==
    ASSUME NEW k \in Honest, NEW kp, KeyperOK(kp, k), EventsOK, NEW b
    PROVE  LET kq == syncAccusations(kp, b)
           IN  /\ Step(kp, kq, k)
               /\ kq.Pure.Phase = kp.Pure.Phase
               /\ kq.Pure.Commitments = kp.Pure.Commitments
               /\ kq.Pure.Accusations =
                    IF kp.Pure.Phase > Accusing THEN kp.Pure.Accusations
                    ELSE kp.Pure.Accusations \cup
                         AccusedIn(Published("Accusation", Accusing, kp.SyncHeight, b))
               /\ kq.Pure.Apologies = kp.Pure.Apologies
<1> DEFINE msgs == Published("Accusation", Accusing, kp.SyncHeight, b)
           p == kp.Pure
           q == HandleAccusationMsgs(p, msgs)
           kq == syncAccusations(kp, b)
<1>1. kq = [kp EXCEPT !.Pure = q]
  BY DEF syncAccusations
<1>2. p \in PureState /\ p.Phase \in 0 .. 4
  BY KeyperParts, PhaseIsNumber
<1>3. CASE p.Phase > Accusing
  <2>1. q = p
    BY <1>3 DEF HandleAccusationMsgs
  <2>2. Advances(p, p)
    BY <1>2 DEF Advances
  <2>3. Step(kp, kq, k) /\ kq.Pure = p
    <3> HIDE DEF kq, q
    <3> QED
      BY <1>1, <1>2, <2>1, <2>2, NewKnowledge
  <2> QED
    BY <1>3, <2>3
<1>4. CASE ~(p.Phase > Accusing)
  <2>1. q = [p EXCEPT !.Accusations = p.Accusations \cup AccusedIn(msgs)]
    BY <1>4 DEF HandleAccusationMsgs, AccusedIn
  <2>2. AccusedIn(msgs) \subseteq Keypers \X Keypers
    BY PublishedOK DEF AccusedIn
  <2> HIDE DEF msgs, kq
  <2>3. /\ q \in PureState /\ q.Phase = p.Phase /\ q.Evals = p.Evals
        /\ q.Commitments = p.Commitments
        /\ q.Accusations = p.Accusations \cup AccusedIn(msgs)
        /\ q.Apologies = p.Apologies
    <3> HIDE DEF q, p
    <3> QED
      BY <1>2, <2>1, <2>2 DEF PureState
  <2> HIDE DEF q
  <2>4. Advances(p, q) /\ q.Phase # Finalized
    BY <1>2, <1>4, <2>3 DEF Advances, Dealing, Accusing, Apologizing, Finalized
  <2>5. Step(kp, kq, k) /\ kq.Pure = q
    BY <1>1, <2>3, <2>4, NewKnowledge
  <2> QED
    BY <1>4, <2>3, <2>5 DEF kq, msgs
<1> QED
  BY <1>3, <1>4
(* The apologies after more messages.                                      *)
ApologizedIn(apologies, msgs) ==
    [a \in Keypers \X Keypers |->
       IF apologies[a] = "none" THEN EvalIn(msgs, a[2], a[1]) ELSE apologies[a]]

LEMMA syncApologiesStep ==
    ASSUME NEW k \in Honest, NEW kp, KeyperOK(kp, k), EventsOK, NEW b
    PROVE  LET kq == syncApologies(kp, b)
           IN  /\ Step(kp, kq, k)
               /\ kq.Pure.Phase = kp.Pure.Phase
               /\ kq.Pure.Commitments = kp.Pure.Commitments
               /\ kq.Pure.Accusations = kp.Pure.Accusations
               /\ kq.Pure.Apologies =
                    IF kp.Pure.Phase > Apologizing THEN kp.Pure.Apologies
                    ELSE ApologizedIn(kp.Pure.Apologies,
                           Published("Apology", Apologizing, kp.SyncHeight, b))
<1> DEFINE msgs == Published("Apology", Apologizing, kp.SyncHeight, b)
           p == kp.Pure
           q == HandleApologyMsgs(p, msgs)
           kq == syncApologies(kp, b)
<1>1. kq = [kp EXCEPT !.Pure = q]
  BY DEF syncApologies
<1>2. p \in PureState /\ p.Phase \in 0 .. 4
  BY KeyperParts, PhaseIsNumber
<1>3. CASE p.Phase > Apologizing
  <2>1. q = p
    BY <1>3 DEF HandleApologyMsgs
  <2>2. Advances(p, p)
    BY <1>2 DEF Advances
  <2>3. Step(kp, kq, k) /\ kq.Pure = p
    <3> HIDE DEF kq, q
    <3> QED
      BY <1>1, <1>2, <2>1, <2>2, NewKnowledge
  <2> QED
    BY <1>3, <2>3
<1>4. CASE ~(p.Phase > Apologizing)
  <2>1. q = [p EXCEPT !.Apologies = ApologizedIn(p.Apologies, msgs)]
    BY <1>4 DEF HandleApologyMsgs, ApologizedIn
  <2>2. ApologizedIn(p.Apologies, msgs) \in [Keypers \X Keypers -> Eval]
    <3>1. \A a \in Keypers \X Keypers : EvalIn(msgs, a[2], a[1]) \in Eval
      BY PublishedOK, EvalInType
    <3>2. \A a \in Keypers \X Keypers : p.Apologies[a] \in Eval
      BY <1>2 DEF PureState
    <3> HIDE DEF msgs, p
    <3> QED
      BY <3>1, <3>2 DEF ApologizedIn
  <2> HIDE DEF msgs, kq
  <2>3. /\ q \in PureState /\ q.Phase = p.Phase /\ q.Evals = p.Evals
        /\ q.Commitments = p.Commitments
        /\ q.Accusations = p.Accusations
        /\ q.Apologies = ApologizedIn(p.Apologies, msgs)
    <3> DEFINE apologies == ApologizedIn(p.Apologies, msgs)
    <3>1. q = [p EXCEPT !.Apologies = apologies] /\ apologies \in [Keypers \X Keypers -> Eval]
      BY <2>1, <2>2
    <3> HIDE DEF q, p, apologies
    <3>2. /\ q \in PureState /\ q.Phase = p.Phase /\ q.Evals = p.Evals
          /\ q.Commitments = p.Commitments /\ q.Accusations = p.Accusations
          /\ q.Apologies = apologies
      BY <1>2, <3>1 DEF PureState
    <3> QED
      BY <3>2 DEF apologies
  <2> HIDE DEF q
  <2>4. Advances(p, q) /\ q.Phase # Finalized
    BY <1>2, <1>4, <2>3 DEF Advances, Dealing, Accusing, Apologizing, Finalized
  <2>5. Step(kp, kq, k) /\ kq.Pure = q
    BY <1>1, <2>3, <2>4, NewKnowledge
  <2> QED
    BY <1>4, <2>3, <2>5 DEF kq, msgs
<1> QED
  BY <1>3, <1>4

LEMMA sendPolyEvalsStep ==
    ASSUME NEW k \in Honest, NEW kp, KeyperOK(kp, k), NEW b
    PROVE  LET kq == sendPolyEvals(kp, k, b)
           IN  Step(kp, kq, k) /\ kq.Pure = kp.Pure
<1> DEFINE known == {r \in kp.Outgoing :
                       \E c \in checkIns : c.Sender = r /\ c.Height <= b}
           kq == sendPolyEvals(kp, k, b)
           rest == [kp EXCEPT !.Outgoing = kp.Outgoing \ known]
           none == [kp EXCEPT !.Outgoing = {}]
<1>0. kp.Pure \in PureState /\ Advances(kp.Pure, kp.Pure) /\ kp.Result = Outcome(kp.Pure, k)
      /\ (kp.Pure.Phase # Off => kp.Pure.Evals[k] = "good")
  BY NoStep, KeyperParts DEF Step, KeyperOK
<1>1. CASE kp.Pure.Phase > Dealing
  <2>0. ~(kp.Pure.Phase <= Dealing)
    BY <1>0, <1>1, PhaseIsNumber DEF Dealing
  <2>1. kq = none
    BY <1>1, <2>0, Zenon DEF sendPolyEvals
  <2>2. /\ IsKeyperRecord(none) /\ none.Pure = kp.Pure /\ none.Outgoing = {}
        /\ none.Actions = kp.Actions /\ none.SyncHeight = kp.SyncHeight
        /\ none.Result = kp.Result
    BY KeyperParts, SetOutgoing
  <2> HIDE DEF none, kq
  <2>3. Step(kp, kq, k)
    BY <1>0, <2>1, <2>2, KeyperParts, BuildStep
  <2> QED
    BY <2>1, <2>2, <2>3 DEF kq
<1>2. CASE kp.Pure.Phase <= Dealing /\ known # {}
  <2>0. ~(kp.Pure.Phase > Dealing)
    BY <1>0, <1>2, PhaseIsNumber DEF Dealing
  <2>1. kq = Send(rest, PolyEvalMsg(k, known))
    BY <1>2, <2>0 DEF sendPolyEvals
  <2>2. known \subseteq kp.Outgoing /\ known \subseteq Keypers
    BY KeyperParts
  <2>3. PolyEvalMsg(k, known) \in HonestMsgs(kp.Pure, k)
    <3> HIDE DEF known
    <3> QED
      BY <2>2, Zenon DEF HonestMsgs
  <2> HIDE DEF known
  <2>4. /\ IsKeyperRecord(rest) /\ rest.Pure = kp.Pure
        /\ rest.Outgoing = kp.Outgoing \ known
        /\ rest.Actions = kp.Actions /\ rest.SyncHeight = kp.SyncHeight
        /\ rest.Result = kp.Result
    BY KeyperParts, SetOutgoing
  <2> HIDE DEF rest, kq
  <2>5. /\ IsKeyperRecord(kq) /\ kq.Pure = kp.Pure
        /\ kq.Outgoing = kp.Outgoing \ known
        /\ kq.Actions = Append(kp.Actions, PolyEvalMsg(k, known))
        /\ kq.SyncHeight = kp.SyncHeight /\ kq.Result = kp.Result
    BY <2>1, <2>4, SendAppends
  <2>6. kq.Actions \in Seq(HonestMsgs(kp.Pure, k))
    BY <2>3, <2>5, KeyperParts
  <2>7. kq.Outgoing \in SUBSET Keypers
    BY <2>5, KeyperParts
  <2>8. Step(kp, kq, k)
    BY <1>0, <2>5, <2>6, <2>7, BuildStep
  <2> QED
    BY <2>5, <2>8 DEF kq
<1>3. CASE ~(kp.Pure.Phase > Dealing) /\ known = {}
  <2>1. kq = kp
    BY <1>3 DEF sendPolyEvals
  <2> QED
    BY <2>1, NoStep
<1> QED
  BY <1>0, <1>1, <1>2, <1>3, PhaseIsNumber DEF Dealing
(* No message of a phase is published once the phase is over.              *)
LEMMA NothingLater ==
    ASSUME EventsOK, height \in Nat, NEW kind, NEW phase \in Phase,
           NEW from \in Nat, NEW to, getPhaseAtHeight(from) > phase
    PROVE  Published(kind, phase, from, to) = {}
<1> SUFFICES ASSUME NEW e \in events, e.Height \in from .. to,
                    getPhaseAtHeight(e.Height) = phase
             PROVE  FALSE
  BY DEF Published
<1>1. e.Height \in Nat /\ from <= e.Height
  BY StartHeightAssumption DEF EventsOK, EventOK
<1>2. getPhaseAtHeight(from) <= getPhaseAtHeight(e.Height)
      /\ getPhaseAtHeight(from) \in Phase
  BY <1>1, PhasesInOrder
<1> QED
  BY <1>2 DEF Phase, Off, Finalized

LEMMA NothingNew ==
    /\ CommittedIn({}) = {}
    /\ AccusedIn({}) = {}
    /\ \A p \in PureState : ApologizedIn(p.Apologies, {}) = p.Apologies
<1>1. CommittedIn({}) = {} /\ AccusedIn({}) = {}
  BY DEF CommittedIn, AccusedIn
<1>2. \A s, a : EvalIn({}, s, a) = "none"
  BY DEF EvalIn
<1>3. ASSUME NEW p \in PureState
      PROVE  ApologizedIn(p.Apologies, {}) = p.Apologies
  <2>1. p.Apologies \in [Keypers \X Keypers -> Eval]
    BY DEF PureState
  <2> QED
    BY <1>2, <2>1 DEF ApologizedIn
<1> QED
  BY <1>1, <1>3

(* A sync takes the keyper to the phase of the next block and adds what    *)
(* has been published since the last one in its phase.                     *)
LEMMA handleDKGsStep ==
    ASSUME NEW k \in Honest, NEW kp, KeyperOK(kp, k), PhaseRight(kp), EventsOK,
           height \in Nat, NEW b \in Nat, b >= StartHeight, kp.SyncHeight <= b + 1
    PROVE  LET kq == handleDKGs(kp, k, b)
           IN  /\ Step(kp, kq, k)
               /\ kq.Pure.Phase = getPhaseAtHeight(b + 1)
               /\ kq.Pure.Commitments = kp.Pure.Commitments \cup
                    CommittedIn(Published("PolyCommitment", Dealing, kp.SyncHeight, b))
               /\ kq.Pure.Accusations = kp.Pure.Accusations \cup
                    AccusedIn(Published("Accusation", Accusing, kp.SyncHeight, b))
               /\ kq.Pure.Apologies = ApologizedIn(kp.Pure.Apologies,
                    Published("Apology", Apologizing, kp.SyncHeight, b))
<1> DEFINE next == phaseAtNextBlockHeight(b)
           s == kp.SyncHeight
           f == kp.Pure.Phase
           commitments == Published("PolyCommitment", Dealing, s, b)
           accusations == Published("Accusation", Accusing, s, b)
           apologies == Published("Apology", Apologizing, s, b)
           kp1 == startPhase1Dealing(kp, k, next)
           kp2 == syncPolyMsgs(kp1, k, b)
           kp3 == startPhase2Accusing(kp2, k, next)
           kp4 == syncAccusations(kp3, b)
           kp5 == startPhase3Apologizing(kp4, k, next)
           kp6 == syncApologies(kp5, b)
           kp7 == dkgFinalize(kp6, k, next)
           kq == handleDKGs(kp, k, b)
<1>1. /\ s \in Nat /\ s >= StartHeight /\ StartHeight \in Nat
      /\ kp.Pure \in PureState /\ f \in 0 .. 4
  BY KeyperParts, PhaseIsNumber, StartHeightAssumption DEF PhaseRight
<1>2. next = getPhaseAtHeight(b + 1) /\ next \in Dealing .. Finalized /\ next \in Phase
  BY <1>1, StartedPhase DEF phaseAtNextBlockHeight, Phase, Off, Dealing, Finalized
<1>3. f # Off => f = getPhaseAtHeight(s)
  BY DEF PhaseRight
<1>4. f <= next
  <2>1. getPhaseAtHeight(s) <= getPhaseAtHeight(b + 1)
    BY <1>1, PhasesInOrder
  <2> QED
    BY <1>1, <1>2, <1>3, <2>1 DEF Off, Dealing, Finalized
<1>5. /\ f > Dealing => commitments = {}
      /\ f > Accusing => accusations = {}
      /\ f > Apologizing => apologies = {}
  <2>1. /\ Dealing \in Phase /\ Accusing \in Phase /\ Apologizing \in Phase
        /\ \A g \in Phase : f > g => getPhaseAtHeight(s) > g
    BY <1>1, <1>3 DEF Phase, Off, Dealing, Accusing, Apologizing, Finalized
  <2> QED
    BY <1>1, <2>1, NothingLater
<1> HIDE DEF next, s, f, commitments, accusations, apologies
<1>6. CASE f = Finalized
  <2>1. kq = kp
    BY <1>6 DEF handleDKGs, f
  <2>2. commitments = {} /\ accusations = {} /\ apologies = {}
    BY <1>5, <1>6 DEF Dealing, Accusing, Apologizing, Finalized
  <2>3. getPhaseAtHeight(b + 1) = f
    BY <1>2, <1>4, <1>6 DEF Finalized, Dealing
  <2> QED
    BY <1>1, <2>1, <2>2, <2>3, NothingNew, NoStep
       DEF commitments, accusations, apologies, s, f
<1>7. CASE f # Finalized
  <2>1. kq = sendPolyEvals(kp7, k, b)
    BY <1>7 DEF handleDKGs, syncDKGWithEon, f, next
  <2> HIDE DEF kp1, kp2, kp3, kp4, kp5, kp6, kp7, kq
  <2>2. PhaseStep(kp, kp1, k, IF f = Off THEN Dealing ELSE f)
    BY <1>2, startPhase1DealingStep DEF kp1, f
  <2>3. KeyperOK(kp1, k) /\ kp1.SyncHeight = s
    BY <2>2 DEF PhaseStep, Step, s
  <2>4. /\ Step(kp1, kp2, k)
        /\ kp2.Pure.Phase = kp1.Pure.Phase
        /\ kp2.Pure.Commitments = IF kp1.Pure.Phase > Dealing THEN kp1.Pure.Commitments
                                  ELSE kp1.Pure.Commitments \cup CommittedIn(commitments)
        /\ kp2.Pure.Accusations = kp1.Pure.Accusations
        /\ kp2.Pure.Apologies = kp1.Pure.Apologies
    BY <2>3, syncPolyMsgsStep DEF kp2, commitments
  <2>5. KeyperOK(kp2, k) /\ kp2.SyncHeight = s
    BY <2>3, <2>4 DEF Step
  <2>6. PhaseStep(kp2, kp3, k, IF kp2.Pure.Phase = Dealing /\ next >= Accusing
                                 THEN Accusing ELSE kp2.Pure.Phase)
    BY <1>2, <2>5, startPhase2AccusingStep DEF kp3
  <2>7. KeyperOK(kp3, k) /\ kp3.SyncHeight = s
    BY <2>5, <2>6 DEF PhaseStep, Step
  <2>8. /\ Step(kp3, kp4, k)
        /\ kp4.Pure.Phase = kp3.Pure.Phase
        /\ kp4.Pure.Commitments = kp3.Pure.Commitments
        /\ kp4.Pure.Accusations = IF kp3.Pure.Phase > Accusing THEN kp3.Pure.Accusations
                                  ELSE kp3.Pure.Accusations \cup AccusedIn(accusations)
        /\ kp4.Pure.Apologies = kp3.Pure.Apologies
    BY <2>7, syncAccusationsStep DEF kp4, accusations
  <2>9. KeyperOK(kp4, k) /\ kp4.SyncHeight = s
    BY <2>7, <2>8 DEF Step
  <2>10. PhaseStep(kp4, kp5, k, IF kp4.Pure.Phase = Accusing /\ next >= Apologizing
                                  THEN Apologizing ELSE kp4.Pure.Phase)
    BY <1>2, <2>9, startPhase3ApologizingStep DEF kp5
  <2>11. KeyperOK(kp5, k) /\ kp5.SyncHeight = s
    BY <2>9, <2>10 DEF PhaseStep, Step
  <2>12. /\ Step(kp5, kp6, k)
         /\ kp6.Pure.Phase = kp5.Pure.Phase
         /\ kp6.Pure.Commitments = kp5.Pure.Commitments
         /\ kp6.Pure.Accusations = kp5.Pure.Accusations
         /\ kp6.Pure.Apologies = IF kp5.Pure.Phase > Apologizing THEN kp5.Pure.Apologies
                                 ELSE ApologizedIn(kp5.Pure.Apologies, apologies)
    BY <2>11, syncApologiesStep DEF kp6, apologies
  <2>13. KeyperOK(kp6, k)
    BY <2>12 DEF Step
  <2>14. PhaseStep(kp6, kp7, k, IF kp6.Pure.Phase = Apologizing /\ next >= Finalized
                                  THEN Finalized ELSE kp6.Pure.Phase)
    BY <1>2, <2>13, dkgFinalizeStep DEF kp7
  <2>15. KeyperOK(kp7, k)
    BY <2>14 DEF PhaseStep, Step
  <2>16. Step(kp7, kq, k) /\ kq.Pure = kp7.Pure
    BY <2>1, <2>15, sendPolyEvalsStep
  <2>17. Step(kp, kq, k)
    BY <2>2, <2>3, <2>4, <2>5, <2>6, <2>7, <2>8, <2>9, <2>10, <2>11, <2>12, <2>13,
       <2>14, <2>15, <2>16, StepTransitive DEF PhaseStep
  <2>18. /\ kp1.Pure.Phase = IF f = Off THEN Dealing ELSE f
         /\ kp3.Pure.Phase = IF kp1.Pure.Phase = Dealing /\ next >= Accusing
                               THEN Accusing ELSE kp1.Pure.Phase
         /\ kp5.Pure.Phase = IF kp3.Pure.Phase = Accusing /\ next >= Apologizing
                               THEN Apologizing ELSE kp3.Pure.Phase
         /\ kq.Pure.Phase = IF kp5.Pure.Phase = Apologizing /\ next >= Finalized
                              THEN Finalized ELSE kp5.Pure.Phase
    BY <2>2, <2>4, <2>6, <2>8, <2>10, <2>12, <2>14, <2>16 DEF PhaseStep
  <2>19. /\ kq.Pure.Phase = next
         /\ kp1.Pure.Phase > Dealing => f > Dealing
         /\ kp3.Pure.Phase > Accusing => f > Accusing
         /\ kp5.Pure.Phase > Apologizing => f > Apologizing
    BY <1>1, <1>2, <1>4, <2>18 DEF Off, Dealing, Accusing, Apologizing, Finalized
  <2>20. kq.Pure.Commitments = kp.Pure.Commitments \cup CommittedIn(commitments)
    BY <1>5, <2>2, <2>4, <2>6, <2>8, <2>10, <2>12, <2>14, <2>16, <2>19, NothingNew
       DEF PhaseStep
  <2>21. kq.Pure.Accusations = kp.Pure.Accusations \cup AccusedIn(accusations)
    BY <1>5, <2>2, <2>4, <2>6, <2>8, <2>10, <2>12, <2>14, <2>16, <2>19, NothingNew
       DEF PhaseStep
  <2>22. kq.Pure.Apologies = ApologizedIn(kp.Pure.Apologies, apologies)
    <3>1. kp5.Pure.Apologies = kp.Pure.Apologies
      BY <2>2, <2>4, <2>6, <2>8, <2>10 DEF PhaseStep
    <3>2. kq.Pure.Apologies = kp6.Pure.Apologies
      BY <2>14, <2>16 DEF PhaseStep
    <3> QED
      BY <1>1, <1>5, <2>12, <2>19, <3>1, <3>2, NothingNew
  <2> QED
    BY <1>2, <2>17, <2>19, <2>20, <2>21, <2>22
       DEF kq, commitments, accusations, apologies, s
<1> QED
  BY <1>6, <1>7
-----------------------------------------------------------------------------
(* What the chain says, sync by sync.                                      *)

LEMMA PublishedSplits ==
    ASSUME EventsOK, height \in Nat, NEW kind, NEW phase, NEW s \in Nat, NEW b \in Nat,
           StartHeight <= s, s <= b + 1
    PROVE  Published(kind, phase, StartHeight, b) =
             Published(kind, phase, StartHeight, s - 1) \cup Published(kind, phase, s, b)
<1>1. \A e \in events : e.Height \in StartHeight .. b <=>
                          e.Height \in StartHeight .. s - 1 \/ e.Height \in s .. b
  BY StartHeightAssumption DEF EventsOK, EventOK
<1> QED
  BY <1>1 DEF Published

LEMMA ChainCommitmentsSplit ==
    ASSUME EventsOK, height \in Nat, NEW s \in Nat, NEW b \in Nat,
           StartHeight <= s, s <= b + 1
    PROVE  ChainCommitments(b) = ChainCommitments(s - 1) \cup
             CommittedIn(Published("PolyCommitment", Dealing, s, b))
<1> DEFINE before == Published("PolyCommitment", Dealing, StartHeight, s - 1)
           now == Published("PolyCommitment", Dealing, s, b)
<1>1. Published("PolyCommitment", Dealing, StartHeight, b) = before \cup now
  BY PublishedSplits
<1> HIDE DEF before, now
<1>2. CommittedIn(before \cup now) = CommittedIn(before) \cup CommittedIn(now)
  BY DEF CommittedIn
<1>3. ChainCommitments(b) = CommittedIn(before \cup now)
  BY <1>1 DEF ChainCommitments, CommittedIn
<1>4. ChainCommitments(s - 1) = CommittedIn(before)
  BY DEF ChainCommitments, CommittedIn, before
<1> QED
  BY <1>2, <1>3, <1>4 DEF now

LEMMA ChainAccusationsSplit ==
    ASSUME EventsOK, height \in Nat, NEW s \in Nat, NEW b \in Nat,
           StartHeight <= s, s <= b + 1
    PROVE  ChainAccusations(b) = ChainAccusations(s - 1) \cup
             AccusedIn(Published("Accusation", Accusing, s, b))
<1>1. \A from, to : \A m \in Published("Accusation", Accusing, from, to) :
         m.Sender \in Keypers /\ m.Others \subseteq Keypers
  BY PublishedOK
<1>2. AccusedIn(Published("Accusation", Accusing, s, b)) =
        {a \in Keypers \X Keypers :
           \E m \in Published("Accusation", Accusing, s, b) :
              m.Sender = a[1] /\ a[2] \in m.Others}
  <2> DEFINE msgs == Published("Accusation", Accusing, s, b)
  <2>1. \A m \in msgs : m.Sender \in Keypers /\ m.Others \subseteq Keypers
    BY <1>1
  <2> HIDE DEF msgs
  <2>2. \A a \in Keypers \X Keypers :
           a \in AccusedIn(msgs) <=> \E m \in msgs : m.Sender = a[1] /\ a[2] \in m.Others
    BY DEF AccusedIn
  <2>3. \A a \in AccusedIn(msgs) : a \in Keypers \X Keypers
    BY <2>1 DEF AccusedIn
  <2>4. AccusedIn(msgs) = {a \in Keypers \X Keypers :
                             \E m \in msgs : m.Sender = a[1] /\ a[2] \in m.Others}
    BY <2>2, <2>3, Zenon
  <2> QED
    BY <2>4 DEF msgs
<1> DEFINE before == Published("Accusation", Accusing, StartHeight, s - 1)
           now == Published("Accusation", Accusing, s, b)
           Acc(msgs) == {a \in Keypers \X Keypers :
                           \E m \in msgs : m.Sender = a[1] /\ a[2] \in m.Others}
<1>3. Published("Accusation", Accusing, StartHeight, b) = before \cup now
  BY PublishedSplits
<1> HIDE DEF before, now
<1>4. Acc(before \cup now) = Acc(before) \cup Acc(now)
  OBVIOUS
<1>5. ChainAccusations(b) = Acc(before \cup now)
  BY <1>3 DEF ChainAccusations
<1>6. ChainAccusations(s - 1) = Acc(before)
  BY DEF ChainAccusations, before
<1>7. AccusedIn(now) = Acc(now)
  BY <1>2 DEF now
<1> HIDE DEF Acc
<1> QED
  BY <1>4, <1>5, <1>6, <1>7 DEF now

(* The first apology to a keyper counts, and there is only one.            *)
LEMMA EvalInSplits ==
    ASSUME NEW S, NEW T, NEW s, NEW a,
           \A m, n \in S \cup T : m.Sender = n.Sender => m = n
    PROVE  EvalIn(S \cup T, s, a) =
             IF EvalIn(S, s, a) = "none" THEN EvalIn(T, s, a) ELSE EvalIn(S, s, a)
<1> DEFINE F(msgs) == {m \in msgs : m.Sender = s /\ a \in m.Others /\ m.Evals[a] # "invalid"}
<1>1. \A msgs : EvalIn(msgs, s, a) =
         IF F(msgs) = {} THEN "none" ELSE (CHOOSE m \in F(msgs) : TRUE).Evals[a]
  BY DEF EvalIn
<1>2. F(S \cup T) = F(S) \cup F(T)
  OBVIOUS
<1>3. \A m, n \in F(S \cup T) : m = n
  OBVIOUS
<1>4. \A msgs, m : F(msgs) = {m} => EvalIn(msgs, s, a) = m.Evals[a]
  <2> HIDE DEF F
  <2> SUFFICES ASSUME NEW msgs, NEW m, F(msgs) = {m}
               PROVE  EvalIn(msgs, s, a) = m.Evals[a]
    OBVIOUS
  <2>1. (CHOOSE x \in {m} : TRUE) = m
    OBVIOUS
  <2> QED
    BY <1>1, <2>1
<1> HIDE DEF F
<1>5. CASE F(S) = {}
  <2>1. EvalIn(S, s, a) = "none"
    BY <1>1, <1>5
  <2>2. F(S \cup T) = F(T)
    BY <1>2, <1>5
  <2>3. EvalIn(S \cup T, s, a) = EvalIn(T, s, a)
    BY <1>1, <2>2
  <2> QED
    BY <2>1, <2>3
<1>6. CASE F(S) # {}
  <2>1. PICK m : m \in F(S)
    BY <1>6
  <2>2. F(S) = {m} /\ F(S \cup T) = {m} /\ (F(T) = {} \/ F(T) = {m})
    BY <1>2, <1>3, <2>1
  <2>3. EvalIn(S, s, a) = m.Evals[a] /\ EvalIn(S \cup T, s, a) = m.Evals[a]
    BY <1>4, <2>2
  <2>4. EvalIn(T, s, a) = "none" \/ EvalIn(T, s, a) = m.Evals[a]
    BY <1>1, <1>4, <2>2
  <2> QED
    BY <2>3, <2>4
<1> QED
  BY <1>5, <1>6

LEMMA ChainApologiesSplit ==
    ASSUME EventsOK, OneApologyEach, height \in Nat, NEW s \in Nat, NEW b \in Nat,
           StartHeight <= s, s <= b + 1
    PROVE  ChainApologies(b) = ApologizedIn(ChainApologies(s - 1),
                                 Published("Apology", Apologizing, s, b))
<1> DEFINE before == Published("Apology", Apologizing, StartHeight, s - 1)
           now == Published("Apology", Apologizing, s, b)
<1>1. Published("Apology", Apologizing, StartHeight, b) = before \cup now
  BY PublishedSplits
<1>2. \A m, n \in before \cup now : m.Sender = n.Sender => m = n
  BY DEF Published, OneApologyEach
<1> HIDE DEF before, now
<1>3. \A t, a : EvalIn(before \cup now, t, a) =
         IF EvalIn(before, t, a) = "none" THEN EvalIn(now, t, a) ELSE EvalIn(before, t, a)
  BY <1>2, EvalInSplits
<1>4. ChainApologies(b) = [a \in Keypers \X Keypers |-> EvalIn(before \cup now, a[2], a[1])]
  BY <1>1 DEF ChainApologies
<1>5. ChainApologies(s - 1) = [a \in Keypers \X Keypers |-> EvalIn(before, a[2], a[1])]
  BY DEF ChainApologies, before
<1> DEFINE c == ChainApologies(s - 1)
<1>6. \A a \in Keypers \X Keypers : c[a] = EvalIn(before, a[2], a[1])
  BY <1>5
<1> HIDE DEF c
<1>7. ApologizedIn(c, now) = [a \in Keypers \X Keypers |->
         IF EvalIn(before, a[2], a[1]) = "none" THEN EvalIn(now, a[2], a[1])
         ELSE EvalIn(before, a[2], a[1])]
  BY <1>6, Zenon DEF ApologizedIn
<1>8. ChainApologies(b) = [a \in Keypers \X Keypers |->
         IF EvalIn(before, a[2], a[1]) = "none" THEN EvalIn(now, a[2], a[1])
         ELSE EvalIn(before, a[2], a[1])]
  <2>1. \A a \in Keypers \X Keypers :
           EvalIn(before \cup now, a[2], a[1]) =
             IF EvalIn(before, a[2], a[1]) = "none" THEN EvalIn(now, a[2], a[1])
             ELSE EvalIn(before, a[2], a[1])
    BY <1>3
  <2> QED
    BY <1>4, <2>1, Zenon
<1>9. ChainApologies(b) = ApologizedIn(c, now)
  BY <1>7, <1>8, Zenon
<1> QED
  BY <1>9 DEF c, now
-----------------------------------------------------------------------------
(* A keyper syncs.                                                         *)

LEMMA SetSyncHeight ==
    ASSUME NEW kp, NEW k, KeyperOK(kp, k), NEW h \in Nat
    PROVE  LET kq == [kp EXCEPT !.SyncHeight = h]
           IN  KeyperOK(kq, k) /\ kq.Pure = kp.Pure /\ kq.SyncHeight = h
<1> DEFINE kq == [kp EXCEPT !.SyncHeight = h]
<1>1. /\ IsKeyperRecord(kq) /\ kq.Pure = kp.Pure /\ kq.Outgoing = kp.Outgoing
      /\ kq.Actions = kp.Actions /\ kq.SyncHeight = h /\ kq.Result = kp.Result
  BY KeyperParts DEF IsKeyperRecord
<1> HIDE DEF kq
<1> DEFINE A == Seq(HonestMsgs(kp.Pure, k))
<1>2. kp.Actions \in A
  BY KeyperParts
<1>3. kp.Result \in {"running", "ok", "failed"}
  BY DEF KeyperOK
<1> HIDE DEF A
<1>4. kq \in [Pure : PureState, Outgoing : SUBSET Keypers, Actions : A,
             SyncHeight : Nat, Result : {"running", "ok", "failed"}]
  BY <1>1, <1>2, <1>3, KeyperParts DEF IsKeyperRecord
<1> QED
  BY <1>1, <1>4 DEF KeyperOK, A, kq

(* What a keyper that has synced knows is what the chain says.             *)
KnowsChain(kp) ==
    /\ kp.Pure.Commitments = ChainCommitments(kp.SyncHeight - 1)
    /\ kp.Pure.Accusations = ChainAccusations(kp.SyncHeight - 1)
    /\ kp.Pure.Apologies = ChainApologies(kp.SyncHeight - 1)

LEMMA DecideKeyper ==
    ASSUME IInv, NEW k \in Honest
    PROVE  LET kp == keypers[k]
               kq == [handleDKGs(kp, k, height) EXCEPT !.SyncHeight = height + 1]
           IN  /\ KeyperOK(kq, k)
               /\ PhaseRight(kq)
               /\ kq.SyncHeight = height + 1
               /\ KnowsChain(kq)
               /\ Advances(kp.Pure, kq.Pure)
<1> DEFINE kp == keypers[k]
           b == height
           kr == handleDKGs(kp, k, b)
           kq == [kr EXCEPT !.SyncHeight = b + 1]
           s == kp.SyncHeight
<1>1. /\ KeyperOK(kp, k) /\ PhaseRight(kp) /\ s <= b + 1
      /\ EventsOK /\ OneApologyEach /\ b \in Nat /\ b >= StartHeight
  BY DEF IInv, KeypersOK, EventsOK
<1>2. s \in Nat /\ s >= StartHeight /\ StartHeight \in Nat
  BY <1>1, KeyperParts, StartHeightAssumption DEF PhaseRight
<1>3. KnowsChain(kp)
  BY DEF IInv, KnowsTheChain, KnowsChain
<1> HIDE DEF kp
<1>4. /\ Step(kp, kr, k)
      /\ kr.Pure.Phase = getPhaseAtHeight(b + 1)
      /\ kr.Pure.Commitments = kp.Pure.Commitments \cup
           CommittedIn(Published("PolyCommitment", Dealing, s, b))
      /\ kr.Pure.Accusations = kp.Pure.Accusations \cup
           AccusedIn(Published("Accusation", Accusing, s, b))
      /\ kr.Pure.Apologies = ApologizedIn(kp.Pure.Apologies,
           Published("Apology", Apologizing, s, b))
  BY <1>1, handleDKGsStep
<1> HIDE DEF kr
<1>5. KeyperOK(kq, k) /\ kq.Pure = kr.Pure /\ kq.SyncHeight = b + 1
  BY <1>1, <1>4, SetSyncHeight DEF Step
<1> HIDE DEF kq
<1>6. PhaseRight(kq)
  BY <1>1, <1>2, <1>4, <1>5 DEF PhaseRight
<1>7. /\ kq.Pure.Commitments = ChainCommitments(b)
      /\ kq.Pure.Accusations = ChainAccusations(b)
      /\ kq.Pure.Apologies = ChainApologies(b)
  <2>1. /\ kp.Pure.Commitments = ChainCommitments(s - 1)
        /\ kp.Pure.Accusations = ChainAccusations(s - 1)
        /\ kp.Pure.Apologies = ChainApologies(s - 1)
    BY <1>3 DEF KnowsChain
  <2> HIDE DEF s, b
  <2>2. b \in Nat /\ StartHeight <= s /\ s <= b + 1 /\ height \in Nat
    BY <1>1, <1>2 DEF b
  <2>3. ChainCommitments(b) = ChainCommitments(s - 1) \cup
          CommittedIn(Published("PolyCommitment", Dealing, s, b))
    BY <1>1, <1>2, <2>2, ChainCommitmentsSplit
  <2>4. ChainAccusations(b) = ChainAccusations(s - 1) \cup
          AccusedIn(Published("Accusation", Accusing, s, b))
    BY <1>1, <1>2, <2>2, ChainAccusationsSplit
  <2>5. ChainApologies(b) = ApologizedIn(ChainApologies(s - 1),
          Published("Apology", Apologizing, s, b))
    BY <1>1, <1>2, <2>2, ChainApologiesSplit
  <2> QED
    BY <1>4, <1>5, <2>1, <2>3, <2>4, <2>5
<1>8. KnowsChain(kq)
  <2>1. kq.SyncHeight - 1 = b
    BY <1>1, <1>5
  <2> QED
    BY <1>7, <2>1 DEF KnowsChain
<1> QED
  BY <1>4, <1>5, <1>6, <1>8 DEF Step, kq, kr, kp
-----------------------------------------------------------------------------
(* The invariant.                                                          *)

LEMMA NewKeyperOK ==
    ASSUME NEW k \in Honest
    PROVE  KeyperOK(NewKeyper, k) /\ PhaseRight(NewKeyper)
           /\ NewKeyper.SyncHeight = StartHeight /\ NewKeyper.Pure = NewPureDKG
<1>1. NewPureDKG \in PureState /\ NewPureDKG.Phase = Off
  BY DEF NewPureDKG, PureState, Phase, Off, Finalized, Eval
<1>2. /\ NewKeyper.Pure = NewPureDKG /\ NewKeyper.Outgoing = {} /\ NewKeyper.Actions = <<>>
      /\ NewKeyper.SyncHeight = StartHeight /\ NewKeyper.Result = "running"
      /\ IsKeyperRecord(NewKeyper)
  BY DEF NewKeyper, IsKeyperRecord
<1>3. Outcome(NewPureDKG, k) = "running"
  BY <1>1, OutcomeIs DEF Off, Finalized
<1> DEFINE kp == NewKeyper
           A == Seq(HonestMsgs(kp.Pure, k))
<1>4. <<>> \in A
  OBVIOUS
<1>5. A = Seq(HonestMsgs(kp.Pure, k))
  OBVIOUS
<1> HIDE DEF A
<1>6. kp \in [Pure : PureState, Outgoing : SUBSET Keypers, Actions : A,
             SyncHeight : Nat, Result : {"running", "ok", "failed"}]
  BY <1>1, <1>2, <1>4, StartHeightAssumption DEF IsKeyperRecord
<1>7. KeyperOK(kp, k)
  BY <1>1, <1>2, <1>3, <1>5, <1>6 DEF KeyperOK
<1> QED
  BY <1>1, <1>2, <1>7, StartHeightAssumption DEF PhaseRight

LEMMA InitIInv == Init => IInv
<1> SUFFICES ASSUME Init PROVE IInv
  OBVIOUS
<1>1. /\ height = StartHeight /\ height \in Nat /\ events = {}
      /\ keypers = [k \in Honest |-> NewKeyper]
  BY StartHeightAssumption DEF Init
<1>2. KeypersOK
  BY <1>1, NewKeyperOK DEF KeypersOK
<1>3. \A kind, phase, from, to : Published(kind, phase, from, to) = {}
  BY <1>1 DEF Published
<1>4. \A h : ChainCommitments(h) = {} /\ ChainAccusations(h) = {}
             /\ ChainApologies(h) = [a \in Keypers \X Keypers |-> "none"]
  <2>1. \A h : ChainCommitments(h) = {} /\ ChainAccusations(h) = {}
    BY <1>3 DEF ChainCommitments, ChainAccusations
  <2>2. ASSUME NEW h
        PROVE  ChainApologies(h) = [a \in Keypers \X Keypers |-> "none"]
    <3>1. \A s, a : EvalIn({}, s, a) = "none"
      BY DEF EvalIn
    <3> QED
      BY <1>3, <3>1 DEF ChainApologies
  <2> QED
    BY <2>1, <2>2
<1>5. KnowsTheChain
  <2>1. /\ NewPureDKG.Commitments = {} /\ NewPureDKG.Accusations = {}
        /\ NewPureDKG.Apologies = [a \in Keypers \X Keypers |-> "none"]
    BY DEF NewPureDKG
  <2>2. \A k \in Honest : keypers[k].Pure = NewPureDKG
    BY <1>1, NewKeyperOK
  <2>3. \A h : /\ NewPureDKG.Commitments = ChainCommitments(h)
               /\ NewPureDKG.Accusations = ChainAccusations(h)
               /\ NewPureDKG.Apologies = ChainApologies(h)
    BY <1>4, <2>1, Zenon
  <2> QED
    BY <2>2, <2>3, Zenon DEF KnowsTheChain
<1> QED
  BY <1>1, <1>2, <1>5 DEF IInv, HonestEvents, OneApologyEach

LEMMA DecideIInv ==
    ASSUME IInv, NEW k \in Honest, Decide(k)
    PROVE  IInv'
<1> DEFINE kq == [handleDKGs(keypers[k], k, height) EXCEPT !.SyncHeight = height + 1]
<1>1. /\ keypers' = [keypers EXCEPT ![k] = kq]
      /\ height' = height /\ events' = events
  BY DEF Decide
<1>2. /\ KeyperOK(kq, k) /\ PhaseRight(kq) /\ kq.SyncHeight = height + 1
      /\ KnowsChain(kq) /\ Advances(keypers[k].Pure, kq.Pure)
  BY DecideKeyper
<1> HIDE DEF kq
<1>3. /\ height \in Nat /\ height >= StartHeight
      /\ keypers = [j \in Honest |-> keypers[j]]
      /\ \A j \in Honest : /\ KeyperOK(keypers[j], j) /\ PhaseRight(keypers[j])
                           /\ keypers[j].SyncHeight <= height + 1
                           /\ KnowsChain(keypers[j])
  BY DEF IInv, KeypersOK, KnowsTheChain, KnowsChain
<1>4. /\ keypers' = [j \in Honest |-> keypers'[j]]
      /\ keypers'[k] = kq
      /\ \A j \in Honest : j # k => keypers'[j] = keypers[j]
  BY <1>1, <1>3
<1>5. \A j \in Honest : /\ KeyperOK(keypers'[j], j) /\ PhaseRight(keypers'[j])
                        /\ keypers'[j].SyncHeight <= height + 1
                        /\ KnowsChain(keypers'[j])
  BY <1>2, <1>3, <1>4
<1>6. KeypersOK'
  BY <1>1, <1>4, <1>5 DEF KeypersOK
<1>7. KnowsTheChain'
  <2>1. \A h : /\ ChainCommitments(h)' = ChainCommitments(h)
               /\ ChainAccusations(h)' = ChainAccusations(h)
               /\ ChainApologies(h)' = ChainApologies(h)
    BY <1>1 DEF ChainCommitments, ChainAccusations, ChainApologies, Published
  <2> QED
    BY <1>5, <2>1 DEF KnowsTheChain, KnowsChain
<1>8. \A j \in Honest : HonestMsgs(keypers[j].Pure, j) \subseteq HonestMsgs(keypers'[j].Pure, j)
  BY <1>2, <1>3, <1>4, KeyperParts, MsgsStayRight
<1>9. HonestEvents'
  BY <1>1, <1>8 DEF IInv, HonestEvents
<1>10. \A e \in events' : EventOK(e)'
  BY <1>1 DEF IInv, EventOK
<1>11. OneApologyEach'
  BY <1>1 DEF IInv, OneApologyEach
<1> QED
  BY <1>1, <1>3, <1>6, <1>7, <1>9, <1>10, <1>11 DEF IInv
LEMMA HonestMsgFacts ==
    ASSUME NEW p, NEW k, NEW m \in HonestMsgs(p, k)
    PROVE  /\ m.Sender = k
           /\ m.Kind = "PolyCommitment" => m.DegreeOK
           /\ m.Kind = "Accusation" =>
                p.Phase >= Accusing /\ m.Others = ToAccuse(p, k)
           /\ m.Kind = "Apology" =>
                p.Phase >= Apologizing /\ m.Others = ToApologize(p, k)
           /\ m.Kind \in {"PolyEval", "Apology"} =>
                \A a \in m.Others : m.Evals[a] = "good"
<1>1. CASE m = PolyCommitmentMsg(k)
  BY <1>1 DEF PolyCommitmentMsg, Msg
<1>2. CASE m = EonStartVoteMsg(k)
  BY <1>2 DEF EonStartVoteMsg, Msg
<1>3. CASE \E r \in SUBSET Keypers : m = PolyEvalMsg(k, r)
  BY <1>3 DEF PolyEvalMsg, Msg
<1>4. CASE p.Phase >= Accusing /\ m = AccusationMsg(k, ToAccuse(p, k))
  BY <1>4 DEF AccusationMsg, Msg
<1>5. CASE p.Phase >= Apologizing /\ m = ApologyMsg(k, ToApologize(p, k))
  <2> DEFINE r == ToApologize(p, k)
  <2> HIDE DEF r
  <2>1. m = ApologyMsg(k, r)
    BY <1>5 DEF r
  <2>2. /\ m.Sender = k /\ m.Kind = "Apology" /\ m.Others = r
        /\ \A a \in m.Others : m.Evals[a] = "good"
    BY <2>1 DEF ApologyMsg, Msg
  <2> QED
    BY <1>5, <2>2 DEF r
<1> QED
  BY <1>1, <1>2, <1>3, <1>4, <1>5, Zenon DEF HonestMsgs

LEMMA AppInstanceIs ==
    /\ AppInstance.Config.Keypers = [k \in Keypers |-> k]
    /\ AppInstance.ApologiesSeen = {m.Sender : m \in MsgsOf("Apology")}
<1> DEFINE evals == UNION {{m.Sender} \X m.Others : m \in MsgsOf("PolyEval")}
           commitments == {m.Sender : m \in MsgsOf("PolyCommitment")}
           accusations == {m.Sender : m \in MsgsOf("Accusation")}
           apologies == {m.Sender : m \in MsgsOf("Apology")}
           config == [Keypers |-> [k \in Keypers |-> k]]
<1>1. AppInstance = [NewDKGInstance(config, Eon) EXCEPT
         !.PolyEvalsSeen = evals, !.PolyCommitmentsSeen = commitments,
         !.AccusationsSeen = accusations, !.ApologiesSeen = apologies]
  BY DEF AppInstance
<1> HIDE DEF evals, commitments, accusations, apologies, config
<1>2. AppInstance.Config = config /\ AppInstance.ApologiesSeen = apologies
  BY <1>1 DEF NewDKGInstance
<1> QED
  BY <1>2 DEF apologies, config

(* The app lets only messages between keypers through.                     *)
LEMMA RegisteredMsg ==
    ASSUME NEW m, CanRegister(m)
    PROVE  /\ m.Sender \in Keypers
           /\ m.Others \subseteq Keypers
           /\ m.Sender \notin m.Others
           /\ m.Kind = "Apology" =>
                \A e \in events : e.Msg.Kind = "Apology" => e.Msg.Sender # m.Sender
<1>1. AdmissibleMsg(AppInstance, m)
  BY DEF CanRegister, CanRegisterPolyEvalMsg, CanRegisterPolyCommitmentMsg,
         CanRegisterAccusationMsg, CanRegisterApologyMsg
<1>2. \A k : IsKeyper(AppInstance.Config, k) => k \in Keypers
  BY AppInstanceIs DEF IsKeyper
<1>3. m.Kind = "Apology" => m.Sender \notin AppInstance.ApologiesSeen
  BY DEF CanRegister, CanRegisterApologyMsg
<1>4. m.Kind = "Apology" =>
         \A e \in events : e.Msg.Kind = "Apology" => e.Msg.Sender # m.Sender
  BY <1>3, AppInstanceIs DEF MsgsOf
<1> QED
  BY <1>1, <1>2, <1>4 DEF AdmissibleMsg
(* A keyper that is done with its oldest message.                          *)
LEMMA MessageDone ==
    ASSUME NEW kp, NEW k, KeyperOK(kp, k), kp.Actions # <<>>
    PROVE  /\ Head(kp.Actions) \in HonestMsgs(kp.Pure, k)
           /\ LET kq == [kp EXCEPT !.Actions = Tail(@)]
              IN  KeyperOK(kq, k) /\ kq.Pure = kp.Pure /\ kq.SyncHeight = kp.SyncHeight
<1> DEFINE kq == [kp EXCEPT !.Actions = Tail(@)]
           A == Seq(HonestMsgs(kp.Pure, k))
<1>1. /\ Head(kp.Actions) \in HonestMsgs(kp.Pure, k)
      /\ Tail(kp.Actions) \in A
  <2> DEFINE S == HonestMsgs(kp.Pure, k)
  <2>1. kp.Actions \in Seq(S)
    BY KeyperParts
  <2> HIDE DEF S
  <2>2. Head(kp.Actions) \in S /\ Tail(kp.Actions) \in Seq(S)
    BY <2>1
  <2> QED
    BY <2>2 DEF S
<1>2. /\ IsKeyperRecord(kq) /\ kq.Pure = kp.Pure /\ kq.Outgoing = kp.Outgoing
      /\ kq.Actions = Tail(kp.Actions) /\ kq.SyncHeight = kp.SyncHeight
      /\ kq.Result = kp.Result
  BY KeyperParts DEF IsKeyperRecord
<1>3. kp.Result \in {"running", "ok", "failed"}
  BY DEF KeyperOK
<1>4. A = Seq(HonestMsgs(kq.Pure, k))
  BY <1>2
<1> HIDE DEF kq, A
<1>5. kq \in [Pure : PureState, Outgoing : SUBSET Keypers, Actions : A,
             SyncHeight : Nat, Result : {"running", "ok", "failed"}]
  BY <1>1, <1>2, <1>3, KeyperParts DEF IsKeyperRecord
<1>6. KeyperOK(kq, k)
  BY <1>2, <1>4, <1>5 DEF KeyperOK
<1> QED
  BY <1>1, <1>2, <1>6 DEF kq

LEMMA BlockIInv ==
    ASSUME IInv, NEW fate, NEW others \in Misbehaviour, NEW newKeys,
           Block(fate, others, newKeys)
    PROVE  IInv'
<1> DEFINE sent == {Head(keypers[k].Actions) :
                      k \in {j \in Waiting : fate[j] \in {"delivered", "unanswered"}}}
           fresh == {m \in sent \cup others : CanRegister(m)}
<1>1. /\ height \in Nat /\ height >= StartHeight /\ StartHeight \in Nat
      /\ keypers = [j \in Honest |-> keypers[j]]
      /\ \A j \in Honest : /\ KeyperOK(keypers[j], j) /\ PhaseRight(keypers[j])
                           /\ keypers[j].SyncHeight <= height + 1
                           /\ keypers[j].SyncHeight \in Nat
                           /\ KnowsChain(keypers[j])
      /\ EventsOK /\ HonestEvents /\ OneApologyEach
  BY KeyperParts, StartHeightAssumption
     DEF IInv, KeypersOK, KnowsTheChain, KnowsChain, EventsOK
<1>2. /\ height' = height + 1
      /\ events' = events \cup {[Height |-> height + 1, Msg |-> m] : m \in fresh}
      /\ keypers' = [k \in Honest |->
                       IF k \in Waiting /\ fate[k] \in {"delivered", "refused"}
                         THEN [keypers[k] EXCEPT !.Actions = Tail(@)] ELSE keypers[k]]
  BY DEF Block
<1>3. \A k \in Honest : /\ KeyperOK(keypers'[k], k)
                        /\ keypers'[k].Pure = keypers[k].Pure
                        /\ keypers'[k].SyncHeight = keypers[k].SyncHeight
  BY <1>1, <1>2, MessageDone DEF Waiting
<1>4. \A m \in sent : \E k \in Honest : /\ m \in HonestMsgs(keypers[k].Pure, k)
                                        /\ m.Sender = k
                                        /\ m = Head(keypers[k].Actions)
  <2> SUFFICES ASSUME NEW m \in sent
               PROVE  \E k \in Honest : /\ m \in HonestMsgs(keypers[k].Pure, k)
                                        /\ m.Sender = k
                                        /\ m = Head(keypers[k].Actions)
    OBVIOUS
  <2>1. PICK k \in Waiting : m = Head(keypers[k].Actions)
    OBVIOUS
  <2>2. k \in Honest /\ keypers[k].Actions # <<>> /\ KeyperOK(keypers[k], k)
    BY <1>1 DEF Waiting
  <2>3. m \in HonestMsgs(keypers[k].Pure, k)
    BY <2>1, <2>2, MessageDone
  <2>4. m.Sender = k
    BY <2>3, HonestMsgFacts
  <2> QED
    BY <2>1, <2>2, <2>3, <2>4
<1>5. \A m \in others : /\ m \in MsgType /\ m.Sender \notin Honest
                        /\ m.Kind \in {"PolyEval", "Apology"} => DOMAIN m.Evals = m.Others
  BY MisbehaviourAssumption
<1>6. \A m \in fresh : CanRegister(m) /\ (m \in sent \/ m \in others)
  OBVIOUS
<1> HIDE DEF sent, fresh
<1>7. \A m \in fresh : m.Sender \in Honest => m \in HonestMsgs(keypers[m.Sender].Pure, m.Sender)
  BY <1>4, <1>5, <1>6
<1>8. ASSUME NEW m \in fresh, m.Kind \in {"PolyEval", "Apology"}, NEW a \in m.Others
      PROVE  m.Evals[a] \in {"good", "bad", "invalid"}
  <2>1. CASE m \in sent
    BY <1>4, <1>8, <2>1, HonestMsgFacts
  <2>2. CASE m \in others
    <3>1. m.Evals \in UNION {[s -> {"good", "bad", "invalid"}] : s \in SUBSET Keypers}
      BY <1>5, <2>2 DEF MsgType
    <3>2. PICK s \in SUBSET Keypers : m.Evals \in [s -> {"good", "bad", "invalid"}]
      BY <3>1
    <3>3. a \in s
      BY <1>5, <1>8, <2>2, <3>2
    <3> QED
      BY <3>2, <3>3
  <2> QED
    BY <1>6, <2>1, <2>2
<1>9. ASSUME NEW m \in fresh, NEW n \in fresh, m.Kind = "Apology", n.Kind = "Apology",
             m.Sender = n.Sender
      PROVE  m = n
  <2>1. m \in sent /\ n \in sent => m = n
    BY <1>4, <1>9
  <2>2. m \in others /\ n \in others => m = n
    <3> SUFFICES ASSUME m \in others, n \in others PROVE m = n
      OBVIOUS
    <3>1. m = n \/ (m.Kind = "PolyEval" /\ m.Others \cap n.Others = {})
      BY <1>9, MisbehaviourAssumption
    <3> QED
      BY <1>9, <3>1
  <2> QED
    BY <1>4, <1>5, <1>6, <1>9, <2>1, <2>2
<1>10. \A e \in events' : e \in events \/ (e.Height = height + 1 /\ e.Msg \in fresh)
  BY <1>2
<1>11. \A m \in fresh : /\ m.Sender \in Keypers
                        /\ m.Others \subseteq Keypers
                        /\ m.Kind = "Apology" =>
                             \A e \in events : e.Msg.Kind = "Apology" => e.Msg.Sender # m.Sender
  BY <1>6, RegisteredMsg
<1>12. KeypersOK'
  <2>1. keypers' = [k \in Honest |-> keypers'[k]]
    BY <1>2
  <2>2. \A k \in Honest : PhaseRight(keypers'[k]) /\ keypers'[k].SyncHeight <= height' + 1
    BY <1>1, <1>2, <1>3 DEF PhaseRight
  <2> QED
    BY <1>3, <2>1, <2>2 DEF KeypersOK
<1>13. \A e \in events' : EventOK(e)'
  <2> SUFFICES ASSUME NEW e \in events' PROVE EventOK(e)'
    OBVIOUS
  <2>1. CASE e \in events
    BY <1>1, <1>2, <2>1 DEF EventsOK, EventOK
  <2>2. CASE e.Height = height + 1 /\ e.Msg \in fresh
    BY <1>1, <1>2, <1>8, <1>11, <2>2 DEF EventOK
  <2> QED
    BY <1>10, <2>1, <2>2
<1>14. HonestEvents'
  BY <1>1, <1>3, <1>7, <1>10 DEF HonestEvents, HonestMsgs
<1>15. OneApologyEach'
  BY <1>1, <1>9, <1>10, <1>11 DEF OneApologyEach
<1>16. KnowsTheChain'
  <2>1. ASSUME NEW h \in Int, h <= height
        PROVE  \A kind, phase : Published(kind, phase, StartHeight, h)' =
                                Published(kind, phase, StartHeight, h)
    <3>1. events \subseteq events'
      BY <1>2
    <3>2. \A e \in events' : e.Height \in StartHeight .. h => e \in events
      BY <1>1, <1>10, <2>1
    <3> QED
      BY <3>1, <3>2 DEF Published
  <2>2. ASSUME NEW h \in Int, h <= height
        PROVE  /\ ChainCommitments(h)' = ChainCommitments(h)
               /\ ChainAccusations(h)' = ChainAccusations(h)
               /\ ChainApologies(h)' = ChainApologies(h)
    BY <2>1, <2>2 DEF ChainCommitments, ChainAccusations, ChainApologies
  <2>3. \A k \in Honest : /\ keypers[k].SyncHeight - 1 \in Int
                          /\ keypers[k].SyncHeight - 1 <= height
    BY <1>1
  <2> QED
    BY <1>1, <1>3, <2>2, <2>3 DEF KnowsTheChain, KnowsChain
<1> QED
  BY <1>1, <1>2, <1>12, <1>13, <1>14, <1>15, <1>16 DEF IInv
LEMMA NextIInv == IInv /\ [Next]_vars => IInv'
<1> SUFFICES ASSUME IInv, [Next]_vars PROVE IInv'
  OBVIOUS
<1>1. CASE NextBlock
  BY <1>1, BlockIInv DEF NextBlock
<1>2. ASSUME NEW k \in Honest, Decide(k) PROVE IInv'
  BY <1>2, DecideIInv
<1>3. CASE UNCHANGED vars
  <2>1. height' = height /\ events' = events /\ keypers' = keypers
    BY <1>3 DEF vars
  <2>2. KeypersOK' /\ HonestEvents' /\ OneApologyEach'
    BY <2>1 DEF IInv, KeypersOK, HonestEvents, OneApologyEach
  <2>3. \A e \in events' : EventOK(e)'
    BY <2>1 DEF IInv, EventOK
  <2>4. \A h : /\ ChainCommitments(h)' = ChainCommitments(h)
               /\ ChainAccusations(h)' = ChainAccusations(h)
               /\ ChainApologies(h)' = ChainApologies(h)
    BY <2>1 DEF ChainCommitments, ChainAccusations, ChainApologies, Published
  <2>5. KnowsTheChain'
    BY <2>1, <2>4 DEF IInv, KnowsTheChain
  <2> QED
    BY <2>1, <2>2, <2>3, <2>5 DEF IInv
<1> QED
  BY <1>1, <1>2, <1>3 DEF Next

THEOREM SpecIInv == Spec => []IInv
BY InitIInv, NextIInv, PTL DEF Spec

(* A keyper knows exactly the commitments, accusations and apologies that  *)
(* were published in their phase up to the block it has synced with, for   *)
(* any number of keypers and any phase length (syncDKGWithEon).            *)
THEOREM EveryKeyperKnowsTheChain == Spec => []KnowsTheChain
<1>1. IInv => KnowsTheChain
  BY DEF IInv
<1> QED
  BY <1>1, SpecIInv, PTL

-----------------------------------------------------------------------------
(* What a finished DKG knows.                                              *)

(* The messages of a phase that is over are all there.                     *)
LEMMA PhaseOver ==
    ASSUME EventsOK, height \in Nat, NEW g \in Nat, NEW h \in Int, StartHeight <= g,
           NEW phase \in Phase, getPhaseAtHeight(g) > phase, h >= g - 1, NEW kind
    PROVE  Published(kind, phase, StartHeight, h) =
             Published(kind, phase, StartHeight, g - 1)
<1>1. Published(kind, phase, g, h) = {}
  BY NothingLater
<1>2. \A e \in events : e.Height \in StartHeight .. h <=>
                          e.Height \in StartHeight .. g - 1 \/ e.Height \in g .. h
  BY StartHeightAssumption DEF EventsOK, EventOK
<1>3. Published(kind, phase, StartHeight, h) =
        Published(kind, phase, StartHeight, g - 1) \cup Published(kind, phase, g, h)
  BY <1>2 DEF Published
<1> QED
  BY <1>1, <1>3

(* No message can change the outcome once the finalized phase has begun,   *)
(* nor the accusations once the apologizing phase has.                     *)
LEMMA AccusationsOver ==
    ASSUME EventsOK, height \in Nat, NEW g \in Nat, NEW h \in Int, StartHeight <= g,
           getPhaseAtHeight(g) >= Apologizing, getPhaseAtHeight(g) \in Phase, h >= g - 1
    PROVE  ChainAccusations(h) = ChainAccusations(g - 1)
<1>1. Accusing \in Phase /\ getPhaseAtHeight(g) > Accusing
  BY DEF Phase, Off, Accusing, Apologizing, Finalized
<1> QED
  BY <1>1, PhaseOver DEF ChainAccusations

LEMMA FinalChain ==
    ASSUME EventsOK, height \in Nat, NEW g \in Nat, NEW h \in Int, StartHeight <= g,
           getPhaseAtHeight(g) = Finalized, h >= g - 1
    PROVE  /\ ChainCommitments(h) = ChainCommitments(g - 1)
           /\ ChainAccusations(h) = ChainAccusations(g - 1)
           /\ ChainApologies(h) = ChainApologies(g - 1)
<1>1. \A phase \in {Dealing, Accusing, Apologizing} :
         phase \in Phase /\ getPhaseAtHeight(g) > phase
  BY DEF Phase, Off, Dealing, Accusing, Apologizing, Finalized
<1>2. \A kind : \A phase \in {Dealing, Accusing, Apologizing} :
         Published(kind, phase, StartHeight, h) = Published(kind, phase, StartHeight, g - 1)
  BY <1>1, PhaseOver
<1> QED
  BY <1>2 DEF ChainCommitments, ChainAccusations, ChainApologies

(* A finished keyper knows all that the chain will ever say.               *)
LEMMA FinishedKnowsAll ==
    ASSUME IInv, NEW k \in Honest, keypers[k].Result # "running"
    PROVE  /\ keypers[k].Pure \in PureState
           /\ keypers[k].Pure.Phase = Finalized
           /\ keypers[k].Pure.Evals[k] = "good"
           /\ keypers[k].Result =
                IF ComputeResultOK(keypers[k].Pure, k) THEN "ok" ELSE "failed"
           /\ keypers[k].Pure.Commitments = ChainCommitments(height + 1)
           /\ keypers[k].Pure.Accusations = ChainAccusations(height + 1)
           /\ keypers[k].Pure.Apologies = ChainApologies(height + 1)
<1> DEFINE kp == keypers[k]
           s == kp.SyncHeight
<1>1. /\ KeyperOK(kp, k) /\ PhaseRight(kp) /\ s <= height + 1 /\ s \in Nat
      /\ KnowsChain(kp) /\ height \in Nat /\ StartHeight \in Nat /\ EventsOK
  BY KeyperParts, StartHeightAssumption
     DEF IInv, KeypersOK, KnowsTheChain, KnowsChain, EventsOK
<1> HIDE DEF kp
<1>2. kp.Pure.Phase = Finalized
  BY <1>1, OutcomeIs DEF KeyperOK, kp
<1>3. /\ kp.Pure \in PureState /\ kp.Pure.Evals[k] = "good"
      /\ kp.Result = IF ComputeResultOK(kp.Pure, k) THEN "ok" ELSE "failed"
  BY <1>1, <1>2, KeyperParts, OutcomeIs DEF KeyperOK, Off, Finalized
<1>4. getPhaseAtHeight(s) = Finalized /\ StartHeight <= s
  BY <1>1, <1>2 DEF PhaseRight, Off, Finalized
<1> HIDE DEF s
<1>5. /\ ChainCommitments(height + 1) = ChainCommitments(s - 1)
      /\ ChainAccusations(height + 1) = ChainAccusations(s - 1)
      /\ ChainApologies(height + 1) = ChainApologies(s - 1)
  <2> DEFINE h == height + 1
  <2>1. h \in Int /\ h >= s - 1
    BY <1>1
  <2> HIDE DEF h
  <2>2. /\ ChainCommitments(h) = ChainCommitments(s - 1)
        /\ ChainAccusations(h) = ChainAccusations(s - 1)
        /\ ChainApologies(h) = ChainApologies(s - 1)
    BY <1>1, <1>4, <2>1, FinalChain
  <2> QED
    BY <2>2 DEF h
<1> QED
  BY <1>1, <1>2, <1>3, <1>5 DEF KnowsChain, kp, s
LEMMA IInvAgree == IInv => AgreeOnParticipants
<1> SUFFICES ASSUME IInv, NEW j \in Honest, NEW k \in Honest,
                    keypers[j].Result = "ok", keypers[k].Result = "ok"
             PROVE  Participants(keypers[j].Pure) = Participants(keypers[k].Pure)
  BY DEF AgreeOnParticipants
<1> DEFINE p == keypers[j].Pure
           q == keypers[k].Pure
<1>1. /\ p.Commitments = q.Commitments
      /\ p.Accusations = q.Accusations
      /\ p.Apologies = q.Apologies
  BY FinishedKnowsAll
<1> HIDE DEF p, q
<1>2. \A d : isCorrupt(p, d) = isCorrupt(q, d)
  BY <1>1 DEF isCorrupt
<1>3. Participants(p) = Participants(q)
  BY <1>2 DEF Participants
<1> QED
  BY <1>3 DEF p, q

(* Honest keypers that obtain a key obtain it from the same dealers,       *)
(* however late each of them was (ComputeResult).                          *)
THEOREM KeypersAgreeOnParticipants == Spec => []AgreeOnParticipants
BY IInvAgree, SpecIInv, PTL

(* What the chain has of an honest keyper is what it meant to say.         *)
LEMMA HonestPublished ==
    ASSUME IInv, NEW kind, NEW phase, NEW from, NEW to,
           NEW m \in Published(kind, phase, from, to), m.Sender \in Honest
    PROVE  m \in HonestMsgs(keypers[m.Sender].Pure, m.Sender) /\ m.Kind = kind
BY DEF IInv, HonestEvents, Published

(* An honest dealer's apologies are good ones.                             *)
LEMMA HonestApologies ==
    ASSUME IInv, NEW k \in Honest, NEW a \in Keypers, NEW h
    PROVE  /\ ChainApologies(h)[<<a, k>>] \in {"none", "good"}
           /\ \A m \in Published("Apology", Apologizing, StartHeight, h) :
                 m.Sender = k /\ a \in m.Others => ChainApologies(h)[<<a, k>>] = "good"
<1> DEFINE msgs == Published("Apology", Apologizing, StartHeight, h)
           found == {m \in msgs : m.Sender = k /\ a \in m.Others /\ m.Evals[a] # "invalid"}
<1>1. \A m \in msgs : m.Sender = k /\ a \in m.Others => m.Evals[a] = "good"
  BY HonestPublished, HonestMsgFacts
<1>2. ChainApologies(h)[<<a, k>>] = EvalIn(msgs, k, a)
  <2>1. <<a, k>> \in Keypers \X Keypers /\ <<a, k>>[1] = a /\ <<a, k>>[2] = k
    BY HonestAreKeypers
  <2> HIDE DEF msgs
  <2>2. ChainApologies(h) = [x \in Keypers \X Keypers |-> EvalIn(msgs, x[2], x[1])]
    BY DEF ChainApologies, msgs
  <2> QED
    BY <2>1, <2>2
<1>3. EvalIn(msgs, k, a) = IF found = {} THEN "none" ELSE (CHOOSE m \in found : TRUE).Evals[a]
  BY DEF EvalIn
<1> HIDE DEF msgs
<1>4. found # {} => EvalIn(msgs, k, a) = "good"
  <2> SUFFICES ASSUME found # {} PROVE EvalIn(msgs, k, a) = "good"
    OBVIOUS
  <2> DEFINE c == CHOOSE m \in found : TRUE
  <2>1. c \in found
    OBVIOUS
  <2>2. EvalIn(msgs, k, a) = c.Evals[a]
    BY <1>3
  <2> HIDE DEF c
  <2> QED
    BY <1>1, <2>1, <2>2
<1>5. \A m \in msgs : m.Sender = k /\ a \in m.Others => found # {}
  BY <1>1
<1> HIDE DEF found
<1>6. EvalIn(msgs, k, a) \in {"none", "good"}
  BY <1>3, <1>4
<1> QED
  BY <1>2, <1>4, <1>5, <1>6 DEF msgs
(* Once a keyper has apologized, the accusations it apologized for are all *)
(* there are.                                                              *)
LEMMA ApologizesToAll ==
    ASSUME IInv, NEW k \in Honest,
           NEW m \in Published("Apology", Apologizing, StartHeight, height + 1),
           m.Sender = k, NEW a \in Keypers, <<a, k>> \in ChainAccusations(height + 1)
    PROVE  a \in m.Others
<1> DEFINE kp == keypers[k]
           s == kp.SyncHeight
           h == height + 1
<1>1. kp.Pure.Phase >= Apologizing /\ m.Others = ToApologize(kp.Pure, k)
  BY HonestPublished, HonestMsgFacts
<1>2. /\ KeyperOK(kp, k) /\ PhaseRight(kp) /\ s \in Nat /\ s <= height + 1
      /\ height \in Nat /\ StartHeight \in Nat /\ EventsOK /\ KnowsChain(kp)
      /\ kp.Pure.Phase \in 0 .. 4 /\ kp.Pure \in PureState
  BY KeyperParts, PhaseIsNumber, StartHeightAssumption
     DEF IInv, KeypersOK, EventsOK, KnowsTheChain, KnowsChain
<1>3. StartHeight <= s /\ getPhaseAtHeight(s) >= Apologizing /\ getPhaseAtHeight(s) \in Phase
  BY <1>1, <1>2 DEF PhaseRight, Off, Apologizing, Phase, Finalized
<1>4. h \in Int /\ h >= s - 1
  BY <1>2
<1>5. ChainAccusations(h) = ChainAccusations(s - 1)
  <2> HIDE DEF h, s
  <2> QED
    BY <1>2, <1>3, <1>4, AccusationsOver
<1>6. <<a, k>> \in kp.Pure.Accusations
  BY <1>2, <1>5 DEF KnowsChain
<1> QED
  BY <1>1, <1>6 DEF ToApologize

(* An honest dealer that was in time is a participant for everybody.       *)
LEMMA HonestDealerIsNotCorrupt ==
    ASSUME IInv, NEW k \in Honest, InTime(k, "PolyCommitment", Dealing),
           \/ InTime(k, "Apology", Apologizing)
           \/ \A a \in ChainAccusations(height + 1) : a[2] # k,
           NEW j \in Honest, keypers[j].Result # "running"
    PROVE  k \in Participants(keypers[j].Pure)
<1> DEFINE h == height + 1
           p == keypers[j].Pure
<1>1. /\ p.Commitments = ChainCommitments(h)
      /\ p.Accusations = ChainAccusations(h)
      /\ p.Apologies = ChainApologies(h)
  BY FinishedKnowsAll
<1>2. k \in ChainCommitments(h)
  <2>1. PICK m \in Published("PolyCommitment", Dealing, StartHeight, h) : m.Sender = k
    BY DEF InTime
  <2>2. m.DegreeOK
    BY <2>1, HonestPublished, HonestMsgFacts
  <2> QED
    BY <2>1, <2>2 DEF ChainCommitments
<1>3. \A a \in Keypers : ChainApologies(h)[<<a, k>>] # "bad"
  BY HonestApologies
<1>4. ASSUME NEW a \in Keypers, <<a, k>> \in ChainAccusations(h)
      PROVE  ChainApologies(h)[<<a, k>>] # "none"
  <2>1. InTime(k, "Apology", Apologizing)
    <3>1. <<a, k>>[2] = k
      OBVIOUS
    <3> QED
      BY <1>4, <3>1
  <2>2. PICK m \in Published("Apology", Apologizing, StartHeight, h) : m.Sender = k
    BY <2>1 DEF InTime
  <2>3. a \in m.Others
    BY <1>4, <2>2, ApologizesToAll
  <2>4. ChainApologies(h)[<<a, k>>] = "good"
    BY <2>2, <2>3, HonestApologies
  <2> QED
    BY <2>4
<1> HIDE DEF h, p
<1>5. ~isCorrupt(p, k)
  BY <1>1, <1>2, <1>3, <1>4 DEF isCorrupt
<1> QED
  BY <1>5, HonestAreKeypers DEF Participants, p

(* Nobody excludes an honest keyper whose commitment was published in time *)
(* and whose apologies were if it has been accused (isCorrupt).            *)
THEOREM HonestDealersCount == Spec => []HonestDealerCounts
<1>1. IInv => HonestDealerCounts
  BY HonestDealerIsNotCorrupt DEF HonestDealerCounts
<1> QED
  BY <1>1, SpecIInv, PTL

(* If the messages of all honest keypers are in time, each of them has a   *)
(* good evaluation from every participant.                                 *)
LEMMA GoodEvaluations ==
    ASSUME IInv, NEW j \in Honest, keypers[j].Result # "running",
           InTime(j, "Accusation", Accusing),
           NEW d \in Participants(keypers[j].Pure)
    PROVE  polyEval(keypers[j].Pure, j, d) = "good"
<1> DEFINE h == height + 1
           p == keypers[j].Pure
<1>1. /\ p \in PureState
      /\ p.Evals[j] = "good"
      /\ p.Accusations = ChainAccusations(h)
  BY FinishedKnowsAll
<1>2. d \in Keypers /\ ~isCorrupt(p, d) /\ j \in Keypers
  BY HonestAreKeypers DEF Participants
<1>3. p.Apologies[<<j, d>>] \in Eval
  <2>1. p.Apologies \in [Keypers \X Keypers -> Eval]
    BY <1>1 DEF PureState
  <2> QED
    BY <1>2, <2>1
<1>4. p.Apologies[<<j, d>>] # "bad"
  BY <1>2 DEF isCorrupt
<1>5. ASSUME p.Apologies[<<j, d>>] = "none", p.Evals[d] # "good"
      PROVE  FALSE
  <2>1. PICK m \in Published("Accusation", Accusing, StartHeight, h) : m.Sender = j
    BY DEF InTime
  <2>2. m.Others = ToAccuse(p, j)
    BY <2>1, HonestPublished, HonestMsgFacts
  <2>3. d \in m.Others
    BY <1>1, <1>2, <1>5, <2>2 DEF ToAccuse
  <2>4. <<j, d>> \in ChainAccusations(h)
    BY <1>2, <2>1, <2>3 DEF ChainAccusations
  <2> QED
    BY <1>1, <1>2, <1>5, <2>4 DEF isCorrupt
<1> HIDE DEF p
<1>6. polyEval(p, j, d) = "good"
  BY <1>3, <1>4, <1>5 DEF polyEval, Eval
<1> QED
  BY <1>6 DEF p

(* If all messages of the honest keypers are published in their phases and *)
(* Threshold keypers are honest, no honest keyper's DKG fails, whatever    *)
(* the others do (ComputeResult).                                          *)
THEOREM TimelyKeypersSucceed == Spec => []TimelyDKGSucceeds
<1>1. IInv => TimelyDKGSucceeds
  <2> SUFFICES ASSUME IInv, Cardinality(Honest) >= Threshold,
                      \A k \in Honest : /\ InTime(k, "PolyCommitment", Dealing)
                                        /\ InTime(k, "Accusation", Accusing)
                                        /\ InTime(k, "Apology", Apologizing),
                      NEW j \in Honest, keypers[j].Result = "failed"
               PROVE  FALSE
    BY DEF TimelyDKGSucceeds
  <2> DEFINE p == keypers[j].Pure
  <2>1. Honest \subseteq Participants(p)
    BY HonestDealerIsNotCorrupt
  <2>2. \A d \in Participants(p) : polyEval(p, j, d) = "good"
    BY GoodEvaluations
  <2>3. Participants(p) \subseteq Keypers
    BY DEF Participants
  <2>4. ~ComputeResultOK(p, j)
    BY FinishedKnowsAll
  <2> HIDE DEF p
  <2>5. /\ IsFiniteSet(Participants(p)) /\ IsFiniteSet(Honest)
        /\ Cardinality(Honest) <= Cardinality(Participants(p))
    BY <2>1, <2>3, KeypersAssumption, FS_Subset
  <2>6. Cardinality(Participants(p)) \in Nat /\ Cardinality(Honest) \in Nat
    BY <2>5, FS_CardinalityType
  <2>7. Cardinality(Participants(p)) >= Threshold
    BY <2>5, <2>6, ThresholdAssumption
  <2> QED
    BY <2>2, <2>4, <2>7 DEF ComputeResultOK
<1> QED
  BY <1>1, SpecIInv, PTL
-----------------------------------------------------------------------------
(* The votes on the eon key.                                               *)

Voters(f, key) == {v \in DOMAIN f : f[v] = key}

(* f says who voted for what.                                              *)
VotesCast(f) ==
    /\ \A v \in broadcast.voted \cap Honest :
          keypers[v].Result = "ok" /\ f[v] = Participants(keypers[v].Pure)
    /\ \A key \in SUBSET Keypers : NumVotes(broadcast, key) = Cardinality(Voters(f, key))

(* The contract counts every keyper's vote once and knows the best key.    *)
VotesIInv ==
    /\ broadcast.voted \subseteq Keypers
    /\ broadcast.voted # {} => DKGDone
    /\ \E f \in [broadcast.voted -> SUBSET Keypers] : VotesCast(f)
    /\ broadcast.bestKeyNumVotes \in Nat
    /\ \A key \in SUBSET Keypers : NumVotes(broadcast, key) <= broadcast.bestKeyNumVotes
    /\ broadcast.bestKeyNumVotes > 0 =>
         /\ broadcast.bestKey \in SUBSET Keypers
         /\ NumVotes(broadcast, broadcast.bestKey) = broadcast.bestKeyNumVotes

LEMMA VotersFinite ==
    ASSUME NEW S \in SUBSET Keypers, NEW f \in [S -> SUBSET Keypers], NEW key
    PROVE  /\ Voters(f, key) \subseteq S
           /\ IsFiniteSet(Voters(f, key))
           /\ Cardinality(Voters(f, key)) \in Nat
<1>1. Voters(f, key) \subseteq S /\ Voters(f, key) \subseteq Keypers
  BY DEF Voters
<1> QED
  BY <1>1, KeypersAssumption, FS_Subset, FS_CardinalityType

(* A DKG that is done stays as it is.                                      *)
LEMMA DoneStays ==
    ASSUME IInv, [Next]_vars, NEW k \in Honest, keypers[k].Result # "running"
    PROVE  keypers'[k].Pure = keypers[k].Pure /\ keypers'[k].Result = keypers[k].Result
<1>1. /\ keypers = [j \in Honest |-> keypers[j]] /\ KeyperOK(keypers[k], k)
      /\ IsKeyperRecord(keypers[k]) /\ keypers[k].Pure.Phase = Finalized
  BY KeyperParts, FinishedKnowsAll DEF IInv, KeypersOK
<1>2. CASE NextBlock
  <2>1. PICK fate \in [Waiting -> Fate] :
           keypers' = [j \in Honest |->
                         IF j \in Waiting /\ fate[j] \in {"delivered", "refused"}
                           THEN [keypers[j] EXCEPT !.Actions = Tail(@)] ELSE keypers[j]]
    BY <1>2 DEF NextBlock, Block
  <2>2. keypers'[k] = keypers[k] \/ keypers'[k] = [keypers[k] EXCEPT !.Actions = Tail(@)]
    BY <2>1
  <2> QED
    BY <1>1, <2>2 DEF IsKeyperRecord
<1>3. ASSUME NEW j \in Honest, Decide(j)
      PROVE  keypers'[k].Pure = keypers[k].Pure /\ keypers'[k].Result = keypers[k].Result
  <2>1. CASE j # k
    BY <1>1, <1>3, <2>1 DEF Decide
  <2>2. CASE j = k
    <3>1. handleDKGs(keypers[k], k, height) = keypers[k]
      BY <1>1 DEF handleDKGs
    <3>2. keypers' = [keypers EXCEPT ![k] =
                        [handleDKGs(keypers[k], k, height) EXCEPT !.SyncHeight = height + 1]]
      BY <1>3, <2>2 DEF Decide
    <3>3. keypers'[k] = [keypers[k] EXCEPT !.SyncHeight = height + 1]
      BY <1>1, <3>1, <3>2
    <3> QED
      BY <1>1, <3>3 DEF IsKeyperRecord
  <2> QED
    BY <2>1, <2>2
<1>4. CASE UNCHANGED vars
  BY <1>4 DEF vars
<1> QED
  BY <1>2, <1>3, <1>4 DEF Next

LEMMA StepVotesIInv ==
    ASSUME IInv, VotesIInv, [Next]_vars, UNCHANGED broadcast
    PROVE  VotesIInv'
<1>1. \A k \in Honest : keypers[k].Result # "running" =>
         /\ keypers'[k].Pure = keypers[k].Pure
         /\ keypers'[k].Result = keypers[k].Result
  BY DoneStays
<1>2. PICK f \in [broadcast.voted -> SUBSET Keypers] : VotesCast(f)
  BY DEF VotesIInv
<1>3. VotesCast(f)'
  BY <1>1, <1>2 DEF VotesCast
<1>4. broadcast.voted # {} => DKGDone'
  BY <1>1 DEF VotesIInv, DKGDone
<1> QED
  BY <1>3, <1>4 DEF VotesIInv

(* The contract after a vote.                                              *)
LEMMA VoteCounted ==
    ASSUME NEW b, NEW k, NEW key, NEW x
    PROVE  NumVotes(vote(b, k, key), x) =
             IF x = key THEN NumVotes(b, key) + 1 ELSE NumVotes(b, x)
BY DEF vote, NumVotes
LEMMA VoteIInv ==
    ASSUME VotesIInv, DKGDone, UNCHANGED vars,
           NEW k \in Keypers, CanVote(broadcast, k), NEW key \in SUBSET Keypers,
           k \in Honest => keypers[k].Result = "ok" /\ key = Participants(keypers[k].Pure),
           broadcast' = vote(broadcast, k, key)
    PROVE  VotesIInv'
<1> DEFINE b == broadcast
           c == vote(b, k, key)
           n == NumVotes(b, key) + 1
<1>1. /\ c.voted = b.voted \cup {k}
      /\ c.bestKey = IF n > b.bestKeyNumVotes THEN key ELSE b.bestKey
      /\ c.bestKeyNumVotes = IF n > b.bestKeyNumVotes THEN n ELSE b.bestKeyNumVotes
  BY DEF vote
<1>2. \A x : NumVotes(c, x) = IF x = key THEN n ELSE NumVotes(b, x)
  BY VoteCounted
<1>3. k \notin b.voted /\ b.voted \subseteq Keypers
  BY DEF CanVote, VotesIInv
<1>4. PICK f \in [b.voted -> SUBSET Keypers] : VotesCast(f)
  BY DEF VotesIInv
<1>5. PICK g \in [c.voted -> SUBSET Keypers] :
         g[k] = key /\ \A v \in b.voted : g[v] = f[v]
  <2> DEFINE h == [v \in c.voted |-> IF v = k THEN key ELSE f[v]]
  <2>1. /\ h \in [c.voted -> SUBSET Keypers]
        /\ h[k] = key
        /\ \A v \in b.voted : h[v] = f[v]
    BY <1>1, <1>3
  <2> QED
    BY <2>1
<1> HIDE DEF c, n
<1>6. \A x : Voters(g, x) = IF x = key THEN Voters(f, x) \cup {k} ELSE Voters(f, x)
  BY <1>1, <1>3, <1>5 DEF Voters
<1>7. \A x \in SUBSET Keypers : /\ NumVotes(b, x) = Cardinality(Voters(f, x))
                                /\ NumVotes(b, x) \in Nat
                                /\ NumVotes(c, x) = Cardinality(Voters(g, x))
  <2> SUFFICES ASSUME NEW x \in SUBSET Keypers
               PROVE  /\ NumVotes(b, x) = Cardinality(Voters(f, x))
                      /\ NumVotes(b, x) \in Nat
                      /\ NumVotes(c, x) = Cardinality(Voters(g, x))
    OBVIOUS
  <2>1. NumVotes(b, x) = Cardinality(Voters(f, x))
    BY <1>4 DEF VotesCast
  <2>2. /\ IsFiniteSet(Voters(f, x)) /\ Cardinality(Voters(f, x)) \in Nat
        /\ k \notin Voters(f, x)
    BY <1>3, VotersFinite
  <2>3. Cardinality(Voters(f, x) \cup {k}) = Cardinality(Voters(f, x)) + 1
    BY <2>2, FS_AddElement
  <2> QED
    BY <1>2, <1>6, <2>1, <2>2, <2>3 DEF n
<1>8. /\ c.voted \subseteq Keypers
      /\ \A v \in c.voted \cap Honest :
            keypers[v].Result = "ok" /\ g[v] = Participants(keypers[v].Pure)
  BY <1>1, <1>3, <1>4, <1>5 DEF VotesCast
<1>9. /\ c.bestKeyNumVotes \in Nat
      /\ \A x \in SUBSET Keypers : NumVotes(c, x) <= c.bestKeyNumVotes
      /\ c.bestKeyNumVotes > 0 => /\ c.bestKey \in SUBSET Keypers
                                  /\ NumVotes(c, c.bestKey) = c.bestKeyNumVotes
  <2>1. /\ b.bestKeyNumVotes \in Nat /\ NumVotes(b, key) \in Nat /\ n \in Nat
        /\ \A x \in SUBSET Keypers : NumVotes(b, x) <= b.bestKeyNumVotes
        /\ b.bestKeyNumVotes > 0 => /\ b.bestKey \in SUBSET Keypers
                                    /\ NumVotes(b, b.bestKey) = b.bestKeyNumVotes
    BY <1>7 DEF VotesIInv, n
  <2>2. CASE n > b.bestKeyNumVotes
    BY <1>1, <1>2, <1>7, <2>1, <2>2
  <2>3. CASE ~(n > b.bestKeyNumVotes)
    <3>1. c.bestKey = b.bestKey /\ c.bestKeyNumVotes = b.bestKeyNumVotes
      BY <1>1, <2>3
    <3>2. b.bestKey = key => n <= b.bestKeyNumVotes
      BY <2>1, <2>3
    <3>3. \A x \in SUBSET Keypers : NumVotes(c, x) <= c.bestKeyNumVotes
      BY <1>2, <2>1, <2>3, <3>1
    <3>4. ASSUME c.bestKeyNumVotes > 0
          PROVE  c.bestKey \in SUBSET Keypers /\ NumVotes(c, c.bestKey) = c.bestKeyNumVotes
      <4>1. b.bestKey \in SUBSET Keypers /\ NumVotes(b, b.bestKey) = b.bestKeyNumVotes
        BY <2>1, <3>1, <3>4
      <4>2. b.bestKey # key
        BY <2>1, <3>2, <4>1 DEF n
      <4> QED
        BY <1>2, <3>1, <4>1, <4>2
    <3> QED
      BY <2>1, <3>1, <3>3, <3>4
  <2> QED
    BY <2>2, <2>3
<1>10. broadcast' = c /\ keypers' = keypers
  BY DEF vars, c
<1>11. VotesCast(g)'
  <2>1. \A x : NumVotes(broadcast, x)' = NumVotes(c, x)
    BY <1>10 DEF NumVotes
  <2>2. \A x \in SUBSET Keypers : NumVotes(broadcast, x)' = Cardinality(Voters(g, x))
    BY <1>7, <2>1
  <2> QED
    BY <1>8, <1>10, <2>2 DEF VotesCast
<1>12. DKGDone'
  BY <1>10 DEF DKGDone
<1>13. g \in [broadcast'.voted -> SUBSET Keypers]
  BY <1>5, <1>10
<1>14. /\ broadcast'.bestKeyNumVotes \in Nat
       /\ \A x \in SUBSET Keypers : NumVotes(broadcast, x)' <= broadcast'.bestKeyNumVotes
       /\ broadcast'.bestKeyNumVotes > 0 =>
            /\ broadcast'.bestKey \in SUBSET Keypers
            /\ NumVotes(broadcast, broadcast.bestKey)' = broadcast'.bestKeyNumVotes
  BY <1>9, <1>10 DEF NumVotes
<1>15. (\E h \in [broadcast.voted -> SUBSET Keypers] : VotesCast(h))'
  BY <1>11, <1>13
<1> QED
  BY <1>8, <1>10, <1>12, <1>14, <1>15 DEF VotesIInv

LEMMA InitVotesIInv == VotesInit => IInv /\ VotesIInv
<1> SUFFICES ASSUME VotesInit PROVE IInv /\ VotesIInv
  OBVIOUS
<1>1. IInv
  BY InitIInv DEF VotesInit
<1>2. /\ broadcast.voted = {} /\ broadcast.bestKeyNumVotes = 0
      /\ \A key : NumVotes(broadcast, key) = 0
  BY DEF VotesInit, NewBroadcast, NumVotes
<1> DEFINE f == [v \in {} |-> {}]
<1>3. f \in [broadcast.voted -> SUBSET Keypers]
  BY <1>2
<1>4. \A key : Voters(f, key) = {}
  BY DEF Voters
<1> HIDE DEF f
<1>5. VotesCast(f)
  BY <1>2, <1>4, FS_EmptySet DEF VotesCast
<1>6. \E h \in [broadcast.voted -> SUBSET Keypers] : VotesCast(h)
  BY <1>3, <1>5
<1>7. /\ broadcast.bestKeyNumVotes \in Nat /\ ~(broadcast.bestKeyNumVotes > 0)
      /\ \A key \in SUBSET Keypers : NumVotes(broadcast, key) <= broadcast.bestKeyNumVotes
  BY <1>2
<1>8. broadcast.voted \subseteq Keypers /\ broadcast.voted = {}
  BY <1>2
<1> QED
  BY <1>1, <1>6, <1>7, <1>8, Zenon DEF VotesIInv

LEMMA NextVotesIInv == IInv /\ VotesIInv /\ [VotesNext]_votesVars => IInv' /\ VotesIInv'
<1> SUFFICES ASSUME IInv, VotesIInv, [VotesNext]_votesVars PROVE IInv' /\ VotesIInv'
  OBVIOUS
<1>1. CASE DKGStep \/ UNCHANGED votesVars
  <2>1. [Next]_vars /\ UNCHANGED broadcast
    BY <1>1 DEF DKGStep, votesVars
  <2> QED
    BY <2>1, NextIInv, StepVotesIInv
<1>2. ASSUME NEW k \in Honest, broadcastEonPublicKey(k)
      PROVE  IInv' /\ VotesIInv'
  <2>1. Participants(keypers[k].Pure) \in SUBSET Keypers
    BY DEF Participants
  <2>2. VotesIInv'
    BY <1>2, <2>1, VoteIInv, HonestAreKeypers DEF broadcastEonPublicKey
  <2> QED
    BY <1>2, <2>2, NextIInv DEF broadcastEonPublicKey
<1>3. ASSUME NEW k \in Keypers \ Honest, NEW key \in WrongVotes, FaultyVote(k, key)
      PROVE  IInv' /\ VotesIInv'
  <2>1. VotesIInv'
    BY <1>3, VoteIInv, WrongVotesAssumption DEF FaultyVote
  <2> QED
    BY <1>3, <2>1, NextIInv DEF FaultyVote
<1> QED
  BY <1>1, <1>2, <1>3 DEF VotesNext

LEMMA VotesSpecIInv == VotesSpec => [](IInv /\ VotesIInv)
BY InitVotesIInv, NextVotesIInv, PTL DEF VotesSpec

(* A key with Threshold votes has the vote of an honest keyper.            *)
LEMMA HonestVoted ==
    ASSUME VotesIInv, Cardinality(Keypers \ Honest) < Threshold,
           NEW key \in SUBSET Keypers, NumVotes(broadcast, key) >= Threshold
    PROVE  \E v \in Honest : keypers[v].Result = "ok" /\ key = Participants(keypers[v].Pure)
<1>1. PICK f \in [broadcast.voted -> SUBSET Keypers] : VotesCast(f)
  BY DEF VotesIInv
<1> DEFINE S == Voters(f, key)
<1>2. NumVotes(broadcast, key) = Cardinality(S)
  BY <1>1 DEF VotesCast
<1>3. S \subseteq broadcast.voted /\ broadcast.voted \subseteq Keypers
  BY VotersFinite DEF VotesIInv
<1>4. ASSUME S \subseteq Keypers \ Honest PROVE FALSE
  <2>1. IsFiniteSet(Keypers \ Honest)
    BY KeypersAssumption, FS_Subset
  <2> DEFINE T == Keypers \ Honest
  <2>2. S \subseteq T /\ IsFiniteSet(T)
    BY <1>4, <2>1
  <2> HIDE DEF S, T
  <2>3. Cardinality(S) <= Cardinality(T) /\ Cardinality(S) \in Nat /\ Cardinality(T) \in Nat
    BY <2>2, FS_Subset, FS_CardinalityType
  <2>4. Cardinality(T) < Threshold /\ Cardinality(S) >= Threshold
    BY <1>2 DEF T
  <2> QED
    BY <2>3, <2>4, ThresholdAssumption
<1>5. PICK v \in S : v \in Honest
  BY <1>3, <1>4
<1>6. v \in broadcast.voted \cap Honest /\ f[v] = key
  BY <1>3, <1>5 DEF Voters
<1> QED
  BY <1>1, <1>6 DEF VotesCast

(* While fewer than Threshold keypers misbehave, a key with Threshold      *)
(* votes is the key of every honest keyper that obtained one, and the      *)
(* contract's best key (vote in KeyBroadcastContract.sol).                 *)
THEOREM BestKeyOfTheContractIsRight == VotesSpec => []BestKeyIsRight
<1>1. IInv /\ VotesIInv => BestKeyIsRight
  <2> SUFFICES ASSUME IInv, VotesIInv, Cardinality(Keypers \ Honest) < Threshold,
                      NEW key \in SUBSET Keypers, NumVotes(broadcast, key) >= Threshold
               PROVE  /\ broadcast.bestKey = key
                      /\ \A k \in Honest :
                           keypers[k].Result = "ok" => key = Participants(keypers[k].Pure)
    BY DEF BestKeyIsRight
  <2> DEFINE best == broadcast.bestKey
  <2>1. PICK v \in Honest : keypers[v].Result = "ok" /\ key = Participants(keypers[v].Pure)
    BY HonestVoted
  <2>2. \A k \in Honest : keypers[k].Result = "ok" => key = Participants(keypers[k].Pure)
    BY <2>1, IInvAgree DEF AgreeOnParticipants
  <2>3. Threshold > 0
    <3>1. IsFiniteSet(Keypers \ Honest)
      BY KeypersAssumption, FS_Subset
    <3>2. Cardinality(Keypers \ Honest) \in Nat
      BY <3>1, FS_CardinalityType
    <3> QED
      BY <3>2, ThresholdAssumption
  <2>4. NumVotes(broadcast, key) \in Nat /\ broadcast.bestKeyNumVotes \in Nat
    <3>1. PICK f \in [broadcast.voted -> SUBSET Keypers] : VotesCast(f)
      BY DEF VotesIInv
    <3> QED
      BY <3>1, VotersFinite DEF VotesIInv, VotesCast
  <2>5. broadcast.bestKeyNumVotes >= Threshold /\ broadcast.bestKeyNumVotes > 0
    BY <2>3, <2>4, ThresholdAssumption DEF VotesIInv
  <2>6. best \in SUBSET Keypers /\ NumVotes(broadcast, best) >= Threshold
    BY <2>5 DEF VotesIInv
  <2>7. PICK w \in Honest : keypers[w].Result = "ok" /\ best = Participants(keypers[w].Pure)
    BY <2>6, HonestVoted
  <2> QED
    BY <2>2, <2>7
<1> QED
  BY <1>1, VotesSpecIInv, PTL

(* The votes leave the DKG alone: what is proved of Spec holds where the   *)
(* keypers vote, too (DKGStep; broadcastEonPublicKey sends a transaction). *)
THEOREM VotesImplementTheDKG == VotesSpec => Spec
<1>1. VotesInit => Init
  BY DEF VotesInit
<1>2. [VotesNext]_votesVars => [Next]_vars
  BY DEF VotesNext, votesVars, DKGStep, broadcastEonPublicKey, FaultyVote
<1> QED
  BY <1>1, <1>2, PTL DEF VotesSpec, Spec
=============================================================================
