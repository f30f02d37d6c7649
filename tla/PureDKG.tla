------------------------------ MODULE PureDKG ------------------------------
(***************************************************************************)
(* The distributed key generation of one keyper, without any networking    *)
(* (keyper/puredkg/puredkg.go).  A value pure is the struct PureDKG.       *)
(*                                                                         *)
(* Polynomials, commitments and evaluations are abstracted to what the     *)
(* code tells apart.  A commitment has the expected degree or not.  An     *)
(* evaluation sent by a dealer to a keyper is "good" (it verifies against  *)
(* the dealer's commitment), "bad" (VerifyPolyEval fails), "invalid" (it   *)
(* is out of range, ValidEval fails) or "none" (nil).                      *)
(***************************************************************************)
EXTENDS Naturals, FiniteSets

CONSTANTS Keypers,    \* the keypers of the batch config the eon belongs to
          Threshold   \* its threshold

ASSUME ThresholdAssumption == Threshold \in Nat
ASSUME KeypersAssumption == IsFiniteSet(Keypers)

Off         == 0
Dealing     == 1
Accusing    == 2
Apologizing == 3
Finalized   == 4

Phase == Off .. Finalized

Eval == {"none", "good", "bad"}

NewPureDKG ==
    [Phase       |-> Off,
     Commitments |-> {},                                  \* dealers
     Evals       |-> [d \in Keypers |-> "none"],          \* by dealer
     Accusations |-> {},                                  \* <<accuser, accused>>
     Apologies   |-> [a \in Keypers \X Keypers |-> "none"]]

PureState ==
    [Phase       : Phase,
     Commitments : SUBSET Keypers,
     Evals       : [Keypers -> Eval],
     Accusations : SUBSET (Keypers \X Keypers),
     Apologies   : [Keypers \X Keypers -> Eval]]

-----------------------------------------------------------------------------
(* Messages.  Each handler takes all messages of its kind that one sync    *)
(* brings; they arrive in one phase, so the phase check is common to them. *)
(* A message that is a duplicate of an earlier one is refused.             *)

HandlePolyCommitmentMsgs(pure, msgs) ==
    IF pure.Phase > Dealing
      THEN pure
      ELSE [pure EXCEPT !.Commitments =
              @ \cup {m.Sender : m \in {n \in msgs : n.DegreeOK}}]

(* The first acceptable evaluation among the messages of a sender, or none. *)
EvalIn(msgs, sender, about) ==
    LET found == {m \in msgs : /\ m.Sender = sender
                               /\ about \in m.Others
                               /\ m.Evals[about] # "invalid"}
    IN  IF found = {} THEN "none" ELSE (CHOOSE m \in found : TRUE).Evals[about]

HandlePolyEvalMsgs(pure, keyper, msgs) ==
    IF pure.Phase > Dealing
      THEN pure
      ELSE [pure EXCEPT !.Evals =
              [d \in Keypers |->
                 IF d # keyper /\ pure.Evals[d] = "none"
                   THEN EvalIn(msgs, d, keyper)
                   ELSE pure.Evals[d]]]

HandleAccusationMsgs(pure, msgs) ==
    IF pure.Phase > Accusing
      THEN pure
      ELSE [pure EXCEPT !.Accusations =
              @ \cup UNION {{m.Sender} \X m.Others : m \in msgs}]

(* Keyed by <<accuser, accused>>; the sender of an apology is the accused. *)
HandleApologyMsgs(pure, msgs) ==
    IF pure.Phase > Apologizing
      THEN pure
      ELSE [pure EXCEPT !.Apologies =
              [a \in Keypers \X Keypers |->
                 IF pure.Apologies[a] = "none"
                   THEN EvalIn(msgs, a[2], a[1])
                   ELSE pure.Apologies[a]]]

-----------------------------------------------------------------------------
(* Phase changes.  setPhase panics unless the phase is the one before.     *)

StartPhase1Dealing(pure, keyper) ==
    [pure EXCEPT !.Phase = Dealing, !.Evals[keyper] = "good"]

(* The dealers the keyper accuses when it enters the accusing phase.       *)
ToAccuse(pure, keyper) ==
    {d \in Keypers \ {keyper} :
        d \notin pure.Commitments \/ pure.Evals[d] # "good"}

(* The keypers to whom the keyper apologizes.                              *)
ToApologize(pure, keyper) ==
    {a \in Keypers : <<a, keyper>> \in pure.Accusations}

-----------------------------------------------------------------------------
(* The result.                                                             *)

(* A wrong variant: any apology at all clears a dealer.                    *)
isCorruptUnlessApologized(pure, dealer) ==
    \/ dealer \notin pure.Commitments
    \/ /\ \E a \in Keypers : <<a, dealer>> \in pure.Accusations
       /\ \A a \in Keypers : pure.Apologies[<<a, dealer>>] = "none"

(* A wrong variant: an apology does not help.                              *)
isCorruptOnceAccused(pure, dealer) ==
    \/ dealer \notin pure.Commitments
    \/ \E a \in Keypers : <<a, dealer>> \in pure.Accusations

isCorrupt(pure, dealer) ==
    \/ dealer \notin pure.Commitments
    \/ \E a \in Keypers : pure.Apologies[<<a, dealer>>] = "bad"
    \/ \E a \in Keypers : /\ <<a, dealer>> \in pure.Accusations
                          /\ pure.Apologies[<<a, dealer>>] = "none"

polyEval(pure, keyper, dealer) ==
    IF pure.Apologies[<<keyper, dealer>>] # "none"
      THEN pure.Apologies[<<keyper, dealer>>]
      ELSE pure.Evals[dealer]

(* A wrong variant: a keyper drops a dealer who sent it no good evaluation *)
(* although the other keypers do not know.                                 *)
ParticipantsWithGoodEval(pure) ==
    {d \in Keypers : ~isCorrupt(pure, d) /\ pure.Evals[d] = "good"}

Participants(pure) == {d \in Keypers : ~isCorrupt(pure, d)}

(* ComputeResult returns a key, rather than an error.                      *)
ComputeResultOK(pure, keyper) ==
    /\ \A d \in Participants(pure) : polyEval(pure, keyper, d) = "good"
    /\ Cardinality(Participants(pure)) >= Threshold
=============================================================================
