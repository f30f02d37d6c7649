---------------------------- MODULE DKGInstance ----------------------------
(***************************************************************************)
(* What the shuttermint app keeps of one distributed key generation        *)
(* (app/dkg.go): which messages it has already published.  Payloads are    *)
(* abstracted away.  A message is a record with its kind, its eon, its     *)
(* sender and Others: the receivers of a poly eval, the accused of an      *)
(* accusation, the accusers of an apology, nothing for a commitment.       *)
(* Parsing refuses repeated addresses (app/messages.go), hence a set.      *)
(* The Closed flags are left out: nothing in the app ever sets them.       *)
(***************************************************************************)
EXTENDS BatchConfig

DKGMsgKind == {"PolyEval", "PolyCommitment", "Accusation", "Apology"}

NewDKGInstance(config, eon) ==
    [Config |-> config, Eon |-> eon,
     PolyEvalsSeen |-> {}, PolyCommitmentsSeen |-> {},
     AccusationsSeen |-> {}, ApologiesSeen |-> {}]

(* The checks common to all messages: right eon, sent by a keyper, about   *)
(* other keypers only.                                                     *)
AdmissibleMsg(dkg, msg) ==
    /\ msg.Eon = dkg.Eon
    /\ IsKeyper(dkg.Config, msg.Sender)
    /\ \A k \in msg.Others : IsKeyper(dkg.Config, k) /\ k # msg.Sender

(* A wrong variant: one receiver without an eval is enough.                *)
CanRegisterSomePolyEval(dkg, msg) ==
    /\ AdmissibleMsg(dkg, msg)
    /\ \E r \in msg.Others : <<msg.Sender, r>> \notin dkg.PolyEvalsSeen

CanRegisterPolyEvalMsg(dkg, msg) ==
    /\ AdmissibleMsg(dkg, msg)
    /\ \A r \in msg.Others : <<msg.Sender, r>> \notin dkg.PolyEvalsSeen

RegisterPolyEvalMsg(dkg, msg) ==
    [dkg EXCEPT !.PolyEvalsSeen = @ \cup ({msg.Sender} \X msg.Others)]

CanRegisterPolyCommitmentMsg(dkg, msg) ==
    /\ AdmissibleMsg(dkg, msg)
    /\ msg.Sender \notin dkg.PolyCommitmentsSeen

RegisterPolyCommitmentMsg(dkg, msg) ==
    [dkg EXCEPT !.PolyCommitmentsSeen = @ \cup {msg.Sender}]

CanRegisterAccusationMsg(dkg, msg) ==
    /\ AdmissibleMsg(dkg, msg)
    /\ msg.Sender \notin dkg.AccusationsSeen

RegisterAccusationMsg(dkg, msg) ==
    [dkg EXCEPT !.AccusationsSeen = @ \cup {msg.Sender}]

CanRegisterApologyMsg(dkg, msg) ==
    /\ AdmissibleMsg(dkg, msg)
    /\ msg.Sender \notin dkg.ApologiesSeen

RegisterApologyMsg(dkg, msg) ==
    [dkg EXCEPT !.ApologiesSeen = @ \cup {msg.Sender}]
=============================================================================
