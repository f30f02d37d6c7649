---------------------------- MODULE MCKeyperDKG ----------------------------
(***************************************************************************)
(* Instances of KeyperDKG for TLC.  With phases of two blocks each phase   *)
(* has a first block, in which a message that was sent at once gets on the *)
(* chain, and a last one, next to the phase boundary.                      *)
(***************************************************************************)
EXTENDS KeyperDKG, TLC

CONSTANTS k1, k2, k3

MCOne     == {k1}
MCTwo     == {k1, k2}
MCThree   == {k1, k2, k3}
MCNobody  == {}
MCLate    == {k2}

MCSilence == {{}}

(* What k3 may do in a block: deal to k1 and k2, well or badly, deal a     *)
(* polynomial of the wrong degree, accuse k1, apologize to k1 well, badly  *)
(* or with an evaluation out of range.                                     *)
To(r, v) == [x \in {r} |-> v]
Commit(ok) == Msg("PolyCommitment", k3, {}, <<>>, ok)
Deal(r, v) == Msg("PolyEval", k3, {r}, To(r, v), TRUE)
MCMisbehaviour ==
    {{}, {Commit(FALSE)}, {Msg("Accusation", k3, {k1}, <<>>, TRUE)}}
    \cup {{Commit(TRUE), Deal(k1, v), Deal(k2, "good")} : v \in {"good", "bad"}}
    \cup {{Msg("Apology", k3, {k1}, To(k1, v), TRUE)} : v \in {"good", "bad", "invalid"}}
=============================================================================
