------------------------------ MODULE EpochKG ------------------------------
(***************************************************************************)
(* The generation of epoch secret keys from shares, by a keyper that has   *)
(* the result of an eon's DKG (keyper/epochkg).  The cryptography is       *)
(* assumed to work: a key is known by the shares that were combined, and   *)
(* whether a share verifies is part of it.                                 *)
(***************************************************************************)
EXTENDS Naturals, FiniteSets

CONSTANTS Keypers, Threshold, Epochs

NewEpochKG ==
    [SecretShares |-> [epoch \in Epochs |-> {}], SecretKeys |-> {}]

EpochKGState ==
    [SecretShares : [Epochs -> SUBSET Keypers], SecretKeys : SUBSET Epochs]

(* A wrong variant: shares of several senders are not told apart from      *)
(* several shares of one.                                                  *)
KeyWithOneLess(senders) == Cardinality(senders) >= Threshold - 1

EnoughShares(senders) == Cardinality(senders) >= Threshold

(* With the share that makes the threshold the shares are combined and     *)
(* dropped.                                                                *)
addEpochSecretKeyShare(ekg, share) ==
    LET senders == ekg.SecretShares[share.Epoch] \cup {share.Sender}
    IN  IF EnoughShares(senders)
          THEN [SecretShares |-> [ekg.SecretShares EXCEPT ![share.Epoch] = {}],
                SecretKeys   |-> ekg.SecretKeys \cup {share.Epoch}]
          ELSE [ekg EXCEPT !.SecretShares[share.Epoch] = senders]

(* Another share of the same sender is an error, as is one that does not   *)
(* verify.                                                                 *)
HandleEpochSecretKeyShare(ekg, share) ==
    IF \/ share.Epoch \in ekg.SecretKeys
       \/ ~share.Verifies
       \/ share.Sender \in ekg.SecretShares[share.Epoch]
      THEN ekg
      ELSE addEpochSecretKeyShare(ekg, share)
=============================================================================
