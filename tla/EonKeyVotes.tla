---------------------------- MODULE EonKeyVotes ----------------------------
(***************************************************************************)
(* A DKG and what follows it on the main chain: a keyper that obtained an  *)
(* eon key votes for it in the KeyBroadcastContract                        *)
(* (keyper/decide.go, contracts/KeyBroadcastContract.sol).                 *)
(*                                                                         *)
(* The eon public key is the sum of the participants' commitments, so the  *)
(* set of participants stands for it.                                      *)
(***************************************************************************)
EXTENDS KeyperDKG, KeyBroadcastContract

CONSTANT WrongVotes   \* the keys that the others may vote for

ASSUME WrongVotesAssumption == WrongVotes \subseteq SUBSET Keypers

VARIABLE broadcast     \* the contract's state for the eon's start batch

votesVars == <<vars, broadcast>>

VotesInit == Init /\ broadcast = NewBroadcast

(* A DKG step does not touch the contract.                                 *)
DKGStep == Next /\ UNCHANGED broadcast

(* Bound: the votes are cast once all honest keypers are done with the     *)
(* DKG, whose steps do not depend on them.                                 *)
DKGDone == \A k \in Honest : keypers[k].Result # "running"

(* The transaction of k's EonKeyBroadcast action is mined.                 *)
broadcastEonPublicKey(k) ==
    /\ DKGDone
    /\ keypers[k].Result = "ok"
    /\ CanVote(broadcast, k)
    /\ broadcast' = vote(broadcast, k, Participants(keypers[k].Pure))
    /\ UNCHANGED vars

(* A keyper that is not honest votes for what it likes.                    *)
FaultyVote(k, key) ==
    /\ DKGDone
    /\ CanVote(broadcast, k)
    /\ broadcast' = vote(broadcast, k, key)
    /\ UNCHANGED vars

VotesNext ==
    \/ DKGStep
    \/ \E k \in Honest : broadcastEonPublicKey(k)
    \/ \E k \in Keypers \ Honest, key \in WrongVotes : FaultyVote(k, key)

VotesSpec == VotesInit /\ [][VotesNext]_votesVars

-----------------------------------------------------------------------------
(* As long as fewer than Threshold keypers misbehave, a key with Threshold *)
(* votes in the contract is the key of every honest keyper that obtained   *)
(* one, and it is the key the contract calls best: no keyper's votes are   *)
(* counted twice, and keypers that synced at different times vote for the  *)
(* same key.                                                               *)
BestKeyIsRight ==
    Cardinality(Keypers \ Honest) < Threshold =>
      \A key \in SUBSET Keypers :
        NumVotes(broadcast, key) >= Threshold =>
          /\ broadcast.bestKey = key
          /\ \A k \in Honest :
               keypers[k].Result = "ok" => key = Participants(keypers[k].Pure)
=============================================================================
