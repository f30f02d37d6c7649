------------------------ MODULE KeyBroadcastContract ------------------------
(***************************************************************************)
(* The votes on the eon key of one start batch index                       *)
(* (contracts/KeyBroadcastContract.sol).  The state is a record: who has   *)
(* voted, the votes per key, and the key with most votes, NoKey at first.  *)
(* The config's keypers are those of the contract's caller.                *)
(***************************************************************************)
EXTENDS Naturals

CONSTANT NoKey   \* the zero hash

NewBroadcast ==
    [voted |-> {}, numVotes |-> [k \in {} |-> 0], bestKey |-> NoKey, bestKeyNumVotes |-> 0]

(* numVotes is a function of the keys voted for: a key that is not mapped  *)
(* yet has no votes.                                                       *)
NumVotes(b, key) == IF key \in DOMAIN b.numVotes THEN b.numVotes[key] ELSE 0

(* A wrong variant: nobody is kept from voting again.                      *)
CanVoteAgain(b, keyper) == TRUE

CanVote(b, keyper) == keyper \notin b.voted

vote(b, keyper, key) ==
    LET n      == NumVotes(b, key) + 1
        better == n > b.bestKeyNumVotes
    IN  [voted |-> b.voted \cup {keyper},
         numVotes |-> [k \in DOMAIN b.numVotes \cup {key} |->
                        IF k = key THEN n ELSE b.numVotes[k]],
         bestKey |-> IF better THEN key ELSE b.bestKey,
         bestKeyNumVotes |-> IF better THEN n ELSE b.bestKeyNumVotes]
=============================================================================
