------------------------------- MODULE Voting -------------------------------
(***************************************************************************)
(* The ballot box of the shuttermint app (app/voting.go) and its two uses, *)
(* app/configvoting.go and app/eonvoting.go.  The code interns candidates  *)
(* in a slice and stores, per sender, an index into it.  Equal candidates  *)
(* share an index, so a ballot box is modelled as a partial function from  *)
(* senders to the candidate each one votes for.                            *)
(***************************************************************************)
EXTENDS Naturals, FiniteSets

NewVoting == [a \in {} |-> a]

(* The sender's vote is added, or replaced if there is one already.        *)
AddVote(votes, sender, candidate) ==
    [a \in DOMAIN votes \cup {sender} |->
        IF a = sender THEN candidate ELSE votes[a]]

(* The senders whose vote is for the given candidate.                      *)
Voters(votes, candidate) == {a \in DOMAIN votes : votes[a] = candidate}

HasEnoughVotes(votes, candidate, numRequiredVotes) ==
    Cardinality(Voters(votes, candidate)) >= numRequiredVotes

(* Wrong variants of Outcome, to show that the properties can fail: more   *)
(* votes than required; votes counted whatever they are for.               *)
OutcomeMoreThan(votes, numRequiredVotes) ==
    {w \in {votes[a] : a \in DOMAIN votes} :
        Cardinality(Voters(votes, w)) > numRequiredVotes}

OutcomeOfAllVotes(votes, numRequiredVotes) ==
    {w \in {votes[a] : a \in DOMAIN votes} :
        Cardinality(DOMAIN votes) >= numRequiredVotes}

(* OutcomeIndex ranges over a Go map and returns the first index it meets  *)
(* that has enough votes.  The iteration order is random: any member of    *)
(* this set may be returned, and no success is reported when it is empty.  *)
Outcome(votes, numRequiredVotes) ==
    {w \in {votes[a] : a \in DOMAIN votes} :
        HasEnoughVotes(votes, w, numRequiredVotes)}
=============================================================================
