------------------------------ MODULE Powermap ------------------------------
(***************************************************************************)
(* Voting power of validators (app/powermap.go): a partial function from   *)
(* validator public keys to powers.                                        *)
(***************************************************************************)
EXTENDS Naturals

PowerOf(pm, v) == IF v \in DOMAIN pm THEN pm[v] ELSE 0

(* A wrong variant: keys that are gone are not removed.                    *)
DiffWithoutRemoval(oldpm, newpm) ==
    [v \in {v \in DOMAIN newpm : PowerOf(oldpm, v) # newpm[v]} |-> newpm[v]]

(* The updates that turn oldpm into newpm: power 0 for a key to remove, the*)
(* new power for every key whose power differs.                            *)
DiffPowermaps(oldpm, newpm) ==
    LET removed == DOMAIN oldpm \ DOMAIN newpm
        updated == {v \in DOMAIN newpm : PowerOf(oldpm, v) # newpm[v]}
    IN  [v \in removed \cup updated |-> PowerOf(newpm, v)]

(* What Tendermint does with the validator updates of EndBlock.            *)
ApplyValidatorUpdates(vals, updates) ==
    [v \in (DOMAIN vals \cup DOMAIN updates)
               \ {u \in DOMAIN updates : updates[u] = 0} |->
        IF v \in DOMAIN updates THEN updates[v] ELSE vals[v]]
=============================================================================
