--------------------------- MODULE MCEonKeyVotes ---------------------------
(* The instance of MCKeyperDKG with a dishonest keyper and votes: it votes *)
(* for a key without k2's part, or for the key of everybody.               *)
EXTENDS EonKeyVotes, MCKeyperDKG

MCWrongVotes == {{k1, k3}, MCThree}
=============================================================================
