--------------------------- MODULE MCKeyperEpochs ---------------------------
(***************************************************************************)
(* An instance of KeyperEpochs for TLC.                                    *)
(***************************************************************************)
EXTENDS KeyperEpochs, TLC

CONSTANTS k1, k2, k3, k4

MCConfig(batch, start, span, timeout, threshold, keyperSeq) ==
    [StartBatchIndex |-> batch, StartBlockNumber |-> start, BatchSpan |-> span,
     ExecutionTimeout |-> timeout, Threshold |-> threshold, Keypers |-> keyperSeq]

(* The zero config, one with a batch of two blocks, and the next one.       *)
MCBatchConfigs ==
    << MCConfig(0, 0, 0, 0, 0, <<>>), MCConfig(0, 1, 2, 2, 3, <<k2, k1, k4, k3>>),
       MCConfig(1, 3, 2, 2, 3, <<k1, k2, k3, k4>>) >>

(* Shares for both eons before anything else of the others, and then a     *)
(* signature for part of a batch, like that of a keyper whose copy is      *)
(* incomplete.                                                             *)
MCMisbehaviour ==
    {EpochSecretKeyShare(eon, 0, k3, TRUE) : eon \in 1 .. MaxEons}
    \cup {DecryptionSignature(0, k3, <<1, {1}>>)}

(* With delays of zero blocks (see executionDelay) the keypers' places do  *)
(* not matter.                                                             *)
MCSymmetry == Permutations({k1, k4})
=============================================================================
