-------------------------- MODULE MCKeyperSlashing --------------------------
(* Small instances of the contracts for TLC.                               *)
EXTENDS KeyperSlashing

CONSTANTS k1, k2, tx

BothSign(span, timeout) ==
    [batchSpan |-> span, executionTimeout |-> timeout, batchSizeLimit |-> 1,
     keypers |-> <<k1, k2>>, threshold |-> 2]

(* An inactive config and one with the shortest batches.                   *)
MCTerms == {BothSign(0, 0), BothSign(1, 1)}
=============================================================================
