----------------------------- MODULE BatchConfig -----------------------------
(***************************************************************************)
(* The batch configuration the keypers agree on through shuttermint        *)
(* (keyper/shutterevents/batchconfig.go).  Keypers is a sequence: its order*)
(* gives a keyper its index and takes part in comparisons.                 *)
(***************************************************************************)
EXTENDS Naturals, Sequences

IsKeyper(cfg, candidate) ==
    \E i \in DOMAIN cfg.Keypers : cfg.Keypers[i] = candidate

EnsureValid(cfg) ==
    /\ Len(cfg.Keypers) > 0
    /\ cfg.Threshold > 0
    /\ cfg.Threshold <= Len(cfg.Keypers)

BatchConfigOf(Address) ==
    [StartBatchIndex : Nat, Keypers : Seq(Address), Threshold : Nat,
     ConfigIndex : Nat, Started : BOOLEAN, ValidatorsUpdated : BOOLEAN]

SameKeypersAndThreshold(c, d) ==
    /\ c.Threshold = d.Threshold
    /\ c.Keypers = d.Keypers
=============================================================================
