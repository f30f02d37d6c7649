--------------------------- MODULE MCShielderApp ---------------------------
(***************************************************************************)
(* Small instances of ShielderApp for TLC.                                 *)
(***************************************************************************)
EXTENDS ShielderApp

CONSTANTS alice, bob, carol,   \* three addresses
          newkey, genesiskey       \* two validator keys, the second is the genesis validator's

Config(index, start, keypers, threshold) ==
    [StartBatchIndex |-> start, Keypers |-> keypers, Threshold |-> threshold,
     ConfigIndex |-> index, Started |-> FALSE, ValidatorsUpdated |-> FALSE]

MCGenesisKeypers == <<alice, bob, carol>>
MCTwoGenesisKeypers == <<alice, bob>>
MCGenesisValidators == [v \in {genesiskey} |-> 10]

(* Two rival candidates for index 1 and a further config; the keypers     *)
(* alternate, the configs' ranges of batches overlap.                      *)
ConfigA  == Config(1, 1, <<alice, bob>>, 2)
ConfigA2 == Config(1, 1, <<alice, bob, carol>>, 2)
ConfigB  == Config(2, 2, <<bob, carol>>, 1)

GovernanceConfigs == {ConfigA, ConfigA2, ConfigB}
EonConfigs == {ConfigA, ConfigB}
DKGConfigs == {ConfigA2, ConfigB}

NoDKGMsgs == {}

(* Messages of eon 1 that overlap or contradict each other, one of eon 2   *)
(* (there may be none), and two about their own sender.                    *)
Msg(kind, eon, sender, others) ==
    [Kind |-> kind, Eon |-> eon, Sender |-> sender, Others |-> others]
SomeDKGMsgs ==
    {Msg("PolyEval", 1, alice, {bob}), Msg("PolyEval", 1, alice, {bob, carol}),
     Msg("PolyEval", 1, alice, {alice}),
     Msg("PolyCommitment", 1, alice, {}), Msg("PolyCommitment", 2, alice, {}),
     Msg("Accusation", 1, bob, {alice}), Msg("Apology", 1, alice, {bob})}
=============================================================================
