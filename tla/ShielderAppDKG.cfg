SPECIFICATION Spec
CONSTANTS
    alice = alice
    bob = bob
    carol = carol
    newkey = newkey
    genesiskey = genesiskey
    Address = {alice, bob, carol}
    ValidatorPubkey = {genesiskey, newkey}
    NonExistentValidator = none
    GenesisKeypers <- MCTwoGenesisKeypers
    GenesisThreshold = 2
    GenesisValidators <- MCGenesisValidators
    ProposedConfigs <- DKGConfigs
    CheckInPubkeys = {}
    StartedIndices = {}
    EonVoteBatches = {}
    SignedBatches = {1, 2}
    DKGMsgs <- SomeDKGMsgs
    MaxEons = 2
    DevMode = FALSE
INVARIANTS
    NoEquivocation
    SignersOfOneConfig
