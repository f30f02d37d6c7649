SPECIFICATION Spec
CONSTANTS
    alice = alice
    bob = bob
    carol = carol
    newkey = newkey
    genesiskey = genesiskey
    Address = {alice, bob, carol}
    ValidatorPubkey = {genesiskey, newkey}
    NonExistentValidator = none
    GenesisKeypers <- MCGenesisKeypers
    GenesisThreshold = 2
    GenesisValidators <- MCGenesisValidators
    ProposedConfigs <- EonConfigs
    CheckInPubkeys = {}
    StartedIndices = {}
    EonVoteBatches = {0, 1, 2}
    SignedBatches = {}
    DKGMsgs <- NoDKGMsgs
    MaxEons = 4
    DevMode = FALSE
INVARIANTS
    LastConfigHasEon
PROPERTIES
    EonRunByItsKeypers
    EonRestartHasMajority
