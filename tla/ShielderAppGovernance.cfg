SPECIFICATION Spec
CONSTANTS
    alice = alice
    bob = bob
    carol = carol
    newkey = newkey
    genesiskey = genesiskey
    Address = {alice, bob, carol}
    ValidatorPubkey = {genesiskey, newkey}
    NonExistentValidator = none
    GenesisKeypers <- MCGenesisKeypers
    GenesisThreshold = 2
    GenesisValidators <- MCGenesisValidators
    ProposedConfigs <- GovernanceConfigs
    CheckInPubkeys = {genesiskey, newkey}
    StartedIndices = {0, 1, 2}
    EonVoteBatches = {}
    SignedBatches = {}
    DKGMsgs <- NoDKGMsgs
    MaxEons = 3
    DevMode = FALSE
INVARIANTS
    TypeOK
    NoDanglingMajority
    ConfigsOrdered
    ValidatorsInSync
    EnoughLiveValidators
    StartedConfigHasVotes
PROPERTIES
    AcceptedConfigHasMajority
