SPECIFICATION FairSystemSpec
CONSTANTS
    a = a
    b = b
    r = r
    ValidatorId <- MC_ValidatorId
    KeyHolders <- MC_KeyHolders
    ValidatorLists <- MC_ValidatorLists
    ForceModes = {}
    GenesisWhitelisted <- MC_GenesisWhitelisted
    GenesisExternal <- MC_GenesisExternal
    MaxWhitelistedValidators = 1
    MaxExternalValidators = 1
    SessionsPerEra = 2
    HistoryDepth = 1
    MaxSession = 4
    Relayers <- MC_Relayers
    RelayerFee = 2
    FirstNonce = 127
    MaxTxs = 1
    MaxRestarts = 0
    MaxReorgs = 0
PROPERTIES
    AppliedInTargetEra
CHECK_DEADLOCK FALSE
