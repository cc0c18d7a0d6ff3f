SPECIFICATION FairSystemSpec
CONSTANTS
    a = a
    b = b
    r = r
    ValidatorId <- MC_ValidatorId
    KeyHolders <- MC_KeyHolders
    ValidatorLists <- MC_ValidatorLists
    ForceModes = {"NotForcing"}
    GenesisWhitelisted <- MC_GenesisWhitelisted
    GenesisExternal <- MC_GenesisExternal
    MaxWhitelistedValidators = 1
    MaxExternalValidators = 1
    SessionsPerEra = 2
    HistoryDepth = 1
    MaxSession = 3
    Relayers <- MC_Relayers
    RelayerFee = 2
    FirstNonce = 127
    MaxTxs = 2
    MaxRestarts = 1
    MaxReorgs = 1
INVARIANTS
    NeverAhead
    AcceptedWasSent
PROPERTIES
    ImplementsHandover
    TickEnds
    AcceptedInTime
CHECK_DEADLOCK FALSE
