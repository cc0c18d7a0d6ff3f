SPECIFICATION FairSpec
CONSTANTS
    a = a
    b = b
    c = c
    ValidatorId <- MC_ValidatorId
    KeyHolders <- MC_KeyHolders
    ValidatorLists <- MC_ValidatorLists
    ForceModes <- MC_ForceModes
    GenesisWhitelisted <- MC_GenesisWhitelisted
    GenesisExternal <- MC_GenesisExternal
    MaxWhitelistedValidators = 1
    MaxExternalValidators = 2
    SessionsPerEra = 2
    HistoryDepth = 1
    MaxSession = 4
INVARIANTS
    EraWindow
    EraHistory
    EndPairsWithStart
    EraAsPlanned
PROPERTIES
    EraProgress
    IndexApplication
