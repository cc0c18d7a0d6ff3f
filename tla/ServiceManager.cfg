SPECIFICATION Spec
CONSTANTS
    s1 = s1
    s2 = s2
    Operators <- MC_Operators
    Solochain <- MC_Solochain
    Strategies <- MC_Strategies
    Multipliers <- MC_Multipliers
    Allocations <- MC_Allocations
    MAX_ACTIVE_VALIDATORS = 2
INVARIANTS
    AddressesInSync
    MultipliersInSync
    SelectionIsRanked
    RewardsAreAccepted
