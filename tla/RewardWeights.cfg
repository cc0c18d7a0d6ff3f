SPECIFICATION Spec

CHECK_DEADLOCK FALSE

CONSTANTS
    v1 = v1
    v2 = v2
    v3 = v3
    Validator <- MC_Two
    Whitelisted = {}
    Accuracy = 100
    BasePointsPerBlock = 7
    BlockAuthoringWeight = 80
    LivenessWeight = 60
    FairShareCap = 50
    ExpectedBlocksPerEra = 4
    MinInflationPercent = 20
    MaxInflationPercent = 100
    TreasuryProportion = 20
    BaseInflation = 20
    HistoryDepth = 3
    Capacity = 3
    MaxEra = 1
    MaxEraBlocks = 2

INVARIANT PointsWithinPool
