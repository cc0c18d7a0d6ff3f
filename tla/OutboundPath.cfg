SPECIFICATION PathSpec
CONSTANTS
    transfer = transfer
    system = system
    r1 = r1
    r2 = r2
    Origins <- MC_Origins
    Outgoing <- MC_Outgoing
    Relayers <- MC_Relayers
    HashOrders <- MC_HashOrders
    MaxMessagePayloadSize = 2
    MaxMessagesPerBlock = 3
    MaxBlocks = 3
    MaxMessages = 4
    MaxLeaves = 5
    v1 = v1
    v2 = v2
    Validator <- MC_Validator
    Whitelisted <- MC_Whitelisted
    Accuracy = 100
    BasePointsPerBlock = 7
    BlockAuthoringWeight = 60
    LivenessWeight = 40
    FairShareCap = 50
    ExpectedBlocksPerEra = 4
    MinInflationPercent = 20
    MaxInflationPercent = 100
    TreasuryProportion = 20
    BaseInflation = 20
    HistoryDepth = 4
    MaxEra = 5
    MaxEraBlocks = 1
    e1 = e1
    e2 = e2
    e3 = e3
    e4 = e4
    e5 = e5
    Entry <- MC_Entry
    Undeliverable <- MC_Undeliverable
    Capacity = 4
INVARIANTS
    EveryMessageProvable
    OrdersSettle
    ProofsVerify
    LibraryProofsVerify
    NoHoles
    ExactlyOnce
    QueuedAsPromised
    EraAccounting
PROPERTIES
    ImplementsChannel
    RefinesRetryQueue
    EntryServed
CHECK_DEADLOCK FALSE
