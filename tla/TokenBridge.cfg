SPECIFICATION FairSpec
CONSTANTS
    u = u
    r = r
    sovereign = sovereign
    treasury = treasury
    here = here
    elsewhere = elsewhere
    root = root
    agent = agent
    zero = zero
    t1 = t1
    t2 = t2
    Origins <- MC_Origins
    Messages <- MC_Messages
    Locations <- MC_Locations
    TokenIdOf <- MC_TokenIdOf
    RootOrigin = root
    SenderOrigins <- MC_SenderOrigins
    Users <- MC_Users
    EthereumSovereignAccount = sovereign
    FeeRecipient = treasury
    Here = here
    TransferOrigin = zero
    ExistentialDeposit = 0
    InitialBalance = 5
    Relayers <- MC_Relayers
    RelayerFee = 1
    OtherToken = t2
    NoClaimer = NoClaimer
    Amounts = {1, 2}
    Fees = {1}
    MaxMessages = 4
    MaxBurns = 2
    MaxSwitches = 1
INVARIANTS
    FullyBacked
PROPERTIES
    UnlockedEventually
CHECK_DEADLOCK FALSE
