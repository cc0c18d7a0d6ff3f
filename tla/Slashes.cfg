SPECIFICATION Spec
CONSTANTS
    v1 = v1
    v2 = v2
    babe = babe
    grandpa = grandpa
    Validator = {v1, v2}
    Kind = {babe, grandpa}
    Modes = {"Enabled", "LogOnly"}
    Whitelists = {{}, {v1, v2}}
    InjectedFractions = {1}
    BondingDuration = 1
    SlashDeferDuration = 0
    HistoryDepth = 2
    QueuedSlashesProcessedPerBlock = 1
    MaxSession = 2
    MaxSlashes = 2
    MaxReports = 3
    MaxInjected = 1
    Capacity = 2
SYMMETRY Symmetry
INVARIANTS
    SlashedInOffenceEra
    RisingSlashFractions
    SentAtMostOnce
    OffenceSlashNotStranded
