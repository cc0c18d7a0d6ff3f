SPECIFICATION Spec
CONSTANTS
    v1 = v1
    v2 = v2
    babe = babe
    grandpa = grandpa
    Validator = {v1, v2}
    Kind = {babe, grandpa}
    Modes = {"Enabled", "Disabled"}
    Whitelists = {{}}
    InjectedFractions = {1}
    BondingDuration = 1
    SlashDeferDuration = 0
    HistoryDepth = 2
    QueuedSlashesProcessedPerBlock = 1
    MaxSession = 0
    MaxSlashes = 2
    MaxReports = 3
    MaxInjected = 0
    Capacity = 2
SYMMETRY Symmetry
INVARIANTS
    SlashKindAsReported
