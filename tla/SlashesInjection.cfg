SPECIFICATION Spec
CONSTANTS
    v1 = v1
    v2 = v2
    babe = babe
    grandpa = grandpa
    Validator = {v1, v2}
    Kind = {babe}
    Modes = {"Enabled"}
    Whitelists = {{}}
    InjectedFractions = {1}
    BondingDuration = 2
    SlashDeferDuration = 0
    HistoryDepth = 3
    QueuedSlashesProcessedPerBlock = 2
    MaxSession = 3
    MaxSlashes = 2
    MaxReports = 2
    MaxInjected = 1
    Capacity = 2
SYMMETRY Symmetry
INVARIANTS
    InjectedSlashApplied
