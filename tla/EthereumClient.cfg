SPECIFICATION Spec
CONSTANTS
    SLOTS_PER_EPOCH = 1
    EPOCHS_PER_SYNC_COMMITTEE_PERIOD = 5
    SLOTS_PER_HISTORICAL_ROOT = 5
    SYNC_COMMITTEE_SIZE = 3
    MaxFinalizedHeadersToKeep = 2
    FreeHeadersInterval = 3
    Finalities <- MC_Finalities
    MaxSlot = 13
    MaxCheckpoints = 2
INVARIANTS
    CommitteesMatchPeriod
    OnlyFinalizedHeaders
    RingKeepsLatest
    NoUnprovableGap
    NeverStuck
    PeriodFreeOnce
