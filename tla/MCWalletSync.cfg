SPECIFICATION Spec
CONSTANTS
    MaxTrades = 4
    PageLimit = 1
    Overlap = 2
    SyncMaxPages = 3
    BackfillMaxPages = 2
INVARIANTS
    NoGapUnlessRagged
    SweepCovers
PROPERTIES
    WatermarkAdvances
