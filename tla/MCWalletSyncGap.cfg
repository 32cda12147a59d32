SPECIFICATION MonitorSpec
CONSTANTS
    MaxTrades = 6
    PageLimit = 1
    Overlap = 1
    SyncMaxPages = 7
    BackfillMaxPages = 0
INVARIANT
    NoGapAtSeam
