SPECIFICATION Spec
CONSTANTS
    w1 = w1
    w2 = w2
    early = early
    late = late
    Intents = {early, late}
    Workers = {w1, w2}
    NoWorker = NoWorker
    ExpiresAt <- MCExpiresAt
    LeaseSeconds = 3
    WorkBudget = 1
    BatchLimit = 2
    ReclaimBackoffs = {0, 2}
    Horizon = 10
SYMMETRY WorkerSymmetry
INVARIANTS
    ExclusiveClaim
    ResubmitNeedsOrphan
PROPERTIES
    FinishedStaysFinished
    NoTradeAfterExpiry
CHECK_DEADLOCK FALSE
