CONSTANTS
    a1 = a1
    a2 = a2
    w1 = w1
    w2 = w2
    c1 = c1
    t1 = t1
    m1 = m1
    One = 100000
    MaxBookAge = 30
    SignalPolicy <- MCSignalPolicy
    RiskPolicy <- MCRiskPolicy
    GatePolicy <- MCGatePolicy
    Actions = {a1, a2}
    ActionOf <- MCActionOf
    SourceOf <- MCSourceOf
    MarketOf <- MCMarketOf
    BooksOf <- MCBooksOf
    FeeRate = 5
    Versions = {1, 2}
    InitialNav = 2111000
    Marks = {2111000, 1700000}
    Ratios = {50, 250}
    ExitPrices = {53000}
    ExitFeePerUnit = 500
    GateWindows = {0, 1, 2}
    EnvGate = TRUE
    LastDay = 2
    MaxDecisions = 3
    MaxRuns = 1
    MaxExits = 1
    MaxUpsets = 1
SPECIFICATION Spec
CHECK_DEADLOCK FALSE
INVARIANTS
    LotsMatchReceipts
    ExposureNeverUnderstated
    LiveRestsOnEvidence
PROPERTIES
    ExitMirrorsItsSource
    EntryStaysWithinCaps
