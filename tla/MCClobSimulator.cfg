SPECIFICATION SimSpec
CONSTANTS
    c1 = c1
    c2 = c2
    c3 = c3
    instA = instA
    instB = instB
    enterA = enterA
    exitA = exitA
    enterB = enterB
    flatA = flatA
    flatB = flatB
    NoIntent = NoIntent
    NoReport = NoReport
    NotAsked = NotAsked
    Calls = {c1, c2, c3}
    Intents = {enterA, exitA, enterB, flatA, flatB}
    Instruments = {instA, instB}
    InstrumentOf <- MCInstrumentOf
    Entries = {enterA, enterB}
    Reports <- MCReports
    MaxRestarts = 0
    OrderTerms <- MCOrderTerms
    FlattenOf <- MCFlattenOf
    OpeningBooks <- MCOpeningBooks
    StartingCash = 24
    FeePercent = 25
    AmbiguousSubmits = 1
INVARIANTS
    FundedAndLong
    FillsExplainMarket
    FillsRespectTerms
SYMMETRY CallSymmetry
