SPECIFICATION LiveSpec
CONSTANTS
    c1 = c1
    c2 = c2
    enterA = enterA
    addA = addA
    exitA = exitA
    instA = instA
    NoIntent = NoIntent
    NoReport = NoReport
    NotAsked = NotAsked
    Calls = {c1, c2}
    Intents = {enterA, exitA}
    Instruments = {instA}
    InstrumentOf <- MCInstrumentOf
    Entries = {enterA}
    Reports <- MCReports
    MaxRestarts = 0
    Lots = 2
SYMMETRY CallSymmetry
INVARIANTS
    OneOrderPerIntent
    ExecutedReportIsTrue
    RecoveryNamesARealOrder
PROPERTIES
    HaltOnlyDrainsOrders
