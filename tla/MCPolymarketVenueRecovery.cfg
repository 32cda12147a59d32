SPECIFICATION LiveSpec
CONSTANTS
    c1 = c1
    c2 = c2
    enterA = enterA
    addA = addA
    exitA = exitA
    instA = instA
    NoIntent = NoIntent
    NoReport = NoReport
    NotAsked = NotAsked
    Calls = {c1, c2}
    Intents = {enterA, addA}
    Instruments = {instA}
    InstrumentOf <- MCInstrumentOf
    Entries = {enterA, addA}
    Reports <- MCReports
    MaxRestarts = 0
    Lots = 2
INVARIANT
    RecoveredOrderIsOwn
