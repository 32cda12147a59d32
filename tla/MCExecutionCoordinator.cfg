SPECIFICATION FairSpec
CONSTANTS
    c1 = c1
    c2 = c2
    c3 = c3
    enterA = enterA
    exitA = exitA
    instA = instA
    NoIntent = NoIntent
    NoReport = NoReport
    Calls = {c1, c2, c3}
    Intents = {enterA, exitA}
    Instruments = {instA}
    InstrumentOf <- MCInstrumentOf
    Entries = {enterA}
    Reports <- MCReports
    MaxRestarts = 1
INVARIANTS
    TypeOK
    OneFlightPerInstrument
    LocksMatchFlights
    SubmittedOncePerGeneration
PROPERTIES
    EmergencyOnlyDrains
    InstrumentReopens
    ImplementsPromise
CHECK_DEADLOCK TRUE
