CONSTANTS
    e1 = e1
    e2 = e2
    e3 = e3
    m1 = m1
    m2 = m2
    m3 = m3
    t1 = t1
    t2 = t2
    NoToken = NoToken
    Listing <- MCListing
    MarketsOf <- MCMarketsOf
    NamesOf <- MCNamesOf
    TokensOf <- MCTokensOf
    Unparsed = {m2}
    Invalid = {e2}
    Rules = {"A", "B"}
    PriceLists <- MCPriceLists
    Mids <- MCMids
    PageLimit = 2
    MaxPages = 1
    MaxEdits = 2
    MaxFaults = 1
SPECIFICATION Spec
INVARIANTS
    RowsAgree
PROPERTIES
    SettlementSticks
    SweepReadsAll
    EventuallyCurrent
