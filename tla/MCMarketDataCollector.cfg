SPECIFICATION FairSpec
CONSTANTS
    t1 = t1
    t2 = t2
    Tokens = {t1, t2}
    PricesOf <- MCPricesOf
    Defects = {"malformed_change", "unaddressed", "partial_book"}
    MaxMessages = 3
    MaxInFlight = 1
INVARIANTS
    AnchoredBookIsExact
    GapIsRepaired
PROPERTIES
    CycleEndsUnlessFlooded
