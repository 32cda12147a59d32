SPECIFICATION Spec
CONSTANTS
    b1 = b1
    b2 = b2
    s1 = s1
    p1 = p1
    p2 = p2
    v1 = v1
    v2 = v2
    buys = buys
    sales = sales
    Producers = {p1, p2}
    Fills = {b1, b2}
    EntryBuckets = {buys}
    BucketOf <- MCBucketOf
    At <- MCAt
    Window = 1
    Versions = {v1, v2}
    MaxEvaluations = 2
SYMMETRY Symmetry
INVARIANTS
    OneIntentPerDecision
    IntentHasItsReason
    NoDecisionIsLost
