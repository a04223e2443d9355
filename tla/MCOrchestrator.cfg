\* Two operators' processes publish and fall back on one product.
SPECIFICATION OrchFairSpec
CONSTANTS
    orders = orders
    g1 = g1
    g2 = g2
    a1 = a1
    a2 = a2
    k1 = k1
    k2 = k2
    k3 = k3
    r1 = r1
    r2 = r2
    s1 = s1
    s2 = s2
    Products = {orders}
    Generations = {g1, g2}
    Attempts = {a1, a2}
    Pins = {k1, k2, k3}
    Sessions = {s1, s2}
    Runs = {r1, r2}
    Duty <- TwoOperators
    Disqualifiers = {}
    MaxRevision = 2
    Null = Null
INVARIANTS
    RunStatesBacked
    RunAheadOfRoute
PROPERTIES
    PublishedRunEnds
CHECK_DEADLOCK FALSE
