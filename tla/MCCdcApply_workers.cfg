\* Two workers run any plans at any time, of any manifest.
SPECIFICATION Spec
CONSTANTS
    TableCount = 2
    k1 = k1
    k2 = k2
    a = a
    b = b
    Null = Null
    Keys <- TwoKeys
    Values <- TwoValues
    Snapshot <- OldOrders
    History <- BackAndForth
    Manifests <- OneEachOrAll
    Workers = {w1, w2}
    InTurn = FALSE
SYMMETRY Interchangeable
INVARIANTS
    IInv
PROPERTIES
    ImplementsAppliedPrefix
