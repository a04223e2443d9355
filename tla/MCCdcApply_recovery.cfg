\* One worker at a time runs plans in source order and may die anywhere.
SPECIFICATION FairSpec
CONSTANTS
    TableCount = 2
    k1 = k1
    k2 = k2
    a = a
    b = b
    Null = Null
    Keys <- TwoKeys
    Values <- TwoValues
    Snapshot <- OldOrders
    History <- ThreeTransactions
    Manifests <- OneEach
    Workers = {w1}
    InTurn = TRUE
INVARIANTS
    RowsTrackFrontier
    RecordsExact
PROPERTIES
    EventuallyCheckpointed
