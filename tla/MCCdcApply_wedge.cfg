\* One worker runs the plans of a manifest of several transactions in order.
SPECIFICATION Spec
CONSTANTS
    TableCount = 2
    k1 = k1
    k2 = k2
    a = a
    b = b
    Null = Null
    Keys <- TwoKeys
    Values <- TwoValues
    Snapshot <- OldOrders
    History <- ThreeTransactions
    Manifests <- OneEachOrAll
    Workers = {w1}
    InTurn = TRUE
INVARIANTS
    ProgressIsRecoverable
