\* Two connections load, apply overlapping batches and cut over.
SPECIFICATION FairSpec
CONSTANTS
    k1 = k1
    k2 = k2
    old = old
    new = new
    newer = newer
    g1 = g1
    g2 = g2
    Generations = {g1, g2}
    Keys = {k1, k2}
    Values = {old, new, newer}
    Start = 1
    Snapshot <- AtStart
    Log <- Source
    Batches <- Sent
    Connections = {p1, p2}
    MaxVersion = 2
    Null = Null
INVARIANTS
    RowsTrackTransactions
    ActiveIsReady
PROPERTIES
    CatchesUp
    ImplementsSourceReplay
CHECK_DEADLOCK FALSE
