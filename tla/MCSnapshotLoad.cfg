\* Two processes load two shards and admit, alone or at the same time.
SPECIFICATION FairSpec
CONSTANTS
    good = good
    Tables = {orders, items}
    Inputs = {good, other}
    Source <- SameSource
    Workers = {w1, w2}
    MaxAppends = 2
    Null = Null
INVARIANTS
    LedgerBacked
    OnceIfAlone
PROPERTIES
    EventuallyAdmitted
    ImplementsAdmittedSnapshot
CHECK_DEADLOCK FALSE
