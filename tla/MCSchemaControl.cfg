\* Two processes take schema changes of two tables and assemble events, alone or
\* at the same time.
SPECIFICATION FairSpec
CONSTANTS
    orders = orders
    items = items
    w1 = w1
    w2 = w2
    note = note
    strict = strict
    strange = strange
    tag = tag
    Tables = {orders, items}
    Contract <- Contracts1
    Registered <- Resolved
    Base = "Order"
    Changes = {note, strict, strange, tag}
    Asked <- Changes1
    Revisions = {2}
    Workers = {w1, w2}
    Duty <- Duties
    Assemblers = {w1}
    MaxLocation = 2
    MaxEvents = 2
    Null = Null
INVARIANTS
    ReceiptsPreserveRows
    AloneReceiptsTarget
    NoLatePlan
PROPERTIES
    CommittedIsReceipted
CHECK_DEADLOCK FALSE
