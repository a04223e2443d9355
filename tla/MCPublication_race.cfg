\* Two sessions race on two products that share their generations: every
\* interleaving of their reads and transactions, lost acknowledgements and
\* crashes, within the bounds of Explored.
SPECIFICATION Spec
CONSTANTS
    Products = {orders, customers}
    Generations = {g1, g2}
    Attempts = {a1, a2, a3, a4}
    Pins = {k1}
    Sessions = {s1, s2}
    Disqualifiers = {retired}
    MaxRevision = 3
    Null = Null
SYMMETRY Interchangeable
INVARIANTS
    LedgerReplaysToPointer
    AnswersTruthful
    PinNeverOlder
PROPERTIES
    WithdrawnStaysOut
    ImplementsRouteRegister
CONSTRAINT Explored
CHECK_DEADLOCK FALSE
