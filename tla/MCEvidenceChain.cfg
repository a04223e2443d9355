CONSTANTS
    Windows <- AllPairsAndTriples
    Shared = {shared}
    Foreign = {foreign}
    Refused <- SecondChange
    NoFile = NoFile
    MaxLabs = 3
    MaxEdits = 2
    MaxCommits = 4
SPECIFICATION Spec
INVARIANTS
    GreenIsFinished
    FinishedBuildVerifies
    EvidenceAsMerged
PROPERTIES
    LaterWorkKeepsGates
CHECK_DEADLOCK FALSE
