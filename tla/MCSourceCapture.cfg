\* Two runs in a process, three processes, another client of the database.
SPECIFICATION FairSpec
CONSTANTS
    Runs <- SameSeed
    MaxProcesses = 3
    MaxForeign = 1
    Null = Null
INVARIANTS
    WritersInOrder
    BoundaryExact
    SlotGoesWithRun
PROPERTIES
    EveryRunEnds
CHECK_DEADLOCK FALSE
