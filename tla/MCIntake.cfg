\* A landing that loses, repeats, alters and misplaces records and objects.
SPECIFICATION FairIntake
CONSTANTS
    k1 = k1
    k2 = k2
    a = a
    b = b
    g = g
    Keys = {k1, k2}
    Values = {a, b}
    Generation = g
    Snapshot <- AtStart
    Start = 1
    End = 3
    History <- There
    Strays <- Others
    Objects <- Cut
    Copies = 2
    None = None
INVARIANTS
    DoubtIsNeverApplied
    AppliesPrefixes
PROPERTIES
    CleanBundlePasses
CHECK_DEADLOCK FALSE
