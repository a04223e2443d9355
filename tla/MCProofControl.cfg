\* Two sessions seal, prove and record gates, alone or at the same time, and
\* may die between any two commits.
SPECIFICATION FairSpec
CONSTANTS
    x1 = x1
    x2 = x2
    Gates = {continuity, schema}
    Seals = {x1, x2}
    Results <- Offered
    Sessions = {s1, s2}
    Null = Null
INVARIANT ManifestBacked
PROPERTIES
    ImplementsProofLifecycle
    EventuallyProven
