\* Two flows and their editors, one execution, two approvals; a reader of any one of them.
SPECIFICATION FairSpecCached
CONSTANTS
    f1 = f1
    f2 = f2
    s1 = s1
    s2 = s2
    s3 = s3
    e1 = e1
    e2 = e2
    e3 = e3
    a1 = a1
    a2 = a2
    r1 = r1
    Flows = {f1, f2}
    Snapshots = {s1, s2, s3}
    Editors = {e1, e2, e3}
    NoFlow = NoFlow
    Readers = {r1}
    Approvals = {a1, a2}
    MaxWrites = 3
    MaxFaults = 1
    None = None
INVARIANTS
    StaleOnlyByRace
PROPERTIES
    LifeSpec
    CachesCatchUp
\* All flows deprecated.
CHECK_DEADLOCK FALSE
