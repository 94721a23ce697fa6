\* Two replicas, two partitions, one of them new to the group, one crash or eviction, one message sent again.
CONSTANTS
    Members = {m1, m2}
    Partitions = {p1, p2}
    Fresh = {p2}
    None = None
    Producers <- MCProducers
    Script <- MCScript
    MaxRetries = 1
    MaxRepeats = 1
    MaxFaults = 1
SPECIFICATION FairSpec
INVARIANTS
    NothingVanishes
    ShownIsNotStale
PROPERTIES
    KeepsUp
CHECK_DEADLOCK FALSE
