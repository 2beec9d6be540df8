SPECIFICATION Spec
CONSTANTS
    Burst = 1
    Rate = 1
    Cost = 2
    Calls = {c1, c2, c3, c4}
    Keys = {k1, k2}
    MaxPartitions = 1
    EntryTTL = 2
    CleanupInterval = 1
    Overflow = Overflow
    None = None
    MaxTime = 3
SYMMETRY Symmetry
INVARIANTS
    PartitionsBounded
    BucketsWithinRate
    KeysIsolated
PROPERTIES
    EvictedBucketsIdle
