SPECIFICATION Spec
CONSTANTS
    TripAfter = 2
    MaxRequests = 1
    MaxExpiries = 2
    Calls = {c1, c2, c3}
    Buckets <- OneBucket
    Latencies = {1, 2}
    None = None
INVARIANTS
    CountedAsReplied
    ScrapeConsistent
    RefusesForTrial
PROPERTY TrialDecides
