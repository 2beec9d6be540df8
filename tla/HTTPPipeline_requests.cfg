SPECIFICATION Spec
CONSTANTS
    q1 = q1
    q2 = q2
    q3 = q3
    Requests = {q1, q2, q3}
    Sends <- SendsMC
    Configs <- ConfigsMC
    Labels = {"/v1", "/v1/*", "/docs"}
    Buckets <- OneBucket
    Latencies <- LatenciesMC
    Calls <- CallsMC
    MaxCalls = 2
    TripAfter = 1
    MaxRequests = 1
    MaxExpiries = 1
INVARIANTS
    RecordsAgree
    ScrapeFaithful
PROPERTIES
    BreakerJudgesServerFailures
    RequestsComplete
    SystemRoutesReachable
