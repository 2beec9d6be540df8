SPECIFICATION Spec
CONSTANTS
    Burst = 1
    Rate = 1
    Cost = 1
    Pods = {p1}
    Calls = {c1, c2}
    Threshold = 2
    ResetTimeout = 1
    KeyTTL = 2
    Skew = 1
    Delay = 1
    None = None
INVARIANTS
    FleetWithinRate
    CircuitMatchesFailures
PROPERTY CircuitFollowsRedis
