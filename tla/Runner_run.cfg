SPECIFICATION RunnerFairSpec
CONSTANTS
    Starters = {loop}
    Stoppers = {stop}
    Drainers = {drain1}
    RPCs = {r1}
    Requests = {q1}
    GRPCKinds = {"none", "plain", "graceful"}
    NStartup = 1
    NShutdown = 1
    NHTTPStartup = 1
    NHTTPShutdown = 1
    Injected = FALSE
    None = None
INVARIANTS
    ResourcesOutliveRequests
    AllCleanedAtReturn
    FirstErrorReported
PROPERTIES
    NothingStartsAfterReturn
    RunnerReturns
