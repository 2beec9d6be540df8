SPECIFICATION RunnerSpec
CONSTANTS
    Starters = {loop}
    Stoppers = {stop}
    Drainers = {drain1}
    RPCs = {r1}
    Requests = {q1}
    GRPCKinds = {"graceful"}
    NStartup = 1
    NShutdown = 1
    NHTTPStartup = 1
    NHTTPShutdown = 1
    Injected = TRUE
    None = None
INVARIANTS
    OneShutdownContext
