SPECIFICATION FairSpec
CONSTANTS
    Starters = {t1, t2}
    Stoppers = {s1}
    Drainers = {d1}
    RPCs = {r1}
    NStartup = 1
    NShutdown = 2
    Injected = FALSE
    None = None
INVARIANTS
    NoStartupDuringCleanup
    HealthDownBeforeCleanup
    StopWaitsForCleanup
    DrainBeforeCleanup
    ListenerReleased
    GracefulResultTruthful
PROPERTIES
    ImplementsLifecycle
    StopsReturn
    StartReturnsAfterStop
