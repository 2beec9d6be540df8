SPECIFICATION ContextFairSpec
CONSTANTS
    Starters = {t1}
    Stoppers = {}
    Drainers = {d1}
    RPCs = {}
    NStartup = 1
    NShutdown = 1
    Injected = TRUE
    None = None
PROPERTIES
    DeadlineBoundsGracefulStop
