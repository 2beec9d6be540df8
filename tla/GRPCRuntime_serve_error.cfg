SPECIFICATION Spec
CONSTANTS
    Starters = {t1}
    Stoppers = {}
    Drainers = {d1}
    RPCs = {r1}
    NStartup = 1
    NShutdown = 1
    Injected = TRUE
    None = None
INVARIANTS
    CleanupAfterDrain
