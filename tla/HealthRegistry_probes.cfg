SPECIFICATION FairSpec
CONSTANTS
    Probes = {p1, p2}
    Kind <- SummaryAndReady
    Checks = {db}
    Registered <- Shared
    None = None
    p1 = p1
    p2 = p2
    db = db
INVARIANTS
    SingleExecution
    HealthyMeansChecked
    NoSpuriousCancel
    ReadyFailsClosed
PROPERTIES
    ProbesAnswered
    SlotReleased
