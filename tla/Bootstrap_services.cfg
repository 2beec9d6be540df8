SPECIFICATION Spec
CONSTANTS
    Providers = {s1, s2, s3}
    Default = Default
    Extensions <- Offered
SYMMETRY Symmetry
INVARIANTS
    InUseNotDisplaced
    NestedShutdownRestores
    RuntimeIsTraced
    RuntimesAgreeOnExtensions
