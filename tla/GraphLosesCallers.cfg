CONSTANTS
    None = None
    ElysiaMethods <- MCElysiaMethods
    Trees <- MCTrees
    Contents <- Extracted
    PackageOf <- MCPackageOf
    ReferenceLimit = 2
    EvidenceLimit = 1
    Pools = {FALSE}
    Unit = 720000
    Damping <- MCDamping
    Iterations = 2
    MaxCuts = 0
    Depths = {1, 2}
    Limits = {2, 8}
SPECIFICATION Spec
INVARIANTS
    CallersAreFound
CHECK_DEADLOCK FALSE
