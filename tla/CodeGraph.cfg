CONSTANTS
    None = None
    ElysiaMethods <- MCElysiaMethods
    Trees <- MCTrees
    Contents <- Extracted
    PackageOf <- MCPackageOf
    ReferenceLimit = 2
    EvidenceLimit = 1
    Pools = {TRUE, FALSE}
    Unit = 720000
    Damping <- MCDamping
    Iterations = 2
    MaxCuts = 1
    Depths = {2}
    Limits = {1, 5}
SPECIFICATION Spec
INVARIANTS
    TypeOK
    EdgesFollowText
    OnlyNamesakesAreLost
    LocalCallsHaveEdges
    RanksAreCurrent
    TraversalsAreExact
    ToolsAreExact
CHECK_DEADLOCK FALSE
