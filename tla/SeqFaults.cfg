CONSTANTS
    NoFile = NoFile
    Files = {a, b}
    TestFiles = {a}
    MaxEdits = 3
    Runners = {watch}
    PathRunners = {watch}
    Rejected = {2}
    FaultKinds = {"error", "vector_add", "crash"}
    MaxFaults = 2
SPECIFICATION FairSpec
INVARIANTS
    TypeOK
    UnchangedHasSymbols
    UnchangedIsSearchable
    UnchangedVectorsNotStale
    IndInv
PROPERTIES
    ImplementsFreshIndex
    ImplementsFairFreshIndex
