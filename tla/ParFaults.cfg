CONSTANTS
    NoFile = NoFile
    Files = {a, b}
    TestFiles = {a}
    MaxEdits = 3
    Workers = {w1, w2}
    Rejected = {2}
    MaxAttempts = 2
    BatchLimit = 2
    FaultKinds = {"error", "crash"}
    MaxFaults = 1
SPECIFICATION FairSpec
INVARIANTS
    TypeOK
    UnchangedHasSymbols
    UnchangedIsSearchable
PROPERTIES
    ImplementsFreshIndex
    EventuallyEmbedded
