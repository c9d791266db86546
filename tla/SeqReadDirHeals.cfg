CONSTANTS
    NoFile = NoFile
    Files = {a, b}
    TestFiles = {a}
    MaxEdits = 3
    Runners = {watch}
    PathRunners = {}
    Rejected = {3}
    FaultKinds = {"read_dir"}
    MaxFaults = 1
SPECIFICATION FairSpec
INVARIANTS
    UnchangedHasVectors
PROPERTIES
    EventuallyAgrees
