CONSTANTS
    NoFile = NoFile
    Files = {a}
    TestFiles = {a}
    MaxEdits = 3
    Runners = {watch, tool}
    PathRunners = {tool}
    Rejected = {}
    FaultKinds = {}
    MaxFaults = 0
SPECIFICATION Spec
INVARIANTS
    SettledIsIndexed
