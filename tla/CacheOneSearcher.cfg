CONSTANTS
    NoLimit = NoLimit
    Files = {a, b}
    Queries = {p, q}
    Searchers = {s}
    Capacity = 1
    MaxWrites = 2
    MaxClock = 2
    RunsPerSecond = "one"
    MaxFaults = 1
SPECIFICATION Spec
INVARIANTS
    TypeOK
    HitsAreFresh
