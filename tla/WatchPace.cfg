CONSTANTS
    Files = {a, b}
    MaxEdits = 3
    Rejected = {}
    Interval = 2
    MinGap = 3
    MaxBackoff = 5
    MaxFaults = 3
SPECIFICATION FairSpec
INVARIANTS
    TypeOK
    ChangesArePickedUp
PROPERTIES
    Paced
    EventuallyQuiet
    EventuallyIndexed
