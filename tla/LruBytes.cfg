CONSTANTS
    NoLimit = NoLimit
    Key = {k1, k2, k3}
    Value = {v1, v2}
    Sizes = {0, 1, 2, 4}
    MaxEntries = 2
    MaxBytes = 3
SPECIFICATION Spec
INVARIANTS
    TypeOK
    WithinLimits
    KeepsMostRecent
PROPERTIES
    EvictsOnlyWhatDoesNotFit
