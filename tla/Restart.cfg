SPECIFICATION Spec
CONSTANTS
    Files = {f1, f2}
    hash256 = hash256
    hash512 = hash512
    bge = bge
    Embedders <- MCEmbedders
    DimOf <- MCDimOf
    NameOf <- MCNameOf
    TextsOf <- MCTextsOf
    Builds = {s1, s2}
    MaxEdits = 2
    MaxStarts = 3
    MaxRuns = 2
    None = None
INVARIANTS TypeOK VectorsAreComparable
PROPERTIES OnlyUpgradesLoseAnswers
CHECK_DEADLOCK FALSE
SYMMETRY Symmetry
