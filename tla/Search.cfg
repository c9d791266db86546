CONSTANTS
    None = None
    Lexicon <- MCLexicon
    Sym <- MCSym
    File <- MCFile
    Unit = 10000
    Weights <- MCWeights
    TextOf <- MCTextOf
    DocTokens <- MCDocTokens
    UsagesOf <- MCUsagesOf
    MaxTokens = 20
    HeaderLines = 1
    FooterLines = 1
    LongRoot = 3
    LongOther = 2
    Requests <- MCRequests
    IdOf <- MCIdOf
    Edges <- MCEdges
    Cluster <- MCCluster
    Metrics <- MCMetrics
    Documented = {4}
    Packages <- MCPackages
    Paths <- MCPaths
    UpdatedAt <- MCUpdatedAt
    Matches <- MCMatches
    VectorOrders <- MCVectorOrders
    RerankScores <- MCRerankScores
    RrfSettings = {TRUE, FALSE}
    SynonymExpansion = TRUE
    AcronymExpansion = TRUE
    VectorLimit = 3
    Reranker = TRUE
    TrimKey = 30
    TrimRun = 11
    MaxSearches = 2
    Removed = {"auth"}
SPECIFICATION Spec
INVARIANTS
    TypeOK
    AnswersAreRanked
    FiltersHold
    ContextWithinBudget
PROPERTIES
    SelectionIsDiverse
