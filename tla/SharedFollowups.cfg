SPECIFICATION FairSpec
CONSTANTS
    Ids <- MCIds
    Agent <- MCAgent
    Parent <- MCParent
    Kind <- MCKind
    Rank <- MCRank
    Tree <- MCTree
    CorrectiveIds <- MCCorrectiveIds
    Touches <- SharedTouches
    Reports <- SharedReports
    Proposals <- NoProposals
    NoId = "none"
    Globs = {"src*", "src/a*"}
    FileMatches <- SrcFiles
    Extends <- SrcPrefixes
    Row <- SharedRow
    InitStores <- SharedInit
    Outcomes <- AllComplete
    PlannerIds = {"F"}
    Files = {"f1", "f2", "doc"}
    High = {}
    Filter = {"F"}
    Serialize = FALSE
    MaxCorrective = 2
    MaxWorkers = 2
    GitFails = {}
    MaxSubtasks = 0
    MaxRuns = 1
    MaxCycles = 4
    MaxOps = 0
    MaxCrashes = 0
INVARIANTS WorktreeExclusive ScopesDisjoint InProgressLeased
