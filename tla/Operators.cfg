SPECIFICATION FairSpec
CONSTANTS
    Ids <- MCIds
    Agent <- MCAgent
    Parent <- MCParent
    Kind <- MCKind
    Rank <- MCRank
    Tree <- MCTree
    CorrectiveIds <- MCCorrectiveIds
    Touches <- MCTouches
    Reports <- MCReports
    Proposals <- NoProposals
    NoId = "none"
    Globs = {}
    FileMatches = {}
    Extends = {}
    Row <- SerializedRow
    InitStores <- SerializedInit
    Outcomes <- AllComplete
    PlannerIds = {"F"}
    Files = {"f", "f1", "doc"}
    High = {}
    Filter = {"F"}
    Serialize = TRUE
    MaxCorrective = 1
    MaxWorkers = 2
    GitFails = {}
    MaxSubtasks = 0
    MaxRuns = 1
    MaxCycles = 3
    MaxOps = 2
    MaxCrashes = 0
INVARIANTS SerializedExclusive
PROPERTIES RunEnds
