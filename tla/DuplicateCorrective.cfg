SPECIFICATION FairSpec
CONSTANTS
    Ids <- MCIds
    Agent <- MCAgent
    Parent <- MCParent
    Kind <- MCKind
    Rank <- MCRank
    Tree <- MCTree
    CorrectiveIds <- MCCorrectiveIds
    Touches <- MCTouches
    Reports <- MCReports
    Proposals <- NoProposals
    NoId = "none"
    Globs = {}
    FileMatches = {}
    Extends = {}
    Row <- BusyPipelineRow
    InitStores <- BusyPipelineInit
    Outcomes <- VerdictOutcomes
    PlannerIds = {}
    Files = {"f"}
    High = {"I2"}
    Filter = {"D", "I1", "I2"}
    Serialize = FALSE
    MaxCorrective = 2
    MaxWorkers = 2
    GitFails = {}
    MaxSubtasks = 0
    MaxRuns = 1
    MaxCycles = 4
    MaxOps = 0
    MaxCrashes = 0
INVARIANT OneOpenCorrective
