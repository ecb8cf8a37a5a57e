SPECIFICATION FairSpec
CONSTANTS
    Ids <- MCIds
    Agent <- MCAgent
    Parent <- MCParent
    Kind <- MCKind
    Rank <- MCRank
    Tree <- MCTree
    CorrectiveIds <- MCCorrectiveIds
    Touches <- MCTouches
    Reports <- MCReports
    Proposals <- NoProposals
    NoId = "none"
    Globs = {}
    FileMatches = {}
    Extends = {}
    Row <- PipelineRow
    InitStores <- PipelineInit
    Outcomes <- VerdictOutcomes
    PlannerIds = {}
    Files = {"f"}
    High = {}
    Filter = {"D"}
    Serialize = FALSE
    MaxCorrective = 2
    MaxWorkers = 1
    GitFails = {}
    MaxSubtasks = 0
    MaxRuns = 1
    MaxCycles = 4
    MaxOps = 0
    MaxCrashes = 0

PROPERTY NothingStranded
