SPECIFICATION FairSpec
CONSTANTS
    Ids <- MCIds
    Agent <- MCAgent
    Parent <- MCParent
    Kind <- MCKind
    Rank <- MCRank
    Tree <- MCTree
    CorrectiveIds <- MCCorrectiveIds
    Touches <- MCTouches
    Reports <- MCReports
    Proposals <- SomeProposals
    NoId = "none"
    Globs = {}
    FileMatches = {}
    Extends = {}
    Row <- PipelineRow
    InitStores <- PipelineInit
    Outcomes <- SomeOutcomes
    PlannerIds = {}
    Files = {"f"}
    High = {}
    Filter = {"D"}
    Serialize = FALSE
    MaxCorrective = 2
    MaxWorkers = 1
    GitFails = {"Dtest"}
    MaxSubtasks = 1
    MaxRuns = 2
    MaxCycles = 4
    MaxOps = 0
    MaxCrashes = 1
INVARIANTS TypeOK OneOpenCorrective
PROPERTIES NoOrphanLease OnlyCorrectivesStall FollowupsExist RecoveryCompletes
