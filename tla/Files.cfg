SPECIFICATION MCSpec
CONSTANTS
    Clients = {p, q}
    Namespaces = {"x", "y"}
    Size <- MCSize
    Documents <- MCDocuments
    Notes <- MCNotes
    ChunkMaxChars = 4
    Distance <- MCDistance
    MaxDistance = 7
    DedupThreshold = 2
    OverFetch = 2
    MaxLimit = 2
    Thresholds = {1, 7}
    MaxEntries = 3
    MaxDeletes = 1
    Agents = {p, q}
    Names = {"x"}
    FolderOf <- MCFolderOf
    MaxSpecs = 2
    MaxKills = 1
    Operators = {p, q}
    Workers = {w}
    Plans <- MCPlans
    MaxBeads = 4
    MaxCommands = 2
    MaxBreaks = 1
SYMMETRY MCSymmetry
INVARIANTS IngestComplete SearchFinds SetStatusRepairs DependenciesExist
PROPERTIES PlanOrder
CHECK_DEADLOCK FALSE
