\* Two registrars, two projects, one fleet command, one viewer; two
\* releases of the assets.
CONSTANTS
    Paths = {p1, p2}
    Names = {n1, n2}
    Registrars = {c1, c2}
    Runs = {1}
    MaxParallel = 1
    MaxRegisters = 2
    MaxInterrupts = 2
    MaxKills = 1
    Projects = {q1, q2}
    MaxEvents = 3
    Guardrails = {"guardrail"}
    Templates = {"template"}
    Managed = {"skill"}
    Config = "config"
    Shipped <- MCShipped
    MaxSuffix = 2
    MaxEdits = 1
    MaxCrashes = 1
SPECIFICATION MCSpec
INVARIANTS TailFaithful UniquePaths ViewerFaithful FinishedMeansQuiet
PROPERTIES RecordFinishes TrackedEditsKept UpToDate
CHECK_DEADLOCK FALSE
