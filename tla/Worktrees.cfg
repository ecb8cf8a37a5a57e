SPECIFICATION MCSpec
CONSTANTS
    Mergers = {"takt merge"}
    FeatureWork = {"a", "fs"}
    MainWork = {"m", "n", "ms"}
    Fixes = {"fix"}
    LateWork = {"t"}
    MaxOpen = 1
    StateChanges = {"fs", "ms"}
    Clash <- MCClash
    Breaks <- MCBreaks
    MaxAttempts = 2
    MaxMerges = 4
    MaxKills = 1
    Beads = {b1, b2}
    NewFiles = {b1}
    State = state
    MaxRuns = 2
    MaxAgentKills = 1
INVARIANTS ConflictBeadCap WorkIsCommitted WorktreeReady CostIsTotal
PROPERTIES CleanForResolver LandsWhatWasTested PreflightFindsConflicts BlockedUntilResolved HalfDoneStays
