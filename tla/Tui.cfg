\* Two beads in a tree, two filters, two changes by the scheduler, events in one or two pieces.
CONSTANTS
    Beads <- MCBeads
    Parent <- MCParent
    Developers = {1}
    FeatureRoot = 1
    Statuses <- MCStatuses
    FilterModes <- MCFilterModes
    Events <- MCEvents
    Quiet = {}
    HistoryLines = 1
    MaxChanges = 2
SPECIFICATION TuiSpec
INVARIANTS ConfirmsSelected LogFaithful
PROPERTIES WritesConfirmed
