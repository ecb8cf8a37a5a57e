\* Two beads in a tree, two filters, events in one or two pieces.
CONSTANTS
    Beads <- MCBeads
    Parent <- MCParent
    Developers = {1}
    FeatureRoot = 0
    Statuses <- MCStatuses
    FilterModes <- MCFilterModes
    Events <- MCEvents
    Quiet = {}
    HistoryLines = 1
    MaxChanges = 0
SPECIFICATION TuiSpec
INVARIANTS WidgetShowsLog
