CONSTANTS
    p1 = p1
    w1 = w1
    w2 = w2
    Package = {p1}
    Price = {1, 2}
    Traffic <- MCTraffic
    Worker = {w1, w2}
    MaxRevision = 2
    MaxCursor = 3
    PageSize = 2
    NoPackage = NoPackage
    NoRows = NoRows
SPECIFICATION Spec
SYMMETRY WorkerSymmetry
INVARIANTS StaleSalesResolve SettingsFollowWhatWasSeen
PROPERTIES CopyMovesOn
CHECK_DEADLOCK FALSE
