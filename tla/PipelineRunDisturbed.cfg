CONSTANTS
    Runs = {p1, p2}
    NoRun = NoRun
    NoRef = {p2}
    Builds = {b1, b2}
    NoBuild = NoBuild
    DataStore = "annotations"
    Disturbances = {"edit", "error", "lag", "lostReply", "crash", "cancel", "discard", "elsewhere", "adopt"}
SPECIFICATION Spec
INVARIANTS TypeOK RunIdIsAccepted StartedRunHasFinalizer ReportedRunHasFinalizer
PROPERTIES HistoryGoesWithRun FollowsLifecycle
SYMMETRY Symmetry
CHECK_DEADLOCK FALSE
