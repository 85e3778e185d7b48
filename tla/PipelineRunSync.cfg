CONSTANTS
    Runs = {p1, p2, p3}
    UserRuns = {p1}
    NoRun = NoRun
    Builds = {b1}
    NoBuild = NoBuild
    Disturbances = {"user", "delete", "scm", "webhook", "discard", "lag", "touch", "error", "crash"}
SPECIFICATION FairSpec
INVARIANTS TypeOK PendingRunIsKept
PROPERTIES RequestedIsShown RunsFollowBuilds
CHECK_DEADLOCK FALSE
