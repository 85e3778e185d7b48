CONSTANTS
    Runs = {p1, p2, p3}
    UserRuns = {p1}
    NoRun = NoRun
    Builds = {b1}
    NoBuild = NoBuild
    Disturbances = {"user"}
SPECIFICATION FairSpec
PROPERTIES RequestIsServed
CHECK_DEADLOCK FALSE
