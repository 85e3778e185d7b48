CONSTANTS
    Runs = {r1, r2}
    NoRun = NoRun
    Commits = {c1}
    MaxTime = 2
    Projects = {"core58fgv", "project1"}
    Disturbances = {}
SPECIFICATION Spec
PROPERTIES NewerIsKept
SYMMETRY Symmetry
CHECK_DEADLOCK FALSE
