CONSTANTS
    Runs = {r1, r2}
    NoRun = NoRun
    Commits = {c1, c2}
    MaxTime = 2
    Projects = {"core58fgv", "project1"}
    Disturbances = {"push", "error", "crash", "skip", "delete"}
SPECIFICATION Spec
INVARIANTS TypeOK RestShowsCurrent
SYMMETRY Symmetry
CHECK_DEADLOCK FALSE
