CONSTANTS
    Runs = {p1, p2}
    NoRun = NoRun
    NoRef = {}
    Builds = {b1, b2}
    NoBuild = NoBuild
    DataStore = "configmap"
    Disturbances = {"skip", "removal"}
SPECIFICATION FairSpec
INVARIANTS TriggeredOnce OneRunPerBuild CompletedRunIsFinal
PROPERTIES EveryRunSettles DeletedRunGoes CompletedRunStays GivesUpForAnother
CHECK_DEADLOCK FALSE
