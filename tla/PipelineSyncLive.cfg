CONSTANTS
    Specs = {s1, s2}
    NoSpec = NoSpec
    Disturbances = {"request", "recreate", "client", "bare"}
SPECIFICATION FairSpec
INVARIANTS TypeOK SettledJobFollowsSpec
PROPERTIES JobFollowsSpec DeletedPipelineGoes
CHECK_DEADLOCK FALSE
