CONSTANTS
    Specs = {s1, s2, s3}
    NoSpec = NoSpec
    Disturbances = {"error", "lostReply", "crash", "metadata", "request", "recreate"}
SPECIFICATION Spec
INVARIANTS SettledJobFollowsSpec SettledPipelineIsGuarded GuardedJobGoes
PROPERTIES JobDeletedOnlyForDeleted FollowsJobProtocol
SYMMETRY Symmetry
CHECK_DEADLOCK FALSE
