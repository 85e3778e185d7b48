CONSTANTS
    Apps = {a1}
    NoApp = NoApp
    Specs = {s1, s2}
    NoSpec = NoSpec
    Own = Own
    Generated = {g1, g2}
    NoName = NoName
    Disturbances = {"cascade", "client"}
SPECIFICATION FairSpec
PROPERTIES SpecIsDeployed DeletedApplicationGoes
CHECK_DEADLOCK FALSE
