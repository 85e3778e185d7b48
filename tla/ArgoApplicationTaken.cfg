CONSTANTS
    Apps = {a1, a2}
    NoApp = NoApp
    Specs = {s1}
    NoSpec = NoSpec
    Own = Own
    Generated = {g1, g2}
    NoName = NoName
    Disturbances = {"cascade"}
SPECIFICATION Spec
PROPERTY TouchesOwnOnly
CHECK_DEADLOCK FALSE
