CONSTANTS
    Apps = {a1, a2}
    NoApp = NoApp
    Specs = {s1}
    NoSpec = NoSpec
    Own = Own
    Generated = {g1, g2}
    NoName = NoName
    Disturbances = {"error", "lag", "crash", "cascade"}
SPECIFICATION Spec
INVARIANTS TypeOK
PROPERTIES LabelIsOwn CounterpartGoesFirst CascadeIsPassedOn
SYMMETRY Symmetry
CHECK_DEADLOCK FALSE
