\* Two QGIS processes that share a profile.
SPECIFICATION Spec
CONSTANTS
    Managers = {m1, m2}
    Lifetime = 2
    Buffer = 1
    Delay = 1
    MaxTime = 6
    None = None
INVARIANTS
    TypeOK
    RefreshedIsValid
PROPERTIES
    SessionSurvives
    CallsEnd
CHECK_DEADLOCK FALSE
