\* A manager that finds tokens of an earlier session.
SPECIFICATION Spec
CONSTANTS
    Managers = {m1}
    Lifetime = 2
    Buffer = 1
    Delay = 1
    MaxTime = 6
    None = None
INVARIANT IdTokenIsValid
CHECK_DEADLOCK FALSE
