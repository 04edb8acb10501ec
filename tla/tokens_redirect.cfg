\* A browser that brings back what was asked for.
SPECIFICATION Spec
CONSTANTS
    Managers = {m1}
    Lifetime = 2
    Buffer = 1
    Delay = 1
    MaxTime = 6
    None = None
INVARIANT RedirectIsCaptured
CHECK_DEADLOCK FALSE
