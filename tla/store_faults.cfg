\* Every fault of the environment.
SPECIFICATION Spec
CONSTANTS
    Requests = {r1, r2, r3, r4}
    Levels = {"public"}
    DefaultLevel = "public"
    None = None
    Creators = {r1}
    Roles = {"editor"}
    Faults = {"stale_read", "lost_answer"}
SYMMETRY RequestSymmetry
INVARIANTS
    TypeOK
    NoLostUpdate
    EditsKept
    LogTellsState
    LogInCommitOrder
PROPERTIES
    LogAppendOnly
    DeletedIsFrozen
    CommitsOnce
    ImplementsRegister
CHECK_DEADLOCK FALSE
