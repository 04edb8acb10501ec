\* The store the repository's tests run against: reads show the current item.
SPECIFICATION Spec
CONSTANTS
    Requests = {r1, r2, r3}
    Levels = {"public", "restricted"}
    DefaultLevel = "public"
    None = None
    Creators = {r1}
    Roles = {"viewer", "editor", "admin"}
    Faults = {"failure"}
PROPERTIES
    EditorsKeepVisibility
    RefusalsJustified
    CommittedIsLogged
    VersionAdvances
CHECK_DEADLOCK FALSE
