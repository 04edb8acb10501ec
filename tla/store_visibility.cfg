\* Eventually consistent reads, no other fault.
SPECIFICATION Spec
CONSTANTS
    Requests = {r1, r2, r3}
    Levels = {"public", "restricted"}
    DefaultLevel = "public"
    None = None
    Creators = {r1}
    Roles = {"editor", "admin"}
    Faults = {"stale_read"}
PROPERTY EditorsKeepVisibility
CHECK_DEADLOCK FALSE
