\* A DynamoDB call fails, or an invocation dies, between the two writes.
SPECIFICATION Spec
CONSTANTS
    Requests = {r1, r2}
    Levels = {"public"}
    DefaultLevel = "public"
    None = None
    Creators = {r1}
    Roles = {"editor"}
    Faults = {"failure"}
INVARIANT AllMutationsLogged
CHECK_DEADLOCK FALSE
