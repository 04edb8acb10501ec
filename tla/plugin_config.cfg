CONSTANTS
    Processes = {p1, p2}
    Names = {prod, dev}
    Urls <- MCUrls
    Stripped <- MCStripped
    Collections = {wells}
    None = None
    Absent = Absent
    Empty = Empty
    Garbage = Garbage
    MaxEdits = 3

SYMMETRY Symmetry
SPECIFICATION Spec
INVARIANTS
    TypeOK
    DanglingWasMade
    SavedIsReloaded
PROPERTY LossHasCause
