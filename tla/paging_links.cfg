\* A client that follows the next links of a filtered request.
SPECIFICATION Spec
CONSTANTS
    N = 3
    PageSize = 2
    MaxQueryPages = 3
    DefaultLimit = 2
    MaxWrites = 0
    Traversals <- FilteredLinks
INVARIANT OnlyMatching
CHECK_DEADLOCK FALSE
