\* Clients that repeat their parameters, or follow links without having any.
SPECIFICATION Spec
CONSTANTS
    N = 3
    PageSize = 2
    MaxQueryPages = 2
    DefaultLimit = 2
    MaxWrites = 2
    Traversals <- SoundTraversals
INVARIANTS
    TypeOK
    NoGaps
    NoRepetitions
    OnlyMatching
    MatchedIsRemaining
    CompleteUnlessCapped
PROPERTY Ends
CHECK_DEADLOCK FALSE
