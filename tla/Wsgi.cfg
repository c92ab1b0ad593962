SPECIFICATION FairSpec
CONSTANTS
    None = None
    MaxParts = 2
    MaxCalls = 2
    MaxChunks = 3
    MaxLength = 3
    MaxCancels = 2
CHECK_DEADLOCK FALSE
INVARIANTS
    TypeOK
    LengthKept
    BodyKeptOpen
PROPERTIES
    ImplementsResponse
    EveryRequestEnds
