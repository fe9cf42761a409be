CONSTANTS
    Error = {e1}
    Text = {text}
    Null = Null
    JumpsOutOfTry = FALSE
    MaxFrames = 3
    MaxBlocks = 4
    PointedAt = {1, 2}
SPECIFICATION Spec
INVARIANTS
    TypeOK
    HandlersAreOpenTries
PROPERTY ImplementsTryCatch
