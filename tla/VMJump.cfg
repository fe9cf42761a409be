CONSTANTS
    Error = {e1, e2}
    Text = {text}
    Null = Null
    JumpsOutOfTry = TRUE
    MaxFrames = 3
    MaxBlocks = 2
    PointedAt = {}
SPECIFICATION Spec
INVARIANT HandlersAreOpenTries
