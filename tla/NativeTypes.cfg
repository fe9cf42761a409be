CONSTANTS
    Error = {e1}
    NoError = NoError
    Type = {string, error}
    ErrorType = error
    AnyType = any
    Function = {main, f}
    Entry = main
    Length <- ShortEntry
    TraceSize = 17
    MaxFrames = 2
    MaxBlocks = 1
SPECIFICATION Spec
PROPERTY
    CatchTakesItsType
