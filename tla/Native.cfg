CONSTANTS
    Error = {e1, e2}
    NoError = NoError
    Type = {string, error}
    ErrorType = error
    AnyType = any
    Function = {main, f}
    Entry = main
    Length <- ShortEntry
    TraceSize = 17
    MaxFrames = 3
    MaxBlocks = 2
SYMMETRY Symmetry
SPECIFICATION Spec
INVARIANTS
    TypeOK
    NoStaleException
    TraceIsPath
    LastTraceIsPath
    CausesEnd
PROPERTY
    InnermostTryHandles
