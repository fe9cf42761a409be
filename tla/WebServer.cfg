\* Two workers and a route whose handler may stop the server.
CONSTANTS
    Worker = {w1, w2}
    Main = Main
    Task = Task
    NoThread = NoThread
    Route = {s}
    StopRoute = {s}
    Static = Static
    Unknown = Unknown
SPECIFICATION FairSpec
\* The process ends with Main.
CHECK_DEADLOCK FALSE
INVARIANTS
    TypeOK
    RouteAnswered
    EveryRequestAnswered
    PendingOnlyAfterLoss
    LibraryHeld
PROPERTIES
    StopEndsWait
    RequestsEnd
