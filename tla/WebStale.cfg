\* One worker, which takes one request after the other.
CONSTANTS
    Worker = {w1}
    Main = Main
    Task = Task
    NoThread = NoThread
    Route = {s}
    StopRoute = {}
    Static = Static
    Unknown = Unknown
SPECIFICATION Spec
CHECK_DEADLOCK FALSE
INVARIANT RouteReached
