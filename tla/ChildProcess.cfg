\* Two handles and a run over two pids, which are reused while others wait.
CONSTANTS
    Handle = {h1, h2}
    Runner = {r1}
    Pid = {p1, p2}
    NoOne = NoOne
    NoPid = NoPid
    NoRecord = NoRecord
    Number = {1}
SPECIFICATION FairSpec
INVARIANT AnswersTrue
INVARIANT ChildrenOwned
PROPERTY WaitsEnd
