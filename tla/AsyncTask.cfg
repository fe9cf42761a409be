\* One generated task and one foreign entry that may finish either, once or never.
CONSTANTS
    Task = {k1, k2}
    Main = Main
    Value = {v1}
    Unit = Unit
    Error = {e1}
    NoError = NoError
    NoTask = NoTask
    Foreign = {k2}
    MaxFinish = 1
SPECIFICATION FairSpec
INVARIANT TypeOK
INVARIANT CollectorGate
INVARIANT FieldsRaceFree
INVARIANT AwaitYieldsBody
PROPERTY ImplementsPromise
PROPERTY AwaitReturns
