CONSTANTS
    Object = {o1, o2}
    Main = Main
    Task = {k1, k2}
    Worker = {w1}
    Programs = {{k1, k2}, {w1}}
    Null = Null
SYMMETRY Symmetry
SPECIFICATION Spec
INVARIANTS
    TypeOK
    CollectsAlone
    NoDanglingCounted
    OneCollector
PROPERTIES
    FreesOnlyGarbage
    CollectsAllGarbage
    NothingLinkedMeanwhile
