CONSTANTS
    Key = {k1, k2, k3, k4, k5}
    Value = {v1, v2}
    HashCode = {7, 8}
    Free = Free
    NoCall = NoCall
    Failing = {"set"}
SYMMETRY Symmetry
SPECIFICATION Spec
INVARIANTS
    TypeOK
    FindsStored
PROPERTY
    ImplementsDictionary
