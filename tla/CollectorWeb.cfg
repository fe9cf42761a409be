CONSTANTS
    Object = {o1, o2}
    Main = Main
    Task = {}
    Worker = {w1}
    Programs = {{w1}}
    Null = Null
SYMMETRY Symmetry
SPECIFICATION Spec
INVARIANT
    NoDangling
