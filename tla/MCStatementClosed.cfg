\* Two statements: close() and the memory it promises to free.
SPECIFICATION Spec
CONSTANTS
    NVar = 1
    Hello = Hello
    World = World
    Texts = {Hello, World}
    Numbers = {1}
    NULL = NULL
    Bad = Bad
    Objs = {o1, o2}
    Vdbes = {v1, v2}
    Conns = {c1, c2}
    Blocks = {b1}
    Params <- FewParams
    Garbage = Garbage
    MaxDepth = 2
SYMMETRY SymmetricStatements
INVARIANTS
    ClosedIsFreed
CHECK_DEADLOCK FALSE
