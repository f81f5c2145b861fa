\* Three statements, two connections and nested calls of each.
SPECIFICATION Spec
CONSTANTS
    NVar = 1
    Hello = Hello
    World = World
    Texts = {Hello, World}
    Numbers = {1}
    NULL = NULL
    Bad = Bad
    Objs = {o1, o2, o3}
    Vdbes = {v1, v2, v3}
    Conns = {c1, c2}
    Blocks = {b1}
    Params <- FewParams
    Garbage = Garbage
    MaxDepth = 2
SYMMETRY SymmetricStatements
INVARIANTS
    TypeOK
    RegistryOwner
    ZombieDrains
    EachCleansUp
PROPERTIES
    CloseFinalises
CHECK_DEADLOCK FALSE
