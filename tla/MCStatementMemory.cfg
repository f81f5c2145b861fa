\* Two statements of one connection that share a heap of three blocks.
SPECIFICATION Spec
CONSTANTS
    NVar = 2
    Hello = Hello
    World = World
    Texts = {Hello, World}
    Numbers = {1}
    NULL = NULL
    Bad = Bad
    Objs = {o1, o2}
    Vdbes = {v1, v2}
    Conns = {c1}
    Blocks = {b1, b2, b3}
    Params <- AllParams
    Garbage = Garbage
    MaxDepth = 0
SYMMETRY Symmetry
INVARIANTS
    BindingsOwned
    HeapAccounted
PROPERTIES
    ImplementsPreparedStatements
CHECK_DEADLOCK FALSE
