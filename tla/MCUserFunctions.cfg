SPECIFICATION Spec
CONSTANTS
    Databases = {d1, d2}
    Conns = {c1, c2}
    Stmts = {v1}
    Slots = {s1, s2, s3}
    Names <- Spellings
    Fold <- LowerCase
    Funcs = {unary, binary}
    Arity <- Lengths
    Builtins = {}
    Extensions <- TwoArguments
    NATIVE = NATIVE
    NULL = NULL
SYMMETRY Symmetry
INVARIANTS TypeOK SlotsOwned RegistryOwn
PROPERTY FunctionsUndisturbed
