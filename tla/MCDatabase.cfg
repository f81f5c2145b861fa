SPECIFICATION Spec
CONSTANTS
    Databases = {d1, d2, d3}
    Conns = {c1, c2, c3}
    Paths = {p1, p2}
    Nodes = {n1, n2, n3}
    MaxSick = 1
    NULL = NULL
SYMMETRY Symmetry
INVARIANTS
    TypeOK
    Attached
    ConnectionsAccounted
CHECK_DEADLOCK FALSE
