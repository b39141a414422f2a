SPECIFICATION Spec
CONSTANTS
    Sandbox = {s1, s2}
    Member = {m1, m2}
    Node = {n1, n2}
    Worker = {w1, w2}
    None = None
    Size = 2
    Capacity = 3
    PoolSize = 1
    Budget = 1
SYMMETRY Symmetry
INVARIANTS
    TypeOK
    SourceOnce
    Accounted
    Reserved
    
CHECK_DEADLOCK FALSE
