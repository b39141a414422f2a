SPECIFICATION Spec
CONSTANTS
    w1 = w1
    w2 = w2
    n1 = n1
    n2 = n2
    None = None
    Worker = {w1, w2}
    Node = {n1, n2}
    MaxVersion = 1
    MaxCall = 3
    MaxOp = 0
    MaxApiFail = 0
    MayDelete = TRUE
    Kinds = {}
    Budget <- MCBudget
INVARIANT NoVmAfterDelete
CHECK_DEADLOCK FALSE
