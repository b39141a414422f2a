SPECIFICATION FairSpec
CONSTANTS
    w1 = w1
    w2 = w2
    n1 = n1
    n2 = n2
    None = None
    Worker = {w1}
    Node = {n1, n2}
    MaxVersion = 2
    MaxCall = 3
    MaxOp = 2
    MaxApiFail = 1
    MayDelete = TRUE
    Kinds = {"crash", "timeout", "upload", "reject", "full"}
    Budget <- MCBudget
INVARIANT NoVmAfterDelete
PROPERTIES ImplementsMachine DeleteCompletes EventuallyObserved NoStuckTransition Converges
CHECK_DEADLOCK FALSE
