SPECIFICATION Spec
CONSTANTS
    w1 = w1
    w2 = w2
    n1 = n1
    n2 = n2
    None = None
    Worker = {w1, w2}
    Node = {n1, n2}
    MaxVersion = 2
    MaxCall = 3
    MaxOp = 2
    MaxApiFail = 0
    MayDelete = FALSE
    Kinds = {"crash", "timeout", "upload"}
    Budget <- MCBudget
INVARIANTS TypeOK Fenced OneVm LatestRuns StoppedWhenSuspended
