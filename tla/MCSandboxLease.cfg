SPECIFICATION FairSpec
CONSTANTS
    o1 = o1
    o2 = o2
    o3 = o3
    Op = {o1, o2, o3}
    None = None
    Ttl = 6
    Interval = 1
    Latency = 1
    MaxFail = 1
    MaxSkew = 1
    Offset <- MCOffset
INVARIANTS TypeOK ExclusiveUntilStall 
PROPERTIES  NoInterference EventuallyServed
CHECK_DEADLOCK FALSE
