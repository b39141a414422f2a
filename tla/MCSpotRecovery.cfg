SPECIFICATION FairSpec
CONSTANTS
    Sandbox = {a, b}
    Spot = {p, q}
    Standby = {d, e}
    Late = {e}
    Source = p
    Asked = {a}
    None = None
    Budget = 1
INVARIANTS TypeOK  
PROPERTIES NoRollback KeepsRecovered NoneLeftBetween
CHECK_DEADLOCK FALSE
