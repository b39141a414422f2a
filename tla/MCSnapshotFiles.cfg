CONSTANTS
    Page = {p, q}
    Value = {zero, x, y}
    Zero = zero
    Hole = hole
SPECIFICATION Spec
INVARIANTS TypeOK NextDiffBuilds 
 
CHECK_DEADLOCK FALSE
