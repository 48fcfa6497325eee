CONSTANTS
    q1 = q1
    q2 = q2
    q3 = q3
    q4 = q4
    q5 = q5
    Rows = {q1, q2, q3, q4, q5}
    Averages = {0, 1, 2}
    CountThresholds <- Counts
    TimeThresholds <- Times
    FallbackFactor = 2
    FallbackDefault = 2
    FallbackCap = 3
SPECIFICATION Spec
SYMMETRY Symmetry
INVARIANTS
    IInv
    HeapHoldsSlowest
    ReportedAreSlowest
    PoolExhausted
