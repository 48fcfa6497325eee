CONSTANTS
    q1 = q1
    q2 = q2
    q3 = q3
    q4 = q4
    q5 = q5
    q6 = q6
    Rows = {q1, q2, q3, q4, q5, q6}
    Averages = {1, 2}
    CountThresholds <- OneQuery
    TimeThresholds <- OneTime
    FallbackFactor = 5
    FallbackDefault = 50
    FallbackCap = 100
SPECIFICATION Spec
SYMMETRY Symmetry
INVARIANTS
    UserQueryReported
