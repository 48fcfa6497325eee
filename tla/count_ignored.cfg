CONSTANTS
    Modes = {FALSE}
    CountThresholds = {20}
    RowCounts = {0, 20, 21}
    BatchSize = 600
SPECIFICATION Spec
INVARIANTS
    CountRespected
