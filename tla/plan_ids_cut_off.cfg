CONSTANTS
    Modes = {FALSE}
    CountThresholds = {20}
    RowCounts = {0, 52, 53}
    BatchSize = 600
SPECIFICATION Spec
INVARIANTS
    PlansForAllIds
