CONSTANTS
    Modes = {FALSE}
    CountThresholds = {20}
    RowCounts = {0, 1}
    BatchSize = 600
SPECIFICATION Spec
INVARIANTS
    AllAnalysesRun
