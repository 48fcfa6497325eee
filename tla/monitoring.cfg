CONSTANTS
    Modes = {TRUE, FALSE}
    CountThresholds = {0, 20, 50}
    RowCounts = {0, 1, 53, 601, 1300}
    BatchSize = 600
SPECIFICATION Spec
INVARIANTS
    IInv
    RowsIngestedOnce
    PublishedWithoutGap
    OneBatchHeldPerEvent
    CountRespectedFromDMVs
    PlansForAllIdsFromDMVs
PROPERTIES
    Termination
