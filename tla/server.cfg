CONSTANTS
    d1 = d1
    d2 = d2
    Main = Main
    Databases = {d1, d2}
    EngineEdition = 8
    MaxConcurrentWorkers = 1
    ResultsBufferSizePerWorker = 2
    EnableBufferMetrics = TRUE
    EnableDatabaseReserveMetrics = TRUE
    EnableDiskMetricsInBytes = TRUE
    Answered <- ServerAnswers
    MarshalFails <- RejectedModels
SPECIFICATION Spec
INVARIANTS
    IInv
    HandledOnce
    SettledBeforeReturn
PROPERTIES
    Termination
    ImplementsCollection
