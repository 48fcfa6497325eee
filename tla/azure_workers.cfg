CONSTANTS
    d1 = d1
    d2 = d2
    d3 = d3
    Main = Main
    Databases = {d1, d2, d3}
    EngineEdition = 5
    MaxConcurrentWorkers = 2
    ResultsBufferSizePerWorker = 1
    EnableBufferMetrics = FALSE
    EnableDatabaseReserveMetrics = FALSE
    EnableDiskMetricsInBytes = FALSE
    Answered <- WorkersAnswer
    MarshalFails <- RejectedModels
SPECIFICATION Spec
INVARIANTS
    IInv
    WorkerConnectionBound
    NoSendAfterClose
    SettledBeforeReturn
    HandledOnce
    AvailableComesLast
PROPERTIES
    Termination
    EveryDatabaseVisited
    ImplementsCollection
