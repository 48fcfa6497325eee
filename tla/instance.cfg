CONSTANTS
    y1 = y1
    y2 = y2
    CommandLine = CommandLine
    Null = Null
    YamlQueries = {y1, y2}
    EngineEditions = {3, 5}
    EnableBufferMetrics = TRUE
    EnableDiskMetricsInBytes = TRUE
    InstanceAnswered <- AnsweringQueries
    MaxWaits = 1
    MaxRows = 2
    Definition <- Definitions
    ColumnLists <- Results
    Values <- ColumnValues
    Numbers <- TextsOfNumbers
    SourceTypes <- TypeNames
SPECIFICATION Spec
INVARIANTS
    IInv
    JoinedBeforeReturn
    EverythingAsked
    ConversionAsDescribed
PROPERTIES
    Termination
    ImplementsCollection
