CONSTANTS
    Unparsable = Unparsable
    ToLower <- LowerCase
    NoVersion = NoVersion
    ExistingFiles = {"queries.yml"}
    ArgumentLists <- CommandLines
    Servers <- SomeServers
    DatabaseNames = {"", "db"}
    DatabaseRows = {"dbrow1", "dbrow2"}
    InstanceRows = {"instancerow"}
    CountThresholds = {20}
    RowCounts = {0, 1}
    BatchSize = 600
SPECIFICATION Spec
INVARIANTS
    IInv
    ReportComplete
    MonitoringComesLast
    ConnectionsReleased
    SecuredAsAsked
    MonitoredOnlyWhenReady
PROPERTIES
    Termination
