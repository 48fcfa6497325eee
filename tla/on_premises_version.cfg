CONSTANTS
    Unparsable = Unparsable
    ToLower <- LowerCase
    NoVersion = NoVersion
    ExistingFiles = {"queries.yml"}
    ArgumentLists <- QueryStoreLine
    Servers <- OnAzureEdition
    DatabaseNames = {"", "db"}
    DatabaseRows = {"dbrow1", "dbrow2"}
    InstanceRows = {"instancerow"}
    CountThresholds = {20}
    RowCounts = {0, 1}
    BatchSize = 600
SPECIFICATION Spec
INVARIANTS
    SupportedServersOnly
