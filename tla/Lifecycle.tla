------------------------------- MODULE Lifecycle -------------------------------
(***************************************************************************)
(* main of src/src/mssql.go: one run of the integration, composed of its   *)
(* phases.  The collections of the databases and of the instance are two   *)
(* instances of MetricCollection, which DatabaseMetrics and                *)
(* InstanceMetrics implement; query monitoring is an instance of           *)
(* QueryMonitoring, which starts if main got that far and if the           *)
(* preconditions hold for the server at hand.                              *)
(*                                                                         *)
(* The process ends in three ways: with os.Exit, which runs no deferred    *)
(* call, by returning from main, or with a panic, which runs them.         *)
(***************************************************************************)
EXTENDS ConnectionSettings, Preconditions, FiniteSets

CONSTANTS
    ArgumentLists,      \* the command lines
    Servers,            \* the servers they may be used against
    DatabaseNames,      \* what a connection may be asked for, "" for none
    DatabaseRows,       \* the result rows of the database metrics
    InstanceRows,       \* those of the instance metrics
    CountThresholds, RowCounts, BatchSize

ASSUME ArgumentsAssumption ==
    /\ DatabaseNames \subseteq STRING
    /\ \A line \in ArgumentLists :
         /\ line.CertificateLocation \in STRING
         /\ ExtraParameters(line) \in Seq(STRING \X STRING)

\* Versions and levels are compared as numbers.
ASSUME ServersAssumption ==
    \A machine \in Servers : machine.major \in Nat \union {NoVersion}

\* What QueryMonitoring assumes.
ASSUME MonitoringAssumption ==
    CountThresholds \subseteq Int /\ RowCounts \subseteq Nat /\ BatchSize \in Nat \ {0}

VARIABLES
    al,             \* the argument list
    server,
    main,           \* where main is
    exit,           \* the exit code, once there is one
    open,           \* the connection pools that are open
    engineEdition,  \* as GetEngineEdition reported it
    inventory,      \* the inventory statements sent
    report,         \* history: what the first Publish wrote
    dSubmitted, dSettled, dOutcome,     \* PopulateDatabaseMetrics
    iSubmitted, iSettled, iOutcome,     \* PopulateInstanceMetrics
    listed,         \* the user databases the preconditions looked at
    dmvOnly, count, pc, analysis, results, ids, searched, ingesting, total, start,
    payload, published                  \* PopulateQueryPerformanceMetrics

databaseVars == <<dSubmitted, dSettled, dOutcome>>
instanceVars == <<iSubmitted, iSettled, iOutcome>>
monitoringVars == <<dmvOnly, count, pc, analysis, results, ids, searched, ingesting,
                    total, start, payload, published>>
given == <<al, server>>
collected == <<engineEdition, inventory, databaseVars, instanceVars>>
vars == <<given, main, exit, open, report, collected, listed, monitoringVars>>

Databases == INSTANCE MetricCollection WITH
    Models <- DatabaseRows, submitted <- dSubmitted, settled <- dSettled, outcome <- dOutcome

Instance == INSTANCE MetricCollection WITH
    Models <- InstanceRows, submitted <- iSubmitted, settled <- iSettled, outcome <- iOutcome

Monitoring == INSTANCE QueryMonitoring WITH Modes <- BOOLEAN

Running == "running"
instanceEntity == "instance entity"

Init ==
    /\ al \in ArgumentLists
    /\ server \in Servers
    /\ main = "arguments"
    /\ exit = Running
    /\ open = {}
    /\ engineEdition = 0
    /\ inventory = {}
    /\ report = {}
    /\ Databases!Init
    /\ Instance!Init
    /\ listed = {}
    /\ Monitoring!Init
    /\ dmvOnly = al.QueryMonitoringDisableHistoricalInformation

-----------------------------------------------------------------------------
(* From the command line to the connection.                                *)

Goto(phase) == main' = phase /\ exit' = exit

\* os.Exit.
Exit(code) == main' = "exited" /\ exit' = code

\* integration.New refuses the command line.
BadCommandLine ==
    /\ main = "arguments"
    /\ Exit("failure")
    /\ UNCHANGED <<given, open, report, collected, listed, monitoringVars>>

ShowVersion ==
    /\ main = "arguments"
    /\ al.ShowVersion
    /\ Exit("success")
    /\ UNCHANGED <<given, open, report, collected, listed, monitoringVars>>

ValidateArguments ==
    /\ main = "arguments"
    /\ ~al.ShowVersion
    /\ IF Validate(al) THEN Goto("connect") ELSE Exit("failure")
    /\ UNCHANGED <<given, open, report, collected, listed, monitoringVars>>

ConnectFails ==
    /\ main = "connect"
    /\ Exit("failure")
    /\ UNCHANGED <<given, open, report, collected, listed, monitoringVars>>

Connect ==
    /\ main = "connect"
    /\ DriverAccepts(ConnectionString(al, ""))
    /\ open' = open \union {"main"}
    /\ Goto("entity")
    /\ UNCHANGED <<given, report, collected, listed, monitoringVars>>

\* CreateInstanceEntity: the query or the entity fails, or there is not one row.
EntityFails ==
    /\ main = "entity"
    /\ Exit("failure")
    /\ UNCHANGED <<given, open, report, collected, listed, monitoringVars>>

CreateInstanceEntity ==
    /\ main = "entity"
    /\ Goto("edition")
    /\ UNCHANGED <<given, open, report, collected, listed, monitoringVars>>

\* A failure and an empty answer leave the edition unknown.
GetEngineEdition ==
    /\ main = "edition"
    /\ engineEdition' \in {0, server.edition}
    /\ Goto("inventory")
    /\ UNCHANGED <<given, open, report, inventory, databaseVars, instanceVars, listed, monitoringVars>>

-----------------------------------------------------------------------------
(* PopulateInventory: two statements, the second whatever became of the    *)
(* first.                                                                  *)

SPConfigStatement(edition) ==
    IF edition = 5 THEN "value_in_use of sys.configurations" ELSE "EXEC sp_configure"

NoInventory ==
    /\ main = "inventory"
    /\ ~HasInventory(al)
    /\ Goto("databases")
    /\ UNCHANGED <<given, open, report, collected, listed, monitoringVars>>

PopulateSPConfigItems ==
    /\ main = "inventory"
    /\ HasInventory(al)
    /\ inventory' = inventory \union {SPConfigStatement(engineEdition)}
    /\ Goto("sysconfig")
    /\ UNCHANGED <<given, open, report, engineEdition, databaseVars, instanceVars, listed, monitoringVars>>

PopulateSysConfigItems ==
    /\ main = "sysconfig"
    /\ inventory' = inventory \union {"value of sys.configurations"}
    /\ Goto("databases")
    /\ UNCHANGED <<given, open, report, engineEdition, databaseVars, instanceVars, listed, monitoringVars>>

-----------------------------------------------------------------------------
(* PopulateDatabaseMetrics and PopulateInstanceMetrics.                    *)

NoMetrics ==
    /\ main = "databases"
    /\ ~HasMetrics(al)
    /\ Goto("publish")
    /\ UNCHANGED <<given, open, report, collected, listed, monitoringVars>>

CollectDatabases ==
    /\ main = "databases"
    /\ HasMetrics(al)
    /\ Databases!Next
    /\ UNCHANGED <<given, main, exit, open, report, engineEdition, inventory, instanceVars, listed, monitoringVars>>

\* A bug this code could have had: an error of PopulateDatabaseMetrics skips
\* the instance metrics.
ErrorSkipsInstance ==
    /\ main = "databases"
    /\ dOutcome # "open"
    /\ IF dOutcome = "error" THEN Goto("publish") ELSE Goto("instance")
    /\ UNCHANGED <<given, open, report, collected, listed, monitoringVars>>

\* An error is logged.
DatabasesCollected ==
    /\ main = "databases"
    /\ dOutcome # "open"
    /\ Goto("instance")
    /\ UNCHANGED <<given, open, report, collected, listed, monitoringVars>>

\* PopulateInstanceMetrics returns no error.
CollectInstance ==
    /\ main = "instance"
    /\ Instance!Next
    /\ iOutcome' # "error"
    /\ UNCHANGED <<given, main, exit, open, report, engineEdition, inventory, databaseVars, listed, monitoringVars>>

\* A bug this code could have had: the instance metrics collected in a
\* goroutine that nobody waits for.
InstanceNotAwaited ==
    /\ main = "instance"
    /\ Goto("publish")
    /\ UNCHANGED <<given, open, report, collected, listed, monitoringVars>>

InstanceCollected ==
    /\ main = "instance"
    /\ iOutcome # "open"
    /\ Goto("publish")
    /\ UNCHANGED <<given, open, report, collected, listed, monitoringVars>>

-----------------------------------------------------------------------------
(* Publish and query monitoring.                                           *)

Publish ==
    /\ main = "publish"
    /\ report' = inventory \union dSettled \union iSettled \union {instanceEntity}
    /\ IF al.EnableQueryMonitoring THEN Goto("monitoring") ELSE Goto("return")
    /\ UNCHANGED <<given, open, collected, listed, monitoringVars>>

\* A bug this code could have had: the error of Publish is only logged.
PublishErrorLogged ==
    /\ main = "publish"
    /\ IF al.EnableQueryMonitoring THEN Goto("monitoring") ELSE Goto("return")
    /\ UNCHANGED <<given, open, report, collected, listed, monitoringVars>>

PublishFails ==
    /\ main = "publish"
    /\ Goto("return")
    /\ UNCHANGED <<given, open, report, collected, listed, monitoringVars>>

\* NewConnection, with the same arguments as before.
MonitoringConnect ==
    /\ main = "monitoring"
    /\ Monitoring!Connect
    /\ pc' = "validate" => DriverAccepts(ConnectionString(al, ""))
    /\ open' = IF pc' = "validate" THEN open \union {"monitoring"} ELSE open
    /\ UNCHANGED <<given, main, exit, report, collected, listed>>

\* ValidatePreConditions and the loading of the queries, which may fail too.
MonitoringValidate ==
    /\ main = "monitoring"
    /\ Monitoring!Validate
    /\ listed' \in Listings(server)
    /\ pc' = "execute" => ValidatePreConditions(server, dmvOnly, listed')
    /\ UNCHANGED <<given, main, exit, open, report, collected>>

\* The analyses.
Monitor ==
    /\ main = "monitoring"
    /\ pc \notin {"connect", "validate"}
    /\ Monitoring!Step
    /\ UNCHANGED <<given, main, exit, open, report, collected, listed>>

\* A bug this code could have had: the connection is not closed when the
\* preconditions do not hold.
ClosedOnSuccessOnly ==
    /\ main = "monitoring"
    /\ pc \in {"rejected", "done"}
    /\ open' = IF pc = "done" THEN open \ {"monitoring"} ELSE open
    /\ Goto("return")
    /\ UNCHANGED <<given, report, collected, listed, monitoringVars>>

\* A bug this code could have had: a monitoring that could not start is tried
\* again.
MonitoringRetried ==
    /\ main = "monitoring"
    /\ pc \in {"rejected", "done"}
    /\ open' = open \ {"monitoring"}
    /\ IF pc = "done"
       THEN Goto("return") /\ UNCHANGED monitoringVars
       ELSE pc' = "connect" /\ UNCHANGED <<main, exit, dmvOnly, count, analysis, results, ids,
                                           searched, ingesting, total, start, payload, published>>
    /\ UNCHANGED <<given, report, collected, listed>>

\* The deferred sqlConnection.Close, if the connection was made.
MonitoringReturns ==
    /\ main = "monitoring"
    /\ pc \in {"rejected", "done"}
    /\ open' = open \ {"monitoring"}
    /\ Goto("return")
    /\ UNCHANGED <<given, report, collected, listed, monitoringVars>>

\* The panic unwinds both functions.
MonitoringPanics ==
    /\ main = "monitoring"
    /\ pc = "crashed"
    /\ open' = open \ {"monitoring", "main"}
    /\ Exit("panic")
    /\ UNCHANGED <<given, report, collected, listed, monitoringVars>>

\* The deferred con.Close.
Return ==
    /\ main = "return"
    /\ open' = open \ {"main"}
    /\ Exit("success")
    /\ UNCHANGED <<given, report, collected, listed, monitoringVars>>

-----------------------------------------------------------------------------
Step ==
    \/ BadCommandLine \/ ShowVersion \/ ValidateArguments
    \/ ConnectFails \/ Connect \/ EntityFails \/ CreateInstanceEntity \/ GetEngineEdition
    \/ NoInventory \/ PopulateSPConfigItems \/ PopulateSysConfigItems
    \/ NoMetrics \/ CollectDatabases \/ DatabasesCollected
    \/ CollectInstance \/ InstanceCollected
    \/ Publish \/ PublishFails
    \/ MonitoringConnect \/ MonitoringValidate \/ Monitor
    \/ MonitoringReturns \/ MonitoringPanics \/ Return

Finished == main = "exited" /\ UNCHANGED vars

Next == Step \/ Finished

\* One goroutine as far as main is concerned; every statement comes back and
\* the collections end, as their modules show.
Spec == Init /\ [][Next]_vars /\ WF_vars(Step)

-----------------------------------------------------------------------------
(* The inductive invariant.                                                *)

Phases == {"arguments", "connect", "entity", "edition", "inventory", "sysconfig", "databases",
           "instance", "publish", "monitoring", "return", "exited"}

TypeOK ==
    /\ al \in ArgumentLists
    /\ server \in Servers
    /\ main \in Phases
    /\ exit \in {Running, "success", "failure", "panic"}
    /\ open \subseteq {"main", "monitoring"}
    /\ engineEdition \in {0, server.edition}
    /\ Databases!TypeOK
    /\ Instance!TypeOK
    /\ iOutcome # "error"

\* What each phase has behind it.
Statements == {SPConfigStatement(engineEdition), "value of sys.configurations"}

InventoryInv ==
    /\ main \in {"arguments", "connect", "entity", "edition", "inventory"} => inventory = {}
    /\ main = "sysconfig" => inventory = {SPConfigStatement(engineEdition)} /\ HasInventory(al)
    /\ main \in {"databases", "instance", "publish"} =>
          inventory = IF HasInventory(al) THEN Statements ELSE {}

CollectionInv ==
    /\ dOutcome # "open" => dSettled = dSubmitted
    /\ iOutcome # "open" => iSettled = iSubmitted
    /\ main \in {"arguments", "connect", "entity", "edition", "inventory", "sysconfig"} =>
          Databases!Init
    /\ main \in {"arguments", "connect", "entity", "edition", "inventory", "sysconfig", "databases"} =>
          Instance!Init
    /\ main = "databases" /\ ~HasMetrics(al) => Databases!Init
    /\ main = "instance" => HasMetrics(al) /\ dOutcome # "open"
    /\ main = "publish" =>
          IF HasMetrics(al) THEN dOutcome # "open" /\ iOutcome # "open"
                            ELSE dSubmitted = {} /\ iSubmitted = {}

\* The connection pools each phase has.
OpenInv ==
    /\ main \in {"arguments", "connect"} => open = {}
    /\ main \in Phases \ {"arguments", "connect", "monitoring", "exited"} => open = {"main"}
    /\ main = "monitoring" => open = {"main"} \/ open = {"main", "monitoring"}
    /\ main = "exited" =>
         \/ open = {}
         \/ /\ exit = "failure"
            /\ open = {"main"}
            /\ inventory = {} /\ dSubmitted = {} /\ iSubmitted = {}
    /\ main \notin {"arguments", "exited"} => Validate(al)
    /\ open # {} => Validate(al)

\* Monitoring begins with the first report.
ReportInv ==
    /\ main \in Phases \ {"monitoring", "return", "exited"} => report = {}
    /\ main = "monitoring" => report # {}
    /\ exit = "panic" => report # {}
    /\ report = {} => pc = "connect" /\ payload = {} /\ published = {}
    /\ report # {} =>
         /\ report = {instanceEntity} \union inventory \union dSubmitted \union iSubmitted
         /\ HasMetrics(al) => dOutcome # "open" /\ iOutcome = "returned"
         /\ HasInventory(al) => inventory = Statements

PhasesInv == TypeOK /\ InventoryInv /\ CollectionInv /\ OpenInv /\ ReportInv

\* Once the preconditions held, what they looked at stays what the run is about.
ReadyInv ==
    pc \notin {"connect", "validate", "rejected"} =>
        /\ listed \in Listings(server)
        /\ ValidatePreConditions(server, dmvOnly, listed)

\* A run with a pool open has a connection string the driver accepts.
ConnectedInv == open # {} => DriverAccepts(ConnectionString(al, ""))

IInv == PhasesInv /\ ReadyInv /\ ConnectedInv

-----------------------------------------------------------------------------
(* Properties.                                                             *)

\* What the first Publish writes is everything: no row submitted by either
\* collection is missing from it or still to be recorded, both inventory
\* statements were sent, and an error of the database metrics does not cost
\* the instance metrics, nor one failed inventory statement the other.
ReportComplete ==
    report # {} =>
        /\ report = {instanceEntity} \union inventory \union dSubmitted \union iSubmitted
        /\ HasMetrics(al) => dOutcome # "open" /\ iOutcome = "returned"
        /\ HasInventory(al) => Cardinality(inventory) = 2

\* Query monitoring can fail, or panic, at no cost to the rest of the run: it
\* only starts when inventory and metrics have been published, and so does a
\* batch never carry metric sets that main could not publish.
MonitoringComesLast ==
    pc # "connect" \/ payload # {} \/ published # {} \/ exit = "panic" => report # {}

\* Every way out releases the connection pools it opened, but for os.Exit,
\* which runs no deferred call; main is left with a pool of its own only
\* before anything was collected.
ConnectionsReleased ==
    /\ main = "exited" =>
         \/ open = {}
         \/ /\ exit = "failure"
            /\ open = {"main"}
            /\ inventory = {} /\ dSubmitted = {} /\ iSubmitted = {}
    /\ "monitoring" \in open => "main" \in open /\ main = "monitoring"

\* Each connection string of a run that has connected is as secure as the
\* command line says, although the certificate was checked for long before:
\* a service principal's list whatever the extra arguments, a URL unless they
\* respell one of its SSL settings.
SecuredAsAsked ==
    open # {} /\ (Respelled(al) => isAzureADServicePrincipalAuth(al)) =>
        \A name \in DatabaseNames : Secured(al, name)

\* The analyses run only with the permissions they need, on versions README.md
\* names, and on user databases above the level of validation_check.go:9, as far
\* as the server listed them; a server accepted with its history is accepted
\* without.
MonitoredOnlyWhenReady ==
    main = "monitoring" /\ pc \notin {"connect", "validate", "rejected"} =>
        /\ checkPermissions(server)
        /\ checkSQLServerVersion(server, TRUE)
        /\ server.azure = server.mentionsAzure => SupportedVersion(server, dmvOnly)
        /\ listed = UserDatabases(server) => UserDatabasesCompatible(server)

\* README.md:83 says of the default mode "Requires: SQL Server 2017+ or Azure
\* SQL 12+", README.md:89 the like of the other.
SupportedServersOnly ==
    main = "monitoring" /\ pc \notin {"connect", "validate", "rejected"} =>
        SupportedVersion(server, dmvOnly)

\* mssql-config.yml.sample:8 and :61: "Both port and instance can be omitted
\* to use a default port of 1433".
DefaultPortUsed == main = "connect" => \A name \in DatabaseNames : DefaultPort(al, name)

\* The process ends.
Termination == <>(main = "exited")
=============================================================================
