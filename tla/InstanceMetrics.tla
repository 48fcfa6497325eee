---------------------------- MODULE InstanceMetrics ----------------------------
(***************************************************************************)
(* PopulateInstanceMetrics of src/src/metrics/metrics.go: the metrics of   *)
(* the instance entity.  The calling goroutine runs the instance queries   *)
(* one after the other into one metric set, then the wait statistics into  *)
(* one metric set per row, then the custom queries: the single one of the  *)
(* command line itself, those of a YAML file in one goroutine each, all at *)
(* once on the shared connection pool.                                     *)
(*                                                                         *)
(* For every row of a custom query a goroutine first puts a new metric set *)
(* into the entity and then fills it, so that between the two the entity   *)
(* holds a set that is still being written; the caller of                  *)
(* PopulateInstanceMetrics publishes the entity when it returns.           *)
(***************************************************************************)
EXTENDS CustomQueryRow, FiniteSets

CONSTANTS
    EngineEditions,             \* what GetEngineEdition may have reported
    EnableBufferMetrics,
    EnableDiskMetricsInBytes,
    InstanceAnswered,           \* the instance queries that yield a row
    MaxWaits,                   \* bound on the rows of the wait statistics
    YamlQueries,                \* the queries of --custom_metrics_config
    CommandLine,                \* the query of --custom_metrics_query
    Definition,                 \* per query its prefix, name and type
    ColumnLists,                \* per query the columns it may return
    Values,                     \* per column name the values it may have
    MaxRows                     \* bound on the rows of a custom query

ASSUME QueriesAssumption == IsFiniteSet(YamlQueries) /\ CommandLine \notin YamlQueries
ASSUME BoundsAssumption == MaxRows \in Nat /\ MaxWaits \in Nat
ASSUME SwitchesAssumption ==
    {EnableBufferMetrics, EnableDiskMetricsInBytes} \subseteq BOOLEAN

CustomQueries == YamlQueries \union {CommandLine}

\* rows.Columns() gives a list of names.
ASSUME ColumnsAssumption == \A q \in CustomQueries : ColumnLists[q] \subseteq Seq(STRING)

-----------------------------------------------------------------------------
(* The instance queries, each named after a metric it reports.             *)

AzureSQLDatabaseEngineEditionNumber == 5

instanceDefinitions ==
    <<"stats.connections", "system.bufferPoolHitPercent",
      "system.waitTimeInMillisecondsPerSecond", "instance.runningProcessesCount",
      "instance.runnableTasks", "activeConnections">>
instanceMemoryDefinitions == <<"memoryTotal">>
instanceBufferDefinitions == <<"bufferpool.sizeInBytes">>
diskMetricInBytesDefinition == <<"instance.diskInBytes">>

InstanceQueries ==
    {"stats.connections", "system.bufferPoolHitPercent",
     "system.waitTimeInMillisecondsPerSecond", "instance.runningProcessesCount",
     "instance.runnableTasks", "activeConnections", "memoryTotal",
     "bufferpool.sizeInBytes", "instance.diskInBytes"}

\* GetQueryDefinitions(MemoryQueries, ...): the managed instance has a table
\* of its own, with the same metrics.
MemoryDefinitions(edition) ==
    IF edition = AzureSQLDatabaseEngineEditionNumber THEN << >>
                                                     ELSE instanceMemoryDefinitions

collectionList(edition) ==
    instanceDefinitions \o MemoryDefinitions(edition)
      \o (IF EnableBufferMetrics THEN instanceBufferDefinitions ELSE << >>)
      \o (IF EnableDiskMetricsInBytes THEN diskMetricInBytesDefinition ELSE << >>)

\* The queries whose text names one of UnsupportedQueryPatterns: the memory
\* query sys.dm_os_process_memory, the disk query sys.master_files.
NameUnsupportedView == {"memoryTotal", "instance.diskInBytes"}

SkipQueryForEngineEdition(edition, query) ==
    edition = AzureSQLDatabaseEngineEditionNumber /\ query \in NameUnsupportedView

-----------------------------------------------------------------------------
VARIABLES
    engineEdition, \* as GetEngineEdition reported it
    source,        \* where the custom queries come from
    main,          \* where PopulateInstanceMetrics is
    pending,       \* instance queries still to be run
    asked,         \* history: those sent to the server
    sample,        \* those recorded in MssqlInstanceSample
    waits,         \* how many MssqlWaitSample sets the entity has
    unspawned,     \* YAML queries without a goroutine yet
    worker,        \* where populateCustomMetrics is, per custom query
    wg,            \* the wait group of the goroutines
    conns,         \* queries that hold a connection of the pool
    columns,       \* per query the columns of its result
    read,          \* per query how many rows it has scanned
    samples        \* the MssqlCustomQuerySample sets of the entity

instanceVars == <<pending, asked, sample, waits>>
customVars == <<worker, conns, columns, read, samples>>
vars == <<engineEdition, source, main, instanceVars, unspawned, wg, customVars>>

Sources == {"none", "query", "config"}
MainStates == {"queries", "waits", "custom", "single", "spawn", "join", "returned"}
WorkerStates == {"none", "query", "rows", "fill", "signal", "exited"}

TypeOK ==
    /\ engineEdition \in EngineEditions
    /\ source \in Sources
    /\ main \in MainStates
    /\ pending \in Seq(InstanceQueries)
    /\ asked \subseteq InstanceQueries
    /\ sample \subseteq asked
    /\ waits \in 0..MaxWaits
    /\ unspawned \subseteq YamlQueries
    /\ worker \in [CustomQueries -> WorkerStates]
    /\ wg \in Nat
    /\ conns \subseteq CustomQueries
    /\ DOMAIN columns = CustomQueries
    /\ read \in [CustomQueries -> 0..MaxRows]
    /\ \A s \in samples :
         /\ s.query \in CustomQueries
         /\ s.index \in 1..MaxRows
         /\ s.full \in BOOLEAN

\* Validate refuses a command line with both a query and a file.
Init ==
    /\ engineEdition \in EngineEditions
    /\ source \in Sources
    /\ main = "queries"
    /\ pending = collectionList(engineEdition)
    /\ asked = {}
    /\ sample = {}
    /\ waits = 0
    /\ unspawned = {}
    /\ worker = [q \in CustomQueries |-> "none"]
    /\ wg = 0
    /\ conns = {}
    /\ columns = [q \in CustomQueries |-> << >>]
    /\ read = [q \in CustomQueries |-> 0]
    /\ samples = {}

-----------------------------------------------------------------------------
(* PopulateInstanceMetrics: the instance queries and the wait statistics.  *)

SkipInstanceQuery ==
    /\ main = "queries"
    /\ pending # << >>
    /\ SkipQueryForEngineEdition(engineEdition, Head(pending))
    /\ pending' = Tail(pending)
    /\ UNCHANGED <<engineEdition, source, main, asked, sample, waits, unspawned, wg, customVars>>

\* A bug this code could have had: an error ends the loop.
ErrorEndsQueries ==
    /\ main = "queries"
    /\ pending # << >>
    /\ ~SkipQueryForEngineEdition(engineEdition, Head(pending))
    /\ asked' = asked \union {Head(pending)}
    /\ pending' \in {Tail(pending), << >>}
    /\ UNCHANGED <<engineEdition, source, main, sample, waits, unspawned, wg, customVars>>

\* The error is logged, or the result is empty, or MarshalMetrics refuses the
\* row: on to the next query.  Rows after the first are not looked at.
RunInstanceQuery ==
    /\ main = "queries"
    /\ pending # << >>
    /\ ~SkipQueryForEngineEdition(engineEdition, Head(pending))
    /\ asked' = asked \union {Head(pending)}
    /\ sample' \in {sample} \union
                   {sample \union {Head(pending)} : a \in {Head(pending)} \intersect InstanceAnswered}
    /\ pending' = Tail(pending)
    /\ UNCHANGED <<engineEdition, source, main, waits, unspawned, wg, customVars>>

InstanceQueriesDone ==
    /\ main = "queries"
    /\ pending = << >>
    /\ main' = "waits"
    /\ UNCHANGED <<engineEdition, source, instanceVars, unspawned, wg, customVars>>

\* populateWaitTimeMetrics; a failed query leaves no metric set.
PopulateWaitTimeMetrics ==
    /\ main = "waits"
    /\ waits' \in 0..MaxWaits
    /\ main' = "custom"
    /\ UNCHANGED <<engineEdition, source, pending, asked, sample, unspawned, wg, customVars>>

-----------------------------------------------------------------------------
(* PopulateInstanceMetrics: where the custom queries come from.            *)

NoCustomQueries ==
    /\ main = "custom"
    /\ source = "none"
    /\ main' = "returned"
    /\ UNCHANGED <<engineEdition, source, instanceVars, unspawned, wg, customVars>>

\* The query of the command line runs in the calling goroutine, which is
\* blocked in populateCustomMetrics meanwhile.
CallSingleQuery ==
    /\ main = "custom"
    /\ source = "query"
    /\ main' = "single"
    /\ worker' = [worker EXCEPT ![CommandLine] = "query"]
    /\ UNCHANGED <<engineEdition, source, instanceVars, unspawned, wg, conns, columns, read, samples>>

SingleQueryReturns ==
    /\ main = "single"
    /\ worker[CommandLine] = "signal"
    /\ worker' = [worker EXCEPT ![CommandLine] = "exited"]
    /\ main' = "returned"
    /\ UNCHANGED <<engineEdition, source, instanceVars, unspawned, wg, conns, columns, read, samples>>

\* parseCustomQueries; an unreadable or malformed file is logged and yields
\* no query.
ParseCustomQueries ==
    /\ main = "custom"
    /\ source = "config"
    /\ main' = "spawn"
    /\ unspawned' \in {YamlQueries, {}}
    /\ UNCHANGED <<engineEdition, source, instanceVars, wg, customVars>>

Spawn(q) ==
    /\ main = "spawn"
    /\ q \in unspawned
    /\ unspawned' = unspawned \ {q}
    /\ wg' = wg + 1
    /\ worker' = [worker EXCEPT ![q] = "query"]
    /\ UNCHANGED <<engineEdition, source, main, instanceVars, conns, columns, read, samples>>

AllSpawned ==
    /\ main = "spawn"
    /\ unspawned = {}
    /\ main' = "join"
    /\ UNCHANGED <<engineEdition, source, instanceVars, unspawned, wg, customVars>>

\* A bug this code could have had: no wg.Wait().
NotAwaited ==
    /\ main = "join"
    /\ main' = "returned"
    /\ UNCHANGED <<engineEdition, source, instanceVars, unspawned, wg, customVars>>

\* wg.Wait().
Join ==
    /\ main = "join"
    /\ wg = 0
    /\ main' = "returned"
    /\ UNCHANGED <<engineEdition, source, instanceVars, unspawned, wg, customVars>>

-----------------------------------------------------------------------------
(* populateCustomMetrics, for the query of the command line as for those   *)
(* of the file.                                                            *)

\* A bug this code could have had: no wg.Done() after an error.
FailureNotSignalled(q) ==
    /\ worker[q] = "query"
    /\ worker' = [worker EXCEPT ![q] = "exited"]
    /\ UNCHANGED <<engineEdition, source, main, instanceVars, unspawned, wg, conns, columns, read, samples>>

\* Queryx fails: no connection is to be had, or the statement is wrong.
QueryFails(q) ==
    /\ worker[q] = "query"
    /\ worker' = [worker EXCEPT ![q] = "signal"]
    /\ UNCHANGED <<engineEdition, source, main, instanceVars, unspawned, wg, conns, columns, read, samples>>

\* Queryx and Columns.  Columns fails only on closed rows, which these are not.
QuerySucceeds(q) ==
    /\ worker[q] = "query"
    /\ \E list \in ColumnLists[q] : columns' = [columns EXCEPT ![q] = list]
    /\ conns' = conns \union {q}
    /\ worker' = [worker EXCEPT ![q] = "rows"]
    /\ UNCHANGED <<engineEdition, source, main, instanceVars, unspawned, wg, read, samples>>

\* The rows a result with these columns may have.
RowsWith(list) ==
    {row \in [DOMAIN list -> UNION {Values[c] : c \in DOMAIN Values}] :
        \A i \in DOMAIN list : row[i] \in Values[list[i]]}

\* Next, Scan and NewMetricSet: the entity has the set from here on.
ScanRow(q) ==
    /\ worker[q] = "rows"
    /\ read[q] < MaxRows
    /\ read' = [read EXCEPT ![q] = @ + 1]
    /\ \E row \in RowsWith(columns[q]) :
         samples' = samples \union
            {[query |-> q, index |-> read[q] + 1, row |-> row, full |-> FALSE, metrics |-> {}]}
    /\ worker' = [worker EXCEPT ![q] = "fill"]
    /\ UNCHANGED <<engineEdition, source, main, instanceVars, unspawned, wg, conns, columns>>

\* A bug this code could have had: a return before the deferred rows.Close.
RowsLeftOpen(q) ==
    /\ worker[q] = "rows"
    /\ worker' = [worker EXCEPT ![q] = "signal"]
    /\ UNCHANGED <<engineEdition, source, main, instanceVars, unspawned, wg, conns, columns, read, samples>>

\* Scan fails: the rest of the result is given up, the deferred Close returns
\* the connection.
ScanFails(q) ==
    /\ worker[q] = "rows"
    /\ conns' = conns \ {q}
    /\ worker' = [worker EXCEPT ![q] = "signal"]
    /\ UNCHANGED <<engineEdition, source, main, instanceVars, unspawned, wg, columns, read, samples>>

\* SetMetric of the SDK takes a text for a number when it is one.
SetMetricAccepts(entry) == entry.type = "attribute" \/ entry.value \in Numbers

\* Convert the row and set its metrics; after an error the set stays as empty
\* as it was made.
FillSample(q) ==
    /\ worker[q] = "fill"
    /\ \E s \in samples :
         /\ s.query = q
         /\ ~s.full
         /\ samples' = (samples \ {s}) \union
                {[query |-> q, index |-> s.index, row |-> s.row, full |-> TRUE,
                  metrics |-> {e \in metricsFromCustomQueryRow(s.row, columns[q], Definition[q]) :
                                   SetMetricAccepts(e)}]}
    /\ worker' = [worker EXCEPT ![q] = "rows"]
    /\ UNCHANGED <<engineEdition, source, main, instanceVars, unspawned, wg, conns, columns, read>>

\* A bug this code could have had: a result that breaks off is asked for again.
RowsAskedAgain(q) ==
    /\ worker[q] = "rows"
    /\ conns' = conns \ {q}
    /\ worker' = [worker EXCEPT ![q] = "query"]
    /\ UNCHANGED <<engineEdition, source, main, instanceVars, unspawned, wg, columns, read, samples>>

\* Next reports the end or an error, which is logged; either way it closes the
\* rows.
RowsEnd(q) ==
    /\ worker[q] = "rows"
    /\ conns' = conns \ {q}
    /\ worker' = [worker EXCEPT ![q] = "signal"]
    /\ UNCHANGED <<engineEdition, source, main, instanceVars, unspawned, wg, columns, read, samples>>

\* wg.Done() of a goroutine.
Done(q) ==
    /\ q \in YamlQueries
    /\ worker[q] = "signal"
    /\ wg' = wg - 1
    /\ worker' = [worker EXCEPT ![q] = "exited"]
    /\ UNCHANGED <<engineEdition, source, main, instanceVars, unspawned, conns, columns, read, samples>>

-----------------------------------------------------------------------------
MainNext ==
    \/ SkipInstanceQuery \/ RunInstanceQuery \/ InstanceQueriesDone
    \/ PopulateWaitTimeMetrics
    \/ NoCustomQueries \/ CallSingleQuery \/ SingleQueryReturns
    \/ ParseCustomQueries \/ (\E q \in YamlQueries : Spawn(q)) \/ AllSpawned \/ Join

QueryNext(q) ==
    \/ QueryFails(q) \/ QuerySucceeds(q)
    \/ ScanRow(q) \/ ScanFails(q) \/ FillSample(q) \/ RowsEnd(q)
    \/ Done(q)

Finished == main = "returned" /\ UNCHANGED vars

Next == MainNext \/ (\E q \in CustomQueries : QueryNext(q)) \/ Finished

\* Every goroutine is scheduled; a statement and a fetch come back.
Spec ==
    /\ Init /\ [][Next]_vars
    /\ WF_vars(MainNext)
    /\ \A q \in CustomQueries : WF_vars(QueryNext(q))

-----------------------------------------------------------------------------
(* The inductive invariant.                                                *)

Live(q) == worker[q] \in {"query", "rows", "fill", "signal"}

\* The wait group counts the goroutines between their start and their Done.
WaitGroupInv == wg = Cardinality({q \in YamlQueries : Live(q)})

\* A connection is held from Queryx to the end of the rows.
PoolInv == conns = {q \in CustomQueries : worker[q] \in {"rows", "fill"}}

\* When the goroutines of the file, and the query of the command line, exist.
PhaseInv ==
    /\ main # "spawn" => unspawned = {}
    /\ \A q \in unspawned : worker[q] = "none"
    /\ main \in {"queries", "waits", "custom"} => \A q \in CustomQueries : worker[q] = "none"
    /\ main \in {"spawn", "join"} => source = "config" /\ worker[CommandLine] = "none"
    /\ main = "single" => Live(CommandLine) /\ \A q \in YamlQueries : worker[q] = "none"
    /\ main = "returned" => \A q \in CustomQueries : worker[q] \in {"none", "exited"}

\* A goroutine's metric sets are numbered by its rows; all are full but the
\* last one of a goroutine that is filling it.
SamplesInv ==
    /\ \A s \in samples : s.index <= read[s.query]
    /\ \A s, t \in samples : s.query = t.query /\ s.index = t.index => s = t
    /\ \A s \in samples :
         ~s.full => worker[s.query] = "fill" /\ s.index = read[s.query]

GoroutinesInv == TypeOK /\ WaitGroupInv /\ PoolInv /\ PhaseInv /\ SamplesInv

\* Beside it, for EverythingAsked: what was asked and what is still pending make
\* up what this edition supports, and the query of the command line is not
\* forgotten.
Supported(list) ==
    {q \in {list[i] : i \in DOMAIN list} : engineEdition = 5 => q \notin NameUnsupportedView}

AskedInv ==
    /\ asked \union Supported(pending) = Supported(collectionList(engineEdition))
    /\ main # "queries" => pending = << >>
    /\ main = "single" => source = "query"
    /\ main = "returned" /\ source = "query" => worker[CommandLine] = "exited"

\* For ConversionAsDescribed: the columns of a query are those its metric sets
\* were filled with, because it is asked only once.
FilledInv ==
    /\ \A q \in CustomQueries : columns[q] \in Seq(STRING)
    /\ \A s \in samples : worker[s.query] \notin {"none", "query"}
    /\ \A s \in samples : s.full =>
         s.metrics = {e \in metricsFromCustomQueryRow(s.row, columns[s.query], Definition[s.query]) :
                         SetMetricAccepts(e)}

IInv == GoroutinesInv /\ AskedInv /\ FilledInv

-----------------------------------------------------------------------------
(* Properties.                                                             *)

\* When PopulateInstanceMetrics returns, no goroutine is left, no metric set of
\* the entity is still being written and no connection of the pool is in use:
\* mssql.go publishes the entity and closes the pool right after.
JoinedBeforeReturn ==
    main = "returned" =>
        /\ \A q \in CustomQueries : ~Live(q)
        /\ \A s \in samples : s.full
        /\ conns = {}

\* Whatever fails on the way (a query of the instance, the wait statistics, an
\* unreadable file, a custom query, a row), everything else is asked for: the
\* instance queries this edition supports, and no other, and the custom query
\* of the command line.
EverythingAsked ==
    main = "returned" =>
        /\ asked = Supported(collectionList(engineEdition))
        /\ source = "query" => worker[CommandLine] = "exited"

\* The loop over the columns gives what the documentation describes, whatever
\* the order of the columns, repeated names, NULLs, and names that collide
\* with the one of the YAML file.
ConversionAsDescribed ==
    \A s \in samples : s.full =>
        s.metrics = {e \in Described(s.row, columns[s.query], Definition[s.query]) :
                        SetMetricAccepts(e)}

\* The call returns, whatever fails.
Termination == <>(main = "returned")

\* Seen from outside it is a collection of the rows of the custom queries: each
\* is submitted when its metric set is made and settled when that is full.
RowOf(s) == [query |-> s.query, index |-> s.index]

Collection == INSTANCE MetricCollection WITH
    Models <- [query : CustomQueries, index : 1..MaxRows],
    submitted <- {RowOf(s) : s \in samples},
    settled <- {RowOf(s) : s \in {t \in samples : t.full}},
    outcome <- IF main = "returned" THEN main ELSE "open"

\* The goroutines keep the promise of MetricCollection.
ImplementsCollection == Collection!Spec
=============================================================================
