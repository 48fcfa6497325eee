# A TLA+ model of nri-mssql

`nri-mssql` is the New Relic integration for Microsoft SQL Server: a short-lived
Go process that an agent starts every 15 seconds or so. It connects, collects
inventory and metrics, publishes them as JSON on standard output and exits. This
directory holds TLA+ modules for the parts of it with behaviour of their own,
TLC configurations that check them on small instances, and proofs, checked by
TLAPS, of the properties that matter most. Paths below are relative to the
repository unless they start with `src/src`, in which case the first `src/` is
the checkout.

## 1. The system

| Component | Code | State it keeps | Operations | Interacts with |
|---|---|---|---|---|
| Lifecycle | `src/mssql.go` | the integration, the instance entity, one connection | phases in a fixed order, exit 1 on a failure of the first ones, publish | all below |
| Database metrics | `src/metrics/metrics.go` 344-526, `src/database/sql_database.go`, the definition tables | lookup name to metric set, model channel, semaphore channel, two wait groups | one processor per engine edition, workers, populator | SDK entities; one connection per Azure database |
| Instance metrics and custom queries | `src/metrics/metrics.go` 53-289 | metric sets of the instance entity | sequential queries; one goroutine per YAML custom query | the shared connection pool |
| Query monitoring | `src/queryanalysis` | query results, identifiers, batches | three analyses, execution plans, ingestion in batches, publication | its own connection; the SDK's integration |
| Slow query selection | `src/queryanalysis/utils` | min-heap, drained slice | threshold, heap, drain, system database filter | query monitoring (DMV mode) |
| Preconditions | `src/queryanalysis/validation` | none | version, compatibility, permission checks | query monitoring |
| Arguments, connection, instance entity, inventory | `src/args`, `src/connection`, `src/instance`, `src/inventory` | none | validation, connection strings, lookups | lifecycle |

What is hard here, and what makes each part right:

* **Database metrics** is the concurrent core. On Azure SQL Database the calling
  goroutine starts one worker per database; a channel with `max_concurrent_workers`
  slots bounds them, a wait group tells when the last one ended, and a bounded
  channel carries every result row ("model") to one populator goroutine, which
  a second wait group joins. Right means: workers never hold more connections than there may be workers;
  no send on the closed channel; nothing in flight when the function returns,
  because the caller then publishes the entities; every database gets its turn
  whatever fails; no deadlock between two bounded channels.
* **Query monitoring** is sequential, but fails in many places and goes on after
  most: results are ingested in batches, each batch publishes *everything* the
  integration holds, and a failed publication may leave its metric sets behind.
  Right means: no row twice, no gap before a published row, no pile of leftovers,
  all analyses run, limits respected.
* **Slow query selection** decides what is reported when the history is off. Right
  means: the slowest user queries, despite ties, system databases in the same
  pool and a count of 0 that means different things in different places.
* **Custom queries** of a YAML file run in one goroutine each, all on the shared
  connection pool. A metric set is put into the entity first and filled after, so
  the join is all that keeps `main` from publishing half of one. Right means:
  nothing left running, unfinished or open when the call returns; a row gives the
  metrics the documentation describes in whatever order its columns come;
  everything is asked for whatever fails.
* **Lifecycle** and **preconditions** are sequences of decisions with many ways out:
  `os.Exit` (no deferred call runs), a return, a panic in query monitoring. Right
  means: what is published is complete, later phases cost earlier ones nothing,
  pools are closed, and monitoring runs only where it may.
* **Arguments and connection** turn a command line into connection strings, in which
  user-supplied extra arguments stand beside those that ask for encryption.

The hazards, each with its line and the properties that would catch it going
wrong, are listed in `PROJECT.json`.

## 2. The modules

| Module | Models | How it corresponds to the code |
|---|---|---|
| `MetricCollection` | the promise of either collection to `main` | models are submitted and settled; the call returns only when all are settled; an error only before any exists |
| `DatabaseMetrics` | `PopulateDatabaseMetrics` and everything it starts | see below; refines `MetricCollection` |
| `InstanceMetrics` | `PopulateInstanceMetrics` and its goroutines | see below; refines `MetricCollection` |
| `CustomQueryRow` | `metricsFromCustomQueryRow` | the loop over the columns as a function, and a definition without a loop beside it |
| `QueryAnalysisConfig` | limits and `ValidateAndSetDefaults` | constants and two operators |
| `SlowQuerySelection` | heap, drain and walk of the DMV mode | one action per branch of the loops |
| `QueryMonitoring` | `PopulateQueryPerformanceMetrics`, execution plans, ingestion | one action per outcome of each call |
| `ConnectionSettings` | `Validate`, the connection strings, how the driver reads them | pure operators over argument lists |
| `Preconditions` | `ValidatePreConditions` and its checks | pure operators over servers |
| `Lifecycle` | `main` | composes `ConnectionSettings`, `Preconditions`, two instances of `MetricCollection` and one of `QueryMonitoring` |
| `MCDatabaseMetrics`, `MCInstanceMetrics`, `MCSlowQuerySelection`, `MCLifecycle` | instances for TLC | the values of the constants |
| `DatabaseMetricsProofs`, `DatabaseMetricsOrderProofs`, `CustomQueryRowProofs`, `InstanceMetricsProofs`, `SlowQuerySelectionProofs`, `QueryMonitoringProofs`, `LifecycleProofs` | theorems | one module per component; two for the database metrics, whose machinery and order of models are separate arguments |

**DatabaseMetrics.** `main` is the program counter of the calling goroutine,
`worker[d]` that of `processSingleAzureDB` for database `d`, `populator` that of
`dbMetricPopulator`. `dbChan` counts the tokens in the semaphore channel,
`waitGroup` is the counter `waitGroup.Wait()` blocks on (the populator's wait
group only ever counts one goroutine and is its program counter), `modelChan` is
the bounded channel. The three defers of a worker are three actions,
`CloseConnection`, `Release`, `Done`, in the order Go runs them; a failed
connection skips the first. The work of a producer is a script of queries
(`DefaultScript`, `AzureScript`) that translates the processors' control flow,
with the options as constants; `RunQuery` picks the rows the server returns,
`Send` is one iteration of `sendModelsToPopulator`, `DeriveAvailableMemory` the
end of `processMemoryDBDefinitions`. A model is a database and a metric. A
query that fails and one without rows send the same: nothing. Rows of
server-wide queries may name databases that are not in the lookup. Two
constants describe the outside: `Answered`, the metrics the server has rows for
(it keeps instances small; the theorems hold for any), and `MarshalFails`, the
models the SDK rejects. The managed instance and the standard editions differ
only in query texts and share the default processor.

**SlowQuerySelection.** `heap` is the set of rows in the heap; its array layout
only decides which of several equally fast rows is on top, so any of them may
be popped. Rows that cannot be scanned are never offered. Averages are naturals
that are only compared.

**QueryMonitoring.** Rows are counted; a batch is an event and a range. `payload`
is what the integration's entities hold, `published` what was written. The
publication is the SDK's: on success everything held is written and cleared, on
failure it is kept or lost. Between the two modules, the selection is summed up in
`SlowQueriesDMV`. The two panics of the code (a nil entity, a plan row without
text) end in the state `crashed`.

**InstanceMetrics.** `main` is the calling goroutine, `worker[q]` the call of
`populateCustomMetrics` for the custom query `q`: in a goroutine of its own for a
query of the YAML file, in the calling goroutine for the one of the command line.
`wg` is the wait group, `conns` the queries that hold a connection of the pool
(from `Queryx` to the end of their rows), `samples` the metric sets of the entity.
`ScanRow` makes a set and `FillSample` fills it: between the two it is visible and
empty. The instance queries are named after a metric each; what matters is which
are asked, and which are skipped on an Azure SQL Database because their text names
a view it does not have.

**CustomQueryRow.** Values are texts or NULL, of which matters whether they are empty
and whether they parse as numbers. `metricsFromCustomQueryRow` is the loop of the
code; `Described` says the same as `README.md` and the comment above the function
do, without a loop. That the rightmost column of a name wins, with a NULL too, is
said by neither; there `Described` follows the code.

**ConnectionSettings.** A string is a port, an instance and a sequence of parameters
under the names the code or the user gave them. The driver does not tell upper from
lower case in a name (the constant `ToLower`); a URL and the code do. Of the URL (SQL
and Windows authentication) the driver refuses one in which a name stands twice in the
same letters (`DriverAccepts`), then lowers the names; of two spellings of one
parameter, as with the extra argument `Encrypt=disable` beside the code's
`encrypt=true`, it keeps the one its map yields last, which is either (`Effective` is
the set of values it may take). Of the pairs of a service principal's list the last
counts in any spelling, which is why it matters that extra arguments are written
before the SSL settings. These facts about the driver are external to this
repository. So `SecuredAsAsked` is about a list with whatever extra arguments and
about a URL unless they respell an SSL setting (`Respelled`); section 3 says what
becomes of the URLs left out. The value receiver of
`Validate` is why an accepted argument list is used as given.

**Preconditions.** A server is a record of what the checks look at. Its databases come
in no particular order and their list may break off unnoticed, so a check may see
any part of it (`Listings`). `src/README.md` states the versions required, but not that the
user databases' compatibility level must be above 90; that bound is the code's alone.

**Lifecycle.** `main` is the phase, `exit` the exit code, `open` the connection pools
that are open, `report` what the first `Publish` wrote. The two collections are used
through their promise, not through their goroutines: `DatabaseMetrics` and
`InstanceMetrics` are shown to keep it. Query monitoring takes part with its own
actions, one instance of the whole module; `MonitoringConnect` and
`MonitoringValidate` add to its first two what connection strings and preconditions
allow. Inventory is two statements and the choice of the first by edition. A
panic unwinds `PopulateQueryPerformanceMetrics` and `main`, with their deferred
calls.

Definitions introduced as "a bug this code could have had" are not part of any
specification: they are the mistakes the properties are shown to detect
(`PROJECT.json`, `mutants`).

## 3. What TLC checks

| Run | Instance | Properties | Shows |
|---|---|---|---|
| `azure_workers` | 3 databases, 2 workers, buffer 1 per worker, memory readings | `IInv`, `WorkerConnectionBound`, `NoSendAfterClose`, `SettledBeforeReturn`, `HandledOnce`, `AvailableComesLast`, `Termination`, `EveryDatabaseVisited`, `ImplementsCollection` | semaphore, wait group and channels under every interleaving and every connection failure; nothing lost, handled twice or overtaken; progress; the refinement with its liveness |
| `server` | 2 databases, edition 8, channel of 2, all options on | `IInv`, `HandledOnce`, `SettledBeforeReturn`, `Termination`, `ImplementsCollection` | one producer, rows for unlisted databases, a full channel |
| `instance` | 2 YAML queries and one of the command line, 2 rows each, 7 column lists, editions 3 and 5 | `IInv`, `JoinedBeforeReturn`, `EverythingAsked`, `ConversionAsDescribed`, `Termination`, `ImplementsCollection` | goroutines on the shared pool; every failure; the conversion of a row; the refinement with its liveness |
| `selection` | 5 rows, 3 averages, counts -1, 0, 1, 2, pools of 2 and 3 | `IInv`, `HeapHoldsSlowest`, `ReportedAreSlowest`, `PoolExhausted` | the selection in every order of rows, with ties and system rows |
| `monitoring` | both modes, counts 0, 20 and 50 (cut to 30), row counts 0, 1, 53, 601, 1300 | `IInv`, `RowsIngestedOnce`, `PublishedWithoutGap`, `OneBatchHeldPerEvent`, `CountRespectedFromDMVs`, `PlansForAllIdsFromDMVs`, `Termination` | batches and failed publications; limits in DMV mode |
| `lifecycle` | 1169 command lines, 8 servers | `IInv`, `ReportComplete`, `MonitoringComesLast`, `ConnectionsReleased`, `SecuredAsAsked`, `MonitoredOnlyWhenReady`, `Termination` | whole runs: which phases a failure costs, what is published, what is left open, connection strings, preconditions |

Bounds. Three databases for two workers is the smallest instance where a worker
waits for a slot while others connect, hold a connection and release; the
channel of two slots fills up with the rows of two databases, one with the memory
readings and one with a row that is rejected. Properties relate at most two models.
Two YAML queries are the fewest that can be in different states of the shared pool and the wait
group; two rows the fewest for a bad one after a good one; the column lists hold each
special column alone, missing and in several places, a name twice and a name that
collides with the metric of the file. In the selection the real
factors (5, 50, 100) are constants and made small so that five rows
overflow the pool; the real ones are used in `user_query_reported`. The batch
size and limits of query monitoring are the real ones; row counts sit at and next to
the boundaries (none, one, one more than a batch, two full batches and a rest,
one identifier more than the SQL variable holds). In `lifecycle` the command lines
that only connect have every combination of host, port, instance, authentication,
SSL settings and extra arguments (none, an SSL setting as the code spells it, in other
letters and both, and unparsable ones); those that collect every combination of data types; those that
monitor both modes, with and without metrics. Servers differ from one that passes
in one respect each. Two rows of database metrics and one of instance metrics are
enough to leave one out. Symmetry is used for safety only.

Six runs show a disagreement between the code and what it says of itself:

| Run | Property | Disagreement |
|---|---|---|
| `panic_skips_analyses` | `AllAnalysesRun` | a failed `CreateInstanceEntity` is logged and the nil entity used: the process panics (`utils.go:478`; a NULL `sql_text`, `utils.go:398`, leads there too) |
| `count_ignored` | `CountRespected` | the historical slow query statement ignores the count threshold (`query_config.go:14`) |
| `plan_ids_cut_off` | `PlansForAllIds` | more than 52 identifiers are cut off (`query_config.go:472`) |
| `user_query_reported` | `UserQueryReported` | system queries at least as slow can fill the pool (`utils.go:320`) |
| `default_port` | `DefaultPortUsed` | with neither port nor instance a service principal's string asks for an empty port: the default is assigned to a copy (`argument_list.go:58`, `sql_connection.go:164`) |
| `on_premises_version` | `SupportedServersOnly` | the word "azure" in the name of the operating system makes an on-premises server count as Azure SQL (`sql_server_version.go:63`) |

Also found while modelling, each against a sentence of the repository:

* `argument_list.go:33` calls `max_concurrent_workers` the "Maximum number of
  simultaneous database connections to be used while collecting metrics". The workers
  alone may hold that many (`metrics.go:399`), which is what `WorkerConnectionBound`
  and its theorem say; the pool `main` opened before (`mssql.go:63`), which has
  answered the query for the database names, is closed only when `main` returns
  (`mssql.go:98`). On an Azure SQL Database the process therefore reaches one connection
  more than the maximum. The goroutines of the custom queries share `main`'s pool, on
  which no limit is set (`SetMaxOpenConns` is called nowhere), so they are not within
  it either.
* `argument_list.go:28` says of `EnableSSL`: "If true will use SSL encryption, false will
  not use encryption". With the extra argument `Encrypt=disable` the URL has both
  spellings of the parameter (`sql_connection.go:134` and `:143`) and the driver keeps
  either; `SecuredAsAsked` leaves these URLs out.
* `utils.go:361` says that execution plans are processed "for all collected
  queryIDs". A count threshold of 0, which elsewhere means no limit, asks the plan
  statement for `TOP (0)` plans (`utils.go:378`). The models have it (`PlanRows`), but
  `PlansForAllIds` is about the identifiers looked for, not about how many plans come
  back, and `CountRespectedFromDMVs` says nothing of a count of 0.

Without a sentence of the repository against them: `checkSQLServerLoginEnabled` can fail but
never say no; `main` leaves its pool open when the instance entity cannot be made,
as `os.Exit` follows.

### Fairness

`DatabaseMetrics` and `InstanceMetrics` assume weak fairness of each goroutine: Go's
scheduler is preemptive, and blocked sends, receives and waits proceed when they can.
They also assume that a query or a connection attempt comes back; the default timeout of
30 seconds (`src/args/argument_list.go:34`) provides that, the setting 0 does
not. No strong fairness is needed: `Dispatch` stays enabled once a slot is free, because
only the calling goroutine takes slots, and a worker blocked in `Send` competes
with others only for room the populator keeps making (each sends finitely many
models). `QueryMonitoring` is one goroutine and needs one weak fairness condition, and
so does `Lifecycle`, whose collections end because their modules show it.

## 4. What is proved

For every value of the constants, under the named assumptions of the modules (a
finite set of databases, a positive buffer size, any integer as worker setting; a
finite set of custom queries and rows whose columns are sequences of texts; a
positive batch size; extra arguments that are pairs of texts, and that the names the
code gives to parameters are lowered as written in `ToLowerAssumption`; a server
version that is a number or missing). Every invariant and every safety property of the passing runs
is a theorem. The invariants called `IInv` are the ones the runs check too, so TLC
has evaluated on small instances what the theorems say of all of them.

* `DatabaseMetricsProofs`. `MachineryInv` is inductive. None of the properties is
  inductive alone: `NoSendAfterClose` needs to know that the wait group counts
  exactly the workers between `Add` and `Done` (`PoolInv`) and in which phase of the
  caller there are any (`PhaseInv`); `WorkerConnectionBound` that the holders of a
  connection hold a token and that tokens are bounded; `SettledBeforeReturn`
  that every model sent is queued, in hand or settled (`FlowInv`). From it:
  `TypeCorrect`, `ConnectionsBounded`, `ClosedAfterProducers`,
  `SettledOnReturn`, and `CollectionSafety`, that initial states and steps map to
  those of `MetricCollection`.
* `DatabaseMetricsOrderProofs`. `IInv` adds where a model can be. A model is late for
  another one (`Late`) if it is the same, or a memory reading of the database whose
  derived metric the other is. `ScriptInv` says that nothing a producer has yet to
  query or send is late for anything already on its way, `QueueInv` that nothing in
  the channel is late for what stands before it, for what is in the populator's
  hand, or for what is settled, and that only models of databases in the lookup are
  recorded. The two have to be proved together, as a model passes from one to the
  other. From it: `EveryModelHandledOnce` (that the channel's length is the number
  of queued models needs them to be distinct) and `DerivedMetricComesLast`.
* `CustomQueryRowProofs`. `RowAsDescribed`: the loop of `metricsFromCustomQueryRow`
  and its description without a loop agree on rows of any length. It is an
  induction over the columns. The induction theorems of the library take an
  operator and cannot be used by the provers at hand, so the principle is proved
  here for sets (`SetInduction`: a set that has 0 and is closed under successor
  holds all natural numbers), from the pigeonhole theorem on finite sets.
* `InstanceMetricsProofs`. `GoroutinesInv` says that the wait group counts the live
  goroutines (`WaitGroupInv`), that those reading hold the connections (`PoolInv`),
  that a query not yet started has no goroutine (`PhaseInv`), and that an unfinished
  metric set is the last one of a goroutine that is filling it (`SamplesInv`). `Join`
  at zero then leaves no unfinished set: `NothingLeft`. `CollectionSafety` needs the
  same, and that a set is identified by its query and number. `IInv` adds that every
  supported statement is either asked already or still to come (`AskedInv`) and that
  a filled set is the conversion of its row with the columns of its query
  (`FilledInv`); from them
  `EverythingIsAsked` and, with `RowAsDescribed`, `RowsConvertedAsDescribed`.
* `SlowQuerySelectionProofs`. `SelectionInv` says that the pool, in the heap or already
  drained, dominates every slow row outside it, that the slice is sorted, and
  that the walk reported exactly the user queries of its prefix. From it:
  `HeapCorrect` and `SelectionCorrect`. `IInv` adds that no row is twice in the heap
  and the slice (`DistinctInv`) and that the pool is as large as it may be and the
  walk ends for one of its two reasons (`FullPoolInv`). `PoolIsExhausted` counts with
  it: the slice is no longer than the limit because its rows are distinct, so the
  limit never ends the walk early. `SelectionLimit` is the bridge to
  `QueryMonitoring`, which counts reported slow queries instead of selecting them.
* `QueryMonitoringProofs`. Neither property of the batches is inductive: that a new
  batch repeats no row and leaves none out needs that the current event
  is published or held up to the loop's position (`ProgressInv`), and that an event
  whose turn has not come has no batch (`TurnInv`). From `IInv`: `IngestedOnce`,
  `WithoutGap`, `LeftoversBounded`. A second invariant, `LimitsInv`, bounds what
  each analysis found; with it `CountIsRespected` and `NoIdCutOff`.
* `LifecycleProofs`. `PhasesInv` says what each phase has behind it. That the report is
  complete needs, before it is written, that a collection which has ended has settled
  all it submitted and that without metrics there was none (`CollectionInv`). From
  it: `CompleteReport`, `ComesLast`, `Released`. `ReadyInv` carries
  what the preconditions saw to every later step: `OnlyWhenReady`. `ConnectedInv`
  carries that the driver accepted the connection string. `SecureConnections` needs
  it: what stands at the end of a string counts if the string is a list or if nothing
  before it names the same parameter (`EndCounts`), and in an accepted URL nothing
  does unless the extra arguments respell a setting (`ExtraUnnamed`); and what
  `Validate` accepts has a certificate wherever one is checked. What is proved of
  `QueryMonitoring` by itself holds in a whole run, `RunIngestsOnce` and
  `RunRespectsCount`: main takes only steps of it that its module has (a lemma,
  `MonitoringAsSpecified`, which holds by the way `Lifecycle` is put together), and
  the lemmas of `QueryMonitoringProofs` apply under `INSTANCE`.

Only model-checked: liveness (`Termination`, `EveryDatabaseVisited`, and the liveness
half of both refinements), since fairness and ENABLED are beyond the prover.

## 5. What is not modelled

* Texts: of queries and messages, anonymisation, field lists, hexadecimal scanning,
  user names and passwords in connection strings. They are data no property tells
  apart.
* The values of metrics, `RATE` and `DELTA` included: the SDK keeps the earlier value
  of a rate in a store of its own.
* The SDK's and the driver's internals. Adding a metric set to an entity is
  one step, as the SDK locks the entity. The driver resets a session
  before the pool gives it out again, so that the `USE` of a custom query stays with
  it: which database a connection is in is not represented, nor an extra argument
  that names one.
* A result that breaks off without `rows.Err()` being asked is not told apart from a
  short one: the models have result sets of every length, so the behaviours are
  there, but a property would need the server's data.
* A NULL in the wait statistics would be dereferenced; the view of the server yields
  none. `Columns` fails only on closed rows and cannot fail where it is called.
* A timeout of 0, with which a statement may never come back.
* The alternatives of the selection that nothing calls
  (`FilterSlowQueriesByThreshold`, partial sort, quick select), and the FIPS build.
