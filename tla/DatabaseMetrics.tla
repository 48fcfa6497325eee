--------------------------- MODULE DatabaseMetrics ---------------------------
(***************************************************************************)
(* PopulateDatabaseMetrics of src/src/metrics/metrics.go: the per-database *)
(* metrics of one run of the integration.  Producers query the server and  *)
(* send every result row ("model") down one bounded channel; a single      *)
(* populator goroutine takes the models off it and writes them to the      *)
(* metric set of their database.                                           *)
(*                                                                         *)
(* On SQL Server and on a managed instance the only producer is the        *)
(* calling goroutine, Main, over the instance's connection.  On Azure SQL  *)
(* Database Main starts one worker goroutine per database, each with a     *)
(* connection of its own, and a second channel (dbChan) used as a          *)
(* semaphore keeps at most MaxWorkers of them alive.                       *)
(*                                                                         *)
(* A model is its database and its metric; the value is left out.  A query *)
(* that fails and a query that returns no row look the same from here: no  *)
(* model is sent (makeDBQuery logs the error and returns).  Answered bounds *)
(* what the server has to say: no other row is ever returned.              *)
(***************************************************************************)
EXTENDS Integers, Sequences, FiniteSets

CONSTANTS
    Databases,                    \* every database name a query may return
    Main,                         \* the goroutine of PopulateDatabaseMetrics
    EngineEdition,                \* as GetEngineEdition reported it
    MaxConcurrentWorkers,         \* --max_concurrent_workers, any integer
    ResultsBufferSizePerWorker,   \* resultsBufferSizePerWorker, 5 in the code
    EnableBufferMetrics,
    EnableDatabaseReserveMetrics,
    EnableDiskMetricsInBytes,
    Answered,                     \* the models this server has rows for
    MarshalFails                  \* the models MarshalMetrics rejects

ASSUME DatabasesAssumption == IsFiniteSet(Databases) /\ Main \notin Databases
ASSUME EditionAssumption == EngineEdition \in Nat
ASSUME WorkersAssumption == MaxConcurrentWorkers \in Int
ASSUME BufferAssumption == ResultsBufferSizePerWorker \in Nat \ {0}
ASSUME ArgumentsAssumption ==
    {EnableBufferMetrics, EnableDatabaseReserveMetrics, EnableDiskMetricsInBytes}
        \subseteq BOOLEAN

AzureSQLDatabaseEngineEditionNumber == 5

DefaultMaxConcurrentWorkers == 10

\* GetMaxConcurrentWorkers: zero and negative settings mean the default.
MaxWorkers ==
    IF MaxConcurrentWorkers > 0 THEN MaxConcurrentWorkers
                                ELSE DefaultMaxConcurrentWorkers

ChannelCapacity == MaxWorkers * ResultsBufferSizePerWorker

\* processorFunctionSet.Select: a managed instance is processed as a server.
OnAzureSQLDatabase == EngineEdition = AzureSQLDatabaseEngineEditionNumber

Producers == Databases \union {Main}

-----------------------------------------------------------------------------
(* The query definition tables, by the metric each definition reports.     *)

databaseDefinitions == <<"log.transactionGrowth", "io.stallInMilliseconds">>
databaseBufferDefinitions == <<"bufferpool.sizePerDatabaseInBytes">>
specificDatabaseDefinitions == <<"pageFile">>
databaseDiskDefinitions == <<"maxDiskSizeInBytes">>
memoryDefinitions == <<"memoryUtilization", "memoryTotal", "memoryAvailable">>

MemoryInputs == {"memoryUtilization", "memoryTotal"}

Metrics ==
    {"log.transactionGrowth", "io.stallInMilliseconds",
     "bufferpool.sizePerDatabaseInBytes", "pageFile", "maxDiskSizeInBytes",
     "memoryUtilization", "memoryTotal", "memoryAvailable"}

Models == [db : Databases, metric : Metrics]

\* A query to run: the metric it reports and the databases its rows may name.
Queries == [metric : Metrics, scope : SUBSET Databases]

QueriesOver(definitions, scope) ==
    [i \in DOMAIN definitions |-> [metric |-> definitions[i], scope |-> scope]]

If(enabled, queries) == IF enabled THEN queries ELSE << >>

Orderings(S) ==
    {f \in [1..Cardinality(S) -> S] : \A i, j \in DOMAIN f : f[i] = f[j] => i = j}

\* processSpecificDBDefinitions: one query per database, USE "<name>" first.
SpecificQueries(dbNames) ==
    [i \in DOMAIN dbNames |->
        [metric |-> specificDatabaseDefinitions[1], scope |-> {dbNames[i]}]]

\* processDefaultDBMetrics: server-wide queries whose rows may name any
\* database, the unlisted ones included (the buffer query unions in 32767,
\* the resource database).
DefaultScript(dbNames) ==
    QueriesOver(databaseDefinitions, Databases)
      \o If(EnableBufferMetrics, QueriesOver(databaseBufferDefinitions, Databases))
      \o If(EnableDatabaseReserveMetrics, SpecificQueries(dbNames))

\* processSingleAzureDB after it connected: every query is about DB_NAME().
AzureScript(d) ==
    QueriesOver(databaseDefinitions \o memoryDefinitions, {d})
      \o If(EnableDiskMetricsInBytes, QueriesOver(databaseDiskDefinitions, {d}))
      \o If(EnableBufferMetrics, QueriesOver(databaseBufferDefinitions, {d}))
      \o If(EnableDatabaseReserveMetrics, QueriesOver(specificDatabaseDefinitions, {d}))

-----------------------------------------------------------------------------
VARIABLES
    main,          \* where Main is
    lookup,        \* the databases with an entity and a metric set
    undispatched,  \* those whose worker is not started yet
    worker,        \* where each database's worker is
    waitGroup,     \* the counter Main waits on before it closes modelChan
    dbChan,        \* tokens in the semaphore channel
    conns,         \* databases a worker holds a connection to
    pending,       \* per producer, the queries it still has to run
    readings,      \* per producer, the memory inputs it read a value for
    outbox,        \* per producer, rows of the last query not sent yet
    modelChan,     \* the bounded channel of models
    closed,        \* modelChan was closed
    populator,     \* where the populator goroutine is
    inHand,        \* the model the populator received and has not dealt with
    sent,          \* history: models ever put on modelChan
    recorded,      \* models written to the metric set of their database
    dropped        \* history: models the populator gave up on

mainVars == <<main, lookup, undispatched>>
poolVars == <<worker, waitGroup, dbChan, conns>>
producerVars == <<pending, readings, outbox>>
channelVars == <<modelChan, closed, sent>>
populatorVars == <<populator, inHand, recorded, dropped>>
vars == <<mainVars, poolVars, producerVars, channelVars, populatorVars>>

MainStates == {"create", "dispatch", "produce", "close", "join", "returned", "error"}
WorkerStates == {"none", "connect", "produce", "closing", "release", "signal", "exited"}

TypeOK ==
    /\ main \in MainStates
    /\ lookup \subseteq Databases
    /\ undispatched \subseteq lookup
    /\ worker \in [Databases -> WorkerStates]
    /\ waitGroup \in Nat
    /\ dbChan \in 0..MaxWorkers
    /\ conns \subseteq Databases
    /\ pending \in [Producers -> Seq(Queries)]
    /\ readings \in [Producers -> SUBSET MemoryInputs]
    /\ outbox \in [Producers -> SUBSET Models]
    /\ modelChan \in Seq(Models)
    /\ Len(modelChan) <= ChannelCapacity
    /\ closed \in BOOLEAN
    /\ populator \in {"idle", "running", "done"}
    /\ inHand \subseteq Models
    /\ sent \subseteq Models
    /\ recorded \subseteq Models
    /\ dropped \subseteq Models

Init ==
    /\ main = "create"
    /\ lookup = {}
    /\ undispatched = {}
    /\ worker = [d \in Databases |-> "none"]
    /\ waitGroup = 0
    /\ dbChan = 0
    /\ conns = {}
    /\ pending = [p \in Producers |-> << >>]
    /\ readings = [p \in Producers |-> {}]
    /\ outbox = [p \in Producers |-> {}]
    /\ modelChan = << >>
    /\ closed = FALSE
    /\ populator = "idle"
    /\ inHand = {}
    /\ sent = {}
    /\ recorded = {}
    /\ dropped = {}

-----------------------------------------------------------------------------
(* Bugs this code could have had: variants of the actions below, one       *)
(* mistake each, that the properties must tell from the real ones.  No     *)
(* action uses them.                                                       *)

\* The loop ends without waitGroup.Wait().
WaitForWorkersSkipped ==
    /\ main = "dispatch"
    /\ undispatched = {}
    /\ main' = "close"
    /\ UNCHANGED <<lookup, undispatched, poolVars, producerVars, channelVars, populatorVars>>

\* The loop gives up before the last name.
LastNamesNotDispatched ==
    /\ main = "dispatch"
    /\ waitGroup = 0
    /\ main' = "close"
    /\ UNCHANGED <<lookup, undispatched, poolVars, producerVars, channelVars, populatorVars>>

\* No close(modelChan).
ModelChanLeftOpen ==
    /\ main = "close"
    /\ main' = "join"
    /\ UNCHANGED <<lookup, undispatched, poolVars, producerVars, channelVars, populatorVars>>

\* No wg.Wait() after close(modelChan).
PopulatorNotAwaited ==
    /\ main = "join"
    /\ main' = "returned"
    /\ UNCHANGED <<lookup, undispatched, poolVars, producerVars, channelVars, populatorVars>>

\* The early return on a connection error precedes the deferred release.
TokenKept(d) ==
    /\ worker[d] = "connect"
    /\ worker' = [worker EXCEPT ![d] = "signal"]
    /\ UNCHANGED <<mainVars, waitGroup, dbChan, conns, producerVars, channelVars, populatorVars>>

\* No defer con.Close().
ConnectionLeaked(d) ==
    /\ worker[d] = "produce"
    /\ pending[d] = << >>
    /\ outbox[d] = {}
    /\ worker' = [worker EXCEPT ![d] = "release"]
    /\ UNCHANGED <<mainVars, waitGroup, dbChan, conns, producerVars, channelVars, populatorVars>>

\* The error path gives the token back although a defer does.
TokenReturnedTwice(d) ==
    /\ worker[d] = "connect"
    /\ dbChan' = dbChan - 1
    /\ worker' = [worker EXCEPT ![d] = "release"]
    /\ UNCHANGED <<mainVars, waitGroup, conns, producerVars, channelVars, populatorVars>>

\* Last in, first out.
ReceiveNewest ==
    /\ populator = "running"
    /\ inHand = {}
    /\ modelChan # << >>
    /\ inHand' = {modelChan[Len(modelChan)]}
    /\ modelChan' = SubSeq(modelChan, 1, Len(modelChan) - 1)
    /\ UNCHANGED <<mainVars, poolVars, producerVars, closed, sent, populator, recorded, dropped>>

\* The answer of MetricSetFromModel is not looked at.
RecordUnlisted ==
    /\ populator = "running"
    /\ \E m \in inHand :
         /\ m \notin MarshalFails
         /\ recorded' = recorded \union {m}
    /\ inHand' = {}
    /\ UNCHANGED <<mainVars, poolVars, producerVars, channelVars, populator, dropped>>

\* A model that could not be written goes back on the channel.
DropRetried ==
    /\ populator = "running"
    /\ \E m \in inHand :
         /\ m.db \notin lookup \/ m \in MarshalFails
         /\ modelChan' = Append(modelChan, m)
    /\ inHand' = {}
    /\ UNCHANGED <<mainVars, poolVars, producerVars, closed, sent, populator, recorded, dropped>>

\* It goes back although it is given up.
DropAndRetry ==
    /\ populator = "running"
    /\ \E m \in inHand :
         /\ m.db \notin lookup \/ m \in MarshalFails
         /\ modelChan' = Append(modelChan, m)
         /\ dropped' = dropped \union {m}
    /\ inHand' = {}
    /\ UNCHANGED <<mainVars, poolVars, producerVars, closed, sent, populator, recorded>>

-----------------------------------------------------------------------------
(* Main.                                                                   *)

\* CreateDatabaseEntities fails: the names query or an entity's creation.
CreateEntitiesFails ==
    /\ main = "create"
    /\ main' = "error"
    /\ UNCHANGED <<lookup, undispatched, poolVars, producerVars, channelVars, populatorVars>>

\* Entities, lookup, channel and populator exist; the processor starts.
\* GetDBNames ranges over a map: the order of the names is arbitrary.
CreateEntities ==
    /\ main = "create"
    /\ \E listed \in SUBSET Databases :
         /\ lookup' = listed
         /\ \/ /\ OnAzureSQLDatabase
               /\ main' = "dispatch"
               /\ undispatched' = listed
               /\ UNCHANGED pending
            \/ /\ ~OnAzureSQLDatabase
               /\ main' = "produce"
               /\ undispatched' = {}
               /\ \E dbNames \in Orderings(listed) :
                    pending' = [pending EXCEPT ![Main] = DefaultScript(dbNames)]
    /\ populator' = "running"
    /\ UNCHANGED <<poolVars, readings, outbox, channelVars, inHand, recorded, dropped>>

\* processAzureSQLDatabaseMetrics' loop: Add(1), a token, a goroutine.  Main
\* blocks while the semaphore is full.
Dispatch(d) ==
    /\ main = "dispatch"
    /\ d \in undispatched
    /\ dbChan < MaxWorkers
    /\ undispatched' = undispatched \ {d}
    /\ waitGroup' = waitGroup + 1
    /\ dbChan' = dbChan + 1
    /\ worker' = [worker EXCEPT ![d] = "connect"]
    /\ UNCHANGED <<main, lookup, conns, producerVars, channelVars, populatorVars>>

\* waitGroup.Wait() at the end of processAzureSQLDatabaseMetrics.
WaitForWorkers ==
    /\ main = "dispatch"
    /\ undispatched = {}
    /\ waitGroup = 0
    /\ main' = "close"
    /\ UNCHANGED <<lookup, undispatched, poolVars, producerVars, channelVars, populatorVars>>

\* processDefaultDBMetrics returns.
DefaultDone ==
    /\ main = "produce"
    /\ pending[Main] = << >>
    /\ outbox[Main] = {}
    /\ main' = "close"
    /\ UNCHANGED <<lookup, undispatched, poolVars, producerVars, channelVars, populatorVars>>

CloseModelChan ==
    /\ main = "close"
    /\ closed' = TRUE
    /\ main' = "join"
    /\ UNCHANGED <<lookup, undispatched, poolVars, producerVars, modelChan, sent, populatorVars>>

\* wg.Wait(): the populator has returned.
WaitForPopulator ==
    /\ main = "join"
    /\ populator = "done"
    /\ main' = "returned"
    /\ UNCHANGED <<lookup, undispatched, poolVars, producerVars, channelVars, populatorVars>>

-----------------------------------------------------------------------------
(* processSingleAzureDB.                                                   *)

Connect(d) ==
    /\ worker[d] = "connect"
    /\ worker' = [worker EXCEPT ![d] = "produce"]
    /\ conns' = conns \union {d}
    /\ pending' = [pending EXCEPT ![d] = AzureScript(d)]
    /\ UNCHANGED <<mainVars, waitGroup, dbChan, readings, outbox, channelVars, populatorVars>>

\* The connection error is logged and the database is skipped.
ConnectFails(d) ==
    /\ worker[d] = "connect"
    /\ worker' = [worker EXCEPT ![d] = "release"]
    /\ UNCHANGED <<mainVars, waitGroup, dbChan, conns, producerVars, channelVars, populatorVars>>

WorkerDone(d) ==
    /\ worker[d] = "produce"
    /\ pending[d] = << >>
    /\ outbox[d] = {}
    /\ worker' = [worker EXCEPT ![d] = "closing"]
    /\ UNCHANGED <<mainVars, waitGroup, dbChan, conns, producerVars, channelVars, populatorVars>>

\* The three defers run last in, first out.
CloseConnection(d) ==
    /\ worker[d] = "closing"
    /\ worker' = [worker EXCEPT ![d] = "release"]
    /\ conns' = conns \ {d}
    /\ UNCHANGED <<mainVars, waitGroup, dbChan, producerVars, channelVars, populatorVars>>

Release(d) ==
    /\ worker[d] = "release"
    /\ dbChan' = dbChan - 1
    /\ worker' = [worker EXCEPT ![d] = "signal"]
    /\ UNCHANGED <<mainVars, waitGroup, conns, producerVars, channelVars, populatorVars>>

Done(d) ==
    /\ worker[d] = "signal"
    /\ waitGroup' = waitGroup - 1
    /\ worker' = [worker EXCEPT ![d] = "exited"]
    /\ UNCHANGED <<mainVars, dbChan, conns, producerVars, channelVars, populatorVars>>

-----------------------------------------------------------------------------
(* What every producer does: run the next query, send its rows.            *)

Producing(p) ==
    \/ p = Main /\ main = "produce"
    \/ p \in Databases /\ worker[p] = "produce"

\* The rows a query may return.
AnsweredRows(query) == [db : query.scope, metric : {query.metric}] \intersect Answered

\* makeDBQuery, and processMemoryDBDefinitions for the memory inputs.  The
\* slot a memory reading was scanned into may be set whether or not its row
\* was sent: a NULL value is sent and an error can follow the first row.
RunQuery(p) ==
    /\ Producing(p)
    /\ pending[p] # << >>
    /\ outbox[p] = {}
    /\ LET query == Head(pending[p]) IN
         /\ query.metric # "memoryAvailable"
         /\ \E rows \in SUBSET AnsweredRows(query) :
              outbox' = [outbox EXCEPT ![p] = rows]
         /\ \E read \in SUBSET {m.metric : m \in AnsweredRows(query)} :
              readings' = [readings EXCEPT ![p] = @ \union (read \intersect MemoryInputs)]
    /\ pending' = [pending EXCEPT ![p] = Tail(@)]
    /\ UNCHANGED <<mainVars, poolVars, channelVars, populatorVars>>

\* The last step of processMemoryDBDefinitions: no query, one model computed
\* from the two readings when both are there.
DeriveAvailableMemory(p) ==
    /\ Producing(p)
    /\ pending[p] # << >>
    /\ outbox[p] = {}
    /\ LET query == Head(pending[p]) IN
         /\ query.metric = "memoryAvailable"
         /\ outbox' = [outbox EXCEPT ![p] =
                IF readings[p] = MemoryInputs
                THEN [db : query.scope, metric : {query.metric}]
                ELSE {}]
    /\ pending' = [pending EXCEPT ![p] = Tail(@)]
    /\ UNCHANGED <<mainVars, poolVars, readings, channelVars, populatorVars>>

\* One iteration of sendModelsToPopulator.  SQL gives the rows no order.
Send(p) ==
    /\ Producing(p)
    /\ Len(modelChan) < ChannelCapacity
    /\ \E m \in outbox[p] :
         /\ modelChan' = Append(modelChan, m)
         /\ sent' = sent \union {m}
         /\ outbox' = [outbox EXCEPT ![p] = @ \ {m}]
    /\ UNCHANGED <<mainVars, poolVars, pending, readings, closed, populatorVars>>

-----------------------------------------------------------------------------
(* dbMetricPopulator.                                                      *)

Receive ==
    /\ populator = "running"
    /\ inHand = {}
    /\ modelChan # << >>
    /\ inHand' = {Head(modelChan)}
    /\ modelChan' = Tail(modelChan)
    /\ UNCHANGED <<mainVars, poolVars, producerVars, closed, sent, populator, recorded, dropped>>

\* MetricSetFromModel found the set and MarshalMetrics wrote to it.
Record ==
    /\ populator = "running"
    /\ \E m \in inHand :
         /\ m.db \in lookup
         /\ m \notin MarshalFails
         /\ recorded' = recorded \union {m}
    /\ inHand' = {}
    /\ UNCHANGED <<mainVars, poolVars, producerVars, channelVars, populator, dropped>>

\* No metric set for the model's database, or MarshalMetrics failed.
Drop ==
    /\ populator = "running"
    /\ \E m \in inHand :
         /\ m.db \notin lookup \/ m \in MarshalFails
         /\ dropped' = dropped \union {m}
    /\ inHand' = {}
    /\ UNCHANGED <<mainVars, poolVars, producerVars, channelVars, populator, recorded>>

\* The receive reports a closed, drained channel.
PopulatorExits ==
    /\ populator = "running"
    /\ inHand = {}
    /\ closed
    /\ modelChan = << >>
    /\ populator' = "done"
    /\ UNCHANGED <<mainVars, poolVars, producerVars, channelVars, inHand, recorded, dropped>>

-----------------------------------------------------------------------------
Produce(p) == RunQuery(p) \/ DeriveAvailableMemory(p) \/ Send(p)

MainNext ==
    \/ CreateEntitiesFails \/ CreateEntities
    \/ \E d \in Databases : Dispatch(d)
    \/ WaitForWorkers \/ DefaultDone \/ CloseModelChan \/ WaitForPopulator
    \/ Produce(Main)

WorkerNext(d) ==
    \/ Connect(d) \/ ConnectFails(d) \/ WorkerDone(d)
    \/ CloseConnection(d) \/ Release(d) \/ Done(d)
    \/ Produce(d)

PopulatorNext == Receive \/ Record \/ Drop \/ PopulatorExits

\* PopulateDatabaseMetrics has returned and every goroutine it started ended.
Finished ==
    /\ main \in {"returned", "error"}
    /\ UNCHANGED vars

Next == MainNext \/ (\E d \in Databases : WorkerNext(d)) \/ PopulatorNext \/ Finished

\* Goroutines are scheduled fairly, and a query or a connection attempt comes
\* back, with rows or with an error.
Fairness ==
    /\ WF_vars(MainNext)
    /\ \A d \in Databases : WF_vars(WorkerNext(d))
    /\ WF_vars(PopulatorNext)

Spec == Init /\ [][Next]_vars /\ Fairness

-----------------------------------------------------------------------------
(* Properties.                                                             *)

Settled == recorded \union dropped

Queued == {modelChan[i] : i \in DOMAIN modelChan}

\* The inductive invariant behind the theorems of DatabaseMetricsProofs: the
\* counters count the goroutines they stand for, the phases of Main agree with
\* what the workers and the populator are doing, and every model sent is
\* queued, in hand or settled.
Holding == {d \in Databases : worker[d] \in {"connect", "produce", "closing", "release"}}

Live == {d \in Databases : worker[d] \notin {"none", "exited"}}

PoolInv ==
    /\ dbChan = Cardinality(Holding)
    /\ waitGroup = Cardinality(Live)
    /\ conns = {d \in Databases : worker[d] \in {"produce", "closing"}}

PhaseInv ==
    /\ main = "dispatch" => OnAzureSQLDatabase
    /\ main = "produce" => ~OnAzureSQLDatabase /\ undispatched = {}
    /\ closed <=> main \in {"join", "returned"}
    /\ populator = "idle" <=> main \in {"create", "error"}
    /\ main = "returned" => populator = "done"
    /\ main \in {"close", "join", "returned"} => undispatched = {} /\ Live = {}
    /\ \A d \in Databases :
         worker[d] # "none" <=> OnAzureSQLDatabase /\ d \in lookup \ undispatched

FlowInv ==
    /\ \A m1, m2 \in inHand : m1 = m2
    /\ sent = Queued \union inHand \union Settled
    /\ populator = "idle" => sent = {} /\ lookup = {}
    /\ populator = "done" => closed /\ modelChan = << >> /\ inHand = {}

MachineryInv == TypeOK /\ PoolInv /\ PhaseInv /\ FlowInv

\* Beside it, for HandledOnce and AvailableComesLast: r must not come after m,
\* neither as a second m nor as a reading behind the metric derived from it.
Late(r, m) ==
    \/ r = m
    \/ r.db = m.db /\ r.metric \in MemoryInputs /\ m.metric = "memoryAvailable"

Rows(query) == [db : query.scope, metric : {query.metric}]

RowsOf(script) == UNION {Rows(script[i]) : i \in DOMAIN script}

Ordered(script) ==
    \A i, j \in DOMAIN script :
        i < j => \A m \in Rows(script[i]), r \in Rows(script[j]) : ~Late(r, m)

\* The one producer a model can come from.
Owner(m) == IF OnAzureSQLDatabase THEN m.db ELSE Main

\* Nothing a producer will still send is late for what it or anyone else sent.
ScriptInv ==
    /\ \A p \in Producers :
         /\ Ordered(pending[p])
         /\ \A r \in RowsOf(pending[p]), m \in outbox[p] \union sent : ~Late(r, m)
         /\ \A r \in outbox[p], m \in sent : ~Late(r, m)
         /\ \A r, m \in outbox[p] : r # m => ~Late(r, m)
         /\ \A m \in RowsOf(pending[p]) \union outbox[p] : Owner(m) = p
    /\ \A d \in Databases : worker[d] \in {"none", "connect"} =>
         outbox[d] = {} /\ \A m \in sent : Owner(m) # d
    /\ main = "create" => outbox[Main] = {}

\* The channel and the populator keep the order.
QueueInv ==
    /\ \A i, j \in DOMAIN modelChan : i < j => ~Late(modelChan[j], modelChan[i])
    /\ \A r \in Queued, m \in inHand \union Settled : ~Late(r, m)
    /\ \A r \in inHand, m \in Settled : ~Late(r, m)
    /\ recorded \intersect dropped = {}
    /\ \A m \in recorded : m.db \in lookup

IInv == MachineryInv /\ ScriptInv /\ QueueInv

\* The workers hold no more connections at once than there may be workers: a
\* worker gives its token back only after it closed its connection (the order
\* of processSingleAzureDB's defers).  This is about the workers alone: the pool
\* main opened before (mssql.go:63) stays open until main returns, so the process
\* may hold one connection more than what argument_list.go:33 calls the "Maximum
\* number of simultaneous database connections to be used while collecting
\* metrics".
WorkerConnectionBound == Cardinality(conns) <= MaxWorkers

\* modelChan is closed only when no goroutine can send on it any more: a send
\* on a closed channel would panic and end the whole integration.
NoSendAfterClose == closed => \A p \in Producers : ~Producing(p)

\* When PopulateDatabaseMetrics returns, every model any producer sent has
\* been dealt with, no connection is open, every listed database was visited
\* (on Azure) and no goroutine is left that could still touch a metric set
\* while mssql.go publishes it.
SettledBeforeReturn ==
    main = "returned" =>
        /\ sent = Settled
        /\ conns = {}
        /\ \A d \in Databases :
             worker[d] = IF OnAzureSQLDatabase /\ d \in lookup THEN "exited" ELSE "none"
        /\ populator = "done"

\* Every model sent is in exactly one place until it is settled and is dealt
\* with once: none is lost between the channel and the populator's hand, none
\* is recorded twice, and only listed databases get metrics.
HandledOnce ==
    /\ sent = Queued \union inHand \union Settled
    /\ Cardinality(Queued) = Len(modelChan)
    /\ Queued \intersect (inHand \union Settled) = {}
    /\ inHand \intersect Settled = {}
    /\ recorded \intersect dropped = {}
    /\ \A m \in recorded : m.db \in lookup

\* The derived memoryAvailable of a database is settled after the two readings
\* it was computed from: the single channel keeps each worker's order.
AvailableComesLast ==
    \A d \in Databases :
        [db |-> d, metric |-> "memoryAvailable"] \in Settled =>
            \A reading \in MemoryInputs :
                LET m == [db |-> d, metric |-> reading]
                IN  m \notin outbox[d] /\ m \notin Queued \union inHand

\* The call ends, whatever fails on the way.
Termination == <>(main \in {"returned", "error"})

\* Whatever happens to the other databases (connections that fail, a full
\* semaphore, a full model channel), each listed one gets its turn.
EveryDatabaseVisited ==
    \A d \in Databases :
        (OnAzureSQLDatabase /\ d \in lookup) ~> (worker[d] = "exited")

Collection == INSTANCE MetricCollection WITH
    submitted <- sent,
    settled <- Settled,
    outcome <- IF main \in {"returned", "error"} THEN main ELSE "open"

\* The machinery keeps the promise of MetricCollection.
ImplementsCollection == Collection!Spec
=============================================================================
