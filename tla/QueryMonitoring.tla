---------------------------- MODULE QueryMonitoring ----------------------------
(***************************************************************************)
(* PopulateQueryPerformanceMetrics (src/src/queryanalysis/query_analysis.go*)
(* and utils/utils.go), the last phase of a run of the integration: on a   *)
(* connection of its own it runs the slow query, wait and blocking session *)
(* analyses one after the other; slow queries are followed by a statement  *)
(* for their execution plans, whose rows are ingested before the slow      *)
(* queries themselves.                                                     *)
(*                                                                         *)
(* Ingesting splits the rows into batches of BatchSize.  A batch becomes   *)
(* metric sets of the instance entity and is published; Publish writes and *)
(* clears everything the integration holds.  When it fails the metric sets *)
(* are still there or gone, depending on where it failed, and the rest of  *)
(* the rows is given up.                                                   *)
(*                                                                         *)
(* Rows are counted, not represented: a batch is the event it belongs to   *)
(* and the range of rows it holds.                                         *)
(***************************************************************************)
EXTENDS QueryAnalysisConfig, Sequences, FiniteSets

CONSTANTS
    Modes,                \* --query_monitoring_disable_historical_information
    CountThresholds,      \* --query_monitoring_count_threshold, as given
    RowCounts,            \* how many rows a statement may yield
    BatchSize             \* 600 in the code

ASSUME ModesAssumption == Modes \subseteq BOOLEAN
ASSUME CountAssumption == CountThresholds \subseteq Int
ASSUME RowCountsAssumption == RowCounts \subseteq Nat
ASSUME BatchAssumption == BatchSize \in Nat \ {0}

SlowQueries == "MSSQLTopSlowQueries"
WaitAnalysis == "MSSQLWaitTimeAnalysis"
BlockingSessions == "MSSQLBlockingSessionQueries"
ExecutionPlans == "MSSQLQueryExecutionPlans"

VARIABLES
    dmvOnly,     \* no historical information: DMVs instead of the Query Store
    count,       \* the threshold after ValidateAndSetDefaults
    pc,          \* where PopulateQueryPerformanceMetrics is
    analysis,    \* index in Analyses
    results,     \* rows the current analysis will ingest
    ids,         \* query identifiers collected for the plan statement
    searched,    \* those the plan statement looked for, when it succeeded
    ingesting,   \* the event whose rows are being ingested
    total,       \* how many rows that is
    start,       \* rows of them already dealt with
    payload,     \* batches in the integration's entities, not published
    published    \* history: batches a successful Publish wrote

settings == <<dmvOnly, count>>
vars == <<dmvOnly, count, pc, analysis, results, ids, searched, ingesting, total, start, payload, published>>

\* config.Queries and config.QueriesWithHistoricalInformation, in order.
Analyses ==
    IF dmvOnly THEN <<BlockingSessions, WaitAnalysis, SlowQueries>>
               ELSE <<SlowQueries, WaitAnalysis, BlockingSessions>>

\* How many of n qualifying rows each statement, and the filter after it,
\* leave.  With historical information the slow queries have a limit of their
\* own, TOP (5000), instead of the count.
SlowQueriesWithHistory(n) == AtMost(5000, n)

WaitAnalysisWithHistory(n) == AtMost(count, n)

BlockingSessionsKept(n) == AtMost(count, n)

\* sortAndFilterWaitAnalysis: a count of 0 keeps all of TOP 1000.
WaitAnalysisDMV(n) == AtMost(IF count = 0 THEN 1000 ELSE count, n)

\* A bug this code could have had: no limit, and no pool, for a count of 0.
SlowQueriesDMVUnlimited(n) == IF count = 0 THEN n ELSE AtMost(count, n)

\* A bug this code could have had: the whole candidate pool is reported.
SlowQueriesDMVWholePool(n) == AtMost(IF count = 0 THEN 50 ELSE 5 * count, n)

\* The selection of SlowQuerySelection: a count of 0 keeps the default pool.
SlowQueriesDMV(n) == AtMost(IF count = 0 THEN 50 ELSE count, n)

Kept(event, n) ==
    CASE event = BlockingSessions -> BlockingSessionsKept(n)
      [] event = WaitAnalysis ->
            IF dmvOnly THEN WaitAnalysisDMV(n) ELSE WaitAnalysisWithHistory(n)
      [] event = SlowQueries ->
            IF dmvOnly THEN SlowQueriesDMV(n) ELSE SlowQueriesWithHistory(n)

\* The plan statement takes TOP (min(10, count)) plans; a plan has many rows.
PlanRows(n) == IF AtMost(IndividualQueryCountMax, count) = 0 THEN 0 ELSE n

\* @QueryIDs NVARCHAR(1000) holds 52 identifiers of 18 characters and their
\* commas; the assignment cuts off what does not fit.
IdsThatFit(n) == AtMost(52, n)

ingestVars == <<ingesting, total, start>>

Events == {SlowQueries, WaitAnalysis, BlockingSessions, ExecutionPlans}

Batches == [event : Events, first : Nat, last : Nat]

TypeOK ==
    /\ dmvOnly \in BOOLEAN
    /\ count \in Nat
    /\ pc \in {"connect", "validate", "execute", "plans", "ingest", "publish",
               "rejected", "done", "crashed"}
    /\ analysis \in 1..(Len(Analyses) + 1)
    /\ results \in Nat
    /\ ids \in 0..results
    /\ searched \in 0..ids
    /\ ingesting \in Events
    /\ total \in Nat
    /\ start \in 0..total
    /\ payload \subseteq Batches
    /\ published \subseteq Batches

Init ==
    /\ dmvOnly \in Modes
    /\ count \in {ValidCount(c) : c \in CountThresholds}
    /\ pc = "connect"
    /\ analysis = 1
    /\ results = 0
    /\ ids = 0
    /\ searched = 0
    /\ ingesting = Analyses[1]
    /\ total = 0
    /\ start = 0
    /\ payload = {}
    /\ published = {}

-----------------------------------------------------------------------------
(* PopulateQueryPerformanceMetrics.                                        *)

Connect ==
    /\ pc = "connect"
    /\ pc' \in {"validate", "rejected"}
    /\ UNCHANGED <<settings, analysis, results, ids, searched, ingestVars, payload, published>>

\* ValidatePreConditions, ValidateAndSetDefaults and the loading of the queries.
Validate ==
    /\ pc = "validate"
    /\ pc' \in {"execute", "rejected"}
    /\ UNCHANGED <<settings, analysis, results, ids, searched, ingestVars, payload, published>>

NextAnalysis ==
    /\ analysis' = analysis + 1
    /\ pc' = "execute"
    /\ results' = 0
    /\ ids' = 0
    /\ searched' = 0
    /\ UNCHANGED <<ingestVars>>

\* Rows to ingest, from the first one.
StartIngest(event, n) ==
    /\ ingesting' = event
    /\ total' = n
    /\ start' = 0
    /\ pc' = "ingest"

\* ExecuteQuery fails: logged, next analysis.
ExecuteFails ==
    /\ pc = "execute"
    /\ analysis <= Len(Analyses)
    /\ NextAnalysis
    /\ UNCHANGED <<settings, payload, published>>

\* BindQueryResults; only rows of slow queries carry identifiers, NULL ones
\* are not collected.  Without identifiers there is no plan statement.
Execute ==
    /\ pc = "execute"
    /\ analysis <= Len(Analyses)
    /\ LET event == Analyses[analysis] IN
         /\ \E n \in RowCounts : results' = Kept(event, n)
         /\ ids' \in {k \in RowCounts \union {0, results'} : k <= results'}
         /\ event # SlowQueries => ids' = 0
         /\ IF ids' > 0 THEN pc' = "plans" /\ UNCHANGED ingestVars
                        ELSE StartIngest(event, results')
    /\ UNCHANGED <<settings, analysis, searched, payload, published>>

AllAnalysesDone ==
    /\ pc = "execute"
    /\ analysis > Len(Analyses)
    /\ pc' = "done"
    /\ UNCHANGED <<settings, analysis, results, ids, searched, ingestVars, payload, published>>

-----------------------------------------------------------------------------
(* ProcessExecutionPlans and GenerateAndIngestExecutionPlan.               *)

\* The statement fails, or a row cannot be scanned: no plan is ingested.
PlansFail ==
    /\ pc = "plans"
    /\ StartIngest(SlowQueries, results)
    /\ UNCHANGED <<settings, analysis, results, ids, searched, payload, published>>

PlansFetched ==
    /\ pc = "plans"
    /\ searched' = IdsThatFit(ids)
    /\ \E n \in RowCounts : StartIngest(ExecutionPlans, PlanRows(n))
    /\ UNCHANGED <<settings, analysis, results, ids, payload, published>>

\* A row whose sql_text is NULL: *model.SQLText is dereferenced unchecked.
PlanTextMissing ==
    /\ pc = "plans"
    /\ PlanRows(1) > 0
    /\ searched' = IdsThatFit(ids)
    /\ pc' = "crashed"
    /\ UNCHANGED <<settings, analysis, results, ids, ingestVars, payload, published>>

-----------------------------------------------------------------------------
(* IngestQueryMetricsInBatches and IngestQueryMetrics.                     *)

\* What follows the ingestion, finished or given up: after the plans come the
\* slow queries they belong to.
AfterIngest ==
    \/ /\ ingesting = ExecutionPlans
       /\ StartIngest(SlowQueries, results)
       /\ UNCHANGED <<analysis, results, ids, searched>>
    \/ /\ ingesting # ExecutionPlans
       /\ NextAnalysis

Ingested ==
    /\ pc = "ingest"
    /\ start >= total
    /\ AfterIngest
    /\ UNCHANGED <<settings, payload, published>>

\* Bugs this code could have had: end is not clamped to the number of rows,
\* and a batch starts with the last row of the one before.
BatchPastTheEnd ==
    [event |-> ingesting, first |-> start + 1, last |-> start + BatchSize]

BatchesOverlap ==
    [event |-> ingesting, first |-> IF start = 0 THEN 1 ELSE start,
     last |-> AtMost(total, start + BatchSize)]

CurrentBatch ==
    [event |-> ingesting, first |-> start + 1, last |-> AtMost(total, start + BatchSize)]

\* CreateInstanceEntity found the entity; one metric set per row.
RecordBatch ==
    /\ pc = "ingest"
    /\ start < total
    /\ payload' = payload \union {CurrentBatch}
    /\ pc' = "publish"
    /\ UNCHANGED <<settings, analysis, results, ids, searched, ingestVars, published>>

\* CreateInstanceEntity failed: the error is logged and NewMetricSet is then
\* called on the nil entity, which panics.
EntityFails ==
    /\ pc = "ingest"
    /\ start < total
    /\ pc' = "crashed"
    /\ UNCHANGED <<settings, analysis, results, ids, searched, ingestVars, payload, published>>

\* A bug this code could have had: start is not moved on.
PublishedAgain ==
    /\ pc = "publish"
    /\ published' = published \union payload
    /\ payload' = {}
    /\ pc' = "ingest"
    /\ UNCHANGED <<settings, analysis, results, ids, searched, ingestVars>>

PublishSucceeds ==
    /\ pc = "publish"
    /\ published' = published \union payload
    /\ payload' = {}
    /\ start' = CurrentBatch.last
    /\ pc' = "ingest"
    /\ UNCHANGED <<settings, analysis, results, ids, searched, ingesting, total>>

\* A bug this code could have had: the loop goes on with the next batch.
FailedBatchSkipped ==
    /\ pc = "publish"
    /\ payload' \in {payload, {}}
    /\ start' = CurrentBatch.last
    /\ pc' = "ingest"
    /\ UNCHANGED <<settings, analysis, results, ids, searched, ingesting, total, published>>

\* The error ends the loop over the batches; both callers log it and go on.
PublishFails ==
    /\ pc = "publish"
    /\ payload' \in {payload, {}}
    /\ AfterIngest
    /\ UNCHANGED <<settings, published>>

-----------------------------------------------------------------------------
Ended == pc \in {"rejected", "done", "crashed"}

Step ==
    \/ Connect \/ Validate
    \/ ExecuteFails \/ Execute \/ AllAnalysesDone
    \/ PlansFail \/ PlansFetched \/ PlanTextMissing
    \/ Ingested \/ RecordBatch \/ EntityFails \/ PublishSucceeds \/ PublishFails

Finished == Ended /\ UNCHANGED vars

Next == Step \/ Finished

\* One goroutine; every statement comes back.
Spec == Init /\ [][Next]_vars /\ WF_vars(Step)

-----------------------------------------------------------------------------
(* The inductive invariant.                                                *)

Overlap(b1, b2) ==
    b1.event = b2.event /\ b1.first <= b2.last /\ b2.first <= b1.last

\* The analysis an event belongs to.
Position(event) ==
    CASE event = WaitAnalysis -> 2
      [] event = BlockingSessions -> IF dmvOnly THEN 1 ELSE 3
      [] OTHER -> IF dmvOnly THEN 3 ELSE 1

\* What is being ingested belongs to the current analysis.
PhaseInv ==
    /\ pc \in {"connect", "validate", "execute"} => ids = 0 /\ searched = 0
    /\ pc = "plans" => Position(SlowQueries) = analysis
    /\ pc \in {"ingest", "publish"} => Position(ingesting) = analysis
    /\ pc = "publish" => start < total

\* Only events whose turn has come have batches, and plans come before the
\* slow queries they belong to.
TurnInv ==
    \A b \in payload \union published :
        \/ Position(b.event) < analysis
        \/ /\ Position(b.event) = analysis
           /\ pc \in {"ingest", "publish", "crashed"}
           /\ ingesting \in {b.event, SlowQueries}

\* The event in its turn is published up to where the loop stands.
ProgressInv ==
    pc \in {"ingest", "publish"} =>
        /\ \A b \in published : b.event = ingesting => b.last <= start
        /\ start > 0 => \E b \in published : b.event = ingesting /\ b.last = start
        /\ \A b \in payload : b.event = ingesting => pc = "publish" /\ b = CurrentBatch
        /\ pc = "publish" => CurrentBatch \in payload

\* No two batches share a row, and every batch follows a published one.
BatchesInv ==
    /\ \A b \in payload \union published :
         /\ b.first <= b.last
         /\ b.last - b.first < BatchSize
         /\ b.first > 1 =>
              \E earlier \in published : earlier.event = b.event /\ earlier.last = b.first - 1
    /\ \A b1, b2 \in payload \union published : b1 # b2 => ~Overlap(b1, b2)
    /\ payload \intersect published = {}
    /\ \A b1, b2 \in payload : b1.event = b2.event => b1 = b2

\* With the history off, what the current analysis found, and every batch of
\* it, is within the limits.
LimitsInv ==
    /\ count <= GroupedQueryCountMax
    /\ pc \in {"ingest", "publish"} /\ ingesting # ExecutionPlans => total = results
    /\ dmvOnly =>
         /\ ids <= 50
         /\ searched \in {0, ids}
         /\ count # 0 => results <= count
         /\ count # 0 => \A b \in payload \union published :
                            b.event # ExecutionPlans => b.last <= count

IInv == TypeOK /\ PhaseInv /\ TurnInv /\ ProgressInv /\ BatchesInv

-----------------------------------------------------------------------------
(* Properties.                                                             *)

\* No row is ingested twice: not by the loop's arithmetic, not by the batches
\* a failed Publish left behind, not by the plans interleaved with the slow
\* queries.
RowsIngestedOnce ==
    /\ payload \intersect published = {}
    /\ \A b1, b2 \in payload \union published : b1 # b2 => ~Overlap(b1, b2)

\* The published rows of an event have no gap: a batch is only ever ingested
\* after all earlier rows of its event were published.
PublishedWithoutGap ==
    \A b \in payload \union published :
        /\ b.first <= b.last
        /\ b.first > 1 =>
             \E earlier \in published : earlier.event = b.event /\ earlier.last = b.first - 1

\* However many publications fail, what is held for the next one stays small:
\* at most one batch per event, because a failure ends that event's loop.
OneBatchHeldPerEvent ==
    /\ \A b1, b2 \in payload : b1.event = b2.event => b1 = b2
    /\ \A b \in payload : b.last - b.first < BatchSize

BatchesOf(event) == {b \in payload \union published : b.event = event}

\* mssql-config.yml.sample:42 calls the count threshold the "Query count limit
\* for fetching grouped slow query, wait query, blocking sessions and execution
\* plan query performance metrics": no grouped event has more rows than that.
CountRespected ==
    count # 0 =>
        \A event \in Events \ {ExecutionPlans} :
            \A b \in BatchesOf(event) : b.last <= count

\* With the history off it is so: the two limits of the statements and the
\* walk over the candidate pool give every grouped event its count.  A count of
\* 0 is no limit, and nothing is said of it here.
CountRespectedFromDMVs == dmvOnly => CountRespected

\* utils.go:361: "ProcessExecutionPlans processes execution plans for all
\* collected queryIDs".
PlansForAllIds == searched > 0 => searched = ids

\* With the history off the largest pool reported just fits the variable.
PlansForAllIdsFromDMVs == dmvOnly => PlansForAllIds

\* query_analysis.go:14 says of the function that it "runs all types of
\* analyzes": once the preconditions hold, each type has its turn.
AllAnalysesRun == pc \in {"done", "crashed"} => analysis > Len(Analyses)

\* Query monitoring ends, whatever fails.
Termination == <>Ended
=============================================================================
