------------------------ MODULE QueryMonitoringProofs ------------------------
(***************************************************************************)
(* Theorems of QueryMonitoring, for every count threshold, every number of *)
(* rows and every batch size.  Each event has one turn (TurnInv): when its *)
(* ingestion starts there is no batch of it, and from then on what is      *)
(* published of it reaches exactly to the loop's position (ProgressInv),   *)
(* so a new batch neither repeats nor leaves out a row, whatever earlier   *)
(* publications left behind.                                               *)
(***************************************************************************)
EXTENDS QueryMonitoring, TLAPS

LEMMA AtMostBounds ==
  ASSUME NEW bound \in Nat, NEW n \in Nat
  PROVE  /\ AtMost(bound, n) \in Nat
         /\ AtMost(bound, n) <= n
         /\ AtMost(bound, n) <= bound
  BY DEF AtMost

LEMMA AnalysesFacts ==
  ASSUME dmvOnly \in BOOLEAN
  PROVE  /\ Len(Analyses) = 3
         /\ \A i \in 1..3 : /\ Analyses[i] \in Events
                            /\ Analyses[i] # ExecutionPlans
                            /\ Position(Analyses[i]) = i
                            /\ Analyses[i] # SlowQueries => Position(SlowQueries) # i
         /\ Position(ExecutionPlans) = Position(SlowQueries)
         /\ \A e \in Events : Position(e) \in 1..3
  <1>1. CASE dmvOnly
    BY <1>1 DEF Analyses, Events, Position, SlowQueries, WaitAnalysis, BlockingSessions, ExecutionPlans
  <1>2. CASE ~dmvOnly
    BY <1>2 DEF Analyses, Events, Position, SlowQueries, WaitAnalysis, BlockingSessions, ExecutionPlans
  <1> QED  BY <1>1, <1>2

LEMMA CurrentBatchFacts ==
  ASSUME TypeOK, start < total
  PROVE  /\ CurrentBatch \in Batches
         /\ CurrentBatch.event = ingesting
         /\ CurrentBatch.first = start + 1
         /\ CurrentBatch.first <= CurrentBatch.last
         /\ CurrentBatch.last <= total
         /\ CurrentBatch.last - CurrentBatch.first < BatchSize
  <1>1. /\ start \in Nat /\ total \in Nat /\ start < total
        /\ BatchSize \in Nat /\ BatchSize > 0
        /\ ingesting \in Events
    BY BatchAssumption DEF TypeOK
  <1> DEFINE last == AtMost(total, start + BatchSize)
  <1>2. /\ last \in Nat /\ start + 1 <= last /\ last <= total
        /\ last - (start + 1) < BatchSize
    BY <1>1 DEF AtMost
  <1>3. CurrentBatch = [event |-> ingesting, first |-> start + 1, last |-> last]
    BY DEF CurrentBatch
  <1> HIDE DEF last
  <1>4. start + 1 \in Nat
    BY <1>1
  <1>5. CurrentBatch \in Batches
    BY <1>1, <1>2, <1>3, <1>4 DEF Batches
  <1>6. /\ CurrentBatch.event = ingesting
        /\ CurrentBatch.first = start + 1
        /\ CurrentBatch.last = last
    BY <1>3
  <1> QED  BY <1>2, <1>5, <1>6

-----------------------------------------------------------------------------
LEMMA InitInv == Init => IInv
  <1> SUFFICES ASSUME Init PROVE IInv
    OBVIOUS
  <1>1. dmvOnly \in BOOLEAN /\ count \in Nat
    <2>1. dmvOnly \in Modes /\ count \in {ValidCount(c) : c \in CountThresholds}
      BY DEF Init
    <2>2. \A c \in Int : ValidCount(c) \in Nat
      BY DEF ValidCount, SlowQueryCountThresholdDefault, GroupedQueryCountMax
    <2> QED  BY <2>1, <2>2, ModesAssumption, CountAssumption
  <1>2. Analyses[1] \in Events /\ Len(Analyses) = 3
    BY <1>1, AnalysesFacts
  <1>3. TypeOK
    BY <1>1, <1>2 DEF Init, TypeOK
  <1>4. PhaseInv /\ TurnInv /\ ProgressInv /\ BatchesInv
    BY DEF Init, PhaseInv, TurnInv, ProgressInv, BatchesInv
  <1> QED  BY <1>3, <1>4 DEF IInv

\* Batches that are kept, or dropped from the payload, stay as they should be.
LEMMA BatchesKept ==
  ASSUME BatchesInv, published' = published, payload' \in {payload, {}}
  PROVE  BatchesInv'
  BY DEF BatchesInv, Overlap

\* The ingestion of an event whose turn it is, and that has no batch yet.
LEMMA IngestionStarts ==
  ASSUME IInv,
         NEW event \in Events, NEW n \in Nat,
         StartIngest(event, n),
         Position(event) = analysis,
         \A b \in payload \union published : b.event # event,
         \A b \in payload \union published :
             Position(b.event) = analysis => event = SlowQueries,
         UNCHANGED <<settings, analysis, published>>,
         payload' \in {payload, {}},
         results' \in Nat, ids' \in 0..results', searched' \in 0..ids'
  PROVE  IInv'
  <1>1. /\ ingesting' = event /\ total' = n /\ start' = 0 /\ pc' = "ingest"
        /\ dmvOnly' = dmvOnly /\ count' = count /\ analysis' = analysis
    BY DEF StartIngest, settings
  <1>2. Analyses' = Analyses /\ \A e : Position(e)' = Position(e)
    BY <1>1 DEF Analyses, Position
  <1>3. TypeOK'
    BY <1>1, <1>2 DEF IInv, TypeOK
  <1>4. PhaseInv'
    BY <1>1, <1>2 DEF PhaseInv
  <1>5. \A b \in payload \union published : Position(b.event) \in Nat /\ Position(b.event) <= analysis
    <2>1. \A b \in payload \union published : b.event \in Events
      BY DEF IInv, TypeOK, Batches
    <2>2. \A e \in Events : Position(e) \in 1..3
      BY AnalysesFacts DEF IInv, TypeOK
    <2>3. analysis \in Nat
      BY DEF IInv, TypeOK
    <2> QED  BY <2>1, <2>2, <2>3 DEF IInv, TurnInv
  <1>6. TurnInv'
    <2> SUFFICES ASSUME NEW b \in (payload \union published)'
                 PROVE  \/ Position(b.event)' < analysis'
                        \/ /\ Position(b.event)' = analysis'
                           /\ pc' \in {"ingest", "publish", "crashed"}
                           /\ ingesting' \in {b.event, SlowQueries}
      BY DEF TurnInv
    <2>1. b \in payload \union published
      OBVIOUS
    <2>2. analysis \in Nat
      BY DEF IInv, TypeOK
    <2>3. Position(b.event) < analysis \/ (Position(b.event) = analysis /\ event = SlowQueries)
      BY <1>5, <2>1, <2>2
    <2> QED  BY <1>1, <1>2, <2>3
  <1>7. ProgressInv'
    BY <1>1 DEF ProgressInv
  <1>8. BatchesInv'
    BY BatchesKept DEF IInv
  <1> QED  BY <1>3, <1>4, <1>6, <1>7, <1>8 DEF IInv

\* The next analysis, whatever a failed publication left in the payload.
LEMMA AnalysisEnds ==
  ASSUME IInv, NextAnalysis, analysis <= 3,
         UNCHANGED <<settings, published>>,
         payload' \in {payload, {}}
  PROVE  IInv'
  <1>1. /\ analysis' = analysis + 1 /\ pc' = "execute"
        /\ results' = 0 /\ ids' = 0 /\ searched' = 0
        /\ ingesting' = ingesting /\ total' = total /\ start' = start
        /\ dmvOnly' = dmvOnly /\ count' = count
    BY DEF NextAnalysis, ingestVars, settings
  <1>2. Analyses' = Analyses /\ \A e : Position(e)' = Position(e)
    BY <1>1 DEF Analyses, Position
  <1>3. analysis \in 1..3 /\ Len(Analyses) = 3
    BY AnalysesFacts DEF IInv, TypeOK
  <1>4. TypeOK'
    BY <1>1, <1>2, <1>3 DEF IInv, TypeOK
  <1>5. PhaseInv'
    BY <1>1 DEF PhaseInv
  <1>6. TurnInv'
    <2> SUFFICES ASSUME NEW b \in (payload \union published)'
                 PROVE  Position(b.event)' < analysis'
      BY DEF TurnInv
    <2>1. b \in payload \union published
      OBVIOUS
    <2>2. b.event \in Events
      BY <2>1 DEF IInv, TypeOK, Batches
    <2>3. Position(b.event) \in 1..3
      BY <2>2, AnalysesFacts DEF IInv, TypeOK
    <2>4. Position(b.event) <= analysis
      BY <1>3, <2>1, <2>3 DEF IInv, TurnInv
    <2> QED  BY <1>1, <1>2, <1>3, <2>3, <2>4
  <1>7. ProgressInv'
    BY <1>1 DEF ProgressInv
  <1>8. BatchesInv'
    BY BatchesKept DEF IInv
  <1> QED  BY <1>4, <1>5, <1>6, <1>7, <1>8 DEF IInv

\* After the ingestion of plans come their slow queries, else the next analysis.
LEMMA IngestionEnds ==
  ASSUME IInv, pc \in {"ingest", "publish"}, AfterIngest,
         UNCHANGED <<settings, published>>,
         payload' \in {payload, {}}
  PROVE  IInv'
  <1>1. Position(ingesting) = analysis /\ dmvOnly \in BOOLEAN /\ ingesting \in Events
    BY DEF IInv, PhaseInv, TypeOK
  <1>2. analysis \in 1..3
    BY <1>1, AnalysesFacts
  <1>3. CASE /\ ingesting = ExecutionPlans
             /\ StartIngest(SlowQueries, results)
             /\ UNCHANGED <<analysis, results, ids, searched>>
    <2>1. Position(SlowQueries) = analysis
      BY <1>1, <1>3, AnalysesFacts
    <2>2. \A b \in payload \union published : b.event # SlowQueries
      BY <1>2, <1>3, <2>1 DEF IInv, TurnInv, SlowQueries, ExecutionPlans
    <2>3. results \in Nat /\ ids \in 0..results /\ searched \in 0..ids /\ SlowQueries \in Events
      BY DEF IInv, TypeOK, Events
    <2>4. UNCHANGED <<settings, analysis, published>> /\ results' \in Nat
          /\ ids' \in 0..results' /\ searched' \in 0..ids'
      BY <1>3, <2>3
    <2> QED  BY <1>3, <2>1, <2>2, <2>3, <2>4, IngestionStarts
  <1>4. CASE ingesting # ExecutionPlans /\ NextAnalysis
    BY <1>2, <1>4, AnalysisEnds
  <1> QED  BY <1>3, <1>4 DEF AfterIngest

-----------------------------------------------------------------------------
(* Execute and the statement for the plans.                                *)

LEMMA KeptType ==
  ASSUME TypeOK, NEW i \in 1..3, NEW n \in Nat
  PROVE  Kept(Analyses[i], n) \in Nat
  <1>1. count \in Nat /\ dmvOnly \in BOOLEAN
    BY DEF TypeOK
  <1>2. Analyses[i] \in {SlowQueries, WaitAnalysis, BlockingSessions}
    BY <1>1, AnalysesFacts DEF Events
  <1>3. \A bound \in Nat : AtMost(bound, n) \in Nat
    BY AtMostBounds
  <1>4. /\ BlockingSessionsKept(n) \in Nat
        /\ WaitAnalysisWithHistory(n) \in Nat
        /\ SlowQueriesWithHistory(n) \in Nat
    BY <1>1, <1>3 DEF BlockingSessionsKept, WaitAnalysisWithHistory, SlowQueriesWithHistory
  <1>5. WaitAnalysisDMV(n) \in Nat /\ SlowQueriesDMV(n) \in Nat
    BY <1>1, <1>3 DEF WaitAnalysisDMV, SlowQueriesDMV
  <1> QED
    BY <1>1, <1>2, <1>4, <1>5
    DEF Kept, SlowQueries, WaitAnalysis, BlockingSessions

\* While a statement runs, every batch is of an earlier analysis.
LEMMA EarlierBatches ==
  ASSUME IInv, pc \in {"execute", "plans"}, NEW b \in payload \union published
  PROVE  Position(b.event) \in Nat /\ Position(b.event) < analysis
  <1>1. b.event \in Events /\ dmvOnly \in BOOLEAN
    BY DEF IInv, TypeOK, Batches
  <1>2. Position(b.event) \in 1..3
    BY <1>1, AnalysesFacts
  <1> QED  BY <1>2 DEF IInv, TurnInv

LEMMA ExecuteInv == IInv /\ Execute => IInv'
  <1> SUFFICES ASSUME IInv, Execute PROVE IInv'
    OBVIOUS
  <1> DEFINE event == Analyses[analysis]
  <1>1. /\ dmvOnly \in BOOLEAN /\ analysis \in Nat /\ analysis >= 1
        /\ Len(Analyses) = 3 /\ ids = 0 /\ searched = 0
        /\ pc = "execute" /\ analysis <= Len(Analyses)
    BY AnalysesFacts DEF IInv, TypeOK, PhaseInv, Execute
  <1>2. analysis \in 1..3
    BY <1>1
  <1>3. /\ event \in Events /\ Position(event) = analysis
        /\ event # SlowQueries => Position(SlowQueries) # analysis
    BY <1>1, <1>2, AnalysesFacts
  <1>4. /\ UNCHANGED <<settings, analysis, searched, payload, published>>
        /\ dmvOnly' = dmvOnly /\ count' = count
    BY DEF Execute, settings
  <1>5. results' \in Nat
    <2>1. PICK n \in RowCounts : results' = Kept(event, n)
      BY DEF Execute
    <2> QED  BY <1>2, <2>1, KeptType, RowCountsAssumption DEF IInv
  <1>6. ids' \in 0..results' /\ searched' \in 0..ids'
    <2>1. ids' \in RowCounts \union {0, results'} /\ ids' <= results'
      BY DEF Execute
    <2> QED  BY <1>1, <1>4, <1>5, <2>1, RowCountsAssumption
  <1>7. \A b \in payload \union published : Position(b.event) \in Nat /\ Position(b.event) < analysis
    BY <1>1, EarlierBatches
  <1>8. CASE ids' > 0 /\ pc' = "plans" /\ UNCHANGED ingestVars
    <2>1. event = SlowQueries
      BY <1>8 DEF Execute
    <2>2. ingesting' = ingesting /\ total' = total /\ start' = start
      BY <1>8 DEF ingestVars
    <2>3. Analyses' = Analyses /\ \A e : Position(e)' = Position(e)
      BY <1>4 DEF Analyses, Position
    <2>4. TypeOK'
      BY <1>4, <1>5, <1>6, <1>8, <2>2, <2>3 DEF IInv, TypeOK
    <2>5. PhaseInv'
      BY <1>3, <1>4, <1>8, <2>1, <2>3 DEF PhaseInv
    <2>6. TurnInv'
      BY <1>4, <1>7, <2>3 DEF TurnInv
    <2>7. ProgressInv'
      BY <1>8 DEF ProgressInv
    <2>8. BatchesInv'
      BY <1>4, BatchesKept DEF IInv
    <2> QED  BY <2>4, <2>5, <2>6, <2>7, <2>8 DEF IInv
  <1>9. CASE StartIngest(event, results')
    <2>1. \A b \in payload \union published : b.event # event /\ Position(b.event) # analysis
      BY <1>3, <1>2, <1>7
    <2> HIDE DEF event
    <2> QED  BY <1>3, <1>4, <1>5, <1>6, <1>9, <2>1, IngestionStarts
  <1> QED  BY <1>8, <1>9 DEF Execute

LEMMA PlansFailInv == IInv /\ PlansFail => IInv'
  <1> SUFFICES ASSUME IInv, PlansFail PROVE IInv'
    OBVIOUS
  <1>1. pc = "plans" /\ Position(SlowQueries) = analysis
    BY DEF IInv, PhaseInv, PlansFail
  <1>2. \A b \in payload \union published : Position(b.event) \in Nat /\ Position(b.event) < analysis
    BY <1>1, EarlierBatches
  <1>3. \A b \in payload \union published : b.event # SlowQueries /\ Position(b.event) # analysis
    BY <1>1, <1>2
  <1>4. /\ SlowQueries \in Events /\ results \in Nat /\ ids \in 0..results /\ searched \in 0..ids
    BY DEF IInv, TypeOK, Events
  <1>5. /\ UNCHANGED <<settings, analysis, results, ids, searched, payload, published>>
        /\ StartIngest(SlowQueries, results)
    BY DEF PlansFail
  <1>6. results' \in Nat /\ ids' \in 0..results' /\ searched' \in 0..ids'
    BY <1>4, <1>5
  <1> QED  BY <1>1, <1>3, <1>4, <1>5, <1>6, IngestionStarts

LEMMA PlansFetchedInv == IInv /\ PlansFetched => IInv'
  <1> SUFFICES ASSUME IInv, PlansFetched PROVE IInv'
    OBVIOUS
  <1>1. /\ pc = "plans" /\ Position(SlowQueries) = analysis
        /\ dmvOnly \in BOOLEAN
    BY DEF IInv, PhaseInv, TypeOK, PlansFetched
  <1>2. Position(ExecutionPlans) = analysis /\ ExecutionPlans \in Events
    BY <1>1, AnalysesFacts DEF Events
  <1>3. \A b \in payload \union published : Position(b.event) \in Nat /\ Position(b.event) < analysis
    BY <1>1, EarlierBatches
  <1>4. \A b \in payload \union published : b.event # ExecutionPlans /\ Position(b.event) # analysis
    BY <1>2, <1>3
  <1>5. results \in Nat /\ ids \in 0..results
    BY DEF IInv, TypeOK
  <1>6. /\ UNCHANGED <<settings, analysis, results, ids, payload, published>>
        /\ searched' = IdsThatFit(ids)
    BY DEF PlansFetched
  <1>7. searched' \in 0..ids
    BY <1>5, <1>6, AtMostBounds DEF IdsThatFit
  <1>8. PICK n \in RowCounts : StartIngest(ExecutionPlans, PlanRows(n))
    BY DEF PlansFetched
  <1>9. PlanRows(n) \in Nat
    BY RowCountsAssumption DEF PlanRows
  <1>10. results' \in Nat /\ ids' \in 0..results' /\ searched' \in 0..ids'
    BY <1>5, <1>6, <1>7
  <1> QED  BY <1>2, <1>4, <1>6, <1>8, <1>9, <1>10, IngestionStarts

-----------------------------------------------------------------------------
(* The loop over the batches.                                              *)

LEMMA RecordBatchInv == IInv /\ RecordBatch => IInv'
  <1> SUFFICES ASSUME IInv, RecordBatch PROVE IInv'
    OBVIOUS
  <1>1. /\ pc = "ingest" /\ start < total /\ pc' = "publish"
        /\ payload' = payload \union {CurrentBatch}
        /\ UNCHANGED <<settings, analysis, results, ids, searched, ingestVars, published>>
    BY DEF RecordBatch
  <1>2. /\ dmvOnly' = dmvOnly /\ count' = count
        /\ ingesting' = ingesting /\ total' = total /\ start' = start
    BY <1>1 DEF settings, ingestVars
  <1>3. /\ Analyses' = Analyses
        /\ \A e : Position(e)' = Position(e)
        /\ CurrentBatch' = CurrentBatch
    BY <1>2 DEF Analyses, Position, CurrentBatch
  <1>4. /\ CurrentBatch \in Batches
        /\ CurrentBatch.event = ingesting
        /\ CurrentBatch.first = start + 1
        /\ CurrentBatch.first <= CurrentBatch.last
        /\ CurrentBatch.last <= total
        /\ CurrentBatch.last - CurrentBatch.first < BatchSize
    BY <1>1, CurrentBatchFacts DEF IInv
  <1>5. start \in Nat
    BY DEF IInv, TypeOK
  <1>6. TypeOK'
    BY <1>1, <1>2, <1>3, <1>4 DEF IInv, TypeOK
  <1>7. PhaseInv'
    BY <1>1, <1>2, <1>3 DEF IInv, PhaseInv
  <1>8. TurnInv'
    <2>1. Position(ingesting) = analysis
      BY <1>1 DEF IInv, PhaseInv
    <2> QED  BY <1>1, <1>2, <1>3, <1>4, <2>1 DEF IInv, TurnInv
  <1>9. /\ \A b \in published : b.event = ingesting => b.last <= start
        /\ start > 0 => \E b \in published : b.event = ingesting /\ b.last = start
        /\ \A b \in payload : b.event # ingesting
    BY <1>1 DEF IInv, ProgressInv
  <1>10. ProgressInv'
    BY <1>1, <1>2, <1>3, <1>9 DEF ProgressInv
  <1>11. \A b \in payload \union published : ~Overlap(CurrentBatch, b) /\ ~Overlap(b, CurrentBatch)
    <2>1. \A b \in published : b \in Batches
      BY DEF IInv, TypeOK
    <2>2. \A b \in published : b.last \in Nat /\ (b.event = ingesting => ~(CurrentBatch.first <= b.last))
      BY <1>4, <1>5, <1>9, <2>1 DEF Batches
    <2> QED  BY <1>4, <1>9, <2>2 DEF Overlap
  <1>12. CurrentBatch \notin published
    <2>1. ASSUME CurrentBatch \in published PROVE FALSE
      <3>1. CurrentBatch.last <= start
        BY <1>4, <1>9, <2>1
      <3>2. CurrentBatch.last \in Nat
        BY <1>4 DEF Batches
      <3> QED  BY <1>4, <1>5, <3>1, <3>2
    <2> QED  BY <2>1
  <1>13. BatchesInv'
    <2>1. \A b \in (payload \union published)' :
            /\ b.first <= b.last
            /\ b.last - b.first < BatchSize
            /\ b.first > 1 =>
                 \E earlier \in published' : earlier.event = b.event /\ earlier.last = b.first - 1
      <3>1. CurrentBatch.first > 1 =>
              \E earlier \in published' : earlier.event = CurrentBatch.event
                                          /\ earlier.last = CurrentBatch.first - 1
        <4>1. ASSUME CurrentBatch.first > 1
              PROVE  start > 0 /\ CurrentBatch.first - 1 = start
          BY <1>4, <1>5, <4>1
        <4> QED  BY <1>1, <1>4, <1>9, <4>1
      <3> QED  BY <1>1, <1>4, <3>1 DEF IInv, BatchesInv
    <2>2. \A b1, b2 \in (payload \union published)' : b1 # b2 => ~Overlap(b1, b2)
      BY <1>1, <1>11 DEF IInv, BatchesInv
    <2>3. payload' \intersect published' = {}
      BY <1>1, <1>12 DEF IInv, BatchesInv
    <2>4. \A b1, b2 \in payload' : b1.event = b2.event => b1 = b2
      BY <1>1, <1>4, <1>9 DEF IInv, BatchesInv
    <2> QED  BY <2>1, <2>2, <2>3, <2>4 DEF BatchesInv, Overlap
  <1> QED  BY <1>6, <1>7, <1>8, <1>10, <1>13 DEF IInv

LEMMA PublishSucceedsInv == IInv /\ PublishSucceeds => IInv'
  <1> SUFFICES ASSUME IInv, PublishSucceeds PROVE IInv'
    OBVIOUS
  <1>1. /\ pc = "publish" /\ pc' = "ingest"
        /\ published' = published \union payload /\ payload' = {}
        /\ start' = CurrentBatch.last
        /\ UNCHANGED <<settings, analysis, results, ids, searched, ingesting, total>>
    BY DEF PublishSucceeds
  <1>2. dmvOnly' = dmvOnly /\ count' = count
    BY <1>1 DEF settings
  <1>3. Analyses' = Analyses /\ \A e : Position(e)' = Position(e)
    BY <1>2 DEF Analyses, Position
  <1>4. start < total
    BY <1>1 DEF IInv, PhaseInv
  <1>5. /\ CurrentBatch \in Batches
        /\ CurrentBatch.event = ingesting
        /\ CurrentBatch.first = start + 1
        /\ CurrentBatch.first <= CurrentBatch.last
        /\ CurrentBatch.last <= total
    BY <1>4, CurrentBatchFacts DEF IInv
  <1>6. CurrentBatch.last \in 0..total /\ start \in Nat
    BY <1>5 DEF IInv, TypeOK, Batches
  <1>7. TypeOK'
    BY <1>1, <1>2, <1>3, <1>6 DEF IInv, TypeOK
  <1>8. PhaseInv'
    BY <1>1, <1>3 DEF IInv, PhaseInv
  <1>9. TurnInv'
    BY <1>1, <1>3 DEF IInv, TurnInv
  <1>10. ProgressInv'
    <2>1. CurrentBatch \in payload /\ \A b \in payload : b.event = ingesting => b = CurrentBatch
      BY <1>1 DEF IInv, ProgressInv
    <2>2. \A b \in published : b.event = ingesting => b.last <= CurrentBatch.last
      <3>1. \A b \in published : b.last \in Nat
        BY DEF IInv, TypeOK, Batches
      <3>2. \A b \in published : b.event = ingesting => b.last <= start
        BY <1>1 DEF IInv, ProgressInv
      <3> QED  BY <1>5, <1>6, <3>1, <3>2
    <2>3. \A b \in published' : b.event = ingesting' => b.last <= start'
      BY <1>1, <1>6, <2>1, <2>2
    <2>4. CurrentBatch \in published' /\ CurrentBatch.event = ingesting' /\ CurrentBatch.last = start'
      BY <1>1, <1>5, <2>1
    <2> QED  BY <1>1, <2>3, <2>4 DEF ProgressInv
  <1>11. BatchesInv'
    <2>1. payload' \union published' = payload \union published
      BY <1>1
    <2> QED  BY <1>1, <2>1 DEF IInv, BatchesInv, Overlap
  <1> QED  BY <1>7, <1>8, <1>9, <1>10, <1>11 DEF IInv

-----------------------------------------------------------------------------
\* Connecting, the end, and the two panics: nothing is ingested.
LEMMA OtherStepsInv ==
  ASSUME IInv,
         UNCHANGED <<settings, analysis, results, ids, ingestVars, payload, published>>,
         searched' \in 0..ids,
         pc' \in {"validate", "execute", "rejected", "done", "crashed"},
         pc' \in {"validate", "execute"} => ids = 0 /\ searched' = 0,
         pc \in {"ingest", "publish", "crashed"} => pc' = "crashed"
  PROVE  IInv'
  <1>1. /\ dmvOnly' = dmvOnly /\ count' = count
        /\ ingesting' = ingesting /\ total' = total /\ start' = start
    BY DEF settings, ingestVars
  <1>2. Analyses' = Analyses /\ \A e : Position(e)' = Position(e)
    BY <1>1 DEF Analyses, Position
  <1>3. TypeOK'
    BY <1>1, <1>2 DEF IInv, TypeOK
  <1>4. PhaseInv'
    BY DEF PhaseInv
  <1>5. TurnInv'
    BY <1>1, <1>2 DEF IInv, TurnInv
  <1>6. ProgressInv'
    BY DEF ProgressInv
  <1>7. BatchesInv'
    BY BatchesKept DEF IInv
  <1> QED  BY <1>3, <1>4, <1>5, <1>6, <1>7 DEF IInv

LEMMA NextInv == IInv /\ [Next]_vars => IInv'
  <1> SUFFICES ASSUME IInv, [Next]_vars PROVE IInv'
    OBVIOUS
  <1>1. searched \in 0..ids /\ ids \in Nat /\ analysis \in Nat
    BY DEF IInv, TypeOK
  <1>2. CASE Connect
    <2>1. pc = "connect" /\ ids = 0 /\ searched = 0
      BY <1>2 DEF Connect, IInv, PhaseInv
    <2>2. /\ UNCHANGED <<settings, analysis, results, ids, ingestVars, payload, published>>
          /\ searched' = searched /\ pc' \in {"validate", "rejected"}
      BY <1>2 DEF Connect
    <2> QED  BY <1>1, <2>1, <2>2, OtherStepsInv
  <1>3. CASE Validate
    <2>1. pc = "validate" /\ ids = 0 /\ searched = 0
      BY <1>3 DEF Validate, IInv, PhaseInv
    <2>2. /\ UNCHANGED <<settings, analysis, results, ids, ingestVars, payload, published>>
          /\ searched' = searched /\ pc' \in {"execute", "rejected"}
      BY <1>3 DEF Validate
    <2> QED  BY <1>1, <2>1, <2>2, OtherStepsInv
  <1>4. CASE ExecuteFails
    <2>1. /\ NextAnalysis /\ UNCHANGED <<settings, payload, published>>
          /\ analysis <= Len(Analyses)
      BY <1>4 DEF ExecuteFails
    <2>2. analysis <= 3
      BY <2>1, AnalysesFacts DEF IInv, TypeOK
    <2> QED  BY <2>1, <2>2, AnalysisEnds
  <1>5. CASE Execute
    BY <1>5, ExecuteInv
  <1>6. CASE AllAnalysesDone
    <2>1. /\ UNCHANGED <<settings, analysis, results, ids, ingestVars, payload, published>>
          /\ searched' = searched /\ pc = "execute" /\ pc' = "done"
      BY <1>6 DEF AllAnalysesDone
    <2> QED  BY <1>1, <2>1, OtherStepsInv
  <1>7. CASE PlansFail
    BY <1>7, PlansFailInv
  <1>8. CASE PlansFetched
    BY <1>8, PlansFetchedInv
  <1>9. CASE PlanTextMissing
    <2>1. /\ UNCHANGED <<settings, analysis, results, ids, ingestVars, payload, published>>
          /\ searched' = IdsThatFit(ids) /\ pc = "plans" /\ pc' = "crashed"
      BY <1>9 DEF PlanTextMissing
    <2>2. searched' \in 0..ids
      BY <1>1, <2>1, AtMostBounds DEF IdsThatFit
    <2> QED  BY <2>1, <2>2, OtherStepsInv
  <1>10. CASE Ingested
    BY <1>10, IngestionEnds DEF Ingested, settings
  <1>11. CASE RecordBatch
    BY <1>11, RecordBatchInv
  <1>12. CASE EntityFails
    <2>1. /\ UNCHANGED <<settings, analysis, results, ids, ingestVars, payload, published>>
          /\ searched' = searched /\ pc = "ingest" /\ pc' = "crashed"
      BY <1>12 DEF EntityFails
    <2> QED  BY <1>1, <2>1, OtherStepsInv
  <1>13. CASE PublishSucceeds
    BY <1>13, PublishSucceedsInv
  <1>14. CASE PublishFails
    BY <1>14, IngestionEnds DEF PublishFails, settings
  <1>15. CASE UNCHANGED vars
    <2>1. /\ UNCHANGED <<dmvOnly, count, pc, analysis, results, ids, searched>>
          /\ UNCHANGED <<ingesting, total, start, payload, published>>
      BY <1>15 DEF vars
    <2>2. Analyses' = Analyses /\ (\A e : Position(e)' = Position(e)) /\ CurrentBatch' = CurrentBatch
      BY <2>1 DEF Analyses, Position, CurrentBatch
    <2>3. TypeOK' /\ PhaseInv'
      BY <2>1, <2>2 DEF IInv, TypeOK, PhaseInv
    <2>4. TurnInv' /\ ProgressInv'
      BY <2>1, <2>2 DEF IInv, TurnInv, ProgressInv
    <2>5. BatchesInv'
      BY <2>1 DEF IInv, BatchesInv, Overlap
    <2> QED  BY <2>3, <2>4, <2>5 DEF IInv
  <1> QED
    BY <1>2, <1>3, <1>4, <1>5, <1>6, <1>7, <1>8, <1>9, <1>10, <1>11, <1>12, <1>13, <1>14, <1>15
    DEF Next, Step, Finished

(* IInv is inductive.                                                      *)
THEOREM Invariance == Spec => []IInv
  BY InitInv, NextInv, PTL DEF Spec

(* The analyses publish what they found completely as far as they got, and *)
(* never twice: RowsIngestedOnce.                                          *)
THEOREM IngestedOnce == Spec => []RowsIngestedOnce
  <1>1. IInv => RowsIngestedOnce
    BY DEF IInv, BatchesInv, RowsIngestedOnce
  <1> QED  BY <1>1, Invariance, PTL

(* The published rows of an event have no gap.                             *)
THEOREM WithoutGap == Spec => []PublishedWithoutGap
  <1>1. IInv => PublishedWithoutGap
    BY DEF IInv, BatchesInv, PublishedWithoutGap
  <1> QED  BY <1>1, Invariance, PTL

(* What failed publications leave behind stays bounded.                    *)
THEOREM LeftoversBounded == Spec => []OneBatchHeldPerEvent
  <1>1. IInv => OneBatchHeldPerEvent
    BY DEF IInv, BatchesInv, OneBatchHeldPerEvent
  <1> QED  BY <1>1, Invariance, PTL

-----------------------------------------------------------------------------
(* The limits of the mode without history, an invariant on top of IInv.    *)

LEMMA InitLimits == Init => LimitsInv
  <1> SUFFICES ASSUME Init PROVE LimitsInv
    OBVIOUS
  <1>1. count \in {ValidCount(c) : c \in CountThresholds}
    BY DEF Init
  <1>2. \A c \in Int : ValidCount(c) \in Nat /\ ValidCount(c) <= GroupedQueryCountMax
    BY DEF ValidCount, SlowQueryCountThresholdDefault, GroupedQueryCountMax
  <1>3. count \in Nat /\ count <= GroupedQueryCountMax
    BY <1>1, <1>2, CountAssumption
  <1> QED  BY <1>3 DEF Init, LimitsInv

LEMMA KeptLimits ==
  ASSUME TypeOK, dmvOnly, count <= GroupedQueryCountMax, NEW i \in 1..3, NEW n \in Nat
  PROVE  /\ count # 0 => Kept(Analyses[i], n) <= count
         /\ Analyses[i] = SlowQueries => Kept(Analyses[i], n) <= 50
  <1>1. count \in Nat /\ count <= 30
    BY DEF TypeOK, GroupedQueryCountMax
  <1>2. Analyses[i] \in {SlowQueries, WaitAnalysis, BlockingSessions}
    BY AnalysesFacts DEF TypeOK, Events
  <1>3. \A bound \in Nat : AtMost(bound, n) <= bound
    BY AtMostBounds
  <1>4. BlockingSessionsKept(n) <= count
    BY <1>1, <1>3 DEF BlockingSessionsKept
  <1>5. count # 0 => WaitAnalysisDMV(n) <= count /\ SlowQueriesDMV(n) <= count
    BY <1>1, <1>3 DEF WaitAnalysisDMV, SlowQueriesDMV
  <1>6. SlowQueriesDMV(n) <= 50
    <2>1. CASE count = 0
      BY <1>3, <2>1 DEF SlowQueriesDMV
    <2>2. CASE count # 0
      <3>1. SlowQueriesDMV(n) = AtMost(count, n) /\ AtMost(count, n) <= count /\ AtMost(count, n) \in Nat
        BY <1>1, <1>3, <2>2, AtMostBounds DEF SlowQueriesDMV
      <3> QED  BY <1>1, <3>1
    <2> QED  BY <2>1, <2>2
  <1> QED
    BY <1>2, <1>4, <1>5, <1>6 DEF Kept, SlowQueries, WaitAnalysis, BlockingSessions

LEMMA ExecuteLimits == IInv /\ LimitsInv /\ Execute => LimitsInv'
  <1> SUFFICES ASSUME IInv, LimitsInv, Execute PROVE LimitsInv'
    OBVIOUS
  <1> DEFINE event == Analyses[analysis]
  <1>1. analysis \in 1..3 /\ searched = 0 /\ dmvOnly \in BOOLEAN
    <2>1. /\ dmvOnly \in BOOLEAN /\ analysis \in 1..(Len(Analyses) + 1)
          /\ pc = "execute" /\ analysis <= Len(Analyses)
      BY DEF IInv, TypeOK, Execute
    <2>2. searched = 0
      BY <2>1 DEF IInv, PhaseInv
    <2>3. Len(Analyses) = 3
      BY <2>1, AnalysesFacts
    <2> QED  BY <2>1, <2>2, <2>3
  <1>2. /\ dmvOnly' = dmvOnly /\ count' = count /\ searched' = 0
        /\ payload' = payload /\ published' = published
    BY <1>1 DEF Execute, settings
  <1>3. PICK n \in RowCounts : results' = Kept(event, n)
    BY DEF Execute
  <1>4. results' \in Nat
    BY <1>1, <1>3, KeptType, RowCountsAssumption DEF IInv
  <1>5. /\ ids' \in RowCounts \union {0, results'}
        /\ ids' <= results'
        /\ event # SlowQueries => ids' = 0
    BY DEF Execute
  <1>6. dmvOnly => /\ count # 0 => results' <= count
                   /\ event = SlowQueries => results' <= 50
    BY <1>1, <1>3, KeptLimits, RowCountsAssumption DEF IInv, LimitsInv
  <1>7. dmvOnly => ids' <= 50
    <2>1. ids' \in Nat
      BY <1>4, <1>5, RowCountsAssumption
    <2> HIDE DEF event
    <2> QED  BY <1>4, <1>5, <1>6, <2>1
  <1>8. pc' \in {"ingest", "publish"} => total' = results'
    BY DEF Execute, StartIngest
  <1> QED  BY <1>2, <1>6, <1>7, <1>8 DEF LimitsInv

\* A step that keeps what the analysis found, and records no batch.
LEMMA LimitsKept ==
  ASSUME LimitsInv,
         UNCHANGED <<settings, results, ids>>,
         searched' \in {searched, ids},
         payload' \union published' \subseteq payload \union published,
         pc' \in {"ingest", "publish"} /\ ingesting' # ExecutionPlans => total' = results
  PROVE  LimitsInv'
  <1>1. dmvOnly' = dmvOnly /\ count' = count
    BY DEF settings
  <1> QED  BY <1>1 DEF LimitsInv

LEMMA AnalysisEndsLimits ==
  ASSUME IInv, LimitsInv, NextAnalysis, UNCHANGED <<settings, published>>, payload' \in {payload, {}}
  PROVE  LimitsInv'
  <1>1. /\ dmvOnly' = dmvOnly /\ count' = count
        /\ pc' = "execute" /\ results' = 0 /\ ids' = 0 /\ searched' = 0
    BY DEF NextAnalysis, settings
  <1>2. count \in Nat
    BY DEF IInv, TypeOK
  <1> QED  BY <1>1, <1>2 DEF LimitsInv

LEMMA IngestionEndsLimits ==
  ASSUME IInv, LimitsInv, AfterIngest, UNCHANGED <<settings, published>>, payload' \in {payload, {}}
  PROVE  LimitsInv'
  <1>1. CASE /\ StartIngest(SlowQueries, results)
             /\ UNCHANGED <<analysis, results, ids, searched>>
    BY <1>1, LimitsKept DEF StartIngest
  <1>2. CASE NextAnalysis
    BY <1>2, AnalysisEndsLimits
  <1> QED  BY <1>1, <1>2 DEF AfterIngest

LEMMA RecordBatchLimits == IInv /\ LimitsInv /\ RecordBatch => LimitsInv'
  <1> SUFFICES ASSUME IInv, LimitsInv, RecordBatch PROVE LimitsInv'
    OBVIOUS
  <1>1. /\ pc = "ingest" /\ start < total
        /\ payload' = payload \union {CurrentBatch} /\ published' = published
        /\ dmvOnly' = dmvOnly /\ count' = count
        /\ UNCHANGED <<results, ids, searched, ingesting, total>>
    BY DEF RecordBatch, settings, ingestVars
  <1>2. /\ CurrentBatch.event = ingesting /\ CurrentBatch.last <= total
        /\ CurrentBatch.last \in Nat /\ total \in Nat /\ count \in Nat
    BY <1>1, CurrentBatchFacts DEF IInv, TypeOK, Batches
  <1>3. dmvOnly /\ count # 0 /\ ingesting # ExecutionPlans => CurrentBatch.last <= count
    <2>1. dmvOnly /\ count # 0 /\ ingesting # ExecutionPlans => total <= count
      BY <1>1 DEF LimitsInv
    <2> QED  BY <1>2, <2>1
  <1> QED  BY <1>1, <1>2, <1>3 DEF LimitsInv

LEMMA NextLimits == IInv /\ LimitsInv /\ [Next]_vars => LimitsInv'
  <1> SUFFICES ASSUME IInv, LimitsInv, [Next]_vars PROVE LimitsInv'
    OBVIOUS
  <1>1. ids \in Nat /\ count \in Nat
    BY DEF IInv, TypeOK
  <1>2. CASE Connect
    BY <1>2, LimitsKept DEF Connect, settings
  <1>3. CASE Validate
    BY <1>3, LimitsKept DEF Validate, settings
  <1>4. CASE ExecuteFails
    BY <1>4, AnalysisEndsLimits DEF ExecuteFails, settings
  <1>5. CASE Execute
    BY <1>5, ExecuteLimits
  <1>6. CASE AllAnalysesDone
    BY <1>6, LimitsKept DEF AllAnalysesDone, settings
  <1>7. CASE PlansFail
    BY <1>7, LimitsKept DEF PlansFail, StartIngest, settings
  <1>8. CASE PlansFetched
    <2>1. /\ UNCHANGED <<settings, results, ids, payload, published>>
          /\ ingesting' = ExecutionPlans /\ searched' = AtMost(52, ids)
      BY <1>8 DEF PlansFetched, StartIngest, IdsThatFit
    <2>2. ids <= 50 => AtMost(52, ids) = ids
      BY <1>1 DEF AtMost
    <2> QED  BY <2>1, <2>2 DEF LimitsInv, settings
  <1>9. CASE PlanTextMissing
    <2>1. /\ UNCHANGED <<settings, results, ids, payload, published>>
          /\ pc' = "crashed" /\ searched' = AtMost(52, ids)
      BY <1>9 DEF PlanTextMissing, IdsThatFit
    <2>2. ids <= 50 => AtMost(52, ids) = ids
      BY <1>1 DEF AtMost
    <2> QED  BY <2>1, <2>2 DEF LimitsInv, settings
  <1>10. CASE Ingested
    BY <1>10, IngestionEndsLimits DEF Ingested, settings
  <1>11. CASE RecordBatch
    BY <1>11, RecordBatchLimits
  <1>12. CASE EntityFails
    BY <1>12, LimitsKept DEF EntityFails, settings
  <1>13. CASE PublishSucceeds
    <2>1. /\ UNCHANGED <<settings, results, ids, searched, ingesting, total>>
          /\ pc = "publish" /\ payload' \union published' = payload \union published
      BY <1>13 DEF PublishSucceeds
    <2> QED  BY <2>1, LimitsKept DEF LimitsInv
  <1>14. CASE PublishFails
    BY <1>14, IngestionEndsLimits DEF PublishFails, settings
  <1>15. CASE UNCHANGED vars
    BY <1>15 DEF vars, LimitsInv
  <1> QED
    BY <1>2, <1>3, <1>4, <1>5, <1>6, <1>7, <1>8, <1>9, <1>10, <1>11, <1>12, <1>13, <1>14, <1>15
    DEF Next, Step, Finished

(* The limits hold in every reachable state.                               *)
THEOREM LimitsInvariance == Spec => []LimitsInv
  BY InitLimits, NextLimits, Invariance, PTL DEF Spec

(* With the history off every grouped event respects the count threshold.  *)
THEOREM CountIsRespected == Spec => []CountRespectedFromDMVs
  <1>1. LimitsInv => CountRespectedFromDMVs
    BY DEF LimitsInv, CountRespectedFromDMVs, CountRespected, BatchesOf
  <1> QED  BY <1>1, LimitsInvariance, PTL

(* With the history off the plan statement looks for every identifier.     *)
THEOREM NoIdCutOff == Spec => []PlansForAllIdsFromDMVs
  <1>1. LimitsInv => PlansForAllIdsFromDMVs
    BY DEF LimitsInv, PlansForAllIdsFromDMVs, PlansForAllIds
  <1> QED  BY <1>1, LimitsInvariance, PTL
=============================================================================
