------------------------ MODULE InstanceMetricsProofs ------------------------
(***************************************************************************)
(* Theorems of InstanceMetrics, for any custom queries, results and number *)
(* of rows.  The wait group counts the goroutines that still run           *)
(* (WaitGroupInv), only a goroutine that fills a metric set leaves one     *)
(* unfinished (SamplesInv) and only one that reads holds a connection      *)
(* (PoolInv); so when the wait group is at zero, PopulateInstanceMetrics   *)
(* leaves nothing behind.                                                  *)
(***************************************************************************)
EXTENDS InstanceMetrics, CustomQueryRowProofs

LiveYaml == {q \in YamlQueries : Live(q)}

LEMMA LiveFinite ==
  /\ IsFiniteSet(LiveYaml) /\ Cardinality(LiveYaml) \in Nat
  BY QueriesAssumption, FS_Subset, FS_CardinalityType DEF LiveYaml

LEMMA CollectionListType ==
  ASSUME NEW edition
  PROVE  collectionList(edition) \in Seq(InstanceQueries)
  <1> DEFINE M == MemoryDefinitions(edition)
             B == IF EnableBufferMetrics THEN instanceBufferDefinitions ELSE << >>
             D == IF EnableDiskMetricsInBytes THEN diskMetricInBytesDefinition ELSE << >>
  <1>1. instanceDefinitions \in Seq(InstanceQueries)
    BY DEF instanceDefinitions, InstanceQueries
  <1>2. M \in Seq(InstanceQueries)
    BY DEF MemoryDefinitions, instanceMemoryDefinitions, InstanceQueries
  <1>3. B \in Seq(InstanceQueries)
    <2>1. instanceBufferDefinitions \in Seq(InstanceQueries) /\ << >> \in Seq(InstanceQueries)
      BY DEF instanceBufferDefinitions, InstanceQueries
    <2> QED  BY <2>1
  <1>4. D \in Seq(InstanceQueries)
    <2>1. diskMetricInBytesDefinition \in Seq(InstanceQueries) /\ << >> \in Seq(InstanceQueries)
      BY DEF diskMetricInBytesDefinition, InstanceQueries
    <2> QED  BY <2>1
  <1>5. collectionList(edition) = instanceDefinitions \o M \o B \o D
    BY DEF collectionList
  <1> HIDE DEF M, B, D
  <1> QED  BY <1>1, <1>2, <1>3, <1>4, <1>5

LEMMA InitInv == Init => GoroutinesInv
  <1> SUFFICES ASSUME Init PROVE GoroutinesInv
    OBVIOUS
  <1>1. \A q \in CustomQueries : worker[q] = "none" /\ ~Live(q)
    BY DEF Init, Live
  <1>2. TypeOK
    <2>1. pending \in Seq(InstanceQueries)
      BY CollectionListType DEF Init
    <2>2. waits \in 0..MaxWaits /\ read \in [CustomQueries -> 0..MaxRows]
      BY BoundsAssumption DEF Init
    <2> QED  BY <2>1, <2>2 DEF Init, TypeOK, MainStates, WorkerStates
  <1>3. WaitGroupInv
    <2>1. {q \in YamlQueries : Live(q)} = {}
      BY <1>1 DEF CustomQueries
    <2> QED  BY <2>1, FS_EmptySet DEF Init, WaitGroupInv
  <1>4. PoolInv
    BY <1>1 DEF Init, PoolInv
  <1>5. PhaseInv
    BY <1>1 DEF Init, PhaseInv
  <1>6. SamplesInv
    BY DEF Init, SamplesInv
  <1> QED  BY <1>2, <1>3, <1>4, <1>5, <1>6 DEF GoroutinesInv

-----------------------------------------------------------------------------
(* The calling goroutine.                                                  *)

\* Steps that leave the goroutines and what they share alone.
LEMMA CustomKept ==
  ASSUME GoroutinesInv, UNCHANGED <<wg, customVars>>
  PROVE  /\ WaitGroupInv' /\ PoolInv' /\ SamplesInv'
         /\ \A q \in CustomQueries : Live(q)' = Live(q) /\ worker'[q] = worker[q]
         /\ UNCHANGED <<wg, worker, conns, columns, read, samples>>
  <1>1. UNCHANGED <<wg, worker, conns, columns, read, samples>>
    BY DEF customVars
  <1>2. \A q \in CustomQueries : Live(q)' = Live(q) /\ worker'[q] = worker[q]
    BY <1>1 DEF Live
  <1>3. WaitGroupInv'
    BY <1>1 DEF GoroutinesInv, WaitGroupInv, Live
  <1> QED  BY <1>1, <1>2, <1>3 DEF GoroutinesInv, PoolInv, SamplesInv

LEMMA QueriesInv ==
    GoroutinesInv /\ (SkipInstanceQuery \/ RunInstanceQuery \/ InstanceQueriesDone \/ PopulateWaitTimeMetrics) => GoroutinesInv'
  <1> SUFFICES ASSUME GoroutinesInv,
                      SkipInstanceQuery \/ RunInstanceQuery \/ InstanceQueriesDone \/ PopulateWaitTimeMetrics
               PROVE  GoroutinesInv'
    OBVIOUS
  <1>1. /\ main \in {"queries", "waits"} /\ main' \in {"queries", "waits", "custom"}
        /\ UNCHANGED <<engineEdition, source, unspawned>>
        /\ UNCHANGED <<wg, customVars>>
    BY DEF SkipInstanceQuery, RunInstanceQuery, InstanceQueriesDone, PopulateWaitTimeMetrics, instanceVars
  <1>2. /\ pending' \in Seq(InstanceQueries) /\ asked' \subseteq InstanceQueries
        /\ sample' \subseteq asked' /\ waits' \in 0..MaxWaits
    <2>0. /\ pending \in Seq(InstanceQueries) /\ asked \subseteq InstanceQueries
          /\ sample \subseteq asked /\ waits \in 0..MaxWaits
      BY DEF GoroutinesInv, TypeOK
    <2>1. CASE SkipInstanceQuery
      BY <2>0, <2>1 DEF SkipInstanceQuery
    <2>2. CASE RunInstanceQuery
      <3>1. Head(pending) \in InstanceQueries /\ Tail(pending) \in Seq(InstanceQueries)
        BY <2>0, <2>2 DEF RunInstanceQuery
      <3> QED  BY <2>0, <2>2, <3>1 DEF RunInstanceQuery
    <2>3. CASE InstanceQueriesDone
      BY <2>0, <2>3 DEF InstanceQueriesDone, instanceVars
    <2>4. CASE PopulateWaitTimeMetrics
      BY <2>0, <2>4 DEF PopulateWaitTimeMetrics
    <2> QED  BY <2>1, <2>2, <2>3, <2>4
  <1>3. TypeOK'
    BY <1>1, <1>2, CustomKept DEF GoroutinesInv, TypeOK, MainStates
  <1>4. PhaseInv'
    BY <1>1, CustomKept DEF GoroutinesInv, PhaseInv
  <1> QED  BY <1>1, <1>3, <1>4, CustomKept DEF GoroutinesInv

\* The steps between the phases.
LEMMA PhaseSteps ==
    GoroutinesInv /\ (NoCustomQueries \/ ParseCustomQueries \/ AllSpawned \/ Join) => GoroutinesInv'
  <1> SUFFICES ASSUME GoroutinesInv, NoCustomQueries \/ ParseCustomQueries \/ AllSpawned \/ Join
               PROVE  GoroutinesInv'
    OBVIOUS
  <1>1. /\ main' \in {"returned", "spawn", "join"}
        /\ UNCHANGED <<engineEdition, source, pending, asked, sample, waits>>
        /\ UNCHANGED <<wg, customVars>>
    BY DEF NoCustomQueries, ParseCustomQueries, AllSpawned, Join, instanceVars
  <1>2. unspawned' \subseteq YamlQueries
    BY DEF GoroutinesInv, TypeOK, NoCustomQueries, ParseCustomQueries, AllSpawned, Join
  <1>3. TypeOK'
    BY <1>1, <1>2, CustomKept DEF GoroutinesInv, TypeOK, MainStates
  <1>4. PhaseInv'
    <2>1. CASE NoCustomQueries
      BY <2>1, <1>1, CustomKept DEF GoroutinesInv, PhaseInv, NoCustomQueries
    <2>2. CASE ParseCustomQueries
      <3>1. CommandLine \in CustomQueries /\ YamlQueries \subseteq CustomQueries
        BY DEF CustomQueries
      <3>2. main = "custom" /\ main' = "spawn" /\ source' = "config"
        BY <2>2 DEF ParseCustomQueries
      <3>3. \A q \in CustomQueries : worker'[q] = "none"
        BY <1>1, <3>2, CustomKept DEF GoroutinesInv, PhaseInv
      <3> QED  BY <3>1, <3>2, <3>3, <1>2 DEF PhaseInv
    <2>3. CASE AllSpawned
      BY <2>3, <1>1, CustomKept DEF GoroutinesInv, PhaseInv, AllSpawned
    <2>4. CASE Join
      <3>1. main = "join" /\ main' = "returned" /\ wg = 0 /\ unspawned' = {}
        BY <2>4 DEF Join, GoroutinesInv, PhaseInv
      <3>2. LiveYaml = {}
        BY <3>1, LiveFinite, FS_EmptySet DEF GoroutinesInv, WaitGroupInv, LiveYaml
      <3>3. \A q \in YamlQueries : worker[q] \in {"none", "exited"}
        BY <3>2 DEF LiveYaml, Live, GoroutinesInv, TypeOK, WorkerStates, CustomQueries
      <3>4. worker[CommandLine] = "none"
        BY <3>1 DEF GoroutinesInv, PhaseInv
      <3>5. \A q \in CustomQueries : worker'[q] \in {"none", "exited"}
        BY <3>3, <3>4, <1>1, CustomKept DEF CustomQueries
      <3> QED  BY <3>1, <3>5 DEF PhaseInv
    <2> QED  BY <2>1, <2>2, <2>3, <2>4
  <1> QED  BY <1>1, <1>3, <1>4, CustomKept DEF GoroutinesInv

\* A query's state changes, its goroutine neither starting nor ending to fill
\* a metric set or to hold a connection.
LEMMA WorkerMoves ==
  ASSUME GoroutinesInv, NEW q \in CustomQueries, NEW w \in WorkerStates,
         worker' = [worker EXCEPT ![q] = w]
  PROVE  /\ worker' \in [CustomQueries -> WorkerStates]
         /\ worker'[q] = w
         /\ \A r \in CustomQueries : r # q => worker'[r] = worker[r] /\ Live(r)' = Live(r)
         /\ Live(q)' <=> w \in {"query", "rows", "fill", "signal"}
  <1>1. worker \in [CustomQueries -> WorkerStates]
    BY DEF GoroutinesInv, TypeOK
  <1> QED  BY <1>1 DEF Live

LEMMA SingleSteps == GoroutinesInv /\ (CallSingleQuery \/ SingleQueryReturns) => GoroutinesInv'
  <1> SUFFICES ASSUME GoroutinesInv, CallSingleQuery \/ SingleQueryReturns PROVE GoroutinesInv'
    OBVIOUS
  <1> DEFINE q == CommandLine
             w == IF CallSingleQuery THEN "query" ELSE "exited"
  <1>0. /\ q \in CustomQueries /\ YamlQueries \subseteq CustomQueries
        /\ \A r \in YamlQueries : r # q
        /\ \A r \in CustomQueries : r # q => r \in YamlQueries
    BY QueriesAssumption DEF CustomQueries
  <1>1. /\ UNCHANGED <<engineEdition, source, pending, asked, sample, waits, unspawned, wg>>
        /\ UNCHANGED <<conns, columns, read, samples>>
        /\ worker' = [worker EXCEPT ![q] = w] /\ w \in WorkerStates
        /\ main' \in {"single", "returned"}
    BY DEF CallSingleQuery, SingleQueryReturns, instanceVars, WorkerStates
  <1>2. \/ /\ main = "custom" /\ main' = "single" /\ w = "query" /\ worker[q] = "none"
           /\ \A r \in CustomQueries : worker[r] = "none"
        \/ /\ main = "single" /\ main' = "returned" /\ w = "exited" /\ worker[q] = "signal"
           /\ \A r \in YamlQueries : worker[r] = "none"
    <2>1. CASE CallSingleQuery
      <3>1. main = "custom" /\ main' = "single" /\ w = "query"
        BY <2>1 DEF CallSingleQuery
      <3>2. \A r \in CustomQueries : worker[r] = "none"
        BY <3>1 DEF GoroutinesInv, PhaseInv
      <3> QED  BY <1>0, <3>1, <3>2
    <2>2. CASE ~CallSingleQuery
      <3>1. main = "single" /\ main' = "returned" /\ w = "exited" /\ worker[q] = "signal"
        BY <2>2 DEF SingleQueryReturns
      <3> QED  BY <3>1 DEF GoroutinesInv, PhaseInv
    <2> QED  BY <2>1, <2>2
  <1> HIDE DEF w, q
  <1>3. /\ worker' \in [CustomQueries -> WorkerStates] /\ worker'[q] = w
        /\ \A r \in CustomQueries : r # q => worker'[r] = worker[r] /\ Live(r)' = Live(r)
        /\ Live(q)' <=> w \in {"query", "rows", "fill", "signal"}
    BY <1>0, <1>1, WorkerMoves
  <1>4. TypeOK'
    BY <1>1, <1>3 DEF GoroutinesInv, TypeOK, MainStates
  <1>5. WaitGroupInv'
    <2>1. {r \in YamlQueries : Live(r)}' = {r \in YamlQueries : Live(r)}
      BY <1>0, <1>3
    <2> QED  BY <1>1, <2>1 DEF GoroutinesInv, WaitGroupInv
  <1>6. PoolInv'
    BY <1>1, <1>2, <1>3 DEF GoroutinesInv, PoolInv
  <1>7. PhaseInv'
    <2>1. unspawned' = {}
      BY <1>1, <1>2 DEF GoroutinesInv, PhaseInv
    <2>2. \A r \in YamlQueries : worker'[r] = "none"
      BY <1>0, <1>2, <1>3
    <2>3. CASE main' = "single"
      BY <1>2, <1>3, <2>1, <2>2, <2>3 DEF PhaseInv, q
    <2>4. CASE main' = "returned"
      <3>1. \A r \in CustomQueries : worker'[r] \in {"none", "exited"}
        BY <1>0, <1>2, <1>3, <2>2, <2>4
      <3> QED  BY <3>1, <2>1, <2>4 DEF PhaseInv
    <2> QED  BY <1>1, <2>3, <2>4
  <1>8. SamplesInv'
    BY <1>1, <1>2, <1>3 DEF GoroutinesInv, SamplesInv, TypeOK
  <1> QED  BY <1>4, <1>5, <1>6, <1>7, <1>8 DEF GoroutinesInv

LEMMA SpawnInv ==
  ASSUME GoroutinesInv, NEW q \in YamlQueries, Spawn(q)
  PROVE  GoroutinesInv'
  <1>0. q \in CustomQueries /\ q # CommandLine /\ YamlQueries \subseteq CustomQueries
        /\ CommandLine \in CustomQueries
    BY QueriesAssumption DEF CustomQueries
  <1>1. /\ main = "spawn" /\ main' = "spawn" /\ q \in unspawned
        /\ unspawned' = unspawned \ {q} /\ wg' = wg + 1
        /\ worker' = [worker EXCEPT ![q] = "query"]
        /\ UNCHANGED <<engineEdition, source, pending, asked, sample, waits>>
        /\ UNCHANGED <<conns, columns, read, samples>>
    BY DEF Spawn, instanceVars
  <1>2. worker[q] = "none" /\ "query" \in WorkerStates
    BY <1>1 DEF GoroutinesInv, PhaseInv, WorkerStates
  <1>3. /\ worker' \in [CustomQueries -> WorkerStates] /\ worker'[q] = "query"
        /\ \A r \in CustomQueries : r # q => worker'[r] = worker[r] /\ Live(r)' = Live(r)
        /\ Live(q)'
    BY <1>0, <1>1, <1>2, WorkerMoves
  <1>4. TypeOK'
    BY <1>1, <1>3 DEF GoroutinesInv, TypeOK
  <1>5. WaitGroupInv'
    <2>1. LiveYaml' = LiveYaml \union {q} /\ q \notin LiveYaml
      BY <1>0, <1>2, <1>3 DEF LiveYaml, Live
    <2>2. Cardinality(LiveYaml') = Cardinality(LiveYaml) + 1
      BY <2>1, LiveFinite, FS_AddElement
    <2> QED  BY <1>1, <2>2 DEF GoroutinesInv, WaitGroupInv, LiveYaml
  <1>6. PoolInv'
    BY <1>1, <1>2, <1>3 DEF GoroutinesInv, PoolInv
  <1>7. PhaseInv'
    <2>1. \A r \in unspawned' : worker'[r] = "none"
      BY <1>0, <1>1, <1>3 DEF GoroutinesInv, PhaseInv, TypeOK
    <2>2. source' = "config" /\ worker'[CommandLine] = "none"
      BY <1>0, <1>1, <1>3 DEF GoroutinesInv, PhaseInv
    <2> QED  BY <1>1, <2>1, <2>2 DEF PhaseInv
  <1>8. SamplesInv'
    BY <1>1, <1>2, <1>3 DEF GoroutinesInv, SamplesInv, TypeOK
  <1> QED  BY <1>4, <1>5, <1>6, <1>7, <1>8 DEF GoroutinesInv

-----------------------------------------------------------------------------
(* populateCustomMetrics.                                                  *)

Reading == {"rows", "fill"}

\* A query that goes on or comes to its end stays counted, and holds a
\* connection exactly while it reads.
LEMMA QueryStep ==
  ASSUME GoroutinesInv, NEW q \in CustomQueries, worker[q] \in {"query", "rows", "fill"},
         NEW w \in {"query", "rows", "fill", "signal"},
         worker' = [worker EXCEPT ![q] = w],
         UNCHANGED <<engineEdition, source, main, instanceVars, unspawned, wg>>,
         conns' = IF w \in Reading THEN conns \union {q} ELSE conns \ {q},
         DOMAIN columns' = CustomQueries, read' \in [CustomQueries -> 0..MaxRows],
         \A s \in samples' : s.query \in CustomQueries /\ s.index \in 1..MaxRows /\ s.full \in BOOLEAN,
         SamplesInv'
  PROVE  GoroutinesInv'
  <1>1. UNCHANGED <<engineEdition, source, main, pending, asked, sample, waits, unspawned, wg>>
    BY DEF instanceVars
  <1>2. /\ worker' \in [CustomQueries -> WorkerStates] /\ worker'[q] = w
        /\ \A r \in CustomQueries : r # q => worker'[r] = worker[r] /\ Live(r)' = Live(r)
        /\ Live(q)'
    BY WorkerMoves DEF WorkerStates
  <1>3. TypeOK'
    BY <1>1, <1>2 DEF GoroutinesInv, TypeOK
  <1>4. WaitGroupInv'
    <2>1. Live(q)
      BY DEF Live
    <2>2. \A r \in YamlQueries : Live(r)' <=> Live(r)
      BY <1>2, <2>1 DEF CustomQueries
    <2>3. LiveYaml' = LiveYaml
      BY <2>2 DEF LiveYaml
    <2> QED  BY <1>1, <2>3 DEF GoroutinesInv, WaitGroupInv, LiveYaml
  <1>5. PoolInv'
    <2>1. conns = {r \in CustomQueries : worker[r] \in {"rows", "fill"}}
      BY DEF GoroutinesInv, PoolInv
    <2>2. CASE w \in Reading
      BY <1>2, <2>1, <2>2 DEF PoolInv, Reading
    <2>3. CASE w \notin Reading
      BY <1>2, <2>1, <2>3 DEF PoolInv, Reading
    <2> QED  BY <2>2, <2>3
  <1>6. PhaseInv'
    <2>1. main \in {"single", "spawn", "join"}
      BY DEF GoroutinesInv, PhaseInv, TypeOK, MainStates
    <2>2. q \notin unspawned
      BY DEF GoroutinesInv, PhaseInv
    <2>3. CASE main = "single"
      <3>1. q = CommandLine
        BY <2>3 DEF GoroutinesInv, PhaseInv, CustomQueries
      <3>2. \A r \in YamlQueries : worker'[r] = "none"
        BY <3>1, <1>2, <2>3, QueriesAssumption DEF GoroutinesInv, PhaseInv, CustomQueries
      <3> QED  BY <1>1, <1>2, <2>3, <3>1, <3>2 DEF GoroutinesInv, PhaseInv
    <2>4. CASE main \in {"spawn", "join"}
      <3>1. q # CommandLine /\ worker[CommandLine] = "none" /\ source = "config"
        BY <2>4 DEF GoroutinesInv, PhaseInv
      <3>2. worker'[CommandLine] = "none"
        BY <3>1, <1>2 DEF CustomQueries
      <3>3. \A r \in unspawned' : worker'[r] = "none"
        BY <1>1, <1>2, <2>2 DEF GoroutinesInv, PhaseInv, TypeOK, CustomQueries
      <3>4. main' # "spawn" => unspawned' = {}
        BY <1>1 DEF GoroutinesInv, PhaseInv
      <3> QED  BY <1>1, <2>4, <3>1, <3>2, <3>3, <3>4 DEF PhaseInv
    <2> QED  BY <2>1, <2>3, <2>4
  <1> QED  BY <1>3, <1>4, <1>5, <1>6 DEF GoroutinesInv

\* Steps that leave the metric sets alone.
LEMMA SamplesKept ==
  ASSUME GoroutinesInv, NEW q \in CustomQueries, worker[q] # "fill",
         NEW w \in WorkerStates, worker' = [worker EXCEPT ![q] = w],
         UNCHANGED <<read, samples>>
  PROVE  /\ SamplesInv'
         /\ read' \in [CustomQueries -> 0..MaxRows]
         /\ \A s \in samples' : s.query \in CustomQueries /\ s.index \in 1..MaxRows /\ s.full \in BOOLEAN
  <1>1. \A r \in CustomQueries : r # q => worker'[r] = worker[r]
    BY WorkerMoves
  <1> QED  BY <1>1 DEF GoroutinesInv, SamplesInv, TypeOK

LEMMA PlainStepsInv ==
  ASSUME GoroutinesInv, NEW q \in CustomQueries,
         QueryFails(q) \/ QuerySucceeds(q) \/ ScanFails(q) \/ RowsEnd(q)
  PROVE  GoroutinesInv'
  <1>0. DOMAIN columns = CustomQueries /\ conns = {r \in CustomQueries : worker[r] \in {"rows", "fill"}}
    BY DEF GoroutinesInv, TypeOK, PoolInv
  <1>1. CASE QueryFails(q)
    <2>1. /\ worker[q] = "query" /\ worker' = [worker EXCEPT ![q] = "signal"]
          /\ UNCHANGED <<engineEdition, source, main, instanceVars, unspawned, wg>>
          /\ UNCHANGED <<conns, columns>> /\ UNCHANGED <<read, samples>>
      BY <1>1 DEF QueryFails
    <2>2. conns' = conns \ {q}
      BY <1>0, <2>1
    <2> QED  BY <1>0, <2>1, <2>2, SamplesKept, QueryStep DEF Reading, WorkerStates
  <1>2. CASE QuerySucceeds(q)
    <2>1. /\ worker[q] = "query" /\ worker' = [worker EXCEPT ![q] = "rows"]
          /\ UNCHANGED <<engineEdition, source, main, instanceVars, unspawned, wg>>
          /\ conns' = conns \union {q} /\ UNCHANGED <<read, samples>>
      BY <1>2 DEF QuerySucceeds
    <2>2. DOMAIN columns' = CustomQueries
      BY <1>0, <1>2 DEF QuerySucceeds
    <2> QED  BY <2>1, <2>2, SamplesKept, QueryStep DEF Reading, WorkerStates
  <1>3. CASE ScanFails(q) \/ RowsEnd(q)
    <2>1. /\ worker[q] = "rows" /\ worker' = [worker EXCEPT ![q] = "signal"]
          /\ UNCHANGED <<engineEdition, source, main, instanceVars, unspawned, wg>>
          /\ conns' = conns \ {q} /\ columns' = columns /\ UNCHANGED <<read, samples>>
      BY <1>3 DEF ScanFails, RowsEnd
    <2> QED  BY <1>0, <2>1, SamplesKept, QueryStep DEF Reading, WorkerStates
  <1> QED  BY <1>1, <1>2, <1>3

LEMMA ScanRowInv ==
  ASSUME GoroutinesInv, NEW q \in CustomQueries, ScanRow(q)
  PROVE  GoroutinesInv'
  <1>1. PICK row \in RowsWith(columns[q]) :
          samples' = samples \union
            {[query |-> q, index |-> read[q] + 1, row |-> row, full |-> FALSE, metrics |-> {}]}
    BY DEF ScanRow
  <1>2. /\ worker[q] = "rows" /\ worker' = [worker EXCEPT ![q] = "fill"]
        /\ read[q] < MaxRows /\ read' = [read EXCEPT ![q] = @ + 1]
        /\ conns' = conns /\ columns' = columns
        /\ UNCHANGED <<engineEdition, source, main, instanceVars, unspawned, wg>>
    BY DEF ScanRow
  <1>3. /\ DOMAIN columns = CustomQueries /\ conns = {r \in CustomQueries : worker[r] \in {"rows", "fill"}}
        /\ read \in [CustomQueries -> 0..MaxRows] /\ MaxRows \in Nat
        /\ \A s \in samples : s.query \in CustomQueries /\ s.index \in 1..MaxRows /\ s.full \in BOOLEAN
        /\ \A s \in samples : s.index <= read[s.query]
        /\ \A s, t \in samples : s.query = t.query /\ s.index = t.index => s = t
        /\ \A s \in samples : ~s.full => worker[s.query] = "fill" /\ s.index = read[s.query]
    BY BoundsAssumption DEF GoroutinesInv, TypeOK, PoolInv, SamplesInv
  <1>4. /\ read' \in [CustomQueries -> 0..MaxRows] /\ read'[q] = read[q] + 1
        /\ \A r \in CustomQueries : r # q => read'[r] = read[r]
    BY <1>2, <1>3
  <1>5. /\ worker'[q] = "fill" /\ \A r \in CustomQueries : r # q => worker'[r] = worker[r]
    BY <1>2, WorkerMoves DEF WorkerStates
  <1> DEFINE new == [query |-> q, index |-> read[q] + 1, row |-> row, full |-> FALSE, metrics |-> {}]
  <1>6. new.query = q /\ new.index = read[q] + 1 /\ new.full = FALSE /\ samples' = samples \union {new}
    BY <1>1
  <1> HIDE DEF new
  <1>7. \A s \in samples' : s.query \in CustomQueries /\ s.index \in 1..MaxRows /\ s.full \in BOOLEAN
    <2>1. read[q] \in 0..MaxRows
      BY <1>3
    <2>2. new.index \in 1..MaxRows
      BY <1>2, <1>3, <1>6, <2>1
    <2> QED  BY <1>3, <1>6, <2>2
  <1>8. SamplesInv'
    <2>1. \A s \in samples' : s.index <= read'[s.query]
      BY <1>3, <1>4, <1>6
    <2>2. \A s \in samples : s.query = q => s.index # read[q] + 1
      BY <1>3
    <2>3. \A s, t \in samples' : s.query = t.query /\ s.index = t.index => s = t
      BY <1>3, <1>6, <2>2
    <2>4. \A s \in samples' : ~s.full => worker'[s.query] = "fill" /\ s.index = read'[s.query]
      BY <1>2, <1>3, <1>4, <1>5, <1>6
    <2> QED  BY <2>1, <2>3, <2>4 DEF SamplesInv
  <1>9. conns' = conns \union {q}
    BY <1>2, <1>3
  <1> QED  BY <1>2, <1>3, <1>4, <1>7, <1>8, <1>9, QueryStep DEF Reading

LEMMA FillSampleInv ==
  ASSUME GoroutinesInv, NEW q \in CustomQueries, FillSample(q)
  PROVE  GoroutinesInv'
  <1> DEFINE filled(s) ==
        [query |-> q, index |-> s.index, row |-> s.row, full |-> TRUE,
         metrics |-> {e \in metricsFromCustomQueryRow(s.row, columns[q], Definition[q]) :
                          SetMetricAccepts(e)}]
  <1>1. PICK s \in samples : s.query = q /\ ~s.full /\ samples' = (samples \ {s}) \union {filled(s)}
    BY DEF FillSample
  <1>2. filled(s).query = q /\ filled(s).index = s.index /\ filled(s).full = TRUE
    OBVIOUS
  <1> HIDE DEF filled
  <1>3. /\ worker[q] = "fill" /\ worker' = [worker EXCEPT ![q] = "rows"]
        /\ conns' = conns /\ columns' = columns /\ read' = read
        /\ UNCHANGED <<engineEdition, source, main, instanceVars, unspawned, wg>>
    BY DEF FillSample
  <1>4. /\ DOMAIN columns = CustomQueries /\ conns = {r \in CustomQueries : worker[r] \in {"rows", "fill"}}
        /\ read \in [CustomQueries -> 0..MaxRows]
        /\ \A t \in samples : t.query \in CustomQueries /\ t.index \in 1..MaxRows /\ t.full \in BOOLEAN
        /\ \A t \in samples : t.index <= read[t.query]
        /\ \A t, u \in samples : t.query = u.query /\ t.index = u.index => t = u
        /\ \A t \in samples : ~t.full => worker[t.query] = "fill" /\ t.index = read[t.query]
    BY DEF GoroutinesInv, TypeOK, PoolInv, SamplesInv
  <1>5. \A r \in CustomQueries : r # q => worker'[r] = worker[r]
    BY <1>3, WorkerMoves DEF WorkerStates
  <1>6. \A t \in samples' : t.query \in CustomQueries /\ t.index \in 1..MaxRows /\ t.full \in BOOLEAN
    BY <1>1, <1>2, <1>4
  <1>7. SamplesInv'
    <2>1. \A t \in samples' : t.index <= read'[t.query]
      BY <1>1, <1>2, <1>3, <1>4
    <2>2. \A t \in samples \ {s} : t.query = q => t.index # s.index
      BY <1>1, <1>4
    <2>3. \A t, u \in samples' : t.query = u.query /\ t.index = u.index => t = u
      BY <1>1, <1>2, <1>4, <2>2
    <2>4. \A t \in samples \ {s} : ~t.full => t.query # q
      BY <1>1, <1>4, <2>2
    <2>5. \A t \in samples' : ~t.full => worker'[t.query] = "fill" /\ t.index = read'[t.query]
      BY <1>1, <1>2, <1>3, <1>4, <1>5, <2>4
    <2> QED  BY <2>1, <2>3, <2>5 DEF SamplesInv
  <1>8. conns' = conns \union {q}
    BY <1>3, <1>4
  <1> QED  BY <1>3, <1>4, <1>6, <1>7, <1>8, QueryStep DEF Reading

LEMMA DoneInv ==
  ASSUME GoroutinesInv, NEW q \in CustomQueries, Done(q)
  PROVE  GoroutinesInv'
  <1>0. /\ q \in YamlQueries /\ q # CommandLine /\ CommandLine \in CustomQueries
        /\ YamlQueries \subseteq CustomQueries
    BY QueriesAssumption DEF Done, CustomQueries
  <1>1. /\ worker[q] = "signal" /\ wg' = wg - 1
        /\ worker' = [worker EXCEPT ![q] = "exited"]
        /\ UNCHANGED <<engineEdition, source, main, pending, asked, sample, waits, unspawned>>
        /\ UNCHANGED <<conns, columns>> /\ UNCHANGED <<read, samples>>
    BY DEF Done, instanceVars
  <1>2. /\ worker' \in [CustomQueries -> WorkerStates] /\ worker'[q] = "exited"
        /\ \A r \in CustomQueries : r # q => worker'[r] = worker[r] /\ Live(r)' = Live(r)
        /\ ~Live(q)'
    BY <1>1, WorkerMoves DEF WorkerStates
  <1>3. /\ LiveYaml' = LiveYaml \ {q} /\ q \in LiveYaml
    BY <1>0, <1>1, <1>2 DEF LiveYaml, Live
  <1>4. WaitGroupInv' /\ wg' \in Nat
    <2>1. Cardinality(LiveYaml') = Cardinality(LiveYaml) - 1 /\ IsFiniteSet(LiveYaml')
      BY <1>3, LiveFinite, FS_RemoveElement
    <2>2. Cardinality(LiveYaml') \in Nat
      BY <2>1, FS_CardinalityType
    <2> QED  BY <1>1, <2>1, <2>2 DEF GoroutinesInv, WaitGroupInv, LiveYaml
  <1>5. TypeOK'
    BY <1>1, <1>2, <1>4 DEF GoroutinesInv, TypeOK
  <1>6. PoolInv'
    BY <1>1, <1>2 DEF GoroutinesInv, PoolInv
  <1>7. PhaseInv'
    <2>1. main \in {"spawn", "join"}
      BY <1>0, <1>1 DEF GoroutinesInv, PhaseInv, TypeOK, MainStates
    <2>2. q \notin unspawned
      BY <1>1 DEF GoroutinesInv, PhaseInv
    <2>3. worker'[CommandLine] = "none" /\ source = "config"
      BY <1>0, <1>2, <2>1 DEF GoroutinesInv, PhaseInv
    <2>4. \A r \in unspawned' : worker'[r] = "none"
      BY <1>0, <1>1, <1>2, <2>2 DEF GoroutinesInv, PhaseInv, TypeOK
    <2>5. main' # "spawn" => unspawned' = {}
      BY <1>1 DEF GoroutinesInv, PhaseInv
    <2> QED  BY <1>1, <2>1, <2>3, <2>4, <2>5 DEF PhaseInv
  <1>8. SamplesInv'
    BY <1>1, SamplesKept DEF WorkerStates
  <1> QED  BY <1>4, <1>5, <1>6, <1>7, <1>8 DEF GoroutinesInv

-----------------------------------------------------------------------------
(* The invariant and the property.                                         *)

LEMMA StutterInv == GoroutinesInv /\ UNCHANGED vars => GoroutinesInv'
  <1> SUFFICES ASSUME GoroutinesInv, UNCHANGED vars PROVE GoroutinesInv'
    OBVIOUS
  <1>1. /\ UNCHANGED <<engineEdition, source, main, pending, asked, sample, waits, unspawned>>
        /\ UNCHANGED <<wg, customVars>>
    BY DEF vars, instanceVars
  <1>2. TypeOK'
    BY <1>1, CustomKept DEF GoroutinesInv, TypeOK
  <1>3. PhaseInv'
    BY <1>1, CustomKept DEF GoroutinesInv, PhaseInv, Live
  <1> QED  BY <1>1, <1>2, <1>3, CustomKept DEF GoroutinesInv

LEMMA StepInv == GoroutinesInv /\ [Next]_vars => GoroutinesInv'
  <1> SUFFICES ASSUME GoroutinesInv, [Next]_vars PROVE GoroutinesInv'
    OBVIOUS
  <1>1. CASE MainNext
    BY <1>1, QueriesInv, PhaseSteps, SingleSteps, SpawnInv DEF MainNext
  <1>2. CASE \E q \in CustomQueries : QueryNext(q)
    BY <1>2, PlainStepsInv, ScanRowInv, FillSampleInv, DoneInv DEF QueryNext
  <1>3. CASE UNCHANGED vars
    BY <1>3, StutterInv
  <1> QED  BY <1>1, <1>2, <1>3 DEF Next, Finished

\* The wait group, the connection pool and the metric sets agree with the
\* goroutines throughout every run.
THEOREM GoroutinesInvariance == Spec => []GoroutinesInv
  <1> QED  BY InitInv, StepInv, PTL DEF Spec

\* When PopulateInstanceMetrics returns nothing of it is left: no goroutine,
\* no metric set still being written, no connection in use.
THEOREM NothingLeft == Spec => []JoinedBeforeReturn
  <1>1. GoroutinesInv => JoinedBeforeReturn
    <2> SUFFICES ASSUME GoroutinesInv, main = "returned" PROVE JoinedBeforeReturn
      BY DEF JoinedBeforeReturn
    <2>1. \A q \in CustomQueries : worker[q] \in {"none", "exited"}
      BY DEF GoroutinesInv, PhaseInv
    <2>2. \A q \in CustomQueries : ~Live(q)
      BY <2>1 DEF Live
    <2>3. \A s \in samples : s.full
      BY <2>1 DEF GoroutinesInv, SamplesInv, TypeOK
    <2>4. conns = {}
      BY <2>1 DEF GoroutinesInv, PoolInv
    <2> QED  BY <2>2, <2>3, <2>4 DEF JoinedBeforeReturn
  <1> QED  BY <1>1, GoroutinesInvariance, PTL

-----------------------------------------------------------------------------
(* Everything is asked, whatever fails.                                    *)

\* A statement off the list is either skipped, then the edition does not
\* support it, or asked.
LEMMA SupportedTail ==
  ASSUME NEW list \in Seq(InstanceQueries), list # << >>
  PROVE  Supported(list) =
           Supported(Tail(list)) \union
             (IF SkipQueryForEngineEdition(engineEdition, Head(list)) THEN {} ELSE {Head(list)})
  <1>1. /\ Len(list) \in Nat \ {0} /\ Len(Tail(list)) = Len(list) - 1
        /\ DOMAIN list = 1..Len(list) /\ DOMAIN Tail(list) = 1..(Len(list) - 1)
        /\ Head(list) = list[1]
        /\ \A i \in 1..(Len(list) - 1) : Tail(list)[i] = list[i + 1]
    OBVIOUS
  <1>2. \A i \in DOMAIN list : i = 1 \/ (i - 1 \in DOMAIN Tail(list) /\ list[i] = Tail(list)[i - 1])
    BY <1>1
  <1>3. \A i \in DOMAIN Tail(list) : i + 1 \in DOMAIN list /\ Tail(list)[i] = list[i + 1]
    BY <1>1
  <1>4. 1 \in DOMAIN list
    BY <1>1
  <1> DEFINE L == {list[i] : i \in DOMAIN list}
             T == {Tail(list)[i] : i \in DOMAIN Tail(list)}
  <1>5. L = T \union {Head(list)}
    <2>1. \A i \in DOMAIN list : list[i] \in T \union {Head(list)}
      BY <1>1, <1>2
    <2>2. \A i \in DOMAIN Tail(list) : Tail(list)[i] \in L
      BY <1>3
    <2>3. Head(list) \in L
      BY <1>1, <1>4
    <2> QED  BY <2>1, <2>2, <2>3
  <1>6. /\ Supported(list) = {q \in L : engineEdition = 5 => q \notin NameUnsupportedView}
        /\ Supported(Tail(list)) = {q \in T : engineEdition = 5 => q \notin NameUnsupportedView}
    BY DEF Supported
  <1> HIDE DEF L, T
  <1> QED
    BY <1>5, <1>6 DEF SkipQueryForEngineEdition, AzureSQLDatabaseEngineEditionNumber

LEMMA AskedInit == Init => AskedInv
  <1> SUFFICES ASSUME Init PROVE AskedInv
    OBVIOUS
  <1>1. asked \union Supported(pending) = Supported(collectionList(engineEdition))
    BY DEF Init
  <1>2. main = "queries"
    BY DEF Init
  <1> QED  BY <1>1, <1>2 DEF AskedInv

LEMMA AskedStep == GoroutinesInv /\ AskedInv /\ [Next]_vars => AskedInv'
  <1> SUFFICES ASSUME GoroutinesInv, AskedInv, [Next]_vars PROVE AskedInv'
    OBVIOUS
  <1>0. pending \in Seq(InstanceQueries)
    BY DEF GoroutinesInv, TypeOK
  <1>1. CASE SkipInstanceQuery \/ RunInstanceQuery
    <2>1. /\ pending # << >> /\ pending' = Tail(pending) /\ main = "queries" /\ main' = main
          /\ engineEdition' = engineEdition
          /\ asked' = asked \union
               (IF SkipQueryForEngineEdition(engineEdition, Head(pending)) THEN {} ELSE {Head(pending)})
      BY <1>1 DEF SkipInstanceQuery, RunInstanceQuery
    <2>2. Supported(pending) =
            Supported(pending') \union
              (IF SkipQueryForEngineEdition(engineEdition, Head(pending)) THEN {} ELSE {Head(pending)})
      BY <1>0, <2>1, SupportedTail
    <2>3. /\ Supported(pending)' = Supported(pending')
          /\ Supported(collectionList(engineEdition))' = Supported(collectionList(engineEdition))
      BY <2>1 DEF Supported
    <2> QED  BY <2>1, <2>2, <2>3 DEF AskedInv
  <1>2. ASSUME UNCHANGED <<engineEdition, asked, pending>>
        PROVE  /\ (asked \union Supported(pending) = Supported(collectionList(engineEdition)))'
               /\ pending = << >> => pending' = << >>
    BY <1>2 DEF AskedInv, Supported
  <1>3. CASE InstanceQueriesDone \/ PopulateWaitTimeMetrics \/ ParseCustomQueries \/ AllSpawned
               \/ \E q \in YamlQueries : Spawn(q)
    <2>1. /\ UNCHANGED <<engineEdition, asked, pending>> /\ main' \notin {"single", "returned"}
          /\ main # "queries" \/ pending = << >>
      BY <1>3 DEF InstanceQueriesDone, PopulateWaitTimeMetrics, ParseCustomQueries, AllSpawned,
                  Spawn, instanceVars
    <2> QED  BY <1>2, <2>1 DEF AskedInv
  <1>4. CASE NoCustomQueries \/ Join \/ CallSingleQuery
    <2>1. /\ UNCHANGED <<engineEdition, asked, pending, source>> /\ main # "queries"
          /\ main' = "single" => source = "query"
          /\ main' = "returned" => source # "query"
      BY <1>4 DEF NoCustomQueries, Join, CallSingleQuery, instanceVars, GoroutinesInv, PhaseInv
    <2> QED  BY <1>2, <2>1 DEF AskedInv
  <1>5. CASE SingleQueryReturns
    <2>1. /\ UNCHANGED <<engineEdition, asked, pending, source>> /\ main = "single"
          /\ main' = "returned" /\ worker'[CommandLine] = "exited"
      BY <1>5 DEF SingleQueryReturns, instanceVars, GoroutinesInv, TypeOK, CustomQueries
    <2> QED  BY <1>2, <2>1 DEF AskedInv
  <1>6. CASE \E q \in CustomQueries : QueryNext(q)
    <2>1. PICK q \in CustomQueries : QueryNext(q)
      BY <1>6
    <2>2. /\ UNCHANGED <<engineEdition, asked, pending, source, main>>
          /\ worker[q] \in {"query", "rows", "fill", "signal"}
      BY <2>1 DEF QueryNext, QueryFails, QuerySucceeds, ScanRow, ScanFails, FillSample, RowsEnd,
                  Done, instanceVars
    <2>3. main # "returned"
      BY <2>2 DEF GoroutinesInv, PhaseInv
    <2> QED  BY <1>2, <2>2, <2>3 DEF AskedInv
  <1>7. CASE UNCHANGED vars
    <2>1. UNCHANGED <<engineEdition, asked, pending, source, main, worker>>
      BY <1>7 DEF vars, instanceVars, customVars
    <2> QED  BY <1>2, <2>1 DEF AskedInv
  <1> QED  BY <1>1, <1>3, <1>4, <1>5, <1>6, <1>7 DEF Next, MainNext, Finished

-----------------------------------------------------------------------------
(* A full metric set holds what the documentation describes.               *)

\* Steps that touch neither the results nor the metric sets.
LEMMA FilledKept ==
  ASSUME FilledInv, UNCHANGED <<columns, samples>>,
         \A s \in samples : worker'[s.query] \in {"none", "query"} => worker[s.query] \in {"none", "query"}
  PROVE  FilledInv'
  BY DEF FilledInv

LEMMA FilledInit == Init => FilledInv
  <1> SUFFICES ASSUME Init PROVE FilledInv
    OBVIOUS
  <1>1. samples = {} /\ \A q \in CustomQueries : columns[q] = << >>
    BY DEF Init
  <1>2. << >> \in Seq(STRING)
    OBVIOUS
  <1> QED  BY <1>1, <1>2 DEF FilledInv

LEMMA FilledStep ==
  ASSUME GoroutinesInv, FilledInv, [Next]_vars
  PROVE  FilledInv'
  <1>0. /\ worker \in [CustomQueries -> WorkerStates] /\ DOMAIN columns = CustomQueries
        /\ \A s \in samples : s.query \in CustomQueries
    BY DEF GoroutinesInv, TypeOK
  <1>1. CASE \/ SkipInstanceQuery \/ RunInstanceQuery \/ InstanceQueriesDone
             \/ PopulateWaitTimeMetrics \/ NoCustomQueries \/ ParseCustomQueries
             \/ AllSpawned \/ Join \/ UNCHANGED vars
    <2>1. UNCHANGED <<worker, columns, samples>>
      BY <1>1 DEF SkipInstanceQuery, RunInstanceQuery, InstanceQueriesDone, PopulateWaitTimeMetrics,
                  NoCustomQueries, ParseCustomQueries, AllSpawned, Join, customVars, vars
    <2> QED  BY <2>1, FilledKept
  <1>2. CASE CallSingleQuery \/ SingleQueryReturns \/ \E q \in YamlQueries : Spawn(q)
    <2>1. UNCHANGED <<columns, samples>>
      BY <1>2 DEF CallSingleQuery, SingleQueryReturns, Spawn
    <2>2. PICK q \in CustomQueries : \E w \in WorkerStates :
             /\ worker' = [worker EXCEPT ![q] = w]
             /\ w \in {"none", "query"} => worker[q] = "none"
      BY <1>2 DEF CallSingleQuery, SingleQueryReturns, Spawn, GoroutinesInv, PhaseInv, CustomQueries,
                  WorkerStates
    <2> QED  BY <1>0, <2>1, <2>2, FilledKept
  <1>3. CASE \E q \in CustomQueries : QueryFails(q) \/ ScanFails(q) \/ RowsEnd(q) \/ Done(q)
    <2>1. PICK q \in CustomQueries : QueryFails(q) \/ ScanFails(q) \/ RowsEnd(q) \/ Done(q)
      BY <1>3
    <2>2. /\ UNCHANGED <<columns, samples>>
          /\ \E w \in {"signal", "exited"} : worker' = [worker EXCEPT ![q] = w]
      BY <2>1 DEF QueryFails, ScanFails, RowsEnd, Done
    <2> QED  BY <1>0, <2>2, FilledKept
  <1>4. ASSUME NEW q \in CustomQueries, QuerySucceeds(q)
        PROVE  FilledInv'
    <2>1. /\ worker[q] = "query" /\ worker' = [worker EXCEPT ![q] = "rows"] /\ samples' = samples
          /\ \E list \in ColumnLists[q] : columns' = [columns EXCEPT ![q] = list]
      BY <1>4 DEF QuerySucceeds
    <2>2. \A s \in samples : s.query # q
      BY <2>1 DEF FilledInv
    <2>3. \A r \in CustomQueries : columns'[r] \in Seq(STRING) /\ (r # q => columns'[r] = columns[r])
      BY <1>0, <2>1, ColumnsAssumption DEF FilledInv
    <2>4. \A s \in samples' : worker'[s.query] = worker[s.query] /\ columns'[s.query] = columns[s.query]
      BY <1>0, <2>1, <2>2, <2>3
    <2> QED  BY <2>1, <2>3, <2>4 DEF FilledInv
  <1>5. ASSUME NEW q \in CustomQueries, ScanRow(q)
        PROVE  FilledInv'
    <2>1. PICK row \in RowsWith(columns[q]) :
            samples' = samples \union
              {[query |-> q, index |-> read[q] + 1, row |-> row, full |-> FALSE, metrics |-> {}]}
      BY <1>5 DEF ScanRow
    <2> DEFINE new == [query |-> q, index |-> read[q] + 1, row |-> row, full |-> FALSE, metrics |-> {}]
    <2>2. new.query = q /\ ~new.full /\ samples' = samples \union {new}
      BY <2>1
    <2> HIDE DEF new
    <2>3. /\ worker[q] = "rows" /\ worker' = [worker EXCEPT ![q] = "fill"] /\ columns' = columns
      BY <1>5 DEF ScanRow
    <2>4. \A s \in samples' : worker'[s.query] \notin {"none", "query"}
      BY <1>0, <2>2, <2>3 DEF FilledInv
    <2> QED  BY <2>2, <2>3, <2>4 DEF FilledInv
  <1>6. ASSUME NEW q \in CustomQueries, FillSample(q)
        PROVE  FilledInv'
    <2> DEFINE metricsOf(s) ==
                 {e \in metricsFromCustomQueryRow(s.row, columns[q], Definition[q]) : SetMetricAccepts(e)}
               filled(s) == [query |-> q, index |-> s.index, row |-> s.row, full |-> TRUE,
                             metrics |-> metricsOf(s)]
    <2>1. PICK s \in samples : s.query = q /\ ~s.full /\ samples' = (samples \ {s}) \union {filled(s)}
      BY <1>6 DEF FillSample
    <2>2. /\ filled(s).query = q /\ filled(s).row = s.row
          /\ filled(s).metrics = metricsOf(s)
      OBVIOUS
    <2>3. metricsOf(s) =
            {e \in metricsFromCustomQueryRow(filled(s).row, columns[filled(s).query],
                                             Definition[filled(s).query]) : SetMetricAccepts(e)}
      BY <2>2
    <2> HIDE DEF filled, metricsOf
    <2>4. /\ worker[q] = "fill" /\ worker' = [worker EXCEPT ![q] = "rows"] /\ columns' = columns
      BY <1>6 DEF FillSample
    <2>5. \A t \in samples' : worker'[t.query] \notin {"none", "query"}
      BY <1>0, <2>1, <2>2, <2>4 DEF FilledInv
    <2> QED  BY <2>1, <2>2, <2>3, <2>4, <2>5 DEF FilledInv
  <1> QED  BY <1>1, <1>2, <1>3, <1>4, <1>5, <1>6 DEF Next, MainNext, QueryNext, Finished

\* What is asked and what is written agree throughout every run, too.
THEOREM Invariance == Spec => []IInv
  <1>1. Spec => []AskedInv
    BY AskedInit, AskedStep, GoroutinesInvariance, PTL DEF Spec
  <1>2. GoroutinesInv /\ FilledInv /\ [Next]_vars => FilledInv'
    BY FilledStep
  <1>3. Spec => []FilledInv
    BY FilledInit, <1>2, GoroutinesInvariance, PTL DEF Spec
  <1>4. GoroutinesInv /\ AskedInv /\ FilledInv => IInv
    BY DEF IInv
  <1> QED  BY <1>1, <1>3, <1>4, GoroutinesInvariance, PTL

\* Whatever fails on the way, when PopulateInstanceMetrics returns it has asked
\* for exactly what this edition supports, and has run the custom query of the
\* command line.
THEOREM EverythingIsAsked == Spec => []EverythingAsked
  <1>1. IInv => EverythingAsked
    <2> SUFFICES ASSUME AskedInv, main = "returned" PROVE EverythingAsked
      BY DEF EverythingAsked, IInv
    <2>1. Supported(pending) = {}
      BY DEF AskedInv, Supported
    <2> QED  BY <2>1 DEF AskedInv, EverythingAsked
  <1> QED  BY <1>1, Invariance, PTL

\* Every metric set that is full holds the metrics the documentation describes
\* for its row, as far as the SDK takes them.
THEOREM RowsConvertedAsDescribed == Spec => []ConversionAsDescribed
  <1>1. IInv => ConversionAsDescribed
    <2> SUFFICES ASSUME IInv, NEW s \in samples, s.full
                 PROVE  s.metrics = {e \in Described(s.row, columns[s.query], Definition[s.query]) :
                                        SetMetricAccepts(e)}
      BY DEF ConversionAsDescribed
    <2>1. columns[s.query] \in Seq(STRING)
      BY DEF IInv, GoroutinesInv, TypeOK, FilledInv
    <2>2. metricsFromCustomQueryRow(s.row, columns[s.query], Definition[s.query])
            = Described(s.row, columns[s.query], Definition[s.query])
      BY <2>1, RowAsDescribed
    <2> QED  BY <2>2 DEF IInv, FilledInv
  <1> QED  BY <1>1, Invariance, PTL

-----------------------------------------------------------------------------
(* The refinement, as far as it is safety.                                 *)

Submitted == {RowOf(s) : s \in samples}
Full == {RowOf(s) : s \in {t \in samples : t.full}}
Outcome == IF main = "returned" THEN main ELSE "open"
Models == [query : CustomQueries, index : 1..MaxRows]

LEMMA CollectionInit == Init => Collection!Init
  BY DEF Init, Collection!Init

LEMMA SubmitStep ==
  ASSUME GoroutinesInv, NEW q \in CustomQueries, ScanRow(q)
  PROVE  Collection!Next
  <1>1. PICK row \in RowsWith(columns[q]) :
          samples' = samples \union
            {[query |-> q, index |-> read[q] + 1, row |-> row, full |-> FALSE, metrics |-> {}]}
    BY DEF ScanRow
  <1> DEFINE new == [query |-> q, index |-> read[q] + 1, row |-> row, full |-> FALSE, metrics |-> {}]
             m == [query |-> q, index |-> read[q] + 1]
  <1>2. samples' = samples \union {new} /\ RowOf(new) = m /\ ~new.full
    BY <1>1 DEF RowOf
  <1>3. m \in Models
    <2>1. read[q] \in 0..MaxRows /\ read[q] < MaxRows /\ MaxRows \in Nat
      BY BoundsAssumption DEF GoroutinesInv, TypeOK, ScanRow
    <2>2. read[q] + 1 \in 1..MaxRows
      BY <2>1
    <2> QED  BY <2>2 DEF Models
  <1>4. Outcome = "open" /\ Outcome' = Outcome
    <2>1. main # "returned" /\ main' = main
      BY DEF ScanRow, GoroutinesInv, PhaseInv
    <2> QED  BY <2>1 DEF Outcome
  <1> HIDE DEF new, m
  <1>5. Submitted' = Submitted \union {m} /\ Full' = Full
    BY <1>2 DEF Submitted, Full
  <1>6. Collection!Submit(m)
    BY <1>4, <1>5 DEF Collection!Submit, Submitted, Full, Outcome
  <1> QED  BY <1>3, <1>6 DEF Collection!Next, Models

LEMMA SettleStep ==
  ASSUME GoroutinesInv, NEW q \in CustomQueries, FillSample(q)
  PROVE  Collection!Next
  <1> DEFINE filled(s) ==
        [query |-> q, index |-> s.index, row |-> s.row, full |-> TRUE,
         metrics |-> {e \in metricsFromCustomQueryRow(s.row, columns[q], Definition[q]) :
                          SetMetricAccepts(e)}]
  <1>1. PICK s \in samples : s.query = q /\ ~s.full /\ samples' = (samples \ {s}) \union {filled(s)}
    BY DEF FillSample
  <1>2. filled(s).full = TRUE /\ RowOf(filled(s)) = RowOf(s)
    BY <1>1 DEF RowOf
  <1> HIDE DEF filled
  <1>3. RowOf(s) \in Models
    BY <1>1 DEF GoroutinesInv, TypeOK, RowOf, Models
  <1>4. \A t \in samples : RowOf(t) = RowOf(s) => t = s
    <2>1. \A t \in samples : RowOf(t) = RowOf(s) => t.query = s.query /\ t.index = s.index
      BY DEF RowOf
    <2> QED  BY <1>1, <2>1 DEF GoroutinesInv, SamplesInv
  <1>5. Outcome = "open" /\ Outcome' = Outcome
    <2>1. main # "returned" /\ main' = main
      BY DEF FillSample, GoroutinesInv, PhaseInv
    <2> QED  BY <2>1 DEF Outcome
  <1>6. Submitted' = Submitted
    BY <1>1, <1>2 DEF Submitted
  <1>7. Full' = Full \union {RowOf(s)}
    BY <1>1, <1>2 DEF Full
  <1>8. RowOf(s) \in Submitted \ Full
    BY <1>1, <1>4 DEF Submitted, Full
  <1>9. Collection!Settle(RowOf(s))
    BY <1>5, <1>6, <1>7, <1>8 DEF Collection!Settle, Submitted, Full, Outcome
  <1> QED  BY <1>3, <1>9 DEF Collection!Next, Collection!SettleSome, Models

LEMMA ReturnStep ==
  ASSUME GoroutinesInv, GoroutinesInv', NoCustomQueries \/ SingleQueryReturns \/ Join
  PROVE  Collection!Next
  <1>1. main # "returned" /\ main' = "returned" /\ samples' = samples
    BY DEF NoCustomQueries, SingleQueryReturns, Join, customVars
  <1>2. \A s \in samples : s.full
    BY <1>1 DEF GoroutinesInv, SamplesInv, PhaseInv, TypeOK
  <1>3. Full = Submitted /\ Full' = Full /\ Submitted' = Submitted
    BY <1>1, <1>2 DEF Full, Submitted
  <1>4. Outcome = "open" /\ Outcome' = "returned"
    BY <1>1 DEF Outcome
  <1>5. Collection!Return
    BY <1>3, <1>4 DEF Collection!Return, Submitted, Full, Outcome
  <1> QED  BY <1>5 DEF Collection!Next

LEMMA CollectionStep ==
  ASSUME GoroutinesInv, GoroutinesInv', [Next]_vars
  PROVE  [Collection!Next]_(Collection!vars)
  <1>1. CASE NoCustomQueries \/ SingleQueryReturns \/ Join
    BY <1>1, ReturnStep
  <1>2. CASE \E q \in CustomQueries : ScanRow(q) \/ FillSample(q)
    BY <1>2, SubmitStep, SettleStep
  <1>3. CASE \/ SkipInstanceQuery \/ RunInstanceQuery \/ InstanceQueriesDone
             \/ PopulateWaitTimeMetrics \/ CallSingleQuery \/ ParseCustomQueries
             \/ AllSpawned \/ \E q \in YamlQueries : Spawn(q)
    <2>1. samples' = samples /\ Outcome' = Outcome
      BY <1>3 DEF SkipInstanceQuery, RunInstanceQuery, InstanceQueriesDone, PopulateWaitTimeMetrics,
                  CallSingleQuery, ParseCustomQueries, AllSpawned, Spawn, customVars, Outcome
    <2> QED  BY <2>1 DEF Collection!vars, Outcome
  <1>4. CASE \E q \in CustomQueries :
               QueryFails(q) \/ QuerySucceeds(q) \/ ScanFails(q) \/ RowsEnd(q) \/ Done(q)
    <2>1. samples' = samples /\ main' = main
      BY <1>4 DEF QueryFails, QuerySucceeds, ScanFails, RowsEnd, Done
    <2> QED  BY <2>1 DEF Collection!vars
  <1>5. CASE UNCHANGED vars
    <2>1. samples' = samples /\ main' = main
      BY <1>5 DEF vars, customVars
    <2> QED  BY <2>1 DEF Collection!vars
  <1> QED  BY <1>1, <1>2, <1>3, <1>4, <1>5 DEF Next, MainNext, QueryNext, Finished

\* The safety half of ImplementsCollection: every behaviour of the goroutines,
\* fair or not, is one MetricCollection allows.
THEOREM CollectionSafety ==
    Spec => Collection!Init /\ [][Collection!Next]_(Collection!vars)
  BY CollectionInit, CollectionStep, GoroutinesInvariance, PTL DEF Spec
=============================================================================
