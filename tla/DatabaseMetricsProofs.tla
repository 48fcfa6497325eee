------------------------ MODULE DatabaseMetricsProofs ------------------------
(***************************************************************************)
(* Theorems of DatabaseMetrics, for every set of databases, every worker   *)
(* limit, every channel size and every combination of arguments.           *)
(*                                                                         *)
(* MachineryInv is inductive (InitInv, NextInv), its parts together:       *)
(* the semaphore counts the workers that hold a token and every connection *)
(* of a worker belongs to one of them (WorkerConnectionBound), Main leaves *)
(* the dispatch phase only when the wait group says nobody is alive        *)
(* (NoSendAfterClose), and the populator ends only with a drained channel  *)
(* and empty hands (SettledBeforeReturn, ImplementsCollection).            *)
(***************************************************************************)
EXTENDS DatabaseMetrics, FiniteSetTheorems, TLAPS

-----------------------------------------------------------------------------
(* The scripts are sequences of queries.                                   *)

LEMMA MaxWorkersType == MaxWorkers \in Nat \ {0}
  BY WorkersAssumption DEF MaxWorkers, DefaultMaxConcurrentWorkers

LEMMA CapacityType == ChannelCapacity \in Nat
  <1>1. \A m, n \in Nat : m * n \in Nat
    OBVIOUS
  <1> QED  BY <1>1, MaxWorkersType, BufferAssumption DEF ChannelCapacity

LEMMA QueriesOverType ==
  ASSUME NEW defs \in Seq(Metrics), NEW scope \in SUBSET Databases
  PROVE  QueriesOver(defs, scope) \in Seq(Queries)
  <1>1. /\ DOMAIN defs = 1..Len(defs)
        /\ Len(defs) \in Nat
        /\ \A i \in 1..Len(defs) : defs[i] \in Metrics
    OBVIOUS
  <1>2. \A i \in 1..Len(defs) : [metric |-> defs[i], scope |-> scope] \in Queries
    BY <1>1 DEF Queries
  <1>3. QueriesOver(defs, scope) \in [1..Len(defs) -> Queries]
    BY <1>1, <1>2 DEF QueriesOver
  <1> QED  BY <1>1, <1>3

LEMMA DefinitionsType ==
  /\ databaseDefinitions \in Seq(Metrics)
  /\ databaseBufferDefinitions \in Seq(Metrics)
  /\ specificDatabaseDefinitions \in Seq(Metrics)
  /\ databaseDiskDefinitions \in Seq(Metrics)
  /\ databaseDefinitions \o memoryDefinitions \in Seq(Metrics)
  <1>1. databaseDefinitions \in Seq(Metrics)
    BY DEF databaseDefinitions, Metrics
  <1>2. memoryDefinitions \in Seq(Metrics)
    BY DEF memoryDefinitions, Metrics
  <1>3. /\ databaseBufferDefinitions \in Seq(Metrics)
        /\ specificDatabaseDefinitions \in Seq(Metrics)
        /\ databaseDiskDefinitions \in Seq(Metrics)
    BY DEF databaseBufferDefinitions, specificDatabaseDefinitions,
           databaseDiskDefinitions, Metrics
  <1> QED  BY <1>1, <1>2, <1>3

LEMMA IfType ==
  ASSUME NEW b, NEW q \in Seq(Queries)
  PROVE  If(b, q) \in Seq(Queries)
  BY DEF If

LEMMA AzureScriptType ==
  ASSUME NEW d \in Databases
  PROVE  AzureScript(d) \in Seq(Queries)
  <1>1. {d} \in SUBSET Databases
    OBVIOUS
  <1> DEFINE A == QueriesOver(databaseDefinitions \o memoryDefinitions, {d})
             B == If(EnableDiskMetricsInBytes, QueriesOver(databaseDiskDefinitions, {d}))
             C == If(EnableBufferMetrics, QueriesOver(databaseBufferDefinitions, {d}))
             D == If(EnableDatabaseReserveMetrics, QueriesOver(specificDatabaseDefinitions, {d}))
  <1>2. A \in Seq(Queries)
    BY <1>1, DefinitionsType, QueriesOverType
  <1>3. B \in Seq(Queries)
    BY <1>1, DefinitionsType, QueriesOverType, IfType
  <1>4. C \in Seq(Queries)
    BY <1>1, DefinitionsType, QueriesOverType, IfType
  <1>5. D \in Seq(Queries)
    BY <1>1, DefinitionsType, QueriesOverType, IfType
  <1>6. AzureScript(d) = A \o B \o C \o D
    BY DEF AzureScript
  <1> HIDE DEF A, B, C, D
  <1> QED  BY <1>2, <1>3, <1>4, <1>5, <1>6

LEMMA DefaultScriptType ==
  ASSUME NEW listed \in SUBSET Databases, NEW dbNames \in Orderings(listed)
  PROVE  DefaultScript(dbNames) \in Seq(Queries)
  <1>1. /\ dbNames \in [1..Cardinality(listed) -> listed]
        /\ Cardinality(listed) \in Nat
    BY DatabasesAssumption, FS_Subset, FS_CardinalityType DEF Orderings
  <1>2. specificDatabaseDefinitions[1] \in Metrics
    BY DEF specificDatabaseDefinitions, Metrics
  <1>3. \A i \in 1..Cardinality(listed) :
          [metric |-> specificDatabaseDefinitions[1], scope |-> {dbNames[i]}] \in Queries
    BY <1>1, <1>2 DEF Queries
  <1>4. SpecificQueries(dbNames) \in [1..Cardinality(listed) -> Queries]
    BY <1>1, <1>3 DEF SpecificQueries
  <1> DEFINE A == QueriesOver(databaseDefinitions, Databases)
             B == If(EnableBufferMetrics, QueriesOver(databaseBufferDefinitions, Databases))
             C == If(EnableDatabaseReserveMetrics, SpecificQueries(dbNames))
  <1>5. A \in Seq(Queries)
    BY DefinitionsType, QueriesOverType
  <1>6. B \in Seq(Queries)
    BY DefinitionsType, QueriesOverType, IfType
  <1>7. C \in Seq(Queries)
    BY <1>1, <1>4, IfType
  <1>8. DefaultScript(dbNames) = A \o B \o C
    BY DEF DefaultScript
  <1> HIDE DEF A, B, C
  <1> QED  BY <1>5, <1>6, <1>7, <1>8

-----------------------------------------------------------------------------
(* What the queue holds after a send and after a receive.                  *)

LEMMA QueuedAppend ==
  ASSUME NEW q \in Seq(Models), NEW m \in Models
  PROVE  /\ Append(q, m) \in Seq(Models)
         /\ Len(Append(q, m)) = Len(q) + 1
         /\ {Append(q, m)[i] : i \in DOMAIN Append(q, m)}
                = {q[i] : i \in DOMAIN q} \union {m}
  <1>1. /\ Append(q, m) \in Seq(Models)
        /\ Len(Append(q, m)) = Len(q) + 1
        /\ Len(q) \in Nat
        /\ DOMAIN q = 1..Len(q)
        /\ DOMAIN Append(q, m) = 1..(Len(q) + 1)
        /\ \A i \in 1..Len(q) : Append(q, m)[i] = q[i]
        /\ Append(q, m)[Len(q) + 1] = m
    OBVIOUS
  <1> QED  BY <1>1

LEMMA QueuedTail ==
  ASSUME NEW q \in Seq(Models), q # << >>
  PROVE  /\ Head(q) \in Models
         /\ Tail(q) \in Seq(Models)
         /\ Len(Tail(q)) <= Len(q)
         /\ {q[i] : i \in DOMAIN q}
                = {Tail(q)[i] : i \in DOMAIN Tail(q)} \union {Head(q)}
  <1>1. /\ Head(q) = q[1]
        /\ Head(q) \in Models
        /\ Tail(q) \in Seq(Models)
        /\ Len(q) \in Nat \ {0}
        /\ Len(Tail(q)) = Len(q) - 1
        /\ DOMAIN q = 1..Len(q)
        /\ DOMAIN Tail(q) = 1..(Len(q) - 1)
        /\ \A i \in 1..(Len(q) - 1) : Tail(q)[i] = q[i + 1]
    OBVIOUS
  <1>2. \A i \in 1..Len(q) : i = 1 \/ (i - 1 \in 1..(Len(q) - 1) /\ (i - 1) + 1 = i)
    BY <1>1
  <1>3. \A i \in 1..(Len(q) - 1) : i + 1 \in 1..Len(q)
    BY <1>1
  <1> DEFINE Q == {q[i] : i \in DOMAIN q}
             T == {Tail(q)[i] : i \in DOMAIN Tail(q)}
  <1>5. Q \subseteq T \union {Head(q)}
    <2>1. ASSUME NEW i \in DOMAIN q
          PROVE  q[i] \in T \union {Head(q)}
      <3>1. CASE i = 1
        BY <1>1, <3>1
      <3>2. CASE i # 1
        <4>1. i - 1 \in DOMAIN Tail(q) /\ q[i] = Tail(q)[i - 1]
          BY <1>1, <1>2, <3>2
        <4> QED  BY <4>1
      <3> QED  BY <3>1, <3>2
    <2> QED  BY <2>1
  <1>6. T \union {Head(q)} \subseteq Q
    BY <1>1, <1>3
  <1>7. Q = T \union {Head(q)}
    BY <1>5, <1>6
  <1> HIDE DEF Q, T
  <1>8. Len(Tail(q)) <= Len(q)
    BY <1>1
  <1> QED  BY <1>1, <1>7, <1>8 DEF Q, T

(* A worker that takes or gives back a token, or joins or leaves the wait  *)
(* group, moves the counter by one.                                        *)

LEMMA HoldingFinite ==
  /\ IsFiniteSet(Holding) /\ Cardinality(Holding) \in Nat
  /\ IsFiniteSet(Live) /\ Cardinality(Live) \in Nat
  BY DatabasesAssumption, FS_Subset, FS_CardinalityType DEF Holding, Live

LEMMA TokenTaken ==
  ASSUME TypeOK, PoolInv, NEW d \in Databases, worker[d] = "none",
         worker' = [worker EXCEPT ![d] = "connect"]
  PROVE  /\ Cardinality(Holding') = Cardinality(Holding) + 1
         /\ Cardinality(Live') = Cardinality(Live) + 1
  <1>1. Holding' = Holding \union {d} /\ d \notin Holding
    BY DEF TypeOK, Holding
  <1>2. Live' = Live \union {d} /\ d \notin Live
    BY DEF TypeOK, Live
  <1> QED  BY <1>1, <1>2, HoldingFinite, FS_AddElement

LEMMA TokenGivenBack ==
  ASSUME TypeOK, PoolInv, NEW d \in Databases, worker[d] = "release",
         worker' = [worker EXCEPT ![d] = "signal"]
  PROVE  /\ Cardinality(Holding') = Cardinality(Holding) - 1
         /\ Cardinality(Holding') \in Nat
         /\ Live' = Live
  <1>1. Holding' = Holding \ {d} /\ d \in Holding
    BY DEF TypeOK, Holding
  <1>2. Live' = Live
    BY DEF TypeOK, Live
  <1>3. IsFiniteSet(Holding')
    BY <1>1, HoldingFinite, FS_RemoveElement
  <1> QED  BY <1>1, <1>2, <1>3, HoldingFinite, FS_RemoveElement, FS_CardinalityType

LEMMA GroupLeft ==
  ASSUME TypeOK, PoolInv, NEW d \in Databases, worker[d] = "signal",
         worker' = [worker EXCEPT ![d] = "exited"]
  PROVE  /\ Cardinality(Live') = Cardinality(Live) - 1
         /\ Cardinality(Live') \in Nat
         /\ Holding' = Holding
  <1>1. Live' = Live \ {d} /\ d \in Live
    BY DEF TypeOK, Live
  <1>2. Holding' = Holding
    BY DEF TypeOK, Holding
  <1>3. IsFiniteSet(Live')
    BY <1>1, HoldingFinite, FS_RemoveElement
  <1> QED  BY <1>1, <1>2, <1>3, HoldingFinite, FS_RemoveElement, FS_CardinalityType

-----------------------------------------------------------------------------
(* MachineryInv is inductive.                                              *)

LEMMA InitInv == Init => MachineryInv
  <1> SUFFICES ASSUME Init PROVE MachineryInv
    OBVIOUS
  <1>1. TypeOK
    <2>1. Len(modelChan) <= ChannelCapacity /\ dbChan \in 0..MaxWorkers
      BY MaxWorkersType, CapacityType DEF Init
    <2>2. pending \in [Producers -> Seq(Queries)] /\ modelChan \in Seq(Models)
      BY DEF Init
    <2>3. /\ readings \in [Producers -> SUBSET MemoryInputs]
          /\ outbox \in [Producers -> SUBSET Models]
      BY DEF Init
    <2> QED  BY <2>1, <2>2, <2>3 DEF Init, TypeOK, MainStates, WorkerStates
  <1>2. PoolInv
    <2>1. Holding = {} /\ Live = {}
      BY DEF Init, Holding, Live
    <2> QED  BY <2>1, FS_EmptySet DEF Init, PoolInv
  <1>3. PhaseInv
    BY DEF Init, PhaseInv, Live
  <1>4. FlowInv
    BY DEF Init, FlowInv, Queued, Settled
  <1> QED  BY <1>1, <1>2, <1>3, <1>4 DEF MachineryInv

LEMMA NextInv == MachineryInv /\ [Next]_vars => MachineryInv'
  <1> SUFFICES ASSUME TypeOK, PoolInv, PhaseInv, FlowInv, [Next]_vars
               PROVE  TypeOK' /\ PoolInv' /\ PhaseInv' /\ FlowInv'
    BY DEF MachineryInv
  <1>1. ASSUME CreateEntitiesFails
       PROVE  TypeOK' /\ PoolInv' /\ PhaseInv' /\ FlowInv'
    <2>1. TypeOK'
      BY <1>1 DEF CreateEntitiesFails, TypeOK, MainStates, WorkerStates,
         mainVars, poolVars, producerVars, channelVars, populatorVars
    <2>2. PoolInv'
      BY <1>1 DEF CreateEntitiesFails, PoolInv, Holding, Live, TypeOK, WorkerStates,
         mainVars, poolVars, producerVars, channelVars, populatorVars
    <2>3. PhaseInv'
      BY <1>1 DEF CreateEntitiesFails, PhaseInv, Live, TypeOK, WorkerStates,
         mainVars, poolVars, producerVars, channelVars, populatorVars
    <2>4. FlowInv'
      BY <1>1 DEF CreateEntitiesFails, FlowInv, PhaseInv, Queued, Settled,
         mainVars, poolVars, producerVars, channelVars, populatorVars
    <2> QED  BY <2>1, <2>2, <2>3, <2>4
  <1>2. ASSUME CreateEntities
       PROVE  TypeOK' /\ PoolInv' /\ PhaseInv' /\ FlowInv'
    <2>1. TypeOK'
      <3>1. PICK listed \in SUBSET Databases : CreateEntities!2!(listed)
        BY <1>2 DEF CreateEntities
      <3>2. pending' \in [Producers -> Seq(Queries)]
        <4>1. CASE OnAzureSQLDatabase
          BY <3>1, <4>1 DEF TypeOK
        <4>2. CASE ~OnAzureSQLDatabase
          <5>1. PICK dbNames \in Orderings(listed) :
                  pending' = [pending EXCEPT ![Main] = DefaultScript(dbNames)]
            BY <3>1, <4>2
          <5>2. DefaultScript(dbNames) \in Seq(Queries)
            BY DefaultScriptType
          <5> QED  BY <5>1, <5>2 DEF TypeOK
        <4> QED  BY <4>1, <4>2
      <3>3. main' \in MainStates /\ lookup' \subseteq Databases /\ undispatched' \subseteq lookup'
        BY <3>1 DEF MainStates
      <3> QED
        BY <1>2, <3>2, <3>3 DEF CreateEntities, TypeOK, mainVars, poolVars, producerVars, channelVars, populatorVars
    <2>2. PoolInv'
      BY <1>2 DEF CreateEntities, PoolInv, Holding, Live, TypeOK, WorkerStates,
         mainVars, poolVars, producerVars, channelVars, populatorVars
    <2>3. PhaseInv'
      <3>1. PICK listed \in SUBSET Databases : CreateEntities!2!(listed)
        BY <1>2 DEF CreateEntities
      <3>2. lookup = {} /\ main = "create" /\ populator' = "running" /\ worker' = worker
            /\ closed' = closed
        BY <1>2 DEF CreateEntities, PhaseInv, FlowInv, mainVars, poolVars, producerVars, channelVars, populatorVars
      <3>3. \A d \in Databases : worker'[d] = "none"
        BY <3>2 DEF PhaseInv
      <3>4. /\ main' = IF OnAzureSQLDatabase THEN "dispatch" ELSE "produce"
            /\ IF OnAzureSQLDatabase THEN lookup' \ undispatched' = {}
                                     ELSE undispatched' = {}
        BY <3>1
      <3> QED  BY <3>2, <3>3, <3>4 DEF PhaseInv
    <2>4. FlowInv'
      BY <1>2 DEF CreateEntities, FlowInv, PhaseInv, Queued, Settled,
         mainVars, poolVars, producerVars, channelVars, populatorVars
    <2> QED  BY <2>1, <2>2, <2>3, <2>4
  <1>3. ASSUME NEW d \in Databases, Dispatch(d)
       PROVE  TypeOK' /\ PoolInv' /\ PhaseInv' /\ FlowInv'
    <2>1. TypeOK'
      <3>1. dbChan + 1 \in 0..MaxWorkers /\ waitGroup + 1 \in Nat
        BY <1>3, MaxWorkersType DEF Dispatch, TypeOK
      <3>2. worker' \in [Databases -> WorkerStates]
        BY <1>3 DEF Dispatch, TypeOK, WorkerStates
      <3> QED  BY <1>3, <3>1, <3>2 DEF Dispatch, TypeOK, mainVars, poolVars, producerVars, channelVars, populatorVars
    <2>2. PoolInv'
      <3>1. worker[d] = "none"
        BY <1>3 DEF Dispatch, PhaseInv
      <3>2. /\ Cardinality(Holding') = Cardinality(Holding) + 1
            /\ Cardinality(Live') = Cardinality(Live) + 1
        BY <1>3, <3>1, TokenTaken DEF Dispatch
      <3>3. conns' = {e \in Databases : worker'[e] \in {"produce", "closing"}}
        BY <1>3, <3>1 DEF Dispatch, PoolInv, TypeOK
      <3> QED  BY <1>3, <3>2, <3>3 DEF Dispatch, PoolInv
    <2>3. PhaseInv'
      BY <1>3 DEF Dispatch, PhaseInv, Live, TypeOK, WorkerStates,
         mainVars, poolVars, producerVars, channelVars, populatorVars
    <2>4. FlowInv'
      BY <1>3 DEF Dispatch, FlowInv, PhaseInv, Queued, Settled,
         mainVars, poolVars, producerVars, channelVars, populatorVars
    <2> QED  BY <2>1, <2>2, <2>3, <2>4
  <1>4. ASSUME WaitForWorkers
       PROVE  TypeOK' /\ PoolInv' /\ PhaseInv' /\ FlowInv'
    <2>1. TypeOK'
      BY <1>4 DEF WaitForWorkers, TypeOK, MainStates, WorkerStates,
         mainVars, poolVars, producerVars, channelVars, populatorVars
    <2>2. PoolInv'
      BY <1>4 DEF WaitForWorkers, PoolInv, Holding, Live, TypeOK, WorkerStates,
         mainVars, poolVars, producerVars, channelVars, populatorVars
    <2>3. PhaseInv'
      <3>1. Live = {}
        BY <1>4, HoldingFinite, FS_EmptySet DEF WaitForWorkers, PoolInv
      <3> QED  BY <1>4, <3>1 DEF WaitForWorkers, PhaseInv, Live, mainVars, poolVars, producerVars, channelVars, populatorVars
    <2>4. FlowInv'
      BY <1>4 DEF WaitForWorkers, FlowInv, PhaseInv, Queued, Settled,
         mainVars, poolVars, producerVars, channelVars, populatorVars
    <2> QED  BY <2>1, <2>2, <2>3, <2>4
  <1>5. ASSUME DefaultDone
       PROVE  TypeOK' /\ PoolInv' /\ PhaseInv' /\ FlowInv'
    <2>1. TypeOK'
      BY <1>5 DEF DefaultDone, TypeOK, MainStates, WorkerStates,
         mainVars, poolVars, producerVars, channelVars, populatorVars
    <2>2. PoolInv'
      BY <1>5 DEF DefaultDone, PoolInv, Holding, Live, TypeOK, WorkerStates,
         mainVars, poolVars, producerVars, channelVars, populatorVars
    <2>3. PhaseInv'
      <3>1. Live = {} /\ undispatched = {}
        BY <1>5 DEF DefaultDone, PhaseInv, Live
      <3> QED  BY <1>5, <3>1 DEF DefaultDone, PhaseInv, Live, mainVars, poolVars, producerVars, channelVars, populatorVars
    <2>4. FlowInv'
      BY <1>5 DEF DefaultDone, FlowInv, PhaseInv, Queued, Settled,
         mainVars, poolVars, producerVars, channelVars, populatorVars
    <2> QED  BY <2>1, <2>2, <2>3, <2>4
  <1>6. ASSUME CloseModelChan
       PROVE  TypeOK' /\ PoolInv' /\ PhaseInv' /\ FlowInv'
    <2>1. TypeOK'
      BY <1>6 DEF CloseModelChan, TypeOK, MainStates, WorkerStates,
         mainVars, poolVars, producerVars, channelVars, populatorVars
    <2>2. PoolInv'
      BY <1>6 DEF CloseModelChan, PoolInv, Holding, Live, TypeOK, WorkerStates,
         mainVars, poolVars, producerVars, channelVars, populatorVars
    <2>3. PhaseInv'
      BY <1>6 DEF CloseModelChan, PhaseInv, Live, TypeOK, WorkerStates,
         mainVars, poolVars, producerVars, channelVars, populatorVars
    <2>4. FlowInv'
      BY <1>6 DEF CloseModelChan, FlowInv, PhaseInv, Queued, Settled,
         mainVars, poolVars, producerVars, channelVars, populatorVars
    <2> QED  BY <2>1, <2>2, <2>3, <2>4
  <1>7. ASSUME WaitForPopulator
       PROVE  TypeOK' /\ PoolInv' /\ PhaseInv' /\ FlowInv'
    <2>1. TypeOK'
      BY <1>7 DEF WaitForPopulator, TypeOK, MainStates, WorkerStates,
         mainVars, poolVars, producerVars, channelVars, populatorVars
    <2>2. PoolInv'
      BY <1>7 DEF WaitForPopulator, PoolInv, Holding, Live, TypeOK, WorkerStates,
         mainVars, poolVars, producerVars, channelVars, populatorVars
    <2>3. PhaseInv'
      BY <1>7 DEF WaitForPopulator, PhaseInv, Live, TypeOK, WorkerStates,
         mainVars, poolVars, producerVars, channelVars, populatorVars
    <2>4. FlowInv'
      BY <1>7 DEF WaitForPopulator, FlowInv, PhaseInv, Queued, Settled,
         mainVars, poolVars, producerVars, channelVars, populatorVars
    <2> QED  BY <2>1, <2>2, <2>3, <2>4
  <1>8. ASSUME NEW d \in Databases, Connect(d)
       PROVE  TypeOK' /\ PoolInv' /\ PhaseInv' /\ FlowInv'
    <2>1. TypeOK'
      <3>1. pending' \in [Producers -> Seq(Queries)]
        BY <1>8, AzureScriptType DEF Connect, TypeOK
      <3>2. worker' \in [Databases -> WorkerStates]
        BY <1>8 DEF Connect, TypeOK, WorkerStates
      <3> QED  BY <1>8, <3>1, <3>2 DEF Connect, TypeOK, mainVars, poolVars, producerVars, channelVars, populatorVars
    <2>2. PoolInv'
      BY <1>8 DEF Connect, PoolInv, Holding, Live, TypeOK, WorkerStates,
         mainVars, poolVars, producerVars, channelVars, populatorVars
    <2>3. PhaseInv'
      BY <1>8 DEF Connect, PhaseInv, Live, TypeOK, WorkerStates,
         mainVars, poolVars, producerVars, channelVars, populatorVars
    <2>4. FlowInv'
      BY <1>8 DEF Connect, FlowInv, PhaseInv, Queued, Settled,
         mainVars, poolVars, producerVars, channelVars, populatorVars
    <2> QED  BY <2>1, <2>2, <2>3, <2>4
  <1>9. ASSUME NEW d \in Databases, ConnectFails(d)
       PROVE  TypeOK' /\ PoolInv' /\ PhaseInv' /\ FlowInv'
    <2>1. TypeOK'
      BY <1>9 DEF ConnectFails, TypeOK, MainStates, WorkerStates,
         mainVars, poolVars, producerVars, channelVars, populatorVars
    <2>2. PoolInv'
      BY <1>9 DEF ConnectFails, PoolInv, Holding, Live, TypeOK, WorkerStates,
         mainVars, poolVars, producerVars, channelVars, populatorVars
    <2>3. PhaseInv'
      BY <1>9 DEF ConnectFails, PhaseInv, Live, TypeOK, WorkerStates,
         mainVars, poolVars, producerVars, channelVars, populatorVars
    <2>4. FlowInv'
      BY <1>9 DEF ConnectFails, FlowInv, PhaseInv, Queued, Settled,
         mainVars, poolVars, producerVars, channelVars, populatorVars
    <2> QED  BY <2>1, <2>2, <2>3, <2>4
  <1>10. ASSUME NEW d \in Databases, WorkerDone(d)
        PROVE  TypeOK' /\ PoolInv' /\ PhaseInv' /\ FlowInv'
    <2>1. TypeOK'
      BY <1>10 DEF WorkerDone, TypeOK, MainStates, WorkerStates,
         mainVars, poolVars, producerVars, channelVars, populatorVars
    <2>2. PoolInv'
      BY <1>10 DEF WorkerDone, PoolInv, Holding, Live, TypeOK, WorkerStates,
         mainVars, poolVars, producerVars, channelVars, populatorVars
    <2>3. PhaseInv'
      BY <1>10 DEF WorkerDone, PhaseInv, Live, TypeOK, WorkerStates,
         mainVars, poolVars, producerVars, channelVars, populatorVars
    <2>4. FlowInv'
      BY <1>10 DEF WorkerDone, FlowInv, PhaseInv, Queued, Settled,
         mainVars, poolVars, producerVars, channelVars, populatorVars
    <2> QED  BY <2>1, <2>2, <2>3, <2>4
  <1>11. ASSUME NEW d \in Databases, CloseConnection(d)
        PROVE  TypeOK' /\ PoolInv' /\ PhaseInv' /\ FlowInv'
    <2>1. TypeOK'
      BY <1>11 DEF CloseConnection, TypeOK, MainStates, WorkerStates,
         mainVars, poolVars, producerVars, channelVars, populatorVars
    <2>2. PoolInv'
      BY <1>11 DEF CloseConnection, PoolInv, Holding, Live, TypeOK, WorkerStates,
         mainVars, poolVars, producerVars, channelVars, populatorVars
    <2>3. PhaseInv'
      BY <1>11 DEF CloseConnection, PhaseInv, Live, TypeOK, WorkerStates,
         mainVars, poolVars, producerVars, channelVars, populatorVars
    <2>4. FlowInv'
      BY <1>11 DEF CloseConnection, FlowInv, PhaseInv, Queued, Settled,
         mainVars, poolVars, producerVars, channelVars, populatorVars
    <2> QED  BY <2>1, <2>2, <2>3, <2>4
  <1>12. ASSUME NEW d \in Databases, Release(d)
        PROVE  TypeOK' /\ PoolInv' /\ PhaseInv' /\ FlowInv'
    <2>1. TypeOK'
      <3>1. Cardinality(Holding') = Cardinality(Holding) - 1 /\ Cardinality(Holding') \in Nat
        BY <1>12, TokenGivenBack DEF Release
      <3>2. dbChan - 1 \in 0..MaxWorkers
        BY <3>1, MaxWorkersType DEF PoolInv, TypeOK
      <3>3. worker' \in [Databases -> WorkerStates]
        BY <1>12 DEF Release, TypeOK, WorkerStates
      <3> QED  BY <1>12, <3>2, <3>3 DEF Release, TypeOK, mainVars, poolVars, producerVars, channelVars, populatorVars
    <2>2. PoolInv'
      <3>1. Cardinality(Holding') = Cardinality(Holding) - 1 /\ Live' = Live
        BY <1>12, TokenGivenBack DEF Release
      <3>2. conns' = {e \in Databases : worker'[e] \in {"produce", "closing"}}
        BY <1>12 DEF Release, PoolInv, TypeOK
      <3> QED  BY <1>12, <3>1, <3>2 DEF Release, PoolInv
    <2>3. PhaseInv'
      BY <1>12 DEF Release, PhaseInv, Live, TypeOK, WorkerStates,
         mainVars, poolVars, producerVars, channelVars, populatorVars
    <2>4. FlowInv'
      BY <1>12 DEF Release, FlowInv, PhaseInv, Queued, Settled,
         mainVars, poolVars, producerVars, channelVars, populatorVars
    <2> QED  BY <2>1, <2>2, <2>3, <2>4
  <1>13. ASSUME NEW d \in Databases, Done(d)
        PROVE  TypeOK' /\ PoolInv' /\ PhaseInv' /\ FlowInv'
    <2>1. TypeOK'
      <3>1. Cardinality(Live') = Cardinality(Live) - 1 /\ Cardinality(Live') \in Nat
        BY <1>13, GroupLeft DEF Done
      <3>2. waitGroup - 1 \in Nat
        BY <3>1 DEF PoolInv
      <3>3. worker' \in [Databases -> WorkerStates]
        BY <1>13 DEF Done, TypeOK, WorkerStates
      <3> QED  BY <1>13, <3>2, <3>3 DEF Done, TypeOK, mainVars, poolVars, producerVars, channelVars, populatorVars
    <2>2. PoolInv'
      <3>1. Cardinality(Live') = Cardinality(Live) - 1 /\ Holding' = Holding
        BY <1>13, GroupLeft DEF Done
      <3>2. conns' = {e \in Databases : worker'[e] \in {"produce", "closing"}}
        BY <1>13 DEF Done, PoolInv, TypeOK
      <3> QED  BY <1>13, <3>1, <3>2 DEF Done, PoolInv
    <2>3. PhaseInv'
      BY <1>13 DEF Done, PhaseInv, Live, TypeOK, WorkerStates,
         mainVars, poolVars, producerVars, channelVars, populatorVars
    <2>4. FlowInv'
      BY <1>13 DEF Done, FlowInv, PhaseInv, Queued, Settled,
         mainVars, poolVars, producerVars, channelVars, populatorVars
    <2> QED  BY <2>1, <2>2, <2>3, <2>4
  <1>14. ASSUME NEW p \in Producers, RunQuery(p)
        PROVE  TypeOK' /\ PoolInv' /\ PhaseInv' /\ FlowInv'
    <2>1. TypeOK'
      <3>1. Head(pending[p]) \in Queries /\ Tail(pending[p]) \in Seq(Queries)
        BY <1>14 DEF RunQuery, TypeOK
      <3>2. PICK rows \in SUBSET AnsweredRows(Head(pending[p])) :
              outbox' = [outbox EXCEPT ![p] = rows]
        BY <1>14 DEF RunQuery
      <3>3. rows \subseteq Models
        BY <3>1, <3>2 DEF Queries, Models, AnsweredRows
      <3>4. outbox' \in [Producers -> SUBSET Models]
        BY <3>2, <3>3 DEF TypeOK
      <3>5. pending' \in [Producers -> Seq(Queries)]
        BY <1>14, <3>1 DEF RunQuery, TypeOK
      <3>6. readings' \in [Producers -> SUBSET MemoryInputs]
        <4>1. PICK read :
                readings' = [readings EXCEPT ![p] = @ \union (read \intersect MemoryInputs)]
          BY <1>14 DEF RunQuery
        <4> QED  BY <4>1 DEF TypeOK
      <3> QED  BY <1>14, <3>4, <3>5, <3>6 DEF RunQuery, TypeOK, mainVars, poolVars, producerVars, channelVars, populatorVars
    <2>2. PoolInv'
      BY <1>14 DEF RunQuery, PoolInv, Holding, Live, TypeOK, WorkerStates,
         mainVars, poolVars, producerVars, channelVars, populatorVars
    <2>3. PhaseInv'
      BY <1>14 DEF RunQuery, PhaseInv, Live, TypeOK, WorkerStates,
         mainVars, poolVars, producerVars, channelVars, populatorVars
    <2>4. FlowInv'
      <3>1. UNCHANGED <<lookup, modelChan, closed, sent, populatorVars>>
        BY <1>14 DEF RunQuery, mainVars, channelVars
      <3> QED  BY <3>1 DEF FlowInv, Queued, Settled, populatorVars
    <2> QED  BY <2>1, <2>2, <2>3, <2>4
  <1>15. ASSUME NEW p \in Producers, DeriveAvailableMemory(p)
        PROVE  TypeOK' /\ PoolInv' /\ PhaseInv' /\ FlowInv'
    <2>1. TypeOK'
      <3>1. Head(pending[p]) \in Queries /\ Tail(pending[p]) \in Seq(Queries)
        BY <1>15 DEF DeriveAvailableMemory, TypeOK
      <3>2. [db : Head(pending[p]).scope, metric : {Head(pending[p]).metric}] \subseteq Models
        BY <3>1 DEF Queries, Models
      <3>3. outbox' \in [Producers -> SUBSET Models]
        BY <1>15, <3>2 DEF DeriveAvailableMemory, TypeOK
      <3>4. pending' \in [Producers -> Seq(Queries)]
        BY <1>15, <3>1 DEF DeriveAvailableMemory, TypeOK
      <3> QED  BY <1>15, <3>3, <3>4 DEF DeriveAvailableMemory, TypeOK, mainVars, poolVars, producerVars, channelVars, populatorVars
    <2>2. PoolInv'
      BY <1>15 DEF DeriveAvailableMemory, PoolInv, Holding, Live, TypeOK, WorkerStates,
         mainVars, poolVars, producerVars, channelVars, populatorVars
    <2>3. PhaseInv'
      BY <1>15 DEF DeriveAvailableMemory, PhaseInv, Live, TypeOK, WorkerStates,
         mainVars, poolVars, producerVars, channelVars, populatorVars
    <2>4. FlowInv'
      BY <1>15 DEF DeriveAvailableMemory, FlowInv, PhaseInv, Queued, Settled,
         mainVars, poolVars, producerVars, channelVars, populatorVars
    <2> QED  BY <2>1, <2>2, <2>3, <2>4
  <1>16. ASSUME NEW p \in Producers, Send(p)
        PROVE  TypeOK' /\ PoolInv' /\ PhaseInv' /\ FlowInv'
    <2>1. TypeOK'
      <3>1. PICK m \in outbox[p] : Send(p)!3!(m)
        BY <1>16 DEF Send
      <3>2. m \in Models /\ modelChan \in Seq(Models) /\ Len(modelChan) \in Nat
        BY <3>1 DEF TypeOK
      <3>3. modelChan' \in Seq(Models) /\ Len(modelChan') = Len(modelChan) + 1
        BY <3>1, <3>2, QueuedAppend
      <3>4. Len(modelChan') <= ChannelCapacity
        BY <1>16, <3>2, <3>3, CapacityType DEF Send
      <3>5. outbox' \in [Producers -> SUBSET Models] /\ sent' \subseteq Models
        BY <3>1, <3>2 DEF TypeOK
      <3> QED  BY <1>16, <3>3, <3>4, <3>5 DEF Send, TypeOK, mainVars, poolVars, producerVars, channelVars, populatorVars
    <2>2. PoolInv'
      BY <1>16 DEF Send, PoolInv, Holding, Live, TypeOK, WorkerStates,
         mainVars, poolVars, producerVars, channelVars, populatorVars
    <2>3. PhaseInv'
      BY <1>16 DEF Send, PhaseInv, Live, TypeOK, WorkerStates,
         mainVars, poolVars, producerVars, channelVars, populatorVars
    <2>4. FlowInv'
      <3>1. PICK m \in outbox[p] : Send(p)!3!(m)
        BY <1>16 DEF Send
      <3>2. m \in Models /\ modelChan \in Seq(Models)
        BY <3>1 DEF TypeOK
      <3>3. Queued' = Queued \union {m}
        BY <3>1, <3>2, QueuedAppend DEF Queued
      <3>4. populator' = populator /\ inHand' = inHand /\ Settled' = Settled /\ closed' = closed
            /\ sent' = sent \union {m}
        BY <1>16, <3>1 DEF Send, Settled, mainVars, poolVars, producerVars, channelVars, populatorVars
      <3>5. ~closed /\ populator # "idle"
        <4>1. CASE p = Main /\ main = "produce"
          BY <4>1 DEF PhaseInv
        <4>2. CASE p \in Databases /\ worker[p] = "produce"
          <5>1. p \in Live /\ p \in lookup
            BY <4>2 DEF Live, PhaseInv
          <5> QED  BY <5>1 DEF PhaseInv, FlowInv
        <4> QED  BY <1>16, <4>1, <4>2 DEF Send, Producing
      <3> QED  BY <3>3, <3>4, <3>5 DEF FlowInv
    <2> QED  BY <2>1, <2>2, <2>3, <2>4
  <1>17. ASSUME Receive
        PROVE  TypeOK' /\ PoolInv' /\ PhaseInv' /\ FlowInv'
    <2>1. TypeOK'
      <3>1. /\ Head(modelChan) \in Models
            /\ Tail(modelChan) \in Seq(Models)
            /\ Len(Tail(modelChan)) <= Len(modelChan)
            /\ Len(modelChan) \in Nat /\ Len(Tail(modelChan)) \in Nat
        BY <1>17, QueuedTail DEF Receive, TypeOK
      <3>2. Len(modelChan') <= ChannelCapacity
        BY <1>17, <3>1, CapacityType DEF Receive, TypeOK
      <3> QED  BY <1>17, <3>1, <3>2 DEF Receive, TypeOK, mainVars, poolVars, producerVars, channelVars, populatorVars
    <2>2. PoolInv'
      BY <1>17 DEF Receive, PoolInv, Holding, Live, TypeOK, WorkerStates,
         mainVars, poolVars, producerVars, channelVars, populatorVars
    <2>3. PhaseInv'
      BY <1>17 DEF Receive, PhaseInv, Live, TypeOK, WorkerStates,
         mainVars, poolVars, producerVars, channelVars, populatorVars
    <2>4. FlowInv'
      <3>1. Queued = Queued' \union {Head(modelChan)}
        BY <1>17, QueuedTail DEF Receive, Queued, TypeOK
      <3>2. inHand = {} /\ inHand' = {Head(modelChan)} /\ Settled' = Settled /\ sent' = sent
            /\ populator = "running" /\ populator' = populator
        BY <1>17 DEF Receive, Settled, mainVars, poolVars, producerVars, channelVars, populatorVars
      <3> QED  BY <3>1, <3>2 DEF FlowInv
    <2> QED  BY <2>1, <2>2, <2>3, <2>4
  <1>18. ASSUME Record
        PROVE  TypeOK' /\ PoolInv' /\ PhaseInv' /\ FlowInv'
    <2>1. TypeOK'
      BY <1>18 DEF Record, TypeOK, MainStates, WorkerStates,
         mainVars, poolVars, producerVars, channelVars, populatorVars
    <2>2. PoolInv'
      BY <1>18 DEF Record, PoolInv, Holding, Live, TypeOK, WorkerStates,
         mainVars, poolVars, producerVars, channelVars, populatorVars
    <2>3. PhaseInv'
      BY <1>18 DEF Record, PhaseInv, Live, TypeOK, WorkerStates,
         mainVars, poolVars, producerVars, channelVars, populatorVars
    <2>4. FlowInv'
      <3>1. Settled' = Settled \union inHand /\ inHand' = {}
        BY <1>18 DEF Record, FlowInv, Settled
      <3>2. Queued' = Queued /\ sent' = sent /\ populator = "running" /\ populator' = populator
        BY <1>18 DEF Record, Queued, mainVars, poolVars, producerVars, channelVars, populatorVars
      <3> QED  BY <3>1, <3>2 DEF FlowInv
    <2> QED  BY <2>1, <2>2, <2>3, <2>4
  <1>19. ASSUME Drop
        PROVE  TypeOK' /\ PoolInv' /\ PhaseInv' /\ FlowInv'
    <2>1. TypeOK'
      BY <1>19 DEF Drop, TypeOK, MainStates, WorkerStates,
         mainVars, poolVars, producerVars, channelVars, populatorVars
    <2>2. PoolInv'
      BY <1>19 DEF Drop, PoolInv, Holding, Live, TypeOK, WorkerStates,
         mainVars, poolVars, producerVars, channelVars, populatorVars
    <2>3. PhaseInv'
      BY <1>19 DEF Drop, PhaseInv, Live, TypeOK, WorkerStates,
         mainVars, poolVars, producerVars, channelVars, populatorVars
    <2>4. FlowInv'
      <3>1. Settled' = Settled \union inHand /\ inHand' = {}
        BY <1>19 DEF Drop, FlowInv, Settled
      <3>2. Queued' = Queued /\ sent' = sent /\ populator = "running" /\ populator' = populator
        BY <1>19 DEF Drop, Queued, mainVars, poolVars, producerVars, channelVars, populatorVars
      <3> QED  BY <3>1, <3>2 DEF FlowInv
    <2> QED  BY <2>1, <2>2, <2>3, <2>4
  <1>20. ASSUME PopulatorExits
        PROVE  TypeOK' /\ PoolInv' /\ PhaseInv' /\ FlowInv'
    <2>1. TypeOK'
      BY <1>20 DEF PopulatorExits, TypeOK, MainStates, WorkerStates,
         mainVars, poolVars, producerVars, channelVars, populatorVars
    <2>2. PoolInv'
      BY <1>20 DEF PopulatorExits, PoolInv, Holding, Live, TypeOK, WorkerStates,
         mainVars, poolVars, producerVars, channelVars, populatorVars
    <2>3. PhaseInv'
      BY <1>20 DEF PopulatorExits, PhaseInv, Live, TypeOK, WorkerStates,
         mainVars, poolVars, producerVars, channelVars, populatorVars
    <2>4. FlowInv'
      BY <1>20 DEF PopulatorExits, FlowInv, PhaseInv, Queued, Settled,
         mainVars, poolVars, producerVars, channelVars, populatorVars
    <2> QED  BY <2>1, <2>2, <2>3, <2>4
  <1>21. CASE UNCHANGED vars
    BY <1>21 DEF vars, mainVars, poolVars, producerVars, channelVars, populatorVars, TypeOK, PoolInv, PhaseInv, FlowInv,
       Holding, Live, Queued, Settled
  <1> QED
    BY <1>1, <1>2, <1>3, <1>4, <1>5, <1>6, <1>7, <1>8, <1>9, <1>10, <1>11, <1>12, <1>13, <1>14, <1>15, <1>16, <1>17, <1>18, <1>19, <1>20, <1>21
    DEF Next, MainNext, WorkerNext, PopulatorNext, Produce, Finished, Producers

\* MachineryInv holds in every reachable state.
THEOREM MachineryInvariance == Spec => []MachineryInv
  BY InitInv, NextInv, PTL DEF Spec

-----------------------------------------------------------------------------
(* The theorems.                                                           *)

\* The variables keep their types; in particular the semaphore never holds
\* more than MaxWorkers tokens, the wait group never goes negative (a panic in
\* Go) and modelChan never exceeds its capacity.
THEOREM TypeCorrect == Spec => []TypeOK
  <1>1. MachineryInv => TypeOK
    BY DEF MachineryInv
  <1> QED  BY <1>1, MachineryInvariance, PTL

\* At no time do the workers hold more connections than the configured number
\* of workers, however connections fail and workers overtake each other.
THEOREM ConnectionsBounded == Spec => []WorkerConnectionBound
  <1>1. ASSUME MachineryInv
        PROVE  WorkerConnectionBound
    <2>1. conns \subseteq Holding
      BY <1>1 DEF MachineryInv, PoolInv, Holding
    <2>2. Cardinality(conns) <= Cardinality(Holding) /\ Cardinality(conns) \in Nat
      BY <2>1, HoldingFinite, FS_Subset, FS_CardinalityType
    <2>3. Cardinality(Holding) <= MaxWorkers
      BY <1>1, MaxWorkersType DEF MachineryInv, PoolInv, TypeOK
    <2> QED  BY <2>2, <2>3, HoldingFinite, MaxWorkersType DEF WorkerConnectionBound
  <1> QED  BY <1>1, MachineryInvariance, PTL

\* No goroutine can send once modelChan is closed, so the send never panics.
THEOREM ClosedAfterProducers == Spec => []NoSendAfterClose
  <1>1. ASSUME MachineryInv, closed, NEW p \in Producers, Producing(p)
        PROVE  FALSE
    <2>1. main \in {"join", "returned"} /\ Live = {}
      BY <1>1 DEF MachineryInv, PhaseInv
    <2>2. CASE p = Main /\ main = "produce"
      BY <2>1, <2>2
    <2>3. CASE p \in Databases /\ worker[p] = "produce"
      BY <2>1, <2>3 DEF Live
    <2> QED  BY <1>1, <2>2, <2>3 DEF Producing
  <1>2. MachineryInv => NoSendAfterClose
    BY <1>1 DEF NoSendAfterClose
  <1> QED  BY <1>2, MachineryInvariance, PTL

\* When PopulateDatabaseMetrics returns, all that was sent is settled, every
\* listed database was visited, every connection is closed and no goroutine
\* is left.
THEOREM SettledOnReturn == Spec => []SettledBeforeReturn
  <1>1. ASSUME MachineryInv, main = "returned"
        PROVE  /\ sent = Settled
               /\ conns = {}
               /\ \A d \in Databases :
                    worker[d] = IF OnAzureSQLDatabase /\ d \in lookup THEN "exited" ELSE "none"
               /\ populator = "done"
    <2>1. populator = "done" /\ undispatched = {} /\ Live = {}
      BY <1>1 DEF MachineryInv, PhaseInv
    <2>2. modelChan = << >> /\ inHand = {}
      BY <1>1, <2>1 DEF MachineryInv, FlowInv
    <2>3. Queued = {}
      BY <2>2 DEF Queued
    <2>4. sent = Settled
      BY <1>1, <2>2, <2>3 DEF MachineryInv, FlowInv
    <2>5. conns = {}
      BY <1>1, <2>1 DEF MachineryInv, PoolInv, Live
    <2>6. \A d \in Databases :
            worker[d] = IF OnAzureSQLDatabase /\ d \in lookup THEN "exited" ELSE "none"
      BY <1>1, <2>1 DEF MachineryInv, PhaseInv, Live
    <2> QED  BY <2>1, <2>4, <2>5, <2>6
  <1>2. MachineryInv => SettledBeforeReturn
    BY <1>1 DEF SettledBeforeReturn
  <1> QED  BY <1>2, MachineryInvariance, PTL

-----------------------------------------------------------------------------
(* Every step is a step of MetricCollection or leaves its variables alone. *)

LEMMA CollectionInit == Init => Collection!Init
  BY DEF Init, Collection!Init, Settled

LEMMA OutcomeOpen ==
  ASSUME MachineryInv
  PROVE  /\ \A p \in Producers : Producing(p) => main \notin {"returned", "error"}
         /\ populator = "running" => main \notin {"returned", "error"}
  <1>1. ASSUME NEW p \in Producers, Producing(p)
        PROVE  main \notin {"returned", "error"}
    <2>1. CASE p = Main /\ main = "produce"
      BY <2>1
    <2>2. CASE p \in Databases /\ worker[p] = "produce"
      <3>1. p \in Live /\ p \in lookup
        BY <2>2 DEF MachineryInv, PhaseInv, Live
      <3> QED  BY <3>1 DEF MachineryInv, PhaseInv, FlowInv
    <2> QED  BY <1>1, <2>1, <2>2 DEF Producing
  <1>2. populator = "running" => main \notin {"returned", "error"}
    BY DEF MachineryInv, PhaseInv
  <1> QED  BY <1>1, <1>2

LEMMA CollectionStep == MachineryInv /\ [Next]_vars => [Collection!Next]_(Collection!vars)
  <1> SUFFICES ASSUME MachineryInv, [Next]_vars
               PROVE  [Collection!Next]_(Collection!vars)
    OBVIOUS
  <1> DEFINE outcome == IF main \in {"returned", "error"} THEN main ELSE "open"
  <1>1. ASSUME NEW p \in Producers, Send(p)
        PROVE  Collection!Next
    <2>1. PICK m \in outbox[p] : sent' = sent \union {m}
      BY <1>1 DEF Send
    <2>2. m \in Models
      BY <2>1 DEF MachineryInv, TypeOK
    <2>3. outcome = "open" /\ outcome' = outcome /\ Settled' = Settled
      BY <1>1, OutcomeOpen DEF Send, Settled, mainVars, poolVars, producerVars, channelVars, populatorVars
    <2>4. Collection!Submit(m)
      BY <2>1, <2>3 DEF Collection!Submit
    <2> QED  BY <2>2, <2>4 DEF Collection!Next
  <1>2. ASSUME Record \/ Drop
        PROVE  [Collection!Next]_(Collection!vars)
    <2>1. PICK m \in inHand : Settled' = Settled \union {m}
      BY <1>2 DEF Record, Drop, Settled
    <2>2. m \in Models /\ m \in sent
      BY <2>1 DEF MachineryInv, TypeOK, FlowInv
    <2>3. outcome = "open" /\ outcome' = outcome /\ sent' = sent
      BY <1>2, OutcomeOpen DEF Record, Drop, mainVars, poolVars, producerVars, channelVars, populatorVars
    <2>4. CASE m \in Settled
      BY <2>1, <2>3, <2>4 DEF Collection!vars
    <2>5. CASE m \notin Settled
      <3>1. Collection!Settle(m)
        BY <2>1, <2>2, <2>3, <2>5 DEF Collection!Settle
      <3> QED  BY <2>2, <3>1 DEF Collection!Next, Collection!SettleSome
    <2> QED  BY <2>4, <2>5
  <1>3. ASSUME WaitForPopulator
        PROVE  Collection!Next
    <2>1. Queued = {} /\ inHand = {}
      BY <1>3 DEF WaitForPopulator, MachineryInv, FlowInv, Queued
    <2>2. sent = Settled
      BY <2>1 DEF MachineryInv, FlowInv
    <2>3. outcome = "open" /\ outcome' = "returned" /\ sent' = sent /\ Settled' = Settled
      BY <1>3 DEF WaitForPopulator, Settled, mainVars, poolVars, producerVars, channelVars, populatorVars
    <2>4. Collection!Return
      BY <2>2, <2>3 DEF Collection!Return
    <2> QED  BY <2>4 DEF Collection!Next
  <1>4. ASSUME CreateEntitiesFails
        PROVE  Collection!Next
    <2>1. sent = {}
      BY <1>4 DEF CreateEntitiesFails, MachineryInv, PhaseInv, FlowInv
    <2>2. outcome = "open" /\ outcome' = "error" /\ sent' = sent /\ Settled' = Settled
      BY <1>4 DEF CreateEntitiesFails, Settled, mainVars, poolVars, producerVars, channelVars, populatorVars
    <2>3. Collection!Fail
      BY <2>1, <2>2 DEF Collection!Fail
    <2> QED  BY <2>3 DEF Collection!Next
  <1>5. ASSUME \/ CreateEntities
               \/ \E d \in Databases : Dispatch(d)
               \/ WaitForWorkers \/ DefaultDone \/ CloseModelChan
        PROVE  UNCHANGED Collection!vars
    <2>1. sent' = sent /\ Settled' = Settled
      BY <1>5 DEF CreateEntities, Dispatch, WaitForWorkers, DefaultDone, CloseModelChan,
         Settled, mainVars, poolVars, producerVars, channelVars, populatorVars
    <2>2. outcome' = outcome
      BY <1>5 DEF CreateEntities, Dispatch, WaitForWorkers, DefaultDone, CloseModelChan
    <2> QED  BY <2>1, <2>2 DEF Collection!vars
  <1>6. ASSUME NEW d \in Databases,
               Connect(d) \/ ConnectFails(d) \/ WorkerDone(d) \/ CloseConnection(d)
                 \/ Release(d) \/ Done(d)
        PROVE  UNCHANGED Collection!vars
    BY <1>6 DEF Connect, ConnectFails, WorkerDone, CloseConnection, Release, Done,
       Collection!vars, Settled, mainVars, poolVars, producerVars, channelVars, populatorVars
  <1>7. ASSUME \/ \E p \in Producers : RunQuery(p) \/ DeriveAvailableMemory(p)
               \/ Receive \/ PopulatorExits
               \/ UNCHANGED vars
        PROVE  UNCHANGED Collection!vars
    BY <1>7 DEF RunQuery, DeriveAvailableMemory, Receive, PopulatorExits,
       Collection!vars, Settled, vars, mainVars, poolVars, producerVars, channelVars, populatorVars
  <1> QED
    BY <1>1, <1>2, <1>3, <1>4, <1>5, <1>6, <1>7
    DEF Next, MainNext, WorkerNext, PopulatorNext, Produce, Finished, Producers

\* The safety half of ImplementsCollection: every behaviour of the goroutines,
\* fair or not, is one MetricCollection allows.
THEOREM CollectionSafety ==
    Spec => Collection!Init /\ [][Collection!Next]_(Collection!vars)
  BY CollectionInit, CollectionStep, MachineryInvariance, PTL DEF Spec
=============================================================================
