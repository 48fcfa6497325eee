--------------------------- MODULE LifecycleProofs ---------------------------
(***************************************************************************)
(* Theorems of Lifecycle, for every command line, every server and all     *)
(* result rows.  The invariant says what each phase of main has behind it: *)
(* the inventory statements, the two collections, the open connection      *)
(* pools and the report; in it query monitoring enters only with what its  *)
(* steps leave alone.  What is proved of query monitoring by itself, and   *)
(* the connection strings, have sections of their own at the end.          *)
(***************************************************************************)
EXTENDS Lifecycle, FiniteSetTheorems, TLAPS

LEMMA InitInv == Init => PhasesInv
  <1> SUFFICES ASSUME Init PROVE PhasesInv
    OBVIOUS
  <1>1. /\ al \in ArgumentLists /\ server \in Servers
        /\ main = "arguments" /\ exit = Running /\ open = {}
        /\ engineEdition = 0 /\ inventory = {} /\ report = {}
        /\ Databases!Init /\ Instance!Init
    BY DEF Init
  <1>2. pc = "connect" /\ payload = {} /\ published = {}
    BY DEF Init, Monitoring!Init
  <1>3. TypeOK
    BY <1>1 DEF TypeOK, Phases, Running, Databases!Init, Databases!TypeOK, Instance!Init, Instance!TypeOK
  <1>4. InventoryInv
    BY <1>1 DEF InventoryInv
  <1>5. CollectionInv
    BY <1>1 DEF CollectionInv, Databases!Init, Instance!Init
  <1>6. OpenInv
    BY <1>1 DEF OpenInv, Phases
  <1>7. ReportInv
    BY <1>1, <1>2 DEF ReportInv, Running
  <1> QED  BY <1>3, <1>4, <1>5, <1>6, <1>7 DEF PhasesInv

-----------------------------------------------------------------------------
(* A step of main that collects, opens and publishes nothing.              *)

LEMMA CollectionsKept ==
  ASSUME UNCHANGED collected
  PROVE  /\ UNCHANGED <<engineEdition, inventory, dSubmitted, dSettled, dOutcome, iSubmitted, iSettled, iOutcome>>
         /\ Databases!Init' = Databases!Init /\ Instance!Init' = Instance!Init
         /\ Databases!TypeOK' = Databases!TypeOK /\ Instance!TypeOK' = Instance!TypeOK
         /\ Statements' = Statements
  BY DEF collected, databaseVars, instanceVars, Databases!Init, Instance!Init,
         Databases!TypeOK, Instance!TypeOK, Statements, SPConfigStatement

LEMMA MonitoringKept ==
  ASSUME UNCHANGED monitoringVars
  PROVE  UNCHANGED <<pc, payload, published>>
  BY DEF monitoringVars

\* The ways to leave before anything was collected.
LEMMA EarlyExit ==
  ASSUME PhasesInv, main \in {"arguments", "connect", "entity"},
         main' = "exited", exit' \in {"success", "failure"},
         exit' = "success" => open = {},
         UNCHANGED <<given, open, report, collected, listed, monitoringVars>>
  PROVE  PhasesInv'
  <1>1. UNCHANGED <<al, server, open, report>> /\ UNCHANGED <<pc, payload, published>>
    BY MonitoringKept DEF given
  <1>2. /\ inventory = {} /\ dSubmitted = {} /\ iSubmitted = {} /\ report = {}
        /\ Databases!Init /\ Instance!Init
    BY DEF PhasesInv, InventoryInv, CollectionInv, ReportInv, Phases, Databases!Init, Instance!Init
  <1>3. open = {} \/ (open = {"main"} /\ Validate(al))
    <2>1. CASE main = "arguments"
      BY <2>1 DEF PhasesInv, OpenInv
    <2>2. CASE main \in {"connect", "entity"}
      BY <2>2 DEF PhasesInv, OpenInv, Phases
    <2> QED  BY <2>1, <2>2
  <1>4. TypeOK'
    BY <1>1, CollectionsKept DEF PhasesInv, TypeOK, Phases
  <1>5. InventoryInv'
    BY DEF InventoryInv
  <1>6. CollectionInv'
    BY <1>2, CollectionsKept DEF CollectionInv, Databases!Init, Instance!Init
  <1>7. OpenInv'
    BY <1>1, <1>2, <1>3, CollectionsKept DEF OpenInv
  <1>8. ReportInv'
    BY <1>1, <1>2, CollectionsKept DEF PhasesInv, ReportInv, Phases
  <1> QED  BY <1>4, <1>5, <1>6, <1>7, <1>8 DEF PhasesInv

\* The steps before the collections that go on.
LEMMA EarlyStep ==
  ASSUME PhasesInv,
         \/ (main = "arguments" /\ main' = "connect" /\ Validate(al) /\ open' = open)
         \/ (main = "connect" /\ main' = "entity" /\ open' = open \union {"main"})
         \/ (main = "entity" /\ main' = "edition" /\ open' = open),
         exit' = exit,
         UNCHANGED <<given, report, collected, listed, monitoringVars>>
  PROVE  PhasesInv'
  <1>1. UNCHANGED <<al, server, report, exit>> /\ UNCHANGED <<pc, payload, published>>
    BY MonitoringKept DEF given
  <1>2. /\ inventory = {} /\ report = {} /\ Databases!Init /\ Instance!Init
    BY DEF PhasesInv, InventoryInv, CollectionInv, ReportInv, Phases
  <1>3. /\ Validate(al)
        /\ main' \in {"connect", "entity", "edition"}
        /\ main' = "connect" => open' = {}
        /\ main' \in {"entity", "edition"} => open' = {"main"}
    BY DEF PhasesInv, OpenInv, Phases
  <1>4. TypeOK'
    BY <1>1, <1>3, CollectionsKept DEF PhasesInv, TypeOK, Phases
  <1>5. InventoryInv'
    BY <1>2, <1>3, CollectionsKept DEF InventoryInv
  <1>6. CollectionInv'
    BY <1>2, <1>3, CollectionsKept DEF CollectionInv, Databases!Init, Instance!Init
  <1>7. OpenInv'
    <2>1. Validate(al)'
      BY <1>1, <1>3 DEF Validate
    <2> QED  BY <1>3, <2>1 DEF OpenInv, Phases
  <1>8. ReportInv'
    BY <1>1, <1>2, <1>3, CollectionsKept DEF PhasesInv, ReportInv, Phases
  <1> QED  BY <1>4, <1>5, <1>6, <1>7, <1>8 DEF PhasesInv

-----------------------------------------------------------------------------
(* Edition and inventory.                                                  *)

LEMMA GivenKept ==
  ASSUME UNCHANGED given
  PROVE  /\ al' = al /\ server' = server
         /\ HasInventory(al)' = HasInventory(al)
         /\ HasMetrics(al)' = HasMetrics(al)
         /\ Validate(al)' = Validate(al)
  BY DEF given, HasInventory, HasMetrics, All, Validate

\* From the edition to the databases: one pool, nothing collected or published.
LEMMA Middle ==
  ASSUME PhasesInv, main \in {"edition", "inventory", "sysconfig"}
  PROVE  /\ open = {"main"} /\ report = {} /\ Validate(al)
         /\ Databases!Init /\ Instance!Init
         /\ pc = "connect" /\ payload = {} /\ published = {} /\ exit # "panic"
  <1>1. open = {"main"} /\ Validate(al)
    BY DEF PhasesInv, OpenInv, Phases
  <1>2. report = {} /\ pc = "connect" /\ payload = {} /\ published = {} /\ exit # "panic"
    BY DEF PhasesInv, ReportInv, Phases
  <1> QED  BY <1>1, <1>2 DEF PhasesInv, CollectionInv

LEMMA MiddleStep ==
  ASSUME PhasesInv, main \in {"edition", "inventory", "sysconfig"},
         main' \in {"inventory", "sysconfig", "databases"},
         engineEdition' \in {0, server.edition},
         InventoryInv',
         UNCHANGED <<given, exit, open, report, databaseVars, instanceVars, listed, monitoringVars>>
  PROVE  PhasesInv'
  <1>1. /\ UNCHANGED <<al, server, open, report, exit>>
        /\ UNCHANGED <<pc, payload, published>>
        /\ Validate(al)' = Validate(al)
        /\ UNCHANGED <<dSubmitted, dSettled, dOutcome, iSubmitted, iSettled, iOutcome>>
    BY GivenKept, MonitoringKept DEF given, databaseVars, instanceVars
  <1>2. /\ Databases!Init' = Databases!Init /\ Instance!Init' = Instance!Init
        /\ Databases!TypeOK' = Databases!TypeOK /\ Instance!TypeOK' = Instance!TypeOK
    BY <1>1 DEF Databases!Init, Instance!Init, Databases!TypeOK, Instance!TypeOK
  <1>3. TypeOK'
    BY <1>1, <1>2 DEF PhasesInv, TypeOK, Phases
  <1>4. CollectionInv'
    BY <1>1, <1>2, Middle DEF CollectionInv, Databases!Init, Instance!Init
  <1>5. OpenInv'
    BY <1>1, Middle DEF OpenInv, Phases
  <1>6. ReportInv'
    BY <1>1, Middle DEF ReportInv, Phases
  <1> QED  BY <1>3, <1>4, <1>5, <1>6 DEF PhasesInv

LEMMA GetEngineEditionInv == PhasesInv /\ GetEngineEdition => PhasesInv'
  <1> SUFFICES ASSUME PhasesInv, GetEngineEdition PROVE PhasesInv'
    OBVIOUS
  <1>1. /\ main = "edition" /\ main' = "inventory" /\ inventory' = inventory
        /\ engineEdition' \in {0, server.edition}
        /\ UNCHANGED <<given, exit, open, report, databaseVars, instanceVars, listed, monitoringVars>>
    BY DEF GetEngineEdition, Goto
  <1>2. InventoryInv'
    BY <1>1 DEF PhasesInv, InventoryInv
  <1> QED  BY <1>1, <1>2, MiddleStep

LEMMA NoInventoryInv == PhasesInv /\ NoInventory => PhasesInv'
  <1> SUFFICES ASSUME PhasesInv, NoInventory PROVE PhasesInv'
    OBVIOUS
  <1>1. /\ main = "inventory" /\ main' = "databases" /\ ~HasInventory(al)
        /\ inventory' = inventory /\ engineEdition' = engineEdition
        /\ UNCHANGED <<given, exit, open, report, databaseVars, instanceVars, listed, monitoringVars>>
    BY DEF NoInventory, Goto, collected
  <1>2. InventoryInv'
    BY <1>1, GivenKept DEF PhasesInv, InventoryInv
  <1>3. engineEdition' \in {0, server.edition}
    BY <1>1 DEF PhasesInv, TypeOK
  <1> QED  BY <1>1, <1>2, <1>3, MiddleStep

LEMMA SPConfigInv == PhasesInv /\ PopulateSPConfigItems => PhasesInv'
  <1> SUFFICES ASSUME PhasesInv, PopulateSPConfigItems PROVE PhasesInv'
    OBVIOUS
  <1>1. /\ main = "inventory" /\ main' = "sysconfig" /\ HasInventory(al)
        /\ inventory' = inventory \union {SPConfigStatement(engineEdition)}
        /\ engineEdition' = engineEdition
        /\ UNCHANGED <<given, exit, open, report, databaseVars, instanceVars, listed, monitoringVars>>
    BY DEF PopulateSPConfigItems, Goto
  <1>2. inventory = {} /\ SPConfigStatement(engineEdition)' = SPConfigStatement(engineEdition)
    BY <1>1 DEF PhasesInv, InventoryInv, SPConfigStatement
  <1>3. InventoryInv'
    BY <1>1, <1>2, GivenKept DEF InventoryInv
  <1>4. engineEdition' \in {0, server.edition}
    BY <1>1 DEF PhasesInv, TypeOK
  <1> QED  BY <1>1, <1>3, <1>4, MiddleStep

LEMMA SysConfigInv == PhasesInv /\ PopulateSysConfigItems => PhasesInv'
  <1> SUFFICES ASSUME PhasesInv, PopulateSysConfigItems PROVE PhasesInv'
    OBVIOUS
  <1>1. /\ main = "sysconfig" /\ main' = "databases"
        /\ inventory' = inventory \union {"value of sys.configurations"}
        /\ engineEdition' = engineEdition
        /\ UNCHANGED <<given, exit, open, report, databaseVars, instanceVars, listed, monitoringVars>>
    BY DEF PopulateSysConfigItems, Goto
  <1>2. inventory = {SPConfigStatement(engineEdition)} /\ HasInventory(al)
    BY <1>1 DEF PhasesInv, InventoryInv
  <1>3. inventory' = Statements'
    BY <1>1, <1>2 DEF Statements, SPConfigStatement
  <1>4. InventoryInv'
    BY <1>1, <1>2, <1>3, GivenKept DEF InventoryInv
  <1>5. engineEdition' \in {0, server.edition}
    BY <1>1 DEF PhasesInv, TypeOK
  <1> QED  BY <1>1, <1>4, <1>5, MiddleStep

-----------------------------------------------------------------------------
(* The collections and the first Publish.                                  *)

\* While the metrics are collected: one pool, a complete inventory, no report.
LEMMA Collecting ==
  ASSUME PhasesInv, main \in {"databases", "instance", "publish"}
  PROVE  /\ open = {"main"} /\ report = {} /\ Validate(al)
         /\ inventory = IF HasInventory(al) THEN Statements ELSE {}
         /\ pc = "connect" /\ payload = {} /\ published = {} /\ exit # "panic"
  <1>1. open = {"main"} /\ Validate(al)
    BY DEF PhasesInv, OpenInv, Phases
  <1>2. report = {} /\ pc = "connect" /\ payload = {} /\ published = {} /\ exit # "panic"
    BY DEF PhasesInv, ReportInv, Phases
  <1> QED  BY <1>1, <1>2 DEF PhasesInv, InventoryInv

LEMMA CollectingStep ==
  ASSUME PhasesInv, main \in {"databases", "instance", "publish"},
         main' \in {"databases", "instance", "publish", "return"},
         UNCHANGED <<given, exit, open, report, engineEdition, inventory, listed, monitoringVars>>,
         Databases!TypeOK', Instance!TypeOK', iOutcome' # "error", CollectionInv'
  PROVE  PhasesInv'
  <1>1. /\ UNCHANGED <<al, server, open, report, exit, engineEdition, inventory>>
        /\ UNCHANGED <<pc, payload, published>>
        /\ Validate(al)' = Validate(al)
        /\ HasInventory(al)' = HasInventory(al)
    BY GivenKept, MonitoringKept DEF given
  <1>2. Statements' = Statements
    BY <1>1 DEF Statements, SPConfigStatement
  <1>3. TypeOK'
    BY <1>1 DEF PhasesInv, TypeOK, Phases
  <1>4. InventoryInv'
    BY <1>1, <1>2, Collecting DEF InventoryInv
  <1>5. OpenInv'
    BY <1>1, Collecting DEF OpenInv, Phases
  <1>6. ReportInv'
    BY <1>1, Collecting DEF ReportInv, Phases
  <1> QED  BY <1>3, <1>4, <1>5, <1>6 DEF PhasesInv

LEMMA CollectDatabasesInv == PhasesInv /\ CollectDatabases => PhasesInv'
  <1> SUFFICES ASSUME PhasesInv, CollectDatabases PROVE PhasesInv'
    OBVIOUS
  <1>1. /\ main = "databases" /\ main' = "databases" /\ Databases!Next
        /\ HasMetrics(al) /\ HasMetrics(al)' = HasMetrics(al)
        /\ UNCHANGED <<given, exit, open, report, engineEdition, inventory, listed, monitoringVars>>
        /\ UNCHANGED <<iSubmitted, iSettled, iOutcome>>
    BY GivenKept DEF CollectDatabases, instanceVars
  <1>2. Databases!TypeOK /\ (dOutcome # "open" => dSettled = dSubmitted)
    BY DEF PhasesInv, TypeOK, CollectionInv
  <1>3. Databases!TypeOK' /\ (dOutcome' # "open" => dSettled' = dSubmitted')
    <2>1. CASE \E m \in DatabaseRows : Databases!Submit(m)
      BY <1>2, <2>1 DEF Databases!TypeOK, Databases!Submit
    <2>2. CASE \E m \in DatabaseRows : Databases!Settle(m)
      BY <1>2, <2>2 DEF Databases!TypeOK, Databases!Settle
    <2>3. CASE Databases!Return
      BY <1>2, <2>3 DEF Databases!TypeOK, Databases!Return
    <2>4. CASE Databases!Fail
      BY <1>2, <2>4 DEF Databases!TypeOK, Databases!Fail
    <2> QED  BY <1>1, <2>1, <2>2, <2>3, <2>4 DEF Databases!Next, Databases!SettleSome
  <1>4. Instance!TypeOK' /\ Instance!Init' = Instance!Init /\ iOutcome' # "error"
    BY <1>1 DEF PhasesInv, TypeOK, Instance!TypeOK, Instance!Init
  <1>5. CollectionInv'
    BY <1>1, <1>3, <1>4 DEF PhasesInv, CollectionInv
  <1> QED  BY <1>1, <1>3, <1>4, <1>5, CollectingStep

LEMMA CollectInstanceInv == PhasesInv /\ CollectInstance => PhasesInv'
  <1> SUFFICES ASSUME PhasesInv, CollectInstance PROVE PhasesInv'
    OBVIOUS
  <1>1. /\ main = "instance" /\ main' = "instance" /\ Instance!Next /\ iOutcome' # "error"
        /\ UNCHANGED <<given, exit, open, report, engineEdition, inventory, listed, monitoringVars>>
        /\ UNCHANGED <<dSubmitted, dSettled, dOutcome>>
    BY DEF CollectInstance, databaseVars
  <1>2. Instance!TypeOK /\ (iOutcome # "open" => iSettled = iSubmitted)
    BY DEF PhasesInv, TypeOK, CollectionInv
  <1>3. Instance!TypeOK' /\ (iOutcome' # "open" => iSettled' = iSubmitted')
    <2>1. CASE \E m \in InstanceRows : Instance!Submit(m)
      BY <1>2, <2>1 DEF Instance!TypeOK, Instance!Submit
    <2>2. CASE \E m \in InstanceRows : Instance!Settle(m)
      BY <1>2, <2>2 DEF Instance!TypeOK, Instance!Settle
    <2>3. CASE Instance!Return
      BY <1>2, <2>3 DEF Instance!TypeOK, Instance!Return
    <2>4. CASE Instance!Fail
      BY <1>2, <2>4 DEF Instance!TypeOK, Instance!Fail
    <2> QED  BY <1>1, <2>1, <2>2, <2>3, <2>4 DEF Instance!Next, Instance!SettleSome
  <1>4. Databases!TypeOK'
    BY <1>1 DEF PhasesInv, TypeOK, Databases!TypeOK
  <1>5. CollectionInv'
    BY <1>1, <1>3, GivenKept DEF PhasesInv, CollectionInv
  <1> QED  BY <1>1, <1>3, <1>4, <1>5, CollectingStep

\* From one phase of the collections to the next.
LEMMA PhaseEnds == PhasesInv /\ (NoMetrics \/ DatabasesCollected \/ InstanceCollected \/ PublishFails) => PhasesInv'
  <1> SUFFICES ASSUME PhasesInv, NoMetrics \/ DatabasesCollected \/ InstanceCollected \/ PublishFails
               PROVE  PhasesInv'
    OBVIOUS
  <1>1. /\ main \in {"databases", "instance", "publish"}
        /\ main' \in {"instance", "publish", "return"} /\ exit' = exit
        /\ UNCHANGED <<given, open, report, collected, listed, monitoringVars>>
    BY DEF NoMetrics, DatabasesCollected, InstanceCollected, PublishFails, Goto
  <1>2. Databases!TypeOK' /\ Instance!TypeOK' /\ iOutcome' # "error"
        /\ UNCHANGED <<engineEdition, inventory>>
    BY <1>1, CollectionsKept DEF PhasesInv, TypeOK
  <1>3. CollectionInv'
    <2>1. /\ UNCHANGED <<dSubmitted, dSettled, dOutcome, iSubmitted, iSettled, iOutcome>>
          /\ HasMetrics(al)' = HasMetrics(al)
      BY <1>1, CollectionsKept, GivenKept
    <2>2. CASE NoMetrics
      <3>1. main = "databases" /\ main' = "publish" /\ ~HasMetrics(al)
        BY <2>2 DEF NoMetrics, Goto
      <3>2. Databases!Init /\ Instance!Init
        BY <3>1 DEF PhasesInv, CollectionInv
      <3> QED  BY <2>1, <3>1, <3>2 DEF CollectionInv, Databases!Init, Instance!Init
    <2>3. CASE DatabasesCollected
      <3>1. main = "databases" /\ main' = "instance" /\ dOutcome # "open"
        BY <2>3 DEF DatabasesCollected, Goto
      <3>2. HasMetrics(al)
        BY <3>1 DEF PhasesInv, CollectionInv, Databases!Init
      <3> QED  BY <2>1, <3>1, <3>2 DEF PhasesInv, CollectionInv
    <2>4. CASE InstanceCollected
      <3>1. main = "instance" /\ main' = "publish" /\ iOutcome # "open"
        BY <2>4 DEF InstanceCollected, Goto
      <3> QED  BY <2>1, <3>1 DEF PhasesInv, CollectionInv
    <2>5. CASE PublishFails
      <3>1. main = "publish" /\ main' = "return"
        BY <2>5 DEF PublishFails, Goto
      <3> QED  BY <2>1, <3>1 DEF PhasesInv, CollectionInv
    <2> QED  BY <1>1, <2>2, <2>3, <2>4, <2>5
  <1> QED  BY <1>1, <1>2, <1>3, CollectingStep

LEMMA PublishInv == PhasesInv /\ Publish => PhasesInv'
  <1> SUFFICES ASSUME PhasesInv, Publish PROVE PhasesInv'
    OBVIOUS
  <1>1. /\ main = "publish" /\ main' \in {"monitoring", "return"} /\ exit' = exit
        /\ report' = inventory \union dSettled \union iSettled \union {instanceEntity}
        /\ UNCHANGED <<given, open, collected, listed, monitoringVars>>
    BY DEF Publish, Goto
  <1>2. /\ UNCHANGED <<al, server, open>>
        /\ Validate(al)' = Validate(al)
        /\ HasMetrics(al)' = HasMetrics(al) /\ HasInventory(al)' = HasInventory(al)
    BY <1>1, GivenKept DEF given
  <1>3. /\ open = {"main"} /\ Validate(al) /\ exit # "panic"
        /\ inventory = IF HasInventory(al) THEN Statements ELSE {}
    BY <1>1, Collecting
  <1>4. dSettled = dSubmitted /\ iSettled = iSubmitted
    <2>1. CASE HasMetrics(al)
      BY <1>1, <2>1 DEF PhasesInv, CollectionInv
    <2>2. CASE ~HasMetrics(al)
      <3>1. dSubmitted = {} /\ iSubmitted = {}
        BY <1>1, <2>2 DEF PhasesInv, CollectionInv
      <3>2. dSettled \subseteq dSubmitted /\ iSettled \subseteq iSubmitted
        BY DEF PhasesInv, TypeOK, Databases!TypeOK, Instance!TypeOK
      <3> QED  BY <3>1, <3>2
    <2> QED  BY <2>1, <2>2
  <1>5. HasMetrics(al) => dOutcome # "open" /\ iOutcome = "returned"
    <2>1. HasMetrics(al) => dOutcome # "open" /\ iOutcome # "open"
      BY <1>1 DEF PhasesInv, CollectionInv
    <2>2. iOutcome \in {"open", "returned", "error"} /\ iOutcome # "error"
      BY DEF PhasesInv, TypeOK, Instance!TypeOK
    <2> QED  BY <2>1, <2>2
  <1>6. TypeOK'
    BY <1>1, <1>2, CollectionsKept DEF PhasesInv, TypeOK, Phases
  <1>7. InventoryInv'
    BY <1>1 DEF InventoryInv
  <1>8. CollectionInv'
    BY <1>1, CollectionsKept DEF PhasesInv, CollectionInv
  <1>9. OpenInv'
    BY <1>1, <1>2, <1>3 DEF OpenInv, Phases
  <1>10. ReportInv'
    <2>1. UNCHANGED <<inventory, dSubmitted, iSubmitted, dOutcome, iOutcome>> /\ Statements' = Statements
      BY <1>1, CollectionsKept
    <2>2. report' = {instanceEntity} \union inventory \union dSubmitted \union iSubmitted
      BY <1>1, <1>4
    <2>3. report' # {}
      BY <2>2
    <2> QED  BY <1>1, <1>2, <1>3, <1>5, <2>1, <2>2, <2>3 DEF ReportInv, Phases, instanceEntity
  <1> QED  BY <1>6, <1>7, <1>8, <1>9, <1>10 DEF PhasesInv

-----------------------------------------------------------------------------
(* After the first Publish.                                                *)

\* A step of the monitoring phase or out of it; whatever the monitoring does,
\* there has been a report.
LEMMA MonitoringStep ==
  ASSUME PhasesInv, main = "monitoring",
         main' \in {"monitoring", "return", "exited"},
         main' = "monitoring" => open' = {"main"} \/ open' = {"main", "monitoring"},
         main' = "return" => open' = {"main"},
         main' = "exited" => open' = {},
         exit' \in {exit, "panic"},
         UNCHANGED <<given, report, collected>>
  PROVE  PhasesInv'
  <1>1. /\ UNCHANGED <<al, server, report>>
        /\ Validate(al)' = Validate(al)
        /\ HasMetrics(al)' = HasMetrics(al) /\ HasInventory(al)' = HasInventory(al)
    BY GivenKept DEF given
  <1>2. report # {} /\ Validate(al)
    BY DEF PhasesInv, ReportInv, OpenInv
  <1>3. TypeOK'
    BY <1>1, CollectionsKept DEF PhasesInv, TypeOK, Phases
  <1>4. InventoryInv'
    BY DEF InventoryInv
  <1>5. CollectionInv'
    BY CollectionsKept DEF PhasesInv, CollectionInv
  <1>6. OpenInv'
    BY <1>1, <1>2 DEF OpenInv, Phases
  <1>7. ReportInv'
    <2>1. UNCHANGED <<inventory, dSubmitted, iSubmitted, dOutcome, iOutcome>> /\ Statements' = Statements
      BY CollectionsKept
    <2> QED  BY <1>1, <1>2, <2>1 DEF PhasesInv, ReportInv, Phases
  <1> QED  BY <1>3, <1>4, <1>5, <1>6, <1>7 DEF PhasesInv

LEMMA MonitoringInv ==
    PhasesInv /\ (MonitoringConnect \/ MonitoringValidate \/ Monitor \/ MonitoringReturns \/ MonitoringPanics)
      => PhasesInv'
  <1> SUFFICES ASSUME PhasesInv,
                      MonitoringConnect \/ MonitoringValidate \/ Monitor
                        \/ MonitoringReturns \/ MonitoringPanics
               PROVE  PhasesInv'
    OBVIOUS
  <1>0. main = "monitoring" => open = {"main"} \/ open = {"main", "monitoring"}
    BY DEF PhasesInv, OpenInv
  <1>1. CASE MonitoringConnect
    <2>1. /\ main = "monitoring" /\ main' = "monitoring" /\ exit' = exit
          /\ open' = open \/ open' = open \union {"monitoring"}
          /\ UNCHANGED <<given, report, collected>>
      BY <1>1 DEF MonitoringConnect
    <2> QED  BY <1>0, <2>1, MonitoringStep
  <1>2. CASE MonitoringValidate
    <2>1. /\ main = "monitoring" /\ main' = "monitoring"
          /\ UNCHANGED <<given, exit, open, report, collected>>
      BY <1>2 DEF MonitoringValidate
    <2> QED  BY <1>0, <2>1, MonitoringStep
  <1>3. CASE Monitor
    <2>1. /\ main = "monitoring" /\ main' = "monitoring"
          /\ UNCHANGED <<given, exit, open, report, collected>>
      BY <1>3 DEF Monitor
    <2> QED  BY <1>0, <2>1, MonitoringStep
  <1>4. CASE MonitoringReturns
    <2>1. /\ main = "monitoring" /\ main' = "return" /\ exit' = exit
          /\ open' = open \ {"monitoring"}
          /\ UNCHANGED <<given, report, collected>>
      BY <1>4 DEF MonitoringReturns, Goto
    <2> QED  BY <1>0, <2>1, MonitoringStep
  <1>5. CASE MonitoringPanics
    <2>1. /\ main = "monitoring" /\ main' = "exited" /\ exit' = "panic"
          /\ open' = open \ {"monitoring", "main"}
          /\ UNCHANGED <<given, report, collected>>
      BY <1>5 DEF MonitoringPanics, Exit
    <2> QED  BY <1>0, <2>1, MonitoringStep
  <1> QED  BY <1>1, <1>2, <1>3, <1>4, <1>5

LEMMA ReturnInv == PhasesInv /\ Return => PhasesInv'
  <1> SUFFICES ASSUME PhasesInv, Return PROVE PhasesInv'
    OBVIOUS
  <1>1. /\ main = "return" /\ main' = "exited" /\ exit' = "success"
        /\ open' = open \ {"main"}
        /\ UNCHANGED <<given, report, collected, listed, monitoringVars>>
    BY DEF Return, Exit
  <1>2. /\ UNCHANGED <<al, server, report>> /\ UNCHANGED <<pc, payload, published>>
        /\ HasMetrics(al)' = HasMetrics(al) /\ HasInventory(al)' = HasInventory(al)
    BY <1>1, GivenKept, MonitoringKept DEF given
  <1>3. open' = {}
    BY <1>1 DEF PhasesInv, OpenInv, Phases
  <1>4. TypeOK'
    BY <1>1, <1>2, <1>3, CollectionsKept DEF PhasesInv, TypeOK, Phases
  <1>5. InventoryInv'
    BY <1>1 DEF InventoryInv
  <1>6. CollectionInv'
    BY <1>1, CollectionsKept DEF PhasesInv, CollectionInv
  <1>7. OpenInv'
    BY <1>1, <1>3 DEF OpenInv
  <1>8. ReportInv'
    <2>1. UNCHANGED <<inventory, dSubmitted, iSubmitted, dOutcome, iOutcome>> /\ Statements' = Statements
      BY <1>1, CollectionsKept
    <2> QED  BY <1>1, <1>2, <2>1 DEF PhasesInv, ReportInv, Phases
  <1> QED  BY <1>4, <1>5, <1>6, <1>7, <1>8 DEF PhasesInv

-----------------------------------------------------------------------------
(* The invariant and the properties.                                       *)

LEMMA StutterInv == PhasesInv /\ UNCHANGED vars => PhasesInv'
  <1> SUFFICES ASSUME PhasesInv, UNCHANGED vars PROVE PhasesInv'
    OBVIOUS
  <1>1. UNCHANGED <<given, main, exit, open, report, collected, listed, monitoringVars>>
    BY DEF vars
  <1>2. /\ UNCHANGED <<al, server, main, exit, open, report>> /\ UNCHANGED <<pc, payload, published>>
        /\ Validate(al)' = Validate(al)
        /\ HasMetrics(al)' = HasMetrics(al) /\ HasInventory(al)' = HasInventory(al)
    BY <1>1, GivenKept, MonitoringKept DEF given
  <1>3. TypeOK'
    BY <1>1, <1>2, CollectionsKept DEF PhasesInv, TypeOK
  <1>4. InventoryInv'
    <2>1. SPConfigStatement(engineEdition)' = SPConfigStatement(engineEdition)
      BY <1>1, CollectionsKept DEF SPConfigStatement
    <2> QED  BY <1>1, <1>2, <2>1, CollectionsKept DEF PhasesInv, InventoryInv
  <1>5. CollectionInv'
    BY <1>1, <1>2, CollectionsKept DEF PhasesInv, CollectionInv
  <1>6. OpenInv'
    BY <1>1, <1>2, CollectionsKept DEF PhasesInv, OpenInv
  <1>7. ReportInv'
    BY <1>1, <1>2, CollectionsKept DEF PhasesInv, ReportInv
  <1> QED  BY <1>3, <1>4, <1>5, <1>6, <1>7 DEF PhasesInv

LEMMA StepInv == PhasesInv /\ [Next]_vars => PhasesInv'
  <1> SUFFICES ASSUME PhasesInv, [Next]_vars PROVE PhasesInv'
    OBVIOUS
  <1>1. CASE BadCommandLine \/ ShowVersion \/ ConnectFails \/ EntityFails
    <2>1. /\ main \in {"arguments", "connect", "entity"} /\ main' = "exited"
          /\ exit' \in {"success", "failure"}
          /\ exit' = "success" => main = "arguments"
          /\ UNCHANGED <<given, open, report, collected, listed, monitoringVars>>
      BY <1>1 DEF BadCommandLine, ShowVersion, ConnectFails, EntityFails, Exit
    <2>2. exit' = "success" => open = {}
      BY <2>1 DEF PhasesInv, OpenInv
    <2> QED  BY <2>1, <2>2, EarlyExit
  <1>2. CASE ValidateArguments
    <2>1. CASE Validate(al)
      BY <1>2, <2>1, EarlyStep DEF ValidateArguments, Goto
    <2>2. CASE ~Validate(al)
      BY <1>2, <2>2, EarlyExit DEF ValidateArguments, Exit
    <2> QED  BY <2>1, <2>2
  <1>3. CASE Connect
    BY <1>3, EarlyStep DEF Connect, Goto
  <1>4. CASE CreateInstanceEntity
    BY <1>4, EarlyStep DEF CreateInstanceEntity, Goto
  <1>5. CASE GetEngineEdition \/ NoInventory \/ PopulateSPConfigItems \/ PopulateSysConfigItems
    BY <1>5, GetEngineEditionInv, NoInventoryInv, SPConfigInv, SysConfigInv
  <1>6. CASE NoMetrics \/ DatabasesCollected \/ InstanceCollected \/ PublishFails
    BY <1>6, PhaseEnds
  <1>7. CASE CollectDatabases \/ CollectInstance \/ Publish
    BY <1>7, CollectDatabasesInv, CollectInstanceInv, PublishInv
  <1>8. CASE MonitoringConnect \/ MonitoringValidate \/ Monitor \/ MonitoringReturns \/ MonitoringPanics
    BY <1>8, MonitoringInv
  <1>9. CASE Return
    BY <1>9, ReturnInv
  <1>10. CASE UNCHANGED vars
    BY <1>10, StutterInv
  <1> QED  BY <1>1, <1>2, <1>3, <1>4, <1>5, <1>6, <1>7, <1>8, <1>9, <1>10 DEF Next, Step, Finished

\* What each phase of main has behind it holds throughout every run, for every
\* command line and server.
THEOREM PhasesInvariance == Spec => []PhasesInv
  <1> QED  BY InitInv, StepInv, PTL DEF Spec

\* The first Publish of main carries everything: the rows of both collections
\* and, where inventory is asked for, its two statements.
THEOREM CompleteReport == Spec => []ReportComplete
  <1>1. PhasesInv => ReportComplete
    <2> SUFFICES ASSUME PhasesInv, report # {}, HasInventory(al) PROVE Cardinality(inventory) = 2
      BY DEF ReportComplete, PhasesInv, ReportInv
    <2>1. inventory = {SPConfigStatement(engineEdition), "value of sys.configurations"}
      BY DEF PhasesInv, ReportInv, Statements
    <2>2. SPConfigStatement(engineEdition) # "value of sys.configurations"
      BY DEF SPConfigStatement
    <2>3. \E s, t : inventory = {s, t} /\ s # t
      BY <2>1, <2>2
    <2>4. IsFiniteSet({}) /\ Cardinality({}) = 0
      BY FS_EmptySet
    <2>5. PICK s, t : inventory = {s, t} /\ s # t
      BY <2>3
    <2>6. IsFiniteSet({s}) /\ Cardinality({s}) = 1
      BY FS_Singleton
    <2>7. Cardinality({s} \union {t}) = 2
      BY <2>5, <2>6, FS_AddElement
    <2>8. inventory = {s} \union {t}
      BY <2>5
    <2> QED  BY <2>7, <2>8
  <1> QED  BY <1>1, PhasesInvariance, PTL

\* Query monitoring, its failures and its panics come after the first report.
THEOREM ComesLast == Spec => []MonitoringComesLast
  <1>1. PhasesInv => MonitoringComesLast
    BY DEF PhasesInv, ReportInv, MonitoringComesLast
  <1> QED  BY <1>1, PhasesInvariance, PTL

\* Every way out of main but os.Exit closes the pools it opened.
THEOREM Released == Spec => []ConnectionsReleased
  <1>1. PhasesInv => ConnectionsReleased
    <2> SUFFICES ASSUME PhasesInv PROVE ConnectionsReleased
      OBVIOUS
    <2>1. "monitoring" \in open => "main" \in open /\ main = "monitoring"
      BY DEF PhasesInv, TypeOK, OpenInv, Phases
    <2> QED  BY <2>1 DEF PhasesInv, OpenInv, ConnectionsReleased
  <1> QED  BY <1>1, PhasesInvariance, PTL

-----------------------------------------------------------------------------
(* What query monitoring starts with.                                      *)

\* Outside the monitoring phase its variables are left alone; in it, its steps
\* are those of QueryMonitoring.
OtherStep ==
    \/ BadCommandLine \/ ShowVersion \/ ValidateArguments
    \/ ConnectFails \/ Connect \/ EntityFails \/ CreateInstanceEntity \/ GetEngineEdition
    \/ NoInventory \/ PopulateSPConfigItems \/ PopulateSysConfigItems
    \/ NoMetrics \/ CollectDatabases \/ DatabasesCollected
    \/ CollectInstance \/ InstanceCollected
    \/ Publish \/ PublishFails
    \/ MonitoringReturns \/ MonitoringPanics \/ Return
    \/ UNCHANGED vars

LEMMA StepKinds ==
  ASSUME [Next]_vars
  PROVE  OtherStep \/ MonitoringConnect \/ MonitoringValidate \/ Monitor
  BY DEF Next, Step, Finished, OtherStep

LEMMA OtherStepKeeps ==
  ASSUME OtherStep
  PROVE  UNCHANGED <<server, listed, monitoringVars>>
  <1>1. CASE BadCommandLine \/ ShowVersion \/ ValidateArguments \/ ConnectFails \/ Connect
             \/ EntityFails \/ CreateInstanceEntity \/ GetEngineEdition
    BY <1>1 DEF BadCommandLine, ShowVersion, ValidateArguments, ConnectFails, Connect,
                EntityFails, CreateInstanceEntity, GetEngineEdition, given
  <1>2. CASE NoInventory \/ PopulateSPConfigItems \/ PopulateSysConfigItems \/ NoMetrics
             \/ CollectDatabases \/ DatabasesCollected \/ CollectInstance \/ InstanceCollected
    BY <1>2 DEF NoInventory, PopulateSPConfigItems, PopulateSysConfigItems, NoMetrics,
                CollectDatabases, DatabasesCollected, CollectInstance, InstanceCollected, given
  <1>3. CASE Publish \/ PublishFails \/ MonitoringReturns \/ MonitoringPanics \/ Return
             \/ UNCHANGED vars
    BY <1>3 DEF Publish, PublishFails, MonitoringReturns, MonitoringPanics, Return, vars, given
  <1> QED  BY <1>1, <1>2, <1>3 DEF OtherStep

\* An analysis changes no setting and never starts from a refused monitoring.
LEMMA MonitorKeeps ==
  ASSUME Monitor
  PROVE  pc \notin {"connect", "validate", "rejected"} /\ UNCHANGED <<server, listed, dmvOnly>>
  <1>1. pc \notin {"connect", "validate"} /\ Monitoring!Step /\ UNCHANGED <<server, listed>>
    BY DEF Monitor, given
  <1>2. CASE Monitoring!Connect \/ Monitoring!Validate
    BY <1>1, <1>2 DEF Monitoring!Connect, Monitoring!Validate
  <1>3. CASE Monitoring!ExecuteFails \/ Monitoring!Execute \/ Monitoring!AllAnalysesDone
    BY <1>1, <1>3 DEF Monitoring!ExecuteFails, Monitoring!Execute, Monitoring!AllAnalysesDone,
                      Monitoring!settings
  <1>4. CASE Monitoring!PlansFail \/ Monitoring!PlansFetched \/ Monitoring!PlanTextMissing
    BY <1>1, <1>4 DEF Monitoring!PlansFail, Monitoring!PlansFetched, Monitoring!PlanTextMissing,
                      Monitoring!settings
  <1>5. CASE \/ Monitoring!Ingested \/ Monitoring!RecordBatch \/ Monitoring!EntityFails
             \/ Monitoring!PublishSucceeds \/ Monitoring!PublishFails
    BY <1>1, <1>5 DEF Monitoring!Ingested, Monitoring!RecordBatch, Monitoring!EntityFails,
                      Monitoring!PublishSucceeds, Monitoring!PublishFails, Monitoring!settings
  <1> QED  BY <1>1, <1>2, <1>3, <1>4, <1>5 DEF Monitoring!Step

LEMMA ReadyInit == Init => ReadyInv
  BY DEF Init, Monitoring!Init, ReadyInv

LEMMA ReadyStep == ReadyInv /\ [Next]_vars => ReadyInv'
  <1> SUFFICES ASSUME ReadyInv, [Next]_vars,
                      pc' \notin {"connect", "validate", "rejected"}
               PROVE  /\ listed' \in Listings(server')
                      /\ ValidatePreConditions(server', dmvOnly', listed')
    BY DEF ReadyInv
  <1>1. CASE OtherStep
    <2>1. UNCHANGED <<server, listed, dmvOnly, pc>>
      BY <1>1, OtherStepKeeps DEF monitoringVars
    <2> QED  BY <2>1 DEF ReadyInv
  <1>2. CASE MonitoringConnect
    BY <1>2 DEF MonitoringConnect, Monitoring!Connect
  <1>3. CASE MonitoringValidate
    <2>1. /\ pc' \in {"execute", "rejected"} /\ UNCHANGED <<server, dmvOnly>>
          /\ listed' \in Listings(server)
          /\ pc' = "execute" => ValidatePreConditions(server, dmvOnly, listed')
      BY <1>3 DEF MonitoringValidate, Monitoring!Validate, Monitoring!settings, given
    <2> QED  BY <2>1
  <1>4. CASE Monitor
    BY <1>4, MonitorKeeps DEF ReadyInv
  <1> QED  BY <1>1, <1>2, <1>3, <1>4, StepKinds

\* A pool is only opened with a connection string the driver accepts, and the
\* command line does not change.
LEMMA ConnectedStep == ConnectedInv /\ [Next]_vars => ConnectedInv'
  <1> SUFFICES ASSUME ConnectedInv, [Next]_vars, open' # {}
               PROVE  DriverAccepts(ConnectionString(al', ""))
    BY DEF ConnectedInv
  <1>1. CASE BadCommandLine \/ ShowVersion \/ ValidateArguments \/ ConnectFails \/ EntityFails
             \/ CreateInstanceEntity \/ GetEngineEdition \/ NoInventory
             \/ PopulateSPConfigItems \/ PopulateSysConfigItems \/ NoMetrics
    <2>1. UNCHANGED <<al, open>>
      BY <1>1 DEF BadCommandLine, ShowVersion, ValidateArguments, ConnectFails, EntityFails,
                  CreateInstanceEntity, GetEngineEdition, NoInventory,
                  PopulateSPConfigItems, PopulateSysConfigItems, NoMetrics, given
    <2> QED  BY <2>1 DEF ConnectedInv
  <1>2. CASE CollectDatabases \/ DatabasesCollected \/ CollectInstance \/ InstanceCollected
             \/ Publish \/ PublishFails \/ UNCHANGED vars
    <2>1. UNCHANGED <<al, open>>
      BY <1>2 DEF CollectDatabases, DatabasesCollected, CollectInstance, InstanceCollected,
                  Publish, PublishFails, vars, given
    <2> QED  BY <2>1 DEF ConnectedInv
  <1>3. CASE MonitoringReturns \/ MonitoringPanics \/ Return
    <2>1. al' = al /\ open' \subseteq open
      BY <1>3 DEF MonitoringReturns, MonitoringPanics, Return, given
    <2> QED  BY <2>1 DEF ConnectedInv
  <1>4. CASE Connect
    BY <1>4 DEF Connect, given
  <1>5. CASE MonitoringConnect
    BY <1>5 DEF MonitoringConnect, given, ConnectedInv
  <1>6. CASE MonitoringValidate \/ Monitor
    <2>1. UNCHANGED <<al, open>>
      BY <1>6 DEF MonitoringValidate, Monitor, given
    <2> QED  BY <2>1 DEF ConnectedInv
  <1> QED  BY <1>1, <1>2, <1>3, <1>4, <1>5, <1>6, StepKinds DEF OtherStep

\* The phases, what query monitoring starts with, and the connection string.
THEOREM Invariance == Spec => []IInv
  <1>1. Init => IInv
    <2>1. Init => ConnectedInv
      BY DEF Init, ConnectedInv
    <2> QED  BY <2>1, InitInv, ReadyInit DEF IInv
  <1>2. IInv /\ [Next]_vars => IInv'
    BY StepInv, ReadyStep, ConnectedStep DEF IInv
  <1> QED  BY <1>1, <1>2, PTL DEF Spec

\* No analysis runs on a server, with permissions or on listed user databases
\* that the preconditions refuse; and what they accept with the history is
\* accepted without.
THEOREM OnlyWhenReady == Spec => []MonitoredOnlyWhenReady
  <1>1. IInv => MonitoredOnlyWhenReady
    <2> SUFFICES ASSUME IInv, pc \notin {"connect", "validate", "rejected"}
                 PROVE  /\ checkPermissions(server)
                        /\ checkSQLServerVersion(server, TRUE)
                        /\ server.azure = server.mentionsAzure => SupportedVersion(server, dmvOnly)
                        /\ listed = UserDatabases(server) => UserDatabasesCompatible(server)
      BY DEF MonitoredOnlyWhenReady
    <2>1. /\ checkSQLServerVersion(server, dmvOnly)
          /\ checkDatabaseCompatibility(listed)
          /\ checkPermissions(server)
      BY DEF IInv, ReadyInv, ValidatePreConditions
    <2>2. server.major \in Nat
      <3>1. server.major \in Nat \union {NoVersion}
        BY ServersAssumption DEF IInv, PhasesInv, TypeOK
      <3> QED  BY <2>1, <3>1 DEF checkSQLServerVersion
    <2>3. checkSQLServerVersion(server, TRUE)
      BY <2>1, <2>2 DEF checkSQLServerVersion, azureFirstSupportedVersion,
                        dmvOnlyFirstSupportedVersion, firstSupportedVersion
    <2>4. server.azure = server.mentionsAzure => SupportedVersion(server, dmvOnly)
      BY <2>1 DEF checkSQLServerVersion, SupportedVersion, azureFirstSupportedVersion,
                  dmvOnlyFirstSupportedVersion, firstSupportedVersion
    <2>5. listed = UserDatabases(server) => UserDatabasesCompatible(server)
      BY <2>1 DEF checkDatabaseCompatibility, UserDatabases, UserDatabasesCompatible,
                  MaxSystemDatabaseID, versionCompatibility
    <2> QED  BY <2>1, <2>3, <2>4, <2>5
  <1> QED  BY <1>1, Invariance, PTL

\* A run takes only steps of query monitoring that its module allows.
LEMMA MonitoringAsSpecified == [Next]_vars => [Monitoring!Next]_(Monitoring!vars)
  <1>1. OtherStep => UNCHANGED Monitoring!vars
    BY OtherStepKeeps DEF monitoringVars, Monitoring!vars
  <1>2. MonitoringConnect \/ MonitoringValidate \/ Monitor => Monitoring!Next
    BY DEF MonitoringConnect, MonitoringValidate, Monitor, Monitoring!Next, Monitoring!Step
  <1> QED  BY <1>1, <1>2, StepKinds

-----------------------------------------------------------------------------
(* What is proved of QueryMonitoring holds of its phase in a run.  The     *)
(* provers see the two instances as different operators, so their actions  *)
(* are compared one by one.                                                *)

Proved == INSTANCE QueryMonitoringProofs WITH Modes <- BOOLEAN

LEMMA SameLimits ==
  /\ Monitoring!Analyses = Proved!Analyses
  /\ \A n : Monitoring!PlanRows(n) = Proved!PlanRows(n)
  /\ \A n : Monitoring!IdsThatFit(n) = Proved!IdsThatFit(n)
  /\ \A event, n : Monitoring!Kept(event, n) = Proved!Kept(event, n)
  <1> USE DEF Monitoring!AtMost, Proved!AtMost, Monitoring!SlowQueries,
          Proved!SlowQueries, Monitoring!WaitAnalysis, Proved!WaitAnalysis,
          Monitoring!BlockingSessions, Proved!BlockingSessions
  <1>1. Monitoring!Analyses = Proved!Analyses
    BY DEF Monitoring!Analyses, Proved!Analyses
  <1>2. \A n : Monitoring!PlanRows(n) = Proved!PlanRows(n)
    BY DEF Monitoring!PlanRows, Proved!PlanRows,
        Monitoring!IndividualQueryCountMax, Proved!IndividualQueryCountMax
  <1>3. \A n : Monitoring!IdsThatFit(n) = Proved!IdsThatFit(n)
    BY DEF Monitoring!IdsThatFit, Proved!IdsThatFit
  <1>4. \A event, n : Monitoring!Kept(event, n) = Proved!Kept(event, n)
    BY DEF Monitoring!Kept, Proved!Kept, Monitoring!SlowQueriesWithHistory,
        Proved!SlowQueriesWithHistory, Monitoring!WaitAnalysisWithHistory,
        Proved!WaitAnalysisWithHistory, Monitoring!BlockingSessionsKept,
        Proved!BlockingSessionsKept, Monitoring!WaitAnalysisDMV,
        Proved!WaitAnalysisDMV, Monitoring!SlowQueriesDMV,
        Proved!SlowQueriesDMV
  <1> QED  BY <1>1, <1>2, <1>3, <1>4

LEMMA SameMoves ==
  /\ Monitoring!NextAnalysis => Proved!NextAnalysis
  /\ \A event, n : Monitoring!StartIngest(event, n) => Proved!StartIngest(event, n)
  /\ Monitoring!AfterIngest => Proved!AfterIngest
  /\ Monitoring!CurrentBatch = Proved!CurrentBatch
  <1>1. Monitoring!NextAnalysis => Proved!NextAnalysis
    BY DEF Monitoring!NextAnalysis, Proved!NextAnalysis, Monitoring!ingestVars,
        Proved!ingestVars
  <1>2. \A event, n : Monitoring!StartIngest(event, n) => Proved!StartIngest(event, n)
    BY DEF Monitoring!StartIngest, Proved!StartIngest
  <1>3. Monitoring!AfterIngest => Proved!AfterIngest
    BY DEF Monitoring!AfterIngest, Proved!AfterIngest, Monitoring!StartIngest,
        Proved!StartIngest, Monitoring!NextAnalysis, Proved!NextAnalysis,
        Monitoring!ingestVars, Proved!ingestVars, Monitoring!SlowQueries,
        Proved!SlowQueries, Monitoring!ExecutionPlans, Proved!ExecutionPlans
  <1>4. Monitoring!CurrentBatch = Proved!CurrentBatch
    BY DEF Monitoring!CurrentBatch, Proved!CurrentBatch, Monitoring!AtMost,
        Proved!AtMost
  <1> QED  BY <1>1, <1>2, <1>3, <1>4

LEMMA SameNext == [Monitoring!Next]_(Monitoring!vars) => [Proved!Next]_(Proved!vars)
  <1> USE DEF Monitoring!settings, Proved!settings, Monitoring!ingestVars,
          Proved!ingestVars
  <1>1. Monitoring!Connect => Proved!Connect
    BY DEF Monitoring!Connect, Proved!Connect
  <1>2. Monitoring!Validate => Proved!Validate
    BY DEF Monitoring!Validate, Proved!Validate
  <1>3. Monitoring!ExecuteFails => Proved!ExecuteFails
    BY SameLimits, SameMoves DEF Monitoring!ExecuteFails, Proved!ExecuteFails
  <1>4. Monitoring!Execute => Proved!Execute
    BY SameLimits, SameMoves DEF Monitoring!Execute, Proved!Execute, Monitoring!SlowQueries,
        Proved!SlowQueries
  <1>5. Monitoring!AllAnalysesDone => Proved!AllAnalysesDone
    BY SameLimits DEF Monitoring!AllAnalysesDone, Proved!AllAnalysesDone
  <1>6. Monitoring!PlansFail => Proved!PlansFail
    BY SameMoves DEF Monitoring!PlansFail, Proved!PlansFail, Monitoring!SlowQueries,
        Proved!SlowQueries
  <1>7. Monitoring!PlansFetched => Proved!PlansFetched
    BY SameLimits, SameMoves DEF Monitoring!PlansFetched, Proved!PlansFetched,
        Monitoring!ExecutionPlans, Proved!ExecutionPlans
  <1>8. Monitoring!PlanTextMissing => Proved!PlanTextMissing
    BY SameLimits DEF Monitoring!PlanTextMissing, Proved!PlanTextMissing
  <1>9. Monitoring!Ingested => Proved!Ingested
    BY SameMoves DEF Monitoring!Ingested, Proved!Ingested
  <1>10. Monitoring!RecordBatch => Proved!RecordBatch
    BY SameMoves DEF Monitoring!RecordBatch, Proved!RecordBatch
  <1>11. Monitoring!EntityFails => Proved!EntityFails
    BY DEF Monitoring!EntityFails, Proved!EntityFails
  <1>12. Monitoring!PublishSucceeds => Proved!PublishSucceeds
    BY SameMoves DEF Monitoring!PublishSucceeds, Proved!PublishSucceeds
  <1>13. Monitoring!PublishFails => Proved!PublishFails
    BY SameMoves DEF Monitoring!PublishFails, Proved!PublishFails
  <1>14. Monitoring!Finished => Proved!Finished
    BY DEF Monitoring!Finished, Proved!Finished, Monitoring!Ended, Proved!Ended,
        Monitoring!vars, Proved!vars
  <1> QED
    BY <1>1, <1>2, <1>3, <1>4, <1>5, <1>6, <1>7, <1>8, <1>9, <1>10, <1>11, <1>12, <1>13, <1>14
    DEF Monitoring!Next, Proved!Next, Monitoring!Step, Proved!Step,
        Monitoring!vars, Proved!vars

LEMMA MonitoringInvariance == Spec => [](Proved!IInv /\ Proved!LimitsInv)
  <1>1. Init => Proved!Init
    <2>1. Init => Monitoring!Init
      BY DEF Init
    <2>2. Monitoring!Init => Proved!Init
      BY SameLimits DEF Monitoring!Init, Proved!Init, Monitoring!ValidCount,
          Proved!ValidCount, Monitoring!SlowQueryCountThresholdDefault,
          Proved!SlowQueryCountThresholdDefault,
          Monitoring!GroupedQueryCountMax, Proved!GroupedQueryCountMax
    <2> QED  BY <2>1, <2>2
  <1>2. [Next]_vars => [Proved!Next]_(Proved!vars)
    BY MonitoringAsSpecified, SameNext
  <1>3. Proved!Init => Proved!IInv /\ Proved!LimitsInv
    BY MonitoringAssumption, Proved!InitInv, Proved!InitLimits
  <1>4. /\ Proved!IInv /\ Proved!LimitsInv
        /\ [Proved!Next]_(Proved!vars)
        => (Proved!IInv /\ Proved!LimitsInv)'
    BY MonitoringAssumption, Proved!NextInv, Proved!NextLimits
  <1> QED  BY <1>1, <1>2, <1>3, <1>4, PTL DEF Spec

\* Whatever main does around it, a run ingests no row of a query analysis
\* twice and leaves no gap, and at most one batch per event is ever held back.
THEOREM RunIngestsOnce ==
  Spec => [](/\ Monitoring!RowsIngestedOnce
             /\ Monitoring!PublishedWithoutGap
             /\ Monitoring!OneBatchHeldPerEvent)
  <1>1. Proved!IInv => /\ Monitoring!RowsIngestedOnce
                       /\ Monitoring!PublishedWithoutGap
                       /\ Monitoring!OneBatchHeldPerEvent
    BY DEF Proved!IInv, Proved!BatchesInv, Monitoring!RowsIngestedOnce,
           Monitoring!PublishedWithoutGap, Monitoring!OneBatchHeldPerEvent,
           Monitoring!Overlap, Proved!Overlap
  <1> QED  BY <1>1, MonitoringInvariance, PTL

\* A run whose command line disables the history respects the count threshold
\* and looks for the plans of every identifier it collected.
THEOREM RunRespectsCount ==
  Spec => [](Monitoring!CountRespectedFromDMVs /\ Monitoring!PlansForAllIdsFromDMVs)
  <1>1. Proved!LimitsInv => Monitoring!CountRespectedFromDMVs
    BY DEF Proved!LimitsInv, Monitoring!CountRespectedFromDMVs, Monitoring!CountRespected,
           Monitoring!BatchesOf, Monitoring!ExecutionPlans, Proved!ExecutionPlans
  <1>2. Proved!LimitsInv => Monitoring!PlansForAllIdsFromDMVs
    BY DEF Proved!LimitsInv, Monitoring!PlansForAllIdsFromDMVs, Monitoring!PlansForAllIds
  <1> QED  BY <1>1, <1>2, MonitoringInvariance, PTL

-----------------------------------------------------------------------------
(* Connection strings.                                                     *)

\* STRING, with the texts of the code for the provers to see.
Texts ==
  STRING \union {"database", "encrypt", "TrustServerCertificate", "certificate", "true", "false"}

Pairs == Texts \X Texts

LEMMA PairOfTexts ==
  ASSUME NEW a \in Texts, NEW b \in Texts
  PROVE  <<a, b>> \in Pairs
  BY DEF Pairs

LEMMA SequencesOf ==
  ASSUME NEW S, NEW T, S \subseteq T, NEW s \in Seq(S)
  PROVE  s \in Seq(T)
  OBVIOUS

LEMMA SmallSequences ==
  ASSUME NEW S, NEW a \in S, NEW b \in S, NEW c \in S
  PROVE  /\ << >> \in Seq(S) /\ <<a>> \in Seq(S)
         /\ <<a, b>> \in Seq(S) /\ Len(<<a, b>>) = 2
         /\ <<a, b, c>> \in Seq(S) /\ Len(<<a, b, c>>) = 3
  OBVIOUS

LEMMA Joined ==
  ASSUME NEW S, NEW s \in Seq(S), NEW t \in Seq(S), NEW i \in DOMAIN s, NEW j \in 1..Len(t)
  PROVE  /\ i \in DOMAIN (s \o t) /\ (s \o t)[i] = s[i]
         /\ Len(s) + j \in DOMAIN (s \o t) /\ (s \o t)[Len(s) + j] = t[j]
         /\ i # Len(s) + j
  OBVIOUS

LEMMA EmptyJoined ==
  ASSUME NEW S, NEW s \in Seq(S)
  PROVE  << >> \o s = s /\ s \o << >> = s
  OBVIOUS

\* t names a parameter once, at i.
OnlyAt(t, key, i) ==
  /\ i \in 1..Len(t)
  /\ ToLower[t[i][1]] = key
  /\ \A j \in 1..Len(t) : ToLower[t[j][1]] = key => j = i

Unnamed(s, key) == \A j \in 1..Len(s) : ToLower[s[j][1]] # key

\* A string that has s before t, and in which s does not matter to a parameter
\* t names.
Joins(string, s, t) == string.parameters = s \o t

Outdone(string, s, key) == string.form = "list" \/ Unnamed(s, key)

\* What stands at the end of a list counts, and at the end of a URL if nothing
\* before it names the same parameter.
LEMMA EndCounts ==
  ASSUME NEW string, NEW s \in Seq(Pairs), NEW t \in Seq(Pairs), Joins(string, s, t),
         NEW key, NEW i \in Int, OnlyAt(t, key, i), Outdone(string, s, key)
  PROVE  Effective(string, key) = {t[i][2]}
  <1> DEFINE P == string.parameters
             M == Mentions(string, key)
             k == Len(s) + i
  <1>1. /\ DOMAIN P = 1..(Len(s) + Len(t)) /\ Len(s) \in Nat /\ Len(t) \in Nat
        /\ \A j \in 1..Len(s) : P[j] = s[j]
        /\ \A j \in 1..Len(t) : P[Len(s) + j] = t[j]
    BY DEF Joins
  <1>2. M = {j \in DOMAIN P : ToLower[P[j][1]] = key}
    BY DEF Mentions
  <1> HIDE DEF P, M
  <1>3. i \in 1..Len(t) /\ ToLower[t[i][1]] = key /\ k \in Nat
    BY <1>1 DEF OnlyAt
  <1>4. k \in M /\ P[k] = t[i]
    BY <1>1, <1>2, <1>3
  <1>5. \A j \in M : j = k \/ (j \in 1..Len(s) /\ ToLower[s[j][1]] = key)
    <2> SUFFICES ASSUME NEW j \in M, j \notin 1..Len(s) PROVE j = k
      BY <1>1, <1>2
    <2>1. j \in Int /\ j - Len(s) \in 1..Len(t) /\ P[j] = t[j - Len(s)]
      <3>1. j \in 1..(Len(s) + Len(t))
        BY <1>1, <1>2
      <3>2. j - Len(s) \in 1..Len(t) /\ j = Len(s) + (j - Len(s))
        BY <1>1, <3>1
      <3> QED  BY <1>1, <3>2
    <2>2. ToLower[t[j - Len(s)][1]] = key
      BY <1>2, <2>1
    <2>3. j - Len(s) = i
      BY <2>1, <2>2 DEF OnlyAt
    <2> QED  BY <1>1, <1>3, <2>1, <2>3
  <1>6. \A j \in M : j <= k
    BY <1>1, <1>3, <1>5
  <1> DEFINE D == {j \in M : string.form = "list" => \A l \in M : l <= j}
  <1>7. D = {k}
    <2>1. k \in D
      BY <1>4, <1>6
    <2>2. ASSUME NEW j \in D PROVE j = k
      <3>1. CASE string.form = "list"
        <4>1. k <= j /\ j <= k /\ j \in M
          BY <1>4, <1>6, <2>2, <3>1
        <4>2. j \in Int
          BY <1>1, <1>3, <1>5, <4>1
        <4> QED  BY <1>3, <4>1, <4>2
      <3>2. CASE Unnamed(s, key)
        BY <1>5, <2>2, <3>2 DEF Unnamed
      <3> QED  BY <3>1, <3>2 DEF Outdone
    <2> QED  BY <2>1, <2>2
  <1>8. Effective(string, key) = {P[j][2] : j \in D}
    BY DEF Effective, P, M
  <1> HIDE DEF D, k
  <1> QED  BY <1>4, <1>7, <1>8

-----------------------------------------------------------------------------
(* The strings of the code.                                                *)

\* What SSL asks for, with a file to check the certificate against unless
\* there is no need for one.
Settings(t) == Encrypt(al, Certificate(al)) = t

Checkable == al.CertificateLocation # "" \/ al.TrustServerCertificate

\* Either string ends with what SSL asks for; before it stand the database and
\* the extra arguments.
LEMMA EndsWithEncrypt ==
  ASSUME al \in ArgumentLists, NEW name \in DatabaseNames, Checkable,
         NEW t, Settings(t)
  PROVE  \E s \in Seq(Pairs) :
           /\ Joins(ConnectionString(al, name), s, t)
           /\ \/ isAzureADServicePrincipalAuth(al)
              \/ \A j \in 1..Len(s) : \/ s[j][1] = "database"
                                       \/ \E l \in DOMAIN ExtraParameters(al) : s[j] = ExtraParameters(al)[l]
  <1>1. ExtraParameters(al) \in Seq(Pairs) /\ name \in STRING
    <2>1. ExtraParameters(al) \in Seq(STRING \X STRING) /\ name \in STRING
      BY ArgumentsAssumption
    <2>2. STRING \X STRING \subseteq Pairs
      BY DEF Pairs, Texts
    <2> QED  BY <2>1, <2>2, SequencesOf
  <1>2. <<<<"database", name>>>> \in Seq(Pairs) /\ << >> \in Seq(Pairs)
    <2>1. <<"database", name>> \in Pairs
      BY <1>1, PairOfTexts DEF Texts
    <2> QED  BY <2>1, SmallSequences
  <1>3. CASE isAzureADServicePrincipalAuth(al)
    <2> DEFINE s == <<<<"database", name>>>> \o ExtraParameters(al)
               certificate == IF al.CertificateLocation = "" THEN << >> ELSE Certificate(al)
    <2>1. s \in Seq(Pairs)
      BY <1>1, <1>2
    <2>2. ConnectionString(al, name).parameters = s \o Encrypt(al, certificate)
      BY <1>3 DEF ConnectionString, CreateAzureADConnectionURL
    <2>3. Encrypt(al, certificate) = t
      BY DEF Checkable, Settings, Encrypt
    <2>4. Joins(ConnectionString(al, name), s, t)
      BY <2>2, <2>3 DEF Joins
    <2> QED  BY <1>3, <2>1, <2>4
  <1>4. CASE ~isAzureADServicePrincipalAuth(al)
    <2> DEFINE database == IF name = "" THEN << >> ELSE <<<<"database", name>>>>
               s == database \o ExtraParameters(al)
    <2>0. /\ database \in Seq(Pairs)
          /\ \A j \in 1..Len(database) : database[j][1] = "database"
      <3>1. database = << >> \/ database = <<<<"database", name>>>>
        OBVIOUS
      <3>2. /\ \A j \in 1..Len(<< >>) : << >>[j][1] = "database"
            /\ \A j \in 1..Len(<<<<"database", name>>>>) : <<<<"database", name>>>>[j][1] = "database"
        OBVIOUS
      <3> HIDE DEF database
      <3> QED  BY <1>2, <3>1, <3>2
    <2>1. /\ s \in Seq(Pairs)
          /\ \A j \in 1..Len(s) : \/ s[j][1] = "database"
                                 \/ \E l \in DOMAIN ExtraParameters(al) : s[j] = ExtraParameters(al)[l]
      <3> HIDE DEF database
      <3> DEFINE E == ExtraParameters(al)
      <3>1. E \in Seq(Pairs)
        BY <1>1
      <3> HIDE DEF E
      <3>2. database \o E \in Seq(Pairs)
        BY <2>0, <3>1
      <3>3. ASSUME NEW j \in 1..Len(database \o E)
            PROVE  (database \o E)[j][1] = "database" \/ \E l \in DOMAIN E : (database \o E)[j] = E[l]
        <4>1. CASE j <= Len(database)
          BY <2>0, <3>1, <4>1
        <4>2. CASE j > Len(database)
          <5>1. j - Len(database) \in DOMAIN E /\ (database \o E)[j] = E[j - Len(database)]
            BY <2>0, <3>1, <4>2
          <5> QED  BY <5>1
        <4> QED  BY <2>0, <3>1, <4>1, <4>2
      <3> QED  BY <3>2, <3>3 DEF E
    <2>2. Joins(ConnectionString(al, name), s, t)
      BY <1>4 DEF ConnectionString, CreateConnectionURL, Joins, Settings
    <2> QED  BY <2>1, <2>2
  <1> QED  BY <1>3, <1>4

\* In a URL the driver has accepted no extra argument names an SSL setting the
\* string has too, unless it respells one.
LEMMA ExtraUnnamed ==
  ASSUME al \in ArgumentLists, ~isAzureADServicePrincipalAuth(al), ~Respelled(al),
         DriverAccepts(ConnectionString(al, "")),
         NEW t \in Seq(Pairs), Settings(t),
         NEW k \in 1..Len(t), t[k][1] \in SSLSettings,
         NEW l \in DOMAIN ExtraParameters(al)
  PROVE  ToLower[ExtraParameters(al)[l][1]] # ToLower[t[k][1]]
  <1> DEFINE E == ExtraParameters(al)
             string == ConnectionString(al, "")
  <1>1. E \in Seq(Pairs)
    <2>1. E \in Seq(STRING \X STRING) /\ STRING \X STRING \subseteq Pairs
      BY ArgumentsAssumption DEF Pairs, Texts
    <2> QED  BY <2>1, SequencesOf
  <1>2. string.form = "URL" /\ string.parameters = << >> \o E \o t
    BY DEF ConnectionString, CreateConnectionURL, Settings
  <1>3. l \in DOMAIN E
    OBVIOUS
  <1>4. E[l][1] # t[k][1]
    <2>1. \A i, j \in DOMAIN string.parameters :
             string.parameters[i][1] = string.parameters[j][1] => i = j
      BY <1>2 DEF DriverAccepts
    <2> HIDE DEF E, string
    <2>2. << >> \o E = E
      BY <1>1, EmptyJoined
    <2>3. string.parameters = E \o t
      BY <1>2, <2>2
    <2>4. /\ l \in DOMAIN (E \o t) /\ (E \o t)[l] = E[l]
          /\ Len(E) + k \in DOMAIN (E \o t) /\ (E \o t)[Len(E) + k] = t[k]
          /\ l # Len(E) + k
      BY <1>1, <1>3, Joined
    <2> QED  BY <2>1, <2>3, <2>4
  <1>5. ToLower[E[l][1]] = ToLower[t[k][1]] => E[l][1] \in SSLSettings
    BY DEF Respelled
  <1> HIDE DEF E
  <1>6. \A a, b \in SSLSettings : ToLower[a] = ToLower[b] => a = b
    BY ToLowerAssumption DEF SSLSettings
  <1>7. ToLower[E[l][1]] # ToLower[t[k][1]]
    BY <1>4, <1>5, <1>6
  <1> QED  BY <1>7 DEF E

\* What a run that has connected, and respells no SSL setting in a URL, has
\* behind it.
Accepted ==
  /\ Checkable
  /\ DriverAccepts(ConnectionString(al, ""))
  /\ Respelled(al) => isAzureADServicePrincipalAuth(al)

\* So what SSL asks for counts in either string, the one of a service
\* principal for any extra arguments.
LEMMA EncryptCounts ==
  ASSUME al \in ArgumentLists, Accepted, NEW name \in DatabaseNames,
         NEW t \in Seq(Pairs), Settings(t),
         NEW k, NEW key, OnlyAt(t, key, k), t[k][1] \in SSLSettings
  PROVE  Effective(ConnectionString(al, name), key) = {t[k][2]}
  <1> DEFINE string == ConnectionString(al, name)
  <1>1. Checkable
    BY DEF Accepted
  <1>2. PICK s \in Seq(Pairs) :
           /\ Joins(string, s, t)
           /\ \/ isAzureADServicePrincipalAuth(al)
              \/ \A j \in 1..Len(s) : \/ s[j][1] = "database"
                                       \/ \E l \in DOMAIN ExtraParameters(al) : s[j] = ExtraParameters(al)[l]
    BY <1>1, EndsWithEncrypt
  <1>3. k \in 1..Len(t) /\ k \in Int /\ ToLower[t[k][1]] = key
    BY DEF OnlyAt
  <1>4. isAzureADServicePrincipalAuth(al) <=> string.form = "list"
    BY DEF ConnectionString, CreateAzureADConnectionURL, CreateConnectionURL
  <1> HIDE DEF string
  <1>5. ASSUME ~isAzureADServicePrincipalAuth(al) PROVE Unnamed(s, key)
    <2> SUFFICES ASSUME NEW j \in 1..Len(s) PROVE ToLower[s[j][1]] # key
      BY DEF Unnamed
    <2>1. CASE s[j][1] = "database"
      BY <1>3, <2>1, ToLowerAssumption DEF SSLSettings
    <2>2. ASSUME NEW l \in DOMAIN ExtraParameters(al), s[j] = ExtraParameters(al)[l]
          PROVE  ToLower[s[j][1]] # key
      BY <1>3, <1>5, <2>2, ExtraUnnamed DEF Accepted
    <2> QED  BY <1>2, <1>5, <2>1, <2>2
  <1>6. Outdone(string, s, key)
    BY <1>4, <1>5 DEF Outdone
  <1>7. Effective(string, key) = {t[k][2]}
    BY <1>2, <1>3, <1>6, EndCounts
  <1> QED  BY <1>7 DEF string

\* The settings as the code writes them.
Trusting == <<<<"encrypt", "true">>, <<"TrustServerCertificate", "true">>>>

Checking(file) ==
  <<<<"encrypt", "true">>, <<"TrustServerCertificate", "false">>, <<"certificate", file>>>>

LEMMA TrustingNames ==
  /\ Trusting \in Seq(Pairs)
  /\ OnlyAt(Trusting, "encrypt", 1)
  /\ Trusting[1][1] \in SSLSettings /\ Trusting[1][2] = "true"
  <1>1. Trusting \in Seq(Pairs) /\ Len(Trusting) = 2
    <2>1. <<"encrypt", "true">> \in Pairs /\ <<"TrustServerCertificate", "true">> \in Pairs
      BY PairOfTexts DEF Texts
    <2> QED  BY <2>1, SmallSequences DEF Trusting
  <1>2. /\ Trusting[1][1] = "encrypt" /\ Trusting[1][2] = "true"
        /\ Trusting[2][1] = "TrustServerCertificate"
    BY DEF Trusting
  <1>3. 1..2 = {1, 2}
    OBVIOUS
  <1> QED  BY <1>1, <1>2, <1>3, ToLowerAssumption DEF OnlyAt, SSLSettings

LEMMA CheckingNames ==
  ASSUME NEW file \in STRING
  PROVE  /\ Checking(file) \in Seq(Pairs)
         /\ OnlyAt(Checking(file), "encrypt", 1)
         /\ OnlyAt(Checking(file), "trustservercertificate", 2)
         /\ OnlyAt(Checking(file), "certificate", 3)
         /\ Checking(file)[1][1] \in SSLSettings /\ Checking(file)[1][2] = "true"
         /\ Checking(file)[2][1] \in SSLSettings /\ Checking(file)[2][2] = "false"
         /\ Checking(file)[3][1] \in SSLSettings /\ Checking(file)[3][2] = file
  <1> DEFINE t == Checking(file)
  <1>1. t \in Seq(Pairs) /\ Len(t) = 3
    <2>1. /\ <<"encrypt", "true">> \in Pairs /\ <<"TrustServerCertificate", "false">> \in Pairs
          /\ <<"certificate", file>> \in Pairs
      BY PairOfTexts DEF Texts
    <2> QED  BY <2>1, SmallSequences DEF Checking
  <1>2. /\ t[1][1] = "encrypt" /\ t[1][2] = "true"
        /\ t[2][1] = "TrustServerCertificate" /\ t[2][2] = "false"
        /\ t[3][1] = "certificate" /\ t[3][2] = file
    BY DEF Checking
  <1>3. 1..3 = {1, 2, 3}
    OBVIOUS
  <1> HIDE DEF t
  <1>4. /\ OnlyAt(t, "encrypt", 1) /\ OnlyAt(t, "trustservercertificate", 2)
        /\ OnlyAt(t, "certificate", 3)
    BY <1>1, <1>2, <1>3, ToLowerAssumption DEF OnlyAt
  <1>5. t[1][1] \in SSLSettings /\ t[2][1] \in SSLSettings /\ t[3][1] \in SSLSettings
    BY <1>2 DEF SSLSettings
  <1> QED  BY <1>1, <1>2, <1>4, <1>5 DEF t

LEMMA TrustingCounts ==
  ASSUME al \in ArgumentLists, Accepted, NEW name \in DatabaseNames, Settings(Trusting)
  PROVE  Effective(ConnectionString(al, name), "encrypt") = {"true"}
  <1>1. Effective(ConnectionString(al, name), "encrypt") = {Trusting[1][2]}
    BY TrustingNames, EncryptCounts
  <1> QED  BY <1>1, TrustingNames

LEMMA CheckingCounts ==
  ASSUME al \in ArgumentLists, Accepted, NEW name \in DatabaseNames,
         NEW file \in STRING, Settings(Checking(file))
  PROVE  /\ Effective(ConnectionString(al, name), "encrypt") = {"true"}
         /\ Effective(ConnectionString(al, name), "trustservercertificate") = {"false"}
         /\ Effective(ConnectionString(al, name), "certificate") = {file}
  <1> DEFINE t == Checking(file)
  <1>1. /\ t \in Seq(Pairs)
        /\ OnlyAt(t, "encrypt", 1) /\ t[1][1] \in SSLSettings /\ t[1][2] = "true"
        /\ OnlyAt(t, "trustservercertificate", 2) /\ t[2][1] \in SSLSettings /\ t[2][2] = "false"
        /\ OnlyAt(t, "certificate", 3) /\ t[3][1] \in SSLSettings /\ t[3][2] = file
    BY CheckingNames
  <1>2. Settings(t)
    OBVIOUS
  <1> HIDE DEF t
  <1>3. Effective(ConnectionString(al, name), "encrypt") = {t[1][2]}
    BY <1>1, <1>2, EncryptCounts
  <1>4. Effective(ConnectionString(al, name), "trustservercertificate") = {t[2][2]}
    BY <1>1, <1>2, EncryptCounts
  <1>5. Effective(ConnectionString(al, name), "certificate") = {t[3][2]}
    BY <1>1, <1>2, EncryptCounts
  <1> QED  BY <1>1, <1>3, <1>4, <1>5

LEMMA TwoAndOne ==
  ASSUME NEW S, NEW a \in S, NEW b \in S, NEW c \in S
  PROVE  <<a, b>> \o <<c>> = <<a, b, c>>
  <1> DEFINE l == <<a, b>> \o <<c>>
             r == <<a, b, c>>
  <1>1. l \in Seq(S) /\ r \in Seq(S) /\ Len(l) = 3 /\ Len(r) = 3
    OBVIOUS
  <1>2. l[1] = a /\ l[2] = b /\ l[3] = c
    OBVIOUS
  <1>3. r[1] = a /\ r[2] = b /\ r[3] = c
    OBVIOUS
  <1>4. 1..3 = {1, 2, 3}
    OBVIOUS
  <1> HIDE DEF l, r
  <1>5. \A i \in 1..3 : l[i] = r[i]
    BY <1>2, <1>3, <1>4
  <1>6. l = r
    BY <1>1, <1>5
  <1> QED  BY <1>6 DEF l, r

LEMMA ValidSecured ==
  ASSUME al \in ArgumentLists, Validate(al), DriverAccepts(ConnectionString(al, "")),
         Respelled(al) => isAzureADServicePrincipalAuth(al), NEW name \in DatabaseNames
  PROVE  Secured(al, name)
  <1> SUFFICES ASSUME al.EnableSSL PROVE Secured(al, name)
    BY DEF Secured
  <1>1. CASE al.TrustServerCertificate
    <2>1. Trust(al) = <<"TrustServerCertificate", "true">>
      BY <1>1 DEF Trust
    <2>2. Encrypt(al, Certificate(al)) = Trusting \o << >>
      BY <1>1, <2>1 DEF Encrypt, Trusting
    <2>3. Settings(Trusting) /\ Accepted
      BY <1>1, <2>2, TrustingNames, EmptyJoined DEF Settings, Accepted, Checkable
    <2>4. Effective(ConnectionString(al, name), "encrypt") = {"true"}
      BY <2>3, TrustingCounts
    <2> QED  BY <1>1, <2>4 DEF Secured
  <1>2. CASE ~al.TrustServerCertificate
    <2> DEFINE file == al.CertificateLocation
               t == Checking(file)
    <2>1. file # "" /\ file \in STRING
      BY <1>2, ArgumentsAssumption DEF Validate
    <2>2. Trust(al) = <<"TrustServerCertificate", "false">>
      BY <1>2 DEF Trust
    <2>3. Encrypt(al, Certificate(al)) = <<<<"encrypt", "true">>, Trust(al)>> \o <<<<"certificate", file>>>>
      BY <1>2 DEF Encrypt, Certificate
    <2>4. <<<<"encrypt", "true">>, Trust(al)>> \o <<<<"certificate", file>>>> = t
      <3>1. <<"encrypt", "true">> \in Pairs /\ Trust(al) \in Pairs /\ <<"certificate", file>> \in Pairs
        BY <2>1, <2>2, PairOfTexts DEF Texts
      <3>2. <<<<"encrypt", "true">>, Trust(al)>> \o <<<<"certificate", file>>>>
              = <<<<"encrypt", "true">>, Trust(al), <<"certificate", file>>>>
        BY <3>1, TwoAndOne
      <3> QED  BY <2>2, <3>2 DEF Checking
    <2>5. Settings(t) /\ Accepted
      <3> HIDE DEF t
      <3>1. Settings(t)
        BY <2>3, <2>4 DEF Settings
      <3>2. Accepted
        BY <2>1 DEF Accepted, Checkable
      <3> QED  BY <3>1, <3>2
    <2>6. /\ Effective(ConnectionString(al, name), "encrypt") = {"true"}
          /\ Effective(ConnectionString(al, name), "trustservercertificate") = {"false"}
          /\ Effective(ConnectionString(al, name), "certificate") = {file}
      BY <2>1, <2>5, CheckingCounts
    <2> QED  BY <2>1, <2>6 DEF Secured
  <1> QED  BY <1>1, <1>2

\* A run that has connected only ever uses connection strings that are as
\* secure as its command line asks: those of a service principal for any extra
\* arguments, a URL unless they respell one of its SSL settings.
THEOREM SecureConnections == Spec => []SecuredAsAsked
  <1>1. IInv => SecuredAsAsked
    <2> SUFFICES ASSUME IInv, open # {}, Respelled(al) => isAzureADServicePrincipalAuth(al),
                        NEW name \in DatabaseNames
                 PROVE  Secured(al, name)
      BY DEF SecuredAsAsked
    <2>1. al \in ArgumentLists /\ Validate(al)
      BY DEF IInv, PhasesInv, TypeOK, OpenInv
    <2>2. DriverAccepts(ConnectionString(al, ""))
      BY DEF IInv, ConnectedInv
    <2> QED  BY <2>1, <2>2, ValidSecured
  <1> QED  BY <1>1, Invariance, PTL
=============================================================================
