---------------------- MODULE DatabaseMetricsOrderProofs ----------------------
(***************************************************************************)
(* HandledOnce and AvailableComesLast of DatabaseMetrics, for every set of *)
(* databases, every number of workers and every channel size.  Both are    *)
(* one statement about order, Late: the scripts ask for nothing twice and  *)
(* for the derived metric last (Ordered), a model can come from one        *)
(* producer only (Owner), and what that producer has not sent yet is late  *)
(* for nothing that was sent (ScriptInv); the channel and the populator,   *)
(* first in, first out, keep that order (QueueInv).                        *)
(***************************************************************************)
EXTENDS DatabaseMetricsProofs

-----------------------------------------------------------------------------
(* The scripts are in order and ask about their producer's databases.      *)

\* Every query of the script is about these databases only.
AboutOnly(script, dbs) == \A i \in DOMAIN script : script[i].scope \subseteq dbs

\* No query of the second script asks for a metric of the first, or for a
\* memory reading.
Follows(second, first) ==
    \A i \in DOMAIN first, j \in DOMAIN second :
        /\ second[j].metric # first[i].metric
        /\ second[j].metric \notin MemoryInputs

LEMMA RowShape ==
  ASSUME NEW query \in Queries, NEW m \in Rows(query)
  PROVE  m.db \in query.scope /\ m.metric = query.metric /\ m \in Models
  BY DEF Rows, Queries, Models

LEMMA ConcatOrdered ==
  ASSUME NEW s \in Seq(Queries), NEW t \in Seq(Queries), NEW dbs,
         Ordered(s), Ordered(t), Follows(t, s), AboutOnly(s, dbs), AboutOnly(t, dbs)
  PROVE  /\ s \o t \in Seq(Queries)
         /\ Ordered(s \o t)
         /\ AboutOnly(s \o t, dbs)
  <1> DEFINE u == s \o t
  <1>1. /\ u \in Seq(Queries) /\ Len(s) \in Nat /\ Len(t) \in Nat /\ Len(u) = Len(s) + Len(t)
        /\ DOMAIN s = 1..Len(s) /\ DOMAIN t = 1..Len(t) /\ DOMAIN u = 1..(Len(s) + Len(t))
        /\ \A i \in 1..(Len(s) + Len(t)) : u[i] = IF i <= Len(s) THEN s[i] ELSE t[i - Len(s)]
    OBVIOUS
  <1> HIDE DEF u
  <1>2. \A i \in DOMAIN u : \/ i \in DOMAIN s /\ u[i] = s[i]
                            \/ i - Len(s) \in DOMAIN t /\ u[i] = t[i - Len(s)] /\ i > Len(s)
    BY <1>1
  <1>3. AboutOnly(u, dbs)
    BY <1>2 DEF AboutOnly
  <1>4. ASSUME NEW i \in DOMAIN u, NEW j \in DOMAIN u, i < j, NEW m \in Rows(u[i]), NEW r \in Rows(u[j])
        PROVE  ~Late(r, m)
    <2>0. i \in Int /\ j \in Int
      BY <1>1
    <2>1. CASE i \in DOMAIN s /\ u[i] = s[i] /\ j \in DOMAIN s /\ u[j] = s[j]
      BY <1>4, <2>1 DEF Ordered
    <2>2. CASE i \in DOMAIN s /\ u[i] = s[i] /\ j - Len(s) \in DOMAIN t /\ u[j] = t[j - Len(s)]
      <3>1. s[i] \in Queries /\ t[j - Len(s)] \in Queries
        BY <2>2
      <3>2. m.metric = s[i].metric /\ r.metric = t[j - Len(s)].metric
        BY <1>4, <2>2, <3>1, RowShape
      <3> QED  BY <2>2, <3>2 DEF Follows, Late
    <2>3. CASE /\ i - Len(s) \in DOMAIN t /\ u[i] = t[i - Len(s)]
               /\ j - Len(s) \in DOMAIN t /\ u[j] = t[j - Len(s)]
      <3>1. i - Len(s) < j - Len(s)
        BY <1>1, <1>4, <2>0
      <3> QED  BY <1>4, <2>3, <3>1 DEF Ordered
    <2>4. CASE i > Len(s) /\ j \in DOMAIN s
      BY <1>1, <1>4, <2>4
    <2> QED  BY <1>2, <2>1, <2>2, <2>3, <2>4
  <1>5. Ordered(u)
    BY <1>4 DEF Ordered
  <1> QED  BY <1>1, <1>3, <1>5 DEF u

LEMMA FollowsConcat ==
  ASSUME NEW s \in Seq(Queries), NEW t \in Seq(Queries), NEW v, Follows(v, s), Follows(v, t)
  PROVE  Follows(v, s \o t)
  <1> DEFINE u == s \o t
  <1>1. /\ Len(s) \in Nat /\ Len(t) \in Nat
        /\ DOMAIN s = 1..Len(s) /\ DOMAIN t = 1..Len(t) /\ DOMAIN u = 1..(Len(s) + Len(t))
        /\ \A i \in 1..(Len(s) + Len(t)) : u[i] = IF i <= Len(s) THEN s[i] ELSE t[i - Len(s)]
    OBVIOUS
  <1> HIDE DEF u
  <1>2. \A i \in DOMAIN u : \/ i \in DOMAIN s /\ u[i] = s[i]
                            \/ i - Len(s) \in DOMAIN t /\ u[i] = t[i - Len(s)]
    BY <1>1
  <1> QED  BY <1>2 DEF Follows, u

\* A table of definitions without repetition, the derived metric after its
\* readings.
LEMMA QueriesOverOrdered ==
  ASSUME NEW defs \in Seq(Metrics), NEW scope \in SUBSET Databases,
         \A i, j \in DOMAIN defs : i < j =>
            /\ defs[i] # defs[j]
            /\ defs[i] = "memoryAvailable" => defs[j] \notin MemoryInputs
  PROVE  /\ QueriesOver(defs, scope) \in Seq(Queries)
         /\ Ordered(QueriesOver(defs, scope))
         /\ AboutOnly(QueriesOver(defs, scope), scope)
         /\ DOMAIN QueriesOver(defs, scope) = DOMAIN defs
         /\ \A i \in DOMAIN defs : QueriesOver(defs, scope)[i].metric = defs[i]
  <1> DEFINE q == QueriesOver(defs, scope)
  <1>1. q \in Seq(Queries)
    BY QueriesOverType
  <1>2. /\ DOMAIN q = DOMAIN defs
        /\ \A i \in DOMAIN defs : q[i].metric = defs[i] /\ q[i].scope = scope
    BY DEF QueriesOver
  <1> HIDE DEF q
  <1>3. AboutOnly(q, scope)
    BY <1>2 DEF AboutOnly
  <1>4. ASSUME NEW i \in DOMAIN q, NEW j \in DOMAIN q, i < j, NEW m \in Rows(q[i]), NEW r \in Rows(q[j])
        PROVE  ~Late(r, m)
    <2>1. q[i] \in Queries /\ q[j] \in Queries
      BY <1>1
    <2>2. m.metric = defs[i] /\ r.metric = defs[j]
      BY <1>2, <1>4, <2>1, RowShape
    <2> QED  BY <1>2, <1>4, <2>2 DEF Late
  <1>5. Ordered(q)
    BY <1>4 DEF Ordered
  <1> QED  BY <1>1, <1>2, <1>3, <1>5 DEF q

LEMMA IfOrdered ==
  ASSUME NEW b, NEW q \in Seq(Queries), NEW dbs, Ordered(q), AboutOnly(q, dbs)
  PROVE  If(b, q) \in Seq(Queries) /\ Ordered(If(b, q)) /\ AboutOnly(If(b, q), dbs)
  <1>1. << >> \in Seq(Queries) /\ Ordered(<< >>) /\ AboutOnly(<< >>, dbs)
    BY DEF Ordered, AboutOnly
  <1>2. If(b, q) = q \/ If(b, q) = << >>
    BY DEF If
  <1> QED  BY <1>1, <1>2

LEMMA IfFollows ==
  ASSUME NEW a, NEW b, NEW s, NEW t, Follows(t, s)
  PROVE  Follows(If(b, t), s) /\ Follows(If(b, t), If(a, s))
  <1>1. If(b, t) = t \/ If(b, t) = << >>
    BY DEF If
  <1>2. If(a, s) = s \/ If(a, s) = << >>
    BY DEF If
  <1>3. DOMAIN << >> = {}
    OBVIOUS
  <1> QED  BY <1>1, <1>2, <1>3 DEF Follows

\* One table with one definition, none a memory metric.
LEMMA SingleDefinition ==
  ASSUME NEW x \in Metrics \ {"memoryUtilization", "memoryTotal", "memoryAvailable"},
         NEW scope \in SUBSET Databases
  PROVE  LET q == QueriesOver(<<x>>, scope)
         IN  /\ q \in Seq(Queries) /\ Ordered(q) /\ AboutOnly(q, scope)
             /\ DOMAIN q = {1} /\ q[1].metric = x
  <1>1. <<x>> \in Seq(Metrics) /\ DOMAIN <<x>> = {1} /\ <<x>>[1] = x
    OBVIOUS
  <1>2. \A i, j \in DOMAIN <<x>> : ~(i < j)
    BY <1>1
  <1> QED  BY <1>1, <1>2, QueriesOverOrdered

LEMMA AzureScriptOrdered ==
  ASSUME NEW d \in Databases
  PROVE  /\ AzureScript(d) \in Seq(Queries)
         /\ Ordered(AzureScript(d))
         /\ AboutOnly(AzureScript(d), {d})
  <1> DEFINE defs == databaseDefinitions \o memoryDefinitions
             A == QueriesOver(defs, {d})
             B == QueriesOver(databaseDiskDefinitions, {d})
             C == QueriesOver(databaseBufferDefinitions, {d})
             D == QueriesOver(specificDatabaseDefinitions, {d})
             Bif == If(EnableDiskMetricsInBytes, B)
             Cif == If(EnableBufferMetrics, C)
             Dif == If(EnableDatabaseReserveMetrics, D)
  <1>1. /\ defs \in Seq(Metrics) /\ DOMAIN defs = 1..5
        /\ defs[1] = "log.transactionGrowth" /\ defs[2] = "io.stallInMilliseconds"
        /\ defs[3] = "memoryUtilization" /\ defs[4] = "memoryTotal" /\ defs[5] = "memoryAvailable"
    BY DefinitionsType DEF databaseDefinitions, memoryDefinitions
  <1> HIDE DEF defs
  <1>2. \A i, j \in DOMAIN defs : i < j =>
            /\ defs[i] # defs[j]
            /\ defs[i] = "memoryAvailable" => defs[j] \notin MemoryInputs
    <2>1. \A i \in 1..5 : defs[i] = "memoryAvailable" <=> i = 5
      BY <1>1
    <2>2. \A i, j \in 1..5 : i < j => i # 5
      OBVIOUS
    <2>3. \A i, j \in 1..5 : i < j => defs[i] # defs[j]
      BY <1>1
    <2> QED  BY <1>1, <2>1, <2>2, <2>3
  <1>3. /\ A \in Seq(Queries) /\ Ordered(A) /\ AboutOnly(A, {d})
        /\ DOMAIN A = 1..5 /\ \A i \in 1..5 : A[i].metric = defs[i]
    BY <1>1, <1>2, QueriesOverOrdered
  <1>4. /\ B \in Seq(Queries) /\ Ordered(B) /\ AboutOnly(B, {d})
        /\ DOMAIN B = {1} /\ B[1].metric = "maxDiskSizeInBytes"
    BY SingleDefinition DEF databaseDiskDefinitions, Metrics
  <1>5. /\ C \in Seq(Queries) /\ Ordered(C) /\ AboutOnly(C, {d})
        /\ DOMAIN C = {1} /\ C[1].metric = "bufferpool.sizePerDatabaseInBytes"
    BY SingleDefinition DEF databaseBufferDefinitions, Metrics
  <1>6. /\ D \in Seq(Queries) /\ Ordered(D) /\ AboutOnly(D, {d})
        /\ DOMAIN D = {1} /\ D[1].metric = "pageFile"
    BY SingleDefinition DEF specificDatabaseDefinitions, Metrics
  <1> HIDE DEF A, B, C, D
  <1>7. /\ Follows(B, A) /\ Follows(C, A) /\ Follows(D, A)
        /\ Follows(C, B) /\ Follows(D, B) /\ Follows(D, C)
    BY <1>1, <1>3, <1>4, <1>5, <1>6 DEF Follows, MemoryInputs
  <1>8. /\ Bif \in Seq(Queries) /\ Ordered(Bif) /\ AboutOnly(Bif, {d})
        /\ Cif \in Seq(Queries) /\ Ordered(Cif) /\ AboutOnly(Cif, {d})
        /\ Dif \in Seq(Queries) /\ Ordered(Dif) /\ AboutOnly(Dif, {d})
    BY <1>4, <1>5, <1>6, IfOrdered
  <1>9. /\ Follows(Bif, A) /\ Follows(Cif, A) /\ Follows(Dif, A)
        /\ Follows(Cif, Bif) /\ Follows(Dif, Bif) /\ Follows(Dif, Cif)
    BY <1>7, IfFollows
  <1>10. AzureScript(d) = ((A \o Bif) \o Cif) \o Dif
    BY DEF AzureScript, A, B, C, D, defs
  <1> HIDE DEF Bif, Cif, Dif
  <1> DEFINE AB == A \o Bif
             ABC == AB \o Cif
  <1>11. AB \in Seq(Queries) /\ Ordered(AB) /\ AboutOnly(AB, {d})
    BY <1>3, <1>8, <1>9, ConcatOrdered
  <1>12. Follows(Cif, AB) /\ Follows(Dif, AB)
    BY <1>3, <1>8, <1>9, FollowsConcat
  <1> HIDE DEF AB
  <1>13. ABC \in Seq(Queries) /\ Ordered(ABC) /\ AboutOnly(ABC, {d})
    BY <1>8, <1>11, <1>12, ConcatOrdered
  <1>14. Follows(Dif, ABC)
    BY <1>8, <1>9, <1>11, <1>12, FollowsConcat
  <1>15. AzureScript(d) = ABC \o Dif
    BY <1>10 DEF AB
  <1> HIDE DEF ABC
  <1> QED  BY <1>8, <1>13, <1>14, <1>15, ConcatOrdered

\* One reserve query per name, and the names differ.
LEMMA SpecificQueriesOrdered ==
  ASSUME NEW listed \in SUBSET Databases, NEW dbNames \in Orderings(listed)
  PROVE  LET q == SpecificQueries(dbNames)
         IN  /\ q \in Seq(Queries) /\ Ordered(q) /\ AboutOnly(q, Databases)
             /\ \A i \in DOMAIN q : q[i].metric = "pageFile"
  <1> DEFINE q == SpecificQueries(dbNames)
  <1>1. /\ dbNames \in [1..Cardinality(listed) -> listed]
        /\ Cardinality(listed) \in Nat
        /\ \A i, j \in DOMAIN dbNames : dbNames[i] = dbNames[j] => i = j
    BY DatabasesAssumption, FS_Subset, FS_CardinalityType DEF Orderings
  <1>2. specificDatabaseDefinitions[1] = "pageFile" /\ "pageFile" \in Metrics
    BY DEF specificDatabaseDefinitions, Metrics
  <1>3. /\ DOMAIN q = 1..Cardinality(listed)
        /\ \A i \in DOMAIN q : q[i] = [metric |-> "pageFile", scope |-> {dbNames[i]}]
    BY <1>1, <1>2 DEF SpecificQueries
  <1>4. \A i \in DOMAIN q : q[i] \in Queries /\ q[i].metric = "pageFile" /\ q[i].scope = {dbNames[i]}
    BY <1>1, <1>2, <1>3 DEF Queries
  <1>5. q \in Seq(Queries)
    <2>1. q \in [1..Cardinality(listed) -> Queries]
      BY <1>3, <1>4 DEF SpecificQueries
    <2> QED  BY <1>1, <2>1
  <1> HIDE DEF q
  <1>6. ASSUME NEW i \in DOMAIN q, NEW j \in DOMAIN q, i < j, NEW m \in Rows(q[i]), NEW r \in Rows(q[j])
        PROVE  ~Late(r, m)
    <2>1. m.db = dbNames[i] /\ r.db = dbNames[j] /\ r.metric = "pageFile"
      BY <1>4, <1>6, RowShape
    <2>2. i # j
      BY <1>3, <1>6
    <2>3. dbNames[i] # dbNames[j]
      BY <1>1, <1>3, <2>2
    <2> QED  BY <2>1, <2>3 DEF Late
  <1>7. Ordered(q)
    BY <1>6 DEF Ordered
  <1>8. AboutOnly(q, Databases)
    BY <1>1, <1>3, <1>4 DEF AboutOnly
  <1> QED  BY <1>4, <1>5, <1>7, <1>8 DEF q

LEMMA DefaultScriptOrdered ==
  ASSUME NEW listed \in SUBSET Databases, NEW dbNames \in Orderings(listed)
  PROVE  /\ DefaultScript(dbNames) \in Seq(Queries)
         /\ Ordered(DefaultScript(dbNames))
  <1> DEFINE A == QueriesOver(databaseDefinitions, Databases)
             B == QueriesOver(databaseBufferDefinitions, Databases)
             C == SpecificQueries(dbNames)
             Bif == If(EnableBufferMetrics, B)
             Cif == If(EnableDatabaseReserveMetrics, C)
  <1>0. Databases \in SUBSET Databases
    OBVIOUS
  <1>1. /\ databaseDefinitions \in Seq(Metrics) /\ DOMAIN databaseDefinitions = 1..2
        /\ databaseDefinitions[1] = "log.transactionGrowth"
        /\ databaseDefinitions[2] = "io.stallInMilliseconds"
    BY DefinitionsType DEF databaseDefinitions
  <1>2. /\ A \in Seq(Queries) /\ Ordered(A) /\ AboutOnly(A, Databases)
        /\ DOMAIN A = 1..2 /\ \A i \in 1..2 : A[i].metric = databaseDefinitions[i]
    <2>1. \A i, j \in DOMAIN databaseDefinitions : i < j =>
            /\ databaseDefinitions[i] # databaseDefinitions[j]
            /\ databaseDefinitions[i] = "memoryAvailable" => databaseDefinitions[j] \notin MemoryInputs
      BY <1>1
    <2> QED  BY <1>0, <1>1, <2>1, QueriesOverOrdered
  <1>3. /\ B \in Seq(Queries) /\ Ordered(B) /\ AboutOnly(B, Databases)
        /\ DOMAIN B = {1} /\ B[1].metric = "bufferpool.sizePerDatabaseInBytes"
    BY <1>0, SingleDefinition DEF databaseBufferDefinitions, Metrics
  <1>4. /\ C \in Seq(Queries) /\ Ordered(C) /\ AboutOnly(C, Databases)
        /\ \A i \in DOMAIN C : C[i].metric = "pageFile"
    BY SpecificQueriesOrdered
  <1> HIDE DEF A, B, C
  <1>5. Follows(B, A) /\ Follows(C, A) /\ Follows(C, B)
    BY <1>1, <1>2, <1>3, <1>4 DEF Follows, MemoryInputs
  <1>6. /\ Bif \in Seq(Queries) /\ Ordered(Bif) /\ AboutOnly(Bif, Databases)
        /\ Cif \in Seq(Queries) /\ Ordered(Cif) /\ AboutOnly(Cif, Databases)
    BY <1>3, <1>4, IfOrdered
  <1>7. Follows(Bif, A) /\ Follows(Cif, A) /\ Follows(Cif, Bif)
    BY <1>5, IfFollows
  <1>8. DefaultScript(dbNames) = (A \o Bif) \o Cif
    BY DEF DefaultScript, A, B, C
  <1> HIDE DEF Bif, Cif
  <1> DEFINE AB == A \o Bif
  <1>9. AB \in Seq(Queries) /\ Ordered(AB) /\ AboutOnly(AB, Databases)
    BY <1>2, <1>6, <1>7, ConcatOrdered
  <1>10. Follows(Cif, AB)
    BY <1>2, <1>6, <1>7, FollowsConcat
  <1>11. DefaultScript(dbNames) = AB \o Cif
    BY <1>8
  <1> HIDE DEF AB
  <1> QED  BY <1>6, <1>9, <1>10, <1>11, ConcatOrdered

-----------------------------------------------------------------------------
(* The producers.                                                          *)

\* A model is late only for models of its own producer.
LEMMA LateSameOwner ==
  ASSUME NEW r, NEW m, Late(r, m)
  PROVE  Owner(r) = Owner(m)
  BY DEF Late, Owner

LEMMA NextQuery ==
  ASSUME NEW s \in Seq(Queries), s # << >>, Ordered(s)
  PROVE  /\ Head(s) \in Queries
         /\ Ordered(Tail(s))
         /\ RowsOf(Tail(s)) \subseteq RowsOf(s)
         /\ Rows(Head(s)) \subseteq RowsOf(s)
         /\ \A m \in Rows(Head(s)), r \in RowsOf(Tail(s)) : ~Late(r, m)
  <1>1. /\ Len(s) \in Nat \ {0} /\ Len(Tail(s)) = Len(s) - 1
        /\ DOMAIN s = 1..Len(s) /\ DOMAIN Tail(s) = 1..(Len(s) - 1)
        /\ Head(s) = s[1] /\ Head(s) \in Queries
        /\ \A i \in 1..(Len(s) - 1) : Tail(s)[i] = s[i + 1]
    OBVIOUS
  <1> DEFINE t == Tail(s)
  <1>2. \A i \in DOMAIN t : i \in Int /\ i + 1 \in DOMAIN s /\ 1 < i + 1 /\ t[i] = s[i + 1]
    BY <1>1
  <1>3. 1 \in DOMAIN s /\ Head(s) = s[1]
    BY <1>1
  <1> HIDE DEF t
  <1>4. ASSUME NEW i \in DOMAIN t, NEW j \in DOMAIN t, i < j, NEW m \in Rows(t[i]), NEW r \in Rows(t[j])
        PROVE  ~Late(r, m)
    <2>1. i + 1 \in DOMAIN s /\ j + 1 \in DOMAIN s /\ i + 1 < j + 1
      BY <1>2, <1>4
    <2>2. m \in Rows(s[i + 1]) /\ r \in Rows(s[j + 1])
      BY <1>2, <1>4
    <2> QED  BY <2>1, <2>2 DEF Ordered
  <1>5. Ordered(t)
    BY <1>4 DEF Ordered
  <1>6. \A r \in RowsOf(t) : \E j \in DOMAIN s : 1 < j /\ r \in Rows(s[j])
    BY <1>2 DEF RowsOf
  <1>7. RowsOf(t) \subseteq RowsOf(s) /\ Rows(Head(s)) \subseteq RowsOf(s)
    BY <1>3, <1>6 DEF RowsOf
  <1>8. \A m \in Rows(Head(s)), r \in RowsOf(t) : ~Late(r, m)
    BY <1>3, <1>6 DEF Ordered
  <1> QED  BY <1>1, <1>5, <1>7, <1>8 DEF t

\* Steps that neither ask nor send.
LEMMA ScriptsKept ==
  ASSUME ScriptInv, UNCHANGED <<pending, outbox, sent>>,
         \A d \in Databases : worker'[d] \in {"none", "connect"} => worker[d] \in {"none", "connect"},
         main' = "create" => main = "create"
  PROVE  ScriptInv'
  BY DEF ScriptInv

\* A producer that sent nothing so far gets its script.
LEMMA ScriptGiven ==
  ASSUME TypeOK, ScriptInv, NEW p \in Producers, NEW script \in Seq(Queries),
         Ordered(script), \A m \in RowsOf(script) : Owner(m) = p,
         outbox[p] = {}, \A m \in sent : Owner(m) # p,
         pending' = [pending EXCEPT ![p] = script], UNCHANGED <<outbox, sent>>,
         \A d \in Databases : worker'[d] \in {"none", "connect"} => worker[d] \in {"none", "connect"},
         main' = "create" => main = "create"
  PROVE  ScriptInv'
  <1>1. /\ pending'[p] = script
        /\ \A q \in Producers : q # p => pending'[q] = pending[q]
    BY DEF TypeOK
  <1>2. \A r \in RowsOf(script), m \in outbox[p] \union sent : ~Late(r, m)
    BY LateSameOwner
  <1>3. ASSUME NEW q \in Producers
        PROVE  /\ Ordered(pending'[q])
               /\ \A r \in RowsOf(pending'[q]), m \in outbox'[q] \union sent' : ~Late(r, m)
               /\ \A r \in outbox'[q], m \in sent' : ~Late(r, m)
               /\ \A r, m \in outbox'[q] : r # m => ~Late(r, m)
               /\ \A m \in RowsOf(pending'[q]) \union outbox'[q] : Owner(m) = q
    <2>1. CASE q = p
      BY <1>1, <1>2, <2>1
    <2>2. CASE q # p
      <3>1. pending'[q] = pending[q] /\ outbox' = outbox /\ sent' = sent
        BY <1>1, <2>2
      <3> QED  BY <3>1 DEF ScriptInv
    <2> QED  BY <2>1, <2>2
  <1>4. /\ \A d \in Databases : worker'[d] \in {"none", "connect"} =>
             outbox'[d] = {} /\ \A m \in sent' : Owner(m) # d
        /\ main' = "create" => outbox'[Main] = {}
    BY DEF ScriptInv
  <1> QED  BY <1>3, <1>4 DEF ScriptInv

\* RunQuery and DeriveAvailableMemory: the rows of one query, any of them.
LEMMA RowsTaken ==
  ASSUME TypeOK, ScriptInv, NEW p \in Producers, Producing(p),
         pending[p] # << >>, outbox[p] = {},
         NEW rows \in SUBSET Rows(Head(pending[p])),
         outbox' = [outbox EXCEPT ![p] = rows],
         pending' = [pending EXCEPT ![p] = Tail(@)],
         UNCHANGED <<sent, worker, main>>
  PROVE  ScriptInv'
  <1>1. /\ pending'[p] = Tail(pending[p]) /\ outbox'[p] = rows
        /\ \A q \in Producers : q # p => pending'[q] = pending[q] /\ outbox'[q] = outbox[q]
    BY DEF TypeOK
  <1>2. pending[p] \in Seq(Queries) /\ Ordered(pending[p])
    BY DEF TypeOK, ScriptInv
  <1> DEFINE s == pending[p]
  <1>3. /\ Head(s) \in Queries
        /\ Ordered(Tail(s))
        /\ RowsOf(Tail(s)) \subseteq RowsOf(s)
        /\ Rows(Head(s)) \subseteq RowsOf(s) /\ rows \subseteq Rows(Head(s))
        /\ \A m \in Rows(Head(s)), r \in RowsOf(Tail(s)) : ~Late(r, m)
    BY <1>2, NextQuery
  <1>4. /\ \A r \in RowsOf(s), m \in sent : ~Late(r, m)
        /\ \A m \in RowsOf(s) : Owner(m) = p
    BY DEF ScriptInv
  <1>5. \A r, m \in rows : r # m => ~Late(r, m)
    <2>1. \A m \in rows : m.metric = Head(s).metric
      BY <1>3, RowShape
    <2> QED  BY <2>1 DEF Late, MemoryInputs
  <1> HIDE DEF s
  <1>6. ASSUME NEW q \in Producers
        PROVE  /\ Ordered(pending'[q])
               /\ \A r \in RowsOf(pending'[q]), m \in outbox'[q] \union sent' : ~Late(r, m)
               /\ \A r \in outbox'[q], m \in sent' : ~Late(r, m)
               /\ \A r, m \in outbox'[q] : r # m => ~Late(r, m)
               /\ \A m \in RowsOf(pending'[q]) \union outbox'[q] : Owner(m) = q
    <2>1. CASE q = p
      <3>1. pending'[q] = Tail(s) /\ outbox'[q] = rows /\ sent' = sent
        BY <1>1, <2>1 DEF s
      <3> QED  BY <1>3, <1>4, <1>5, <2>1, <3>1
    <2>2. CASE q # p
      <3>1. pending'[q] = pending[q] /\ outbox'[q] = outbox[q] /\ sent' = sent
        BY <1>1, <2>2
      <3> QED  BY <3>1 DEF ScriptInv
    <2> QED  BY <2>1, <2>2
  <1>7. \A d \in Databases : worker'[d] \in {"none", "connect"} =>
           outbox'[d] = {} /\ \A m \in sent' : Owner(m) # d
    <2>1. \A d \in Databases : worker[d] \in {"none", "connect"} => d # p
      BY DatabasesAssumption DEF Producing
    <2> QED  BY <1>1, <2>1 DEF ScriptInv, Producers
  <1>8. main' = "create" => outbox'[Main] = {}
    <2>1. main = "create" => p # Main
      BY DatabasesAssumption DEF Producing
    <2> QED  BY <1>1, <2>1 DEF ScriptInv, Producers
  <1> QED  BY <1>6, <1>7, <1>8 DEF ScriptInv

\* Nobody else has anything left to send that is late for the model sent.
LEMMA SendScripts ==
  ASSUME TypeOK, ScriptInv, NEW p \in Producers, Producing(p), NEW m \in outbox[p],
         sent' = sent \union {m},
         outbox' = [outbox EXCEPT ![p] = @ \ {m}],
         UNCHANGED <<pending, worker, main>>
  PROVE  ScriptInv'
  <1>1. /\ outbox'[p] = outbox[p] \ {m}
        /\ \A q \in Producers : q # p => outbox'[q] = outbox[q]
    BY DEF TypeOK
  <1>2. Owner(m) = p
    BY DEF ScriptInv
  <1>3. ASSUME NEW q \in Producers
        PROVE  /\ Ordered(pending'[q])
               /\ \A r \in RowsOf(pending'[q]), n \in outbox'[q] \union sent' : ~Late(r, n)
               /\ \A r \in outbox'[q], n \in sent' : ~Late(r, n)
               /\ \A r, n \in outbox'[q] : r # n => ~Late(r, n)
               /\ \A n \in RowsOf(pending'[q]) \union outbox'[q] : Owner(n) = q
    <2>1. outbox'[q] \subseteq outbox[q] /\ pending'[q] = pending[q]
      BY <1>1
    <2>2. /\ Ordered(pending[q])
          /\ \A r \in RowsOf(pending[q]), n \in outbox[q] \union sent : ~Late(r, n)
          /\ \A r \in outbox[q], n \in sent : ~Late(r, n)
          /\ \A r, n \in outbox[q] : r # n => ~Late(r, n)
          /\ \A n \in RowsOf(pending[q]) \union outbox[q] : Owner(n) = q
      BY DEF ScriptInv
    <2>3. \A r \in RowsOf(pending[q]) \union outbox'[q] : ~Late(r, m)
      <3>1. CASE q = p
        BY <1>1, <2>2, <3>1
      <3>2. CASE q # p
        BY <1>2, <2>1, <2>2, <3>2, LateSameOwner
      <3> QED  BY <3>1, <3>2
    <2> QED  BY <2>1, <2>2, <2>3
  <1>4. \A d \in Databases : worker'[d] \in {"none", "connect"} =>
           outbox'[d] = {} /\ \A n \in sent' : Owner(n) # d
    <2>1. \A d \in Databases : worker[d] \in {"none", "connect"} => d # p
      BY DatabasesAssumption DEF Producing
    <2> QED  BY <1>1, <1>2, <2>1 DEF ScriptInv, Producers
  <1>5. main' = "create" => outbox'[Main] = {}
    BY <1>1 DEF ScriptInv, Producers
  <1> QED  BY <1>3, <1>4, <1>5 DEF ScriptInv

-----------------------------------------------------------------------------
(* The channel and the populator.                                          *)

LEMMA QueueKept ==
  ASSUME QueueInv, UNCHANGED <<modelChan, inHand, recorded, dropped>>,
         recorded = {} \/ lookup' = lookup
  PROVE  QueueInv'
  <1>1. Queued' = Queued /\ Settled' = Settled
    BY DEF Queued, Settled
  <1> QED  BY <1>1 DEF QueueInv

LEMMA SendQueue ==
  ASSUME TypeOK, FlowInv, ScriptInv, QueueInv, NEW p \in Producers, NEW m \in outbox[p],
         modelChan' = Append(modelChan, m),
         UNCHANGED <<inHand, recorded, dropped, lookup>>
  PROVE  QueueInv'
  <1>1. m \in Models /\ modelChan \in Seq(Models)
    BY DEF TypeOK
  <1>2. /\ Len(modelChan) \in Nat
        /\ DOMAIN modelChan = 1..Len(modelChan) /\ DOMAIN modelChan' = 1..(Len(modelChan) + 1)
        /\ \A i \in 1..Len(modelChan) : modelChan'[i] = modelChan[i]
        /\ modelChan'[Len(modelChan) + 1] = m
    BY <1>1
  <1>3. Queued' = Queued \union {m} /\ Settled' = Settled
    BY <1>1, QueuedAppend DEF Queued, Settled
  <1>4. \A n \in Queued \union inHand \union Settled : ~Late(m, n)
    BY DEF ScriptInv, FlowInv
  <1>5. ASSUME NEW i \in DOMAIN modelChan', NEW j \in DOMAIN modelChan', i < j
        PROVE  ~Late(modelChan'[j], modelChan'[i])
    <2>1. i \in 1..Len(modelChan)
      BY <1>2, <1>5
    <2>2. CASE j \in 1..Len(modelChan)
      BY <1>2, <1>5, <2>1, <2>2 DEF QueueInv
    <2>3. CASE j = Len(modelChan) + 1
      <3>1. modelChan'[j] = m /\ modelChan'[i] = modelChan[i] /\ modelChan[i] \in Queued
        BY <1>2, <2>1, <2>3 DEF Queued
      <3> QED  BY <1>4, <3>1
    <2> QED  BY <1>2, <2>2, <2>3
  <1>6. \A r \in Queued', n \in inHand' \union Settled' : ~Late(r, n)
    BY <1>3, <1>4 DEF QueueInv
  <1>7. /\ \A r \in inHand', n \in Settled' : ~Late(r, n)
        /\ (recorded \intersect dropped)' = {}
        /\ \A n \in recorded' : n.db \in lookup'
    BY <1>3 DEF QueueInv
  <1> QED  BY <1>5, <1>6, <1>7 DEF QueueInv

LEMMA ReceiveQueue ==
  ASSUME TypeOK, QueueInv, Receive
  PROVE  QueueInv'
  <1>1. /\ modelChan \in Seq(Models) /\ modelChan # << >> /\ inHand = {}
        /\ inHand' = {Head(modelChan)} /\ modelChan' = Tail(modelChan)
        /\ UNCHANGED <<lookup, recorded, dropped>>
    BY DEF TypeOK, Receive, mainVars
  <1>2. /\ Len(modelChan) \in Nat \ {0}
        /\ DOMAIN modelChan = 1..Len(modelChan) /\ DOMAIN modelChan' = 1..(Len(modelChan) - 1)
        /\ Head(modelChan) = modelChan[1]
        /\ \A i \in 1..(Len(modelChan) - 1) : modelChan'[i] = modelChan[i + 1]
    BY <1>1
  <1>3. \A i \in DOMAIN modelChan' :
           i \in Int /\ i + 1 \in DOMAIN modelChan /\ 1 < i + 1 /\ modelChan'[i] = modelChan[i + 1]
    BY <1>2
  <1>4. 1 \in DOMAIN modelChan /\ Head(modelChan) \in Queued
    <2>1. 1 \in DOMAIN modelChan
      BY <1>2
    <2>2. modelChan[1] \in Queued
      BY <2>1 DEF Queued
    <2> QED  BY <1>2, <2>1, <2>2
  <1>5. ASSUME NEW i \in DOMAIN modelChan', NEW j \in DOMAIN modelChan', i < j
        PROVE  ~Late(modelChan'[j], modelChan'[i])
    <2>1. i + 1 \in DOMAIN modelChan /\ j + 1 \in DOMAIN modelChan /\ i + 1 < j + 1
      BY <1>3, <1>5
    <2> QED  BY <1>3, <2>1 DEF QueueInv
  <1>6. \A r \in Queued' : r \in Queued /\ ~Late(r, Head(modelChan))
    <2>1. \A i \in DOMAIN modelChan' : ~Late(modelChan'[i], Head(modelChan))
      BY <1>2, <1>3, <1>4 DEF QueueInv
    <2>2. \A i \in DOMAIN modelChan' : modelChan'[i] \in Queued
      BY <1>3 DEF Queued
    <2> QED  BY <2>1, <2>2 DEF Queued
  <1>7. Settled' = Settled
    BY <1>1 DEF Settled
  <1>8. \A r \in Queued', n \in inHand' \union Settled' : ~Late(r, n)
    BY <1>1, <1>6, <1>7 DEF QueueInv
  <1>9. /\ \A r \in inHand', n \in Settled' : ~Late(r, n)
        /\ (recorded \intersect dropped)' = {}
        /\ \A n \in recorded' : n.db \in lookup'
    BY <1>1, <1>4, <1>7 DEF QueueInv
  <1> QED  BY <1>5, <1>8, <1>9 DEF QueueInv

LEMMA SettleQueue ==
  ASSUME FlowInv, QueueInv, Record \/ Drop
  PROVE  QueueInv'
  <1>1. PICK m \in inHand :
           \/ /\ m.db \in lookup /\ recorded' = recorded \union {m} /\ dropped' = dropped
           \/ dropped' = dropped \union {m} /\ recorded' = recorded
    BY DEF Record, Drop
  <1>2. inHand = {m} /\ inHand' = {} /\ modelChan' = modelChan /\ lookup' = lookup
    BY <1>1 DEF Record, Drop, FlowInv, channelVars, mainVars
  <1>3. Queued' = Queued /\ Settled' = Settled \union {m}
    BY <1>1, <1>2 DEF Queued, Settled
  <1>4. m \notin Settled
    BY <1>2 DEF QueueInv, Late
  <1>5. (recorded \intersect dropped)' = {}
    BY <1>1, <1>4 DEF QueueInv, Settled
  <1>6. \A n \in recorded' : n.db \in lookup'
    BY <1>1, <1>2 DEF QueueInv
  <1>7. \A r \in Queued', n \in inHand' \union Settled' : ~Late(r, n)
    BY <1>2, <1>3 DEF QueueInv
  <1> QED  BY <1>2, <1>5, <1>6, <1>7 DEF QueueInv

-----------------------------------------------------------------------------
(* IInv is inductive.                                                      *)

LEMMA OrderInit == Init => ScriptInv /\ QueueInv
  <1> SUFFICES ASSUME Init PROVE ScriptInv /\ QueueInv
    OBVIOUS
  <1>1. /\ \A p \in Producers : pending[p] = << >> /\ outbox[p] = {}
        /\ sent = {} /\ inHand = {} /\ recorded = {} /\ dropped = {} /\ modelChan = << >>
    BY DEF Init
  <1>2. Ordered(<< >>) /\ RowsOf(<< >>) = {} /\ DOMAIN << >> = {}
    BY DEF Ordered, RowsOf
  <1>3. ScriptInv
    BY <1>1, <1>2 DEF ScriptInv, Producers
  <1>4. QueueInv
    BY <1>1, <1>2 DEF QueueInv, Queued, Settled
  <1> QED  BY <1>3, <1>4

LEMMA OrderStep ==
  ASSUME MachineryInv, ScriptInv, QueueInv, [Next]_vars
  PROVE  ScriptInv' /\ QueueInv'
  <1>0. TypeOK /\ PhaseInv /\ FlowInv
    BY DEF MachineryInv
  <1>1. CASE CreateEntities
    <2>1. PICK listed \in SUBSET Databases : CreateEntities!2!(listed)
      BY <1>1 DEF CreateEntities
    <2>2. /\ UNCHANGED <<worker, outbox, sent, modelChan, inHand, recorded, dropped>>
          /\ main = "create" /\ main' # "create"
      BY <1>1, <2>1 DEF CreateEntities, poolVars, channelVars
    <2>3. sent = {} /\ recorded = {} /\ outbox[Main] = {}
      BY <1>0, <2>2 DEF PhaseInv, FlowInv, Settled, ScriptInv
    <2>4. ScriptInv'
      <3>1. CASE pending' = pending
        BY <2>2, <3>1, ScriptsKept
      <3>2. CASE ~OnAzureSQLDatabase /\ pending' # pending
        <4>1. PICK dbNames \in Orderings(listed) :
                pending' = [pending EXCEPT ![Main] = DefaultScript(dbNames)]
          BY <2>1, <3>2
        <4>2. DefaultScript(dbNames) \in Seq(Queries) /\ Ordered(DefaultScript(dbNames))
          BY DefaultScriptOrdered
        <4>3. \A m \in RowsOf(DefaultScript(dbNames)) : Owner(m) = Main
          BY <3>2 DEF Owner
        <4>4. Main \in Producers
          BY DEF Producers
        <4> QED  BY <1>0, <2>2, <2>3, <4>1, <4>2, <4>3, <4>4, ScriptGiven
      <3> QED  BY <2>1, <3>1, <3>2
    <2>5. QueueInv'
      BY <2>2, <2>3, QueueKept
    <2> QED  BY <2>4, <2>5
  <1>2. CASE \E d \in Databases : Connect(d)
    <2>1. PICK d \in Databases : Connect(d)
      BY <1>2
    <2>2. /\ worker[d] = "connect" /\ worker' = [worker EXCEPT ![d] = "produce"]
          /\ pending' = [pending EXCEPT ![d] = AzureScript(d)]
          /\ UNCHANGED <<main, lookup, outbox, sent, modelChan, inHand, recorded, dropped>>
      BY <2>1 DEF Connect, mainVars, channelVars, populatorVars
    <2>3. AzureScript(d) \in Seq(Queries) /\ Ordered(AzureScript(d)) /\ AboutOnly(AzureScript(d), {d})
      BY AzureScriptOrdered
    <2>4. OnAzureSQLDatabase
      BY <1>0, <2>2 DEF PhaseInv
    <2> DEFINE script == AzureScript(d)
    <2> HIDE DEF script
    <2>5. \A m \in RowsOf(script) : Owner(m) = d
      <3>1. ASSUME NEW i \in DOMAIN script, NEW m \in Rows(script[i])
            PROVE  Owner(m) = d
        <4>1. script[i] \in Queries /\ script[i].scope \subseteq {d}
          BY <2>3 DEF script, AboutOnly
        <4>2. m.db = d
          BY <3>1, <4>1, RowShape
        <4> QED  BY <2>4, <4>2 DEF Owner
      <3> QED  BY <3>1 DEF RowsOf
    <2>6. outbox[d] = {} /\ \A m \in sent : Owner(m) # d
      BY <2>2 DEF ScriptInv
    <2>7. \A e \in Databases : worker'[e] \in {"none", "connect"} => worker[e] \in {"none", "connect"}
      BY <1>0, <2>2 DEF TypeOK
    <2>8. d \in Producers
      BY DEF Producers
    <2>9. ScriptInv'
      BY <1>0, <2>2, <2>3, <2>5, <2>6, <2>7, <2>8, ScriptGiven DEF script
    <2> QED  BY <2>2, <2>9, QueueKept
  <1>3. CASE \E p \in Producers : RunQuery(p) \/ DeriveAvailableMemory(p)
    <2>1. PICK p \in Producers : RunQuery(p) \/ DeriveAvailableMemory(p)
      BY <1>3
    <2>2. /\ Producing(p) /\ pending[p] # << >> /\ outbox[p] = {}
          /\ pending' = [pending EXCEPT ![p] = Tail(@)]
          /\ UNCHANGED <<main, lookup, worker, sent, modelChan, inHand, recorded, dropped>>
      BY <2>1 DEF RunQuery, DeriveAvailableMemory, mainVars, poolVars, channelVars, populatorVars
    <2>3. PICK rows \in SUBSET Rows(Head(pending[p])) : outbox' = [outbox EXCEPT ![p] = rows]
      <3>1. CASE RunQuery(p)
        <4>1. AnsweredRows(Head(pending[p])) \subseteq Rows(Head(pending[p]))
          BY DEF AnsweredRows, Rows
        <4>2. PICK rows \in SUBSET AnsweredRows(Head(pending[p])) : outbox' = [outbox EXCEPT ![p] = rows]
          BY <3>1 DEF RunQuery
        <4> QED  BY <4>1, <4>2
      <3>2. CASE DeriveAvailableMemory(p)
        BY <3>2 DEF DeriveAvailableMemory, Rows
      <3> QED  BY <2>1, <3>1, <3>2
    <2>4. ScriptInv'
      BY <1>0, <2>2, <2>3, RowsTaken
    <2> QED  BY <2>2, <2>4, QueueKept
  <1>4. CASE \E p \in Producers : Send(p)
    <2>1. PICK p \in Producers : Send(p)
      BY <1>4
    <2>2. PICK m \in outbox[p] : Send(p)!3!(m)
      BY <2>1 DEF Send
    <2>3. /\ Producing(p)
          /\ UNCHANGED <<main, lookup, worker, pending, inHand, recorded, dropped>>
      BY <2>1 DEF Send, mainVars, poolVars, populatorVars
    <2>4. ScriptInv'
      BY <1>0, <2>2, <2>3, SendScripts
    <2>5. QueueInv'
      BY <1>0, <2>2, <2>3, SendQueue
    <2> QED  BY <2>4, <2>5
  <1>5. CASE Receive \/ Record \/ Drop
    <2>1. UNCHANGED <<pending, outbox, sent, worker, main>>
      BY <1>5 DEF Receive, Record, Drop, producerVars, channelVars, mainVars, poolVars
    <2>2. ScriptInv'
      BY <2>1, ScriptsKept
    <2>3. QueueInv'
      BY <1>0, <1>5, ReceiveQueue, SettleQueue
    <2> QED  BY <2>2, <2>3
  <1>6. CASE \/ CreateEntitiesFails \/ WaitForWorkers \/ DefaultDone \/ CloseModelChan
             \/ WaitForPopulator \/ PopulatorExits \/ UNCHANGED vars
    <2>1. /\ UNCHANGED <<pending, outbox, sent, worker, modelChan, inHand, recorded, dropped, lookup>>
          /\ main' = "create" => main = "create"
      BY <1>6 DEF CreateEntitiesFails, WaitForWorkers, DefaultDone, CloseModelChan, WaitForPopulator,
         PopulatorExits, vars, mainVars, poolVars, producerVars, channelVars, populatorVars
    <2> QED  BY <2>1, ScriptsKept, QueueKept
  <1>7. CASE \E d \in Databases :
               \/ Dispatch(d) \/ ConnectFails(d) \/ WorkerDone(d)
               \/ CloseConnection(d) \/ Release(d) \/ Done(d)
    <2>1. PICK d \in Databases :
               \/ Dispatch(d) \/ ConnectFails(d) \/ WorkerDone(d)
               \/ CloseConnection(d) \/ Release(d) \/ Done(d)
      BY <1>7
    <2>2. UNCHANGED <<main, lookup, pending, outbox, sent, modelChan, inHand, recorded, dropped>>
      BY <2>1 DEF Dispatch, ConnectFails, WorkerDone, CloseConnection, Release, Done,
         mainVars, producerVars, channelVars, populatorVars
    <2>3. \A e \in Databases : worker'[e] \in {"none", "connect"} => worker[e] \in {"none", "connect"}
      <3>1. \/ worker' = [worker EXCEPT ![d] = "connect"] /\ worker[d] = "none"
            \/ \E w \in {"release", "closing", "signal", "exited"} : worker' = [worker EXCEPT ![d] = w]
        BY <1>0, <2>1 DEF Dispatch, ConnectFails, WorkerDone, CloseConnection, Release, Done, PhaseInv
      <3> QED  BY <1>0, <3>1 DEF TypeOK
    <2> QED  BY <2>2, <2>3, ScriptsKept, QueueKept
  <1> QED
    BY <1>1, <1>2, <1>3, <1>4, <1>5, <1>6, <1>7
    DEF Next, MainNext, WorkerNext, PopulatorNext, Produce, Finished, Producers

\* The machinery, the scripts and the queue agree in every reachable state.
THEOREM Invariance == Spec => []IInv
  <1>1. Init => ScriptInv /\ QueueInv
    BY OrderInit
  <1>2. MachineryInv /\ (ScriptInv /\ QueueInv) /\ [Next]_vars => (ScriptInv /\ QueueInv)'
    BY OrderStep
  <1>3. Spec => [](ScriptInv /\ QueueInv)
    BY <1>1, <1>2, MachineryInvariance, PTL DEF Spec
  <1>4. MachineryInv /\ (ScriptInv /\ QueueInv) => IInv
    BY DEF IInv
  <1> QED  BY <1>3, <1>4, MachineryInvariance, PTL

-----------------------------------------------------------------------------
(* The theorems.                                                           *)

\* As many models as the channel is long, when no two of them are the same.
LEMMA QueuedCardinality ==
  ASSUME TypeOK, QueueInv
  PROVE  Cardinality(Queued) = Len(modelChan)
  <1>1. /\ modelChan \in Seq(Models) /\ Len(modelChan) \in Nat
        /\ DOMAIN modelChan = 1..Len(modelChan)
    BY DEF TypeOK
  <1>2. modelChan \in [1..Len(modelChan) -> Queued]
    BY <1>1 DEF Queued
  <1>3. ASSUME NEW i \in 1..Len(modelChan), NEW j \in 1..Len(modelChan), modelChan[i] = modelChan[j]
        PROVE  i = j
    <2>1. ~(i < j) /\ ~(j < i)
      BY <1>1, <1>3 DEF QueueInv, Late
    <2> QED  BY <2>1
  <1>4. modelChan \in Bijection(1..Len(modelChan), Queued)
    BY <1>1, <1>2, <1>3 DEF Bijection, Injection, Surjection, IsInjective, Queued
  <1>5. ExistsBijection(1..Len(modelChan), Queued)
    BY <1>4 DEF ExistsBijection
  <1> QED  BY <1>1, <1>5, FS_CountingElements

\* No model is lost between the channel and the populator's hand, handled
\* twice, or written to a metric set that does not exist.
THEOREM EveryModelHandledOnce == Spec => []HandledOnce
  <1>1. IInv => HandledOnce
    <2> SUFFICES ASSUME IInv PROVE HandledOnce
      OBVIOUS
    <2>1. TypeOK /\ FlowInv /\ QueueInv
      BY DEF IInv, MachineryInv
    <2>2. Cardinality(Queued) = Len(modelChan)
      BY <2>1, QueuedCardinality
    <2>3. Queued \intersect (inHand \union Settled) = {} /\ inHand \intersect Settled = {}
      BY <2>1 DEF QueueInv, Late
    <2> QED  BY <2>1, <2>2, <2>3 DEF FlowInv, QueueInv, HandledOnce
  <1> QED  BY <1>1, Invariance, PTL

\* The derived memory metric of a database is settled after the readings it was
\* computed from, however many workers share the channel.
THEOREM DerivedMetricComesLast == Spec => []AvailableComesLast
  <1>1. IInv => AvailableComesLast
    <2> SUFFICES ASSUME IInv, NEW d \in Databases,
                        [db |-> d, metric |-> "memoryAvailable"] \in Settled,
                        NEW reading \in MemoryInputs
                 PROVE  LET m == [db |-> d, metric |-> reading]
                        IN  m \notin outbox[d] /\ m \notin Queued \union inHand
      BY DEF AvailableComesLast
    <2> DEFINE r == [db |-> d, metric |-> reading]
               m == [db |-> d, metric |-> "memoryAvailable"]
    <2>1. Late(r, m)
      BY DEF Late
    <2>2. m \in Settled /\ m \in sent /\ d \in Producers
      BY DEF IInv, MachineryInv, FlowInv, Producers
    <2> HIDE DEF r, m
    <2>3. r \notin outbox[d]
      BY <2>1, <2>2 DEF IInv, ScriptInv
    <2>4. r \notin Queued \union inHand
      BY <2>1, <2>2 DEF IInv, QueueInv
    <2> QED  BY <2>3, <2>4 DEF r
  <1> QED  BY <1>1, Invariance, PTL
=============================================================================
