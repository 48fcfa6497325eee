---------------------------- MODULE CustomQueryRow ----------------------------
(***************************************************************************)
(* metricsFromCustomQueryRow of src/src/metrics/metrics.go: which metrics  *)
(* one result row of a custom query becomes.  Three column names are       *)
(* special and, together with the definition of the query in the YAML      *)
(* file, give one metric its name, type and value; every other column is a *)
(* metric of its own.                                                      *)
(*                                                                         *)
(* A value is a text, or Null.  Of a text matters whether it is empty,     *)
(* which of the texts it is and whether strconv.ParseFloat accepts it.     *)
(***************************************************************************)
EXTENDS Naturals, Sequences

CONSTANTS
    Null,           \* the NULL of SQL
    Numbers,        \* the texts strconv.ParseFloat accepts
    SourceTypes     \* the texts metric.SourceTypeForName accepts

\* A metric's name is the prefix of its query and the rest of the name: with
\* one prefix per query, equal pairs are equal texts.
Entry(query, name, text, type) ==
    [name |-> <<query.prefix, name>>, value |-> text, type |-> type]

\* A bug this code could have had: a name that is there already is kept.
FirstKept(metrics, entry) ==
    IF entry.name \in {e.name : e \in metrics} THEN metrics ELSE metrics \union {entry}

\* Assignment to a map.
Put(metrics, entry) == {e \in metrics : e.name # entry.name} \union {entry}

extractValue(value) == IF value = Null THEN "" ELSE value

DetectMetricType(text) == IF text \in Numbers THEN "gauge" ELSE "attribute"

NoMetrics == {}

\* What is known before the first column and after one more.
Unscanned(query) ==
    [name |-> query.name, type |-> query.type, value |-> "", metrics |-> NoMetrics]

ScanColumn(known, query, column, text) ==
    CASE column = "metric_name" -> [known EXCEPT !.name = text]
      [] column = "metric_type" -> [known EXCEPT !.type = text]
      [] column = "metric_value" -> [known EXCEPT !.value = text]
      [] OTHER -> [known EXCEPT !.metrics =
                       Put(@, Entry(query, column, text, DetectMetricType(text)))]

\* The loop, from left to right.
Scanned(row, columns, query) ==
    LET after[i \in 0..Len(columns)] ==
            IF i = 0 THEN Unscanned(query)
            ELSE ScanColumn(after[i - 1], query, columns[i], extractValue(row[i]))
    IN  after[Len(columns)]

\* metricFromTargetColumns: the error, and whether there is a metric at all.
TargetFails(known) ==
    \/ known.value = "" /\ known.name # ""
    \/ known.value # "" /\ known.name = ""
    \/ known.value # "" /\ known.type \notin SourceTypes \union {""}

TargetType(known) ==
    IF known.type = "" THEN DetectMetricType(known.value) ELSE known.type

\* The map, none of it when the target columns are at odds.
metricsFromCustomQueryRow(row, columns, query) ==
    LET known == Scanned(row, columns, query)
    IN  IF TargetFails(known) THEN NoMetrics
        ELSE IF known.value = "" THEN known.metrics
        ELSE Put(known.metrics, Entry(query, known.name, known.value, TargetType(known)))

-----------------------------------------------------------------------------
(* The same without a loop, as README.md:45-73 and the comment above the   *)
(* function describe it.                                                   *)

Columns(columns, name) == {i \in DOMAIN columns : columns[i] = name}

Special == {"metric_name", "metric_type", "metric_value"}

\* The rightmost column of a name wins, over the YAML file in any case, even
\* with a NULL.
Wins(i, columns) == \A j \in Columns(columns, columns[i]) : j <= i

Chosen(row, columns, name, default) ==
    IF Columns(columns, name) = {} THEN default
    ELSE LET i == CHOOSE i \in Columns(columns, name) : Wins(i, columns)
         IN  extractValue(row[i])

OtherColumns(row, columns, query) ==
    {Entry(query, columns[i], extractValue(row[i]), DetectMetricType(extractValue(row[i]))) :
        i \in {j \in DOMAIN columns : columns[j] \notin Special /\ Wins(j, columns)}}

Described(row, columns, query) ==
    LET name == Chosen(row, columns, "metric_name", query.name)
        type == Chosen(row, columns, "metric_type", query.type)
        value == Chosen(row, columns, "metric_value", "")
        others == OtherColumns(row, columns, query)
    IN  CASE name = "" /\ value = "" -> others
          [] name # "" /\ value # "" /\ type \in SourceTypes \union {""} ->
                LET metric == Entry(query, name, value,
                                    IF type # "" THEN type
                                    ELSE IF value \in Numbers THEN "gauge" ELSE "attribute")
                IN  {metric} \union {o \in others : o.name # metric.name}
          [] OTHER -> {}
=============================================================================
