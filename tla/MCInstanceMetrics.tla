-------------------------- MODULE MCInstanceMetrics --------------------------
(* InstanceMetrics on a small instance: two YAML queries, one with many      *)
(* results, and the query of the command line.                               *)
EXTENDS InstanceMetrics

CONSTANTS y1, y2    \* the YAML queries

PlainDefinition == [prefix |-> "", name |-> "", type |-> ""]

\* y1 names its metric and gives its type, y2 has only a prefix.
Definitions ==
    [q \in CustomQueries |->
        CASE q = y1 -> [prefix |-> "", name |-> "dbCount", type |-> "gauge"]
          [] q = y2 -> [prefix |-> "job_", name |-> "", type |-> ""]
          [] OTHER -> PlainDefinition]

\* The three special columns alone, together and in every order that matters;
\* the same name twice; a column called like the metric of the YAML file.
Results ==
    [q \in CustomQueries |->
        CASE q = y1 -> {<<"metric_value">>,
                        <<"metric_value", "dbCount">>,
                        <<"metric_name", "metric_value">>}
          [] q = y2 -> {<<"state">>}
          [] OTHER -> {<<"metric_value", "metric_type", "metric_name">>,
                       <<"metric_name", "metric_value", "state">>,
                       <<"state", "metric_type", "state">>}]

ColumnValues ==
    [metric_name |-> {Null, "dbCount"},
     metric_type |-> {"gauge", "attribute", "size"},
     metric_value |-> {Null, "42", "idle"},
     state |-> {Null, "7"},
     dbCount |-> {"7"}]

TextsOfNumbers == {"42", "7"}
TypeNames == {"gauge", "attribute", "rate", "delta"}

AnsweringQueries == {"memoryTotal", "activeConnections"}
=============================================================================
