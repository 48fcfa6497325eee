-------------------------- MODULE MCDatabaseMetrics --------------------------
(* DatabaseMetrics on small instances. *)
EXTENDS DatabaseMetrics

\* MarshalMetrics rejects one metric, whatever the database.
RejectedModels == {m \in Models : m.metric = "log.transactionGrowth"}

\* One database reports its memory, one its transactions; the connection to
\* any other works but its queries return nothing.
OneOf(S) == CHOOSE d \in S : TRUE

WorkersAnswer ==
    LET d == OneOf(Databases) IN
    [db : {d}, metric : {"memoryUtilization", "memoryTotal", "memoryAvailable"}]
      \union [db : {OneOf(Databases \ {d})}, metric : {"log.transactionGrowth"}]

\* A standard server answers every query of the default processor.
ServerAnswers ==
    [db : Databases,
     metric : {"log.transactionGrowth", "io.stallInMilliseconds",
               "bufferpool.sizePerDatabaseInBytes", "pageFile"}]
=============================================================================
