-------------------------- MODULE MetricCollection --------------------------
(***************************************************************************)
(* What PopulateDatabaseMetrics (src/src/metrics/metrics.go) promises its  *)
(* caller, with none of the machinery that delivers it: while it runs,     *)
(* models (result rows) are submitted and each one is settled, that is     *)
(* written to its database's metric set or knowingly given up.  The call   *)
(* returns only when nothing submitted is still unsettled, and what it     *)
(* returned with never changes afterwards: mssql.go publishes the entities *)
(* right after.  An error return happens only before any model exists.     *)
(***************************************************************************)

CONSTANT Models        \* the result rows a collection may produce

VARIABLES submitted,   \* models handed over for recording so far
          settled,     \* those recorded or given up
          outcome      \* "open" while the call runs

vars == <<submitted, settled, outcome>>

TypeOK ==
    /\ submitted \subseteq Models
    /\ settled \subseteq submitted
    /\ outcome \in {"open", "returned", "error"}

Init ==
    /\ submitted = {}
    /\ settled = {}
    /\ outcome = "open"

Submit(m) ==
    /\ outcome = "open"
    /\ submitted' = submitted \union {m}
    /\ UNCHANGED <<settled, outcome>>

Settle(m) ==
    /\ outcome = "open"
    /\ m \in submitted \ settled
    /\ settled' = settled \union {m}
    /\ UNCHANGED <<submitted, outcome>>

Return ==
    /\ outcome = "open"
    /\ settled = submitted
    /\ outcome' = "returned"
    /\ UNCHANGED <<submitted, settled>>

Fail ==
    /\ outcome = "open"
    /\ submitted = {}
    /\ outcome' = "error"
    /\ UNCHANGED <<submitted, settled>>

SettleSome == \E m \in Models : Settle(m)

Next ==
    \/ \E m \in Models : Submit(m)
    \/ SettleSome
    \/ Return
    \/ Fail

\* A submitted model does not wait for ever, and the call ends.
Spec == Init /\ [][Next]_vars /\ WF_vars(SettleSome) /\ <>(outcome # "open")
=============================================================================
