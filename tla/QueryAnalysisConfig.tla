------------------------- MODULE QueryAnalysisConfig -------------------------
(***************************************************************************)
(* The limits of src/src/queryanalysis/config/query_config.go and what     *)
(* ValidateAndSetDefaults makes of the two thresholds a user can set.      *)
(***************************************************************************)
EXTENDS Integers

QueryResponseTimeThresholdDefault == 1
SlowQueryCountThresholdDefault == 20
IndividualQueryCountMax == 10
GroupedQueryCountMax == 30

\* ValidateAndSetDefaults: zero is accepted and later means "no limit".
ValidCount(count) ==
    IF count < 0 THEN SlowQueryCountThresholdDefault
    ELSE IF count >= GroupedQueryCountMax THEN GroupedQueryCountMax
    ELSE count

ValidTime(time) == IF time < 0 THEN QueryResponseTimeThresholdDefault ELSE time

AtMost(bound, n) == IF n > bound THEN bound ELSE n
=============================================================================
