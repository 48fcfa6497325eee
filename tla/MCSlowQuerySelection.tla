------------------------- MODULE MCSlowQuerySelection -------------------------
(* SlowQuerySelection on small instances. *)
EXTENDS SlowQuerySelection, TLC

Symmetry == Permutations(Rows)

\* Below zero, "no limit", one, and two queries.
Counts == {-1, 0, 1, 2}

\* Below zero (the default of 1) and the three positions relative to Averages.
Times == {-1, 0, 2}

\* The smallest limits.
OneQuery == {1}

OneTime == {1}
=============================================================================
