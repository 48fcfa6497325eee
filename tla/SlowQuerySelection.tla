-------------------------- MODULE SlowQuerySelection --------------------------
(***************************************************************************)
(* Which slow queries are reported when historical information is disabled *)
(* (BindQueryResultsWithoutHistoricalInformation in                        *)
(* src/src/queryanalysis/utils/utils.go): the rows of the DMV query are    *)
(* offered one by one to a min-heap that keeps the slowest ones, the heap  *)
(* is drained into a slice sorted slowest first, and the slice is walked   *)
(* for queries of user databases until enough are found.                   *)
(*                                                                         *)
(* A row is its identity, its average elapsed time and whether             *)
(* IsSystemDatabase says its database is a system one (a NULL database     *)
(* name included).  Averages are naturals; the code's are floats that are  *)
(* only ever compared.                                                     *)
(***************************************************************************)
EXTENDS QueryAnalysisConfig, Sequences, FiniteSets

CONSTANTS
    Rows,                  \* the rows the slow query statement can return
    Averages,              \* average elapsed times they can have
    CountThresholds,       \* --query_monitoring_count_threshold, as given
    TimeThresholds,        \* --query_monitoring_response_time_threshold
    FallbackFactor,        \* how much larger the candidate pool is: 5
    FallbackDefault,       \* the pool when the count is 0: 50
    FallbackCap            \* the largest pool: 100

ASSUME RowsAssumption == IsFiniteSet(Rows)
ASSUME AveragesAssumption == Averages \subseteq Nat
ASSUME ThresholdsAssumption == CountThresholds \subseteq Int /\ TimeThresholds \subseteq Int
ASSUME FallbackAssumption == {FallbackFactor, FallbackDefault, FallbackCap} \subseteq Nat \ {0}

\* expandedThreshold: the size of the pool system queries are filtered from.
Expanded(limit) ==
    AtMost(FallbackCap, IF limit = 0 THEN FallbackDefault ELSE FallbackFactor * limit)

VARIABLES
    avg,          \* the average elapsed time of each row
    system,       \* the rows of system databases
    count, time,  \* the thresholds after ValidateAndSetDefaults
    pc,           \* "offer", "drain", "filter" or "done"
    offered,      \* rows scanned so far
    heap,         \* the min-heap, as the set of its rows
    candidates,   \* the drained heap, slowest first
    next,         \* the index FilterSystemDatabasesWithFallback examines next
    final         \* the queries that will be reported

input == <<avg, system, count, time>>
vars == <<input, pc, offered, heap, candidates, next, final>>

Limit == Expanded(count)

\* A bug this code could have had: the walk is bounded by the count, where the
\* size of the pool belongs.  Not used.
LookupOnlyCount ==
    AtMost(Len(candidates), IF count = 0 THEN Len(candidates) ELSE count)

\* FilterSystemDatabasesWithFallback's bounds.
TargetCount == IF count = 0 THEN Len(candidates) ELSE count
MaxLookup == AtMost(Len(candidates), Limit)

\* A bug this code could have had: Less the wrong way round.  Not used.
IsSlowest(q) == q \in heap /\ \A r \in heap : avg[q] >= avg[r]

\* (*h)[0]: which of several equally fast rows it is depends on the layout.
IsFastest(q) == q \in heap /\ \A r \in heap : avg[q] <= avg[r]

TypeOK ==
    /\ avg \in [Rows -> Averages]
    /\ system \subseteq Rows
    /\ count \in Nat
    /\ time \in Nat
    /\ pc \in {"offer", "drain", "filter", "done"}
    /\ offered \subseteq Rows
    /\ heap \subseteq offered
    /\ candidates \in Seq(Rows)
    /\ next \in Nat \ {0}
    /\ final \in Seq(Rows)

Init ==
    /\ avg \in [Rows -> Averages]
    /\ system \in SUBSET Rows
    /\ count \in {ValidCount(c) : c \in CountThresholds}
    /\ time \in {ValidTime(t) : t \in TimeThresholds}
    /\ pc = "offer"
    /\ offered = {}
    /\ heap = {}
    /\ candidates = << >>
    /\ next = 1
    /\ final = << >>

-----------------------------------------------------------------------------
(* FilterSlowQueriesByThresholdHeap.                                       *)

\* Faster than the response time threshold: not a slow query.
OfferTooFast(q) ==
    /\ pc = "offer"
    /\ q \in Rows \ offered
    /\ avg[q] < time
    /\ offered' = offered \union {q}
    /\ UNCHANGED <<input, pc, heap, candidates, next, final>>

\* Room in the heap.
OfferPush(q) ==
    /\ pc = "offer"
    /\ q \in Rows \ offered
    /\ avg[q] >= time
    /\ Cardinality(heap) < Limit
    /\ offered' = offered \union {q}
    /\ heap' = heap \union {q}
    /\ UNCHANGED <<input, pc, candidates, next, final>>

\* A full heap gives up its fastest row for a slower one.
OfferReplace(q) ==
    /\ pc = "offer"
    /\ q \in Rows \ offered
    /\ avg[q] >= time
    /\ Cardinality(heap) >= Limit
    /\ \E fastest \in heap :
         /\ IsFastest(fastest)
         /\ avg[q] > avg[fastest]
         /\ heap' = (heap \ {fastest}) \union {q}
    /\ offered' = offered \union {q}
    /\ UNCHANGED <<input, pc, candidates, next, final>>

\* A full heap keeps what it has.
OfferSkip(q) ==
    /\ pc = "offer"
    /\ q \in Rows \ offered
    /\ avg[q] >= time
    /\ Cardinality(heap) >= Limit
    /\ \E fastest \in heap : IsFastest(fastest) /\ avg[q] <= avg[fastest]
    /\ offered' = offered \union {q}
    /\ UNCHANGED <<input, pc, heap, candidates, next, final>>

\* The result set ends; rows that could not be scanned were never offered.
EndOfRows ==
    /\ pc = "offer"
    /\ pc' = "drain"
    /\ UNCHANGED <<input, offered, heap, candidates, next, final>>

\* A bug this code could have had: the popped rows in the order of the pops.
DrainForwards ==
    /\ pc = "drain"
    /\ \E q \in heap :
         /\ IsFastest(q)
         /\ heap' = heap \ {q}
         /\ candidates' = Append(candidates, q)
    /\ UNCHANGED <<input, pc, offered, next, final>>

\* result[i] = heap.Pop(h), from the last index down.
Drain ==
    /\ pc = "drain"
    /\ \E q \in heap :
         /\ IsFastest(q)
         /\ heap' = heap \ {q}
         /\ candidates' = <<q>> \o candidates
    /\ UNCHANGED <<input, pc, offered, next, final>>

Drained ==
    /\ pc = "drain"
    /\ heap = {}
    /\ pc' = "filter"
    /\ UNCHANGED <<input, offered, heap, candidates, next, final>>

-----------------------------------------------------------------------------
(* FilterSystemDatabasesWithFallback.                                      *)

\* A bug this code could have had: the walk goes on after enough were found.
SearchingOn == next <= MaxLookup

Searching == next <= MaxLookup /\ Len(final) < TargetCount

Examine ==
    /\ pc = "filter"
    /\ Searching
    /\ final' = IF candidates[next] \in system THEN final
                                               ELSE Append(final, candidates[next])
    /\ next' = next + 1
    /\ UNCHANGED <<input, pc, offered, heap, candidates>>

StopSearching ==
    /\ pc = "filter"
    /\ ~Searching
    /\ pc' = "done"
    /\ UNCHANGED <<input, offered, heap, candidates, next, final>>

Finished == pc = "done" /\ UNCHANGED vars

Offer(q) == OfferTooFast(q) \/ OfferPush(q) \/ OfferReplace(q) \/ OfferSkip(q)

Step ==
    \/ \E q \in Rows : Offer(q)
    \/ EndOfRows \/ Drain \/ Drained \/ Examine \/ StopSearching

Next == Step \/ Finished

Spec == Init /\ [][Next]_vars

-----------------------------------------------------------------------------
(* Properties.                                                             *)

Slow == {q \in offered : avg[q] >= time}

Listed(s) == {s[i] : i \in DOMAIN s}

\* While rows come in, the heap holds as many slow rows as it may and no row
\* it turned away or gave up is slower than one it kept, in whatever order
\* the rows came and however ties were broken.
HeapHoldsSlowest ==
    pc = "offer" =>
        /\ heap \subseteq Slow
        /\ Cardinality(heap) <= Limit
        /\ heap # Slow => Cardinality(heap) = Limit
        /\ \A q \in heap, r \in Slow \ heap : avg[r] <= avg[q]

\* The drained slice is sorted slowest first and nothing left in the heap is
\* faster than anything drained: the walk that follows depends on it.
CandidatesSorted ==
    /\ \A i, j \in DOMAIN candidates : i < j => avg[candidates[i]] >= avg[candidates[j]]
    /\ pc = "drain" => \A i \in DOMAIN candidates, q \in heap : avg[q] >= avg[candidates[i]]

\* What is reported is slow, belongs to user databases, is within the count,
\* and no user query left out is slower than a reported one: neither the heap,
\* which competes user rows with system rows, nor the early end of the walk
\* may lose one.
ReportedAreSlowest ==
    pc = "done" =>
        /\ Listed(final) \subseteq Slow \ system
        /\ count # 0 => Len(final) <= count
        /\ \A q \in Listed(final), r \in Slow \ (system \union Listed(final)) :
             avg[r] <= avg[q]

\* The inductive invariant behind ReportedAreSlowest: the pool, in the heap or
\* drained, dominates every slow row outside it, and the walk has reported
\* exactly the user queries of the prefix it went over.
Pool == heap \union Listed(candidates)

PoolInv ==
    /\ pc = "offer" => candidates = << >>
    /\ pc \in {"filter", "done"} => heap = {}
    /\ Pool \subseteq Slow
    /\ \A q \in Pool, r \in Slow \ Pool : avg[r] <= avg[q]

WalkInv ==
    /\ pc \in {"offer", "drain"} => next = 1 /\ final = << >>
    /\ next <= Len(candidates) + 1
    /\ Listed(final) = {candidates[i] : i \in 1..(next - 1)} \ system
    /\ Len(final) <= TargetCount

SelectionInv ==
    TypeOK /\ HeapHoldsSlowest /\ CandidatesSorted /\ PoolInv /\ WalkInv

\* Nothing is reported twice, and fewer than the count are reported only when
\* the whole pool was searched.
PoolExhausted ==
    pc = "done" =>
        /\ Cardinality(Listed(final)) = Len(final)
        /\ Len(final) < TargetCount => Listed(final) = Listed(candidates) \ system
        /\ Cardinality(Listed(candidates)) =
               AtMost(Limit, Cardinality(Slow))

\* What PoolExhausted rests on besides: no row is twice in the heap and the
\* slice, the pool is as large as it may be, and the walk ends only for one of
\* its two reasons.
Distinct(s) == \A i, j \in DOMAIN s : s[i] = s[j] => i = j

DistinctInv ==
    /\ Distinct(candidates)
    /\ heap \cap Listed(candidates) = {}
    /\ Distinct(final)

FullPoolInv ==
    /\ Cardinality(Pool) <= Limit
    /\ Pool # Slow => Cardinality(Pool) = Limit
    /\ pc = "done" => ~Searching

IInv == SelectionInv /\ DistinctInv /\ FullPoolInv

\* utils.go:320 says of the larger pool: "This ensures we get user database
\* queries even if top results are system queries".
UserQueryReported ==
    pc = "done" /\ Slow \ system # {} => final # << >>
=============================================================================
