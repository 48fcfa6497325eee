----------------------- MODULE SlowQuerySelectionProofs -----------------------
(***************************************************************************)
(* Theorems of SlowQuerySelection, for every set of rows, all thresholds   *)
(* and every pool size.  The heap dominates what it turned away; draining  *)
(* it moves the pool into a sorted slice without changing it; so a user    *)
(* query that is not reported is either outside the pool or further down   *)
(* the slice than every reported one.                                      *)
(***************************************************************************)
EXTENDS SlowQuerySelection, FiniteSetTheorems, TLAPS

LEMMA AverageOrder ==
  ASSUME TypeOK
  PROVE  \A q \in Rows : avg[q] \in Int
  <1>1. ASSUME NEW q \in Rows
        PROVE  avg[q] \in Averages
    BY DEF TypeOK
  <1>2. ASSUME NEW a \in Averages
        PROVE  a \in Int
    <2>1. a \in Nat
      BY AveragesAssumption
    <2> QED  BY <2>1
  <1> QED  BY <1>1, <1>2

LEMMA HeapFinite ==
  ASSUME TypeOK
  PROVE  IsFiniteSet(heap) /\ Cardinality(heap) \in Nat
  BY RowsAssumption, FS_Subset, FS_CardinalityType DEF TypeOK

LEMMA LimitType ==
  ASSUME TypeOK
  PROVE  Limit \in Nat
  <1>1. \A m, n \in Nat : m * n \in Nat
    OBVIOUS
  <1>2. FallbackFactor * count \in Nat
    BY <1>1, FallbackAssumption DEF TypeOK
  <1> QED
    BY <1>2, FallbackAssumption DEF Limit, Expanded, AtMost

(* What a slice lists after one more row at its front or at its end.       *)

LEMMA ListedFront ==
  ASSUME NEW s \in Seq(Rows), NEW q \in Rows
  PROVE  /\ <<q>> \o s \in Seq(Rows)
         /\ Len(<<q>> \o s) = Len(s) + 1
         /\ (<<q>> \o s)[1] = q
         /\ \A i \in 1..Len(s) : (<<q>> \o s)[i + 1] = s[i]
         /\ Listed(<<q>> \o s) = Listed(s) \union {q}
  <1> DEFINE t == <<q>> \o s
  <1>1. /\ t \in Seq(Rows)
        /\ Len(t) = Len(s) + 1
        /\ Len(s) \in Nat
        /\ DOMAIN s = 1..Len(s)
        /\ DOMAIN t = 1..(Len(s) + 1)
        /\ t[1] = q
        /\ \A i \in 1..(Len(s) + 1) : i # 1 => t[i] = s[i - 1]
    OBVIOUS
  <1> HIDE DEF t
  <1>2. \A i \in 1..Len(s) : i + 1 \in 1..(Len(s) + 1) /\ i + 1 # 1 /\ (i + 1) - 1 = i
    BY <1>1
  <1>3. \A i \in 1..Len(s) : t[i + 1] = s[i]
    BY <1>1, <1>2
  <1>4. Listed(t) \subseteq Listed(s) \union {q}
    <2>1. ASSUME NEW i \in DOMAIN t
          PROVE  t[i] \in Listed(s) \union {q}
      <3>1. CASE i = 1
        BY <1>1, <3>1
      <3>2. CASE i # 1
        <4>1. i - 1 \in DOMAIN s /\ t[i] = s[i - 1]
          BY <1>1, <3>2
        <4> QED  BY <4>1 DEF Listed
      <3> QED  BY <3>1, <3>2
    <2> QED  BY <2>1 DEF Listed
  <1>5. Listed(s) \union {q} \subseteq Listed(t)
    <2>1. q \in Listed(t)
      <3>1. 1 \in DOMAIN t
        BY <1>1
      <3> QED  BY <1>1, <3>1 DEF Listed
    <2>2. ASSUME NEW i \in DOMAIN s
          PROVE  s[i] \in Listed(t)
      <3>1. i + 1 \in DOMAIN t /\ t[i + 1] = s[i]
        BY <1>1, <1>2, <1>3
      <3> QED  BY <3>1 DEF Listed
    <2> QED  BY <2>1, <2>2 DEF Listed
  <1> QED  BY <1>1, <1>3, <1>4, <1>5 DEF t

LEMMA ListedAppend ==
  ASSUME NEW s \in Seq(Rows), NEW q \in Rows
  PROVE  /\ Append(s, q) \in Seq(Rows)
         /\ Len(Append(s, q)) = Len(s) + 1
         /\ Listed(Append(s, q)) = Listed(s) \union {q}
  <1>1. /\ Append(s, q) \in Seq(Rows)
        /\ Len(Append(s, q)) = Len(s) + 1
        /\ Len(s) \in Nat
        /\ DOMAIN s = 1..Len(s)
        /\ DOMAIN Append(s, q) = 1..(Len(s) + 1)
        /\ \A i \in 1..Len(s) : Append(s, q)[i] = s[i]
        /\ Append(s, q)[Len(s) + 1] = q
    OBVIOUS
  <1> QED  BY <1>1 DEF Listed

-----------------------------------------------------------------------------
LEMMA InitInv == Init => SelectionInv
  <1> SUFFICES ASSUME Init PROVE SelectionInv
    OBVIOUS
  <1>1. count \in Nat
    BY ThresholdsAssumption
    DEF Init, ValidCount, SlowQueryCountThresholdDefault, GroupedQueryCountMax
  <1>2. time \in Nat
    BY ThresholdsAssumption DEF Init, ValidTime, QueryResponseTimeThresholdDefault
  <1>3. TypeOK
    BY <1>1, <1>2 DEF Init, TypeOK
  <1>4. Slow = {} /\ Listed(candidates) = {} /\ Listed(final) = {}
    BY DEF Init, Slow, Listed
  <1>5. HeapHoldsSlowest
    BY <1>3, <1>4, LimitType, FS_EmptySet DEF Init, HeapHoldsSlowest
  <1>6. CandidatesSorted
    BY DEF Init, CandidatesSorted
  <1>7. PoolInv
    BY <1>4 DEF Init, PoolInv, Pool
  <1>8. WalkInv
    BY <1>1, <1>4 DEF Init, WalkInv, TargetCount
  <1> QED  BY <1>3, <1>5, <1>6, <1>7, <1>8 DEF SelectionInv

\* Offering a row leaves the slice and the walk alone.
LEMMA OfferInv ==
  ASSUME SelectionInv, NEW q \in Rows, Offer(q)
  PROVE  SelectionInv'
  <1> USE DEF SelectionInv
  <1>1. /\ pc = "offer" /\ pc' = pc /\ q \in Rows \ offered /\ offered' = offered \union {q}
        /\ input' = input /\ candidates' = candidates /\ next' = next /\ final' = final
    BY DEF Offer, OfferTooFast, OfferPush, OfferReplace, OfferSkip
  <1>2. /\ candidates = << >> /\ Listed(candidates) = {} /\ Pool = heap /\ Pool' = heap'
        /\ Limit' = Limit
    BY <1>1 DEF PoolInv, Pool, Listed, Limit, input
  <1>3. heap \subseteq Slow /\ q \notin heap /\ \A r \in Rows : avg[r] \in Int
    BY <1>1, AverageOrder DEF HeapHoldsSlowest, Slow
  <1>4. /\ avg[q] < time => Slow' = Slow
        /\ avg[q] >= time => Slow' = Slow \union {q}
    BY <1>1, <1>3 DEF Slow, input, TypeOK
  <1>5. /\ heap' \subseteq Slow'
        /\ Cardinality(heap') <= Limit
        /\ heap' # Slow' => Cardinality(heap') = Limit
        /\ \A x \in heap', r \in Slow' \ heap' : avg[r] <= avg[x]
    <2>1. CASE OfferTooFast(q)
      BY <1>1, <1>4, <2>1 DEF OfferTooFast, HeapHoldsSlowest
    <2>2. CASE OfferPush(q)
      <3>1. heap = Slow
        <4>1. Cardinality(heap) # Limit
          BY <2>2, HeapFinite, LimitType DEF OfferPush
        <4> QED  BY <1>1, <4>1 DEF HeapHoldsSlowest
      <3>2. heap' = Slow'
        BY <1>4, <2>2, <3>1 DEF OfferPush
      <3>3. Cardinality(heap') = Cardinality(heap) + 1
        BY <1>3, <2>2, HeapFinite, FS_AddElement DEF OfferPush
      <3>4. Cardinality(heap') <= Limit
        BY <2>2, <3>3, HeapFinite, LimitType DEF OfferPush
      <3> QED  BY <3>2, <3>4
    <2>3. CASE OfferReplace(q)
      <3>1. PICK fastest \in heap :
              /\ IsFastest(fastest)
              /\ avg[q] > avg[fastest]
              /\ heap' = (heap \ {fastest}) \union {q}
        BY <2>3 DEF OfferReplace
      <3>2. IsFiniteSet(heap \ {fastest}) /\ Cardinality(heap \ {fastest}) = Cardinality(heap) - 1
        BY HeapFinite, FS_RemoveElement
      <3>3. q \notin heap \ {fastest}
        BY <1>3
      <3>4. Cardinality(heap') = Cardinality(heap)
        <4>1. Cardinality((heap \ {fastest}) \union {q}) = Cardinality(heap \ {fastest}) + 1
          BY <3>2, <3>3, FS_AddElement
        <4>2. Cardinality(heap') = Cardinality(heap) - 1 + 1
          BY <3>1, <3>2, <4>1
        <4> QED  BY <4>2, HeapFinite
      <3>5. Cardinality(heap') = Limit
        BY <1>1, <2>3, <3>4, HeapFinite, LimitType DEF OfferReplace, HeapHoldsSlowest
      <3>6. heap' \subseteq Slow'
        BY <1>3, <1>4, <2>3, <3>1 DEF OfferReplace
      <3>7. ASSUME NEW x \in heap', NEW r \in Slow' \ heap'
            PROVE  avg[r] <= avg[x]
        <4>1. r \in Slow /\ (r = fastest \/ r \notin heap)
          BY <1>4, <2>3, <3>1 DEF OfferReplace
        <4>2. avg[r] <= avg[fastest]
          BY <1>1, <1>3, <3>1, <4>1 DEF HeapHoldsSlowest, IsFastest, Slow, TypeOK
        <4>3. avg[fastest] <= avg[x]
          BY <1>3, <3>1 DEF IsFastest, Slow, TypeOK
        <4>4. r \in Rows /\ x \in Rows /\ fastest \in Rows
          BY <1>3, <3>1, <4>1 DEF Slow, TypeOK
        <4> QED  BY <1>3, <4>2, <4>3, <4>4
      <3> QED  BY <3>5, <3>6, <3>7, LimitType
    <2>4. CASE OfferSkip(q)
      <3>1. PICK fastest \in heap : IsFastest(fastest) /\ avg[q] <= avg[fastest]
        BY <2>4 DEF OfferSkip
      <3>2. heap' = heap /\ Slow' = Slow \union {q} /\ Cardinality(heap) = Limit
        BY <1>1, <1>4, <2>4, HeapFinite, LimitType DEF OfferSkip, HeapHoldsSlowest
      <3>3. ASSUME NEW x \in heap
            PROVE  avg[q] <= avg[x]
        <4>1. avg[fastest] <= avg[x] /\ x \in Rows /\ fastest \in Rows
          BY <3>1 DEF IsFastest, TypeOK
        <4> QED  BY <1>3, <3>1, <4>1
      <3>4. \A x \in heap, r \in Slow \ heap : avg[r] <= avg[x]
        BY <1>1 DEF HeapHoldsSlowest
      <3> QED  BY <1>3, <3>2, <3>3, <3>4, LimitType
    <2> QED  BY <2>1, <2>2, <2>3, <2>4 DEF Offer
  <1>6. avg' = avg
    BY <1>1 DEF input
  <1>7. TypeOK'
    BY <1>1, <1>5 DEF TypeOK, input, Slow
  <1>8. HeapHoldsSlowest'
    BY <1>2, <1>5, <1>6 DEF HeapHoldsSlowest
  <1>9. CandidatesSorted'
    BY <1>1, <1>2 DEF CandidatesSorted
  <1>10. PoolInv'
    BY <1>1, <1>2, <1>5, <1>6 DEF PoolInv
  <1>11. WalkInv'
    BY <1>1 DEF WalkInv, TargetCount, Listed, input
  <1> QED  BY <1>7, <1>8, <1>9, <1>10, <1>11

\* Popping the fastest row to the front of the slice keeps pool and order.
LEMMA DrainInv ==
  ASSUME SelectionInv, Drain
  PROVE  SelectionInv'
  <1> USE DEF SelectionInv
  <1>1. PICK q \in heap :
          /\ IsFastest(q)
          /\ heap' = heap \ {q}
          /\ candidates' = <<q>> \o candidates
    BY DEF Drain
  <1>2. /\ pc = "drain" /\ pc' = pc /\ input' = input /\ offered' = offered
        /\ next' = next /\ final' = final
    BY DEF Drain
  <1>3. q \in Rows /\ candidates \in Seq(Rows) /\ Len(candidates) \in Nat
        /\ \A r \in Rows : avg[r] \in Int
    BY <1>1, AverageOrder DEF TypeOK
  <1>4. /\ candidates' \in Seq(Rows)
        /\ Len(candidates') = Len(candidates) + 1
        /\ candidates'[1] = q
        /\ \A i \in 1..Len(candidates) : candidates'[i + 1] = candidates[i]
        /\ Listed(candidates') = Listed(candidates) \union {q}
    BY <1>1, <1>3, ListedFront
  <1>5. Pool' = Pool /\ Slow' = Slow /\ avg' = avg
    BY <1>1, <1>2, <1>4 DEF Pool, Slow, input, Listed
  <1>6. \A i \in DOMAIN candidates : avg[q] <= avg[candidates[i]] \/ avg[q] >= avg[candidates[i]]
    BY <1>3
  <1>7. TypeOK'
    BY <1>1, <1>2, <1>4 DEF TypeOK, input
  <1>8. HeapHoldsSlowest'
    BY <1>2 DEF HeapHoldsSlowest
  <1>9. CandidatesSorted'
    <2>1. DOMAIN candidates' = 1..(Len(candidates) + 1) /\ DOMAIN candidates = 1..Len(candidates)
      BY <1>3, <1>4
    <2>2. ASSUME NEW i \in DOMAIN candidates'
          PROVE  i = 1 \/ (i - 1 \in DOMAIN candidates /\ candidates'[i] = candidates[i - 1])
      <3>1. i = 1 \/ (i - 1 \in 1..Len(candidates) /\ (i - 1) + 1 = i)
        BY <1>3, <2>1
      <3> QED  BY <1>4, <2>1, <3>1
    <2>3. ASSUME NEW i \in DOMAIN candidates', NEW j \in DOMAIN candidates', i < j
          PROVE  avg[candidates'[i]] >= avg[candidates'[j]]
      <3>1. i \in Int /\ j \in Int /\ j # 1
        BY <2>1, <2>3
      <3>2. j - 1 \in DOMAIN candidates /\ candidates'[j] = candidates[j - 1]
        BY <2>2, <3>1
      <3>3. CASE i = 1
        BY <1>1, <1>2, <1>3, <1>4, <3>2, <3>3 DEF CandidatesSorted
      <3>4. CASE i # 1
        <4>1. i - 1 \in DOMAIN candidates /\ candidates'[i] = candidates[i - 1] /\ i - 1 < j - 1
          BY <2>2, <2>3, <3>1, <3>4
        <4> QED  BY <3>2, <4>1 DEF CandidatesSorted
      <3> QED  BY <3>3, <3>4
    <2>4. ASSUME NEW i \in DOMAIN candidates', NEW x \in heap'
          PROVE  avg[x] >= avg[candidates'[i]]
      <3>1. x \in heap /\ x \in Rows
        BY <1>1 DEF TypeOK
      <3>2. CASE i = 1
        BY <1>1, <1>3, <1>4, <3>1, <3>2 DEF IsFastest
      <3>3. CASE i # 1
        BY <1>2, <2>2, <3>1, <3>3 DEF CandidatesSorted
      <3> QED  BY <3>2, <3>3
    <2> QED  BY <1>5, <2>3, <2>4 DEF CandidatesSorted
  <1>10. PoolInv'
    BY <1>2, <1>5 DEF PoolInv
  <1>11. WalkInv'
    BY <1>2, <1>3, <1>4 DEF WalkInv, TargetCount, Listed, input, TypeOK
  <1> QED  BY <1>7, <1>8, <1>9, <1>10, <1>11

\* One step of the walk reports the candidate under examination or skips it.
LEMMA ExamineInv ==
  ASSUME SelectionInv, Examine
  PROVE  SelectionInv'
  <1> USE DEF SelectionInv
  <1>1. /\ pc = "filter" /\ pc' = pc /\ input' = input /\ offered' = offered
        /\ heap' = heap /\ candidates' = candidates /\ next' = next + 1
        /\ Searching
    BY DEF Examine
  <1>2. next \in 1..Len(candidates) /\ Len(candidates) \in Nat /\ next \in Nat
        /\ DOMAIN candidates = 1..Len(candidates)
    BY <1>1, LimitType DEF Searching, MaxLookup, AtMost, TypeOK
  <1>3. candidates[next] \in Rows
    BY <1>2 DEF TypeOK
  <1>4. /\ final' \in Seq(Rows)
        /\ Listed(final') = Listed(final) \union ({candidates[next]} \ system)
        /\ Len(final') <= TargetCount
    <2>1. Len(final) \in Nat /\ TargetCount \in Nat /\ Len(final) < TargetCount
      BY <1>1, <1>2 DEF Searching, TargetCount, TypeOK
    <2>2. CASE candidates[next] \in system
      BY <2>1, <2>2 DEF Examine, TypeOK
    <2>3. CASE candidates[next] \notin system
      <3>1. final' = Append(final, candidates[next])
        BY <2>3 DEF Examine
      <3>2. /\ final' \in Seq(Rows)
            /\ Len(final') = Len(final) + 1
            /\ Listed(final') = Listed(final) \union {candidates[next]}
        BY <1>3, <3>1, ListedAppend DEF TypeOK
      <3> QED  BY <2>1, <2>3, <3>2
    <2> QED  BY <2>2, <2>3
  <1>5. {candidates[i] : i \in 1..next} = {candidates[i] : i \in 1..(next - 1)} \union {candidates[next]}
    <2>1. 1..next = 1..(next - 1) \union {next}
      BY <1>2
    <2> QED  BY <2>1
  <1>6. TypeOK'
    BY <1>1, <1>2, <1>4 DEF TypeOK, input
  <1>7. HeapHoldsSlowest'
    BY <1>1 DEF HeapHoldsSlowest
  <1>8. CandidatesSorted'
    BY <1>1 DEF CandidatesSorted, input
  <1>9. PoolInv'
    BY <1>1 DEF PoolInv, Pool, Listed, Slow, input
  <1>10. WalkInv'
    <2>1. Listed(final') = {candidates[i] : i \in 1..next} \ system
      BY <1>4, <1>5 DEF WalkInv
    <2>2. next' - 1 = next /\ next' <= Len(candidates) + 1
      BY <1>1, <1>2
    <2>3. Listed(final') = {candidates'[i] : i \in 1..(next' - 1)} \ system'
      BY <1>1, <2>1, <2>2 DEF input
    <2>4. Len(final') <= TargetCount' /\ next' <= Len(candidates') + 1
      BY <1>1, <1>4, <2>2 DEF TargetCount, input
    <2>5. Listed(final)' = Listed(final')
      BY DEF Listed
    <2> QED  BY <1>1, <2>3, <2>4, <2>5 DEF WalkInv
  <1> QED  BY <1>6, <1>7, <1>8, <1>9, <1>10

LEMMA NextInv == SelectionInv /\ [Next]_vars => SelectionInv'
  <1> SUFFICES ASSUME SelectionInv, [Next]_vars PROVE SelectionInv'
    OBVIOUS
  <1>1. ASSUME NEW q \in Rows, Offer(q) PROVE SelectionInv'
    BY <1>1, OfferInv
  <1>2. CASE Drain
    BY <1>2, DrainInv
  <1>3. CASE Examine
    BY <1>3, ExamineInv
  <1>4. CASE EndOfRows \/ Drained \/ StopSearching \/ UNCHANGED vars
    <2>1. /\ input' = input /\ offered' = offered /\ heap' = heap
          /\ candidates' = candidates /\ next' = next /\ final' = final
      BY <1>4 DEF EndOfRows, Drained, StopSearching, vars
    <2>2. \/ pc = "offer" /\ pc' = "drain"
          \/ pc = "drain" /\ pc' = "filter" /\ heap = {}
          \/ pc = "filter" /\ pc' = "done"
          \/ pc' = pc
      BY <1>4 DEF EndOfRows, Drained, StopSearching, vars
    <2>3. TypeOK'
      BY <2>1, <2>2 DEF SelectionInv, TypeOK, input
    <2>4. HeapHoldsSlowest'
      BY <2>1, <2>2 DEF SelectionInv, HeapHoldsSlowest, Slow, Limit, input
    <2>5. CandidatesSorted'
      BY <2>1, <2>2 DEF SelectionInv, CandidatesSorted, PoolInv, input
    <2>6. PoolInv'
      BY <2>1, <2>2 DEF SelectionInv, PoolInv, Pool, Listed, Slow, input
    <2>7. WalkInv'
      BY <2>1, <2>2 DEF SelectionInv, WalkInv, TargetCount, Listed, input
    <2> QED  BY <2>3, <2>4, <2>5, <2>6, <2>7 DEF SelectionInv
  <1> QED  BY <1>1, <1>2, <1>3, <1>4 DEF Next, Step, Finished

\* SelectionInv holds in every reachable state.
THEOREM SelectionInvariance == Spec => []SelectionInv
  BY InitInv, NextInv, PTL DEF Spec

-----------------------------------------------------------------------------
(* The theorems.                                                           *)

\* The heap always holds the slowest rows seen, as many as the pool may have.
THEOREM HeapCorrect == Spec => []HeapHoldsSlowest
  <1>1. SelectionInv => HeapHoldsSlowest
    BY DEF SelectionInv
  <1> QED  BY <1>1, SelectionInvariance, PTL

\* The reported queries are the slowest queries of user databases, within the
\* count: no user query left out is slower than one that is reported.
THEOREM SelectionCorrect == Spec => []ReportedAreSlowest
  <1>1. ASSUME SelectionInv, pc = "done"
        PROVE  /\ Listed(final) \subseteq Slow \ system
               /\ count # 0 => Len(final) <= count
               /\ \A q \in Listed(final), r \in Slow \ (system \union Listed(final)) :
                    avg[r] <= avg[q]
    <2>1. /\ heap = {} /\ Pool = Listed(candidates) /\ Pool \subseteq Slow
          /\ next \in Nat \ {0} /\ Len(candidates) \in Nat /\ next <= Len(candidates) + 1
          /\ DOMAIN candidates = 1..Len(candidates)
          /\ Listed(final) = {candidates[i] : i \in 1..(next - 1)} \ system
      BY <1>1 DEF SelectionInv, PoolInv, Pool, WalkInv, TypeOK
    <2>2. \A i \in 1..(next - 1) : i \in DOMAIN candidates /\ i \in Int
      BY <2>1
    <2>3. Listed(final) \subseteq Slow \ system
      BY <2>1, <2>2 DEF Listed
    <2>4. count # 0 => Len(final) <= count
      BY <1>1 DEF SelectionInv, WalkInv, TargetCount
    <2>5. ASSUME NEW q \in Listed(final), NEW r \in Slow \ (system \union Listed(final))
          PROVE  avg[r] <= avg[q]
      <3>1. PICK i \in 1..(next - 1) : q = candidates[i]
        BY <2>1
      <3>2. i \in DOMAIN candidates /\ q \in Pool
        BY <2>1, <2>2, <3>1 DEF Listed
      <3>3. CASE r \notin Pool
        BY <1>1, <3>2, <3>3 DEF SelectionInv, PoolInv
      <3>4. CASE r \in Pool
        <4>1. PICK j \in DOMAIN candidates : r = candidates[j]
          BY <2>1, <3>4 DEF Listed
        <4>2. j \notin 1..(next - 1)
          BY <2>1, <4>1
        <4>3. i < j
          BY <2>1, <2>2, <4>1, <4>2
        <4>4. avg[candidates[i]] >= avg[candidates[j]]
          BY <1>1, <3>2, <4>1, <4>3 DEF SelectionInv, CandidatesSorted
        <4>5. q \in Rows /\ r \in Rows
          BY <1>1, <2>3 DEF SelectionInv, TypeOK, Slow
        <4> QED  BY <1>1, <3>1, <4>1, <4>4, <4>5, AverageOrder DEF SelectionInv
      <3> QED  BY <3>3, <3>4
    <2> QED  BY <2>3, <2>4, <2>5
  <1>2. SelectionInv => ReportedAreSlowest
    BY <1>1 DEF ReportedAreSlowest
  <1> QED  BY <1>2, SelectionInvariance, PTL

-----------------------------------------------------------------------------
(* Nothing is reported twice, and the walk ends early only when enough was *)
(* found.                                                                  *)

LEMMA DistinctFront ==
  ASSUME NEW s \in Seq(Rows), Distinct(s), NEW q \in Rows \ Listed(s)
  PROVE  Distinct(<<q>> \o s)
  <1> DEFINE t == <<q>> \o s
  <1>1. /\ t \in Seq(Rows) /\ Len(t) = Len(s) + 1 /\ t[1] = q /\ Len(s) \in Nat
        /\ \A i \in 1..Len(s) : t[i + 1] = s[i]
    BY ListedFront
  <1>2. DOMAIN s = 1..Len(s) /\ DOMAIN t = 1..(Len(s) + 1)
    BY <1>1
  <1> HIDE DEF t
  <1>3. ASSUME NEW i \in DOMAIN t, i # 1
        PROVE  i - 1 \in DOMAIN s /\ t[i] = s[i - 1] /\ i \in Int
    <2>1. i \in Int /\ i - 1 \in 1..Len(s) /\ (i - 1) + 1 = i
      BY <1>1, <1>2, <1>3
    <2> QED  BY <1>1, <1>2, <2>1
  <1>4. \A i \in DOMAIN t : i # 1 => t[i] # q
    BY <1>3 DEF Listed
  <1>5. ASSUME NEW i \in DOMAIN t, NEW j \in DOMAIN t, t[i] = t[j]
        PROVE  i = j
    <2>1. CASE i = 1 \/ j = 1
      BY <1>1, <1>4, <1>5, <2>1
    <2>2. CASE i # 1 /\ j # 1
      <3>1. i - 1 = j - 1 /\ i \in Int /\ j \in Int
        BY <1>3, <1>5, <2>2 DEF Distinct
      <3> QED  BY <3>1
    <2> QED  BY <2>1, <2>2
  <1>6. Distinct(t)
    BY <1>5 DEF Distinct
  <1> QED  BY <1>6 DEF t

LEMMA DistinctAppend ==
  ASSUME NEW s \in Seq(Rows), Distinct(s), NEW q \in Rows \ Listed(s)
  PROVE  Distinct(Append(s, q))
  <1>1. /\ Len(s) \in Nat
        /\ DOMAIN s = 1..Len(s)
        /\ DOMAIN Append(s, q) = 1..(Len(s) + 1)
        /\ \A i \in 1..Len(s) : Append(s, q)[i] = s[i]
        /\ Append(s, q)[Len(s) + 1] = q
    OBVIOUS
  <1>2. ASSUME NEW i \in DOMAIN Append(s, q), NEW j \in DOMAIN Append(s, q),
               Append(s, q)[i] = Append(s, q)[j]
        PROVE  i = j
    <2>1. /\ i = Len(s) + 1 \/ i \in DOMAIN s
          /\ j = Len(s) + 1 \/ j \in DOMAIN s
      BY <1>1
    <2>2. \A k \in DOMAIN s : s[k] # q
      BY DEF Listed
    <2> QED  BY <1>1, <1>2, <2>1, <2>2 DEF Distinct
  <1> QED  BY <1>2 DEF Distinct

LEMMA DistinctCardinality ==
  ASSUME NEW s \in Seq(Rows), Distinct(s)
  PROVE  Cardinality(Listed(s)) = Len(s)
  <1>1. Len(s) \in Nat /\ DOMAIN s = 1..Len(s)
    OBVIOUS
  <1>2. s \in [1..Len(s) -> Listed(s)]
    BY <1>1 DEF Listed
  <1>3. s \in Bijection(1..Len(s), Listed(s))
    BY <1>1, <1>2 DEF Bijection, Injection, Surjection, IsInjective, Listed, Distinct
  <1>4. ExistsBijection(1..Len(s), Listed(s))
    BY <1>3 DEF ExistsBijection
  <1> QED  BY <1>1, <1>4, FS_CountingElements

LEMMA PoolFinite ==
  ASSUME SelectionInv
  PROVE  /\ IsFiniteSet(Slow) /\ Cardinality(Slow) \in Nat
         /\ IsFiniteSet(Pool) /\ Cardinality(Pool) \in Nat
         /\ Cardinality(Pool) <= Cardinality(Slow)
  <1>1. Slow \in SUBSET Rows /\ Pool \in SUBSET Slow
    BY DEF SelectionInv, TypeOK, PoolInv, Slow
  <1>2. IsFiniteSet(Slow)
    BY <1>1, RowsAssumption, FS_Subset
  <1>3. IsFiniteSet(Pool) /\ Cardinality(Pool) <= Cardinality(Slow)
    BY <1>1, <1>2, FS_Subset
  <1> QED  BY <1>2, <1>3, FS_CardinalityType

\* A candidate under examination is not among those the walk went over.
LEMMA ExaminedIsNew ==
  ASSUME SelectionInv, DistinctInv, Examine
  PROVE  candidates[next] \in Rows \ Listed(final)
  <1>1. /\ next \in 1..Len(candidates) /\ Len(candidates) \in Nat /\ next \in Nat
        /\ DOMAIN candidates = 1..Len(candidates)
    BY LimitType DEF SelectionInv, Examine, Searching, MaxLookup, AtMost, TypeOK
  <1>2. candidates[next] \in Rows
    BY <1>1 DEF SelectionInv, TypeOK
  <1>3. \A i \in 1..(next - 1) : i \in DOMAIN candidates /\ i # next
    BY <1>1
  <1>4. candidates[next] \notin {candidates[i] : i \in 1..(next - 1)}
    BY <1>1, <1>3 DEF DistinctInv, Distinct
  <1> QED  BY <1>2, <1>4 DEF SelectionInv, WalkInv

LEMMA InitExhausted == Init => DistinctInv /\ FullPoolInv
  <1> SUFFICES ASSUME Init PROVE DistinctInv /\ FullPoolInv
    OBVIOUS
  <1>1. TypeOK
    BY InitInv DEF SelectionInv
  <1>2. Slow = {} /\ Pool = {} /\ Cardinality(Pool) = 0
    <2>1. Slow = {} /\ Pool = {}
      BY DEF Init, Slow, Pool, Listed
    <2> QED  BY <2>1, FS_EmptySet
  <1>3. Limit \in Nat
    BY <1>1, LimitType
  <1>4. DistinctInv
    BY DEF Init, DistinctInv, Distinct
  <1>5. FullPoolInv
    BY <1>2, <1>3 DEF Init, FullPoolInv
  <1> QED  BY <1>4, <1>5

LEMMA DistinctStep == SelectionInv /\ DistinctInv /\ [Next]_vars => DistinctInv'
  <1> SUFFICES ASSUME SelectionInv, DistinctInv, [Next]_vars PROVE DistinctInv'
    OBVIOUS
  <1>1. ASSUME NEW q \in Rows, Offer(q) PROVE DistinctInv'
    <2>1. pc = "offer" /\ candidates' = candidates /\ final' = final
      BY <1>1 DEF Offer, OfferTooFast, OfferPush, OfferReplace, OfferSkip
    <2>2. Listed(candidates) = {}
      BY <2>1 DEF SelectionInv, PoolInv, Listed
    <2> QED  BY <2>1, <2>2 DEF DistinctInv, Distinct, Listed
  <1>2. CASE Drain
    <2>1. PICK q \in heap : heap' = heap \ {q} /\ candidates' = <<q>> \o candidates
      BY <1>2 DEF Drain
    <2>2. /\ q \in Rows \ Listed(candidates) /\ candidates \in Seq(Rows)
          /\ Distinct(candidates) /\ final' = final
      BY <1>2, <2>1 DEF Drain, SelectionInv, TypeOK, DistinctInv
    <2>3. Distinct(<<q>> \o candidates)
      BY <2>2, DistinctFront
    <2>4. Listed(<<q>> \o candidates) = Listed(candidates) \union {q}
      BY <2>2, ListedFront
    <2>5. Listed(candidates)' = Listed(candidates) \union {q}
      BY <2>1, <2>4 DEF Listed
    <2>6. Distinct(candidates)'
      BY <2>1, <2>3 DEF Distinct
    <2>7. Distinct(final)'
      BY <2>2 DEF DistinctInv, Distinct
    <2> QED  BY <2>1, <2>5, <2>6, <2>7 DEF DistinctInv
  <1>3. CASE Examine
    <2>1. heap' = heap /\ candidates' = candidates
      BY <1>3 DEF Examine
    <2>2. Distinct(final)'
      <3>1. CASE candidates[next] \in system
        BY <1>3, <3>1 DEF Examine, DistinctInv, Distinct
      <3>2. CASE candidates[next] \notin system
        <4>1. final' = Append(final, candidates[next]) /\ final \in Seq(Rows) /\ Distinct(final)
          BY <1>3, <3>2 DEF Examine, SelectionInv, TypeOK, DistinctInv
        <4>2. Distinct(Append(final, candidates[next]))
          BY <1>3, <4>1, ExaminedIsNew, DistinctAppend
        <4> QED  BY <4>1, <4>2 DEF Distinct
      <3> QED  BY <3>1, <3>2
    <2> QED  BY <2>1, <2>2 DEF DistinctInv, Distinct, Listed
  <1>4. CASE EndOfRows \/ Drained \/ StopSearching \/ UNCHANGED vars
    <2>1. heap' = heap /\ candidates' = candidates /\ final' = final
      BY <1>4 DEF EndOfRows, Drained, StopSearching, vars
    <2> QED  BY <2>1 DEF DistinctInv, Distinct, Listed
  <1> QED  BY <1>1, <1>2, <1>3, <1>4 DEF Next, Step, Finished

\* After the rows have come in, the pool and the slow rows stay what they are.
LEMMA FullPoolStep ==
  SelectionInv /\ SelectionInv' /\ FullPoolInv /\ [Next]_vars => FullPoolInv'
  <1> SUFFICES ASSUME SelectionInv, SelectionInv', FullPoolInv, [Next]_vars
               PROVE  FullPoolInv'
    OBVIOUS
  <1>1. ASSUME NEW q \in Rows, Offer(q) PROVE FullPoolInv'
    <2>1. pc' = "offer" /\ candidates' = candidates /\ candidates = << >>
      BY <1>1 DEF Offer, OfferTooFast, OfferPush, OfferReplace, OfferSkip,
                  SelectionInv, PoolInv
    <2>2. Pool' = heap'
      BY <2>1 DEF Pool, Listed
    <2> QED  BY <2>1, <2>2 DEF FullPoolInv, SelectionInv, HeapHoldsSlowest
  <1>2. CASE Drain
    <2>1. PICK q \in heap : heap' = heap \ {q} /\ candidates' = <<q>> \o candidates
      BY <1>2 DEF Drain
    <2>2. q \in Rows /\ candidates \in Seq(Rows)
      BY <2>1 DEF SelectionInv, TypeOK
    <2>3. Listed(<<q>> \o candidates) = Listed(candidates) \union {q}
      BY <2>2, ListedFront
    <2>4. Pool' = Pool
      BY <2>1, <2>3 DEF Pool, Listed
    <2>5. pc' = "drain" /\ input' = input /\ offered' = offered
      BY <1>2 DEF Drain
    <2>6. Slow' = Slow /\ Limit' = Limit
      BY <2>5 DEF Slow, Limit, input
    <2> QED  BY <2>4, <2>5, <2>6 DEF FullPoolInv
  <1>3. CASE Examine \/ EndOfRows \/ Drained \/ StopSearching \/ UNCHANGED vars
    <2>1. input' = input /\ offered' = offered /\ heap' = heap /\ candidates' = candidates
      BY <1>3 DEF Examine, EndOfRows, Drained, StopSearching, vars
    <2>2. Pool' = Pool /\ Slow' = Slow /\ Limit' = Limit
      BY <2>1 DEF Pool, Listed, Slow, Limit, input
    <2>3. ASSUME pc' = "done" PROVE ~Searching'
      <3>1. CASE StopSearching
        BY <3>1 DEF StopSearching, Searching, MaxLookup, TargetCount, Limit, input
      <3>2. CASE UNCHANGED vars
        BY <2>3, <3>2
        DEF FullPoolInv, vars, Searching, MaxLookup, TargetCount, Limit, input
      <3> QED  BY <1>3, <2>3, <3>1, <3>2 DEF Examine, EndOfRows, Drained
    <2> QED  BY <2>2, <2>3 DEF FullPoolInv
  <1> QED  BY <1>1, <1>2, <1>3 DEF Next, Step, Finished

\* The whole invariant.
THEOREM Invariance == Spec => []IInv
  <1>1. IInv /\ [Next]_vars => IInv'
    BY NextInv, DistinctStep, FullPoolStep DEF IInv
  <1>2. Init => IInv
    BY InitInv, InitExhausted DEF IInv
  <1> QED  BY <1>1, <1>2, PTL DEF Spec

\* Every reported query is reported once, the pool is as large as it may be,
\* and fewer than the count are reported only when all of it was searched.
THEOREM PoolIsExhausted == Spec => []PoolExhausted
  <1>1. ASSUME IInv, pc = "done"
        PROVE  /\ Cardinality(Listed(final)) = Len(final)
               /\ Len(final) < TargetCount => Listed(final) = Listed(candidates) \ system
               /\ Cardinality(Listed(candidates)) = AtMost(Limit, Cardinality(Slow))
    <2> USE DEF IInv
    <2>1. /\ candidates \in Seq(Rows) /\ final \in Seq(Rows) /\ next \in Nat \ {0}
          /\ Len(candidates) \in Nat /\ DOMAIN candidates = 1..Len(candidates)
          /\ Limit \in Nat /\ Pool = Listed(candidates)
      BY <1>1, LimitType DEF SelectionInv, TypeOK, PoolInv, Pool
    <2>2. Cardinality(Listed(final)) = Len(final)
      BY <1>1, <2>1, DistinctCardinality DEF DistinctInv
    <2>3. Cardinality(Pool) = Len(candidates)
      BY <1>1, <2>1, DistinctCardinality DEF DistinctInv
    <2>4. Cardinality(Pool) = AtMost(Limit, Cardinality(Slow))
      <3>1. /\ Cardinality(Slow) \in Nat /\ Cardinality(Pool) \in Nat
            /\ Cardinality(Pool) <= Cardinality(Slow)
        BY <1>1, PoolFinite
      <3> QED  BY <1>1, <2>1, <3>1 DEF FullPoolInv, AtMost
    <2>5. ASSUME Len(final) < TargetCount
          PROVE  Listed(final) = Listed(candidates) \ system
      <3>1. ~(next <= MaxLookup)
        BY <1>1, <2>5 DEF FullPoolInv, Searching
      <3>2. MaxLookup = Len(candidates)
        <4>1. Len(candidates) <= Limit
          BY <1>1, <2>3 DEF FullPoolInv
        <4>2. \A m, n \in Nat : m <= n => AtMost(m, n) = m
          BY DEF AtMost
        <4>3. Len(candidates) \in Nat /\ Limit \in Nat
          BY <2>1
        <4> QED  BY <4>1, <4>2, <4>3 DEF MaxLookup
      <3>3. next - 1 = Len(candidates)
        BY <1>1, <2>1, <3>1, <3>2 DEF SelectionInv, WalkInv
      <3> QED  BY <1>1, <2>1, <3>3 DEF SelectionInv, WalkInv, Listed
    <2> QED  BY <2>1, <2>2, <2>4, <2>5
  <1>2. IInv => PoolExhausted
    BY <1>1 DEF PoolExhausted
  <1> QED  BY <1>2, Invariance, PTL

\* QueryMonitoring counts the reported slow queries instead of selecting them
\* and gives them this limit: the count, or the pool when there is none, and
\* never more than there are slow queries.
THEOREM SelectionLimit ==
  Spec => [](pc = "done" =>
               /\ Len(final) <= Cardinality(Slow)
               /\ Len(final) <= IF count = 0 THEN Expanded(0) ELSE count)
  <1>1. ASSUME IInv, pc = "done"
        PROVE  /\ Len(final) <= Cardinality(Slow)
               /\ Len(final) <= IF count = 0 THEN Expanded(0) ELSE count
    <2>1. /\ final \in Seq(Rows) /\ candidates \in Seq(Rows) /\ heap = {}
          /\ Pool = Listed(candidates) /\ Listed(final) \subseteq Pool
          /\ Len(final) \in Nat /\ Len(candidates) \in Nat
      <3>1. /\ final \in Seq(Rows) /\ candidates \in Seq(Rows) /\ heap = {}
            /\ next \in Nat /\ next <= Len(candidates) + 1
            /\ Listed(final) = {candidates[i] : i \in 1..(next - 1)} \ system
        BY <1>1 DEF IInv, SelectionInv, TypeOK, PoolInv, WalkInv
      <3>2. Len(candidates) \in Nat /\ DOMAIN candidates = 1..Len(candidates)
        BY <3>1
      <3>3. 1..(next - 1) \subseteq DOMAIN candidates
        BY <3>1, <3>2
      <3>4. Pool = Listed(candidates)
        BY <3>1 DEF Pool
      <3>5. Listed(final) \subseteq Listed(candidates)
        <4>1. \A i \in 1..(next - 1) : candidates[i] \in Listed(candidates)
          BY <3>3 DEF Listed
        <4> QED  BY <3>1, <4>1
      <3>6. Len(final) \in Nat
        BY <3>1
      <3> QED  BY <3>1, <3>2, <3>4, <3>5, <3>6
    <2>2. Len(final) <= Cardinality(Slow)
      <3>1. Cardinality(Listed(final)) = Len(final)
        BY <1>1, <2>1, DistinctCardinality DEF IInv, DistinctInv
      <3>2. Listed(final) \in SUBSET Slow /\ IsFiniteSet(Slow)
        BY <1>1, <2>1, PoolFinite DEF IInv, SelectionInv, PoolInv
      <3>3. Cardinality(Listed(final)) <= Cardinality(Slow)
        BY <3>2, FS_Subset
      <3> QED  BY <3>1, <3>3
    <2>3. Len(final) <= TargetCount
      BY <1>1 DEF IInv, SelectionInv, WalkInv
    <2>4. CASE count = 0
      <3>1. Cardinality(Pool) = Len(candidates)
        BY <1>1, <2>1, DistinctCardinality DEF IInv, DistinctInv
      <3>2. Len(candidates) <= Limit /\ Limit = Expanded(0) /\ Limit \in Nat
        BY <1>1, <2>4, <3>1, LimitType DEF IInv, SelectionInv, FullPoolInv, Limit
      <3>3. Len(final) <= Len(candidates)
        BY <2>3, <2>4 DEF TargetCount
      <3> QED  BY <2>1, <2>2, <2>4, <3>2, <3>3
    <2>5. CASE count # 0
      BY <2>2, <2>3, <2>5 DEF TargetCount
    <2> QED  BY <2>4, <2>5
  <1>2. IInv => (pc = "done" =>
                   /\ Len(final) <= Cardinality(Slow)
                   /\ Len(final) <= IF count = 0 THEN Expanded(0) ELSE count)
    BY <1>1
  <1> QED  BY <1>2, Invariance, PTL
=============================================================================
