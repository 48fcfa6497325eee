------------------------- MODULE CustomQueryRowProofs -------------------------
(***************************************************************************)
(* The loop over the columns of a row, for rows of any length: whatever    *)
(* the order of the columns, repeated names and NULLs, it gives the        *)
(* metrics that Described gives without a loop.                            *)
(***************************************************************************)
EXTENDS CustomQueryRow, Integers, FiniteSetTheorems, TLAPS

-----------------------------------------------------------------------------
(* Induction.  The library's induction theorems take a predicate as an     *)
(* operator; this one takes a set.  If n were missing from it, adding one  *)
(* would map the members up to n one-to-one into those members but zero,   *)
(* a smaller finite set.                                                   *)

LEMMA SetInduction ==
  ASSUME NEW S, 0 \in S, \A n \in Nat : n \in S => n + 1 \in S
  PROVE  Nat \subseteq S
  <1> SUFFICES ASSUME NEW n \in Nat, n \notin S PROVE FALSE
    OBVIOUS
  <1> DEFINE A == S \intersect (0..n)
             next == [i \in A |-> i + 1]
  <1>1. IsFiniteSet(A) /\ 0 \in A
    <2>1. IsFiniteSet(0..n)
      BY FS_Interval
    <2>2. A \in SUBSET (0..n) /\ 0 \in A
      OBVIOUS
    <2> QED  BY <2>1, <2>2, FS_Subset
  <1>2. next \in [A -> A \ {0}]
    OBVIOUS
  <1>3. \A i, j \in A : next[i] = next[j] => i = j
    OBVIOUS
  <1> HIDE DEF A, next
  <1>4. IsFiniteSet(A \ {0}) /\ Cardinality(A \ {0}) < Cardinality(A)
    <2>1. Cardinality(A) \in Nat
      BY <1>1, FS_CardinalityType
    <2>2. IsFiniteSet(A \ {0}) /\ Cardinality(A \ {0}) = Cardinality(A) - 1
      BY <1>1, FS_RemoveElement
    <2> QED  BY <2>1, <2>2
  <1>5. \E i, j \in A : i # j /\ next[i] = next[j]
    BY <1>1, <1>2, <1>4, FS_PigeonHole
  <1> QED  BY <1>3, <1>5

-----------------------------------------------------------------------------
(* The recursive function exists: it does for lists of any length.         *)

LEMMA ScannedUnfolds ==
  ASSUME NEW columns, Len(columns) \in Nat, NEW row, NEW query
  PROVE  \E after :
           /\ after = [i \in 0..Len(columns) |->
                         IF i = 0 THEN Unscanned(query)
                         ELSE ScanColumn(after[i - 1], query, columns[i], extractValue(row[i]))]
           /\ Scanned(row, columns, query) = after[Len(columns)]
  <1> DEFINE step(known, i) == ScanColumn(known, query, columns[i], extractValue(row[i]))
             IsScan(f, n) == f = [i \in 0..n |-> IF i = 0 THEN Unscanned(query)
                                                 ELSE step(f[i - 1], i)]
             S == {n \in Nat : \E f : IsScan(f, n)}
  <1>1. 0 \in S
    <2>1. IsScan([i \in 0..0 |-> Unscanned(query)], 0)
      OBVIOUS
    <2> QED  BY <2>1
  <1>2. ASSUME NEW n \in Nat, n \in S
        PROVE  n + 1 \in S
    <2>1. PICK f : IsScan(f, n)
      BY <1>2
    <2> DEFINE g == [i \in 0..(n + 1) |-> IF i <= n THEN f[i] ELSE step(f[n], i)]
    <2> HIDE DEF step
    <2>2. IsScan(g, n + 1)
      <3>1. \A i \in 0..n : f[i] = IF i = 0 THEN Unscanned(query) ELSE step(f[i - 1], i)
        BY <2>1
      <3>2. /\ \A i \in 0..n : g[i] = f[i]
            /\ g[n + 1] = step(f[n], n + 1)
        OBVIOUS
      <3>3. ASSUME NEW i \in 0..(n + 1)
            PROVE  g[i] = IF i = 0 THEN Unscanned(query) ELSE step(g[i - 1], i)
        <4>1. CASE i = n + 1
          <5>1. i # 0 /\ i - 1 = n /\ n \in 0..n
            BY <4>1
          <5> HIDE DEF g
          <5> QED  BY <3>2, <4>1, <5>1
        <4>2. CASE i \in 0..n /\ i # 0
          <5>1. i - 1 \in 0..n
            BY <4>2
          <5> HIDE DEF g
          <5> QED  BY <3>1, <3>2, <4>2, <5>1
        <4>3. CASE i = 0
          <5>1. 0 \in 0..n
            OBVIOUS
          <5> HIDE DEF g
          <5> QED  BY <3>1, <3>2, <4>3, <5>1
        <4> QED  BY <4>1, <4>2, <4>3
      <3>4. g = [i \in 0..(n + 1) |-> g[i]]
        OBVIOUS
      <3> HIDE DEF g
      <3> QED  BY <3>3, <3>4
    <2> HIDE DEF g, IsScan
    <2> QED  BY <2>2
  <1> HIDE DEF S
  <1>3. Nat \subseteq S
    BY <1>1, <1>2, SetInduction
  <1>4. \E f : IsScan(f, Len(columns))
    BY <1>3 DEF S
  <1> QED  BY <1>4 DEF Scanned

-----------------------------------------------------------------------------
(* After a number of columns the loop knows what Described says of these.  *)

Prefix(columns, n) == [i \in 1..n |-> columns[i]]

Summary(row, columns, query) ==
    [name |-> Chosen(row, columns, "metric_name", query.name),
     type |-> Chosen(row, columns, "metric_type", query.type),
     value |-> Chosen(row, columns, "metric_value", ""),
     metrics |-> OtherColumns(row, columns, query)]

\* A name that occurs has a rightmost column.
Rightmost(columns) ==
    \A i \in DOMAIN columns : \E w \in Columns(columns, columns[i]) : Wins(w, columns)

LEMMA PrefixFacts ==
  ASSUME NEW columns, NEW n \in Nat
  PROVE  LET c == columns[n + 1]
             old == Prefix(columns, n)
             new == Prefix(columns, n + 1)
         IN  /\ DOMAIN old = 1..n /\ DOMAIN new = (1..n) \union {n + 1} /\ n + 1 \notin 1..n
             /\ \A i \in 1..n : new[i] = old[i]
             /\ new[n + 1] = c
             /\ \A name : Columns(new, name) =
                   Columns(old, name) \union (IF c = name THEN {n + 1} ELSE {})
             /\ Wins(n + 1, new)
             /\ \A i \in 1..n : Wins(i, new) <=> old[i] # c /\ Wins(i, old)
  <1> DEFINE c == columns[n + 1]
             old == Prefix(columns, n)
             new == Prefix(columns, n + 1)
  <1>1. /\ DOMAIN old = 1..n /\ DOMAIN new = (1..n) \union {n + 1} /\ n + 1 \notin 1..n
        /\ \A i \in 1..n : new[i] = old[i]
        /\ new[n + 1] = c
    BY DEF Prefix
  <1> HIDE DEF c, old, new
  <1>2. \A name : Columns(new, name) = Columns(old, name) \union (IF c = name THEN {n + 1} ELSE {})
    <2> SUFFICES ASSUME NEW name
                 PROVE  Columns(new, name) = Columns(old, name) \union (IF c = name THEN {n + 1} ELSE {})
      OBVIOUS
    <2>1. CASE c = name
      BY <1>1, <2>1 DEF Columns
    <2>2. CASE c # name
      BY <1>1, <2>2 DEF Columns
    <2> QED  BY <2>1, <2>2
  <1>3. Wins(n + 1, new)
    <2>1. \A j \in DOMAIN new : j <= n + 1
      BY <1>1
    <2> QED  BY <2>1 DEF Wins, Columns
  <1>4. ASSUME NEW i \in 1..n
        PROVE  Wins(i, new) <=> old[i] # c /\ Wins(i, old)
    <2>1. new[i] = old[i] /\ ~(n + 1 <= i)
      BY <1>1
    <2>2. CASE old[i] = c
      <3>1. n + 1 \in Columns(new, new[i])
        BY <1>2, <2>1, <2>2
      <3> QED  BY <2>1, <2>2, <3>1 DEF Wins
    <2>3. CASE old[i] # c
      <3>1. Columns(new, new[i]) = Columns(old, old[i])
        BY <1>2, <2>1, <2>3
      <3> QED  BY <2>3, <3>1 DEF Wins
    <2> QED  BY <2>2, <2>3
  <1> QED  BY <1>1, <1>2, <1>3, <1>4 DEF c, old, new

\* No two columns of a name are both the rightmost.
LEMMA ChosenIsRightmost ==
  ASSUME NEW columns, NEW row, NEW name, NEW default, DOMAIN columns \subseteq Int,
         NEW w \in Columns(columns, name), Wins(w, columns)
  PROVE  Chosen(row, columns, name, default) = extractValue(row[w])
  <1>1. \A v \in Columns(columns, name) : Wins(v, columns) => v = w
    <2> SUFFICES ASSUME NEW v \in Columns(columns, name), Wins(v, columns) PROVE v = w
      OBVIOUS
    <2>1. v \in Int /\ w \in Int /\ columns[v] = name /\ columns[w] = name
      BY DEF Columns
    <2>2. w <= v /\ v <= w
      BY <2>1 DEF Wins
    <2> QED  BY <2>1, <2>2
  <1> DEFINE v == CHOOSE v \in Columns(columns, name) : Wins(v, columns)
  <1>2. v \in Columns(columns, name) /\ Wins(v, columns)
    OBVIOUS
  <1>3. v = w
    BY <1>1, <1>2
  <1>4. Chosen(row, columns, name, default) = extractValue(row[v])
    BY DEF Chosen
  <1> QED  BY <1>3, <1>4

LEMMA ChosenNext ==
  ASSUME NEW columns, NEW n \in Nat, NEW row, NEW name, NEW default,
         Rightmost(Prefix(columns, n))
  PROVE  Chosen(row, Prefix(columns, n + 1), name, default) =
           IF columns[n + 1] = name THEN extractValue(row[n + 1])
           ELSE Chosen(row, Prefix(columns, n), name, default)
  <1> DEFINE c == columns[n + 1]
             old == Prefix(columns, n)
             new == Prefix(columns, n + 1)
  <1>1. /\ DOMAIN old = 1..n /\ DOMAIN new = (1..n) \union {n + 1}
        /\ \A i \in 1..n : new[i] = old[i]
        /\ Columns(new, name) = Columns(old, name) \union (IF c = name THEN {n + 1} ELSE {})
        /\ Wins(n + 1, new)
        /\ \A i \in 1..n : Wins(i, new) <=> old[i] # c /\ Wins(i, old)
    BY PrefixFacts
  <1>2. DOMAIN old \subseteq Int /\ DOMAIN new \subseteq Int
    BY <1>1
  <1>0. Rightmost(old)
    OBVIOUS
  <1> HIDE DEF c, old, new
  <1>3. CASE c = name
    <2>1. n + 1 \in Columns(new, name)
      BY <1>1, <1>3
    <2> QED  BY <1>1, <1>2, <1>3, <2>1, ChosenIsRightmost DEF c, old, new
  <1>4. CASE c # name
    <2>1. Columns(new, name) = Columns(old, name)
      BY <1>1, <1>4
    <2>2. CASE Columns(old, name) = {}
      BY <1>4, <2>1, <2>2 DEF Chosen, c, old, new
    <2>3. CASE Columns(old, name) # {}
      <3>1. PICK w \in Columns(old, name) : Wins(w, old)
        BY <1>0, <2>3 DEF Rightmost, Columns
      <3>2. w \in 1..n /\ old[w] = name
        BY <1>1 DEF Columns
      <3>3. w \in Columns(new, name) /\ Wins(w, new)
        BY <1>1, <1>4, <2>1, <3>1, <3>2
      <3>4. /\ Chosen(row, old, name, default) = extractValue(row[w])
            /\ Chosen(row, new, name, default) = extractValue(row[w])
        BY <1>2, <3>1, <3>3, ChosenIsRightmost
      <3> QED  BY <1>4, <3>4 DEF c, old, new
    <2> QED  BY <2>2, <2>3
  <1> QED  BY <1>3, <1>4

LEMMA RightmostNext ==
  ASSUME NEW columns, NEW n \in Nat, Rightmost(Prefix(columns, n))
  PROVE  Rightmost(Prefix(columns, n + 1))
  <1> DEFINE c == columns[n + 1]
             old == Prefix(columns, n)
             new == Prefix(columns, n + 1)
  <1>1. /\ DOMAIN old = 1..n /\ DOMAIN new = (1..n) \union {n + 1}
        /\ \A i \in 1..n : new[i] = old[i]
        /\ new[n + 1] = c
        /\ \A name : Columns(new, name) = Columns(old, name) \union (IF c = name THEN {n + 1} ELSE {})
        /\ Wins(n + 1, new)
        /\ \A i \in 1..n : Wins(i, new) <=> old[i] # c /\ Wins(i, old)
    BY PrefixFacts
  <1>2. Rightmost(old)
    OBVIOUS
  <1> HIDE DEF c, old, new
  <1>3. ASSUME NEW i \in DOMAIN new
        PROVE  \E w \in Columns(new, new[i]) : Wins(w, new)
    <2>1. CASE new[i] = c
      <3>1. n + 1 \in Columns(new, new[i])
        BY <1>1, <2>1
      <3> QED  BY <1>1, <3>1
    <2>2. CASE new[i] # c
      <3>1. i \in 1..n /\ new[i] = old[i]
        BY <1>1, <1>3, <2>2
      <3>2. PICK w \in Columns(old, old[i]) : Wins(w, old)
        BY <1>1, <1>2, <3>1 DEF Rightmost
      <3>3. w \in 1..n /\ old[w] = old[i]
        BY <1>1 DEF Columns
      <3> QED  BY <1>1, <2>2, <3>1, <3>2, <3>3
    <2> QED  BY <2>1, <2>2
  <1> QED  BY <1>3 DEF Rightmost, new

\* The metrics of the ordinary columns: one more replaces its namesake.
LEMMA OtherColumnsNext ==
  ASSUME NEW columns, NEW n \in Nat, NEW row, NEW query
  PROVE  LET c == columns[n + 1]
             text == extractValue(row[n + 1])
             others == OtherColumns(row, Prefix(columns, n), query)
         IN  OtherColumns(row, Prefix(columns, n + 1), query) =
               IF c \in Special THEN others
               ELSE Put(others, Entry(query, c, text, DetectMetricType(text)))
  <1> DEFINE c == columns[n + 1]
             old == Prefix(columns, n)
             new == Prefix(columns, n + 1)
             entry(column, i) ==
               Entry(query, column, extractValue(row[i]), DetectMetricType(extractValue(row[i])))
             Kept == {j \in 1..n : old[j] \notin Special /\ old[j] # c /\ Wins(j, old)}
  <1>1. /\ DOMAIN old = 1..n /\ DOMAIN new = (1..n) \union {n + 1} /\ n + 1 \notin 1..n
        /\ \A i \in 1..n : new[i] = old[i]
        /\ new[n + 1] = c
        /\ Wins(n + 1, new)
        /\ \A i \in 1..n : Wins(i, new) <=> old[i] # c /\ Wins(i, old)
    BY PrefixFacts
  <1>2. \A a, b, i, j : entry(a, i).name = entry(b, j).name <=> a = b
    BY DEF Entry
  <1>3. /\ OtherColumns(row, new, query) =
             {entry(new[i], i) : i \in {j \in DOMAIN new : new[j] \notin Special /\ Wins(j, new)}}
        /\ OtherColumns(row, old, query) =
             {entry(old[i], i) : i \in {j \in DOMAIN old : old[j] \notin Special /\ Wins(j, old)}}
    BY DEF OtherColumns
  <1> HIDE DEF c, old, new, entry
  <1>4. {j \in DOMAIN new : new[j] \notin Special /\ Wins(j, new)} =
           Kept \union (IF c \in Special THEN {} ELSE {n + 1})
    <2>1. CASE c \in Special
      BY <1>1, <2>1
    <2>2. CASE c \notin Special
      BY <1>1, <2>2
    <2> QED  BY <2>1, <2>2
  <1>5. CASE c \in Special
    <2>1. Kept = {j \in DOMAIN old : old[j] \notin Special /\ Wins(j, old)}
      BY <1>1, <1>5
    <2>2. {j \in DOMAIN new : new[j] \notin Special /\ Wins(j, new)} = Kept
      BY <1>4, <1>5
    <2>3. \A i \in Kept : entry(new[i], i) = entry(old[i], i)
      BY <1>1
    <2> HIDE DEF Kept
    <2>4. OtherColumns(row, new, query) = OtherColumns(row, old, query)
      BY <1>3, <2>1, <2>2, <2>3
    <2> QED  BY <1>5, <2>4 DEF c, old, new
  <1>6. CASE c \notin Special
    <2> DEFINE O == OtherColumns(row, old, query)
               added == entry(c, n + 1)
    <2>1. \A e \in O : e.name # added.name <=> \E i \in Kept : e = entry(old[i], i)
      <3>1. ASSUME NEW e \in O, e.name # added.name
            PROVE  \E i \in Kept : e = entry(old[i], i)
        <4>1. PICK i \in {j \in DOMAIN old : old[j] \notin Special /\ Wins(j, old)} : e = entry(old[i], i)
          BY <1>3
        <4>2. old[i] # c
          BY <1>2, <3>1, <4>1
        <4> QED  BY <1>1, <4>1, <4>2
      <3>2. ASSUME NEW e \in O, NEW i \in Kept, e = entry(old[i], i)
            PROVE  e.name # added.name
        BY <1>2, <3>2
      <3> QED  BY <3>1, <3>2
    <2>2. \A i \in Kept : entry(old[i], i) \in O /\ entry(new[i], i) = entry(old[i], i)
      BY <1>1, <1>3
    <2>3. {e \in O : e.name # added.name} = {entry(old[i], i) : i \in Kept}
      <3> HIDE DEF Kept, O, added
      <3> QED  BY <2>1, <2>2
    <2>4. OtherColumns(row, new, query) = {entry(new[i], i) : i \in Kept \union {n + 1}}
      BY <1>3, <1>4, <1>6
    <2>5. entry(new[n + 1], n + 1) = added
      BY <1>1
    <2>6. OtherColumns(row, new, query) = {entry(old[i], i) : i \in Kept} \union {added}
      <3> HIDE DEF Kept, O, added
      <3> QED  BY <2>2, <2>4, <2>5
    <2>7. OtherColumns(row, new, query) = Put(O, added)
      BY <2>3, <2>6 DEF Put
    <2> QED  BY <1>6, <2>7 DEF c, old, new, entry
  <1> QED  BY <1>5, <1>6 DEF c

LEMMA SummaryNext ==
  ASSUME NEW columns, NEW n \in Nat, NEW row, NEW query, Rightmost(Prefix(columns, n))
  PROVE  Summary(row, Prefix(columns, n + 1), query) =
           ScanColumn(Summary(row, Prefix(columns, n), query), query,
                      columns[n + 1], extractValue(row[n + 1]))
  <1> DEFINE c == columns[n + 1]
             text == extractValue(row[n + 1])
             old == Prefix(columns, n)
             new == Prefix(columns, n + 1)
             put == Put(OtherColumns(row, old, query), Entry(query, c, text, DetectMetricType(text)))
  <1>1. \A name, default :
           Chosen(row, new, name, default) = IF c = name THEN text ELSE Chosen(row, old, name, default)
    BY ChosenNext
  <1>2. OtherColumns(row, new, query) =
           IF c \in Special THEN OtherColumns(row, old, query) ELSE put
    BY OtherColumnsNext
  <1> HIDE DEF c, text, old, new, put
  <1>3. CASE c = "metric_name"
    BY <1>1, <1>2, <1>3 DEF Summary, ScanColumn, Special, c, text, old, new
  <1>4. CASE c = "metric_type"
    BY <1>1, <1>2, <1>4 DEF Summary, ScanColumn, Special, c, text, old, new
  <1>5. CASE c = "metric_value"
    BY <1>1, <1>2, <1>5 DEF Summary, ScanColumn, Special, c, text, old, new
  <1>6. CASE c \notin Special
    <2>1. c # "metric_name" /\ c # "metric_type" /\ c # "metric_value"
      BY <1>6 DEF Special
    <2> QED  BY <1>1, <1>2, <1>6, <2>1 DEF Summary, ScanColumn, c, text, old, new, put
  <1> QED  BY <1>3, <1>4, <1>5, <1>6 DEF Special

-----------------------------------------------------------------------------
(* The loop and the description.                                           *)

LEMMA ScannedIsSummary ==
  ASSUME NEW T, NEW columns \in Seq(T), NEW row, NEW query
  PROVE  Scanned(row, columns, query) = Summary(row, columns, query)
  <1> DEFINE L == Len(columns)
  <1>1. L \in Nat /\ columns = [i \in 1..L |-> columns[i]]
    OBVIOUS
  <1>2. PICK after :
           /\ after = [i \in 0..L |->
                         IF i = 0 THEN Unscanned(query)
                         ELSE ScanColumn(after[i - 1], query, columns[i], extractValue(row[i]))]
           /\ Scanned(row, columns, query) = after[L]
    BY <1>1, ScannedUnfolds
  <1> HIDE DEF L
  <1>3. /\ after[0] = Unscanned(query)
        /\ \A i \in 1..L :
             after[i] = ScanColumn(after[i - 1], query, columns[i], extractValue(row[i]))
    <2>1. 0 \in 0..L /\ \A i \in 1..L : i \in 0..L /\ i # 0
      BY <1>1
    <2> QED  BY <1>2, <2>1
  <1> DEFINE S == {n \in Nat : n <= L =>
                      /\ after[n] = Summary(row, Prefix(columns, n), query)
                      /\ Rightmost(Prefix(columns, n))}
  <1>4. 0 \in S
    <2>1. DOMAIN Prefix(columns, 0) = {}
      BY DEF Prefix
    <2>2. Rightmost(Prefix(columns, 0))
      BY <2>1 DEF Rightmost
    <2>3. Summary(row, Prefix(columns, 0), query) = Unscanned(query)
      <3>1. \A name : Columns(Prefix(columns, 0), name) = {}
        BY <2>1 DEF Columns
      <3>2. \A name, default : Chosen(row, Prefix(columns, 0), name, default) = default
        BY <3>1 DEF Chosen
      <3>3. OtherColumns(row, Prefix(columns, 0), query) = {}
        BY <2>1 DEF OtherColumns
      <3> QED  BY <3>2, <3>3 DEF Summary, Unscanned, NoMetrics
    <2> QED  BY <1>3, <2>2, <2>3
  <1>5. ASSUME NEW n \in Nat, n \in S
        PROVE  n + 1 \in S
    <2> SUFFICES ASSUME n + 1 <= L
                 PROVE  /\ after[n + 1] = Summary(row, Prefix(columns, n + 1), query)
                        /\ Rightmost(Prefix(columns, n + 1))
      OBVIOUS
    <2>1. after[n] = Summary(row, Prefix(columns, n), query) /\ Rightmost(Prefix(columns, n))
      BY <1>1, <1>5
    <2>2. n + 1 \in 1..L /\ (n + 1) - 1 = n
      BY <1>1
    <2>3. after[n + 1] = ScanColumn(after[n], query, columns[n + 1], extractValue(row[n + 1]))
      BY <1>3, <2>2
    <2> QED  BY <2>1, <2>3, RightmostNext, SummaryNext
  <1> HIDE DEF S
  <1>6. L \in S
    BY <1>1, <1>4, <1>5, SetInduction
  <1>7. after[L] = Summary(row, Prefix(columns, L), query)
    BY <1>1, <1>6 DEF S
  <1>8. Prefix(columns, L) = columns
    BY <1>1 DEF Prefix
  <1> QED  BY <1>2, <1>7, <1>8

\* Rows of any length, columns in any order, names repeated or missing, NULLs:
\* metricsFromCustomQueryRow returns what the documentation describes.
THEOREM RowAsDescribed ==
  ASSUME NEW T, NEW columns \in Seq(T), NEW row, NEW query
  PROVE  metricsFromCustomQueryRow(row, columns, query) = Described(row, columns, query)
  <1> DEFINE known == Scanned(row, columns, query)
             name == Chosen(row, columns, "metric_name", query.name)
             type == Chosen(row, columns, "metric_type", query.type)
             value == Chosen(row, columns, "metric_value", "")
             others == OtherColumns(row, columns, query)
  <1>1. /\ known.name = name /\ known.type = type /\ known.value = value
        /\ known.metrics = others
    <2>1. known = Summary(row, columns, query)
      BY ScannedIsSummary
    <2> HIDE DEF known
    <2> QED  BY <2>1 DEF Summary
  <1> DEFINE metric == Entry(query, name, value,
                             IF type # "" THEN type
                             ELSE IF value \in Numbers THEN "gauge" ELSE "attribute")
  <1>2. metricsFromCustomQueryRow(row, columns, query) =
          IF TargetFails(known) THEN NoMetrics
          ELSE IF known.value = "" THEN known.metrics
          ELSE Put(known.metrics, Entry(query, known.name, known.value, TargetType(known)))
    BY DEF metricsFromCustomQueryRow
  <1>3. Described(row, columns, query) =
          CASE name = "" /\ value = "" -> others
            [] name # "" /\ value # "" /\ type \in SourceTypes \union {""} ->
                  {metric} \union {o \in others : o.name # metric.name}
            [] OTHER -> {}
    BY DEF Described
  <1>4. Entry(query, known.name, known.value, TargetType(known)) = metric
    BY <1>1 DEF TargetType, DetectMetricType
  <1> HIDE DEF known, name, type, value, others, metric
  <1>5. CASE TargetFails(known)
    BY <1>1, <1>2, <1>3, <1>5 DEF TargetFails, NoMetrics
  <1>6. CASE ~TargetFails(known) /\ value = ""
    BY <1>1, <1>2, <1>3, <1>6 DEF TargetFails
  <1>7. CASE ~TargetFails(known) /\ value # ""
    BY <1>1, <1>2, <1>3, <1>4, <1>7 DEF TargetFails, Put
  <1> QED  BY <1>5, <1>6, <1>7
=============================================================================
