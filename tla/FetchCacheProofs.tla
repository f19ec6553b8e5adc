--------------------------- MODULE FetchCacheProofs ---------------------------
(***************************************************************************)
(* Proofs about FetchCache for any number of callers, any days asked for,  *)
(* any set of closed hours, any clock and any number of refused hours.     *)
(***************************************************************************)
EXTENDS FetchCache, FiniteSetTheorems, FunctionTheorems, SequenceTheorems, TLAPS

(***************************************************************************)
(* Sorting by rank: Nth enumerates a finite set of naturals in order.      *)
(***************************************************************************)
Rank(S, a) == Cardinality({b \in S : b < a})

LEMMA RankGrows ==
  ASSUME NEW S \in SUBSET Nat, IsFiniteSet(S), NEW a \in S, NEW c \in S, a < c
  PROVE  Rank(S, a) \in Nat /\ Rank(S, c) \in Nat /\ Rank(S, a) < Rank(S, c)
<1> DEFINE A == {b \in S : b < a}
           C == {b \in S : b < c}
<1>0. \A b \in S : b < a => b < c
  OBVIOUS
<1>1. A \in SUBSET S /\ C \in SUBSET S /\ a \notin A /\ A \cup {a} \in SUBSET C
  <2>1. ~(a < a)
    OBVIOUS
  <2>2. a \in C /\ a \notin A
    BY <2>1
  <2>3. \A b \in A : b \in C
    BY <1>0
  <2> QED BY <2>2, <2>3
<1> HIDE DEF A, C
<1>2. IsFiniteSet(A) /\ IsFiniteSet(C)
  BY <1>1, FS_Subset
<1>3. Cardinality(A \cup {a}) = Cardinality(A) + 1
  BY <1>1, <1>2, FS_AddElement
<1>4. Cardinality(A \cup {a}) <= Cardinality(C)
  BY <1>1, <1>2, FS_Subset
<1>5. Cardinality(A) \in Nat /\ Cardinality(C) \in Nat
  BY <1>2, FS_CardinalityType
<1>6. Rank(S, a) = Cardinality(A) /\ Rank(S, c) = Cardinality(C)
  BY DEF Rank, A, C
<1> QED BY <1>3, <1>4, <1>5, <1>6

LEMMA RankInjective ==
  ASSUME NEW S \in SUBSET Nat, IsFiniteSet(S), NEW a \in S, NEW c \in S,
         Rank(S, a) = Rank(S, c)
  PROVE  a = c
<1>1. a \in Nat /\ c \in Nat
  OBVIOUS
<1>2. ~(a < c) /\ ~(c < a)
  BY RankGrows
<1> QED BY <1>1, <1>2

\* The ranks of the n members of a set are 0 to n - 1, each once.
LEMMA RankOnto ==
  ASSUME NEW S \in SUBSET Nat, IsFiniteSet(S)
  PROVE  /\ Cardinality(S) \in Nat
         /\ \A a \in S : Rank(S, a) \in 0 .. Cardinality(S) - 1
         /\ \A i \in 0 .. Cardinality(S) - 1 : \E a \in S : Rank(S, a) = i
<1> DEFINE n == Cardinality(S)
           f == [a \in S |-> Rank(S, a)]
<1>1. n \in Nat
  BY FS_CardinalityType
<1>2. ASSUME NEW a \in S PROVE Rank(S, a) \in 0 .. n - 1
  <2> DEFINE A == {b \in S : b < a}
  <2>1. A \in SUBSET S /\ a \notin A
    OBVIOUS
  <2> HIDE DEF A
  <2>2. IsFiniteSet(A) /\ Cardinality(A) <= n /\ Cardinality(A) # n
    BY <2>1, FS_Subset
  <2>3. Cardinality(A) \in Nat
    BY <2>2, FS_CardinalityType
  <2>4. Rank(S, a) = Cardinality(A)
    BY DEF Rank, A
  <2> QED BY <1>1, <2>2, <2>3, <2>4
<1>3. f \in Injection(S, 0 .. n - 1)
  <2>1. f \in [S -> 0 .. n - 1]
    BY <1>2
  <2>2. ASSUME NEW a \in S, NEW c \in S, f[a] = f[c] PROVE a = c
    BY <2>2, RankInjective
  <2> QED BY <2>1, <2>2, Fun_IsInj
<1>4. IsFiniteSet(0 .. n - 1) /\ Cardinality(0 .. n - 1) = n
  <2> HIDE DEF n
  <2>1. n - 1 \in Int /\ 0 \in Int /\ (0 > n - 1 <=> n = 0) /\ (n - 1) - 0 + 1 = n
    BY <1>1
  <2>2. Cardinality(0 .. n - 1) = IF 0 > n - 1 THEN 0 ELSE (n - 1) - 0 + 1
    BY <2>1, FS_Interval
  <2> QED BY <2>1, <2>2, FS_Interval
<1>5. f \in Surjection(S, 0 .. n - 1)
  <2> HIDE DEF f, n
  <2> QED BY <1>3, <1>4, FS_Injection DEF n
<1>6. \A i \in 0 .. n - 1 : \E a \in S : f[a] = i
  <2> HIDE DEF f, n
  <2> QED BY <1>5, ZenonT(30), Fun_SurjectionProperties
<1> QED BY <1>1, <1>2, <1>6

LEMMA NthEnumerates ==
  ASSUME NEW S \in SUBSET Nat, IsFiniteSet(S)
  PROVE  /\ Cardinality(S) \in Nat
         /\ \A i \in 1 .. Cardinality(S) : Nth(S, i) \in S
         /\ \A i, j \in 1 .. Cardinality(S) : i < j => Nth(S, i) < Nth(S, j)
         /\ \A a \in S : \E i \in 1 .. Cardinality(S) : Nth(S, i) = a
<1> DEFINE n == Cardinality(S)
<1>1. n \in Nat
  BY FS_CardinalityType
<1>2. ASSUME NEW i \in 1 .. n PROVE Nth(S, i) \in S /\ Rank(S, Nth(S, i)) = i - 1
  <2>1. i - 1 \in 0 .. n - 1
    BY <1>1
  <2>2. \E a \in S : Rank(S, a) = i - 1
    BY <2>1, RankOnto
  <2> QED BY <2>2 DEF Nth, Rank
<1>3. ASSUME NEW i \in 1 .. n, NEW j \in 1 .. n, i < j PROVE Nth(S, i) < Nth(S, j)
  <2>1. Nth(S, i) \in S /\ Nth(S, j) \in S /\ Nth(S, i) \in Nat /\ Nth(S, j) \in Nat
    BY <1>2
  <2>2. Rank(S, Nth(S, i)) = i - 1 /\ Rank(S, Nth(S, j)) = j - 1
    BY <1>2
  <2>3. Nth(S, j) < Nth(S, i) => j - 1 < i - 1
    BY <2>1, <2>2, RankGrows
  <2>4. Nth(S, i) # Nth(S, j)
    BY <2>2, <1>1, <1>3
  <2> HIDE DEF n
  <2> QED BY <2>1, <2>3, <2>4, <1>1, <1>3
<1>4. ASSUME NEW a \in S PROVE \E i \in 1 .. n : Nth(S, i) = a
  <2>1. Rank(S, a) \in 0 .. n - 1
    BY RankOnto
  <2>2. PICK i \in 1 .. n : i - 1 = Rank(S, a)
    <3>1. Rank(S, a) + 1 \in 1 .. n /\ (Rank(S, a) + 1) - 1 = Rank(S, a)
      BY <1>1, <2>1
    <3> QED BY <3>1
  <2>3. Nth(S, i) \in S /\ Rank(S, Nth(S, i)) = Rank(S, a)
    BY <1>2, <2>2
  <2>4. \A b \in S : Rank(S, b) = Rank(S, a) => b = a
    BY RankInjective
  <2> QED BY <2>3, <2>4
<1> QED BY <1>1, <1>2, <1>3, <1>4

(***************************************************************************)
(* Grids: hours and buckets are the multiples of a length.                 *)
(***************************************************************************)
Floor(t, d) == (t \div d) * d

LEMMA FloorBelow ==
  ASSUME NEW t \in Nat, NEW d \in Nat \ {0}
  PROVE  /\ t \div d \in Nat
         /\ Floor(t, d) \in Nat
         /\ Floor(t, d) <= t
         /\ t < Floor(t, d) + d
BY SMT DEF Floor

LEMMA FloorUnique ==
  ASSUME NEW p \in Nat, NEW q \in Nat, NEW d \in Nat \ {0}, NEW t \in Nat,
         p * d <= t, t < p * d + d, q * d <= t, t < q * d + d
  PROVE  p = q
<1>1. ASSUME NEW x \in Nat, NEW y \in Nat, x < y PROVE x * d + d <= y * d
  <2> DEFINE z == y - x - 1
  <2>1. z \in Nat /\ y = x + 1 + z
    BY <1>1
  <2> HIDE DEF z
  <2>2. y * d = x * d + d + z * d
    BY <2>1
  <2>3. z * d \in Nat /\ x * d \in Nat
    BY <2>1
  <2> QED BY <2>2, <2>3
<1>2. ~(p < q)
  BY <1>1
<1>3. ~(q < p)
  BY <1>1
<1> QED BY <1>2, <1>3

\* What the floor of a number is: on the grid, at most a length below, the number
\* itself on the grid, and growing with it.
LEMMA FloorFacts ==
  ASSUME NEW d \in Nat \ {0}
  PROVE  /\ \A t \in Nat : Floor(t, d) \in Nat /\ Floor(t, d) <= t /\ t < Floor(t, d) + d
         /\ \A q \in Nat : q * d \in Nat /\ Floor(q * d, d) = q * d
         /\ \A t \in Nat : Floor(Floor(t, d), d) = Floor(t, d)
         /\ \A a, u \in Nat : Floor(a, d) = a /\ a <= u /\ u < a + d => Floor(u, d) = a
         /\ \A s, t \in Nat : s <= t => Floor(s, d) <= Floor(t, d)
         /\ \A a, b \in Nat : Floor(a, d) = a /\ Floor(b, d) = b /\ a < b => a + d <= b
<1>1. \A t \in Nat : Floor(t, d) \in Nat /\ Floor(t, d) <= t /\ t < Floor(t, d) + d
  BY FloorBelow
<1>2. ASSUME NEW q \in Nat, NEW t \in Nat, q * d <= t, t < q * d + d
      PROVE  Floor(t, d) = q * d
  <2>1. /\ t \div d \in Nat
        /\ (t \div d) * d <= t
        /\ t < (t \div d) * d + d
    BY FloorBelow DEF Floor
  <2>2. t \div d = q
    <3> DEFINE p == t \div d
    <3>1. p \in Nat /\ p * d <= t /\ t < p * d + d
      BY <2>1
    <3> HIDE DEF p
    <3>2. p = q
      BY <1>2, <3>1, FloorUnique
    <3> QED BY <3>2 DEF p
  <2> QED BY <2>2 DEF Floor
<1>3. ASSUME NEW q \in Nat PROVE q * d \in Nat /\ Floor(q * d, d) = q * d
  <2>1. q * d \in Nat
    OBVIOUS
  <2>2. q * d <= q * d /\ q * d < q * d + d
    BY <2>1
  <2> QED BY <1>2, <2>1, <2>2
<1>4. \A t \in Nat : \E q \in Nat : Floor(t, d) = q * d
  BY FloorBelow DEF Floor
<1>5. \A t \in Nat : Floor(Floor(t, d), d) = Floor(t, d)
  BY <1>3, <1>4
<1>6. ASSUME NEW a \in Nat, NEW u \in Nat, Floor(a, d) = a, a <= u, u < a + d
      PROVE  Floor(u, d) = a
  <2>1. PICK q \in Nat : a = q * d
    BY <1>4, <1>6
  <2> QED BY <1>2, <1>6, <2>1
<1>7. ASSUME NEW a \in Nat, NEW b \in Nat, Floor(a, d) = a, Floor(b, d) = b, a < b
      PROVE  a + d <= b
  <2>1. SUFFICES ASSUME b < a + d PROVE FALSE
    OBVIOUS
  <2>2. Floor(b, d) = a
    BY <1>6, <1>7, <2>1
  <2> QED BY <1>7, <2>2
<1>8. ASSUME NEW s \in Nat, NEW t \in Nat, s <= t PROVE Floor(s, d) <= Floor(t, d)
  <2> DEFINE a == Floor(s, d)
             b == Floor(t, d)
  <2>1. a \in Nat /\ b \in Nat /\ a <= s /\ t < b + d /\ Floor(a, d) = a /\ Floor(b, d) = b
    BY <1>1, <1>5
  <2> HIDE DEF a, b
  <2>2. b < a => b + d <= a
    BY <1>7, <2>1
  <2>3. a <= b
    BY <1>8, <2>1, <2>2
  <2> QED BY <2>3 DEF a, b
<1> QED BY <1>1, <1>3, <1>5, <1>6, <1>7, <1>8

LEMMA HourFacts ==
  /\ \A t \in Nat : Hour(t) \in Nat /\ Hour(t) <= t /\ t < Hour(t) + HourLen
  /\ \A q \in Nat : q * HourLen \in Nat /\ Hour(q * HourLen) = q * HourLen
  /\ \A t \in Nat : Hour(Hour(t)) = Hour(t)
  /\ \A a, u \in Nat : Hour(a) = a /\ a <= u /\ u < a + HourLen => Hour(u) = a
  /\ \A s, t \in Nat : s <= t => Hour(s) <= Hour(t)
<1>1. \A t : Hour(t) = Floor(t, HourLen)
  BY DEF Hour, Floor
<1> QED BY <1>1, CacheAssumption, FloorFacts DEF CacheAssumption

LEMMA BucketFacts ==
  /\ \A t \in Nat : Bucket(t) \in Nat /\ Bucket(t) <= t /\ t < Bucket(t) + BarLen
  /\ \A t \in Nat : Bucket(Bucket(t)) = Bucket(t)
  /\ \A a, u \in Nat : Bucket(a) = a /\ a <= u /\ u < a + BarLen => Bucket(u) = a
  /\ \A s, t \in Nat : s <= t => Bucket(s) <= Bucket(t)
  /\ \A a, b \in Nat : Bucket(a) = a /\ Bucket(b) = b /\ a < b => a + BarLen <= b
<1>1. \A t : Bucket(t) = Floor(t, BarLen)
  BY DEF Bucket, Floor
<1> QED BY <1>1, CacheAssumption, FloorFacts DEF CacheAssumption

\* The timeframes of whole hours: 1h, 4h, 1d.
BarsOfHours == \E k \in Nat \ {0} : BarLen = k * HourLen

LEMMA BarGridIsHourly ==
  ASSUME BarsOfHours, NEW a \in Nat, Bucket(a) = a
  PROVE  Hour(a) = a
<1>1. PICK k \in Nat \ {0} : BarLen = k * HourLen
  BY DEF BarsOfHours
<1> DEFINE p == a \div BarLen
<1>2. p \in Nat /\ a = p * BarLen
  BY CacheAssumption, FloorBelow DEF CacheAssumption, Bucket
<1> HIDE DEF p
<1>3. p * k \in Nat
  BY <1>2
<1>4. a = (p * k) * HourLen
  BY <1>1, <1>2, CacheAssumption DEF CacheAssumption
<1> QED BY <1>3, <1>4, HourFacts

LEMMA DeltaHoursType ==
  ASSUME NEW from \in Nat, NEW until \in Nat
  PROVE  DeltaHours(from, until) \in SUBSET Nat /\ \A h \in DeltaHours(from, until) : h <= until
<1>1. ASSUME NEW k \in Nat PROVE from + k * HourLen \in Nat
  BY CacheAssumption DEF CacheAssumption
<1>2. 0 .. until - from \in SUBSET Nat
  OBVIOUS
<1> QED BY <1>1, <1>2 DEF DeltaHours

\* From a full hour the cursor meets the open hours up to the end, and nothing else.
LEMMA DeltaHoursAre ==
  ASSUME NEW from \in Nat, NEW until \in Nat, Hour(from) = from, NEW h \in Nat
  PROVE  h \in DeltaHours(from, until) <=>
           Hour(h) = h /\ from <= h /\ h <= until /\ h \notin Closed
<1> DEFINE q == from \div HourLen
<1>1. HourLen \in Nat \ {0}
  BY CacheAssumption DEF CacheAssumption
<1>2. q \in Nat /\ from = q * HourLen
  BY <1>1, FloorBelow DEF Hour
<1> HIDE DEF q
<1>3. ASSUME h \in DeltaHours(from, until)
      PROVE  Hour(h) = h /\ from <= h /\ h <= until /\ h \notin Closed
  <2>1. PICK k \in 0 .. until - from : h = from + k * HourLen
    BY <1>3 DEF DeltaHours
  <2>2. k \in Nat /\ q + k \in Nat /\ h = (q + k) * HourLen /\ k * HourLen \in Nat
    BY <1>1, <1>2, <2>1
  <2>3. Hour(h) = h
    BY <2>2, HourFacts
  <2>4. from <= h
    BY <2>1, <2>2
  <2> QED BY <1>3, <2>3, <2>4 DEF DeltaHours, Open
<1>4. ASSUME Hour(h) = h, from <= h, h <= until, h \notin Closed
      PROVE  h \in DeltaHours(from, until)
  <2> DEFINE p == h \div HourLen
             k == p - q
  <2>1. p \in Nat /\ h = p * HourLen
    BY <1>1, <1>4, FloorBelow DEF Hour
  <2> HIDE DEF p
  <2>2. ~(p < q)
    <3>1. SUFFICES ASSUME p < q PROVE FALSE
      OBVIOUS
    <3> DEFINE z == q - p - 1
    <3>2. z \in Nat /\ q = p + 1 + z
      BY <1>2, <2>1, <3>1
    <3> HIDE DEF z
    <3>3. q * HourLen = p * HourLen + HourLen + z * HourLen /\ z * HourLen \in Nat
      BY <1>1, <2>1, <3>2
    <3> QED BY <1>1, <1>2, <1>4, <2>1, <3>3
  <2>3. k \in Nat /\ p = q + k
    BY <1>2, <2>1, <2>2
  <2> HIDE DEF k
  <2>4. h = from + k * HourLen /\ k * HourLen \in Nat /\ k <= k * HourLen
    BY <1>1, <1>2, <2>1, <2>3
  <2>5. k \in 0 .. until - from
    BY <1>4, <2>3, <2>4
  <2> QED BY <1>4, <2>4, <2>5 DEF DeltaHours, Open
<1> QED BY <1>3, <1>4

(***************************************************************************)
(* Sequences of bars.                                                      *)
(***************************************************************************)
Ats(rows) == {rows[i].at : i \in DOMAIN rows}

Sorted(rows) == \A i, j \in DOMAIN rows : i < j => rows[i].at < rows[j].at

LEMMA AtsFinite ==
  ASSUME NEW rows \in Seq(Bar)
  PROVE  IsFiniteSet(Ats(rows)) /\ Ats(rows) \in SUBSET Nat
<1> DEFINE f == [i \in 1 .. Len(rows) |-> rows[i].at]
<1>1. Len(rows) \in Nat /\ DOMAIN rows = 1 .. Len(rows)
  OBVIOUS
<1>2. IsFiniteSet(1 .. Len(rows))
  BY <1>1, FS_Interval
<1>3. \A i \in 1 .. Len(rows) : rows[i] \in Bar /\ rows[i].at \in Nat
  <2>1. \A i \in 1 .. Len(rows) : rows[i] \in Bar
    OBVIOUS
  <2> QED BY <2>1 DEF Bar
<1>4. f \in Surjection(1 .. Len(rows), Ats(rows))
  <2>1. f \in [1 .. Len(rows) -> Ats(rows)]
    BY <1>1 DEF Ats
  <2>2. \A a \in Ats(rows) : \E i \in 1 .. Len(rows) : f[i] = a
    BY <1>1 DEF Ats
  <2> HIDE DEF f
  <2> QED BY <2>1, <2>2, Fun_IsSurj
<1>5. IsFiniteSet(Ats(rows))
  <2> HIDE DEF f
  <2> QED BY <1>2, <1>4, FS_Surjection
<1> QED BY <1>1, <1>3, <1>5 DEF Ats

\* RowsAt keeps the rows at the indices, all of them, in order.
LEMMA RowsAtKeeps ==
  ASSUME NEW rows \in Seq(Bar), NEW I \in SUBSET (DOMAIN rows)
  PROVE  /\ RowsAt(rows, I) \in Seq(Bar)
         /\ \A k \in DOMAIN RowsAt(rows, I) : \E i \in I : RowsAt(rows, I)[k] = rows[i]
         /\ \A i \in I : \E k \in DOMAIN RowsAt(rows, I) : RowsAt(rows, I)[k] = rows[i]
         /\ Sorted(rows) => Sorted(RowsAt(rows, I))
<1> DEFINE n == Cardinality(I)
           R == RowsAt(rows, I)
<1>1. I \in SUBSET Nat /\ IsFiniteSet(I)
  <2>1. Len(rows) \in Nat /\ DOMAIN rows = 1 .. Len(rows)
    OBVIOUS
  <2>2. IsFiniteSet(1 .. Len(rows))
    BY <2>1, FS_Interval
  <2> QED BY <2>1, <2>2, FS_Subset
<1>2. /\ n \in Nat
      /\ \A k \in 1 .. n : Nth(I, k) \in I
      /\ \A j, k \in 1 .. n : j < k => Nth(I, j) < Nth(I, k)
      /\ \A i \in I : \E k \in 1 .. n : Nth(I, k) = i
  BY <1>1, NthEnumerates
<1>3. R = [k \in 1 .. n |-> rows[Nth(I, k)]]
  BY DEF RowsAt
<1>4. DOMAIN R = 1 .. n /\ \A k \in 1 .. n : R[k] = rows[Nth(I, k)]
  BY <1>3
<1>5. \A i \in I : rows[i] \in Bar
  OBVIOUS
<1>6. R \in Seq(Bar)
  <2>1. \A k \in 1 .. n : rows[Nth(I, k)] \in Bar
    BY <1>2, <1>5
  <2> HIDE DEF n
  <2> QED BY <1>2, <1>3, <2>1
<1>7. Sorted(rows) => Sorted(R)
  <2> HIDE DEF n, R
  <2> QED BY <1>2, <1>4 DEF Sorted
<1> HIDE DEF n, R
<1>8. \A k \in DOMAIN R : \E i \in I : R[k] = rows[i]
  BY <1>2, <1>4
<1>9. \A i \in I : \E k \in DOMAIN R : R[k] = rows[i]
  BY <1>2, <1>4
<1> QED BY <1>6, <1>7, <1>8, <1>9 DEF R

\* Merge: sorted, no row invented, no datetime lost, a cached row before a new one.
LEMMA MergeIs ==
  ASSUME NEW rows \in Seq(Bar), NEW delta \in SUBSET Bar,
         IsFiniteSet({b.at : b \in delta})
  PROVE  /\ Merge(rows, delta) \in Seq(Bar)
         /\ Sorted(Merge(rows, delta))
         /\ \A k \in DOMAIN Merge(rows, delta) :
              \/ \E i \in DOMAIN rows : Merge(rows, delta)[k] = rows[i]
              \/ /\ Merge(rows, delta)[k] \in delta
                 /\ Merge(rows, delta)[k].at \notin Ats(rows)
         /\ Ats(Merge(rows, delta)) = Ats(rows) \cup {b.at : b \in delta}
<1> DEFINE times == Ats(rows) \cup {b.at : b \in delta}
           n == Cardinality(times)
           first(a) == Nth({i \in DOMAIN rows : rows[i].at = a}, 1)
           row(a) == IF \E i \in DOMAIN rows : rows[i].at = a
                     THEN rows[first(a)]
                     ELSE CHOOSE b \in delta : b.at = a
           M == Merge(rows, delta)
<1>1. times \in SUBSET Nat /\ IsFiniteSet(times)
  <2>1. \A b \in delta : b.at \in Nat
    BY DEF Bar
  <2> QED BY <2>1, AtsFinite, FS_Union
<1>2. /\ n \in Nat
      /\ \A k \in 1 .. n : Nth(times, k) \in times
      /\ \A j, k \in 1 .. n : j < k => Nth(times, j) < Nth(times, k)
      /\ \A a \in times : \E k \in 1 .. n : Nth(times, k) = a
  <2> HIDE DEF times
  <2> QED BY <1>1, NthEnumerates
<1>3. ASSUME NEW a \in times
      PROVE  /\ row(a) \in Bar /\ row(a).at = a
             /\ \/ \E i \in DOMAIN rows : row(a) = rows[i]
                \/ row(a) \in delta /\ a \notin Ats(rows)
  <2>1. CASE \E i \in DOMAIN rows : rows[i].at = a
    <3> DEFINE I == {i \in DOMAIN rows : rows[i].at = a}
    <3>1. I \in SUBSET (DOMAIN rows) /\ I # {}
      BY <2>1
    <3>2. I \in SUBSET Nat /\ IsFiniteSet(I)
      <4> HIDE DEF I
      <4>1. Len(rows) \in Nat /\ DOMAIN rows = 1 .. Len(rows)
        OBVIOUS
      <4>2. IsFiniteSet(1 .. Len(rows))
        BY <4>1, FS_Interval
      <4> QED BY <3>1, <4>1, <4>2, FS_Subset
    <3>3. Nth(I, 1) \in I
      <4> HIDE DEF I
      <4>1. /\ Cardinality(I) \in Nat
            /\ \A k \in 1 .. Cardinality(I) : Nth(I, k) \in I
            /\ \A i \in I : \E k \in 1 .. Cardinality(I) : Nth(I, k) = i
        BY <3>2, NthEnumerates
      <4>2. 1 \in 1 .. Cardinality(I)
        BY <3>1, <4>1
      <4> QED BY <4>1, <4>2
    <3>4. first(a) \in DOMAIN rows /\ rows[first(a)].at = a
      BY <3>3
    <3>5. row(a) = rows[first(a)]
      BY <2>1
    <3> HIDE DEF row, first
    <3> QED BY <3>4, <3>5
  <2>2. CASE ~\E i \in DOMAIN rows : rows[i].at = a
    <3>1. row(a) = CHOOSE b \in delta : b.at = a
      BY <2>2
    <3>2. a \notin Ats(rows) /\ \E b \in delta : b.at = a
      BY <2>2 DEF Ats
    <3> HIDE DEF row, times
    <3> QED BY <3>1, <3>2
  <2> QED BY <2>1, <2>2
<1>4. M = [k \in 1 .. n |-> row(Nth(times, k))]
  BY DEF Merge, Ats
<1>5. DOMAIN M = 1 .. n /\ \A k \in 1 .. n : M[k] = row(Nth(times, k))
  BY <1>4
<1> HIDE DEF row, times, n
<1>6. M \in Seq(Bar)
  BY <1>2, <1>3, <1>4
<1> HIDE DEF M
<1>7. \A k \in 1 .. n : M[k].at = Nth(times, k)
  BY <1>2, <1>3, <1>5
<1>8. Sorted(M)
  BY <1>2, <1>5, <1>7 DEF Sorted
<1>9. Ats(M) = times
  BY <1>2, <1>5, <1>7 DEF Ats
<1>10. \A k \in DOMAIN M :
         \/ \E i \in DOMAIN rows : M[k] = rows[i]
         \/ M[k] \in delta /\ M[k].at \notin Ats(rows)
  BY <1>2, <1>3, <1>5, <1>7
<1> QED BY <1>6, <1>8, <1>9, <1>10 DEF M, times

(***************************************************************************)
(* The bars of a delta.                                                    *)
(***************************************************************************)
Delta(H, n) == Aggregate(UNION {HourTicks(h, n) : h \in H})

\* Whatever the hours, and wherever the cursor stands in them.
LEMMA DeltaType ==
  ASSUME NEW H \in SUBSET Nat, NEW u \in Nat, \A h \in H : h <= u, NEW n \in Nat
  PROVE  Delta(H, n) \in SUBSET Bar /\ IsFiniteSet({b.at : b \in Delta(H, n)})
<1> DEFINE T == UNION {HourTicks(h, n) : h \in H}
           A == {b.at : b \in Delta(H, n)}
<1>1. \A x \in T : x.stamp \in Nat /\ x.tick \in Nat /\ x.stamp <= u + HourLen
  <2>1. SUFFICES ASSUME NEW h \in H, NEW x \in HourTicks(h, n)
                 PROVE  x.stamp \in Nat /\ x.tick \in Nat /\ x.stamp <= u + HourLen
    OBVIOUS
  <2>2. h \in Nat /\ h <= u /\ HourLen \in Nat \ {0} /\ Hour(h) \in Nat
    BY CacheAssumption, HourFacts DEF CacheAssumption
  <2>3. PICK k \in Hour(h) .. Hour(h) + HourLen - 1 :
               x = [stamp |-> h + (k - Hour(h)), tick |-> k]
    BY DEF HourTicks
  <2>4. x.stamp = h + (k - Hour(h)) /\ x.tick = k
    BY <2>3
  <2> QED BY <2>2, <2>3, <2>4
<1>2. ASSUME NEW b \in Delta(H, n)
      PROVE  b \in Bar /\ b.at <= u + HourLen
  <2>1. PICK a \in {Bucket(x.stamp) : x \in T} :
          b = [at |-> a, ticks |-> {x.tick : x \in {y \in T : Bucket(y.stamp) = a}}]
    BY DEF Delta, Aggregate
  <2>2. PICK x \in T : a = Bucket(x.stamp)
    BY <2>1
  <2>3. x.stamp \in Nat /\ x.stamp <= u + HourLen
    BY <1>1, <2>2
  <2>4. a \in Nat /\ a <= x.stamp
    BY <2>2, <2>3, BucketFacts
  <2>5. {y.tick : y \in {z \in T : Bucket(z.stamp) = a}} \in SUBSET Nat
    BY <1>1
  <2>6. HourLen \in Nat
    BY CacheAssumption DEF CacheAssumption
  <2> HIDE DEF T
  <2>7. b \in Bar
    BY <2>1, <2>4, <2>5 DEF Bar
  <2>8. b.at = a
    BY <2>1
  <2> QED BY <2>3, <2>4, <2>6, <2>7, <2>8
<1>3. A \in SUBSET Nat /\ \A a \in A : a <= u + HourLen
  <2>1. \A b \in Bar : b.at \in Nat
    BY DEF Bar
  <2> QED BY <1>2, <2>1
<1>4. u + HourLen \in Nat
  BY CacheAssumption DEF CacheAssumption
<1>5. IsFiniteSet(A)
  <2> HIDE DEF A
  <2> QED BY <1>3, <1>4, FS_BoundedSetOfNaturals
<1> QED BY <1>2, <1>5

\* From full hours: each bar holds exactly the ticks of its time that came, and each
\* tick that came is in a bar.
LEMMA DeltaIs ==
  ASSUME NEW H \in SUBSET Nat, \A h \in H : Hour(h) = h, NEW n \in Nat
  PROVE  /\ \A b \in Delta(H, n) :
              /\ b.ticks = {k \in Nat : Hour(k) \in H /\ k <= n /\ Bucket(k) = b.at}
              /\ b.ticks # {}
         /\ \A k \in Nat : Hour(k) \in H /\ k <= n =>
              Bucket(k) \in {b.at : b \in Delta(H, n)}
<1> DEFINE T == UNION {HourTicks(h, n) : h \in H}
           K == {k \in Nat : Hour(k) \in H /\ k <= n}
<1>1. ASSUME NEW x \in T PROVE \E k \in K : x = [stamp |-> k, tick |-> k]
  <2>1. PICK h \in H : x \in HourTicks(h, n)
    OBVIOUS
  <2>2. h \in Nat /\ Hour(h) = h /\ HourLen \in Nat \ {0}
    BY CacheAssumption DEF CacheAssumption
  <2>3. PICK k \in {u \in Hour(h) .. Hour(h) + HourLen - 1 : u <= n} :
               x = [stamp |-> h + (k - Hour(h)), tick |-> k]
    BY <2>1 DEF HourTicks
  <2>4. k \in Nat /\ h <= k /\ k < h + HourLen /\ k <= n /\ h + (k - h) = k
    BY <2>2, <2>3
  <2>5. Hour(k) = h
    BY <2>2, <2>4, HourFacts
  <2> QED BY <2>2, <2>3, <2>4, <2>5
<1>2. ASSUME NEW k \in K PROVE [stamp |-> k, tick |-> k] \in T
  <2> DEFINE h == Hour(k)
  <2>1. h \in H /\ h \in Nat /\ k \in Nat /\ k <= n /\ Hour(h) = h /\ HourLen \in Nat \ {0}
    BY CacheAssumption DEF CacheAssumption
  <2>2. h <= k /\ k < h + HourLen
    BY <2>1, HourFacts
  <2> HIDE DEF h
  <2>3. k \in {u \in Hour(h) .. Hour(h) + HourLen - 1 : u <= n} /\ h + (k - Hour(h)) = k
    BY <2>1, <2>2
  <2>4. [stamp |-> k, tick |-> k] \in HourTicks(h, n)
    BY <2>3 DEF HourTicks
  <2> QED BY <2>1, <2>4
<1>3. ASSUME NEW b \in Delta(H, n)
      PROVE  b.ticks = {k \in Nat : Hour(k) \in H /\ k <= n /\ Bucket(k) = b.at} /\ b.ticks # {}
  <2>1. PICK a \in {Bucket(x.stamp) : x \in T} :
          b = [at |-> a, ticks |-> {x.tick : x \in {y \in T : Bucket(y.stamp) = a}}]
    BY DEF Delta, Aggregate
  <2>2. b.at = a /\ b.ticks = {x.tick : x \in {y \in T : Bucket(y.stamp) = a}}
    BY <2>1
  <2>3. PICK x \in T : Bucket(x.stamp) = a
    BY <2>1
  <2> HIDE DEF T, K
  <2>4. \A y \in T : y.stamp = y.tick /\ y.tick \in K
    BY <1>1
  <2>5. \A k \in K : \E y \in T : y.stamp = k /\ y.tick = k
    BY <1>2
  <2>6. b.ticks = {k \in K : Bucket(k) = a}
    <3>1. \A k : k \in b.ticks => k \in {j \in K : Bucket(j) = a}
      BY <2>2, <2>4
    <3>2. \A k : k \in {j \in K : Bucket(j) = a} => k \in b.ticks
      BY <2>2, <2>5
    <3> QED BY <3>1, <3>2
  <2>7. b.ticks # {}
    BY <2>2, <2>3
  <2> QED BY <2>2, <2>6, <2>7 DEF K
<1>4. ASSUME NEW k \in K PROVE \E b \in Delta(H, n) : b.at = Bucket(k)
  <2> DEFINE x == [stamp |-> k, tick |-> k]
             a == Bucket(x.stamp)
             b == [at |-> a, ticks |-> {z.tick : z \in {y \in T : Bucket(y.stamp) = a}}]
  <2>1. x \in T
    BY <1>2
  <2>2. b \in Delta(H, n)
    <3> HIDE DEF x
    <3> QED BY <2>1 DEF Delta, Aggregate
  <2>3. b.at = Bucket(k)
    OBVIOUS
  <2> HIDE DEF b
  <2> QED BY <2>2, <2>3
<1> QED BY <1>3, <1>4

(***************************************************************************)
(* The parts of the inductive invariant, for a set r of refused hours.     *)
(***************************************************************************)
WholeBut(a, r) == {t \in a .. a + BarLen - 1 : Open(t) /\ Hour(t) \notin r}

\* What a row may be: on the bars' grid, with ticks of its own bar, or all of them.
OnGrid(row) == Bucket(row.at) = row.at
InBar(row) == \A t \in row.ticks : Bucket(t) = row.at
Honest(row, r) == WholeBut(row.at, r) \subseteq row.ticks

Proper(rows) == Sorted(rows) /\ \A i \in DOMAIN rows : OnGrid(rows[i]) /\ InBar(rows[i])

\* No bar that starts in from .. to - 1 and was served is missing.
Covers(rows, from, to, r) ==
  \A t \in from .. to - 1 :
    Bucket(t) >= from /\ Open(t) /\ Hour(t) \notin r => Bucket(t) \in Ats(rows)

\* Rows from a time on: whole but for the last, and without a hole before the last.
Sound(rows, start, r) ==
  /\ Proper(rows)
  /\ \A i \in 1 .. Len(rows) - 1 : rows[i].at >= start => Honest(rows[i], r)
  /\ Len(rows) > 0 => Covers(rows, start, rows[Len(rows)].at, r)

\* Where the bars behind the first row begin.
Behind(rows) == IF rows = <<>> THEN 0 ELSE rows[1].at + BarLen

\* A planned fetch, looked at from a time start on: the hours from a grid point on, and
\* before it every bar is kept.
Planned(start, until, kept, hours, from, r) ==
  /\ from \in Nat
  /\ Hour(from) = from
  /\ from <= start \/ Bucket(from) = from
  /\ kept # <<>> => Bucket(from) = from
  /\ hours = DeltaHours(from, until)
  /\ Proper(kept)
  /\ \A i \in DOMAIN kept :
       kept[i].at < from /\ (start <= kept[i].at => Honest(kept[i], r))
  /\ Covers(kept, start, from, r)

Served(start, until, bars, r) ==
  \A t \in start .. Hour(until) - 1 :
    Bucket(t) >= start /\ Open(t) /\ Hour(t) \notin r =>
      \E i \in DOMAIN bars : t \in bars[i].ticks

\* More refusals and a later start only ask for less.
LEMMA LessToAsk ==
  ASSUME NEW rows \in Seq(Bar), NEW start \in Nat, NEW until \in Nat,
         NEW later \in Nat, start <= later, NEW r, NEW s, r \subseteq s
  PROVE  /\ Sound(rows, start, r) => Sound(rows, later, s)
         /\ Served(start, until, rows, r) => Served(start, until, rows, s)
         /\ \A hours, from : Planned(start, until, rows, hours, from, r) =>
                             Planned(start, until, rows, hours, from, s)
<1>1. \A row : Honest(row, r) => Honest(row, s)
  BY DEF Honest, WholeBut
<1>2. \A to : Covers(rows, start, to, r) => Covers(rows, start, to, s)
  BY DEF Covers
<1>3. ASSUME NEW to \in Nat, Covers(rows, start, to, s) PROVE Covers(rows, later, to, s)
  <2>1. SUFFICES ASSUME NEW t \in later .. to - 1,
                        Bucket(t) >= later, Open(t), Hour(t) \notin s
                 PROVE  Bucket(t) \in Ats(rows)
    BY DEF Covers
  <2>2. t \in Nat /\ Bucket(t) \in Nat
    BY BucketFacts
  <2>3. t \in start .. to - 1 /\ Bucket(t) >= start
    BY <2>1, <2>2
  <2> QED BY <1>3, <2>1, <2>3 DEF Covers
<1>4. \A i \in DOMAIN rows : rows[i].at \in Nat
  <2>1. \A i \in DOMAIN rows : rows[i] \in Bar
    OBVIOUS
  <2> QED BY <2>1 DEF Bar
<1>5. Len(rows) \in Nat /\ DOMAIN rows = 1 .. Len(rows)
  OBVIOUS
<1>6. Sound(rows, start, r) => Sound(rows, later, s)
  <2>1. SUFFICES ASSUME Sound(rows, start, r) PROVE Sound(rows, later, s)
    OBVIOUS
  <2>2. ASSUME NEW i \in 1 .. Len(rows) - 1, rows[i].at >= later PROVE Honest(rows[i], s)
    <3>1. i \in DOMAIN rows /\ rows[i].at >= start
      BY <1>4, <1>5, <2>2
    <3> QED BY <1>1, <2>1, <3>1 DEF Sound
  <2>3. ASSUME Len(rows) > 0 PROVE Covers(rows, later, rows[Len(rows)].at, s)
    <3>1. rows[Len(rows)].at \in Nat
      BY <1>4, <1>5, <2>3
    <3> QED BY <1>2, <1>3, <2>1, <2>3, <3>1 DEF Sound
  <2> QED BY <2>1, <2>2, <2>3 DEF Sound
<1>7. Served(start, until, rows, r) => Served(start, until, rows, s)
  BY DEF Served
<1>8. \A hours, from : Planned(start, until, rows, hours, from, r) =>
                      Planned(start, until, rows, hours, from, s)
  BY <1>1, <1>2 DEF Planned
<1> QED BY <1>6, <1>7, <1>8

\* What a writer has put out so far, its last row cut or not, is sound if its bars are.
LEMMA PrefixSound ==
  ASSUME NEW bars \in Seq(Bar), NEW rows \in Seq(Bar), NEW start \in Nat, NEW r,
         Sound(bars, start, r), Len(rows) <= Len(bars),
         \A i \in 1 .. Len(rows) - 1 : rows[i] = bars[i],
         \A i \in 1 .. Len(rows) :
           rows[i].at = bars[i].at /\ rows[i].ticks \subseteq bars[i].ticks
  PROVE  Sound(rows, start, r)
<1>1. /\ Len(rows) \in Nat /\ DOMAIN rows = 1 .. Len(rows)
      /\ Len(bars) \in Nat /\ DOMAIN bars = 1 .. Len(bars)
  OBVIOUS
<1>2. \A i \in DOMAIN bars : bars[i].at \in Nat
  <2>1. \A i \in DOMAIN bars : bars[i] \in Bar
    OBVIOUS
  <2> QED BY <2>1 DEF Bar
<1>3. \A i \in 1 .. Len(rows) : i \in 1 .. Len(bars)
  BY <1>1
<1>4. Sorted(rows)
  BY <1>1, <1>3 DEF Sound, Proper, Sorted
<1>5. \A i \in DOMAIN rows : OnGrid(rows[i]) /\ InBar(rows[i])
  BY <1>1, <1>3 DEF Sound, Proper, OnGrid, InBar
<1>6. ASSUME NEW i \in 1 .. Len(rows) - 1, rows[i].at >= start PROVE Honest(rows[i], r)
  <2>1. i \in 1 .. Len(bars) - 1 /\ rows[i] = bars[i]
    BY <1>1
  <2> QED BY <1>6, <2>1 DEF Sound
<1>7. ASSUME Len(rows) > 0, NEW t \in start .. rows[Len(rows)].at - 1,
             Bucket(t) >= start, Open(t), Hour(t) \notin r
      PROVE  Bucket(t) \in Ats(rows)
  <2> DEFINE n == Len(rows)
             m == Len(bars)
  <2>1. n \in 1 .. m /\ m \in 1 .. m /\ n \in Nat /\ m \in Nat
    BY <1>1, <1>7
  <2>2. bars[n].at \in Nat /\ bars[m].at \in Nat /\ rows[n].at = bars[n].at
    BY <1>1, <1>2, <2>1
  <2>3. t \in Nat /\ t < bars[n].at /\ Bucket(t) \in Nat /\ Bucket(t) <= t
    BY <1>7, <2>2, BucketFacts
  <2>4. bars[n].at <= bars[m].at
    BY <1>1, <2>1, <2>2 DEF Sound, Proper, Sorted
  <2>5. t \in start .. bars[m].at - 1
    BY <1>7, <2>2, <2>3, <2>4
  <2>6. Bucket(t) \in Ats(bars)
    BY <1>1, <1>7, <2>1, <2>5 DEF Sound, Covers
  <2>7. PICK i \in DOMAIN bars : bars[i].at = Bucket(t)
    BY <2>6 DEF Ats
  <2>8. i < n
    <3>1. bars[i].at < bars[n].at
      BY <2>2, <2>3, <2>7
    <3>2. i > n => bars[n].at < bars[i].at
      BY <1>1, <2>1, <2>7 DEF Sound, Proper, Sorted
    <3> QED BY <1>1, <1>2, <2>1, <2>7, <3>1, <3>2
  <2>9. i \in DOMAIN rows /\ rows[i].at = Bucket(t)
    BY <1>1, <2>7, <2>8
  <2> QED BY <2>9 DEF Ats
<1> QED BY <1>4, <1>5, <1>6, <1>7 DEF Sound, Proper, Covers

(***************************************************************************)
(* What a call takes over, plans and gets.                                 *)
(***************************************************************************)
LEMMA KeptIs ==
  ASSUME NEW rows \in Seq(Bar), NEW start \in Nat
  PROVE  /\ FetchFrom(rows, start) \in Nat
         /\ Kept(rows, start) \in Seq(Bar)
         /\ \A k \in DOMAIN Kept(rows, start) : \E i \in DOMAIN rows :
              /\ Kept(rows, start)[k] = rows[i]
              /\ start <= rows[i].at /\ rows[i].at < FetchFrom(rows, start)
         /\ \A i \in DOMAIN rows :
              start <= rows[i].at /\ rows[i].at < FetchFrom(rows, start) =>
                rows[i].at \in Ats(Kept(rows, start))
         /\ Sorted(rows) => Sorted(Kept(rows, start))
<1> DEFINE I == {i \in DOMAIN rows : /\ start <= rows[i].at
                                     /\ rows[i].at < FetchFrom(rows, start)}
<1>1. FetchFrom(rows, start) \in Nat
  <2>1. Len(rows) \in Nat /\ DOMAIN rows = 1 .. Len(rows)
    OBVIOUS
  <2>2. \A i \in DOMAIN rows : rows[i].at \in Nat
    <3>1. \A i \in DOMAIN rows : rows[i] \in Bar
      OBVIOUS
    <3> QED BY <3>1 DEF Bar
  <2>3. Len(rows) >= 2 => rows[Len(rows) - 1].at \in Nat
    BY <2>1, <2>2
  <2> QED BY <2>3, HourFacts DEF FetchFrom
<1>2. I \in SUBSET (DOMAIN rows) /\ Kept(rows, start) = RowsAt(rows, I)
  BY DEF Kept
<1>3. \A i \in I : i \in DOMAIN rows /\ start <= rows[i].at /\ rows[i].at < FetchFrom(rows, start)
  OBVIOUS
<1>4. \A i \in DOMAIN rows :
        start <= rows[i].at /\ rows[i].at < FetchFrom(rows, start) => i \in I
  OBVIOUS
<1> HIDE DEF I
<1>5. /\ RowsAt(rows, I) \in Seq(Bar)
      /\ \A k \in DOMAIN RowsAt(rows, I) : \E i \in I : RowsAt(rows, I)[k] = rows[i]
      /\ \A i \in I : \E k \in DOMAIN RowsAt(rows, I) : RowsAt(rows, I)[k] = rows[i]
      /\ Sorted(rows) => Sorted(RowsAt(rows, I))
  BY <1>2, RowsAtKeeps
<1>6. \A i \in I : rows[i].at \in Ats(RowsAt(rows, I))
  BY <1>5 DEF Ats
<1> QED BY <1>1, <1>2, <1>3, <1>4, <1>5, <1>6

\* Rows that are sound from some time on, taken over, make a plan: the last but one of
\* them starts the delta, or there are fewer than two and the window's first hour does.
LEMMA PlanFromSound ==
  ASSUME BarsOfHours, NEW rows \in Seq(Bar), NEW start \in Nat, NEW until \in Nat, NEW r,
         NEW low \in Nat, NEW reach \in Nat, start <= reach,
         Len(rows) >= 2 => low <= reach,
         Sound(rows, low, r)
  PROVE  Planned(reach, until, Kept(rows, start), DeltaHours(FetchFrom(rows, start), until),
                 FetchFrom(rows, start), r)
<1> DEFINE from == FetchFrom(rows, start)
           kept == Kept(rows, start)
           n == Len(rows)
<1>1. n \in Nat /\ DOMAIN rows = 1 .. n
  OBVIOUS
<1>2. \A i \in DOMAIN rows : rows[i].at \in Nat
  <2>1. \A i \in DOMAIN rows : rows[i] \in Bar
    OBVIOUS
  <2> QED BY <2>1 DEF Bar
<1>3. /\ from \in Nat /\ kept \in Seq(Bar)
      /\ \A k \in DOMAIN kept : \E i \in DOMAIN rows :
           kept[k] = rows[i] /\ start <= rows[i].at /\ rows[i].at < from
      /\ \A i \in DOMAIN rows :
           start <= rows[i].at /\ rows[i].at < from => rows[i].at \in Ats(kept)
      /\ Sorted(kept)
  BY KeptIs DEF Sound, Proper
<1>4. n >= 2 => from = rows[n - 1].at /\ Bucket(from) = from
  <2>1. n >= 2 => n - 1 \in DOMAIN rows
    BY <1>1
  <2> QED BY <2>1 DEF FetchFrom, Sound, Proper, OnGrid
<1>5. ~(n >= 2) => from = Hour(start) /\ from <= start
  BY HourFacts DEF FetchFrom
<1>6. Hour(from) = from
  <2>1. CASE n >= 2
    <3> HIDE DEF from, n
    <3> QED BY <1>3, <1>4, <2>1, BarGridIsHourly
  <2>2. CASE ~(n >= 2)
    <3> HIDE DEF from
    <3> QED BY <1>5, <2>2, HourFacts
  <2> QED BY <2>1, <2>2
<1> HIDE DEF from, kept
<1>7. ASSUME NEW i \in DOMAIN rows, start <= rows[i].at, rows[i].at < from
      PROVE  n >= 2 /\ i < n - 1
  <2>1. n >= 2
    BY <1>2, <1>3, <1>5, <1>7
  <2>2. i > n - 1 => rows[n - 1].at < rows[i].at
    BY <1>1, <1>7, <2>1 DEF Sound, Proper, Sorted
  <2>3. rows[n - 1].at \in Nat /\ rows[i].at \in Nat
    BY <1>1, <1>2, <1>7, <2>1
  <2> QED BY <1>1, <1>4, <1>7, <2>1, <2>2, <2>3
<1>8. \A k \in DOMAIN kept : /\ kept[k].at < from
                             /\ OnGrid(kept[k]) /\ InBar(kept[k])
                             /\ reach <= kept[k].at => Honest(kept[k], r)
  <2>1. ASSUME NEW i \in DOMAIN rows, start <= rows[i].at, rows[i].at < from
        PROVE  /\ OnGrid(rows[i]) /\ InBar(rows[i])
               /\ reach <= rows[i].at => Honest(rows[i], r)
    <3>1. i \in 1 .. n - 1 /\ low <= reach
      BY <1>1, <1>7, <2>1
    <3>2. reach <= rows[i].at => rows[i].at >= low
      BY <1>2, <2>1, <3>1
    <3> QED BY <2>1, <3>1, <3>2 DEF Sound, Proper
  <2> QED BY <1>3, <2>1
<1>9. ASSUME NEW t \in reach .. from - 1, Bucket(t) >= reach, Open(t), Hour(t) \notin r
      PROVE  Bucket(t) \in Ats(kept)
  <2>1. t \in Nat /\ t < from /\ Bucket(t) \in Nat /\ Bucket(t) <= t /\ reach <= t
    BY <1>3, <1>9, BucketFacts
  <2>2. n >= 2
    BY <1>3, <1>5, <1>9, <2>1
  <2>3. from < rows[n].at /\ rows[n].at \in Nat
    BY <1>1, <1>2, <1>4, <2>2, SMTT(30) DEF Sound, Proper, Sorted
  <2>4. t \in low .. rows[n].at - 1 /\ Bucket(t) >= low
    BY <1>3, <1>9, <2>1, <2>2, <2>3
  <2>5. Bucket(t) \in Ats(rows)
    BY <1>9, <2>2, <2>4 DEF Sound, Covers
  <2>6. PICK i \in DOMAIN rows : rows[i].at = Bucket(t)
    BY <2>5 DEF Ats
  <2>7. start <= rows[i].at /\ rows[i].at < from
    BY <1>3, <1>9, <2>1, <2>6
  <2> QED BY <1>3, <2>6, <2>7
<1>10. Proper(kept)
  BY <1>3, <1>8 DEF Proper
<1>11. Covers(kept, reach, from, r)
  BY <1>9 DEF Covers
<1>12. kept # <<>> => n >= 2
  <2>1. kept # <<>> => 1 \in DOMAIN kept
    BY <1>3
  <2> QED BY <1>3, <1>7, <2>1
<1>13. from <= reach \/ Bucket(from) = from
  BY <1>3, <1>4, <1>5
<1> QED BY <1>3, <1>4, <1>6, <1>8, <1>10, <1>11, <1>12, <1>13 DEF Planned, from, kept

\* What a call can be sure of begins no later than behind the first row it keeps.
LEMMA ReachOfKept ==
  ASSUME NEW rows \in Seq(Bar), NEW start \in Nat, Sorted(rows)
  PROVE  /\ Reach(rows, start) \in Nat /\ start <= Reach(rows, start)
         /\ Len(rows) >= 2 => Behind(rows) <= Reach(rows, start)
         /\ Kept(rows, start) # <<>> => Reach(rows, start) <= Behind(Kept(rows, start))
<1> DEFINE kept == Kept(rows, start)
           reach == Reach(rows, start)
<1>1. /\ Len(rows) \in Nat /\ DOMAIN rows = 1 .. Len(rows)
      /\ \A i \in DOMAIN rows : rows[i].at \in Nat
      /\ BarLen \in Nat
  <2>1. \A i \in DOMAIN rows : rows[i] \in Bar
    OBVIOUS
  <2> QED BY <2>1, CacheAssumption DEF Bar, CacheAssumption
<1>2. Len(rows) >= 2 => 1 \in DOMAIN rows /\ rows # <<>>
  BY <1>1
<1>3. reach \in Nat /\ start <= reach /\ (Len(rows) >= 2 => Behind(rows) <= reach)
  BY <1>1, <1>2 DEF Reach, Behind
<1>4. ASSUME kept # <<>> PROVE reach <= Behind(kept)
  <2>1. /\ kept \in Seq(Bar)
        /\ \A k \in DOMAIN kept : \E i \in DOMAIN rows :
             kept[k] = rows[i] /\ start <= rows[i].at
    BY KeptIs
  <2> HIDE DEF kept
  <2>2. 1 \in DOMAIN kept
    BY <1>4, <2>1
  <2>3. PICK i \in DOMAIN rows : kept[1] = rows[i] /\ start <= rows[i].at
    BY <2>1, <2>2
  <2>4. 1 \in DOMAIN rows /\ rows[1].at <= rows[i].at
    BY <1>1, <2>3 DEF Sorted
  <2>5. Behind(kept) = rows[i].at + BarLen
    BY <1>4, <2>3 DEF Behind
  <2> QED BY <1>1, <2>3, <2>4, <2>5 DEF Reach
<1> QED BY <1>3, <1>4

LEMMA KeptTick ==
  ASSUME NEW start \in Nat, NEW until \in Nat, NEW kept \in Seq(Bar), NEW hours, NEW from, NEW r,
         Planned(start, until, kept, hours, from, r),
         NEW t \in Nat, start <= t, t < from,
         Bucket(t) >= start, Open(t), Hour(t) \notin r
  PROVE  \E i \in DOMAIN kept : kept[i].at = Bucket(t) /\ t \in kept[i].ticks
<1>1. from \in Nat /\ t \in start .. from - 1
  BY DEF Planned
<1>2. Bucket(t) \in Ats(kept)
  BY <1>1 DEF Planned, Covers
<1>3. PICK i \in DOMAIN kept : kept[i].at = Bucket(t)
  BY <1>2 DEF Ats
<1>4. Bucket(t) \in Nat /\ Bucket(t) <= t /\ t < Bucket(t) + BarLen /\ BarLen \in Nat
  BY BucketFacts, CacheAssumption DEF CacheAssumption
<1>5. t \in Bucket(t) .. Bucket(t) + BarLen - 1
  BY <1>4
<1>6. t \in WholeBut(Bucket(t), r)
  BY <1>5 DEF WholeBut
<1>7. start <= kept[i].at
  BY <1>3, <1>4
<1>8. Honest(kept[i], r)
  BY <1>7 DEF Planned
<1> QED BY <1>3, <1>6, <1>8 DEF Honest

LEMMA NothingToFetch ==
  ASSUME NEW start \in Nat, NEW until \in Nat, NEW kept \in Seq(Bar), NEW from, NEW r,
         Planned(start, until, kept, {}, from, r)
  PROVE  Sound(kept, start, r) /\ Served(start, until, kept, r)
<1>1. from \in Nat /\ Hour(from) = from /\ DeltaHours(from, until) = {}
  BY DEF Planned
<1>2. Len(kept) \in Nat /\ DOMAIN kept = 1 .. Len(kept)
  OBVIOUS
<1>3. \A i \in DOMAIN kept : kept[i].at \in Nat
  <2>1. \A i \in DOMAIN kept : kept[i] \in Bar
    OBVIOUS
  <2> QED BY <2>1 DEF Bar
<1>4. ASSUME Len(kept) > 0, NEW t \in start .. kept[Len(kept)].at - 1,
             Bucket(t) >= start, Open(t), Hour(t) \notin r
      PROVE  Bucket(t) \in Ats(kept)
  <2>1. Len(kept) \in DOMAIN kept
    BY <1>2, <1>4
  <2>2. kept[Len(kept)].at \in Nat /\ kept[Len(kept)].at < from
    BY <1>3, <2>1 DEF Planned
  <2>3. t \in start .. from - 1
    BY <1>1, <1>4, <2>2
  <2> QED BY <1>4, <2>3 DEF Planned, Covers
<1>5. \A i \in 1 .. Len(kept) - 1 : kept[i].at >= start => Honest(kept[i], r)
  <2>1. \A i \in 1 .. Len(kept) - 1 : i \in DOMAIN kept
    BY <1>2
  <2>2. \A i \in DOMAIN kept : kept[i].at >= start => start <= kept[i].at
    BY <1>3
  <2> QED BY <2>1, <2>2 DEF Planned
<1>6. Sound(kept, start, r)
  BY <1>4, <1>5 DEF Sound, Covers, Planned
<1>7. ASSUME NEW t \in start .. Hour(until) - 1,
             Bucket(t) >= start, Open(t), Hour(t) \notin r
      PROVE  \E i \in DOMAIN kept : t \in kept[i].ticks
  <2>1. t \in Nat /\ start <= t /\ t < Hour(until) /\ Hour(until) \in Nat /\ Hour(until) <= until
    BY <1>7, HourFacts
  <2>2. CASE t < from
    BY <1>7, <2>1, <2>2, KeptTick
  <2>3. CASE ~(t < from)
    <3>1. from <= t /\ Hour(t) \in Nat /\ Hour(t) <= t /\ Hour(Hour(t)) = Hour(t)
      BY <1>1, <2>1, <2>3, HourFacts
    <3>2. from <= Hour(t)
      BY <1>1, <2>1, <3>1, HourFacts
    <3>3. Hour(t) <= until
      BY <2>1, <3>1
    <3>4. Hour(t) \in DeltaHours(from, until)
      BY <1>1, <1>7, <3>1, <3>2, <3>3, DeltaHoursAre DEF Open
    <3> QED BY <1>1, <3>4
  <2> QED BY <2>2, <2>3
<1> QED BY <1>6, <1>7 DEF Served

LEMMA FetchedSound ==
  ASSUME NEW start \in Nat, NEW until \in Nat, NEW kept \in Seq(Bar), NEW hours, NEW from, NEW r,
         Planned(start, until, kept, hours, from, r),
         NEW none \in SUBSET hours, NEW s, r \subseteq s, \A h \in none : Hour(h) \in s,
         NEW n \in Nat, until <= n
  PROVE  /\ Merge(kept, Delta(hours \ none, n)) \in Seq(Bar)
         /\ Sound(Merge(kept, Delta(hours \ none, n)), start, s)
         /\ Served(start, until, Merge(kept, Delta(hours \ none, n)), s)
<1> DEFINE H == hours \ none
           D == Delta(H, n)
           M == Merge(kept, D)
\* The plan, for the refusals of now.
<1>1. Planned(start, until, kept, hours, from, s)
  BY DEF Planned, Honest, WholeBut, Covers
<1>2. from \in Nat /\ Hour(from) = from /\ hours = DeltaHours(from, until)
  BY DEF Planned
<1>3. \A h \in Nat : h \in hours <=> Hour(h) = h /\ from <= h /\ h <= until /\ h \notin Closed
  BY <1>2, DeltaHoursAre
<1>4. H \in SUBSET Nat /\ (\A h \in H : h <= until /\ Hour(h) = h /\ from <= h)
  BY <1>2, <1>3, DeltaHoursType
\* A tick after the plan's start that came, or should have.
<1>5. ASSUME NEW k \in Nat, from <= k, Hour(k) <= until, Open(k), Hour(k) \notin s
      PROVE  Hour(k) \in H
  <2>1. Hour(k) \in Nat /\ Hour(Hour(k)) = Hour(k) /\ Hour(from) <= Hour(k)
    BY <1>2, <1>5, HourFacts
  <2>2. Hour(k) \in hours
    BY <1>2, <1>3, <1>5, <2>1 DEF Open
  <2>3. Hour(k) \notin none
    BY <1>5, <2>1
  <2> QED BY <2>2, <2>3
\* The delta's bars.
<1>6. D \in SUBSET Bar /\ IsFiniteSet({b.at : b \in D})
  <2> HIDE DEF H
  <2> QED BY <1>4, DeltaType
<1>7. /\ \A b \in D :
           /\ b.ticks = {k \in Nat : Hour(k) \in H /\ k <= n /\ Bucket(k) = b.at}
           /\ b.ticks # {}
      /\ \A k \in Nat : Hour(k) \in H /\ k <= n => Bucket(k) \in {b.at : b \in D}
  <2> HIDE DEF H
  <2> QED BY <1>4, DeltaIs
<1>8. /\ M \in Seq(Bar)
      /\ Sorted(M)
      /\ \A k \in DOMAIN M :
           \/ \E i \in DOMAIN kept : M[k] = kept[i]
           \/ M[k] \in D /\ M[k].at \notin Ats(kept)
      /\ Ats(M) = Ats(kept) \cup {b.at : b \in D}
  <2> HIDE DEF D
  <2> QED BY <1>6, MergeIs
<1> HIDE DEF H, D, M
<1>9. Len(M) \in Nat /\ DOMAIN M = 1 .. Len(M) /\ \A k \in DOMAIN M : M[k] \in Bar
  BY <1>8
<1>10. \A k \in DOMAIN M : M[k].at \in Nat
  BY <1>9 DEF Bar
<1>11. \A i \in DOMAIN kept :
         kept[i].at < from /\ (start <= kept[i].at => Honest(kept[i], s))
  BY <1>1 DEF Planned
<1>12. \A i \in DOMAIN kept : kept[i].at \in Nat
  <2>1. \A i \in DOMAIN kept : kept[i] \in Bar
    OBVIOUS
  <2> QED BY <2>1 DEF Bar
\* A new bar is behind the kept ones.
<1>13. ASSUME NEW k \in Nat, from <= k, NEW i \in DOMAIN kept
       PROVE  kept[i].at < Bucket(k)
  <2>1. kept[i].at < from /\ kept[i].at \in Nat
    BY <1>11, <1>12
  <2>2. Bucket(from) = from
    BY <1>2 DEF Planned
  <2>3. from <= Bucket(k) /\ Bucket(k) \in Nat
    BY <1>2, <1>13, <2>2, BucketFacts
  <2> QED BY <1>2, <2>1, <2>3
\* A row of the result that holds a tick from the plan's start on is a new bar.
<1>14. ASSUME NEW k \in Nat, from <= k, Hour(k) \in H, k <= n
       PROVE  \E m \in DOMAIN M :
                M[m] \in D /\ M[m].at = Bucket(k) /\ k \in M[m].ticks
  <2>1. Bucket(k) \in Ats(M)
    BY <1>7, <1>8, <1>14
  <2>2. PICK m \in DOMAIN M : M[m].at = Bucket(k)
    BY <2>1 DEF Ats
  <2>3. ~\E i \in DOMAIN kept : M[m] = kept[i]
    <3>1. \A i \in DOMAIN kept : kept[i].at < Bucket(k) /\ kept[i].at \in Nat
      BY <1>12, <1>13, <1>14
    <3> QED BY <2>2, <3>1
  <2>4. M[m] \in D
    BY <1>8, <2>3
  <2> QED BY <1>7, <1>14, <2>2, <2>4
<1>15. \A k \in DOMAIN M : OnGrid(M[k]) /\ InBar(M[k])
  <2>1. \A b \in D : OnGrid(b) /\ InBar(b)
    <3>1. SUFFICES ASSUME NEW b \in D PROVE OnGrid(b) /\ InBar(b)
      OBVIOUS
    <3>2. PICK k \in Nat : Bucket(k) = b.at
      BY <1>7
    <3> QED BY <1>7, <3>2, BucketFacts DEF OnGrid, InBar
  <2> QED BY <1>8, <2>1 DEF Planned, Proper
\* All but the last row are whole.
<1>16. ASSUME NEW m \in 1 .. Len(M) - 1, M[m].at >= start PROVE Honest(M[m], s)
  <2>1. m \in DOMAIN M /\ m + 1 \in DOMAIN M
    BY <1>9
  <2>2. CASE \E i \in DOMAIN kept : M[m] = kept[i]
    <3>1. start <= M[m].at
      BY <1>10, <1>16, <2>1
    <3> QED BY <1>11, <2>2, <3>1
  <2>3. CASE M[m] \in D
    <3> DEFINE a == M[m].at
               z == M[m + 1].at
    <3>1. a \in Nat /\ z \in Nat /\ a < z /\ Bucket(a) = a /\ Bucket(z) = z
      BY <1>8, <1>10, <1>15, <2>1 DEF Sorted, OnGrid
    <3> HIDE DEF a, z
    <3>2. a + BarLen <= z
      BY <3>1, BucketFacts
    <3>3. PICK k \in Nat : k \in M[m].ticks /\ Bucket(k) = a /\ Hour(k) \in H /\ k <= n
      BY <1>7, <2>3 DEF a
    <3>4. from <= Hour(k) /\ Hour(k) <= k /\ Hour(k) \in Nat
      BY <1>4, <3>3, HourFacts
    <3>5. from <= k
      BY <1>2, <3>4
    <3>6. from <= a
      <4>1. CASE from <= start
        BY <1>2, <1>16, <3>1, <4>1 DEF a
      <4>2. CASE Bucket(from) = from
        BY <1>2, <3>3, <3>5, <4>2, BucketFacts
      <4> QED BY <4>1, <4>2 DEF Planned
    <3>7. M[m + 1] \in D
      <4>1. \A i \in DOMAIN kept : kept[i].at < z
        BY <1>2, <1>11, <1>12, <3>1, <3>6
      <4>2. ~\E i \in DOMAIN kept : M[m + 1] = kept[i]
        BY <1>12, <3>1, <4>1 DEF z
      <4> QED BY <1>8, <2>1, <4>2
    <3>8. PICK l \in Nat : Bucket(l) = z /\ Hour(l) \in H /\ l <= n
      BY <1>7, <3>7 DEF z
    <3>9. z <= l /\ Hour(l) <= until
      BY <1>4, <3>8, BucketFacts
    <3>10. ASSUME NEW t \in a .. a + BarLen - 1, Open(t), Hour(t) \notin s
           PROVE  t \in M[m].ticks
      <4>1. t \in Nat /\ a <= t /\ t < a + BarLen /\ BarLen \in Nat
        BY <3>1, CacheAssumption DEF CacheAssumption
      <4>2. from <= t /\ t <= l /\ t <= n
        BY <1>2, <3>1, <3>2, <3>6, <3>8, <3>9, <4>1
      <4>3. Hour(t) <= Hour(l) /\ Hour(t) \in Nat /\ Hour(l) \in Nat
        BY <3>8, <4>1, <4>2, HourFacts
      <4>4. Hour(t) \in H
        BY <1>5, <3>9, <3>10, <4>1, <4>2, <4>3
      <4>5. Bucket(t) = a
        BY <3>1, <4>1, BucketFacts
      <4> QED BY <1>7, <2>3, <4>1, <4>2, <4>4, <4>5 DEF a
    <3> QED BY <3>10 DEF Honest, WholeBut, a
  <2> QED BY <1>8, <2>1, <2>2, <2>3
\* No bar is missing before the last.
<1>17. ASSUME Len(M) > 0, NEW t \in start .. M[Len(M)].at - 1,
              Bucket(t) >= start, Open(t), Hour(t) \notin s
       PROVE  Bucket(t) \in Ats(M)
  <2> DEFINE z == M[Len(M)].at
  <2>1. Len(M) \in DOMAIN M
    BY <1>9, <1>17
  <2>2. z \in Nat /\ t \in Nat /\ start <= t /\ t < z
    BY <1>10, <1>17, <2>1
  <2> HIDE DEF z
  <2>3. CASE t < from
    <3>1. \E i \in DOMAIN kept : kept[i].at = Bucket(t)
      BY <1>1, <1>17, <2>2, <2>3, KeptTick
    <3> QED BY <1>8, <3>1 DEF Ats
  <2>4. CASE ~(t < from)
    <3>1. from <= t
      BY <1>2, <2>2, <2>4
    <3>2. M[Len(M)] \in D
      <4>1. ~\E i \in DOMAIN kept : M[Len(M)] = kept[i]
        BY <1>2, <1>11, <1>12, <2>2, <3>1 DEF z
      <4> QED BY <1>8, <2>1, <4>1
    <3>3. PICK l \in Nat : Bucket(l) = z /\ Hour(l) \in H /\ l <= n
      BY <1>7, <3>2 DEF z
    <3>4. z <= l /\ Hour(l) <= until
      BY <1>4, <3>3, BucketFacts
    <3>5. t <= l /\ t <= n
      BY <2>2, <3>3, <3>4
    <3>6. Hour(t) <= Hour(l) /\ Hour(t) \in Nat /\ Hour(l) \in Nat
      BY <2>2, <3>3, <3>5, HourFacts
    <3>7. Hour(t) \in H
      BY <1>5, <1>17, <2>2, <3>1, <3>4, <3>6
    <3> QED BY <1>7, <1>8, <2>2, <3>5, <3>7
  <2> QED BY <2>3, <2>4
<1>18. Sound(M, start, s)
  BY <1>8, <1>15, <1>16, <1>17 DEF Sound, Proper, Covers
\* The caller's window.
<1>19. ASSUME NEW t \in start .. Hour(until) - 1,
              Bucket(t) >= start, Open(t), Hour(t) \notin s
       PROVE  \E i \in DOMAIN M : t \in M[i].ticks
  <2>1. t \in Nat /\ start <= t /\ t < Hour(until) /\ Hour(until) \in Nat /\ Hour(until) <= until
    BY <1>19, HourFacts
  <2>2. CASE t < from
    <3>1. PICK i \in DOMAIN kept : kept[i].at = Bucket(t) /\ t \in kept[i].ticks
      BY <1>1, <1>19, <2>1, <2>2, KeptTick
    <3>2. Bucket(t) \in Ats(kept) /\ Bucket(t) \in Ats(M)
      BY <1>8, <3>1 DEF Ats
    <3>3. PICK m \in DOMAIN M : M[m].at = Bucket(t)
      BY <3>2 DEF Ats
    <3>4. PICK j \in DOMAIN kept : M[m] = kept[j]
      BY <1>8, <3>2, <3>3
    <3>5. j = i
      <4>1. Sorted(kept) /\ kept[j].at = kept[i].at /\ kept[i].at \in Nat
        BY <1>12, <3>1, <3>3, <3>4 DEF Planned, Proper
      <4>2. i \in Nat /\ j \in Nat
        BY <3>1, <3>4
      <4> QED BY <3>1, <3>4, <4>1, <4>2 DEF Sorted
    <3> QED BY <3>1, <3>4, <3>5
  <2>3. CASE ~(t < from)
    <3>1. from <= t /\ t <= n
      BY <1>2, <2>1, <2>3
    <3>2. Hour(t) \in Nat /\ Hour(t) <= until
      BY <2>1, HourFacts
    <3>3. Hour(t) \in H
      BY <1>5, <1>19, <2>1, <3>1, <3>2
    <3> QED BY <1>14, <2>1, <3>1, <3>3
  <2> QED BY <2>2, <2>3
<1> QED BY <1>8, <1>18, <1>19 DEF Served, M, D, H

\* The first row of a result: the first row kept, or the first of the delta.
LEMMA FirstOfMerge ==
  ASSUME NEW start \in Nat, NEW until \in Nat, NEW kept \in Seq(Bar), NEW hours, NEW from, NEW r,
         Planned(start, until, kept, hours, from, r),
         NEW none \in SUBSET hours, NEW n \in Nat,
         Merge(kept, Delta(hours \ none, n)) # <<>>
  PROVE  /\ kept # <<>> => Behind(kept) <= Behind(Merge(kept, Delta(hours \ none, n)))
         /\ kept = <<>> => Bucket(from) + BarLen <= Behind(Merge(kept, Delta(hours \ none, n)))
<1> DEFINE H == hours \ none
           D == Delta(H, n)
           M == Merge(kept, D)
<1>1. from \in Nat /\ Hour(from) = from /\ hours = DeltaHours(from, until) /\ Sorted(kept)
  BY DEF Planned, Proper
<1>2. H \in SUBSET Nat /\ \A h \in H : h <= until /\ Hour(h) = h /\ from <= h
  BY <1>1, DeltaHoursAre, DeltaHoursType
<1>3. D \in SUBSET Bar /\ IsFiniteSet({b.at : b \in D})
  <2> HIDE DEF H
  <2> QED BY <1>2, DeltaType
<1>4. \A b \in D : \E k \in Nat : Hour(k) \in H /\ Bucket(k) = b.at
  <2>1. \A b \in D : /\ b.ticks = {k \in Nat : Hour(k) \in H /\ k <= n /\ Bucket(k) = b.at}
                     /\ b.ticks # {}
    <3> HIDE DEF H
    <3> QED BY <1>2, DeltaIs
  <2> HIDE DEF D, H
  <2> QED BY <2>1
<1>5. /\ M \in Seq(Bar)
      /\ \A k \in DOMAIN M : (\E i \in DOMAIN kept : M[k] = kept[i]) \/ M[k] \in D
  <2> HIDE DEF D
  <2> QED BY <1>3, MergeIs
<1> HIDE DEF H, D, M
<1>6. /\ 1 \in DOMAIN M /\ M[1].at \in Nat /\ BarLen \in Nat
      /\ Behind(M) = M[1].at + BarLen
  <2>1. M # <<>>
    BY DEF M, D, H
  <2>2. 1 \in DOMAIN M /\ M[1] \in Bar
    BY <1>5, <2>1
  <2> QED BY <2>1, <2>2, CacheAssumption DEF Bar, Behind, CacheAssumption
<1>7. \A i \in DOMAIN kept : kept[i].at \in Nat /\ kept[i].at < from
  <2>1. \A i \in DOMAIN kept : kept[i] \in Bar
    OBVIOUS
  <2> QED BY <2>1 DEF Bar, Planned
\* A bar of the delta is no earlier than the bar the delta starts in.
<1>8. M[1] \in D => Bucket(from) <= M[1].at /\ Bucket(from) \in Nat
  <2>1. SUFFICES ASSUME M[1] \in D PROVE Bucket(from) <= M[1].at /\ Bucket(from) \in Nat
    OBVIOUS
  <2>2. PICK k \in Nat : Hour(k) \in H /\ Bucket(k) = M[1].at
    BY <1>4, <2>1
  <2>3. from <= Hour(k) /\ Hour(k) <= k /\ Hour(k) \in Nat
    BY <1>2, <2>2, HourFacts
  <2>4. from <= k
    BY <1>1, <2>3
  <2> QED BY <1>1, <2>2, <2>4, BucketFacts
<1>9. ASSUME kept # <<>> PROVE Behind(kept) <= Behind(M)
  <2>1. 1 \in DOMAIN kept /\ Behind(kept) = kept[1].at + BarLen /\ DOMAIN kept = 1 .. Len(kept)
    BY <1>9 DEF Behind
  <2>2. Bucket(from) = from
    BY <1>9 DEF Planned
  <2>3. kept[1].at <= M[1].at
    <3>1. CASE \E i \in DOMAIN kept : M[1] = kept[i]
      BY <1>1, <1>7, <2>1, <3>1 DEF Sorted
    <3>2. CASE M[1] \in D
      BY <1>1, <1>6, <1>7, <1>8, <2>1, <2>2, <3>2
    <3> QED BY <1>5, <1>6, <3>1, <3>2
  <2> QED BY <1>6, <1>7, <2>1, <2>3
<1>10. ASSUME kept = <<>> PROVE Bucket(from) + BarLen <= Behind(M)
  <2>1. M[1] \in D
    BY <1>5, <1>6, <1>10
  <2> QED BY <1>6, <1>8, <2>1
<1> QED BY <1>9, <1>10 DEF M, D, H

(***************************************************************************)
(* Types, whatever the timeframe and however the callers overlap.          *)
(***************************************************************************)
Typed ==
  /\ TypeOK
  /\ Widest <= now
  /\ \A c \in Callers : \A h \in job[c].hours : h <= job[c].until
  /\ \A c \in Callers : pc[c] \in {"save", "write", "rest"} => Len(job[c].bars) > 2

LEMMA ConfirmedType ==
  ASSUME NEW bars \in Seq(Bar), Len(bars) > 2
  PROVE  /\ Confirmed(bars) \in Seq(Bar)
         /\ Len(Confirmed(bars)) = Len(bars) - 2
         /\ \A i \in 1 .. Len(bars) - 2 : Confirmed(bars)[i] = bars[i]
<1>1. Len(bars) \in Nat /\ DOMAIN bars = 1 .. Len(bars)
  OBVIOUS
<1>2. Confirmed(bars) = SubSeq(bars, 1, Len(bars) - 2) /\ Len(bars) - 2 \in Nat
  BY <1>1 DEF Confirmed
<1>3. \A i \in 1 .. Len(bars) - 2 : i \in DOMAIN bars
  BY <1>1
<1> QED BY <1>1, <1>2, <1>3

LEMMA OverwriteType ==
  ASSUME NEW rows \in Seq(Bar), NEW old \in Seq(Bar)
  PROVE  /\ Overwrite(rows, old) \in Seq(Bar)
         /\ Len(old) <= Len(rows) => Overwrite(rows, old) = rows
<1>1. Len(rows) \in Nat /\ Len(old) \in Nat
  OBVIOUS
<1>2. SubSeq(old, Len(rows) + 1, Len(old)) \in Seq(Bar)
  BY <1>1
<1>3. Len(old) <= Len(rows) => SubSeq(old, Len(rows) + 1, Len(old)) = <<>>
  BY <1>1
<1> QED BY <1>2, <1>3 DEF Overwrite

\* What a writer puts out first: some rows, the last one cut or not.
CutRows(rows, n, cut) ==
  [i \in 1 .. n |-> IF i = n /\ cut THEN [rows[i] EXCEPT !.ticks = {}] ELSE rows[i]]

LEMMA CutRowsAre ==
  ASSUME NEW rows \in Seq(Bar), NEW n \in 1 .. Len(rows), NEW cut \in BOOLEAN
  PROVE  /\ CutRows(rows, n, cut) \in Seq(Bar)
         /\ Len(CutRows(rows, n, cut)) = n
         /\ \A i \in 1 .. n - 1 : CutRows(rows, n, cut)[i] = rows[i]
         /\ \A i \in 1 .. n : /\ CutRows(rows, n, cut)[i].at = rows[i].at
                             /\ CutRows(rows, n, cut)[i].ticks \subseteq rows[i].ticks
<1>1. n \in Nat /\ \A i \in 1 .. n : rows[i] \in Bar
  OBVIOUS
<1>2. \A i \in 1 .. n : [rows[i] EXCEPT !.ticks = {}] \in Bar
  BY <1>1 DEF Bar
<1>3. \A i \in 1 .. n : CutRows(rows, n, cut)[i] \in Bar
  BY <1>1, <1>2 DEF CutRows
<1>4. CutRows(rows, n, cut) \in Seq(Bar) /\ Len(CutRows(rows, n, cut)) = n
  BY <1>1, <1>3 DEF CutRows
<1>5. \A i \in 1 .. n - 1 : CutRows(rows, n, cut)[i] = rows[i]
  BY <1>1 DEF CutRows
<1>6. \A i \in 1 .. n : /\ CutRows(rows, n, cut)[i].at = rows[i].at
                       /\ CutRows(rows, n, cut)[i].ticks \subseteq rows[i].ticks
  BY <1>1 DEF CutRows, Bar
<1> QED BY <1>4, <1>5, <1>6

Job == [start : Nat, reach : Nat, until : Nat, kept : Seq(Bar), hours : SUBSET Nat, bars : Seq(Bar)]

\* The days asked for lie in the past.
LEMMA WindowFacts ==
  ASSUME NEW n \in Nat, Widest <= n
  PROVE  /\ Narrowest \in Nat /\ n - Narrowest \in Nat /\ BarLen \in Nat
         /\ \A days \in Windows : /\ days \in Nat /\ n - days \in Nat
                                  /\ n - days <= n - Narrowest
BY CacheAssumption DEF CacheAssumption

LEMMA ReachType ==
  ASSUME NEW rows \in Seq(Bar), NEW start \in Nat
  PROVE  Reach(rows, start) \in Nat
<1>1. Len(rows) >= 2 => 1 \in DOMAIN rows
  OBVIOUS
<1>2. Len(rows) >= 2 => rows[1].at + BarLen \in Nat
  <2>1. \A i \in DOMAIN rows : rows[i] \in Bar
    OBVIOUS
  <2> QED BY <1>1, <2>1, CacheAssumption DEF Bar, CacheAssumption
<1> QED BY <1>2 DEF Reach

\* The job a call begins with, from the rows it loaded and the start of its days.
Opening(rows, start, n) ==
  [start |-> start, reach |-> Reach(rows, start), until |-> n, kept |-> Kept(rows, start),
   hours |-> DeltaHours(FetchFrom(rows, start), n),
   bars |-> IF DeltaHours(FetchFrom(rows, start), n) = {} THEN Kept(rows, start) ELSE <<>>]

LEMMA TypedInit == Init => Typed
<1> SUFFICES ASSUME Init PROVE Typed
  OBVIOUS
<1>1. Widest \in Nat
  BY CacheAssumption DEF CacheAssumption
<1>2. NoJob \in Job /\ <<>> \in Seq(Bar)
  BY DEF NoJob, Job
<1>3. \A c \in Callers : job[c].hours = {} /\ pc[c] = "idle"
  BY DEF Init, NoJob
<1>4. TypeOK
  BY <1>1, <1>2 DEF Init, TypeOK, Job
<1> QED BY <1>1, <1>3, <1>4 DEF Init, Typed

LEMMA TypedStep == Typed /\ [Next]_vars => Typed'
<1> SUFFICES ASSUME Typed, [Next]_vars PROVE Typed'
  OBVIOUS
<1> USE DEF Goto
<1>0. /\ now \in Nat /\ Widest \in Nat /\ Widest <= now
      /\ file \in Seq(Bar) /\ <<>> \in Seq(Bar)
      /\ \A c \in Callers : job[c] \in Job /\ job[c].bars \in Seq(Bar)
  BY CacheAssumption DEF Typed, TypeOK, CacheAssumption, Job
<1>1. CASE Clock
  <2>1. now + 1 \in Nat /\ Widest <= now + 1
    BY <1>0
  <2> QED BY <1>1, <2>1 DEF Clock, Typed, TypeOK
<1>2. ASSUME NEW c \in Callers, Begin(c) PROVE Typed'
  <2>1. PICK rows \in {file, <<>>}, days \in Windows :
          /\ job' = [job EXCEPT ![c] = Opening(rows, now - days, now)]
          /\ Goto(c, IF DeltaHours(FetchFrom(rows, now - days), now) = {}
                     THEN "done" ELSE "fetch")
    BY <1>2 DEF Begin, Opening
  <2> DEFINE start == now - days
             kept == Kept(rows, start)
             reach == Reach(rows, start)
             hours == DeltaHours(FetchFrom(rows, start), now)
             bars == IF hours = {} THEN kept ELSE <<>>
  <2>2. rows \in Seq(Bar) /\ start \in Nat
    BY <1>0, WindowFacts
  <2> HIDE DEF start
  <2>3. kept \in Seq(Bar) /\ FetchFrom(rows, start) \in Nat /\ reach \in Nat
    BY <2>2, KeptIs, ReachType
  <2>4. hours \in SUBSET Nat /\ \A h \in hours : h <= now
    BY <1>0, <2>3, DeltaHoursType
  <2>5. bars \in Seq(Bar)
    BY <1>0, <2>3
  <2>6. /\ job' = [job EXCEPT ![c] = [start |-> start, reach |-> reach, until |-> now,
                                      kept |-> kept, hours |-> hours, bars |-> bars]]
        /\ pc' = [pc EXCEPT ![c] = IF hours = {} THEN "done" ELSE "fetch"]
    BY <2>1 DEF start, Opening
  <2> HIDE DEF kept, hours, reach, bars
  <2> QED BY <1>0, <1>2, <2>2, <2>3, <2>4, <2>5, <2>6 DEF Begin, Typed, TypeOK
<1>3. ASSUME NEW c \in Callers, Fetch(c) PROVE Typed'
  <2>1. PICK none \in SUBSET job[c].hours :
          LET bars == Merge(job[c].kept, Delta(job[c].hours \ none, now))
          IN /\ refused' = refused \cup {Hour(h) : h \in none}
             /\ job' = [job EXCEPT ![c].bars = bars]
             /\ Goto(c, IF Len(bars) > 2 THEN "save" ELSE "done")
    BY <1>3 DEF Fetch, Delta
  <2> DEFINE H == job[c].hours \ none
             bars == Merge(job[c].kept, Delta(H, now))
  <2>2. /\ job[c].hours \in SUBSET Nat /\ job[c].until \in Nat /\ job[c].kept \in Seq(Bar)
        /\ \A h \in job[c].hours : h <= job[c].until
    BY <1>0 DEF Typed, Job
  <2>3. H \in SUBSET Nat /\ \A h \in H : h <= job[c].until
    BY <2>2
  <2>4. Delta(H, now) \in SUBSET Bar /\ IsFiniteSet({b.at : b \in Delta(H, now)})
    <3> HIDE DEF H
    <3> QED BY <1>0, <2>2, <2>3, DeltaType
  <2>5. bars \in Seq(Bar)
    BY <2>2, <2>4, MergeIs
  <2>6. {Hour(h) : h \in none} \in SUBSET Nat
    <3>1. none \in SUBSET Nat
      BY <2>2
    <3> QED BY <3>1, HourFacts
  <2>7. /\ refused' = refused \cup {Hour(h) : h \in none}
        /\ job' = [job EXCEPT ![c].bars = bars]
        /\ pc' = [pc EXCEPT ![c] = IF Len(bars) > 2 THEN "save" ELSE "done"]
    BY <2>1
  <2> HIDE DEF bars
  <2>8. /\ job' \in [Callers -> Job]
        /\ job'[c].hours = job[c].hours /\ job'[c].until = job[c].until /\ job'[c].bars = bars
        /\ \A d \in Callers : d # c => job'[d] = job[d]
    <3>1. job \in [Callers -> Job]
      BY DEF Typed, TypeOK, Job
    <3>2. job'[c] = [job[c] EXCEPT !.bars = bars]
      BY <2>7, <3>1
    <3>3. job'[c] \in Job
      BY <1>0, <2>5, <3>2 DEF Job
    <3>4. job'[c].hours = job[c].hours /\ job'[c].until = job[c].until /\ job'[c].bars = bars
      BY <1>0, <3>2 DEF Job
    <3> QED BY <2>7, <3>1, <3>3, <3>4
  <2>9. TypeOK'
    BY <1>3, <2>6, <2>7, <2>8 DEF Fetch, Typed, TypeOK, Job
  <2>10. \A d \in Callers : pc'[d] \in {"save", "write", "rest"} => Len(job'[d].bars) > 2
    BY <2>7, <2>8 DEF Typed, TypeOK
  <2>11. \A d \in Callers : \A h \in job'[d].hours : h <= job'[d].until
    BY <2>2, <2>8 DEF Typed
  <2> QED BY <1>3, <2>9, <2>10, <2>11 DEF Fetch, Typed
<1>4. ASSUME NEW c \in Callers, SaveOpen(c) PROVE Typed'
  BY <1>0, <1>4 DEF SaveOpen, Typed, TypeOK
<1>5. ASSUME NEW c \in Callers, SavePart(c) PROVE Typed'
  <2>1. PICK n \in 1 .. Len(Confirmed(job[c].bars)), cut \in BOOLEAN :
          file' = Overwrite(CutRows(Confirmed(job[c].bars), n, cut), file)
    BY <1>5 DEF SavePart, CutRows
  <2>2. Len(job[c].bars) > 2
    BY <1>5 DEF SavePart, Typed
  <2>3. Confirmed(job[c].bars) \in Seq(Bar)
    BY <1>0, <2>2, ConfirmedType
  <2>4. CutRows(Confirmed(job[c].bars), n, cut) \in Seq(Bar)
    BY <2>3, CutRowsAre
  <2>5. file' \in Seq(Bar)
    BY <1>0, <2>1, <2>4, OverwriteType
  <2> QED BY <1>5, <2>5 DEF SavePart, Typed, TypeOK
<1>6. ASSUME NEW c \in Callers, SaveRest(c) PROVE Typed'
  <2>1. Len(job[c].bars) > 2
    BY <1>6 DEF SaveRest, Typed
  <2>2. Confirmed(job[c].bars) \in Seq(Bar)
    BY <1>0, <2>1, ConfirmedType
  <2>3. file' \in Seq(Bar)
    BY <1>0, <1>6, <2>2, OverwriteType DEF SaveRest
  <2> QED BY <1>6, <2>3 DEF SaveRest, Typed, TypeOK
<1>7. ASSUME NEW c \in Callers, Leave(c) PROVE Typed'
  BY <1>0, <1>7 DEF Leave, Typed, TypeOK, NoJob
<1>8. CASE UNCHANGED vars
  BY <1>8 DEF vars, Typed, TypeOK
<1> QED BY <1>1, <1>2, <1>3, <1>4, <1>5, <1>6, <1>7, <1>8 DEF Next

LEMMA AlwaysTyped == Spec => []Typed
BY TypedInit, TypedStep, PTL DEF Spec

\* Types of the call's state and of the file, for every timeframe, and with callers
\* whose loads, fetches and writes interleave in any way.
THEOREM CacheTypes == Spec => []TypeOK
<1>1. Typed => TypeOK
  BY DEF Typed
<1> QED BY <1>1, AlwaysTyped, PTL

(***************************************************************************)
(* The inductive invariant: as long as no two callers had the file open at *)
(* once, the file and every result are sound and every plan goes on where  *)
(* the kept rows stop.  A reader may meet a file that a writer is filling: *)
(* what is there is sound at every moment, so it need not wait.            *)
(***************************************************************************)
\* Rows in order from where the narrowest window of a time n began, and from behind
\* their own first row.
Rowed(rows, n, r) ==
  Sound(rows, n - Narrowest, r) /\ Sound(rows, Behind(rows), r)

Fetchable(j, from, r) ==
  /\ Planned(j.reach, j.until, j.kept, j.hours, from, r)
  /\ Planned(j.until - Narrowest, j.until, j.kept, j.hours, from, r)
  /\ j.kept # <<>> => j.reach <= Behind(j.kept)

Delivered(j, r) ==
  /\ Rowed(j.bars, j.until, r)
  /\ Served(j.reach, j.until, j.bars, r)
  /\ Served(j.until - Narrowest, j.until, j.bars, r)

JobOK(c) ==
  /\ pc[c] # "idle" => Widest <= job[c].until /\ job[c].until <= now
  /\ pc[c] = "fetch" => \E from : Fetchable(job[c], from, refused)
  /\ pc[c] \in {"save", "write", "rest", "done"} => Delivered(job[c], refused)

\* One writer at a time, and the file holds no more than it has to write.
OneWriter ==
  /\ \A c, d \in Callers :
       pc[c] \in {"write", "rest"} /\ pc[d] \in {"write", "rest"} => c = d
  /\ \A c \in Callers : pc[c] = "write" => file = <<>>
  /\ \A c \in Callers : pc[c] = "rest" => Len(file) <= Len(Confirmed(job[c].bars))

FileOK == Rowed(file, now, refused)

Orderly == FileOK /\ OneWriter /\ \A c \in Callers : JobOK(c)

IInv == Typed /\ (~overlapped => Orderly)

LEMMA EmptySound == ASSUME NEW start, NEW r PROVE Sound(<<>>, start, r)
BY DEF Sound, Proper, Sorted

LEMMA EmptyRowed == ASSUME NEW n, NEW r PROVE Rowed(<<>>, n, r)
BY EmptySound DEF Rowed

LEMMA BehindType == ASSUME NEW rows \in Seq(Bar) PROVE Behind(rows) \in Nat
<1>1. rows # <<>> => rows[1] \in Bar
  OBVIOUS
<1> QED BY <1>1, CacheAssumption DEF Behind, Bar, CacheAssumption

LEMMA RowedLater ==
  ASSUME NEW rows \in Seq(Bar), NEW n \in Nat, NEW m \in Nat, Widest <= n, n <= m,
         NEW r, NEW s, r \subseteq s, Rowed(rows, n, r)
  PROVE  Rowed(rows, m, s)
<1>1. /\ n - Narrowest \in Nat /\ m - Narrowest \in Nat /\ n - Narrowest <= m - Narrowest
      /\ Behind(rows) \in Nat /\ Behind(rows) <= Behind(rows)
  BY BehindType, CacheAssumption DEF CacheAssumption
<1>2. Sound(rows, n - Narrowest, r) /\ Sound(rows, Behind(rows), r)
  BY DEF Rowed
<1>3. Sound(rows, m - Narrowest, s)
  BY <1>1, <1>2, LessToAsk
<1>4. Sound(rows, Behind(rows), s)
  BY <1>1, <1>2, LessToAsk
<1> QED BY <1>3, <1>4 DEF Rowed

LEMMA IInvInit == Init => IInv
<1> SUFFICES ASSUME Init PROVE IInv
  OBVIOUS
<1>1. Typed
  BY TypedInit
<1>2. FileOK
  BY EmptyRowed DEF Init, FileOK
<1>3. \A c \in Callers : pc[c] = "idle"
  BY DEF Init
<1> QED BY <1>1, <1>2, <1>3 DEF IInv, Orderly, OneWriter, JobOK

\* What a call begins with, from rows in order.
LEMMA OpeningOK ==
  ASSUME BarsOfHours, NEW rows \in Seq(Bar), NEW n \in Nat, Widest <= n, NEW r,
         Rowed(rows, n, r), NEW days \in Windows
  PROVE  /\ Fetchable(Opening(rows, n - days, n), FetchFrom(rows, n - days), r)
         /\ DeltaHours(FetchFrom(rows, n - days), n) = {} => Delivered(Opening(rows, n - days, n), r)
<1> DEFINE start == n - days
           narrow == n - Narrowest
           kept == Kept(rows, start)
           reach == Reach(rows, start)
           from == FetchFrom(rows, start)
           hours == DeltaHours(from, n)
           j == Opening(rows, start, n)
<1>1. start \in Nat /\ narrow \in Nat /\ start <= narrow
  BY WindowFacts
<1>2. Sound(rows, narrow, r) /\ Sound(rows, Behind(rows), r) /\ Sorted(rows)
  BY DEF Rowed, Sound, Proper
<1>3. Behind(rows) \in Nat
  BY BehindType
<1> HIDE DEF start, narrow
<1>4. /\ reach \in Nat /\ start <= reach
      /\ Len(rows) >= 2 => Behind(rows) <= reach
      /\ kept # <<>> => reach <= Behind(kept)
  BY <1>1, <1>2, ReachOfKept
<1>5. kept \in Seq(Bar)
  BY <1>1, KeptIs
<1> HIDE DEF reach
<1>6. Planned(reach, n, kept, hours, from, r)
  BY <1>1, <1>2, <1>3, <1>4, PlanFromSound
<1>7. Planned(narrow, n, kept, hours, from, r)
  <2>1. narrow <= narrow
    BY <1>1
  <2> QED BY <1>1, <1>2, <2>1, PlanFromSound
<1>8. /\ j.reach = reach /\ j.until = n /\ j.kept = kept /\ j.hours = hours
      /\ j.bars = IF hours = {} THEN kept ELSE <<>>
  BY DEF Opening, reach
<1> HIDE DEF kept, from, hours, j
<1>9. Fetchable(j, from, r)
  BY <1>4, <1>6, <1>7, <1>8 DEF Fetchable, narrow
<1>10. ASSUME hours = {} PROVE Delivered(j, r)
  <2>1. Planned(reach, n, kept, {}, from, r) /\ Planned(narrow, n, kept, {}, from, r)
    BY <1>6, <1>7, <1>10
  <2>2. Sound(kept, reach, r) /\ Served(reach, n, kept, r)
    BY <1>4, <1>5, <2>1, NothingToFetch
  <2>3. Sound(kept, narrow, r) /\ Served(narrow, n, kept, r)
    BY <1>1, <1>5, <2>1, NothingToFetch
  <2>4. Sound(kept, Behind(kept), r)
    <3>1. CASE kept = <<>>
      BY <3>1, EmptySound
    <3>2. CASE kept # <<>>
      <4>1. Behind(kept) \in Nat
        BY <1>5, BehindType
      <4> QED BY <1>4, <1>5, <2>2, <3>2, <4>1, LessToAsk
    <3> QED BY <3>1, <3>2
  <2> QED BY <1>8, <1>10, <2>2, <2>3, <2>4 DEF Delivered, Rowed, narrow
<1> QED BY <1>9, <1>10 DEF j, from, hours, start

\* What it ends up with when the hours have come.
LEMMA FetchedOK ==
  ASSUME NEW j \in Job, Widest <= j.until, NEW n \in Nat, j.until <= n,
         NEW r, NEW from, Fetchable(j, from, r),
         NEW none \in SUBSET j.hours, NEW s, r \subseteq s, \A h \in none : Hour(h) \in s
  PROVE  LET bars == Merge(j.kept, Delta(j.hours \ none, n))
         IN /\ bars \in Seq(Bar)
            /\ Rowed(bars, j.until, s)
            /\ Served(j.reach, j.until, bars, s)
            /\ Served(j.until - Narrowest, j.until, bars, s)
<1> DEFINE reach == j.reach
           until == j.until
           kept == j.kept
           hours == j.hours
           narrow == until - Narrowest
           bars == Merge(kept, Delta(hours \ none, n))
<1>1. reach \in Nat /\ until \in Nat /\ kept \in Seq(Bar) /\ narrow \in Nat
  <2>1. reach \in Nat /\ until \in Nat /\ kept \in Seq(Bar)
    BY DEF Job
  <2> QED BY <2>1, CacheAssumption DEF CacheAssumption
<1>2. /\ Planned(reach, until, kept, hours, from, r)
      /\ Planned(narrow, until, kept, hours, from, r)
      /\ kept # <<>> => reach <= Behind(kept)
  BY DEF Fetchable
<1>3. none \in SUBSET hours /\ until <= n
  OBVIOUS
<1> HIDE DEF reach, until, kept, hours, narrow, bars
<1>4. bars \in Seq(Bar) /\ Sound(bars, reach, s) /\ Served(reach, until, bars, s)
  BY <1>1, <1>2, <1>3, FetchedSound DEF bars
<1>5. Sound(bars, narrow, s) /\ Served(narrow, until, bars, s)
  BY <1>1, <1>2, <1>3, FetchedSound DEF bars
<1>6. Sound(bars, Behind(bars), s)
  <2>1. CASE bars = <<>>
    BY <2>1, EmptySound
  <2>2. CASE bars # <<>>
    <3> DEFINE low == IF kept = <<>> THEN Bucket(from) + BarLen ELSE reach
    <3>1. from \in Nat /\ Bucket(from) \in Nat /\ BarLen \in Nat /\ from < Bucket(from) + BarLen
      BY <1>2, BucketFacts, CacheAssumption DEF Planned, CacheAssumption
    <3>2. low \in Nat /\ Behind(bars) \in Nat /\ Behind(kept) \in Nat
      BY <1>1, <1>4, <3>1, BehindType
    <3>3. low <= Behind(bars)
      <4>1. /\ kept # <<>> => Behind(kept) <= Behind(bars)
            /\ kept = <<>> => Bucket(from) + BarLen <= Behind(bars)
        BY <1>1, <1>2, <1>3, <2>2, FirstOfMerge DEF bars
      <4> QED BY <1>1, <1>2, <3>2, <4>1
    <3>4. Planned(low, until, kept, hours, from, r)
      <4>1. CASE kept # <<>>
        BY <1>2, <4>1
      <4>2. CASE kept = <<>>
        <5>1. from <= low
          BY <3>1, <4>2
        <5>2. Covers(kept, low, from, r)
          BY <3>1, <4>2 DEF Covers
        <5> QED BY <1>2, <4>2, <5>1, <5>2 DEF Planned
      <4> QED BY <4>1, <4>2
    <3> HIDE DEF low
    <3>5. Sound(bars, low, s)
      BY <1>1, <1>3, <3>2, <3>4, FetchedSound DEF bars
    <3> QED BY <1>4, <3>2, <3>3, <3>5, LessToAsk
  <2> QED BY <2>1, <2>2
<1> QED BY <1>4, <1>5, <1>6 DEF Rowed, reach, until, kept, hours, narrow, bars

\* What a caller has stays right while the clock runs and hours are refused.
LEMMA JobKeeps ==
  ASSUME Typed, now' \in Nat, now <= now', refused \subseteq refused',
         NEW c \in Callers, JobOK(c), job'[c] = job[c], pc'[c] = pc[c]
  PROVE  JobOK(c)'
<1> DEFINE j == job[c]
<1>1. /\ j \in Job /\ j.reach \in Nat /\ j.until \in Nat
      /\ j.kept \in Seq(Bar) /\ j.bars \in Seq(Bar)
  BY DEF Typed, TypeOK, Job
<1>2. now \in Nat
  BY DEF Typed, TypeOK
<1> HIDE DEF j
<1>3. pc[c] # "idle" => Widest <= j.until /\ j.until <= now'
  BY <1>1, <1>2 DEF JobOK, j
<1>4. /\ j.reach <= j.reach
      /\ pc[c] # "idle" => j.until - Narrowest \in Nat /\ j.until - Narrowest <= j.until - Narrowest
  BY <1>1, <1>3, CacheAssumption DEF CacheAssumption
<1>5. ASSUME pc[c] # "idle", Delivered(j, refused) PROVE Delivered(j, refused')
  <2>1. j.until <= j.until
    BY <1>1
  <2>2. Rowed(j.bars, j.until, refused')
    BY <1>1, <1>3, <1>5, <2>1, RowedLater DEF Delivered
  <2>3. Served(j.reach, j.until, j.bars, refused')
    BY <1>1, <1>4, <1>5, LessToAsk DEF Delivered
  <2>4. Served(j.until - Narrowest, j.until, j.bars, refused')
    BY <1>1, <1>4, <1>5, LessToAsk DEF Delivered
  <2> QED BY <2>2, <2>3, <2>4 DEF Delivered
<1>6. ASSUME pc[c] # "idle", NEW from, Fetchable(j, from, refused)
      PROVE  Fetchable(j, from, refused')
  <2>1. Planned(j.reach, j.until, j.kept, j.hours, from, refused')
    BY <1>1, <1>4, <1>6, LessToAsk DEF Fetchable
  <2>2. Planned(j.until - Narrowest, j.until, j.kept, j.hours, from, refused')
    BY <1>1, <1>4, <1>6, LessToAsk DEF Fetchable
  <2> QED BY <1>6, <2>1, <2>2 DEF Fetchable
<1>7. pc'[c] # "idle" => Widest <= job'[c].until /\ job'[c].until <= now'
  BY <1>3 DEF j
<1>8. pc'[c] = "fetch" => \E from : Fetchable(job'[c], from, refused')
  BY <1>6 DEF JobOK, j
<1>9. pc'[c] \in {"save", "write", "rest", "done"} => Delivered(job'[c], refused')
  BY <1>5 DEF JobOK, j
<1> QED BY <1>7, <1>8, <1>9 DEF JobOK

LEMMA FileKeeps ==
  ASSUME Typed, now' \in Nat, now <= now', refused \subseteq refused', FileOK, file' = file
  PROVE  FileOK'
<1>1. file \in Seq(Bar) /\ now \in Nat /\ Widest <= now
  BY DEF Typed, TypeOK
<1>2. Rowed(file, now', refused')
  BY <1>1, RowedLater DEF FileOK
<1> QED BY <1>2 DEF FileOK

LEMMA IInvStep ==
  ASSUME BarsOfHours
  PROVE  IInv /\ [Next]_vars => IInv'
<1> SUFFICES ASSUME IInv, [Next]_vars PROVE IInv'
  OBVIOUS
<1> USE DEF Goto
<1>0. /\ Typed /\ Typed'
      /\ now \in Nat /\ Widest <= now
      /\ file \in Seq(Bar) /\ job \in [Callers -> Job]
      /\ pc \in [Callers -> {"idle", "fetch", "save", "write", "rest", "done"}]
      /\ \A c \in Callers : /\ job[c] \in Job /\ job[c].bars \in Seq(Bar)
                            /\ job[c].kept \in Seq(Bar)
                            /\ job[c].until \in Nat
  <2>1. Typed
    BY DEF IInv
  <2>2. Typed'
    BY <2>1, TypedStep
  <2> QED BY <2>1, <2>2, CacheAssumption DEF Typed, TypeOK, CacheAssumption, Job
<1> SUFFICES ASSUME ~overlapped' PROVE Orderly'
  BY <1>0 DEF IInv
<1>n. ~overlapped
  BY <1>0 DEF Next, vars, Clock, Begin, Fetch, SaveOpen, SavePart, SaveRest, Leave, Typed, TypeOK
<1>o. FileOK /\ OneWriter /\ \A c \in Callers : JobOK(c)
  BY <1>n DEF IInv, Orderly
<1>1. CASE Clock
  <2>1. now' \in Nat /\ now <= now' /\ refused \subseteq refused' /\ file' = file
    BY <1>0, <1>1 DEF Clock
  <2>2. FileOK'
    BY <1>0, <1>o, <2>1, FileKeeps
  <2>3. \A c \in Callers : JobOK(c)'
    BY <1>0, <1>1, <1>o, <2>1, JobKeeps DEF Clock
  <2>4. OneWriter'
    BY <1>1, <1>o DEF Clock, OneWriter
  <2> QED BY <2>2, <2>3, <2>4 DEF Orderly
<1>2. ASSUME NEW c \in Callers, Begin(c) PROVE Orderly'
  <2>1. PICK rows \in {file, <<>>}, days \in Windows :
          /\ job' = [job EXCEPT ![c] = Opening(rows, now - days, now)]
          /\ Goto(c, IF DeltaHours(FetchFrom(rows, now - days), now) = {}
                     THEN "done" ELSE "fetch")
    BY <1>2 DEF Begin, Opening
  <2> DEFINE j == Opening(rows, now - days, now)
             from == FetchFrom(rows, now - days)
             hours == DeltaHours(from, now)
  <2>2. rows \in Seq(Bar) /\ Rowed(rows, now, refused)
    <3>1. Rowed(file, now, refused)
      BY <1>o DEF FileOK
    <3>2. Rowed(<<>>, now, refused)
      BY EmptyRowed
    <3>3. <<>> \in Seq(Bar)
      OBVIOUS
    <3>4. CASE rows = file
      BY <1>0, <3>1, <3>4
    <3>5. CASE rows = <<>>
      BY <3>2, <3>3, <3>5
    <3> QED BY <3>4, <3>5
  <2>3. Fetchable(j, from, refused) /\ (hours = {} => Delivered(j, refused))
    BY <1>0, <2>2, OpeningOK
  <2>4. j.until = now
    BY DEF Opening
  <2> HIDE DEF j, from, hours
  <2>5. /\ job' = [job EXCEPT ![c] = j]
        /\ pc' = [pc EXCEPT ![c] = IF hours = {} THEN "done" ELSE "fetch"]
    BY <2>1 DEF j, from, hours
  <2>6. now' = now /\ file' = file /\ refused' = refused
    BY <1>2 DEF Begin
  <2>7. job'[c] = j /\ pc'[c] = IF hours = {} THEN "done" ELSE "fetch"
    BY <1>0, <2>5
  <2>8. JobOK(c)'
    BY <1>0, <2>3, <2>4, <2>6, <2>7 DEF JobOK
  <2>9. ASSUME NEW d \in Callers, d # c PROVE JobOK(d)'
    BY <1>0, <1>o, <2>5, <2>6, <2>9, JobKeeps
  <2>10. FileOK'
    BY <1>o, <2>6 DEF FileOK
  <2>11. OneWriter'
    BY <1>0, <1>o, <2>5, <2>6, <2>7 DEF OneWriter
  <2> QED BY <2>8, <2>9, <2>10, <2>11 DEF Orderly
<1>3. ASSUME NEW c \in Callers, Fetch(c) PROVE Orderly'
  <2> DEFINE j == job[c]
  <2>1. PICK none \in SUBSET j.hours :
          LET bars == Merge(j.kept, Delta(j.hours \ none, now))
          IN /\ refused' = refused \cup {Hour(h) : h \in none}
             /\ job' = [job EXCEPT ![c].bars = bars]
             /\ Goto(c, IF Len(bars) > 2 THEN "save" ELSE "done")
    BY <1>3 DEF Fetch, Delta
  <2> DEFINE bars == Merge(j.kept, Delta(j.hours \ none, now))
  <2>2. pc[c] = "fetch" /\ now' = now /\ file' = file
    BY <1>3 DEF Fetch
  <2>3. PICK from : Fetchable(j, from, refused)
    BY <1>o, <2>2 DEF JobOK
  <2>4. j \in Job /\ Widest <= j.until /\ j.until <= now
    BY <1>0, <1>o, <2>2 DEF JobOK
  <2>5. refused \subseteq refused' /\ \A h \in none : Hour(h) \in refused'
    BY <2>1
  <2>6. /\ job' = [job EXCEPT ![c].bars = bars]
        /\ pc' = [pc EXCEPT ![c] = IF Len(bars) > 2 THEN "save" ELSE "done"]
    BY <2>1
  <2> HIDE DEF j
  <2>7. /\ Rowed(bars, j.until, refused')
        /\ Served(j.reach, j.until, bars, refused')
        /\ Served(j.until - Narrowest, j.until, bars, refused')
    BY <1>0, <2>3, <2>4, <2>5, FetchedOK
  <2> HIDE DEF bars
  <2>8. /\ job'[c].reach = j.reach /\ job'[c].until = j.until /\ job'[c].bars = bars
        /\ pc'[c] = IF Len(bars) > 2 THEN "save" ELSE "done"
    <3>1. job'[c] = [job[c] EXCEPT !.bars = bars]
      BY <1>0, <2>6
    <3> QED BY <1>0, <2>6, <3>1 DEF Job, j
  <2>9. JobOK(c)'
    BY <2>2, <2>4, <2>7, <2>8 DEF JobOK, Delivered
  <2>10. ASSUME NEW d \in Callers, d # c PROVE JobOK(d)'
    <3>1. job'[d] = job[d] /\ pc'[d] = pc[d]
      BY <1>0, <2>6, <2>10
    <3>2. now' \in Nat /\ now <= now'
      BY <1>0, <2>2
    <3> QED BY <1>0, <1>o, <2>5, <3>1, <3>2, JobKeeps
  <2>11. FileOK'
    <3>1. now' \in Nat /\ now <= now'
      BY <1>0, <2>2
    <3> QED BY <1>0, <1>o, <2>2, <2>5, <3>1, FileKeeps
  <2>12. OneWriter'
    BY <1>0, <1>o, <2>2, <2>6, <2>8 DEF OneWriter
  <2> QED BY <2>9, <2>10, <2>11, <2>12 DEF Orderly
<1>s. ASSUME NEW c \in Callers, SaveOpen(c) \/ SavePart(c) \/ SaveRest(c), FileOK'
      PROVE  \A d \in Callers : JobOK(d)'
  <2>1. /\ now' = now /\ job' = job /\ refused' = refused
        /\ pc[c] \in {"save", "write", "rest"} /\ pc'[c] \in {"write", "rest", "done"}
        /\ \A d \in Callers : d # c => pc'[d] = pc[d]
    BY <1>0, <1>s DEF SaveOpen, SavePart, SaveRest
  <2>2. JobOK(c)'
    BY <1>o, <2>1 DEF JobOK
  <2>3. ASSUME NEW d \in Callers, d # c PROVE JobOK(d)'
    <3>1. job'[d] = job[d] /\ pc'[d] = pc[d] /\ now' \in Nat /\ now <= now'
      BY <1>0, <2>1, <2>3
    <3> QED BY <1>0, <1>o, <2>1, <3>1, JobKeeps
  <2> QED BY <2>2, <2>3
<1>r. ASSUME NEW c \in Callers, pc[c] \in {"write", "rest"}
      PROVE  /\ Confirmed(job[c].bars) \in Seq(Bar)
             /\ \A rows \in Seq(Bar) :
                  /\ Len(rows) <= Len(Confirmed(job[c].bars))
                  /\ \A i \in 1 .. Len(rows) - 1 : rows[i] = Confirmed(job[c].bars)[i]
                  /\ \A i \in 1 .. Len(rows) :
                       /\ rows[i].at = Confirmed(job[c].bars)[i].at
                       /\ rows[i].ticks \subseteq Confirmed(job[c].bars)[i].ticks
                  => Rowed(rows, now, refused)
  <2> DEFINE bars == job[c].bars
             conf == Confirmed(bars)
  <2>1. bars \in Seq(Bar) /\ Len(bars) > 2 /\ Len(bars) \in Nat
    BY <1>0, <1>r DEF Typed
  <2>2. /\ conf \in Seq(Bar) /\ Len(conf) = Len(bars) - 2
        /\ \A i \in 1 .. Len(bars) - 2 : conf[i] = bars[i]
    BY <2>1, ConfirmedType
  <2>3. Rowed(bars, job[c].until, refused) /\ Widest <= job[c].until /\ job[c].until <= now
    BY <1>o, <1>r DEF JobOK, Delivered
  <2>4. job[c].until \in Nat /\ job[c].until - Narrowest \in Nat /\ Behind(bars) \in Nat
    BY <1>0, <2>1, <2>3, BehindType, CacheAssumption DEF CacheAssumption
  <2> HIDE DEF bars, conf
  <2>5. ASSUME NEW rows \in Seq(Bar), Len(rows) <= Len(conf),
               \A i \in 1 .. Len(rows) - 1 : rows[i] = conf[i],
               \A i \in 1 .. Len(rows) :
                 rows[i].at = conf[i].at /\ rows[i].ticks \subseteq conf[i].ticks
        PROVE  Rowed(rows, now, refused)
    <3>1. Len(rows) \in Nat /\ Len(rows) <= Len(bars)
      BY <2>1, <2>2, <2>5
    <3>2. \A i \in 1 .. Len(rows) : conf[i] = bars[i]
      BY <2>1, <2>2, <2>5, <3>1
    <3>3. \A i \in 1 .. Len(rows) - 1 : rows[i] = bars[i]
      BY <2>5, <3>1, <3>2
    <3>4. \A i \in 1 .. Len(rows) :
            rows[i].at = bars[i].at /\ rows[i].ticks \subseteq bars[i].ticks
      BY <2>5, <3>2
    <3>5. Sound(rows, job[c].until - Narrowest, refused)
      BY <2>1, <2>3, <2>4, <3>1, <3>3, <3>4, PrefixSound DEF Rowed
    <3>6. Sound(rows, Behind(bars), refused)
      BY <2>1, <2>3, <2>4, <3>1, <3>3, <3>4, PrefixSound DEF Rowed
    <3>7. rows # <<>> => Behind(rows) = Behind(bars)
      <4>1. rows # <<>> => 1 \in 1 .. Len(rows) /\ bars # <<>>
        BY <2>1, <3>1
      <4> QED BY <3>4, <4>1 DEF Behind
    <3>8. Rowed(rows, job[c].until, refused)
      BY <3>5, <3>6, <3>7, EmptySound DEF Rowed
    <3> QED BY <1>0, <2>3, <3>8, RowedLater
  <2> QED BY <2>2, <2>5 DEF conf, bars
<1>4. ASSUME NEW c \in Callers, SaveOpen(c) PROVE Orderly'
  <2>1. /\ file' = <<>> /\ pc' = [pc EXCEPT ![c] = "write"]
        /\ \A d \in Callers : pc[d] \notin {"write", "rest"}
    BY <1>4 DEF SaveOpen
  <2>2. FileOK'
    BY <2>1, EmptyRowed DEF FileOK
  <2>3. OneWriter'
    BY <1>0, <2>1 DEF OneWriter
  <2> QED BY <1>4, <1>s, <2>2, <2>3 DEF Orderly
<1>5. ASSUME NEW c \in Callers, SavePart(c) PROVE Orderly'
  <2> DEFINE conf == Confirmed(job[c].bars)
  <2>1. PICK n \in 1 .. Len(conf), cut \in BOOLEAN :
          file' = Overwrite(CutRows(conf, n, cut), file)
    BY <1>5 DEF SavePart, CutRows
  <2>2. /\ pc[c] = "write" /\ file = <<>> /\ pc' = [pc EXCEPT ![c] = "rest"]
        /\ now' = now /\ refused' = refused /\ job' = job
    BY <1>5, <1>o DEF SavePart, OneWriter
  <2>3. conf \in Seq(Bar)
    BY <1>r, <2>2
  <2> HIDE DEF conf
  <2>4. /\ CutRows(conf, n, cut) \in Seq(Bar)
        /\ Len(CutRows(conf, n, cut)) = n
        /\ \A i \in 1 .. n - 1 : CutRows(conf, n, cut)[i] = conf[i]
        /\ \A i \in 1 .. n : /\ CutRows(conf, n, cut)[i].at = conf[i].at
                            /\ CutRows(conf, n, cut)[i].ticks \subseteq conf[i].ticks
    BY <2>3, CutRowsAre
  <2>5. n \in Nat /\ n <= Len(conf) /\ Len(<<>>) <= n
    BY <2>3
  <2>6. file' = CutRows(conf, n, cut)
    BY <1>0, <2>1, <2>2, <2>4, <2>5, OverwriteType
  <2>7. FileOK'
    <3>1. Rowed(CutRows(conf, n, cut), now, refused)
      BY <1>r, <2>2, <2>4, <2>5 DEF conf
    <3> QED BY <2>2, <2>6, <3>1 DEF FileOK
  <2>8. OneWriter'
    BY <1>0, <1>o, <2>2, <2>4, <2>5, <2>6 DEF OneWriter, conf
  <2> QED BY <1>5, <1>s, <2>7, <2>8 DEF Orderly
<1>6. ASSUME NEW c \in Callers, SaveRest(c) PROVE Orderly'
  <2> DEFINE conf == Confirmed(job[c].bars)
  <2>1. /\ pc[c] \in {"write", "rest"} /\ pc' = [pc EXCEPT ![c] = "done"]
        /\ now' = now /\ refused' = refused /\ job' = job
        /\ file' = Overwrite(conf, file)
    BY <1>6 DEF SaveRest
  <2>2. conf \in Seq(Bar) /\ Len(conf) \in Nat
    BY <1>r, <2>1
  <2>3. Len(file) <= Len(conf)
    BY <1>o, <2>1, <2>2 DEF OneWriter
  <2>4. file' = conf
    BY <1>0, <2>1, <2>2, <2>3, OverwriteType
  <2>5. FileOK'
    <3>1. Rowed(conf, now, refused)
      BY <1>r, <2>1, <2>2
    <3> QED BY <2>1, <2>4, <3>1 DEF FileOK
  <2>6. OneWriter'
    BY <1>0, <1>o, <2>1 DEF OneWriter
  <2> QED BY <1>6, <1>s, <2>5, <2>6 DEF Orderly
<1>7. ASSUME NEW c \in Callers, Leave(c) PROVE Orderly'
  <2>1. /\ pc' = [pc EXCEPT ![c] = "idle"] /\ job' = [job EXCEPT ![c] = NoJob]
        /\ now' = now /\ file' = file /\ refused' = refused
    BY <1>7 DEF Leave
  <2>2. FileOK'
    BY <1>o, <2>1 DEF FileOK
  <2>3. OneWriter'
    BY <1>0, <1>o, <2>1 DEF OneWriter
  <2>4. JobOK(c)'
    BY <1>0, <2>1 DEF JobOK
  <2>5. ASSUME NEW d \in Callers, d # c PROVE JobOK(d)'
    <3>1. job'[d] = job[d] /\ pc'[d] = pc[d] /\ now' \in Nat /\ now <= now'
      BY <1>0, <2>1, <2>5
    <3> QED BY <1>0, <1>o, <2>1, <3>1, JobKeeps
  <2> QED BY <2>2, <2>3, <2>4, <2>5 DEF Orderly
<1>8. CASE UNCHANGED vars
  BY <1>8, <1>o DEF vars, Orderly, FileOK, OneWriter, JobOK
<1> QED BY <1>1, <1>2, <1>3, <1>4, <1>5, <1>6, <1>7, <1>8 DEF Next

LEMMA Invariance == ASSUME BarsOfHours PROVE Spec => []IInv
<1>1. IInv /\ [Next]_vars => IInv'
  BY IInvStep
<1> QED BY <1>1, IInvInit, PTL DEF Spec

(***************************************************************************)
(* The properties.                                                         *)
(***************************************************************************)
LEMMA TakenIsKept ==
  ASSUME Typed, NEW days \in Windows
  PROVE  /\ Kept(file, now - days) \in Seq(Bar)
         /\ Taken(days) \in Seq(Bar)
         /\ \A k \in DOMAIN Taken(days) : \E i \in DOMAIN Kept(file, now - days) :
              Taken(days)[k] = Kept(file, now - days)[i]
         /\ Ats(Taken(days)) = Ats(Kept(file, now - days))
<1>1. file \in Seq(Bar) /\ now \in Nat /\ Widest <= now
  BY DEF Typed, TypeOK
<1>2. now - days \in Nat
  BY <1>1, WindowFacts
<1> DEFINE kept == Kept(file, now - days)
<1>3. kept \in Seq(Bar)
  BY <1>1, <1>2, KeptIs
<1>4. IsFiniteSet({}) /\ {b.at : b \in {}} = {}
  BY FS_EmptySet
<1> HIDE DEF kept
<1>5. /\ Merge(kept, {}) \in Seq(Bar)
      /\ \A k \in DOMAIN Merge(kept, {}) : \E i \in DOMAIN kept : Merge(kept, {})[k] = kept[i]
      /\ Ats(Merge(kept, {})) = Ats(kept)
  <2>1. /\ Merge(kept, {}) \in Seq(Bar)
        /\ \A k \in DOMAIN Merge(kept, {}) :
             \/ \E i \in DOMAIN kept : Merge(kept, {})[k] = kept[i]
             \/ Merge(kept, {})[k] \in {} /\ Merge(kept, {})[k].at \notin Ats(kept)
        /\ Ats(Merge(kept, {})) = Ats(kept) \cup {b.at : b \in {}}
    BY <1>3, <1>4, MergeIs
  <2> QED BY <1>4, <2>1
<1> QED BY <1>3, <1>5 DEF Taken, kept

\* A row taken over is on the grid, of the file, in the window, and has what it should.
LEMMA TakenRow ==
  ASSUME BarsOfHours, IInv, ~overlapped, NEW days \in Windows,
         NEW i \in DOMAIN Kept(file, now - days)
  PROVE  LET row == Kept(file, now - days)[i]
         IN /\ row \in Bar /\ OnGrid(row) /\ InBar(row)
            /\ file # <<>> /\ file[1].at \in Nat /\ file[1].at <= row.at /\ now - days <= row.at
            /\ row.at >= now - Narrowest \/ row.at # file[1].at => Honest(row, refused)
<1> DEFINE start == now - days
           kept == Kept(file, start)
           from == FetchFrom(file, start)
           row == kept[i]
<1>1. /\ file \in Seq(Bar) /\ now \in Nat /\ Widest <= now
      /\ start \in Nat /\ now - Narrowest \in Nat /\ BarLen \in Nat
      /\ Rowed(file, now, refused) /\ Sorted(file)
  <2>1. file \in Seq(Bar) /\ now \in Nat /\ Widest <= now /\ Rowed(file, now, refused)
    BY DEF IInv, Typed, TypeOK, Orderly, FileOK
  <2> QED BY <2>1, WindowFacts DEF Rowed, Sound, Proper
<1> HIDE DEF start
<1>2. /\ kept \in Seq(Bar)
      /\ \E k \in DOMAIN file : row = file[k] /\ start <= file[k].at /\ file[k].at < from
  BY <1>1, KeptIs DEF start
<1>3. PICK k \in DOMAIN file : row = file[k] /\ start <= file[k].at /\ file[k].at < from
  BY <1>2
<1> HIDE DEF kept
<1>4. /\ DOMAIN file = 1 .. Len(file) /\ 1 \in DOMAIN file /\ file # <<>>
      /\ row \in Bar /\ row.at \in Nat /\ file[1] \in Bar /\ file[1].at \in Nat
  <2>1. DOMAIN file = 1 .. Len(file) /\ 1 \in DOMAIN file /\ file # <<>>
    BY <1>1
  <2>2. file[1] \in Bar /\ file[k] \in Bar
    BY <1>1, <2>1
  <2> QED BY <1>3, <2>1, <2>2 DEF Bar
<1>5. file[1].at <= row.at
  BY <1>1, <1>3, <1>4 DEF Sorted
<1>6. OnGrid(row) /\ OnGrid(file[1]) /\ InBar(row)
  BY <1>1, <1>3, <1>4 DEF Rowed, Sound, Proper
\* The row is not the last one: the delta starts no later than that.
<1>7. k \in 1 .. Len(file) - 1
  <2>1. Len(file) \in Nat /\ (Len(file) >= 2 => Len(file) - 1 \in DOMAIN file)
    BY <1>1
  <2>2. CASE Len(file) >= 2
    <3>1. from = file[Len(file) - 1].at
      BY <2>2 DEF FetchFrom
    <3>2. k > Len(file) - 1 => file[Len(file) - 1].at < file[k].at
      BY <1>1, <2>1, <2>2 DEF Sorted
    <3>3. file[k].at \in Nat /\ file[Len(file) - 1].at \in Nat
      <4>1. file[k] \in Bar /\ file[Len(file) - 1] \in Bar
        BY <1>1, <2>1, <2>2
      <4> QED BY <4>1 DEF Bar
    <3>4. ~(k > Len(file) - 1)
      BY <1>3, <3>1, <3>2, <3>3
    <3> QED BY <1>4, <2>1, <3>4
  <2>3. CASE ~(Len(file) >= 2)
    <3>1. from <= start
      BY <1>1, <2>3, HourFacts DEF FetchFrom
    <3>2. from \in Nat
      BY <1>1, KeptIs
    <3> QED BY <1>1, <1>3, <1>4, <3>1, <3>2
  <2> QED BY <2>2, <2>3
<1>8. ASSUME row.at >= now - Narrowest PROVE Honest(row, refused)
  BY <1>1, <1>3, <1>7, <1>8 DEF Rowed, Sound
<1>9. ASSUME row.at # file[1].at PROVE Honest(row, refused)
  <2>1. file[1].at < row.at
    BY <1>4, <1>5, <1>9
  <2>2. file[1].at + BarLen <= row.at
    BY <1>4, <1>6, <2>1, BucketFacts DEF OnGrid
  <2>3. row.at >= Behind(file)
    BY <1>1, <1>4, <2>2 DEF Behind
  <2> QED BY <1>1, <1>3, <1>7, <2>3 DEF Rowed, Sound
<1> QED BY <1>3, <1>4, <1>5, <1>6, <1>8, <1>9 DEF kept, start

\* The rows a call takes over from the file hold every tick of their bar and no other,
\* for every timeframe of whole hours: the two rows that Confirmed leaves out and the
\* row that FetchFrom goes back cover every bar that may have been incomplete, and a
\* file cut short by a crash at any row or read while it is being written is covered
\* as well, whatever days the callers asked for.  Two callers with the file open at
\* once are excluded, and the file's first row, once every window has moved past it.
THEOREM CacheStaysHonest == ASSUME BarsOfHours PROVE Spec => []CacheHonest
<1>1. IInv => CacheHonest
  <2>1. SUFFICES ASSUME IInv, ~overlapped, NEW days \in Windows, NEW k \in DOMAIN Taken(days)
                 PROVE  LET row == Taken(days)[k]
                        IN /\ row.at >= now - Narrowest \/ row.at # file[1].at =>
                                Whole(row.at) \subseteq row.ticks
                           /\ \A t \in row.ticks : Bucket(t) = row.at
    BY DEF CacheHonest
  <2>2. PICK i \in DOMAIN Kept(file, now - days) : Taken(days)[k] = Kept(file, now - days)[i]
    BY <2>1, TakenIsKept DEF IInv
  <2> DEFINE row == Taken(days)[k]
  <2>3. InBar(row) /\ (row.at >= now - Narrowest \/ row.at # file[1].at => Honest(row, refused))
    BY <2>1, <2>2, TakenRow
  <2> QED BY <2>3 DEF Honest, InBar, Whole, WholeBut
<1> QED BY <1>1, Invariance, PTL

\* From the first row taken over to the start of the delta no served bar is missing,
\* for a call of any days.
THEOREM CacheStaysUnbroken == ASSUME BarsOfHours PROVE Spec => []CacheUnbroken
<1>1. IInv => CacheUnbroken
  <2>1. SUFFICES ASSUME IInv, ~overlapped, NEW days \in Windows, Taken(days) # <<>>,
                        NEW t \in Taken(days)[1].at .. FetchFrom(file, now - days) - 1,
                        Open(t), Hour(t) \notin refused
                 PROVE  \E k \in DOMAIN Taken(days) : Taken(days)[k].at = Bucket(t)
    BY DEF CacheUnbroken
  <2> DEFINE start == now - days
             kept == Kept(file, start)
             from == FetchFrom(file, start)
             reach == Reach(file, start)
  <2>2. /\ Taken(days) \in Seq(Bar) /\ kept \in Seq(Bar)
        /\ \A k \in DOMAIN Taken(days) : \E i \in DOMAIN kept : Taken(days)[k] = kept[i]
        /\ Ats(Taken(days)) = Ats(kept)
    BY <2>1, TakenIsKept DEF IInv
  <2>3. 1 \in DOMAIN Taken(days)
    BY <2>1, <2>2
  <2>4. PICK i \in DOMAIN kept : Taken(days)[1] = kept[i]
    BY <2>2, <2>3
  <2> DEFINE row == kept[i]
  <2>5. /\ row \in Bar /\ OnGrid(row)
        /\ file # <<>> /\ file[1].at \in Nat /\ file[1].at <= row.at /\ start <= row.at
    BY <2>1, TakenRow
  <2>6. /\ file \in Seq(Bar) /\ now \in Nat /\ start \in Nat /\ Sorted(file)
        /\ Behind(file) \in Nat /\ Sound(file, Behind(file), refused) /\ BarLen \in Nat
    <3>1. file \in Seq(Bar) /\ now \in Nat /\ Widest <= now /\ Rowed(file, now, refused)
      BY <2>1 DEF IInv, Typed, TypeOK, Orderly, FileOK
    <3> QED BY <3>1, WindowFacts, BehindType DEF Rowed, Sound, Proper
  <2> HIDE DEF start
  <2>7. /\ reach \in Nat /\ start <= reach
        /\ Len(file) >= 2 => Behind(file) <= reach
    BY <2>6, ReachOfKept
  <2>8. Planned(reach, now, kept, DeltaHours(from, now), from, refused)
    <3> HIDE DEF reach
    <3> QED BY <2>6, <2>7, PlanFromSound
  <2>9. row.at \in Nat /\ row.at <= t /\ t < from /\ t \in Nat /\ from \in Nat
    <3>1. t \in row.at .. from - 1 /\ row.at \in Nat /\ from \in Nat
      BY <2>1, <2>4, <2>5, <2>8 DEF Bar, Planned, start
    <3> HIDE DEF row, from
    <3> QED BY <3>1
  <2>10. Bucket(row.at) = row.at
    BY <2>5 DEF OnGrid
  <2>11. reach <= row.at + BarLen
    BY <2>5, <2>6, <2>9 DEF Reach
  <2> HIDE DEF row, from, reach, kept
  <2>12. Bucket(t) \in Ats(kept)
    <3>1. /\ Bucket(t) \in Nat /\ Bucket(Bucket(t)) = Bucket(t) /\ Bucket(t) <= t
          /\ row.at <= Bucket(t)
      BY <2>9, <2>10, BucketFacts
    <3>2. CASE Bucket(t) = row.at
      BY <3>2 DEF Ats, row
    <3>3. CASE Bucket(t) # row.at
      <4>1. row.at + BarLen <= Bucket(t)
        BY <2>9, <2>10, <3>1, <3>3, BucketFacts
      <4>2. Bucket(t) >= reach /\ t \in reach .. from - 1
        BY <2>6, <2>7, <2>9, <2>11, <3>1, <4>1
      <4> QED BY <2>1, <2>8, <4>2 DEF Planned, Covers
    <3> QED BY <3>2, <3>3
  <2> QED BY <2>2, <2>12 DEF Ats
<1> QED BY <1>1, Invariance, PTL

\* A call returns its bars in order, each datetime once, with every served tick from the
\* bar it can be sure of to its last full hour, and whatever happened to the file before
\* every served tick of the narrowest window.
THEOREM WindowIsServed == ASSUME BarsOfHours PROVE Spec => []WindowServed
<1>1. IInv => WindowServed
  <2>1. SUFFICES ASSUME IInv, ~overlapped, NEW c \in Callers,
                        pc[c] \in {"save", "write", "rest", "done"}
                 PROVE  /\ \A i \in 1 .. Len(job[c].bars) - 1 :
                             job[c].bars[i].at < job[c].bars[i + 1].at
                        /\ \A t \in job[c].start .. Hour(job[c].until) - 1 :
                             /\ Open(t) /\ Hour(t) \notin refused
                             /\ Bucket(t) >= job[c].reach \/ Bucket(t) >= job[c].until - Narrowest
                             => \E i \in DOMAIN job[c].bars : t \in job[c].bars[i].ticks
    BY DEF WindowServed
  <2> DEFINE bars == job[c].bars
             j == job[c]
  <2>2. Delivered(j, refused)
    BY <2>1 DEF IInv, Orderly, JobOK
  <2>3. /\ bars \in Seq(Bar) /\ j.start \in Nat /\ j.reach \in Nat /\ j.until \in Nat
        /\ j.until - Narrowest \in Nat
    <3>1. bars \in Seq(Bar) /\ j.start \in Nat /\ j.reach \in Nat /\ j.until \in Nat
      BY <2>1 DEF IInv, Typed, TypeOK
    <3>2. Widest <= j.until
      BY <2>1 DEF IInv, Orderly, JobOK
    <3> QED BY <3>1, <3>2, CacheAssumption DEF CacheAssumption
  <2>4. \A i \in 1 .. Len(bars) - 1 : bars[i].at < bars[i + 1].at
    <3> HIDE DEF bars
    <3>1. ASSUME NEW i \in 1 .. Len(bars) - 1
          PROVE  i \in DOMAIN bars /\ i + 1 \in DOMAIN bars /\ i < i + 1
      BY <2>3
    <3> QED BY <2>2, <3>1 DEF bars, Delivered, Rowed, Sound, Proper, Sorted
  <2>5. ASSUME NEW t \in j.start .. Hour(j.until) - 1, Open(t), Hour(t) \notin refused,
               Bucket(t) >= j.reach \/ Bucket(t) >= j.until - Narrowest
        PROVE  \E i \in DOMAIN bars : t \in bars[i].ticks
    <3>1. /\ t \in Nat /\ t < Hour(j.until) /\ Hour(j.until) \in Nat
          /\ Bucket(t) \in Nat /\ Bucket(t) <= t
      <4>1. Hour(j.until) \in Nat
        BY <2>3, HourFacts
      <4>2. t \in Nat /\ t < Hour(j.until)
        BY <2>3, <2>5, <4>1
      <4> QED BY <4>1, <4>2, BucketFacts
    <3> HIDE DEF bars, j
    <3>2. CASE Bucket(t) >= j.reach
      <4>1. t \in j.reach .. Hour(j.until) - 1
        BY <2>3, <3>1, <3>2
      <4> QED BY <2>2, <2>5, <3>2, <4>1 DEF Delivered, Served, bars, j
    <3>3. CASE Bucket(t) >= j.until - Narrowest
      <4>1. t \in j.until - Narrowest .. Hour(j.until) - 1
        BY <2>3, <3>1, <3>3
      <4> QED BY <2>2, <2>5, <3>3, <4>1 DEF Delivered, Served, bars, j
    <3> QED BY <2>5, <3>2, <3>3
  <2> QED BY <2>4, <2>5
<1> QED BY <1>1, Invariance, PTL
===============================================================================
