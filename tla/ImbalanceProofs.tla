---------------------------- MODULE ImbalanceProofs ----------------------------
(***************************************************************************)
(* Proofs about the v5.1 study (ImbalanceCells, ImbalancePipeline) for any *)
(* pairs, cells, months and ticks, any number of commands and a backfill   *)
(* anywhere between them.                                                  *)
(***************************************************************************)
EXTENDS ImbalancePipeline, FiniteSetTheorems, WellFoundedInduction, TLAPS

(***************************************************************************)
(* Naturals, finite sets and sums                                          *)
(***************************************************************************)
LEMMA LeastNatural ==
  ASSUME NEW S, S \subseteq Nat, S # {}
  PROVE  \E x \in S : \A y \in S : x <= y
<1> DEFINE R == {ss \in Nat \X Nat : ss[1] < ss[2]}
<1>1. IsWellFoundedOn(R, Nat)
  BY NatLessThanWellFounded DEF OpToRel
<1>2. PICK x \in S : \A y \in S : <<y, x>> \notin R
  BY <1>1, WFMin
<1>3. ASSUME NEW y \in S, y < x PROVE FALSE
  <2>1. <<y, x>> \in R
    BY <1>3
  <2> QED  BY <1>2, <2>1
<1> QED
  BY <1>3

LEMMA Induction ==
  ASSUME NEW S, 0 \in S, \A n \in Nat : n \in S => n + 1 \in S
  PROVE  \A n \in Nat : n \in S
<1> SUFFICES ASSUME NEW n \in Nat, n \notin S PROVE FALSE
  OBVIOUS
<1>1. PICK x \in Nat \ S : \A y \in Nat \ S : x <= y
  <2>1. Nat \ S \subseteq Nat /\ Nat \ S # {}
    OBVIOUS
  <2> QED  BY <2>1, LeastNatural
<1>2. x # 0
  BY <1>1
<1>3. x - 1 \in Nat /\ x - 1 \in S /\ (x - 1) + 1 = x
  BY <1>1, <1>2
<1> QED
  BY <1>1, <1>3

LEMMA FiniteMax ==
  ASSUME NEW S, IsFiniteSet(S), S \subseteq Int, S # {}
  PROVE  Max(S) \in S /\ \A y \in S : y <= Max(S)
<1> DEFINE above(x) == {y \in S : y > x}
           N == {Cardinality(above(x)) : x \in S}
<1>1. \A x \in S : IsFiniteSet(above(x)) /\ Cardinality(above(x)) \in Nat
  <2> TAKE x \in S
  <2>1. above(x) \in SUBSET S
    OBVIOUS
  <2> HIDE DEF above
  <2> QED  BY <2>1, FS_Subset, FS_CardinalityType
<1>2. \E x \in S : \A z \in S : Cardinality(above(x)) <= Cardinality(above(z))
  <2> HIDE DEF above
  <2>1. N \subseteq Nat /\ N # {}
    BY <1>1
  <2>2. \E n \in N : \A m \in N : n <= m
    <3> HIDE DEF N
    <3> QED  BY <2>1, LeastNatural
  <2> QED  BY <2>2
<1>3. PICK x \in S : \A z \in S : Cardinality(above(x)) <= Cardinality(above(z))
  BY <1>2
<1>4. ASSUME NEW y \in S, y > x PROVE FALSE
  <2>0. x \in Int /\ y \in Int /\ \A z \in S : z \in Int
    OBVIOUS
  <2>1. above(y) \in SUBSET above(x) /\ y \in above(x) /\ y \notin above(y)
    <3>1. \A z \in S : z > y => z > x
      BY <1>4, <2>0
    <3>2. ~(y > y)
      BY <2>0
    <3> QED  BY <1>4, <3>1, <3>2
  <2> HIDE DEF above
  <2>2. Cardinality(above(y)) <= Cardinality(above(x)) /\ Cardinality(above(y)) # Cardinality(above(x))
    BY <1>1, <2>1, FS_Subset
  <2> QED  BY <1>1, <1>3, <2>2
<1>5. \A y \in S : y <= x
  BY <1>4
<1>6. \E z \in S : \A y \in S : z >= y
  BY <1>5
<1> QED
  BY <1>6 DEF Max

\* What is made of the elements of a finite set, one of each.
LEMMA FiniteImage ==
  ASSUME NEW S, IsFiniteSet(S), NEW f, DOMAIN f = S
  PROVE  IsFiniteSet({f[x] : x \in S})
<1> DEFINE T == {f[x] : x \in S}
           g == [x \in S |-> f[x]]
<1>1. g \in Surjection(S, T)
  BY DEF Surjection
<1> HIDE DEF g, T
<1>2. IsFiniteSet(T)
  BY <1>1, FS_Surjection
<1> QED
  BY <1>2 DEF T

SumStep(S, sum, f) ==
  sum = [s \in SUBSET S |-> IF s = {} THEN 0
                            ELSE LET x == CHOOSE y \in s : TRUE IN f[x] + sum[s \ {x}]]

LEMMA SumIs ==
  ASSUME NEW f
  PROVE  SumFunction(f) = (CHOOSE sum : SumStep(DOMAIN f, sum, f))[DOMAIN f]
BY DEF SumFunction, SumFunctionOnSet, FoldFunctionOnSet, MapThenFoldSet, SumStep

LEMMA EmptySum ==
  ASSUME NEW f, DOMAIN f = {}
  PROVE  SumFunction(f) = 0
<1> DEFINE sum == CHOOSE g : SumStep({}, g, f)
           zero == [s \in SUBSET {} |-> 0]
<1>1. \A s \in SUBSET {} : s = {}
  OBVIOUS
<1>2. zero = [s \in SUBSET {} |-> IF s = {} THEN 0
                                  ELSE LET x == CHOOSE y \in s : TRUE IN f[x] + zero[s \ {x}]]
  BY <1>1
<1>3. SumStep({}, zero, f)
  BY <1>2 DEF SumStep
<1>4. SumStep({}, sum, f)
  BY <1>3
<1> HIDE DEF sum
<1>5. sum[{}] = 0
  BY <1>4 DEF SumStep
<1> QED
  BY <1>5, SumIs DEF sum

LEMMA SumExists ==
  ASSUME NEW S, IsFiniteSet(S), NEW f
  PROVE  \E sum : SumStep(S, sum, f)
<1> DEFINE Sub(n) == {s \in SUBSET S : Cardinality(s) <= n}
           Of(s, g) == IF s = {} THEN 0 ELSE LET x == CHOOSE y \in s : TRUE IN f[x] + g[s \ {x}]
           N == {n \in Nat : \E g : g = [s \in Sub(n) |-> Of(s, g)]}
<1>1. \A s \in SUBSET S : IsFiniteSet(s) /\ Cardinality(s) \in Nat /\ Cardinality(s) <= Cardinality(S)
  BY FS_Subset, FS_CardinalityType
<1>2. \A s \in SUBSET S : s # {} => LET x == CHOOSE y \in s : TRUE
                                   IN /\ x \in s /\ s \ {x} \in SUBSET S
                                      /\ Cardinality(s \ {x}) = Cardinality(s) - 1
  <2> TAKE s \in SUBSET S
  <2> SUFFICES ASSUME s # {} PROVE LET x == CHOOSE y \in s : TRUE
                                   IN /\ x \in s /\ s \ {x} \in SUBSET S
                                      /\ Cardinality(s \ {x}) = Cardinality(s) - 1
    OBVIOUS
  <2> DEFINE x == CHOOSE y \in s : TRUE
  <2>1. x \in s
    OBVIOUS
  <2> HIDE DEF x
  <2>2. s \ {x} \in SUBSET S /\ Cardinality(s \ {x}) = Cardinality(s) - 1
    BY <1>1, <2>1, FS_RemoveElement
  <2> QED  BY <2>1, <2>2 DEF x
<1>3. 0 \in N
  <2> DEFINE g == [s \in Sub(0) |-> 0]
  <2>1. \A s \in Sub(0) : s = {}
    BY <1>1, FS_EmptySet
  <2>2. g = [s \in Sub(0) |-> Of(s, g)]
    BY <2>1
  <2> QED  BY <2>2
<1>4. ASSUME NEW n \in Nat, n \in N PROVE n + 1 \in N
  <2>1. PICK g : g = [s \in Sub(n) |-> Of(s, g)]
    BY <1>4
  <2> DEFINE h == [s \in Sub(n + 1) |-> IF s \in Sub(n) THEN g[s] ELSE Of(s, g)]
  <2>2. Sub(n) \subseteq Sub(n + 1)
    BY <1>1
  <2>3. \A s \in Sub(n + 1) : s # {} => LET x == CHOOSE y \in s : TRUE IN s \ {x} \in Sub(n)
    BY <1>1, <1>2
  <2>4. \A s \in Sub(n) : g[s] = Of(s, g)
    <3> HIDE DEF Of
    <3> QED  BY <2>1
  <2> HIDE DEF Sub
  <2>5. \A s \in Sub(n) : h[s] = g[s]
    BY <2>2
  <2>6. \A s \in Sub(n + 1) : h[s] = Of(s, g)
    <3> HIDE DEF Of
    <3> QED  BY <2>4
  <2>7. DOMAIN h = Sub(n + 1) /\ h = [s \in DOMAIN h |-> h[s]]
    OBVIOUS
  <2> HIDE DEF h
  <2>8. \A s \in Sub(n + 1) : Of(s, h) = Of(s, g)
    BY <2>3, <2>5
  <2>9. h = [s \in Sub(n + 1) |-> Of(s, h)]
    <3> HIDE DEF Of
    <3> QED  BY <2>6, <2>7, <2>8
  <2> QED  BY <2>9
<1>5. \A n \in Nat : n \in N
  <2> HIDE DEF N
  <2> QED  BY <1>3, <1>4, Induction
<1>6. Cardinality(S) \in Nat /\ Sub(Cardinality(S)) = SUBSET S
  BY <1>1, FS_CardinalityType
<1>7. PICK g : g = [s \in Sub(Cardinality(S)) |-> Of(s, g)]
  <2> HIDE DEF Sub, Of
  <2> QED  BY <1>5, <1>6
<1> QED
  BY <1>6, <1>7 DEF SumStep

LEMMA SumType ==
  ASSUME NEW f, IsFiniteSet(DOMAIN f), \A x \in DOMAIN f : f[x] \in Int
  PROVE  SumFunction(f) \in Int
<1> DEFINE S == DOMAIN f
           sum == CHOOSE g : SumStep(S, g, f)
           N == {n \in Nat : \A s \in SUBSET S : Cardinality(s) = n => sum[s] \in Int}
<1> HIDE DEF S
<1>1. SumStep(S, sum, f)
  BY SumExists DEF S
<1> HIDE DEF sum
<1>2. \A s \in SUBSET S : IsFiniteSet(s) /\ Cardinality(s) \in Nat
  BY FS_Subset, FS_CardinalityType DEF S
<1>3. \A s \in SUBSET S : sum[s] = IF s = {} THEN 0 ELSE LET x == CHOOSE y \in s : TRUE IN f[x] + sum[s \ {x}]
  BY <1>1 DEF SumStep
<1>4. 0 \in N
  <2> SUFFICES ASSUME NEW s \in SUBSET S, Cardinality(s) = 0 PROVE sum[s] \in Int
    OBVIOUS
  <2>1. IsFiniteSet(s)
    BY <1>2
  <2>2. s = {}
    BY <2>1, FS_EmptySet
  <2>3. sum[s] = 0
    BY <1>3, <2>2
  <2> QED  BY <2>3
<1>5. ASSUME NEW n \in Nat, n \in N PROVE n + 1 \in N
  <2> SUFFICES ASSUME NEW s \in SUBSET S, Cardinality(s) = n + 1 PROVE sum[s] \in Int
    OBVIOUS
  <2> DEFINE x == CHOOSE y \in s : TRUE
  <2>1. s # {}
    BY FS_EmptySet
  <2>2. x \in s /\ sum[s] = f[x] + sum[s \ {x}]
    BY <1>3, <2>1
  <2> HIDE DEF x
  <2>3. s \ {x} \in SUBSET S /\ Cardinality(s \ {x}) = n
    BY <1>2, <2>2, FS_RemoveElement
  <2>4. sum[s \ {x}] \in Int /\ f[x] \in Int
    BY <1>5, <2>2, <2>3 DEF S
  <2> QED  BY <2>2, <2>4
<1>6. \A n \in Nat : n \in N
  <2> HIDE DEF N
  <2> QED  BY <1>4, <1>5, Induction
<1>7. sum[S] \in Int
  BY <1>2, <1>6
<1> QED
  BY <1>7, SumIs DEF S, sum

(***************************************************************************)
(* The grid of half minutes                                                *)
(***************************************************************************)
Even(a) == \E k \in Int : a = 2 * k

LEMMA FloorIs ==
  ASSUME NEW t \in Nat
  PROVE  Floor(t) \in Nat /\ Even(Floor(t)) /\ Floor(t) <= t /\ t < Floor(t) + Grid
<1>1. t % 2 \in {0, 1} /\ t = 2 * (t \div 2) + (t % 2) /\ t \div 2 \in Nat
  OBVIOUS
<1> QED
  BY <1>1 DEF Floor, Grid, Even

LEMMA EvenBelow ==
  ASSUME NEW a, NEW b, Even(a), Even(b), a < b
  PROVE  a + 2 <= b
BY DEF Even

LEMMA EvenSum ==
  ASSUME NEW a, NEW b, Even(a), Even(b)
  PROVE  Even(a + b) /\ Even(a - b) /\ a \in Int /\ b \in Int
<1> PICK k \in Int, m \in Int : a = 2 * k /\ b = 2 * m
  BY DEF Even
<1>1. a + b = 2 * (k + m) /\ a - b = 2 * (k - m) /\ k + m \in Int /\ k - m \in Int
  OBVIOUS
<1>2. Even(a + b)
  BY <1>1 DEF Even
<1>3. Even(a - b)
  BY <1>1 DEF Even
<1> QED
  BY <1>2, <1>3

LEMMA MonthsAre ==
  /\ Month \in Nat /\ IsMonths \in Nat /\ IsEnd \in Nat /\ Even(IsEnd) /\ IsEnd > 0
  /\ \A m \in Int : ShardStart(m) \in Int /\ Even(ShardStart(m)) /\ ShardStart(m + 1) = ShardStart(m) + Month
  /\ \A m \in Months : 0 <= ShardStart(m) /\ ShardStart(m) < ShardStart(m + 1) /\ ShardStart(m + 1) <= IsEnd
<1>1. Month \in Nat /\ Month > 0 /\ IsMonths \in Nat /\ IsMonths > 0
  BY CellsAssumption
<1>2. PICK k \in Nat : Month = 2 * k
  <2>1. Month = 2 * (Month \div 2) /\ Month \div 2 \in Nat
    BY <1>1, CellsAssumption DEF Grid
  <2> QED  BY <2>1
<1>3. \A m \in Int : m * Month = 2 * (m * k) /\ m * k \in Int /\ m * Month \in Int
  BY <1>1, <1>2
<1>4. \A m \in Int : /\ ShardStart(m) = (m - 1) * Month /\ (m - 1) * Month \in Int
                     /\ ShardStart(m + 1) = (m - 1) * Month + Month
                     /\ ShardStart(m + 1) = m * Month
  BY <1>1 DEF ShardStart
<1>5. \A m \in Int : Even(ShardStart(m))
  <2> TAKE m \in Int
  <2>1. (m - 1) * Month = 2 * ((m - 1) * k) /\ (m - 1) * k \in Int
    BY <1>3
  <2> QED  BY <1>4, <2>1 DEF Even
<1>6. IsEnd = IsMonths * Month /\ Even(IsEnd) /\ IsEnd \in Nat /\ IsEnd > 0
  <2>1. IsMonths * Month = 2 * (IsMonths * k) /\ IsMonths * k \in Int
    BY <1>1, <1>3
  <2>2. IsMonths * Month \in Nat /\ IsMonths * Month > 0
    BY <1>1
  <2> QED  BY <2>1, <2>2 DEF Even, IsEnd
<1>7. ASSUME NEW m \in Months PROVE 0 <= ShardStart(m) /\ ShardStart(m + 1) <= IsEnd
  <2>1. m \in Nat /\ 1 <= m /\ m <= IsMonths
    BY <1>1, <1>7 DEF Months
  <2>2. 0 <= (m - 1) * Month
    BY <1>1, <2>1
  <2>3. m * Month <= IsMonths * Month
    BY <1>1, <2>1
  <2> QED  BY <1>4, <1>6, <2>1, <2>2, <2>3
<1>8. \A m \in Months : m \in Int
  BY DEF Months
<1>9. \A m \in Int : ShardStart(m) \in Int /\ ShardStart(m + 1) = ShardStart(m) + Month
  BY <1>4
<1> QED
  BY <1>1, <1>9, <1>5, <1>6, <1>7, <1>8

\* The month an in-sample entry is in.
LEMMA MonthOf ==
  ASSUME NEW a \in Nat, a < IsEnd
  PROVE  \E m \in Months : ShardStart(m) <= a /\ a < ShardStart(m + 1)
<1> DEFINE q == a \div Month
<1>1. Month \in Nat /\ Month > 0 /\ IsMonths \in Nat
  BY CellsAssumption
<1>2. q \in Nat /\ q * Month <= a /\ a < (q + 1) * Month
  BY <1>1
<1> HIDE DEF q
<1>3. q < IsMonths
  <2> SUFFICES ASSUME IsMonths <= q PROVE FALSE
    BY <1>1, <1>2
  <2>1. IsMonths * Month <= q * Month
    BY <1>1, <1>2
  <2>2. IsMonths * Month \in Nat /\ q * Month \in Nat
    BY <1>1, <1>2
  <2> QED  BY <1>2, <2>1, <2>2 DEF IsEnd
<1>4. q + 1 \in Months /\ (q + 1) - 1 = q /\ (q + 1 + 1) - 1 = q + 1
  BY <1>1, <1>2, <1>3 DEF Months
<1>5. ShardStart(q + 1) <= a /\ a < ShardStart(q + 1 + 1)
  BY <1>2, <1>4 DEF ShardStart
<1> QED
  BY <1>4, <1>5

(***************************************************************************)
(* Events, and what of the ticks they depend on                            *)
(***************************************************************************)
TickType == [at : Nat, bid : Nat, ask : Nat, bidVolume : Nat, askVolume : Nat]

\* The ticks an in-sample study may see: six minutes after its window are the last.
Known(T) == {t \in T : t.at < IsEnd + Slack}

EventOK(e) ==
  /\ e.cell \in Cells /\ e.entry \in Nat /\ Even(e.entry)
  /\ e.exit = e.entry + e.cell.horizon /\ e.exit \in Nat /\ Even(e.exit)
  /\ e.stance \in {1, -1}

LEMMA HorizonsAre == \A h \in Horizons : h \in Nat /\ Even(h) /\ 4 <= h /\ h <= 20
<1>1. \A h \in {4, 12, 20} : h \in Nat /\ 4 <= h /\ h <= 20 /\ h = 2 * (h \div 2) /\ h \div 2 \in Int
  OBVIOUS
<1>2. Horizons \subseteq {4, 12, 20}
  BY CellsAssumption
<1>3. \A h \in {4, 12, 20} : Even(h)
  BY <1>1 DEF Even
<1> QED
  BY <1>1, <1>2, <1>3

LEMMA EventsAre ==
  ASSUME NEW T, NEW e
  PROVE  e \in Events(T) <=> \E c \in Cells : e \in CellEvents(c, Scored(T, c.family, c.lookback))
<1>1. \A c \in Cells : c.family \in Families /\ c.lookback \in Lookbacks
  BY DEF Cells
<1>2. ASSUME NEW c \in Cells, e \in CellEvents(c, Scored(T, c.family, c.lookback)) PROVE e \in Events(T)
  <2>1. <<c.family, c.lookback>> \in Families \X Lookbacks
    BY <1>1
  <2> QED  BY <1>2, <2>1 DEF Events
<1>3. ASSUME e \in Events(T) PROVE \E c \in Cells : e \in CellEvents(c, Scored(T, c.family, c.lookback))
  BY <1>3 DEF Events
<1> QED
  BY <1>2, <1>3

LEMMA EntriesAre ==
  ASSUME NEW T \in SUBSET TickType, NEW n \in Entries(T)
  PROVE  n \in Nat /\ Even(n)
<1>1. PICK t \in T : n = Floor(t.at) + Grid
  BY DEF Entries
<1>2. t.at \in Nat
  BY DEF TickType
<1>3. Floor(t.at) \in Nat /\ Even(Floor(t.at)) /\ Even(2)
  BY <1>2, FloorIs DEF Even
<1> QED
  BY <1>1, <1>3, EvenSum DEF Grid

\* An event of a cell, and where it comes from.
LEMMA EventFrom ==
  ASSUME NEW c, NEW scored, NEW e
  PROVE  e \in CellEvents(c, scored) <=>
           \E level \in Threshold(scored, c.threshold) : \E x \in scored :
             /\ Size(x.score) >= level
             /\ e = [cell |-> c, entry |-> x.entry, exit |-> x.entry + c.horizon,
                     stance |-> Stance(c.direction, Side(x.score, level))]
BY DEF CellEvents

LEMMA EventIs ==
  ASSUME NEW T \in SUBSET TickType, NEW e \in Events(T)
  PROVE  EventOK(e)
<1>1. PICK c \in Cells : e \in CellEvents(c, Scored(T, c.family, c.lookback))
  BY EventsAre
<1>2. PICK level \in Threshold(Scored(T, c.family, c.lookback), c.threshold), x \in Scored(T, c.family, c.lookback) :
        e = [cell |-> c, entry |-> x.entry, exit |-> x.entry + c.horizon,
             stance |-> Stance(c.direction, Side(x.score, level))]
  BY <1>1, EventFrom
<1>3. x.entry \in Entries(T)
  BY DEF Scored
<1>4. x.entry \in Nat /\ Even(x.entry)
  BY <1>3, EntriesAre
<1>5. c.horizon \in Nat /\ Even(c.horizon)
  BY HorizonsAre DEF Cells
<1>6. Even(x.entry + c.horizon)
  BY <1>4, <1>5, EvenSum
<1>7. Stance(c.direction, Side(x.score, level)) \in {1, -1}
  BY DEF Stance
<1>8. /\ e.cell = c /\ e.entry = x.entry /\ e.exit = x.entry + c.horizon
      /\ e.stance = Stance(c.direction, Side(x.score, level))
  BY <1>2
<1>9. x.entry + c.horizon \in Nat
  BY <1>4, <1>5
<1> HIDE <1>2
<1> QED
  BY <1>4, <1>5, <1>6, <1>7, <1>8, <1>9 DEF EventOK

LEMMA EntryKnown ==
  ASSUME NEW T \in SUBSET TickType, NEW U \in SUBSET TickType, Known(T) = Known(U),
         NEW n \in Nat, n < IsEnd
  PROVE  /\ n \in Entries(T) => n \in Entries(U)
         /\ Bucket(T, n) \subseteq Bucket(U, n)
<1>1. ASSUME NEW t \in T, Floor(t.at) + Grid = n PROVE t \in U
  <2>1. t.at \in Nat /\ IsEnd \in Nat
    BY MonthsAre DEF TickType
  <2>2. Floor(t.at) \in Nat /\ t.at < Floor(t.at) + Grid
    BY <2>1, FloorIs
  <2>3. t \in Known(T)
    BY <1>1, <2>1, <2>2 DEF Known, Slack
  <2> QED  BY <2>3 DEF Known
<1>2. n \in Entries(T) => n \in Entries(U)
  BY <1>1 DEF Entries
<1>3. Bucket(T, n) \subseteq Bucket(U, n)
  BY <1>1 DEF Bucket
<1> QED
  BY <1>2, <1>3

LEMMA ScoreKnown ==
  ASSUME NEW T \in SUBSET TickType, NEW U \in SUBSET TickType, Known(T) = Known(U),
         NEW n \in Nat, n < IsEnd, NEW f, NEW l
  PROVE  Score(T, f, l, n) = Score(U, f, l, n)
<1>1. IsEnd \in Nat
  BY MonthsAre
<1>2. \A x \in Nat : x < IsEnd => /\ x \in Entries(T) <=> x \in Entries(U)
                                  /\ Bucket(T, x) = Bucket(U, x)
  BY EntryKnown
<1>3. Entries(T) \subseteq Nat /\ Entries(U) \subseteq Nat
  BY EntriesAre
<1>4. \A x \in Nat : x <= n => x < IsEnd
  BY <1>1
<1>5. \A x : {y \in Entries(T) : x < y /\ y <= n} = {y \in Entries(U) : x < y /\ y <= n}
  BY <1>2, <1>3, <1>4
<1>6. LookbackWindow(T, n, l) = LookbackWindow(U, n, l)
  BY <1>2, <1>3, <1>4, <1>5 DEF LookbackWindow
<1>7. \A x \in LookbackWindow(T, n, l) : Bucket(T, x) = Bucket(U, x)
  BY <1>2, <1>3, <1>4 DEF LookbackWindow
<1> DEFINE W == LookbackWindow(T, n, l)
<1>8. /\ [x \in W |-> SumFunction([t \in Bucket(T, x) |-> t.bidVolume])]
           = [x \in W |-> SumFunction([t \in Bucket(U, x) |-> t.bidVolume])]
      /\ [x \in W |-> SumFunction([t \in Bucket(T, x) |-> t.askVolume])]
           = [x \in W |-> SumFunction([t \in Bucket(U, x) |-> t.askVolume])]
      /\ [x \in W |-> Moves(Bucket(T, x), 1)] = [x \in W |-> Moves(Bucket(U, x), 1)]
      /\ [x \in W |-> Moves(Bucket(T, x), -1)] = [x \in W |-> Moves(Bucket(U, x), -1)]
  BY <1>7
<1> HIDE DEF W
<1> QED
  BY <1>6, <1>8 DEF Score, W

LEMMA ScoredKnown ==
  ASSUME NEW T \in SUBSET TickType, NEW U \in SUBSET TickType, Known(T) = Known(U), NEW f, NEW l
  PROVE  {x \in Scored(T, f, l) : x.entry < IsEnd} = {x \in Scored(U, f, l) : x.entry < IsEnd}
<1>1. Entries(T) \subseteq Nat /\ Entries(U) \subseteq Nat
  BY EntriesAre
<1>2. \A n \in Nat : n < IsEnd => /\ n \in Entries(T) <=> n \in Entries(U)
                                  /\ Score(T, f, l, n) = Score(U, f, l, n)
  BY EntryKnown, ScoreKnown
<1>3. \A x : x \in Scored(T, f, l) <=> \E n \in Entries(T) :
               x = [entry |-> n, score |-> Score(T, f, l, n)] /\ Score(T, f, l, n) # NoScore
  BY DEF Scored
<1>4. \A x : x \in Scored(U, f, l) <=> \E n \in Entries(U) :
               x = [entry |-> n, score |-> Score(U, f, l, n)] /\ Score(U, f, l, n) # NoScore
  BY DEF Scored
<1> QED
  BY <1>1, <1>2, <1>3, <1>4

\* The events of the in-sample window do not depend on ticks after it.
LEMMA EventsKnown ==
  ASSUME NEW T \in SUBSET TickType, NEW U \in SUBSET TickType, Known(T) = Known(U)
  PROVE  IsEvents(Events(T)) \subseteq IsEvents(Events(U))
<1> SUFFICES ASSUME NEW e \in Events(T), 0 <= e.entry, e.entry < IsEnd PROVE e \in Events(U)
  BY DEF IsEvents
<1>1. PICK c \in Cells : e \in CellEvents(c, Scored(T, c.family, c.lookback))
  BY EventsAre
<1> DEFINE S == Scored(T, c.family, c.lookback)
           V == Scored(U, c.family, c.lookback)
<1>2. {x \in S : x.entry < IsEnd} = {x \in V : x.entry < IsEnd}
  BY ScoredKnown
<1> HIDE DEF S, V
<1>3. Threshold(S, c.threshold) = Threshold(V, c.threshold)
  BY <1>2 DEF Threshold
<1>4. PICK level \in Threshold(S, c.threshold), x \in S :
        /\ Size(x.score) >= level
        /\ e = [cell |-> c, entry |-> x.entry, exit |-> x.entry + c.horizon,
                stance |-> Stance(c.direction, Side(x.score, level))]
  BY <1>1, EventFrom DEF S
<1>5. x \in V
  BY <1>2, <1>4
<1>6. e \in CellEvents(c, V)
  BY <1>3, <1>4, <1>5, EventFrom
<1> QED
  BY <1>6, EventsAre DEF V

(***************************************************************************)
(* Quotes: the four ways find the same                                     *)
(***************************************************************************)
QuoteOf(T, a, flipped) == FirstBy(InWindow(Quotes(T), a), flipped)

\* These rows give every in-sample anchor of the events the quote it has among the ticks.
Quoted(rows, E, T) ==
  \E flipped \in BOOLEAN : \A a \in Anchors(IsEvents(E)) : QuoteAt(rows, a) = QuoteOf(T, a, flipped)

LEMMA AnchorsAre ==
  ASSUME NEW T \in SUBSET TickType, NEW a \in Anchors(IsEvents(Events(T)))
  PROVE  a \in Nat /\ Even(a) /\ a < IsEnd + Slack /\ a + Window <= IsEnd + Slack
<1>1. PICK e \in Events(T) : e.entry < IsEnd /\ (a = e.entry \/ a = e.exit)
  BY DEF Anchors, IsEvents
<1>2. EventOK(e)
  BY EventIs
<1>3. e.cell.horizon \in Nat /\ e.cell.horizon <= 20
  BY <1>2, HorizonsAre DEF EventOK, Cells
<1>4. e.entry + 2 <= IsEnd /\ IsEnd \in Nat
  BY <1>1, <1>2, MonthsAre, EvenBelow DEF EventOK
<1> QED
  BY <1>1, <1>2, <1>3, <1>4 DEF EventOK, Window, Slack

LEMMA QuotesAre ==
  ASSUME NEW T \in SUBSET TickType
  PROVE  /\ \A q \in Quotes(T) : q.at \in Nat /\ q.bid \in Nat /\ q.ask \in Nat
         /\ \A t \in T : Quote(t).at = t.at
<1>1. \A t \in T : /\ t.at \in Nat /\ t.bid \in Nat /\ t.ask \in Nat
                   /\ Quote(t).at = t.at /\ Quote(t).bid = t.bid /\ Quote(t).ask = t.ask
  BY DEF TickType, Quote
<1> QED
  BY <1>1 DEF Quotes

LEMMA QuotesKnown ==
  ASSUME NEW T \in SUBSET TickType, NEW U \in SUBSET TickType, Known(T) = Known(U),
         NEW q \in Quotes(T), q.at < IsEnd + Slack
  PROVE  q \in Quotes(U)
<1>1. PICK t \in T : q = Quote(t)
  BY DEF Quotes
<1>2. q.at = t.at
  BY <1>1, QuotesAre
<1>3. t \in U
  BY <1>2 DEF Known
<1> QED
  BY <1>1, <1>3 DEF Quotes

LEMMA WindowKnown ==
  ASSUME NEW T \in SUBSET TickType, NEW U \in SUBSET TickType, Known(T) = Known(U),
         NEW a \in Nat, a + Window <= IsEnd + Slack
  PROVE  InWindow(Quotes(T), a) = InWindow(Quotes(U), a)
<1>1. IsEnd + Slack \in Nat /\ a + Window \in Nat
  BY MonthsAre DEF Slack, Window
<1>2. \A q \in Quotes(T) \cup Quotes(U) : q.at \in Nat
  BY QuotesAre
<1>3. \A q \in Quotes(T) \cup Quotes(U) : q.at < a + Window => (q \in Quotes(T) <=> q \in Quotes(U))
  BY <1>1, <1>2, QuotesKnown
<1> QED
  BY <1>3 DEF InWindow

LEMMA WindowFrom ==
  ASSUME NEW T \in SUBSET TickType, NEW from \in Int, NEW to \in Int, NEW a \in Nat,
         from <= a, a + Window <= to
  PROVE  InWindow(From(T, from, to), a) = InWindow(Quotes(T), a)
<1>1. \A q \in Quotes(T) : q.at \in Nat
  BY QuotesAre
<1>2. \A q \in Quotes(T) : a <= q.at /\ q.at < a + Window => from <= q.at /\ q.at < to
  BY <1>1 DEF Window
<1> QED
  BY <1>2 DEF InWindow, From

\* One quote for the anchor, however often it is there.
LEMMA QuoteIs ==
  ASSUME NEW rows, NEW a, \E x \in rows : x.anchor = a
  PROVE  \E x \in rows : x.anchor = a /\ QuoteAt(rows, a) = x.quote
BY DEF QuoteAt

LEMMA RangeQuotes ==
  ASSUME NEW E, NEW T, NEW flipped, NEW a \in Anchors(IsEvents(E))
  PROVE  QuoteAt(RangeRows(E, T, flipped), a) = QuoteOf(T, a, flipped)
<1> DEFINE rows == RangeRows(E, T, flipped)
<1>1. rows = {[anchor |-> b, quote |-> QuoteOf(T, b, flipped)] : b \in Anchors(IsEvents(E))}
  BY DEF RangeRows, QuoteOf
<1> HIDE DEF rows
<1>2. \A x \in rows : x.anchor = a => x.quote = QuoteOf(T, a, flipped)
  BY <1>1
<1>3. [anchor |-> a, quote |-> QuoteOf(T, a, flipped)] \in rows
  BY <1>1
<1>4. \E x \in rows : x.anchor = a
  BY <1>3
<1>5. QuoteAt(rows, a) = QuoteOf(T, a, flipped)
  BY <1>2, <1>4, QuoteIs
<1> QED
  BY <1>5 DEF rows

\* A quote within a minute of a grid point has that point as a candidate.
LEMMA CandidateIs ==
  ASSUME NEW at \in Nat, NEW a \in Nat, Even(a), a <= at, at < a + Window
  PROVE  a \in {Floor(at), Floor(at) - Grid}
<1>1. Floor(at) \in Nat /\ Even(Floor(at)) /\ Floor(at) <= at /\ at < Floor(at) + 2
  BY FloorIs DEF Grid
<1>2. Even(a + 4)
  <2>1. 4 = 2 * 2
    OBVIOUS
  <2>2. Even(4)
    BY <2>1 DEF Even
  <2> QED  BY <2>2, EvenSum
<1>3. Floor(at) >= a
  <2> SUFFICES ASSUME Floor(at) < a PROVE FALSE
    BY <1>1
  <2> QED  BY <1>1, EvenBelow
<1>4. Floor(at) + 2 <= a + 4
  BY <1>1, <1>2, EvenBelow DEF Window
<1>5. Floor(at) = a \/ a + 2 <= Floor(at)
  <2> SUFFICES ASSUME a < Floor(at) PROVE a + 2 <= Floor(at)
    BY <1>1, <1>3
  <2> QED  BY <1>1, EvenBelow
<1> QED
  BY <1>1, <1>3, <1>4, <1>5 DEF Grid

LEMMA GridQuotes ==
  ASSUME NEW T \in SUBSET TickType, NEW U \in SUBSET TickType, NEW a \in Anchors(IsEvents(Events(U)))
  PROVE  QuoteAt(GridRows(AnchorTable(Events(U)), RawStage(T)), a) = QuoteOf(T, a, FALSE)
<1> DEFINE stage == RawStage(T)
           rows == GridRows(AnchorTable(Events(U)), stage)
<1>1. a \in Nat /\ Even(a) /\ a < IsEnd + Slack /\ a + Window <= IsEnd + Slack
  BY AnchorsAre
<1>2. InWindow(stage, a) = InWindow(Quotes(T), a)
  <2>1. IsEnd + Slack \in Int
    BY MonthsAre DEF Slack
  <2> QED  BY <1>1, <2>1, WindowFrom DEF RawStage
<1>3. \A q \in InWindow(stage, a) : a \in Candidates(q)
  <2>1. \A q \in InWindow(stage, a) : q.at \in Nat /\ a <= q.at /\ q.at < a + Window
    BY <1>2, QuotesAre DEF InWindow
  <2> QED  BY <1>1, <2>1, CandidateIs DEF Candidates
<1>4. First({q \in InWindow(stage, a) : a \in Candidates(q)}) = QuoteOf(T, a, FALSE)
  <2>1. {q \in InWindow(stage, a) : a \in Candidates(q)} = InWindow(Quotes(T), a)
    BY <1>2, <1>3
  <2> QED  BY <2>1 DEF QuoteOf, FirstBy
<1>5. a \in AnchorTable(Events(U))
  BY <1>1 DEF AnchorTable
<1> DEFINE Found(b) == First({q \in InWindow(stage, b) : b \in Candidates(q)})
<1>6. rows = {[anchor |-> b, quote |-> Found(b)] : b \in AnchorTable(Events(U))}
  BY DEF GridRows
<1>7. Found(a) = QuoteOf(T, a, FALSE)
  BY <1>4
<1> HIDE DEF stage, rows, Found
<1>8. ASSUME NEW x \in rows, x.anchor = a PROVE x.quote = QuoteOf(T, a, FALSE)
  <2>1. PICK b \in AnchorTable(Events(U)) : x = [anchor |-> b, quote |-> Found(b)]
    BY <1>6
  <2>2. x.anchor = b /\ x.quote = Found(b)
    BY <2>1
  <2> QED  BY <1>7, <1>8, <2>2
<1>9. [anchor |-> a, quote |-> Found(a)] \in rows
  BY <1>5, <1>6
<1>10. \E x \in rows : x.anchor = a
  BY <1>9
<1>11. QuoteAt(rows, a) = QuoteOf(T, a, FALSE)
  BY <1>8, <1>10, QuoteIs
<1> QED
  BY <1>11 DEF rows, stage

OfMonth(E, m) == {e \in E : ShardStart(m) <= e.entry /\ e.entry < ShardStart(m + 1)}

\* A shard's events are in-sample, and their windows end within its slack.
LEMMA ShardAnchors ==
  ASSUME NEW T \in SUBSET TickType, NEW m \in Months, NEW a \in Anchors(OfMonth(Events(T), m))
  PROVE  a \in Nat /\ ShardStart(m) <= a /\ a + Window <= ShardStart(m + 1) + Slack
<1>1. PICK e \in Events(T) : /\ ShardStart(m) <= e.entry /\ e.entry < ShardStart(m + 1)
                             /\ a = e.entry \/ a = e.exit
  BY DEF Anchors, OfMonth
<1>2. EventOK(e)
  BY EventIs
<1>3. e.cell.horizon \in Nat /\ e.cell.horizon <= 20
  BY <1>2, HorizonsAre DEF EventOK, Cells
<1>4. m \in Int /\ m + 1 \in Int
  BY DEF Months
<1>5. ShardStart(m) \in Int /\ ShardStart(m + 1) \in Int /\ Even(ShardStart(m + 1))
  BY <1>4, MonthsAre
<1>6. e.entry + 2 <= ShardStart(m + 1)
  BY <1>1, <1>2, <1>5, EvenBelow DEF EventOK
<1> QED
  BY <1>1, <1>2, <1>3, <1>5, <1>6 DEF EventOK, Window, Slack

LEMMA OfMonthIs ==
  ASSUME NEW T \in SUBSET TickType, NEW m \in Months
  PROVE  OfMonth(Events(T), m) = OfMonth(IsEvents(Events(T)), m)
<1>1. \A e \in Events(T) : e.entry \in Nat
  BY EventIs DEF EventOK
<1>2. m \in Int /\ m + 1 \in Int
  BY DEF Months
<1>3. /\ ShardStart(m) \in Int /\ ShardStart(m + 1) \in Int /\ IsEnd \in Nat
      /\ ShardStart(m + 1) <= IsEnd
  BY <1>2, MonthsAre
<1> QED
  BY <1>1, <1>3 DEF OfMonth, IsEvents

LEMMA ShardRowsAre ==
  ASSUME NEW E, NEW T, NEW m
  PROVE  ShardRows(E, T, m) =
           {[anchor |-> a, quote |-> First(InWindow(From(T, ShardStart(m), ShardStart(m + 1) + Slack), a))] :
              a \in Anchors(OfMonth(E, m))}
BY DEF ShardRows, OfMonth

LEMMA ShardQuotes ==
  ASSUME NEW T \in SUBSET TickType, NEW U \in SUBSET TickType, NEW m \in Months
  PROVE  \A x \in ShardRows(Events(U), T, m) : x.quote = QuoteOf(T, x.anchor, FALSE)
<1> DEFINE from == ShardStart(m)
           to == ShardStart(m + 1) + Slack
<1>1. m \in Int /\ m + 1 \in Int
  BY DEF Months
<1>2. from \in Int /\ to \in Int
  BY <1>1, MonthsAre DEF Slack
<1>3. ASSUME NEW a \in Anchors(OfMonth(Events(U), m))
      PROVE  First(InWindow(From(T, from, to), a)) = QuoteOf(T, a, FALSE)
  <2>1. a \in Nat /\ from <= a /\ a + Window <= to
    BY ShardAnchors
  <2>2. InWindow(From(T, from, to), a) = InWindow(Quotes(T), a)
    BY <1>2, <2>1, WindowFrom
  <2> QED  BY <2>2 DEF QuoteOf, FirstBy
<1>4. ShardRows(Events(U), T, m) = {[anchor |-> a, quote |-> First(InWindow(From(T, from, to), a))] :
                                      a \in Anchors(OfMonth(Events(U), m))}
  BY ShardRowsAre
<1> DEFINE Found(a) == First(InWindow(From(T, from, to), a))
           rows == ShardRows(Events(U), T, m)
           A == Anchors(OfMonth(Events(U), m))
<1>5. rows = {[anchor |-> a, quote |-> Found(a)] : a \in A}
  BY <1>4
<1>6. \A a \in A : Found(a) = QuoteOf(T, a, FALSE)
  BY <1>3
<1> HIDE DEF from, to, Found, rows, A
<1>7. ASSUME NEW x \in rows PROVE x.quote = QuoteOf(T, x.anchor, FALSE)
  <2>1. PICK b \in A : x = [anchor |-> b, quote |-> Found(b)]
    BY <1>5
  <2>2. x.anchor = b /\ x.quote = Found(b)
    BY <2>1
  <2> QED  BY <1>6, <2>2
<1> QED
  BY <1>7 DEF rows

LEMMA ShardHasAnchors ==
  ASSUME NEW T \in SUBSET TickType, NEW U \in SUBSET TickType, NEW m \in Months,
         NEW a \in Anchors(OfMonth(Events(U), m))
  PROVE  \E x \in ShardRows(Events(U), T, m) : x.anchor = a
<1> DEFINE Found(b) == First(InWindow(From(T, ShardStart(m), ShardStart(m + 1) + Slack), b))
           rows == ShardRows(Events(U), T, m)
           A == Anchors(OfMonth(Events(U), m))
<1>1. rows = {[anchor |-> b, quote |-> Found(b)] : b \in A}
  BY ShardRowsAre
<1>2. a \in A
  OBVIOUS
<1> HIDE DEF Found, rows, A
<1>3. [anchor |-> a, quote |-> Found(a)] \in rows
  BY <1>1, <1>2
<1>4. \E x \in rows : x.anchor = a
  BY <1>3
<1> QED
  BY <1>4 DEF rows

LEMMA UnionQuotes ==
  ASSUME NEW T \in SUBSET TickType, NEW U \in SUBSET TickType, NEW a \in Anchors(IsEvents(Events(U)))
  PROVE  QuoteAt(UnionRows([m \in Months |-> ShardRows(Events(U), T, m)]), a) = QuoteOf(T, a, FALSE)
<1> DEFINE shards == [m \in Months |-> ShardRows(Events(U), T, m)]
           rows == UNION {shards[m] : m \in DOMAIN shards}
           Of == {r.quote : r \in {x \in rows : x.anchor = a}}
           q == QuoteOf(T, a, FALSE)
<1>1. PICK m \in Months : a \in Anchors(OfMonth(Events(U), m))
  <2>1. PICK e \in Events(U) : 0 <= e.entry /\ e.entry < IsEnd /\ (a = e.entry \/ a = e.exit)
    BY DEF Anchors, IsEvents
  <2>2. e.entry \in Nat
    BY EventIs DEF EventOK
  <2>3. PICK m \in Months : ShardStart(m) <= e.entry /\ e.entry < ShardStart(m + 1)
    BY <2>1, <2>2, MonthOf
  <2>4. e \in OfMonth(Events(U), m)
    BY <2>3 DEF OfMonth
  <2> QED  BY <2>1, <2>4 DEF Anchors
<1>0. \A x : x \in rows <=> \E k \in Months : x \in ShardRows(Events(U), T, k)
  OBVIOUS
<1>2. \E x \in rows : x.anchor = a
  <2>1. \E x \in ShardRows(Events(U), T, m) : x.anchor = a
    BY <1>1, ShardHasAnchors
  <2> HIDE DEF rows
  <2> QED  BY <1>0, <2>1
<1>3. \A x \in rows : x.quote = QuoteOf(T, x.anchor, FALSE)
  <2> HIDE DEF rows
  <2>1. \A k \in Months : \A x \in ShardRows(Events(U), T, k) : x.quote = QuoteOf(T, x.anchor, FALSE)
    BY ShardQuotes
  <2> QED  BY <1>0, <2>1
<1>4. Of = {q}
  BY <1>2, <1>3
<1>5. First(Of \ {NoQuote}) = q
  <2>1. CASE q = NoQuote
    BY <1>4, <2>1 DEF First
  <2>2. CASE q # NoQuote
    <3>1. Of \ {NoQuote} = {q} /\ {q} # {} /\ {q} \ {q} = {}
      BY <1>4, <2>2
    <3>2. Least({q}, Ordered) = q
      BY <3>1 DEF Least
    <3> QED  BY <3>1, <3>2 DEF First
  <2> QED  BY <2>1, <2>2
<1> DEFINE Found(b) == First({r.quote : r \in {x \in rows : x.anchor = b}} \ {NoQuote})
           A == {r.anchor : r \in rows}
           union == UnionRows(shards)
<1>6. union = {[anchor |-> b, quote |-> Found(b)] : b \in A}
  BY DEF UnionRows
<1>7. Found(a) = q /\ a \in A
  BY <1>2, <1>5
<1> HIDE DEF rows, q, Found, A, union
<1>8. \A y \in union : y.anchor = a => y.quote = q
  BY <1>6, <1>7
<1>9. [anchor |-> a, quote |-> Found(a)] \in union
  BY <1>6, <1>7
<1>10. \E y \in union : y.anchor = a
  BY <1>9
<1>11. QuoteAt(union, a) = q
  BY <1>8, <1>10, QuoteIs
<1> QED
  BY <1>11 DEF q, union

(***************************************************************************)
(* What is found is a quote of the ticks or no quote                       *)
(***************************************************************************)
QuoteType == [at : Nat, bid : Nat, ask : Nat]
QuotedRows(rows) == \A x \in rows : x.quote \in QuoteType \cup {NoQuote}

LEMMA QuotesTyped ==
  ASSUME NEW T \in SUBSET TickType
  PROVE  Quotes(T) \subseteq QuoteType
BY DEF Quotes, Quote, TickType, QuoteType

\* The least and the greatest of a number taken of each element.
LEMMA LeastBy ==
  ASSUME NEW S, S # {}, NEW f, DOMAIN f = S, \A q \in S : f[q] \in Nat
  PROVE  \E q \in S : \A r \in S : f[q] <= f[r]
<1> DEFINE N == {f[q] : q \in S}
<1>1. N \subseteq Nat /\ N # {}
  OBVIOUS
<1>2. \E n \in N : \A m \in N : n <= m
  <2> HIDE DEF N
  <2> QED  BY <1>1, LeastNatural
<1> QED
  BY <1>2

LEMMA GreatestBy ==
  ASSUME NEW S, S # {}, IsFiniteSet(S), NEW f, DOMAIN f = S, \A q \in S : f[q] \in Nat
  PROVE  \E q \in S : \A r \in S : f[r] <= f[q]
<1> DEFINE N == {f[q] : q \in S}
<1>1. N \subseteq Int /\ N # {}
  OBVIOUS
<1>2. IsFiniteSet(N)
  BY FiniteImage
<1>3. \E n \in N : \A m \in N : m <= n
  <2> HIDE DEF N
  <2> QED  BY <1>1, <1>2, FiniteMax
<1> QED
  BY <1>3

LEMMA FieldsOfQuote ==
  /\ \A q \in QuoteType : q.at \in Nat /\ q.bid \in Nat /\ q.ask \in Nat
  /\ \A q, r \in QuoteType : q.at = r.at /\ q.bid = r.bid /\ q.ask = r.ask => q = r
BY DEF QuoteType

LEMMA FirstIn ==
  ASSUME NEW S, S \subseteq QuoteType
  PROVE  First(S) \in S \cup {NoQuote}
<1> SUFFICES ASSUME S # {} PROVE Least(S, Ordered) \in S
  BY DEF First
<1>1. \A q \in S : q.at \in Nat /\ q.bid \in Nat /\ q.ask \in Nat
  BY FieldsOfQuote
<1>2. PICK a \in S : \A r \in S : a.at <= r.at
  <2> DEFINE f == [q \in S |-> q.at]
  <2>1. DOMAIN f = S /\ \A q \in S : f[q] = q.at
    OBVIOUS
  <2> HIDE DEF f
  <2>2. \A q \in S : f[q] \in Nat
    BY <1>1, <2>1
  <2>3. \E q \in S : \A r \in S : f[q] <= f[r]
    BY <2>1, <2>2, LeastBy
  <2> QED  BY <2>1, <2>3
<1> DEFINE A == {q \in S : q.at = a.at}
<1>3. PICK b \in A : \A r \in A : b.bid <= r.bid
  <2> DEFINE f == [q \in A |-> q.bid]
  <2>1. DOMAIN f = A /\ A # {} /\ \A q \in A : f[q] = q.bid /\ f[q] \in Nat
    BY <1>1
  <2> HIDE DEF f, A
  <2> QED  BY <2>1, LeastBy
<1> DEFINE B == {q \in A : q.bid = b.bid}
<1>4. PICK c \in B : \A r \in B : c.ask <= r.ask
  <2> DEFINE f == [q \in B |-> q.ask]
  <2>1. DOMAIN f = B /\ B # {} /\ \A q \in B : f[q] = q.ask /\ f[q] \in Nat
    BY <1>1, <1>3
  <2> HIDE DEF f, B
  <2> QED  BY <2>1, LeastBy
<1>5. c \in S /\ c.at = a.at /\ c.bid = b.bid
  BY <1>4
<1>6. ASSUME NEW r \in S \ {c} PROVE Ordered(c, r)
  <2>1. /\ c.at \in Nat /\ c.bid \in Nat /\ c.ask \in Nat
        /\ r.at \in Nat /\ r.bid \in Nat /\ r.ask \in Nat
    BY <1>1, <1>5
  <2>2. c.at <= r.at
    BY <1>2, <1>5
  <2>3. r.at = c.at => c.bid <= r.bid
    BY <1>3, <1>5
  <2>4. r.at = c.at /\ r.bid = c.bid => c.ask <= r.ask
    BY <1>4, <1>5
  <2>5. ~(r.at = c.at /\ r.bid = c.bid /\ r.ask = c.ask)
    BY <1>5, <1>6, FieldsOfQuote
  <2> QED  BY <2>1, <2>2, <2>3, <2>4, <2>5 DEF Ordered
<1>7. \E x \in S : \A y \in S \ {x} : Ordered(x, y)
  BY <1>5, <1>6
<1> QED
  BY <1>7 DEF Least

\* Of the first quotes the engine may take the greatest: of finitely many there is one.
LEMMA LastIn ==
  ASSUME NEW S, S \subseteq QuoteType, IsFiniteSet(S), NEW flipped
  PROVE  FirstBy(S, flipped) \in S \cup {NoQuote}
<1> DEFINE A == {q \in S : \A r \in S : q.at <= r.at}
           After(q, r) == Ordered(r, q)
<1> SUFFICES ASSUME S # {} PROVE Least(A, After) \in S
  BY FirstIn DEF FirstBy
<1>1. \A q \in S : q.at \in Nat /\ q.bid \in Nat /\ q.ask \in Nat
  BY FieldsOfQuote
<1>2. \E a \in S : \A r \in S : a.at <= r.at
  <2> DEFINE f == [q \in S |-> q.at]
  <2>1. DOMAIN f = S /\ \A q \in S : f[q] = q.at
    OBVIOUS
  <2> HIDE DEF f
  <2>2. \A q \in S : f[q] \in Nat
    BY <1>1, <2>1
  <2>3. \E q \in S : \A r \in S : f[q] <= f[r]
    BY <2>1, <2>2, LeastBy
  <2> QED  BY <2>1, <2>3
<1>3. A # {} /\ A \subseteq S /\ IsFiniteSet(A)
  BY <1>2, FS_Subset
<1>4. \A q, r \in A : q.at = r.at
  BY <1>1
<1> HIDE DEF A
<1>5. PICK b \in A : \A r \in A : r.bid <= b.bid
  <2> DEFINE f == [q \in A |-> q.bid]
  <2>1. DOMAIN f = A /\ \A q \in A : f[q] = q.bid /\ f[q] \in Nat
    BY <1>1, <1>3
  <2> HIDE DEF f
  <2> QED  BY <1>3, <2>1, GreatestBy
<1> DEFINE B == {q \in A : q.bid = b.bid}
<1>6. PICK c \in B : \A r \in B : r.ask <= c.ask
  <2> DEFINE f == [q \in B |-> q.ask]
  <2>1. DOMAIN f = B /\ B # {} /\ B \subseteq A /\ \A q \in B : f[q] = q.ask /\ f[q] \in Nat
    BY <1>1, <1>3, <1>5
  <2> HIDE DEF f, B
  <2>2. IsFiniteSet(B)
    BY <1>3, <2>1, FS_Subset
  <2> QED  BY <2>1, <2>2, GreatestBy
<1>7. c \in A /\ c.bid = b.bid
  BY <1>6
<1>8. ASSUME NEW r \in A \ {c} PROVE Ordered(r, c)
  <2>1. /\ c.at \in Nat /\ c.bid \in Nat /\ c.ask \in Nat
        /\ r.at \in Nat /\ r.bid \in Nat /\ r.ask \in Nat
    BY <1>1, <1>3, <1>7
  <2>2. c.at = r.at
    BY <1>4, <1>7
  <2>3. r.bid <= c.bid
    BY <1>5, <1>7
  <2>4. r.bid = c.bid => r.ask <= c.ask
    BY <1>6, <1>7
  <2>5. ~(r.at = c.at /\ r.bid = c.bid /\ r.ask = c.ask)
    BY <1>3, <1>7, <1>8, FieldsOfQuote
  <2> QED  BY <2>1, <2>2, <2>3, <2>4, <2>5 DEF Ordered
<1>9. \E x \in A : \A y \in A \ {x} : After(x, y)
  BY <1>7, <1>8
<1>10. Least(A, After) \in A
  BY <1>9 DEF Least
<1> QED
  BY <1>3, <1>10

LEMMA QuoteAtTyped ==
  ASSUME NEW rows, QuotedRows(rows), NEW a
  PROVE  QuoteAt(rows, a) \in QuoteType \cup {NoQuote}
<1>1. CASE {x \in rows : x.anchor = a} = {}
  BY <1>1 DEF QuoteAt
<1>2. CASE {x \in rows : x.anchor = a} # {}
  <2> DEFINE x == CHOOSE y \in {z \in rows : z.anchor = a} : TRUE
  <2>1. x \in rows /\ QuoteAt(rows, a) = x.quote
    BY <1>2 DEF QuoteAt
  <2> QED  BY <2>1 DEF QuotedRows
<1> QED
  BY <1>1, <1>2

LEMMA RangeTyped ==
  ASSUME NEW T \in SUBSET TickType, IsFiniteSet(T), NEW E, NEW flipped
  PROVE  QuotedRows(RangeRows(E, T, flipped))
<1> DEFINE Found(a) == FirstBy(InWindow(Quotes(T), a), flipped)
<1>1. IsFiniteSet(Quotes(T))
  <2> DEFINE f == [t \in T |-> Quote(t)]
  <2>1. DOMAIN f = T /\ Quotes(T) = {f[t] : t \in T}
    BY DEF Quotes
  <2> HIDE DEF f
  <2> QED  BY <2>1, FiniteImage
<1>2. ASSUME NEW a PROVE Found(a) \in QuoteType \cup {NoQuote}
  <2> DEFINE S == InWindow(Quotes(T), a)
  <2>1. S \in SUBSET Quotes(T)
    BY DEF InWindow
  <2> HIDE DEF S
  <2>2. S \subseteq QuoteType /\ IsFiniteSet(S)
    BY <1>1, <2>1, QuotesTyped, FS_Subset
  <2>3. FirstBy(S, flipped) \in S \cup {NoQuote}
    BY <2>2, LastIn
  <2> QED  BY <2>2, <2>3 DEF S
<1>3. RangeRows(E, T, flipped) = {[anchor |-> a, quote |-> Found(a)] : a \in Anchors(IsEvents(E))}
  BY DEF RangeRows
<1> HIDE DEF Found
<1> QED
  BY <1>2, <1>3 DEF QuotedRows

LEMMA ShardTyped ==
  ASSUME NEW T \in SUBSET TickType, NEW E, NEW m
  PROVE  QuotedRows(ShardRows(E, T, m))
<1> DEFINE raw == From(T, ShardStart(m), ShardStart(m + 1) + Slack)
           Found(a) == First(InWindow(raw, a))
<1>1. ASSUME NEW a PROVE Found(a) \in QuoteType \cup {NoQuote}
  <2>1. raw \subseteq Quotes(T)
    BY DEF From
  <2> HIDE DEF raw
  <2>2. InWindow(raw, a) \subseteq QuoteType
    BY <2>1, QuotesTyped DEF InWindow
  <2> QED  BY <2>2, FirstIn
<1>2. ShardRows(E, T, m) = {[anchor |-> a, quote |-> Found(a)] : a \in Anchors(OfMonth(E, m))}
  BY ShardRowsAre
<1> HIDE DEF Found
<1> QED
  BY <1>1, <1>2 DEF QuotedRows

LEMMA GridTyped ==
  ASSUME NEW anchors, NEW stage, stage \subseteq QuoteType
  PROVE  QuotedRows(GridRows(anchors, stage))
<1> DEFINE Found(a) == First({q \in InWindow(stage, a) : a \in Candidates(q)})
<1>1. ASSUME NEW a PROVE Found(a) \in QuoteType \cup {NoQuote}
  <2> DEFINE S == {q \in InWindow(stage, a) : a \in Candidates(q)}
  <2>1. S \subseteq QuoteType
    BY DEF InWindow
  <2> HIDE DEF S
  <2>2. First(S) \in S \cup {NoQuote}
    BY <2>1, FirstIn
  <2> QED  BY <2>1, <2>2 DEF S
<1>2. GridRows(anchors, stage) = {[anchor |-> a, quote |-> Found(a)] : a \in anchors}
  BY DEF GridRows
<1> HIDE DEF Found
<1> QED
  BY <1>1, <1>2 DEF QuotedRows

LEMMA UnionTyped ==
  ASSUME NEW shards, \A m \in DOMAIN shards : QuotedRows(shards[m])
  PROVE  QuotedRows(UnionRows(shards))
<1> DEFINE rows == UNION {shards[m] : m \in DOMAIN shards}
           Of(a) == {r.quote : r \in {x \in rows : x.anchor = a}}
           Found(a) == First(Of(a) \ {NoQuote})
<1>1. \A x \in rows : x.quote \in QuoteType \cup {NoQuote}
  BY DEF QuotedRows
<1> HIDE DEF rows
<1>2. ASSUME NEW a PROVE Found(a) \in QuoteType \cup {NoQuote}
  <2>1. Of(a) \ {NoQuote} \subseteq QuoteType
    BY <1>1
  <2> HIDE DEF Of
  <2>2. First(Of(a) \ {NoQuote}) \in (Of(a) \ {NoQuote}) \cup {NoQuote}
    BY <2>1, FirstIn
  <2> QED  BY <2>1, <2>2
<1>3. UnionRows(shards) = {[anchor |-> a, quote |-> Found(a)] : a \in {r.anchor : r \in rows}}
  BY DEF UnionRows, rows
<1> HIDE DEF Found
<1> QED
  BY <1>2, <1>3 DEF QuotedRows

(***************************************************************************)
(* Cells: a row for every cell, whichever join counted its events          *)
(***************************************************************************)
Traded(R) == {r \in R : r.earned # {}}
OfCell(R, c) == {r \in R : r.event.cell = c}
Tested(r) == [r EXCEPT !.p = IF Sparse(r) THEN 1000 ELSE @]
CellNumbers(c, R) == Numbers(Tested(CellRow(c, R)))
PairNumbers(rows) == {Numbers(r) : r \in CollectPair(rows)}

LEMMA NumbersTested ==
  ASSUME NEW c, NEW n, NEW m, NEW a, NEW b, NEW p
  PROVE  Numbers(Tested([cell |-> c, trades |-> n, missing |-> m, profit |-> a, loss |-> b, p |-> p]))
           = <<c, n, a, b, IF n < Max({SparseFloor, SparsePerMinute * (c.horizon \div 4)}) THEN 1000 ELSE p>>
BY DEF Numbers, Tested, Sparse

\* The trades of a cell make its numbers; what earned nothing is only counted as missing.
LEMMA TradedNumbers ==
  ASSUME NEW c, NEW R
  PROVE  CellNumbers(c, R) = CellNumbers(c, Traded(R))
<1> DEFINE T(X) == {r \in X : r.earned # {}}
           Total(X, V(_)) == SumFunction([r \in T(X) |-> V(CHOOSE x \in r.earned : TRUE)])
           P(X) == Total(X, LAMBDA x : IF x > 0 THEN x ELSE 0)
           L(X) == Total(X, LAMBDA x : IF x < 0 THEN -x ELSE 0)
           Q(X) == PValue(Cardinality(T(X)), Total(X, LAMBDA x : x), Total(X, LAMBDA x : x * x))
<1>1. T(R) = Traded(R) /\ T(Traded(R)) = Traded(R)
  BY DEF Traded
<1>2. \A X : CellRow(c, X) = [cell |-> c, trades |-> Cardinality(T(X)), missing |-> Cardinality(X \ T(X)),
                             profit |-> P(X), loss |-> L(X), p |-> Q(X)]
  BY DEF CellRow
<1>3. P(R) = P(Traded(R)) /\ L(R) = L(Traded(R)) /\ Q(R) = Q(Traded(R)) /\ T(R) = T(Traded(R))
  BY <1>1
<1> HIDE DEF P, L, Q, T
<1>4. \A X : CellNumbers(c, X)
        = <<c, Cardinality(T(X)), P(X), L(X),
            IF Cardinality(T(X)) < Max({SparseFloor, SparsePerMinute * (c.horizon \div 4)}) THEN 1000 ELSE Q(X)>>
  <2> TAKE X
  <2>1. CellNumbers(c, X) = Numbers(Tested([cell |-> c, trades |-> Cardinality(T(X)),
          missing |-> Cardinality(X \ T(X)), profit |-> P(X), loss |-> L(X), p |-> Q(X)]))
    BY <1>2 DEF CellNumbers
  <2> QED  BY <2>1 DEF Numbers, Tested, Sparse
<1> QED
  BY <1>3, <1>4

LEMMA EmptyNumbers ==
  ASSUME NEW c
  PROVE  Numbers(Tested(EmptyRow(c))) = CellNumbers(c, {})
<1>1. \A V : DOMAIN [r \in {} |-> V] = {}
  OBVIOUS
<1>2. CellRow(c, {}) = [cell |-> c, trades |-> 0, missing |-> 0, profit |-> 0, loss |-> 0, p |-> 1000]
  <2>1. {r \in {} : r.earned # {}} = {} /\ {} \ {} = {} /\ Cardinality({}) = 0
    BY FS_EmptySet
  <2>2. SumFunction([r \in {} |-> IF (CHOOSE x \in r.earned : TRUE) > 0 THEN (CHOOSE x \in r.earned : TRUE) ELSE 0]) = 0
    BY EmptySum
  <2>3. SumFunction([r \in {} |-> IF (CHOOSE x \in r.earned : TRUE) < 0 THEN -(CHOOSE x \in r.earned : TRUE) ELSE 0]) = 0
    BY EmptySum
  <2>4. \A s, q : PValue(0, s, q) = 1000
    BY DEF PValue
  <2> QED  BY <2>1, <2>2, <2>3, <2>4 DEF CellRow
<1> QED
  BY <1>2 DEF EmptyRow, CellNumbers

LEMMA NumbersAre ==
  ASSUME NEW R, \A r \in R : r.event.cell \in Cells
  PROVE  PairNumbers(Grouped(R)) = {CellNumbers(c, Traded(OfCell(R, c))) : c \in Cells}
<1> DEFINE C == {r.event.cell : r \in R}
           G == {CellRow(c, OfCell(R, c)) : c \in C}
<1>1. Grouped(R) = G
  BY DEF Grouped, OfCell
<1>2. \A c : CellRow(c, OfCell(R, c)).cell = c
  BY DEF CellRow
<1>3. {r.cell : r \in G} = C
  <2> DEFINE Row(c) == CellRow(c, OfCell(R, c))
  <2>1. \A c : Row(c).cell = c
    BY <1>2
  <2>2. G = {Row(c) : c \in C}
    OBVIOUS
  <2> HIDE DEF Row, G, C
  <2>3. {r.cell : r \in {Row(c) : c \in C}} = C
    BY <2>1
  <2> QED  BY <2>2, <2>3
<1>4. PairNumbers(G) = {Numbers(Tested(r)) : r \in G \cup {EmptyRow(c) : c \in Cells \ C}}
  <2> DEFINE all == G \cup {EmptyRow(c) : c \in Cells \ C}
  <2> HIDE DEF G, C
  <2>1. CollectPair(G) = {Tested(r) : r \in all}
    BY <1>3 DEF CollectPair, Tested
  <2> HIDE DEF all
  <2>2. PairNumbers(G) = {Numbers(Tested(r)) : r \in all}
    BY <2>1 DEF PairNumbers
  <2> QED  BY <2>2 DEF all
<1>5. \A c : Numbers(Tested(CellRow(c, OfCell(R, c)))) = CellNumbers(c, Traded(OfCell(R, c)))
  BY TradedNumbers DEF CellNumbers
<1>6. ASSUME NEW c \in Cells \ C PROVE Numbers(Tested(EmptyRow(c))) = CellNumbers(c, Traded(OfCell(R, c)))
  <2>1. OfCell(R, c) = {}
    BY DEF OfCell
  <2>2. Traded({}) = {}
    BY DEF Traded
  <2> QED  BY <2>1, <2>2, EmptyNumbers
<1>7. C \subseteq Cells
  OBVIOUS
<1> HIDE DEF C
<1> QED
  BY <1>1, <1>4, <1>5, <1>6, <1>7

\* Leaving the events without quotes out of the join, or counting them as missing.
LEMMA JoinsAgree ==
  ASSUME NEW R, \A r \in R : r.event.cell \in Cells
  PROVE  PairNumbers(Grouped(R)) = PairNumbers(Grouped({r \in R : r.earned # {}}))
<1> DEFINE T == {r \in R : r.earned # {}}
<1>1. \A c : Traded(OfCell(R, c)) = Traded(OfCell(T, c))
  BY DEF Traded, OfCell
<1>2. \A r \in T : r.event.cell \in Cells
  OBVIOUS
<1> HIDE DEF T
<1>3. PairNumbers(Grouped(T)) = {CellNumbers(c, Traded(OfCell(T, c))) : c \in Cells}
  BY <1>2, NumbersAre
<1>4. PairNumbers(Grouped(R)) = {CellNumbers(c, Traded(OfCell(R, c))) : c \in Cells}
  BY NumbersAre
<1>5. PairNumbers(Grouped(R)) = PairNumbers(Grouped(T))
  BY <1>1, <1>3, <1>4
<1> QED
  BY <1>5 DEF T

LEMMA ResultsAre ==
  ASSUME NEW E, NEW F, IsEvents(E) = IsEvents(F), NEW rows, NEW other,
         \A a \in Anchors(IsEvents(E)) : QuoteAt(rows, a) = QuoteAt(other, a)
  PROVE  Results(E, rows) = Results(F, other)
<1>1. \A e \in IsEvents(E) : e.entry \in Anchors(IsEvents(E)) /\ e.exit \in Anchors(IsEvents(E))
  BY DEF Anchors
<1> QED
  BY <1>1 DEF Results

LEMMA ResultCells ==
  ASSUME NEW T \in SUBSET TickType, NEW rows
  PROVE  \A r \in Results(Events(T), rows) : r.event.cell \in Cells
<1>1. \A e \in IsEvents(Events(T)) : e.cell \in Cells
  BY EventIs DEF IsEvents, EventOK
<1>2. \A r \in Results(Events(T), rows) : r.event \in IsEvents(Events(T))
  BY DEF Results
<1> QED
  BY <1>1, <1>2

\* The cells of quotes that are those of the ticks have the numbers of the live query.
LEMMA AnchoredNumbers ==
  ASSUME NEW T \in SUBSET TickType, NEW U \in SUBSET TickType, NEW rows, NEW flipped,
         \A a \in Anchors(IsEvents(Events(U))) : QuoteAt(rows, a) = QuoteOf(T, a, flipped)
  PROVE  PairNumbers(AnchoredCells(Events(U), rows)) = PairNumbers(LiveCells(Events(U), T, flipped))
<1> DEFINE range == RangeRows(Events(U), T, flipped)
<1>1. \A a \in Anchors(IsEvents(Events(U))) : QuoteAt(rows, a) = QuoteAt(range, a)
  BY RangeQuotes
<1> HIDE DEF range
<1>2. Results(Events(U), rows) = Results(Events(U), range)
  BY <1>1, ResultsAre
<1>3. \A r \in Results(Events(U), range) : r.event.cell \in Cells
  BY ResultCells
<1>4. PairNumbers(Grouped(Results(Events(U), range)))
        = PairNumbers(Grouped({r \in Results(Events(U), range) : r.earned # {}}))
  BY <1>3, JoinsAgree
<1> QED
  BY <1>2, <1>4 DEF AnchoredCells, LiveCells, range

(***************************************************************************)
(* Probabilities: finitely many events, each earning integers              *)
(***************************************************************************)
LEMMA CellsFinite == IsFiniteSet(Cells)
<1> DEFINE P == Families \X Lookbacks
           Q == P \X Percentiles
           R == Q \X Directions
           S == R \X Horizons
           f == [c \in Cells |-> <<<<<<<<c.family, c.lookback>>, c.threshold>>, c.direction>>, c.horizon>>]
<1>1. \A a, b, c : IsFiniteSet({a, b}) /\ IsFiniteSet({a, b, c})
  <2> TAKE a, b, c
  <2>1. IsFiniteSet({a})
    BY FS_Singleton
  <2>2. IsFiniteSet({a} \cup {b})
    BY <2>1, FS_AddElement
  <2>3. IsFiniteSet({a} \cup {b} \cup {c})
    BY <2>2, FS_AddElement
  <2>4. {a} \cup {b} = {a, b} /\ {a} \cup {b} \cup {c} = {a, b, c}
    OBVIOUS
  <2> QED  BY <2>2, <2>3, <2>4
<1>2. IsFiniteSet(Families) /\ IsFiniteSet(Directions)
  BY <1>1 DEF Families, Directions
<1>3. IsFiniteSet(Lookbacks) /\ IsFiniteSet(Horizons)
  <2>1. IsFiniteSet({2, 4, 20}) /\ IsFiniteSet({4, 12, 20})
    BY <1>1
  <2>2. Lookbacks \subseteq {2, 4, 20} /\ Horizons \subseteq {4, 12, 20}
    BY CellsAssumption
  <2>3. IsFiniteSet(Lookbacks)
    BY <2>1, <2>2, FS_Subset
  <2>4. IsFiniteSet(Horizons)
    BY <2>1, <2>2, FS_Subset
  <2> QED  BY <2>3, <2>4
<1>4. IsFiniteSet(Percentiles)
  <2>1. IsFiniteSet(1 .. 99)
    <3>1. 1 \in Int /\ 99 \in Int
      OBVIOUS
    <3> QED  BY <3>1, FS_Interval, ZenonT(30)
  <2>2. Percentiles \subseteq 1 .. 99
    BY CellsAssumption
  <2> QED  BY <2>1, <2>2, FS_Subset
<1>5. IsFiniteSet(P)
  BY <1>2, <1>3, FS_Product
<1>6. IsFiniteSet(Q)
  <2> HIDE DEF P
  <2> QED  BY <1>4, <1>5, FS_Product
<1>7. IsFiniteSet(R)
  <2> HIDE DEF Q
  <2> QED  BY <1>2, <1>6, FS_Product
<1>8. IsFiniteSet(S)
  <2> HIDE DEF R
  <2> QED  BY <1>3, <1>7, FS_Product
<1>9. f \in Injection(Cells, S)
  <2>1. f \in [Cells -> S]
    BY DEF Cells
  <2>2. ASSUME NEW c \in Cells, NEW d \in Cells, f[c] = f[d] PROVE c = d
    <3>1. /\ c.family = d.family /\ c.lookback = d.lookback /\ c.threshold = d.threshold
          /\ c.direction = d.direction /\ c.horizon = d.horizon
      BY <2>2
    <3> QED  BY <3>1 DEF Cells
  <2> HIDE DEF f, S
  <2> QED  BY <2>1, <2>2 DEF Injection, IsInjective
<1> HIDE DEF f, S
<1> QED
  BY <1>8, <1>9, FS_Injection

LEMMA EventsFinite ==
  ASSUME NEW T \in SUBSET TickType, IsFiniteSet(T)
  PROVE  IsFiniteSet(Events(T))
<1> DEFINE f == [t \in {u \in T : 0 <= u.at /\ u.at < FullEnd} |-> Floor(t.at) + Grid]
           X == (Cells \X Entries(T)) \X {1, -1}
           g == [x \in X |-> [cell |-> x[1][1], entry |-> x[1][2], exit |-> x[1][2] + x[1][1].horizon, stance |-> x[2]]]
<1>1. IsFiniteSet(Entries(T))
  <2>1. DOMAIN f \in SUBSET T /\ Entries(T) = {f[t] : t \in DOMAIN f}
    BY DEF Entries
  <2> HIDE DEF f
  <2>2. IsFiniteSet(DOMAIN f)
    BY <2>1, FS_Subset
  <2>3. IsFiniteSet({f[t] : t \in DOMAIN f})
    BY <2>2, FiniteImage
  <2> QED  BY <2>1, <2>3
<1>2. IsFiniteSet(X)
  <2>1. IsFiniteSet({1, -1})
    <3>1. IsFiniteSet({1})
      BY FS_Singleton
    <3>2. IsFiniteSet({1} \cup {-1})
      BY <3>1, FS_AddElement
    <3>3. {1} \cup {-1} = {1, -1}
      OBVIOUS
    <3> QED  BY <3>2, <3>3
  <2>2. IsFiniteSet(Cells \X Entries(T))
    BY <1>1, CellsFinite, FS_Product
  <2> QED  BY <2>1, <2>2, FS_Product
<1>3. ASSUME NEW e \in Events(T) PROVE \E x \in X : e = g[x]
  <2>1. PICK c \in Cells : e \in CellEvents(c, Scored(T, c.family, c.lookback))
    BY EventsAre
  <2>2. PICK level \in Threshold(Scored(T, c.family, c.lookback), c.threshold), x \in Scored(T, c.family, c.lookback) :
          e = [cell |-> c, entry |-> x.entry, exit |-> x.entry + c.horizon,
               stance |-> Stance(c.direction, Side(x.score, level))]
    BY <2>1, EventFrom
  <2>3. x.entry \in Entries(T)
    BY DEF Scored
  <2> DEFINE n == x.entry
             k == Stance(c.direction, Side(x.score, level))
  <2>4. k \in {1, -1}
    BY DEF Stance
  <2>5. e = [cell |-> c, entry |-> n, exit |-> n + c.horizon, stance |-> k] /\ n \in Entries(T)
    BY <2>2, <2>3
  <2> HIDE DEF n, k
  <2>6. <<<<c, n>>, k>> \in X
    BY <2>4, <2>5
  <2>7. g[<<<<c, n>>, k>>] = e
    BY <2>5, <2>6
  <2> HIDE DEF g, X
  <2> QED  BY <2>6, <2>7
<1>4. DOMAIN g = X
  OBVIOUS
<1> HIDE DEF g, X
<1>5. IsFiniteSet({g[x] : x \in X})
  BY <1>2, <1>4, FiniteImage
<1>6. Events(T) \in SUBSET {g[x] : x \in X}
  BY <1>3
<1> QED
  BY <1>5, <1>6, FS_Subset

LEMMA PnlTyped ==
  ASSUME NEW entry \in QuoteType \cup {NoQuote}, NEW exit \in QuoteType \cup {NoQuote}, NEW stance \in {1, -1}
  PROVE  Pnl(stance, entry, exit) \subseteq Int
<1>1. CASE NoQuote \in {entry, exit}
  BY <1>1 DEF Pnl
<1>2. CASE NoQuote \notin {entry, exit}
  <2>1. entry.ask \in Nat /\ entry.bid \in Nat /\ exit.ask \in Nat /\ exit.bid \in Nat
    BY <1>2, FieldsOfQuote
  <2> DEFINE in == IF stance = 1 THEN entry.ask ELSE entry.bid
             out == IF stance = 1 THEN exit.bid ELSE exit.ask
  <2>2. in \in Nat /\ out \in Nat
    BY <2>1
  <2>3. Pnl(stance, entry, exit) = IF in = 0 THEN {} ELSE {(10000 * stance * (out - in)) \div in - Cost}
    BY <1>2 DEF Pnl
  <2> HIDE DEF in, out
  <2>4. 10000 * stance * (out - in) \in Int
    BY <2>2
  <2>5. in # 0 => (10000 * stance * (out - in)) \div in \in Int
    BY <2>2, <2>4
  <2>6. Cost \in Int
    BY DEF Cost
  <2> QED  BY <2>3, <2>5, <2>6
<1> QED
  BY <1>1, <1>2

\* What events earn, as the cells are computed of it.
Earned(R) == IsFiniteSet(R) /\ \A r \in R : r.event.cell \in Cells /\ r.earned \subseteq Int

LEMMA ResultsEarn ==
  ASSUME NEW T \in SUBSET TickType, IsFiniteSet(T), NEW rows, QuotedRows(rows)
  PROVE  Earned(Results(Events(T), rows))
<1> DEFINE E == IsEvents(Events(T))
           f == [e \in E |-> [event |-> e, earned |-> Pnl(e.stance, QuoteAt(rows, e.entry), QuoteAt(rows, e.exit))]]
<1>1. E \in SUBSET Events(T)
  BY DEF IsEvents
<1>2. \A e \in E : EventOK(e)
  BY <1>1, EventIs
<1>3. Results(Events(T), rows) = {f[e] : e \in E} /\ DOMAIN f = E
  BY DEF Results
<1>4. ASSUME NEW e \in E PROVE f[e].event.cell \in Cells /\ f[e].earned \subseteq Int
  <2>1. e.cell \in Cells /\ e.stance \in {1, -1}
    BY <1>2 DEF EventOK
  <2> DEFINE in == QuoteAt(rows, e.entry)
             out == QuoteAt(rows, e.exit)
  <2>2. in \in QuoteType \cup {NoQuote} /\ out \in QuoteType \cup {NoQuote}
    BY QuoteAtTyped
  <2>3. f[e].event = e /\ f[e].earned = Pnl(e.stance, in, out)
    OBVIOUS
  <2> HIDE DEF f, E, in, out
  <2>4. Pnl(e.stance, in, out) \subseteq Int
    BY <2>1, <2>2, PnlTyped
  <2> QED  BY <2>1, <2>3, <2>4
<1> HIDE DEF f, E
<1>5. IsFiniteSet(E)
  BY <1>1, EventsFinite, FS_Subset
<1>6. IsFiniteSet({f[e] : e \in E})
  BY <1>3, <1>5, FiniteImage
<1> QED
  BY <1>3, <1>4, <1>6 DEF Earned

LEMMA EarnedParts ==
  ASSUME NEW R, Earned(R), NEW S, S \subseteq R
  PROVE  Earned(S)
<1>1. S \in SUBSET R
  OBVIOUS
<1> QED
  BY <1>1, FS_Subset DEF Earned

LEMMA PValueType ==
  ASSUME NEW n \in Nat, NEW sum \in Int, NEW squares \in Int
  PROVE  PValue(n, sum, squares) \in Nat
<1> DEFINE spread == n * squares - sum * sum
           z2 == (sum * sum * (n - 1)) \div spread
<1> SUFFICES ASSUME n >= 4, spread > 0, z2 <= 15 PROVE PValue(n, sum, squares) \in Nat
  <2>1. z2 > 15 \/ z2 <= 15 \/ n < 4 \/ spread <= 0
    <3>1. spread \in Int
      OBVIOUS
    <3>2. sum * sum * (n - 1) \in Int
      OBVIOUS
    <3>3. spread > 0 => z2 \in Int
      BY <3>1, <3>2
    <3> QED  BY <3>1, <3>3
  <2> QED  BY <2>1 DEF PValue
<1>1. spread \in Int
  OBVIOUS
<1>2. sum * sum * (n - 1) \in Int /\ sum * sum * (n - 1) >= 0
  <2>1. sum * sum \in Nat
    OBVIOUS
  <2>2. n - 1 \in Nat
    OBVIOUS
  <2> DEFINE a == sum * sum
             b == n - 1
  <2> HIDE DEF a, b
  <2>3. a * b \in Nat
    BY <2>1, <2>2 DEF a, b
  <2> QED  BY <2>3 DEF a, b
<1> DEFINE num == sum * sum * (n - 1)
<1>3. num \div spread \in Nat
  <2>1. spread \in Int /\ num \in Int /\ num >= 0 /\ spread > 0
    BY <1>1, <1>2
  <2> HIDE DEF num, spread
  <2> QED  BY <2>1
<1>4. z2 + 1 \in 1 .. 16
  BY <1>3
<1>5. \A i \in 1 .. 16 : NormalTail[i] \in Nat
  BY DEF NormalTail
<1>6. PValue(n, sum, squares) = NormalTail[z2 + 1] \/ PValue(n, sum, squares) \in {0, 1000}
  BY DEF PValue
<1> HIDE DEF z2
<1> QED
  BY <1>4, <1>5, <1>6

LEMMA CellRowType ==
  ASSUME NEW R, Earned(R), NEW c
  PROVE  CellRow(c, R).p \in Nat
<1> DEFINE T == {r \in R : r.earned # {}}
           f == [r \in T |-> CHOOSE x \in r.earned : TRUE]
           g == [r \in T |-> f[r] * f[r]]
<1>1. IsFiniteSet(T) /\ Cardinality(T) \in Nat
  <2>1. T \in SUBSET R /\ IsFiniteSet(R)
    BY DEF Earned
  <2> HIDE DEF T
  <2> QED  BY <2>1, FS_Subset, FS_CardinalityType
<1>2. \A r \in T : f[r] \in Int
  BY DEF Earned
<1>3. \A r \in T : g[r] \in Int
  <2>1. \A r \in T : g[r] = f[r] * f[r]
    OBVIOUS
  <2> HIDE DEF f, g
  <2> QED  BY <1>2, <2>1
<1>4. DOMAIN f = T /\ DOMAIN g = T
  OBVIOUS
<1>5. CellRow(c, R).p = PValue(Cardinality(T), SumFunction(f), SumFunction(g))
  <2>1. g = [r \in T |-> (CHOOSE x \in r.earned : TRUE) * (CHOOSE x \in r.earned : TRUE)]
    OBVIOUS
  <2> HIDE DEF g
  <2> QED  BY <2>1 DEF CellRow
<1> HIDE DEF f, g, T
<1>6. SumFunction(f) \in Int
  BY <1>1, <1>2, <1>4, SumType
<1>7. SumFunction(g) \in Int
  BY <1>1, <1>3, <1>4, SumType
<1> QED
  BY <1>1, <1>5, <1>6, <1>7, PValueType

(***************************************************************************)
(* What a table holds of the generations it rests on                       *)
(***************************************************************************)
Tags == {"events", "ticks"} \X {1, 2}

\* Events e1 and ticks e2 are, in-sample, all the generations of these tags.
Fits(w, p, of, e1, e2) ==
  \A v \in {1, 2} :
    /\ <<"events", v>> \in of => IsEvents(EventsOf[w][v][p]) = IsEvents(EventsOf[w][e1][p])
    /\ <<"ticks", v>> \in of => Known(Ticks[w][v][p]) = Known(Ticks[w][e2][p])

AnchorSound(w, p, t) ==
  t.of \subseteq Tags /\ (Exists(t) =>
    \A e1, e2 \in {1, 2} : Fits(w, p, t.of, e1, e2) => t.rows = AnchorTable(EventsOf[w][e1][p]))
StageSound(w, p, t) ==
  t.of \subseteq Tags /\ t.rows \subseteq QuoteType /\ (Exists(t) =>
    \A e1, e2 \in {1, 2} : Fits(w, p, t.of, e1, e2) => t.rows = RawStage(Ticks[w][e2][p]))
ShardSound(w, p, m, t) ==
  t.of \subseteq Tags /\ QuotedRows(t.rows) /\ (Exists(t) =>
    \A e1, e2 \in {1, 2} : Fits(w, p, t.of, e1, e2) =>
      t.rows = ShardRows(EventsOf[w][e1][p], Ticks[w][e2][p], m))
QuotesSound(w, p, t) ==
  t.of \subseteq Tags /\ QuotedRows(t.rows) /\ (Exists(t) =>
    \A e1, e2 \in {1, 2} : Fits(w, p, t.of, e1, e2) =>
      Quoted(t.rows, EventsOf[w][e1][p], Ticks[w][e2][p]))
CellTable(rows) == \E R : rows = Grouped(R) /\ Earned(R)
CellsSound(w, p, t) ==
  t.of \subseteq Tags /\ CellTable(t.rows) /\ (Exists(t) =>
    \A e1, e2 \in {1, 2} : Fits(w, p, t.of, e1, e2) =>
      \E flipped \in BOOLEAN : PairNumbers(t.rows) = PairNumbers(Reference[w][e1][e2][p][flipped]))

LEMMA WorldIs ==
  ASSUME NEW w \in DOMAIN Ticks, NEW v \in {1, 2}, NEW p \in Pairs
  PROVE  /\ Ticks[w][v][p] \in SUBSET TickType /\ IsFiniteSet(Ticks[w][v][p])
         /\ EventsOf[w][v][p] = Events(Ticks[w][v][p])
         /\ \A e \in {1, 2}, flipped \in BOOLEAN :
              Reference[w][v][e][p][flipped] = LiveCells(EventsOf[w][v][p], Ticks[w][e][p], flipped)
<1>1. Ticks[w] \in [{1, 2} -> [Pairs -> SUBSET TickType]]
  BY PipelineAssumption DEF TickType
<1>2. Ticks[w][v][p] \in SUBSET TickType
  BY <1>1
<1>5. IsFiniteSet(Ticks[w][v][p])
  BY PipelineAssumption
<1>3. EventsOf[w][v][p] = Events(Ticks[w][v][p])
  BY DEF EventsOf
<1>4. ASSUME NEW e \in {1, 2}, NEW flipped \in BOOLEAN
      PROVE  Reference[w][v][e][p][flipped] = LiveCells(EventsOf[w][v][p], Ticks[w][e][p], flipped)
  BY DEF Reference
<1> QED
  BY <1>2, <1>3, <1>4, <1>5

\* What the study reads of quotes is in-sample.
LEMMA StagesKnown ==
  ASSUME NEW T \in SUBSET TickType, NEW U \in SUBSET TickType, Known(T) = Known(U)
  PROVE  /\ RawStage(T) = RawStage(U)
         /\ \A m \in Months : From(T, ShardStart(m), ShardStart(m + 1) + Slack)
                                = From(U, ShardStart(m), ShardStart(m + 1) + Slack)
<1>1. \A q \in Quotes(T) \cup Quotes(U) : q.at \in Nat
  BY QuotesAre
<1>2. \A q : q.at \in Nat /\ q.at < IsEnd + Slack => (q \in Quotes(T) <=> q \in Quotes(U))
  BY QuotesKnown
<1>3. RawStage(T) = RawStage(U)
  BY <1>1, <1>2 DEF RawStage, From
<1>4. ASSUME NEW m \in Months
      PROVE  From(T, ShardStart(m), ShardStart(m + 1) + Slack) = From(U, ShardStart(m), ShardStart(m + 1) + Slack)
  <2>1. m \in Int /\ m + 1 \in Int
    BY DEF Months
  <2>2. ShardStart(m + 1) \in Int /\ IsEnd \in Nat /\ ShardStart(m + 1) <= IsEnd
    BY <2>1, MonthsAre
  <2>3. \A q : q.at \in Nat /\ q.at < ShardStart(m + 1) + Slack => q.at < IsEnd + Slack
    BY <2>2 DEF Slack
  <2> QED  BY <1>1, <1>2, <2>3 DEF From
<1> QED
  BY <1>3, <1>4

LEMMA QuotesOfKnown ==
  ASSUME NEW T \in SUBSET TickType, NEW U \in SUBSET TickType, Known(T) = Known(U),
         NEW V \in SUBSET TickType, NEW a \in Anchors(IsEvents(Events(V))), NEW flipped
  PROVE  QuoteOf(T, a, flipped) = QuoteOf(U, a, flipped)
<1>1. a \in Nat /\ a + Window <= IsEnd + Slack
  BY AnchorsAre
<1>2. InWindow(Quotes(T), a) = InWindow(Quotes(U), a)
  BY <1>1, WindowKnown
<1> QED
  BY <1>2 DEF QuoteOf

LEMMA ShardRowsKnown ==
  ASSUME NEW T \in SUBSET TickType, NEW U \in SUBSET TickType, Known(T) = Known(U),
         NEW V \in SUBSET TickType, NEW W \in SUBSET TickType, IsEvents(Events(V)) = IsEvents(Events(W)),
         NEW m \in Months
  PROVE  ShardRows(Events(V), T, m) = ShardRows(Events(W), U, m)
<1>1. OfMonth(Events(V), m) = OfMonth(Events(W), m)
  BY OfMonthIs
<1>2. From(T, ShardStart(m), ShardStart(m + 1) + Slack) = From(U, ShardStart(m), ShardStart(m + 1) + Slack)
  BY StagesKnown
<1> QED
  BY <1>1, <1>2, ShardRowsAre

LEMMA LiveKnown ==
  ASSUME NEW T \in SUBSET TickType, NEW U \in SUBSET TickType, Known(T) = Known(U),
         NEW V \in SUBSET TickType, NEW W \in SUBSET TickType, IsEvents(Events(V)) = IsEvents(Events(W)),
         NEW flipped
  PROVE  LiveCells(Events(V), T, flipped) = LiveCells(Events(W), U, flipped)
<1> DEFINE A == RangeRows(Events(V), T, flipped)
           B == RangeRows(Events(W), U, flipped)
<1>1. \A a \in Anchors(IsEvents(Events(V))) : QuoteAt(A, a) = QuoteAt(B, a)
  <2> TAKE a \in Anchors(IsEvents(Events(V)))
  <2>1. QuoteAt(A, a) = QuoteOf(T, a, flipped)
    BY RangeQuotes
  <2>2. QuoteAt(B, a) = QuoteOf(U, a, flipped)
    BY RangeQuotes
  <2> QED  BY <2>1, <2>2, QuotesOfKnown
<1> HIDE DEF A, B
<1>2. Results(Events(V), A) = Results(Events(W), B)
  BY <1>1, ResultsAre
<1> QED
  BY <1>2 DEF LiveCells, A, B

(***************************************************************************)
(* Statements: what each makes of sound tables                             *)
(***************************************************************************)
LEMMA FitsParts ==
  ASSUME NEW w, NEW p, NEW of, NEW part, part \subseteq of, NEW e1, NEW e2, Fits(w, p, of, e1, e2)
  PROVE  Fits(w, p, part, e1, e2)
BY DEF Fits

LEMMA AnchorMade ==
  ASSUME NEW w \in DOMAIN Ticks, NEW p \in Pairs, NEW v \in {1, 2}
  PROVE  AnchorSound(w, p, Table({<<"events", v>>}, AnchorTable(EventsOf[w][v][p])))
<1> DEFINE of == {<<"events", v>>}
<1>1. of \subseteq Tags
  BY DEF Tags
<1>2. \A e1, e2 \in {1, 2} : Fits(w, p, of, e1, e2) => AnchorTable(EventsOf[w][v][p]) = AnchorTable(EventsOf[w][e1][p])
  BY DEF Fits, AnchorTable
<1> HIDE DEF of
<1> QED
  BY <1>1, <1>2 DEF AnchorSound, Table, of

LEMMA StageMade ==
  ASSUME NEW w \in DOMAIN Ticks, NEW p \in Pairs, NEW r \in {1, 2}
  PROVE  StageSound(w, p, Table({<<"ticks", r>>}, RawStage(Ticks[w][r][p])))
<1> DEFINE of == {<<"ticks", r>>}
<1>1. of \subseteq Tags
  BY DEF Tags
<1>2. ASSUME NEW e1 \in {1, 2}, NEW e2 \in {1, 2}, Fits(w, p, of, e1, e2)
      PROVE  RawStage(Ticks[w][r][p]) = RawStage(Ticks[w][e2][p])
  <2>1. Known(Ticks[w][r][p]) = Known(Ticks[w][e2][p])
    BY <1>2 DEF Fits
  <2> QED  BY <2>1, WorldIs, StagesKnown
<1>3. RawStage(Ticks[w][r][p]) \subseteq QuoteType
  <2> DEFINE T == Ticks[w][r][p]
  <2>1. T \in SUBSET TickType
    BY WorldIs
  <2> HIDE DEF T
  <2>2. RawStage(T) \subseteq QuoteType
    BY <2>1, QuotesTyped DEF RawStage, From
  <2> QED  BY <2>2 DEF T
<1> HIDE DEF of
<1> QED
  BY <1>1, <1>2, <1>3 DEF StageSound, Table, of

LEMMA ShardMade ==
  ASSUME NEW w \in DOMAIN Ticks, NEW p \in Pairs, NEW v \in {1, 2}, NEW r \in {1, 2}, NEW m \in Months
  PROVE  ShardSound(w, p, m, Table({<<"events", v>>} \cup {<<"ticks", r>>},
                                   ShardRows(EventsOf[w][v][p], Ticks[w][r][p], m)))
<1> DEFINE of == {<<"events", v>>} \cup {<<"ticks", r>>}
<1>1. of \subseteq Tags
  BY DEF Tags
<1>2. ASSUME NEW e1 \in {1, 2}, NEW e2 \in {1, 2}, Fits(w, p, of, e1, e2)
      PROVE  ShardRows(EventsOf[w][v][p], Ticks[w][r][p], m) = ShardRows(EventsOf[w][e1][p], Ticks[w][e2][p], m)
  <2>1. Known(Ticks[w][r][p]) = Known(Ticks[w][e2][p])
    BY <1>2 DEF Fits
  <2>2. IsEvents(EventsOf[w][v][p]) = IsEvents(EventsOf[w][e1][p])
    BY <1>2 DEF Fits
  <2>3. EventsOf[w][v][p] = Events(Ticks[w][v][p]) /\ EventsOf[w][e1][p] = Events(Ticks[w][e1][p])
    BY WorldIs
  <2> QED  BY <2>1, <2>2, <2>3, WorldIs, ShardRowsKnown
<1>3. QuotedRows(ShardRows(EventsOf[w][v][p], Ticks[w][r][p], m))
  BY WorldIs, ShardTyped
<1> HIDE DEF of
<1> QED
  BY <1>1, <1>2, <1>3 DEF ShardSound, Table, of

LEMMA RangeMade ==
  ASSUME NEW w \in DOMAIN Ticks, NEW p \in Pairs, NEW v \in {1, 2}, NEW r \in {1, 2}, NEW flipped \in BOOLEAN
  PROVE  QuotesSound(w, p, Table({<<"events", v>>} \cup {<<"ticks", r>>},
                                 RangeRows(EventsOf[w][v][p], Ticks[w][r][p], flipped)))
<1> DEFINE of == {<<"events", v>>} \cup {<<"ticks", r>>}
           rows == RangeRows(EventsOf[w][v][p], Ticks[w][r][p], flipped)
<1>1. of \subseteq Tags
  BY DEF Tags
<1>2. ASSUME NEW e1 \in {1, 2}, NEW e2 \in {1, 2}, Fits(w, p, of, e1, e2)
      PROVE  Quoted(rows, EventsOf[w][e1][p], Ticks[w][e2][p])
  <2>1. Known(Ticks[w][r][p]) = Known(Ticks[w][e2][p])
    BY <1>2 DEF Fits
  <2>2. IsEvents(EventsOf[w][v][p]) = IsEvents(EventsOf[w][e1][p])
    BY <1>2 DEF Fits
  <2>3. EventsOf[w][e1][p] = Events(Ticks[w][e1][p])
    BY WorldIs
  <2>4. ASSUME NEW a \in Anchors(IsEvents(EventsOf[w][e1][p]))
        PROVE  QuoteAt(rows, a) = QuoteOf(Ticks[w][e2][p], a, flipped)
    <3>1. QuoteAt(rows, a) = QuoteOf(Ticks[w][r][p], a, flipped)
      BY <2>2, RangeQuotes
    <3>2. QuoteOf(Ticks[w][r][p], a, flipped) = QuoteOf(Ticks[w][e2][p], a, flipped)
      BY <2>1, <2>3, WorldIs, QuotesOfKnown
    <3> QED  BY <3>1, <3>2
  <2> QED  BY <2>4 DEF Quoted
<1>3. QuotedRows(rows)
  BY WorldIs, RangeTyped
<1> HIDE DEF of, rows
<1> QED
  BY <1>1, <1>2, <1>3 DEF QuotesSound, Table, of, rows

LEMMA GridMade ==
  ASSUME NEW w \in DOMAIN Ticks, NEW p \in Pairs, NEW a, NEW s, Exists(a), Exists(s),
         AnchorSound(w, p, a), StageSound(w, p, s)
  PROVE  QuotesSound(w, p, Table(a.of \cup s.of, GridRows(a.rows, s.rows)))
<1> DEFINE of == a.of \cup s.of
           rows == GridRows(a.rows, s.rows)
<1>1. of \subseteq Tags
  BY DEF AnchorSound, StageSound
<1>2. ASSUME NEW e1 \in {1, 2}, NEW e2 \in {1, 2}, Fits(w, p, of, e1, e2)
      PROVE  Quoted(rows, EventsOf[w][e1][p], Ticks[w][e2][p])
  <2>1. Fits(w, p, a.of, e1, e2) /\ Fits(w, p, s.of, e1, e2)
    BY <1>2, FitsParts
  <2>2. a.rows = AnchorTable(EventsOf[w][e1][p]) /\ s.rows = RawStage(Ticks[w][e2][p])
    BY <2>1 DEF AnchorSound, StageSound
  <2>3. EventsOf[w][e1][p] = Events(Ticks[w][e1][p])
    BY WorldIs
  <2>4. \A n \in Anchors(IsEvents(EventsOf[w][e1][p])) : QuoteAt(rows, n) = QuoteOf(Ticks[w][e2][p], n, FALSE)
    <3> DEFINE T == Ticks[w][e2][p]
               U == Ticks[w][e1][p]
    <3>1. T \in SUBSET TickType /\ U \in SUBSET TickType
      BY WorldIs
    <3> HIDE DEF T, U, rows
    <3>2. \A n \in Anchors(IsEvents(Events(U))) :
            QuoteAt(GridRows(AnchorTable(Events(U)), RawStage(T)), n) = QuoteOf(T, n, FALSE)
      BY <3>1, GridQuotes
    <3>3. rows = GridRows(AnchorTable(Events(U)), RawStage(T))
      BY <2>2, <2>3 DEF rows, T, U
    <3>4. \A n \in Anchors(IsEvents(Events(U))) : QuoteAt(rows, n) = QuoteOf(T, n, FALSE)
      BY <3>2, <3>3
    <3> QED  BY <2>3, <3>4 DEF T, U
  <2> QED  BY <2>4 DEF Quoted
<1>3. QuotedRows(rows)
  BY GridTyped DEF StageSound
<1> HIDE DEF of, rows
<1> QED
  BY <1>1, <1>2, <1>3 DEF QuotesSound, Table, of, rows

LEMMA UnionMade ==
  ASSUME NEW w \in DOMAIN Ticks, NEW p \in Pairs, NEW s,
         \A m \in Months : Exists(s[m]) /\ ShardSound(w, p, m, s[m])
  PROVE  QuotesSound(w, p, Table(UNION {s[m].of : m \in Months}, UnionRows([m \in Months |-> s[m].rows])))
<1> DEFINE of == UNION {s[m].of : m \in Months}
           rows == UnionRows([m \in Months |-> s[m].rows])
<1>1. of \subseteq Tags
  BY DEF ShardSound
<1>2. ASSUME NEW e1 \in {1, 2}, NEW e2 \in {1, 2}, Fits(w, p, of, e1, e2)
      PROVE  Quoted(rows, EventsOf[w][e1][p], Ticks[w][e2][p])
  <2>1. \A m \in Months : Fits(w, p, s[m].of, e1, e2)
    <3> TAKE m \in Months
    <3>1. s[m].of \subseteq of
      OBVIOUS
    <3> HIDE DEF of
    <3> QED  BY <1>2, <3>1, FitsParts
  <2>2. \A m \in Months : s[m].rows = ShardRows(EventsOf[w][e1][p], Ticks[w][e2][p], m)
    BY <2>1 DEF ShardSound
  <2>3. EventsOf[w][e1][p] = Events(Ticks[w][e1][p])
    BY WorldIs
  <2>4. rows = UnionRows([m \in Months |-> ShardRows(EventsOf[w][e1][p], Ticks[w][e2][p], m)])
    <3>1. [m \in Months |-> s[m].rows] = [m \in Months |-> ShardRows(EventsOf[w][e1][p], Ticks[w][e2][p], m)]
      BY <2>2
    <3> QED  BY <3>1
  <2>5. \A n \in Anchors(IsEvents(EventsOf[w][e1][p])) : QuoteAt(rows, n) = QuoteOf(Ticks[w][e2][p], n, FALSE)
    <3> DEFINE T == Ticks[w][e2][p]
               U == Ticks[w][e1][p]
    <3>1. T \in SUBSET TickType /\ U \in SUBSET TickType
      BY WorldIs
    <3> HIDE DEF T, U, rows
    <3>2. \A n \in Anchors(IsEvents(Events(U))) :
            QuoteAt(UnionRows([m \in Months |-> ShardRows(Events(U), T, m)]), n) = QuoteOf(T, n, FALSE)
      BY <3>1, UnionQuotes
    <3>3. rows = UnionRows([m \in Months |-> ShardRows(Events(U), T, m)])
      BY <2>3, <2>4 DEF T, U
    <3>4. \A n \in Anchors(IsEvents(Events(U))) : QuoteAt(rows, n) = QuoteOf(T, n, FALSE)
      BY <3>2, <3>3
    <3> QED  BY <2>3, <3>4 DEF T, U
  <2> HIDE DEF rows
  <2> QED  BY <2>5 DEF Quoted
<1>3. QuotedRows(rows)
  <2> DEFINE shards == [m \in Months |-> s[m].rows]
  <2>1. \A m \in DOMAIN shards : QuotedRows(shards[m])
    BY DEF ShardSound
  <2> HIDE DEF shards
  <2>2. QuotedRows(UnionRows(shards))
    BY <2>1, UnionTyped
  <2> QED  BY <2>2 DEF shards
<1> HIDE DEF of, rows
<1> QED
  BY <1>1, <1>2, <1>3 DEF QuotesSound, Table, of, rows

LEMMA AnchoredMade ==
  ASSUME NEW w \in DOMAIN Ticks, NEW p \in Pairs, NEW v \in {1, 2}, NEW q, Exists(q), QuotesSound(w, p, q)
  PROVE  CellsSound(w, p, Table({<<"events", v>>} \cup q.of, AnchoredCells(EventsOf[w][v][p], q.rows)))
<1> DEFINE of == {<<"events", v>>} \cup q.of
           rows == AnchoredCells(EventsOf[w][v][p], q.rows)
<1>1. of \subseteq Tags
  BY DEF QuotesSound, Tags
<1>2. ASSUME NEW e1 \in {1, 2}, NEW e2 \in {1, 2}, Fits(w, p, of, e1, e2)
      PROVE  \E flipped \in BOOLEAN : PairNumbers(rows) = PairNumbers(Reference[w][e1][e2][p][flipped])
  <2>1. Fits(w, p, q.of, e1, e2)
    BY <1>2, FitsParts
  <2>2. IsEvents(EventsOf[w][v][p]) = IsEvents(EventsOf[w][e1][p])
    BY <1>2 DEF Fits
  <2>3. /\ EventsOf[w][e1][p] = Events(Ticks[w][e1][p])
        /\ Ticks[w][e1][p] \in SUBSET TickType /\ Ticks[w][e2][p] \in SUBSET TickType
    BY WorldIs
  <2>4. Quoted(q.rows, EventsOf[w][e1][p], Ticks[w][e2][p])
    BY <2>1 DEF QuotesSound
  <2>5. PICK flipped \in {TRUE, FALSE} : PairNumbers(AnchoredCells(EventsOf[w][e1][p], q.rows))
          = PairNumbers(LiveCells(EventsOf[w][e1][p], Ticks[w][e2][p], flipped))
    <3>1. PICK flipped \in BOOLEAN : \A a \in Anchors(IsEvents(EventsOf[w][e1][p])) :
            QuoteAt(q.rows, a) = QuoteOf(Ticks[w][e2][p], a, flipped)
      BY <2>4 DEF Quoted
    <3> DEFINE T == Ticks[w][e2][p]
               U == Ticks[w][e1][p]
    <3>2. T \in SUBSET TickType /\ U \in SUBSET TickType
      BY <2>3
    <3>3. \A a \in Anchors(IsEvents(Events(U))) : QuoteAt(q.rows, a) = QuoteOf(T, a, flipped)
      BY <2>3, <3>1
    <3> HIDE DEF T, U
    <3>4. PairNumbers(AnchoredCells(Events(U), q.rows)) = PairNumbers(LiveCells(Events(U), T, flipped))
      BY <3>2, <3>3, AnchoredNumbers
    <3> QED  BY <2>3, <3>4 DEF T, U
  <2>6. rows = AnchoredCells(EventsOf[w][e1][p], q.rows)
    <3>1. Results(EventsOf[w][v][p], q.rows) = Results(EventsOf[w][e1][p], q.rows)
      BY <2>2, ResultsAre
    <3> QED  BY <3>1 DEF AnchoredCells
  <2>7. Reference[w][e1][e2][p][flipped] = LiveCells(EventsOf[w][e1][p], Ticks[w][e2][p], flipped)
    <3>1. flipped \in BOOLEAN
      OBVIOUS
    <3> QED  BY <3>1, WorldIs
  <2> HIDE DEF rows
  <2> QED  BY <2>5, <2>6, <2>7
<1>3. CellTable(rows)
  <2>1. /\ EventsOf[w][v][p] = Events(Ticks[w][v][p])
        /\ Ticks[w][v][p] \in SUBSET TickType /\ IsFiniteSet(Ticks[w][v][p])
    BY WorldIs
  <2>2. QuotedRows(q.rows)
    BY DEF QuotesSound
  <2>3. Earned(Results(EventsOf[w][v][p], q.rows))
    BY <2>1, <2>2, ResultsEarn
  <2> QED  BY <2>3 DEF CellTable, AnchoredCells
<1> HIDE DEF of, rows
<1> QED
  BY <1>1, <1>2, <1>3 DEF CellsSound, Table, of, rows

LEMMA LiveTable ==
  ASSUME NEW T \in SUBSET TickType, IsFiniteSet(T), NEW U \in SUBSET TickType, IsFiniteSet(U), NEW flipped
  PROVE  CellTable(LiveCells(Events(T), U, flipped))
<1> DEFINE R == Results(Events(T), RangeRows(Events(T), U, flipped))
<1>1. Earned(R)
  BY RangeTyped, ResultsEarn
<1> HIDE DEF R
<1>2. Earned({x \in R : x.earned # {}})
  BY <1>1, EarnedParts
<1>3. CellTable(Grouped({x \in R : x.earned # {}}))
  BY <1>2 DEF CellTable
<1> QED
  BY <1>3 DEF LiveCells, R

LEMMA LiveMade ==
  ASSUME NEW w \in DOMAIN Ticks, NEW p \in Pairs, NEW v \in {1, 2}, NEW r \in {1, 2}, NEW flipped \in BOOLEAN
  PROVE  CellsSound(w, p, Table({<<"events", v>>} \cup {<<"ticks", r>>},
                                LiveCells(EventsOf[w][v][p], Ticks[w][r][p], flipped)))
<1> DEFINE of == {<<"events", v>>} \cup {<<"ticks", r>>}
           rows == LiveCells(EventsOf[w][v][p], Ticks[w][r][p], flipped)
<1>1. of \subseteq Tags
  BY DEF Tags
<1>2. ASSUME NEW e1 \in {1, 2}, NEW e2 \in {1, 2}, Fits(w, p, of, e1, e2)
      PROVE  rows = Reference[w][e1][e2][p][flipped]
  <2>1. Known(Ticks[w][r][p]) = Known(Ticks[w][e2][p])
    BY <1>2 DEF Fits
  <2>2. IsEvents(EventsOf[w][v][p]) = IsEvents(EventsOf[w][e1][p])
    BY <1>2 DEF Fits
  <2>3. EventsOf[w][v][p] = Events(Ticks[w][v][p]) /\ EventsOf[w][e1][p] = Events(Ticks[w][e1][p])
    BY WorldIs
  <2>4. rows = LiveCells(EventsOf[w][e1][p], Ticks[w][e2][p], flipped)
    <3> DEFINE T == Ticks[w][r][p]
               U == Ticks[w][e2][p]
               V == Ticks[w][v][p]
               W == Ticks[w][e1][p]
    <3>1. T \in SUBSET TickType /\ U \in SUBSET TickType /\ V \in SUBSET TickType /\ W \in SUBSET TickType
      BY WorldIs
    <3>2. Known(T) = Known(U) /\ IsEvents(Events(V)) = IsEvents(Events(W))
      BY <2>1, <2>2, <2>3
    <3> HIDE DEF T, U, V, W
    <3>3. LiveCells(Events(V), T, flipped) = LiveCells(Events(W), U, flipped)
      BY <3>1, <3>2, LiveKnown
    <3> QED  BY <2>3, <3>3 DEF T, U, V, W
  <2> QED  BY <2>4, WorldIs
<1>3. CellTable(rows)
  BY WorldIs, LiveTable
<1> HIDE DEF of, rows
<1> QED
  BY <1>1, <1>2, <1>3 DEF CellsSound, Table, of, rows

(***************************************************************************)
(* The tables are sound, and a statement keeps them so                     *)
(***************************************************************************)
Shaped(b) ==
  /\ b = [raw |-> b.raw, ev |-> b.ev, anchor |-> b.anchor, stage |-> b.stage,
          shard |-> b.shard, quotes |-> b.quotes, cells |-> b.cells]
  /\ b.raw \in {1, 2} /\ b.ev \in [Pairs -> 0 .. 2]
  /\ DOMAIN b.anchor = Pairs /\ DOMAIN b.stage = Pairs
  /\ DOMAIN b.quotes = Pairs /\ DOMAIN b.cells = Pairs
  /\ DOMAIN b.shard = Pairs /\ \A p \in Pairs : DOMAIN b.shard[p] = Months

PairSound(w, b, p) ==
  /\ AnchorSound(w, p, b.anchor[p]) /\ StageSound(w, p, b.stage[p])
  /\ \A m \in Months : ShardSound(w, p, m, b.shard[p][m])
  /\ QuotesSound(w, p, b.quotes[p]) /\ CellsSound(w, p, b.cells[p])
Sound(w, b) == Shaped(b) /\ \A p \in Pairs : PairSound(w, b, p)

StatementOK(s) ==
  /\ s.do \in {"features", "anchor", "stage", "grid", "range", "shard", "union", "anchored", "live",
               "backfill", "validate", "read"}
  /\ s.pair \in Pairs /\ (s.do = "shard" => s.month \in Months) /\ s.flipped \in BOOLEAN

LEMMA PutAnchor ==
  ASSUME NEW b, Shaped(b), NEW p \in Pairs, NEW t, NEW c, c = [b EXCEPT !.anchor[p] = t]
  PROVE  /\ Shaped(c) /\ c.raw = b.raw /\ c.ev = b.ev /\ c.stage = b.stage /\ c.shard = b.shard /\ c.quotes = b.quotes /\ c.cells = b.cells
         /\ c.anchor[p] = t /\ \A q \in Pairs : q # p => c.anchor[q] = b.anchor[q]
<1>1. c.anchor = [b.anchor EXCEPT ![p] = t] /\ c.raw = b.raw /\ c.ev = b.ev /\ c.stage = b.stage /\ c.shard = b.shard /\ c.quotes = b.quotes /\ c.cells = b.cells
  BY DEF Shaped
<1>2. c = [raw |-> c.raw, ev |-> c.ev, anchor |-> c.anchor, stage |-> c.stage,
           shard |-> c.shard, quotes |-> c.quotes, cells |-> c.cells]
  BY <1>1 DEF Shaped
<1> QED
  BY <1>1, <1>2 DEF Shaped

LEMMA PutStage ==
  ASSUME NEW b, Shaped(b), NEW p \in Pairs, NEW t, NEW c, c = [b EXCEPT !.stage[p] = t]
  PROVE  /\ Shaped(c) /\ c.raw = b.raw /\ c.ev = b.ev /\ c.anchor = b.anchor /\ c.shard = b.shard /\ c.quotes = b.quotes /\ c.cells = b.cells
         /\ c.stage[p] = t /\ \A q \in Pairs : q # p => c.stage[q] = b.stage[q]
<1>1. c.stage = [b.stage EXCEPT ![p] = t] /\ c.raw = b.raw /\ c.ev = b.ev /\ c.anchor = b.anchor /\ c.shard = b.shard /\ c.quotes = b.quotes /\ c.cells = b.cells
  BY DEF Shaped
<1>2. c = [raw |-> c.raw, ev |-> c.ev, anchor |-> c.anchor, stage |-> c.stage,
           shard |-> c.shard, quotes |-> c.quotes, cells |-> c.cells]
  BY <1>1 DEF Shaped
<1> QED
  BY <1>1, <1>2 DEF Shaped

LEMMA PutQuotes ==
  ASSUME NEW b, Shaped(b), NEW p \in Pairs, NEW t, NEW c, c = [b EXCEPT !.quotes[p] = t]
  PROVE  /\ Shaped(c) /\ c.raw = b.raw /\ c.ev = b.ev /\ c.anchor = b.anchor /\ c.stage = b.stage /\ c.shard = b.shard /\ c.cells = b.cells
         /\ c.quotes[p] = t /\ \A q \in Pairs : q # p => c.quotes[q] = b.quotes[q]
<1>1. c.quotes = [b.quotes EXCEPT ![p] = t] /\ c.raw = b.raw /\ c.ev = b.ev /\ c.anchor = b.anchor /\ c.stage = b.stage /\ c.shard = b.shard /\ c.cells = b.cells
  BY DEF Shaped
<1>2. c = [raw |-> c.raw, ev |-> c.ev, anchor |-> c.anchor, stage |-> c.stage,
           shard |-> c.shard, quotes |-> c.quotes, cells |-> c.cells]
  BY <1>1 DEF Shaped
<1> QED
  BY <1>1, <1>2 DEF Shaped

LEMMA PutCells ==
  ASSUME NEW b, Shaped(b), NEW p \in Pairs, NEW t, NEW c, c = [b EXCEPT !.cells[p] = t]
  PROVE  /\ Shaped(c) /\ c.raw = b.raw /\ c.ev = b.ev /\ c.anchor = b.anchor /\ c.stage = b.stage /\ c.shard = b.shard /\ c.quotes = b.quotes
         /\ c.cells[p] = t /\ \A q \in Pairs : q # p => c.cells[q] = b.cells[q]
<1>1. c.cells = [b.cells EXCEPT ![p] = t] /\ c.raw = b.raw /\ c.ev = b.ev /\ c.anchor = b.anchor /\ c.stage = b.stage /\ c.shard = b.shard /\ c.quotes = b.quotes
  BY DEF Shaped
<1>2. c = [raw |-> c.raw, ev |-> c.ev, anchor |-> c.anchor, stage |-> c.stage,
           shard |-> c.shard, quotes |-> c.quotes, cells |-> c.cells]
  BY <1>1 DEF Shaped
<1> QED
  BY <1>1, <1>2 DEF Shaped

WithShard(b, p, m, t) == [b EXCEPT !.shard[p][m] = t]

LEMMA PutShard ==
  ASSUME NEW b, Shaped(b), NEW p \in Pairs, NEW m \in Months, NEW t, NEW c, c = WithShard(b, p, m, t)
  PROVE  /\ Shaped(c) /\ c.raw = b.raw /\ c.ev = b.ev /\ c.anchor = b.anchor /\ c.stage = b.stage /\ c.quotes = b.quotes /\ c.cells = b.cells
         /\ c.shard[p][m] = t /\ \A q \in Pairs : \A k \in Months : q # p \/ k # m => c.shard[q][k] = b.shard[q][k]
<1>1. c.shard = [b.shard EXCEPT ![p] = [b.shard[p] EXCEPT ![m] = t]] /\ c.raw = b.raw /\ c.ev = b.ev /\ c.anchor = b.anchor /\ c.stage = b.stage /\ c.quotes = b.quotes /\ c.cells = b.cells
  BY DEF Shaped, WithShard
<1>2. c = [raw |-> c.raw, ev |-> c.ev, anchor |-> c.anchor, stage |-> c.stage,
           shard |-> c.shard, quotes |-> c.quotes, cells |-> c.cells]
  BY <1>1 DEF Shaped, WithShard
<1>3. DOMAIN c.shard = Pairs /\ c.shard[p] = [b.shard[p] EXCEPT ![m] = t] /\ \A q \in Pairs : q # p => c.shard[q] = b.shard[q]
  BY <1>1 DEF Shaped
<1>4. DOMAIN c.shard[p] = Months /\ c.shard[p][m] = t /\ \A k \in Months : k # m => c.shard[p][k] = b.shard[p][k]
  BY <1>3 DEF Shaped
<1>5. Shaped(c)
  BY <1>1, <1>2, <1>3, <1>4 DEF Shaped
<1> QED
  BY <1>1, <1>3, <1>4, <1>5

LEMMA PutEvents ==
  ASSUME NEW b, Shaped(b), NEW p \in Pairs, NEW v \in {1, 2}, NEW c, c = [b EXCEPT !.ev[p] = v]
  PROVE  /\ Shaped(c) /\ c.raw = b.raw /\ c.anchor = b.anchor /\ c.stage = b.stage /\ c.shard = b.shard /\ c.quotes = b.quotes /\ c.cells = b.cells
<1>1. c.ev = [b.ev EXCEPT ![p] = v] /\ c.raw = b.raw /\ c.anchor = b.anchor /\ c.stage = b.stage /\ c.shard = b.shard /\ c.quotes = b.quotes /\ c.cells = b.cells
  BY DEF Shaped
<1>2. c = [raw |-> c.raw, ev |-> c.ev, anchor |-> c.anchor, stage |-> c.stage,
           shard |-> c.shard, quotes |-> c.quotes, cells |-> c.cells]
  BY <1>1 DEF Shaped
<1>3. c.ev \in [Pairs -> 0 .. 2]
  BY <1>1 DEF Shaped
<1> QED
  BY <1>1, <1>2, <1>3 DEF Shaped

LEMMA PutRaw ==
  ASSUME NEW b, Shaped(b), NEW c, c = [b EXCEPT !.raw = 2]
  PROVE  Shaped(c) /\ c.ev = b.ev /\ c.anchor = b.anchor /\ c.stage = b.stage /\ c.shard = b.shard /\ c.quotes = b.quotes /\ c.cells = b.cells
<1>1. c.raw = 2 /\ c.ev = b.ev /\ c.anchor = b.anchor /\ c.stage = b.stage /\ c.shard = b.shard /\ c.quotes = b.quotes /\ c.cells = b.cells
  BY DEF Shaped
<1>2. c = [raw |-> c.raw, ev |-> c.ev, anchor |-> c.anchor, stage |-> c.stage,
           shard |-> c.shard, quotes |-> c.quotes, cells |-> c.cells]
  BY <1>1 DEF Shaped
<1> QED
  BY <1>1, <1>2 DEF Shaped

\* The cells of a pair, once made, stay; a statement that makes or reads them leaves some.
CellsKept(b, c, s) ==
  /\ \A q \in Pairs : Exists(b.cells[q]) => Exists(c.cells[q])
  /\ s.do \in {"anchored", "live", "read"} => Exists(c.cells[s.pair])

LEMMA ExecuteSound ==
  ASSUME world \in DOMAIN Ticks, NEW b, Sound(world, b), NEW s, StatementOK(s), Runnable(s, b)
  PROVE  Sound(world, Execute(s, b)) /\ CellsKept(b, Execute(s, b), s)
<1> DEFINE p == s.pair
           c == Execute(s, b)
           w == world
<1>1. p \in Pairs /\ Shaped(b) /\ b.raw \in {1, 2} /\ b.ev[p] \in 0 .. 2 /\ \A q \in Pairs : PairSound(w, b, q)
  BY DEF Sound, Shaped, StatementOK
<1>2. PairSound(w, b, p)
  BY <1>1
<1>3. b.ev[p] # 0 => b.ev[p] \in {1, 2}
  BY <1>1
<1> HIDE DEF p, c, w
<1>a. CASE s.do = "features"
  <2>1. c = [b EXCEPT !.ev[p] = b.raw]
    BY <1>a DEF Execute, c, p
  <2>2. /\ Shaped(c) /\ c.anchor = b.anchor /\ c.stage = b.stage
        /\ c.shard = b.shard /\ c.quotes = b.quotes /\ c.cells = b.cells
    BY <1>1, <2>1, PutEvents
  <2> QED  BY <1>1, <1>a, <2>2 DEF Sound, PairSound, CellsKept, c, w
<1>b. CASE s.do = "anchor"
  <2>1. c = [b EXCEPT !.anchor[p] = AnchorStatement(b, p)]
    BY <1>b DEF Execute, c, p
  <2>2. /\ Shaped(c) /\ c.stage = b.stage
        /\ c.shard = b.shard /\ c.quotes = b.quotes /\ c.cells = b.cells
        /\ c.anchor[p] = AnchorStatement(b, p) /\ \A q \in Pairs : q # p => c.anchor[q] = b.anchor[q]
    BY <1>1, <2>1, PutAnchor
  <2>3. b.ev[p] # 0
    BY <1>b DEF Runnable, p
  <2>4. AnchorSound(w, p, AnchorStatement(b, p))
    BY <1>1, <1>3, <2>3, AnchorMade DEF AnchorStatement, EventTable, OfEvents, w
  <2> QED  BY <1>1, <1>b, <2>2, <2>4 DEF Sound, PairSound, CellsKept, c, w
<1>c. CASE s.do = "stage"
  <2>1. c = [b EXCEPT !.stage[p] = StageStatement(b, p)]
    BY <1>c DEF Execute, c, p
  <2>2. /\ Shaped(c) /\ c.anchor = b.anchor
        /\ c.shard = b.shard /\ c.quotes = b.quotes /\ c.cells = b.cells
        /\ c.stage[p] = StageStatement(b, p) /\ \A q \in Pairs : q # p => c.stage[q] = b.stage[q]
    BY <1>1, <2>1, PutStage
  <2>3. StageSound(w, p, StageStatement(b, p))
    BY <1>1, StageMade DEF StageStatement, TicksOf, OfTicks, w
  <2> QED  BY <1>1, <1>c, <2>2, <2>3 DEF Sound, PairSound, CellsKept, c, w
<1>d. CASE s.do \in {"grid", "range", "union"}
  <2> DEFINE t == IF s.do = "grid" THEN GridStatement(b, p)
                  ELSE IF s.do = "range" THEN RangeStatement(b, p, s.flipped) ELSE UnionStatement(b, p)
  <2>1. c = [b EXCEPT !.quotes[p] = t]
    BY <1>d DEF Execute, c, p
  <2>2. QuotesSound(w, p, t)
    <3>1. CASE s.do = "grid"
      <4>1. Exists(b.anchor[p]) /\ Exists(b.stage[p])
        BY <3>1 DEF Runnable, p
      <4>2. AnchorSound(w, p, b.anchor[p]) /\ StageSound(w, p, b.stage[p])
        BY <1>2 DEF PairSound
      <4> QED  BY <1>1, <3>1, <4>1, <4>2, GridMade DEF GridStatement, w
    <3>2. CASE s.do = "range"
      <4>1. b.ev[p] # 0 /\ s.flipped \in BOOLEAN
        BY <3>2 DEF Runnable, StatementOK, p
      <4> QED  BY <1>1, <1>3, <3>2, <4>1, RangeMade DEF RangeStatement, EventTable, TicksOf, OfEvents, OfTicks, w
    <3>3. CASE s.do = "union"
      <4>1. \A m \in Months : Exists(b.shard[p][m]) /\ ShardSound(w, p, m, b.shard[p][m])
        BY <1>2, <3>3 DEF Runnable, PairSound, p
      <4>2. QuotesSound(w, p, UnionStatement(b, p))
        BY <1>1, <4>1, UnionMade DEF UnionStatement, w
      <4> QED  BY <3>3, <4>2
    <3> QED  BY <1>d, <3>1, <3>2, <3>3
  <2> HIDE DEF t
  <2>3. /\ Shaped(c) /\ c.anchor = b.anchor /\ c.stage = b.stage
        /\ c.shard = b.shard /\ c.cells = b.cells
        /\ c.quotes[p] = t /\ \A q \in Pairs : q # p => c.quotes[q] = b.quotes[q]
    BY <1>1, <2>1, PutQuotes
  <2> QED  BY <1>1, <1>d, <2>2, <2>3 DEF Sound, PairSound, CellsKept, c, w
<1>e. CASE s.do = "shard"
  <2> DEFINE m == s.month
             t == ShardStatement(b, p, m)
  <2>0. m \in Months /\ b.ev[p] # 0
    BY <1>e DEF StatementOK, Runnable, p
  <2>1. c = WithShard(b, p, m, t)
    BY <1>e DEF Execute, c, p, WithShard
  <2>2. ShardSound(w, p, m, t)
    BY <1>1, <1>3, <2>0, ShardMade DEF ShardStatement, EventTable, TicksOf, OfEvents, OfTicks, w
  <2> HIDE DEF t, m
  <2>3. /\ Shaped(c) /\ c.anchor = b.anchor /\ c.stage = b.stage
        /\ c.quotes = b.quotes /\ c.cells = b.cells
        /\ c.shard[p][m] = t
        /\ \A q \in Pairs : \A k \in Months : q # p \/ k # m => c.shard[q][k] = b.shard[q][k]
    BY <1>1, <2>0, <2>1, PutShard
  <2>4. ASSUME NEW q \in Pairs, NEW k \in Months PROVE ShardSound(w, q, k, c.shard[q][k])
    <3>1. CASE q = p /\ k = m
      BY <2>2, <2>3, <3>1
    <3>2. CASE q # p \/ k # m
      BY <1>1, <2>3, <3>2 DEF PairSound
    <3> QED  BY <3>1, <3>2
  <2> QED  BY <1>1, <1>e, <2>3, <2>4 DEF Sound, PairSound, CellsKept, c, w
<1>f. CASE s.do \in {"anchored", "live"}
  <2> DEFINE t == IF s.do = "anchored" THEN AnchoredStatement(b, p) ELSE LiveStatement(b, p, s.flipped)
  <2>1. c = [b EXCEPT !.cells[p] = t]
    BY <1>f DEF Execute, c, p
  <2>2. CellsSound(w, p, t)
    <3>1. CASE s.do = "anchored"
      <4>1. b.ev[p] # 0 /\ Exists(b.quotes[p]) /\ QuotesSound(w, p, b.quotes[p])
        BY <1>2, <3>1 DEF Runnable, PairSound, p
      <4>2. CellsSound(w, p, AnchoredStatement(b, p))
        BY <1>1, <1>3, <4>1, AnchoredMade DEF AnchoredStatement, EventTable, OfEvents, w
      <4> QED  BY <3>1, <4>2
    <3>2. CASE s.do = "live"
      <4>1. b.ev[p] # 0 /\ s.flipped \in BOOLEAN
        BY <3>2 DEF Runnable, StatementOK, p
      <4> QED  BY <1>1, <1>3, <3>2, <4>1, LiveMade DEF LiveStatement, EventTable, TicksOf, OfEvents, OfTicks, w
    <3> QED  BY <1>f, <3>1, <3>2
  <2>3. Exists(t)
    <3>1. <<"events", b.ev[p]>> \in t.of
      BY <1>f DEF AnchoredStatement, LiveStatement, Table, OfEvents
    <3>2. NoTable.of = {}
      BY DEF NoTable, Table
    <3> HIDE DEF t
    <3> QED  BY <3>1, <3>2 DEF Exists
  <2> HIDE DEF t
  <2>4. /\ Shaped(c) /\ c.anchor = b.anchor /\ c.stage = b.stage
        /\ c.shard = b.shard /\ c.quotes = b.quotes
        /\ c.cells[p] = t /\ \A q \in Pairs : q # p => c.cells[q] = b.cells[q]
    BY <1>1, <2>1, PutCells
  <2> QED  BY <1>1, <2>2, <2>3, <2>4 DEF Sound, PairSound, CellsKept, c, w, p
<1>g. CASE s.do = "backfill"
  <2>1. c = [b EXCEPT !.raw = 2]
    BY <1>g DEF Execute, c, p
  <2>2. /\ Shaped(c) /\ c.anchor = b.anchor /\ c.stage = b.stage
        /\ c.shard = b.shard /\ c.quotes = b.quotes /\ c.cells = b.cells
    BY <1>1, <2>1, PutRaw
  <2> QED  BY <1>1, <1>g, <2>2 DEF Sound, PairSound, CellsKept, c, w
<1>h. CASE s.do \in {"validate", "read"}
  <2>1. c = b
    BY <1>h DEF Execute, c, p
  <2>2. s.do = "read" => Exists(b.cells[p])
    BY DEF Runnable, p
  <2> QED  BY <1>h, <2>1, <2>2 DEF CellsKept, c, w, p
<1> QED
  BY <1>a, <1>b, <1>c, <1>d, <1>e, <1>f, <1>g, <1>h DEF StatementOK

(***************************************************************************)
(* A list of statements, as far as it comes                                *)
(***************************************************************************)
TrailAfter(list, t, k) ==
  IF t.done = k - 1 /\ Runnable(list[k], t.bq)
  THEN {t, [done |-> k, bq |-> Execute(list[k], t.bq)]} ELSE {t}
TrailStep(list, b, n, f) ==
  f = [k \in 0 .. n |-> IF k = 0 THEN {[done |-> 0, bq |-> b]}
                        ELSE UNION {TrailAfter(list, t, k) : t \in f[k - 1]}]

LEMMA TrailIs ==
  ASSUME NEW list, NEW b
  PROVE  Trail(list, b) = (CHOOSE f : TrailStep(list, b, Len(list), f))[Len(list)]
BY DEF Trail, TrailStep, TrailAfter

LEMMA TrailExists ==
  ASSUME NEW list, NEW b
  PROVE  \A n \in Nat : \E f : TrailStep(list, b, n, f)
<1> DEFINE S == {n \in Nat : \E f : TrailStep(list, b, n, f)}
<1>1. 0 \in S
  <2> DEFINE f == [k \in 0 .. 0 |-> {[done |-> 0, bq |-> b]}]
  <2>1. \A k \in 0 .. 0 : k = 0
    OBVIOUS
  <2>2. f = [k \in 0 .. 0 |-> IF k = 0 THEN {[done |-> 0, bq |-> b]}
                              ELSE UNION {TrailAfter(list, t, k) : t \in f[k - 1]}]
    BY <2>1
  <2>3. TrailStep(list, b, 0, f)
    BY <2>2 DEF TrailStep
  <2> QED  BY <2>3
<1>2. ASSUME NEW n \in Nat, n \in S PROVE n + 1 \in S
  <2>1. PICK f : TrailStep(list, b, n, f)
    BY <1>2
  <2> DEFINE Next_(k, g) == UNION {TrailAfter(list, t, k) : t \in g[k - 1]}
             first == {[done |-> 0, bq |-> b]}
             g == [k \in 0 .. n + 1 |-> IF k = n + 1 THEN Next_(n + 1, f) ELSE f[k]]
  <2>2. f = [k \in 0 .. n |-> IF k = 0 THEN first ELSE Next_(k, f)]
    BY <2>1 DEF TrailStep
  <2>3. \A k \in 0 .. n : f[k] = IF k = 0 THEN first ELSE Next_(k, f)
    BY <2>2
  <2>4. \A k \in 0 .. n : g[k] = f[k]
    OBVIOUS
  <2>5. \A k \in 1 .. n + 1 : g[k - 1] = f[k - 1]
    <3> TAKE k \in 1 .. n + 1
    <3>1. k - 1 \in 0 .. n
      OBVIOUS
    <3> HIDE DEF g
    <3> QED  BY <2>4, <3>1
  <2>6. \A k \in 1 .. n + 1 : Next_(k, g) = Next_(k, f)
    <3> HIDE DEF g
    <3> QED  BY <2>5
  <2>7. \A k \in 0 .. n + 1 : g[k] = IF k = 0 THEN first ELSE Next_(k, g)
    <3> TAKE k \in 0 .. n + 1
    <3>1. CASE k = n + 1
      <4>1. g[k] = Next_(n + 1, f)
        BY <3>1
      <4> HIDE DEF g, Next_
      <4> QED  BY <2>6, <3>1, <4>1
    <3>2. CASE k # n + 1
      <4>1. k \in 0 .. n /\ (k # 0 => k \in 1 .. n + 1)
        BY <3>2
      <4> HIDE DEF g, Next_, first
      <4> QED  BY <2>3, <2>4, <2>6, <4>1
    <3> QED  BY <3>1, <3>2
  <2>8. DOMAIN g = 0 .. n + 1 /\ g = [k \in DOMAIN g |-> g[k]]
    OBVIOUS
  <2>9. g = [k \in 0 .. n + 1 |-> IF k = 0 THEN first ELSE Next_(k, g)]
    <3> HIDE DEF g, Next_, first
    <3> QED  BY <2>7, <2>8
  <2>10. TrailStep(list, b, n + 1, g)
    <3> HIDE DEF g
    <3> QED  BY <2>9 DEF TrailStep
  <2> QED  BY <2>10
<1> HIDE DEF S
<1>3. \A n \in Nat : n \in S
  BY <1>1, <1>2, Induction
<1> QED
  BY <1>3 DEF S

Reading == {"anchored", "live", "read"}

\* After k statements at most: sound tables, and cells of the pairs whose cells were made or read.
TrailOK(list, k, t) ==
  /\ t.done \in 0 .. k /\ Sound(world, t.bq)
  /\ \A i \in 1 .. t.done : list[i].do \in Reading => Exists(t.bq.cells[list[i].pair])

LEMMA TrailSound ==
  ASSUME world \in DOMAIN Ticks, NEW list, Len(list) \in Nat, \A i \in 1 .. Len(list) : StatementOK(list[i]),
         NEW b, Sound(world, b)
  PROVE  \A t \in Trail(list, b) : TrailOK(list, Len(list), t)
<1> DEFINE len == Len(list)
           f == CHOOSE g : TrailStep(list, b, len, g)
<1>1. TrailStep(list, b, len, f)
  BY TrailExists
<1>2. Trail(list, b) = f[len]
  BY TrailIs
<1> HIDE DEF f
<1>3. f[0] = {[done |-> 0, bq |-> b]} /\ \A k \in 1 .. len : f[k] = UNION {TrailAfter(list, t, k) : t \in f[k - 1]}
  <2> DEFINE after(k) == UNION {TrailAfter(list, t, k) : t \in f[k - 1]}
             first == {[done |-> 0, bq |-> b]}
  <2>1. f = [k \in 0 .. len |-> IF k = 0 THEN first ELSE after(k)]
    BY <1>1 DEF TrailStep
  <2>2. len \in Nat
    OBVIOUS
  <2> HIDE DEF after, first, len
  <2>3. \A k \in 0 .. len : f[k] = IF k = 0 THEN first ELSE after(k)
    BY <2>1
  <2>4. f[0] = first /\ \A k \in 1 .. len : f[k] = after(k)
    BY <2>2, <2>3
  <2> QED  BY <2>4 DEF after, first
<1> DEFINE S == {k \in Nat : k <= len => \A t \in f[k] : TrailOK(list, k, t)}
<1>4. 0 \in S
  BY <1>3 DEF TrailOK
<1>5. ASSUME NEW n \in Nat, n \in S PROVE n + 1 \in S
  <2> SUFFICES ASSUME n + 1 <= len, NEW u \in f[n + 1] PROVE TrailOK(list, n + 1, u)
    OBVIOUS
  <2>1. n + 1 \in 1 .. len /\ n <= len /\ (n + 1) - 1 = n
    OBVIOUS
  <2>2. PICK t \in f[n] : u \in TrailAfter(list, t, n + 1)
    BY <1>3, <2>1
  <2>3. TrailOK(list, n, t)
    BY <1>5, <2>1
  <2>4. CASE u = t
    BY <2>3, <2>4 DEF TrailOK
  <2>5. CASE u # t
    <3> DEFINE s == list[n + 1]
    <3>1. t.done = n /\ Runnable(s, t.bq) /\ u = [done |-> n + 1, bq |-> Execute(s, t.bq)]
      BY <2>1, <2>2, <2>5 DEF TrailAfter
    <3>2. StatementOK(s)
      BY <2>1
    <3>3. Sound(world, t.bq)
      BY <2>3 DEF TrailOK
    <3>4. Sound(world, Execute(s, t.bq)) /\ CellsKept(t.bq, Execute(s, t.bq), s)
      BY <3>1, <3>2, <3>3, ExecuteSound
    <3>5. u.done = n + 1 /\ u.bq = Execute(s, t.bq)
      BY <3>1
    <3>6. ASSUME NEW i \in 1 .. n + 1, list[i].do \in Reading PROVE Exists(u.bq.cells[list[i].pair])
      <4>1. CASE i = n + 1
        BY <3>4, <3>5, <3>6, <4>1 DEF CellsKept, Reading
      <4>2. CASE i # n + 1
        <5>1. i \in 1 .. n /\ i \in 1 .. len
          BY <2>1, <4>2
        <5>2. Exists(t.bq.cells[list[i].pair]) /\ list[i].pair \in Pairs
          BY <2>3, <3>1, <3>6, <5>1 DEF TrailOK, StatementOK
        <5> QED  BY <3>4, <3>5, <5>2 DEF CellsKept
      <4> QED  BY <4>1, <4>2
    <3> HIDE DEF s
    <3> QED  BY <3>4, <3>5, <3>6 DEF TrailOK
  <2> QED  BY <2>4, <2>5
<1> HIDE DEF S
<1>6. \A k \in Nat : k \in S
  BY <1>4, <1>5, Induction
<1> QED
  BY <1>2, <1>6 DEF S

(***************************************************************************)
(* The lists that commands run                                             *)
(***************************************************************************)
FlattenStep(seqs, n, f) == f = [i \in 1 .. n |-> IF i = 1 THEN seqs[i] ELSE f[i - 1] \o seqs[i]]

LEMMA FlattenExists ==
  ASSUME NEW seqs
  PROVE  \A n \in Nat : \E f : FlattenStep(seqs, n, f)
<1> DEFINE S == {n \in Nat : \E f : FlattenStep(seqs, n, f)}
<1>1. 0 \in S
  <2> DEFINE f == [i \in 1 .. 0 |-> seqs[i]]
  <2>1. \A i : i \notin 1 .. 0
    OBVIOUS
  <2>2. f = [i \in 1 .. 0 |-> IF i = 1 THEN seqs[i] ELSE f[i - 1] \o seqs[i]]
    BY <2>1
  <2>3. FlattenStep(seqs, 0, f)
    BY <2>2 DEF FlattenStep
  <2> QED  BY <2>3
<1>2. ASSUME NEW n \in Nat, n \in S PROVE n + 1 \in S
  <2>1. PICK f : FlattenStep(seqs, n, f)
    BY <1>2
  <2> DEFINE Add(i, g) == IF i = 1 THEN seqs[i] ELSE g[i - 1] \o seqs[i]
             g == [i \in 1 .. n + 1 |-> IF i = n + 1 THEN Add(n + 1, f) ELSE f[i]]
  <2>2. f = [i \in 1 .. n |-> Add(i, f)]
    BY <2>1 DEF FlattenStep
  <2>3. \A i \in 1 .. n : f[i] = Add(i, f)
    <3> HIDE DEF Add
    <3> QED  BY <2>2
  <2>4. \A i \in 1 .. n : g[i] = f[i]
    OBVIOUS
  <2>5. \A i \in 1 .. n + 1 : Add(i, g) = Add(i, f)
    <3> TAKE i \in 1 .. n + 1
    <3>1. i # 1 => i - 1 \in 1 .. n
      OBVIOUS
    <3> HIDE DEF g
    <3> QED  BY <2>4, <3>1
  <2>6. g[n + 1] = Add(n + 1, f)
    OBVIOUS
  <2>7. \A i \in 1 .. n + 1 : g[i] = Add(i, g)
    <3> TAKE i \in 1 .. n + 1
    <3>1. i = n + 1 \/ i \in 1 .. n
      OBVIOUS
    <3> HIDE DEF g, Add
    <3> QED  BY <2>3, <2>4, <2>5, <2>6, <3>1
  <2>8. DOMAIN g = 1 .. n + 1 /\ g = [i \in DOMAIN g |-> g[i]]
    OBVIOUS
  <2>9. g = [i \in 1 .. n + 1 |-> Add(i, g)]
    <3> HIDE DEF g, Add
    <3> QED  BY <2>7, <2>8
  <2>10. FlattenStep(seqs, n + 1, g)
    <3> HIDE DEF g
    <3> QED  BY <2>9 DEF FlattenStep
  <2> QED  BY <2>10
<1> HIDE DEF S
<1>3. \A n \in Nat : n \in S
  BY <1>1, <1>2, Induction
<1> QED
  BY <1>3 DEF S

\* One after the other: sequences of S make a sequence of S that has all their elements.
LEMMA Flattened ==
  ASSUME NEW S, NEW seqs \in Seq(Seq(S))
  PROVE  /\ FlattenSeq(seqs) \in Seq(S)
         /\ \A j \in 1 .. Len(seqs) : \A k \in 1 .. Len(seqs[j]) :
              \E i \in 1 .. Len(FlattenSeq(seqs)) : FlattenSeq(seqs)[i] = seqs[j][k]
<1> DEFINE n == Len(seqs)
           f == CHOOSE g : FlattenStep(seqs, n, g)
           Holds(i) == /\ f[i] \in Seq(S)
                       /\ \A j \in 1 .. i : \A k \in 1 .. Len(seqs[j]) :
                            \E x \in 1 .. Len(f[i]) : f[i][x] = seqs[j][k]
<1>1. n \in Nat /\ FlattenStep(seqs, n, f) /\ \A j \in 1 .. n : seqs[j] \in Seq(S)
  <2>1. n \in Nat /\ \A j \in 1 .. n : seqs[j] \in Seq(S)
    OBVIOUS
  <2> HIDE DEF n
  <2>2. \E g : FlattenStep(seqs, n, g)
    BY <2>1, FlattenExists
  <2>3. FlattenStep(seqs, n, f)
    BY <2>2
  <2> QED  BY <2>1, <2>3
<1>2. n # 0 => FlattenSeq(seqs) = f[n]
  BY DEF FlattenSeq, FlattenStep
<1>3. n = 0 => FlattenSeq(seqs) = << >>
  BY DEF FlattenSeq
<1> HIDE DEF f
<1>4. \A i \in 1 .. n : f[i] = IF i = 1 THEN seqs[i] ELSE f[i - 1] \o seqs[i]
  BY <1>1 DEF FlattenStep
<1> DEFINE A == {i \in Nat : i \in 1 .. n => Holds(i)}
<1>5. 0 \in A
  BY <1>1
<1>6. ASSUME NEW i \in Nat, i \in A PROVE i + 1 \in A
  <2> SUFFICES ASSUME i + 1 \in 1 .. n PROVE Holds(i + 1)
    OBVIOUS
  <2>1. seqs[i + 1] \in Seq(S)
    BY <1>1
  <2>2. CASE i = 0
    <3>1. f[1] = seqs[1] /\ seqs[1] \in Seq(S)
      BY <1>4, <2>1, <2>2
    <3>2. \A j \in 1 .. 1 : j = 1
      OBVIOUS
    <3>3. Holds(1)
      BY <3>1, <3>2
    <3> QED  BY <2>2, <3>3
  <2>3. CASE i # 0
    <3>1. i \in 1 .. n /\ (i + 1) - 1 = i /\ i + 1 # 1
      BY <1>1, <2>3
    <3>2. f[i + 1] = f[i] \o seqs[i + 1] /\ Holds(i)
      <4>1. f[i + 1] = f[i] \o seqs[i + 1]
        BY <1>4, <3>1
      <4> QED  BY <1>6, <3>1, <4>1
    <3> DEFINE s == f[i]
               t == seqs[i + 1]
               st == f[i + 1]
    <3>3. s \in Seq(S) /\ t \in Seq(S) /\ st = s \o t
      BY <2>1, <3>2
    <3> HIDE DEF s, t, st
    <3>4. /\ st \in Seq(S) /\ Len(st) = Len(s) + Len(t) /\ Len(s) \in Nat /\ Len(t) \in Nat
          /\ \A x \in 1 .. Len(s) : st[x] = s[x]
          /\ \A k \in 1 .. Len(t) : st[Len(s) + k] = t[k]
      BY <3>3
    <3>5. ASSUME NEW j \in 1 .. i + 1, NEW k \in 1 .. Len(seqs[j])
          PROVE  \E x \in 1 .. Len(st) : st[x] = seqs[j][k]
      <4>1. CASE j = i + 1
        <5>1. k \in 1 .. Len(t)
          BY <4>1 DEF t
        <5>2. Len(s) + k \in 1 .. Len(st) /\ st[Len(s) + k] = t[k]
          BY <3>4, <5>1
        <5> QED  BY <4>1, <5>2 DEF t
      <4>2. CASE j # i + 1
        <5>1. j \in 1 .. i
          BY <4>2
        <5>2. PICK x \in 1 .. Len(s) : s[x] = seqs[j][k]
          BY <3>2, <5>1 DEF s
        <5>3. x \in 1 .. Len(st)
          BY <3>4
        <5> QED  BY <3>4, <5>2, <5>3
      <4> QED  BY <4>1, <4>2
    <3> QED  BY <3>4, <3>5 DEF st
  <2> QED  BY <2>2, <2>3
<1> HIDE DEF A
<1>7. \A i \in Nat : i \in A
  BY <1>5, <1>6, Induction
<1>8. n # 0 => Holds(n)
  <2>1. n # 0 => n \in 1 .. n
    BY <1>1
  <2> QED  BY <1>1, <1>7, <2>1 DEF A
<1>9. CASE n = 0
  BY <1>3, <1>9
<1>10. CASE n # 0
  <2>1. FlattenSeq(seqs) = f[n]
    BY <1>2, <1>10
  <2>2. Holds(n)
    BY <1>8, <1>10
  <2> QED  BY <2>1, <2>2
<1> QED
  BY <1>9, <1>10

Dos == {"features", "anchor", "stage", "grid", "range", "shard", "union", "anchored", "live",
        "backfill", "validate", "read"}
Statements == {s \in [do : Dos, pair : Pairs, month : 0 .. IsMonths, flipped : BOOLEAN] :
                 s.do = "shard" => s.month \in Months}

LEMMA StatementsOK == \A s \in Statements : StatementOK(s)
BY DEF Statements, StatementOK, Dos

LEMMA ForPairsAre ==
  ASSUME NEW do \in Dos \ {"shard"}, NEW list \in Seq(Pairs), NEW flipped \in BOOLEAN
  PROVE  /\ ForPairs(do, list, flipped) \in Seq(Statements)
         /\ Len(ForPairs(do, list, flipped)) = Len(list)
         /\ \A i \in 1 .. Len(list) : ForPairs(do, list, flipped)[i].do = do
                                      /\ ForPairs(do, list, flipped)[i].pair = list[i]
<1>1. \A i \in 1 .. Len(list) : list[i] \in Pairs
  OBVIOUS
<1>2. 0 \in 0 .. IsMonths
  BY MonthsAre
<1>3. \A p \in Pairs : /\ Statement(do, p, 0, flipped) \in Statements
                       /\ Statement(do, p, 0, flipped).do = do /\ Statement(do, p, 0, flipped).pair = p
  BY <1>2 DEF Statement, Statements
<1> DEFINE f == ForPairs(do, list, flipped)
<1>4. f = [i \in 1 .. Len(list) |-> Statement(do, list[i], 0, flipped)] /\ Len(list) \in Nat
  BY DEF ForPairs
<1> HIDE DEF f
<1>5. \A i \in 1 .. Len(list) : f[i] = Statement(do, list[i], 0, flipped)
  BY <1>4
<1>6. f \in [1 .. Len(list) -> Statements]
  BY <1>1, <1>3, <1>4
<1>7. f \in Seq(Statements) /\ Len(f) = Len(list)
  BY <1>4, <1>6
<1> QED
  BY <1>1, <1>3, <1>5, <1>7 DEF f

LEMMA ShardListIs ==
  ASSUME NEW list \in Seq(Pairs)
  PROVE  ShardList(list) \in Seq(Statements)
<1>1. IsMonths \in Nat /\ Months = 1 .. IsMonths
  BY MonthsAre DEF Months
<1>2. \A p \in Pairs : \A m \in Months : Statement("shard", p, m, FALSE) \in Statements
  BY <1>1 DEF Statement, Statements, Dos
<1> DEFINE Of(p) == [m \in Months |-> Statement("shard", p, m, FALSE)]
           f == [i \in DOMAIN list |-> Of(list[i])]
<1>3. \A p \in Pairs : Of(p) \in [1 .. IsMonths -> Statements]
  BY <1>1, <1>2
<1> HIDE DEF Of
<1>4. \A p \in Pairs : Of(p) \in Seq(Statements)
  BY <1>1, <1>3
<1>5. \A i \in 1 .. Len(list) : list[i] \in Pairs
  OBVIOUS
<1>6. f \in [1 .. Len(list) -> Seq(Statements)] /\ Len(list) \in Nat
  BY <1>4, <1>5
<1>7. f \in Seq(Seq(Statements))
  BY <1>6
<1> HIDE DEF f
<1>8. FlattenSeq(f) \in Seq(Statements)
  BY <1>7, Flattened
<1> QED
  BY <1>8 DEF ShardList, f, Of

\* The grid's chain reads the cells of every pair it is for, behind an open sidecar.
LEMMA GridChainIs ==
  ASSUME NEW list \in Seq(Pairs)
  PROVE  /\ GridChain(list) \in Seq(Statements)
         /\ sidecar = "open" => \A p \in ToSet(list) :
              \E i \in 1 .. Len(GridChain(list)) : GridChain(list)[i].do = "read" /\ GridChain(list)[i].pair = p
<1> DEFINE open == IF sidecar = "open" THEN list ELSE << >>
           S == Statements
           a == ForPairs("anchor", open, FALSE)
           v == ForPairs("validate", list, FALSE)
           s == ForPairs("stage", list, FALSE)
           g == ForPairs("grid", list, FALSE)
           c == ForPairs("anchored", open, FALSE)
           r == ForPairs("read", open, FALSE)
           most == a \o v \o s \o g \o c
<1>1. open \in Seq(Pairs)
  OBVIOUS
<1> HIDE DEF open
<1>2. {"anchor", "validate", "stage", "grid", "anchored", "read"} \subseteq Dos \ {"shard"} /\ FALSE \in BOOLEAN
  BY DEF Dos
<1>3. a \in Seq(S) /\ v \in Seq(S) /\ s \in Seq(S) /\ g \in Seq(S) /\ c \in Seq(S) /\ r \in Seq(S)
  BY <1>1, <1>2, ForPairsAre
<1>4. Len(r) = Len(open) /\ \A i \in 1 .. Len(open) : r[i].do = "read" /\ r[i].pair = open[i]
  <2>1. "read" \in Dos \ {"shard"} /\ FALSE \in BOOLEAN
    BY <1>2
  <2>2. /\ Len(ForPairs("read", open, FALSE)) = Len(open)
        /\ \A i \in 1 .. Len(open) : ForPairs("read", open, FALSE)[i].do = "read"
                                     /\ ForPairs("read", open, FALSE)[i].pair = open[i]
    BY <1>1, <2>1, ForPairsAre
  <2> QED  BY <2>2
<1>5. GridChain(list) = most \o r
  BY DEF GridChain, open
<1> HIDE DEF a, v, s, g, c, r, S
<1>6. a \o v \in Seq(S)
  BY <1>3
<1>7. a \o v \o s \in Seq(S)
  BY <1>3, <1>6
<1>8. a \o v \o s \o g \in Seq(S)
  BY <1>3, <1>7
<1>9. most \in Seq(S)
  BY <1>3, <1>8
<1> HIDE DEF most
<1>10. most \o r \in Seq(S)
  BY <1>3, <1>9
<1>11. ASSUME sidecar = "open", NEW p \in ToSet(list)
       PROVE  \E i \in 1 .. Len(most \o r) : (most \o r)[i].do = "read" /\ (most \o r)[i].pair = p
  <2>1. open = list
    BY <1>11 DEF open
  <2>2. PICK i \in 1 .. Len(list) : list[i] = p
    BY DEF ToSet
  <2>3. i \in 1 .. Len(r) /\ r[i] \in S /\ r[i].do = "read" /\ r[i].pair = p
    BY <1>3, <1>4, <2>1, <2>2
  <2>4. \E x \in 1 .. Len(most \o r) : (most \o r)[x] = r[i]
    <3>1. Len(most \o r) = Len(most) + Len(r) /\ Len(most) \in Nat /\ Len(r) \in Nat
      BY <1>3, <1>9
    <3>2. Len(most) + i \in 1 .. Len(most \o r) /\ (most \o r)[Len(most) + i] = r[i]
      BY <1>3, <1>9, <2>3, <3>1
    <3> QED  BY <3>2
  <2> QED  BY <2>3, <2>4
<1> QED
  BY <1>5, <1>10, <1>11 DEF S

LEMMA RunSound ==
  ASSUME world \in DOMAIN Ticks, NEW list \in Seq(Statements), NEW b, Sound(world, b)
  PROVE  /\ \A t \in Trail(list, b) : Sound(world, t.bq)
         /\ \A done \in Completed(list, b) :
              /\ Sound(world, done)
              /\ \A i \in 1 .. Len(list) : list[i].do \in Reading => Exists(done.cells[list[i].pair])
<1>1. Len(list) \in Nat /\ \A i \in 1 .. Len(list) : list[i] \in Statements
  OBVIOUS
<1>2. \A i \in 1 .. Len(list) : StatementOK(list[i])
  BY <1>1, StatementsOK
<1>3. \A t \in Trail(list, b) : TrailOK(list, Len(list), t)
  BY <1>1, <1>2, TrailSound
<1>4. \A done \in Completed(list, b) : \E t \in Trail(list, b) : t.done = Len(list) /\ done = t.bq
  BY DEF Completed
<1> QED
  BY <1>3, <1>4 DEF TrailOK

LEMMA EmptySound ==
  ASSUME NEW w
  PROVE  Sound(w, Empty)
<1>1. NoTable.of = {} /\ NoTable.rows = {} /\ ~Exists(NoTable)
  BY DEF NoTable, Table, Exists
<1>2. CellTable({})
  <2>1. Grouped({}) = {}
    BY DEF Grouped
  <2>2. Earned({})
    BY FS_EmptySet DEF Earned
  <2> QED  BY <2>1, <2>2 DEF CellTable
<1>3. /\ \A p : AnchorSound(w, p, NoTable) /\ StageSound(w, p, NoTable) /\ QuotesSound(w, p, NoTable)
      /\ \A p, m : ShardSound(w, p, m, NoTable)
      /\ \A p : CellsSound(w, p, NoTable)
  BY <1>1, <1>2 DEF AnchorSound, StageSound, ShardSound, QuotesSound, CellsSound, QuotedRows
<1>4. Shaped(Empty)
  BY DEF Shaped, Empty
<1>5. \A p \in Pairs : PairSound(w, Empty, p)
  BY <1>3 DEF PairSound, Empty
<1> QED
  BY <1>4, <1>5 DEF Sound

LEMMA MadeSound ==
  ASSUME world \in DOMAIN Ticks, NEW steps \in Seq(Dos), NEW done \in Made(steps)
  PROVE  /\ Sound(world, done)
         /\ (\E j \in 1 .. Len(steps) : steps[j] = "anchored") => \A p \in Pairs : Exists(done.cells[p])
<1> DEFINE Of(do) == IF do = "shard" THEN ShardList(Order) ELSE ForPairs(do, Order, FALSE)
           seqs == [i \in DOMAIN steps |-> Of(steps[i])]
           list == FlattenSeq(seqs)
<1>1. Order \in Seq(Pairs) /\ ToSet(Order) = Pairs
  BY PipelineAssumption
<1>2. \A do \in Dos : Of(do) \in Seq(Statements)
  BY <1>1, ForPairsAre, ShardListIs
<1>3. Len(steps) \in Nat /\ DOMAIN steps = 1 .. Len(steps) /\ \A i \in 1 .. Len(steps) : steps[i] \in Dos
  OBVIOUS
<1>4. Made(steps) = Completed(list, Empty)
  BY DEF Made
<1> HIDE DEF Of
<1>5. seqs \in [1 .. Len(steps) -> Seq(Statements)]
  BY <1>2, <1>3
<1>6. seqs \in Seq(Seq(Statements)) /\ Len(seqs) = Len(steps) /\ \A j \in 1 .. Len(steps) : seqs[j] = Of(steps[j])
  BY <1>3, <1>5
<1> HIDE DEF seqs
<1>7. /\ list \in Seq(Statements)
      /\ \A j \in 1 .. Len(seqs) : \A k \in 1 .. Len(seqs[j]) : \E i \in 1 .. Len(list) : list[i] = seqs[j][k]
  BY <1>6, Flattened
<1> HIDE DEF list
<1>8. /\ Sound(world, done)
      /\ \A i \in 1 .. Len(list) : list[i].do \in Reading => Exists(done.cells[list[i].pair])
  BY <1>4, <1>7, EmptySound, RunSound
<1>9. ASSUME NEW j \in 1 .. Len(steps), steps[j] = "anchored", NEW p \in Pairs
      PROVE  Exists(done.cells[p])
  <2> DEFINE f == ForPairs("anchored", Order, FALSE)
  <2>1. "anchored" \in Dos \ {"shard"} /\ FALSE \in BOOLEAN
    BY DEF Dos
  <2>2. Len(f) = Len(Order) /\ \A i \in 1 .. Len(Order) : f[i].do = "anchored" /\ f[i].pair = Order[i]
    BY <1>1, <2>1, ForPairsAre
  <2>3. seqs[j] = f
    BY <1>6, <1>9 DEF Of
  <2>4. PICK k \in 1 .. Len(Order) : Order[k] = p
    BY <1>1 DEF ToSet
  <2> HIDE DEF f
  <2>5. PICK i \in 1 .. Len(list) : list[i] = f[k]
    BY <1>6, <1>7, <2>2, <2>3
  <2>6. list[i].do \in Reading /\ list[i].pair = p
    BY <2>2, <2>4, <2>5 DEF Reading
  <2> QED  BY <1>8, <2>6
<1> QED
  BY <1>8, <1>9

(***************************************************************************)
(* The summary: the rows of its pairs, each with its numbers               *)
(***************************************************************************)
RowFields == {"cell", "trades", "missing", "profit", "loss", "p"}
RowOK(r) == DOMAIN r = RowFields /\ r.cell \in Cells /\ r.p \in Nat
Paired(p, r) == With(r, "pair", p)
Marked(e, x) == With(x, "eligible", e)
RowsOf(tables, pairs) == UNION {{Paired(p, r) : r \in CollectPair(tables[p].rows)} : p \in pairs}
IsEligible(rows, r) ==
  (PAdjHolm(rows, r, FwerDenominator) < Alpha /\ ~Sparse(r)) /\ PassNetPf(r)

LEMMA BuildIs ==
  ASSUME NEW tables, NEW list
  PROVE  BuildSummary(tables, list) =
           LET rows == RowsOf(tables, ToSet(list))
           IN Summary("open", ToSet(list), {Marked(IsEligible(rows, r), r) : r \in rows},
                      [p \in ToSet(list) |-> tables[p].of])
BY DEF BuildSummary, RowsOf, Paired, Marked, IsEligible

LEMMA PairedIs ==
  ASSUME NEW p, NEW r, RowOK(r)
  PROVE  /\ DOMAIN Paired(p, r) = {"pair"} \cup RowFields
         /\ Paired(p, r).pair = p /\ Paired(p, r).cell = r.cell /\ Paired(p, r).trades = r.trades
         /\ Paired(p, r).missing = r.missing /\ Paired(p, r).profit = r.profit
         /\ Paired(p, r).loss = r.loss /\ Paired(p, r).p = r.p
BY DEF Paired, RowOK, RowFields, With

LEMMA MarkedIs ==
  ASSUME NEW e, NEW x, DOMAIN x = {"pair"} \cup RowFields
  PROVE  /\ Marked(e, x).eligible = e /\ Marked(e, x).pair = x.pair
         /\ Marked(e, x).cell = x.cell /\ Marked(e, x).trades = x.trades
         /\ Marked(e, x).missing = x.missing /\ Marked(e, x).profit = x.profit
         /\ Marked(e, x).loss = x.loss /\ Marked(e, x).p = x.p
BY DEF Marked, RowFields, With

\* Every cell of the pair has one row.
LEMMA CollectedIs ==
  ASSUME NEW rows, CellTable(rows)
  PROVE  /\ \A r \in CollectPair(rows) : RowOK(r)
         /\ \A c \in Cells : \E r \in CollectPair(rows) : r.cell = c
         /\ \A r, s \in CollectPair(rows) : r.cell = s.cell => r = s
<1> PICK R : rows = Grouped(R) /\ Earned(R)
  BY DEF CellTable
<1>0. \A r \in R : r.event.cell \in Cells
  BY DEF Earned
<1> DEFINE C == {r.event.cell : r \in R}
           Row(c) == IF c \in C THEN Tested(CellRow(c, OfCell(R, c))) ELSE Tested(EmptyRow(c))
<1>1. C \subseteq Cells
  BY <1>0
<1>2. \A c : /\ CellRow(c, OfCell(R, c)).cell = c /\ DOMAIN CellRow(c, OfCell(R, c)) = RowFields
             /\ EmptyRow(c).cell = c /\ DOMAIN EmptyRow(c) = RowFields
  BY DEF CellRow, EmptyRow, RowFields
<1>3. \A r : DOMAIN r = RowFields => Tested(r).cell = r.cell /\ DOMAIN Tested(r) = RowFields
  BY DEF Tested, RowFields
<1>4. \A c : Row(c).cell = c /\ DOMAIN Row(c) = RowFields
  BY <1>2, <1>3
<1>6. \A c : Row(c).p \in Nat
  <2>1. \A r : DOMAIN r = RowFields /\ r.p \in Nat => Tested(r).p \in Nat
    BY DEF Tested, RowFields
  <2>2. \A c : EmptyRow(c).p \in Nat
    BY DEF EmptyRow
  <2>3. \A c : Earned(OfCell(R, c))
    BY EarnedParts DEF OfCell
  <2>4. \A c : CellRow(c, OfCell(R, c)).p \in Nat
    BY <2>3, CellRowType
  <2> QED  BY <1>2, <2>1, <2>2, <2>4
<1>5. CollectPair(rows) = {Row(c) : c \in Cells}
  <2> DEFINE G == {CellRow(c, OfCell(R, c)) : c \in C}
             all == G \cup {EmptyRow(c) : c \in Cells \ C}
  <2>1. rows = G
    BY DEF Grouped, OfCell
  <2>2. {r.cell : r \in G} = C
    <3> HIDE DEF C
    <3> QED  BY <1>2
  <2>3. CollectPair(G) = {Tested(r) : r \in all}
    <3> HIDE DEF G, C
    <3> QED  BY <2>2 DEF CollectPair, Tested
  <2> HIDE DEF C
  <2>4. {Tested(r) : r \in all} = {Row(c) : c \in Cells}
    BY <1>1
  <2> QED  BY <2>1, <2>3, <2>4
<1> HIDE DEF Row, C
<1> QED
  BY <1>4, <1>5, <1>6 DEF RowOK

LEMMA RowsAre ==
  ASSUME NEW tables, NEW pairs, \A p \in pairs : CellTable(tables[p].rows)
  PROVE  /\ \A x \in RowsOf(tables, pairs) :
              /\ DOMAIN x = {"pair"} \cup RowFields /\ x.pair \in pairs
              /\ \E r \in CollectPair(tables[x.pair].rows) : RowOK(r) /\ x = Paired(x.pair, r)
         /\ \A p \in pairs : \A r \in CollectPair(tables[p].rows) : Paired(p, r) \in RowsOf(tables, pairs)
         /\ \A x, y \in RowsOf(tables, pairs) : x.pair = y.pair /\ x.cell = y.cell => x = y
<1> DEFINE rows == RowsOf(tables, pairs)
<1>1. \A x \in rows : \E p \in pairs : \E r \in CollectPair(tables[p].rows) : RowOK(r) /\ x = Paired(p, r)
  BY CollectedIs DEF RowsOf
<1>2. \A x \in rows : /\ DOMAIN x = {"pair"} \cup RowFields /\ x.pair \in pairs
                      /\ \E r \in CollectPair(tables[x.pair].rows) : RowOK(r) /\ x = Paired(x.pair, r)
  BY <1>1, PairedIs
<1>3. \A p \in pairs : \A r \in CollectPair(tables[p].rows) : Paired(p, r) \in rows
  BY DEF RowsOf
<1> HIDE DEF rows
<1>4. ASSUME NEW x \in rows, NEW y \in rows, x.pair = y.pair, x.cell = y.cell PROVE x = y
  <2> PICK r \in CollectPair(tables[x.pair].rows) : RowOK(r) /\ x = Paired(x.pair, r)
    BY <1>2
  <2> PICK t \in CollectPair(tables[x.pair].rows) : RowOK(t) /\ y = Paired(x.pair, t)
    BY <1>2, <1>4
  <2>1. x.cell = r.cell /\ y.cell = t.cell
    BY PairedIs
  <2>2. CellTable(tables[x.pair].rows)
    BY <1>2
  <2>3. r = t
    BY <1>4, <2>1, <2>2, CollectedIs
  <2> QED  BY <2>3
<1> QED
  BY <1>2, <1>3, <1>4 DEF rows

LEMMA BuiltNumbers ==
  ASSUME NEW tables, NEW list, \A q \in ToSet(list) : CellTable(tables[q].rows), NEW p \in ToSet(list)
  PROVE  {Numbers(r) : r \in {x \in BuildSummary(tables, list).rows : x.pair = p}} = PairNumbers(tables[p].rows)
<1> DEFINE pairs == ToSet(list)
           rows == RowsOf(tables, pairs)
           M == {Marked(IsEligible(rows, r), r) : r \in rows}
           T == CollectPair(tables[p].rows)
<1>1. BuildSummary(tables, list).rows = M
  BY BuildIs DEF Summary
<1>2. /\ \A x \in rows : DOMAIN x = {"pair"} \cup RowFields
      /\ \A x \in rows : x.pair \in pairs
      /\ \A x \in rows : \E r \in CollectPair(tables[x.pair].rows) : RowOK(r) /\ x = Paired(x.pair, r)
  BY RowsAre
<1>3. \A r \in T : Paired(p, r) \in rows /\ RowOK(r)
  BY RowsAre, CollectedIs
<1> HIDE DEF rows
<1>4. \A x \in rows : /\ Marked(IsEligible(rows, x), x).pair = x.pair
                      /\ Numbers(Marked(IsEligible(rows, x), x)) = Numbers(x)
  <2> TAKE x \in rows
  <2>1. DOMAIN x = {"pair"} \cup RowFields
    BY <1>2
  <2> HIDE DEF pairs
  <2> QED  BY <2>1, MarkedIs DEF Numbers
<1>5. \A q, r : RowOK(r) => Numbers(Paired(q, r)) = Numbers(r) /\ Paired(q, r).pair = q
  BY PairedIs DEF Numbers
<1>6. ASSUME NEW r \in T PROVE \E y \in M : y.pair = p /\ Numbers(y) = Numbers(r)
  <2> DEFINE x == Paired(p, r)
  <2>1. x \in rows /\ x.pair = p /\ Numbers(x) = Numbers(r)
    BY <1>3, <1>5
  <2> HIDE DEF x
  <2>2. Marked(IsEligible(rows, x), x) \in M
    BY <2>1
  <2> QED  BY <1>4, <2>1, <2>2
<1>7. ASSUME NEW y \in M, y.pair = p PROVE \E r \in T : Numbers(y) = Numbers(r)
  <2>1. PICK x \in rows : y = Marked(IsEligible(rows, x), x)
    OBVIOUS
  <2>2. x.pair = p /\ Numbers(y) = Numbers(x)
    BY <1>4, <1>7, <2>1
  <2>3. PICK r \in T : RowOK(r) /\ x = Paired(p, r)
    BY <1>2, <2>2
  <2> QED  BY <1>5, <2>2, <2>3
<1> HIDE DEF M, T
<1>8. {Numbers(r) : r \in {x \in M : x.pair = p}} = {Numbers(r) : r \in T}
  BY <1>6, <1>7
<1> QED
  BY <1>1, <1>8 DEF PairNumbers, T

(***************************************************************************)
(* The invariant: tables, and the reports made of them, are sound          *)
(***************************************************************************)
Built(w, s) ==
  \E tables : \E list \in Seq(Pairs) :
    /\ \A p \in ToSet(list) : Exists(tables[p]) /\ CellsSound(w, p, tables[p])
    /\ s = BuildSummary(tables, list)
SummarySound(w, s) == s.is = "open" => Built(w, s)
VerdictSound(w, v) ==
  v.is = "null_ship" =>
    /\ Loads(v.read) /\ Eligible(v.read) = {} /\ SummarySound(w, v.read)
    /\ v.reason = "empty_phase116_candidate_set" => v.read.is = "open"
AuditSound(w, a) == a.pass => KillPreserved(a.read) /\ VerdictSound(w, a.read)

StudyInv ==
  /\ world \in DOMAIN Ticks /\ Sound(world, bq)
  /\ SummarySound(world, summary) /\ VerdictSound(world, verdict) /\ AuditSound(world, audit)

LEMMA ClosedSummaries ==
  /\ NoSummary.is = "none" /\ TornSummary.is = "torn" /\ Blocked.is = "blocked" /\ BlockedPairs.is = "blocked"
  /\ \A w : /\ SummarySound(w, NoSummary) /\ SummarySound(w, TornSummary)
            /\ SummarySound(w, Blocked) /\ SummarySound(w, BlockedPairs)
<1>1. NoSummary.is = "none" /\ TornSummary.is = "torn" /\ Blocked.is = "blocked" /\ BlockedPairs.is = "blocked"
  BY DEF NoSummary, TornSummary, Blocked, BlockedPairs, Summary
<1> QED
  BY <1>1 DEF SummarySound

LEMMA BuildSound ==
  ASSUME NEW w, NEW b, Sound(w, b), NEW list \in Seq(Pairs), \A p \in ToSet(list) : Exists(b.cells[p])
  PROVE  SummarySound(w, BuildSummary(b.cells, list)) /\ BuildSummary(b.cells, list).is = "open"
<1>1. ToSet(list) \subseteq Pairs
  BY DEF ToSet
<1>2. \A p \in ToSet(list) : CellsSound(w, p, b.cells[p])
  BY <1>1 DEF Sound, PairSound
<1>3. BuildSummary(b.cells, list).is = "open"
  BY BuildIs DEF Summary
<1> QED
  BY <1>2, <1>3 DEF SummarySound, Built

LEMMA InitSound == Init => StudyInv
<1> SUFFICES ASSUME Init PROVE StudyInv
  OBVIOUS
<1>1. world \in DOMAIN Ticks /\ AuditSound(world, audit)
  BY DEF Init, AuditSound
<1>2. NoVerdict.is = "none"
  BY DEF NoVerdict
<1>3. VerdictSound(world, NoVerdict)
  BY <1>2 DEF VerdictSound
<1>a. CASE contract = "none" /\ bq = Empty /\ summary = NoSummary /\ verdict = NoVerdict
  BY <1>1, <1>3, <1>a, EmptySound, ClosedSummaries DEF StudyInv
<1>b. CASE (\E steps \in Begun : bq \in Made(steps)) /\ summary = NoSummary /\ verdict = NoVerdict
  <2>1. PICK steps \in Begun : bq \in Made(steps)
    BY <1>b
  <2>2. steps \in Seq(Dos)
    <3>1. /\ "features" \in Dos /\ "range" \in Dos /\ "backfill" \in Dos /\ "stage" \in Dos
          /\ "anchor" \in Dos /\ "grid" \in Dos /\ "shard" \in Dos /\ "union" \in Dos
      BY DEF Dos
    <3>2. <<"features">> \in Seq(Dos)
      BY <3>1
    <3>3. <<"features", "range", "backfill", "features">> \in Seq(Dos)
      BY <3>1
    <3>4. <<"features", "stage", "backfill", "features", "anchor", "grid">> \in Seq(Dos)
      BY <3>1
    <3>5. <<"features", "shard", "union">> \in Seq(Dos)
      BY <3>1
    <3> QED  BY <3>2, <3>3, <3>4, <3>5 DEF Begun
  <2>3. Sound(world, bq)
    BY <1>1, <2>1, <2>2, MadeSound
  <2> QED  BY <1>1, <1>3, <1>b, <2>3, ClosedSummaries DEF StudyInv
<1>c. CASE /\ bq \in Made(<<"features", "anchor", "stage", "grid", "anchored">>)
           /\ \E list \in PairLists : summary = BuildSummary(bq.cells, list)
           /\ \/ verdict = NoVerdict
              \/ Loads(summary) /\ Eligible(summary) = {} /\ verdict = ClosingVerdict(summary)
  <2> DEFINE steps == <<"features", "anchor", "stage", "grid", "anchored">>
  <2>1. steps \in Seq(Dos) /\ Len(steps) = 5 /\ steps[5] = "anchored"
    BY DEF Dos
  <2> HIDE DEF steps
  <2>2. bq \in Made(steps)
    BY <1>c DEF steps
  <2>3. \E j \in 1 .. Len(steps) : steps[j] = "anchored"
    <3>1. 5 \in 1 .. 5
      OBVIOUS
    <3> QED  BY <2>1, <3>1
  <2>4. Sound(world, bq) /\ \A p \in Pairs : Exists(bq.cells[p])
    BY <1>1, <2>1, <2>2, <2>3, MadeSound
  <2>5. PICK list \in PairLists : summary = BuildSummary(bq.cells, list)
    BY <1>c
  <2>6. list \in Seq(Pairs) /\ ToSet(list) \subseteq Pairs
    BY PipelineAssumption DEF ToSet
  <2>7. SummarySound(world, summary) /\ summary.is = "open"
    BY <2>4, <2>5, <2>6, BuildSound
  <2>8. VerdictSound(world, verdict)
    <3>1. CASE verdict = NoVerdict
      BY <1>3, <3>1
    <3>2. CASE Loads(summary) /\ Eligible(summary) = {} /\ verdict = ClosingVerdict(summary)
      <4>1. verdict.read = summary
        BY <3>2 DEF ClosingVerdict
      <4> QED  BY <2>7, <3>2, <4>1 DEF VerdictSound
    <3> QED  BY <1>c, <3>1, <3>2
  <2> QED  BY <1>1, <2>4, <2>7, <2>8 DEF StudyInv
<1> QED
  BY <1>a, <1>b, <1>c DEF Init

\* Commands change tables by lists of statements, and reports by what is sound.
LEMMA GatedSound ==
  ASSUME StudyInv, NEW list \in Seq(Statements), Gated(list)
  PROVE  StudyInv'
<1>1. CASE Write(summary, Blocked, TornSummary) /\ UNCHANGED bq
  BY <1>1, ClosedSummaries DEF StudyInv, Gated, Write
<1>2. CASE Run(list) /\ UNCHANGED summary
  <2>1. Sound(world, bq')
    BY <1>2, RunSound DEF StudyInv, Run
  <2> QED  BY <1>2, <2>1 DEF StudyInv, Gated
<1> QED
  BY <1>1, <1>2 DEF Gated

LEMMA UngatedSound ==
  ASSUME StudyInv, NEW list \in Seq(Statements), Ungated(list)
  PROVE  StudyInv'
<1>1. Sound(world, bq')
  BY RunSound DEF StudyInv, Ungated, Run
<1> QED
  BY <1>1 DEF StudyInv, Ungated

LEMMA StepSound == StudyInv /\ [Next]_vars => StudyInv'
<1> SUFFICES ASSUME StudyInv, [Next]_vars PROVE StudyInv'
  OBVIOUS
<1>1. /\ world \in DOMAIN Ticks /\ Sound(world, bq) /\ SummarySound(world, summary)
      /\ VerdictSound(world, verdict) /\ AuditSound(world, audit)
  BY DEF StudyInv
<1>2. Order \in Seq(Pairs) /\ ToSet(Order) = Pairs /\ PairLists \subseteq Seq(Pairs)
  BY PipelineAssumption
<1>3. \A do \in Dos \ {"shard"} : \A list \in Seq(Pairs) : \A flipped \in BOOLEAN :
        ForPairs(do, list, flipped) \in Seq(Statements)
  BY ForPairsAre
<1>4. {"features", "anchor", "stage", "grid", "range", "union", "anchored", "live", "validate", "read"}
        \subseteq Dos \ {"shard"}
  BY DEF Dos
<1>a. CASE AuditContract \/ WriteSidecar
  BY <1>a DEF StudyInv, AuditContract, WriteSidecar
<1>b. CASE MaterializeFeatures
  <2> DEFINE list == ForPairs("features", Order, FALSE)
  <2>1. list \in Seq(Statements)
    BY <1>2, <1>3, <1>4
  <2> HIDE DEF list
  <2>2. Run(list) \/ bq' \in Completed(list, bq)
    BY <1>b DEF MaterializeFeatures, list
  <2>3. Sound(world, bq')
    BY <1>1, <2>1, <2>2, RunSound DEF Run
  <2> QED  BY <1>b, <2>3 DEF StudyInv, MaterializeFeatures
<1>c. CASE RunLive
  <2>1. SummarySound(world, summary')
    <3>1. CASE Write(summary, Blocked, TornSummary)
      BY <3>1, ClosedSummaries DEF Write
    <3>2. CASE \E flipped \in BOOLEAN : \E done \in Completed(ForPairs("live", Order, flipped), bq) :
                 Write(summary, BuildSummary(done.cells, Order), TornSummary)
      <4>1. PICK flipped \in BOOLEAN : \E done \in Completed(ForPairs("live", Order, flipped), bq) :
                 Write(summary, BuildSummary(done.cells, Order), TornSummary)
        BY <3>2
      <4> DEFINE list == ForPairs("live", Order, flipped)
      <4>2. /\ list \in Seq(Statements) /\ Len(list) = Len(Order)
            /\ \A i \in 1 .. Len(Order) : list[i].do = "live" /\ list[i].pair = Order[i]
        <5>1. "live" \in Dos \ {"shard"}
          BY <1>4
        <5> QED  BY <1>2, <5>1, ForPairsAre
      <4> HIDE DEF list
      <4>3. PICK done \in Completed(list, bq) : Write(summary, BuildSummary(done.cells, Order), TornSummary)
        BY <4>1 DEF list
      <4>4. /\ Sound(world, done)
            /\ \A i \in 1 .. Len(list) : list[i].do \in Reading => Exists(done.cells[list[i].pair])
        BY <1>1, <4>2, RunSound
      <4>5. \A p \in ToSet(Order) : Exists(done.cells[p])
        BY <4>2, <4>4 DEF ToSet, Reading
      <4>6. SummarySound(world, BuildSummary(done.cells, Order))
        BY <1>2, <4>4, <4>5, BuildSound
      <4> QED  BY <4>3, <4>6, ClosedSummaries DEF Write
    <3> QED  BY <1>c, <3>1, <3>2 DEF RunLive
  <2> QED  BY <1>c, <2>1 DEF StudyInv, RunLive
<1>d. CASE MaterializeQuoteAnchors \/ MaterializeShards \/ MaterializeUnion \/ MaterializeAnchorTables \/ MaterializeCells
  <2>1. PICK list \in Seq(Statements) : Gated(list)
    <3>1. CASE MaterializeQuoteAnchors
      BY <1>2, <1>3, <1>4, <3>1 DEF MaterializeQuoteAnchors
    <3>2. CASE MaterializeShards
      BY <1>2, <3>2, ShardListIs DEF MaterializeShards
    <3>3. CASE MaterializeUnion \/ MaterializeAnchorTables \/ MaterializeCells
      BY <1>2, <1>3, <1>4, <3>3 DEF MaterializeUnion, MaterializeAnchorTables, MaterializeCells
    <3> QED  BY <1>d, <3>1, <3>2, <3>3
  <2> QED  BY <2>1, GatedSound
<1>e. CASE MaterializeRawStages \/ MaterializeFromGrid
  <2>1. PICK list \in Seq(Statements) : Ungated(list)
    BY <1>2, <1>3, <1>4, <1>e DEF MaterializeRawStages, MaterializeFromGrid
  <2> QED  BY <2>1, UngatedSound
<1>f. CASE ReadCells
  <2>1. SummarySound(world, summary')
    <3>1. CASE Write(summary, Blocked, TornSummary)
      BY <3>1, ClosedSummaries DEF Write
    <3>2. CASE \E list \in PairLists : /\ \A p \in ToSet(list) : Exists(bq.cells[p])
                                       /\ Write(summary, BuildSummary(bq.cells, list), TornSummary)
      BY <1>1, <1>2, <3>2, BuildSound, ClosedSummaries DEF Write
    <3> QED  BY <1>f, <3>1, <3>2 DEF ReadCells
  <2> QED  BY <1>f, <2>1 DEF StudyInv, ReadCells
<1>g. CASE QuoteAnchorGrid
  <2>0. UNCHANGED <<world, contract, sidecar, verdict, audit>>
    BY <1>g DEF QuoteAnchorGrid
  <2>1. PICK list \in PairLists :
          \/ /\ Run(GridChain(list))
             /\ \/ summary' \in {summary, BlockedPairs, TornSummary}
                \/ sidecar # "open" /\ summary' = Blocked
          \/ \E done \in Completed(GridChain(list), bq) :
               /\ bq' = done
               /\ Write(summary, IF ~GridValid(done, list) THEN BlockedPairs
                                 ELSE IF sidecar # "open" THEN Blocked
                                 ELSE BuildSummary(done.cells, list), TornSummary)
    BY <1>g DEF QuoteAnchorGrid
  <2> DEFINE chain == GridChain(list)
  <2>2. /\ list \in Seq(Pairs) /\ chain \in Seq(Statements)
        /\ sidecar = "open" => \A p \in ToSet(list) :
             \E i \in 1 .. Len(chain) : chain[i].do = "read" /\ chain[i].pair = p
    BY <1>2, GridChainIs
  <2> HIDE DEF chain
  <2>3. CASE Run(chain) /\ (summary' \in {summary, BlockedPairs, TornSummary} \/ summary' = Blocked)
    <3>1. Sound(world, bq')
      BY <1>1, <2>2, <2>3, RunSound DEF Run
    <3>2. SummarySound(world, summary')
      BY <1>1, <2>3, ClosedSummaries
    <3> QED  BY <2>0, <3>1, <3>2 DEF StudyInv
  <2>4. ASSUME NEW done \in Completed(chain, bq), bq' = done,
               Write(summary, IF ~GridValid(done, list) THEN BlockedPairs
                              ELSE IF sidecar # "open" THEN Blocked
                              ELSE BuildSummary(done.cells, list), TornSummary)
        PROVE  StudyInv'
    <3>1. /\ Sound(world, done)
          /\ \A i \in 1 .. Len(chain) : chain[i].do \in Reading => Exists(done.cells[chain[i].pair])
      BY <1>1, <2>2, RunSound
    <3>2. sidecar = "open" => SummarySound(world, BuildSummary(done.cells, list))
      <4> SUFFICES ASSUME sidecar = "open" PROVE SummarySound(world, BuildSummary(done.cells, list))
        OBVIOUS
      <4>1. \A p \in ToSet(list) : Exists(done.cells[p])
        BY <2>2, <3>1 DEF Reading
      <4> QED  BY <2>2, <3>1, <4>1, BuildSound
    <3>3. SummarySound(world, summary')
      BY <2>4, <3>2, ClosedSummaries DEF Write
    <3> QED  BY <2>0, <2>4, <3>1, <3>3 DEF StudyInv
  <2> QED  BY <2>1, <2>3, <2>4 DEF chain
<1>h. CASE WriteBlocker
  BY <1>h, ClosedSummaries DEF StudyInv, WriteBlocker, Write
<1>i. CASE WriteVerdict
  <2>1. Loads(summary) /\ Eligible(summary) = {}
    BY <1>i DEF WriteVerdict
  <2>2. \A v : v.is # "null_ship" => VerdictSound(world, v)
    BY DEF VerdictSound
  <2>3. TornVerdict.is = "torn"
    BY DEF TornVerdict, NoVerdict
  <2>4. \A v : v.read = summary /\ v.reason = FinalVerdict(summary).reason => VerdictSound(world, v)
    <3>1. FinalVerdict(summary).reason = "empty_phase116_candidate_set" => summary.is = "open"
      BY <2>1 DEF FinalVerdict, Loads
    <3> QED  BY <1>1, <2>1, <3>1 DEF VerdictSound
  <2> DEFINE final == FinalVerdict(summary)
             annexed == [final EXCEPT !.annexed = TRUE]
  <2>5. final.read = summary /\ final.reason = FinalVerdict(summary).reason
    BY DEF FinalVerdict
  <2>6. annexed.read = summary /\ annexed.reason = FinalVerdict(summary).reason
    BY DEF FinalVerdict
  <2>7. verdict' \in {TornVerdict, final, annexed}
    BY <1>i DEF WriteVerdict
  <2> HIDE DEF final, annexed
  <2>8. VerdictSound(world, verdict')
    BY <2>2, <2>3, <2>4, <2>5, <2>6, <2>7
  <2> QED  BY <1>i, <2>8 DEF StudyInv, WriteVerdict
<1>j. CASE AuditTraceability
  <2>1. PICK plan \in Plannings, archived \in BOOLEAN :
          audit' = [pass |-> TraceabilityHolds(plan) /\ EvidenceCovered /\ ~archived
                             /\ KillPreserved(verdict), read |-> verdict]
    BY <1>j DEF AuditTraceability
  <2>2. audit'.read = verdict /\ (audit'.pass => KillPreserved(verdict))
    BY <2>1
  <2>3. AuditSound(world, audit')
    BY <1>1, <2>2 DEF AuditSound
  <2> QED  BY <1>j, <2>3 DEF StudyInv, AuditTraceability
<1>k. CASE Backfill
  <2>1. bq' = [bq EXCEPT !.raw = 2]
    BY <1>k DEF Backfill
  <2>2. Shaped(bq)
    BY <1>1 DEF Sound
  <2>3. /\ Shaped(bq') /\ bq'.anchor = bq.anchor /\ bq'.stage = bq.stage /\ bq'.shard = bq.shard
        /\ bq'.quotes = bq.quotes /\ bq'.cells = bq.cells
    BY <2>1, <2>2, PutRaw
  <2>4. Sound(world, bq')
    BY <1>1, <2>3 DEF Sound, PairSound
  <2> QED  BY <1>k, <2>4 DEF StudyInv, Backfill
<1>l. CASE UNCHANGED vars
  BY <1>l DEF StudyInv, vars
<1> QED
  BY <1>a, <1>b, <1>c, <1>d, <1>e, <1>f, <1>g, <1>h, <1>i, <1>j, <1>k, <1>l DEF Next

\* In every behaviour each table that exists, and each report made of tables, is sound.
THEOREM StudySound == Spec => []StudyInv
<1>1. Init => StudyInv
  BY InitSound
<1>2. StudyInv /\ [Next]_vars => StudyInv'
  BY StepSound
<1> QED
  BY <1>1, <1>2, PTL DEF Spec

(***************************************************************************)
(* What the summaries say                                                  *)
(***************************************************************************)
\* A summary of tables that fit has the numbers of the reference.
LEMMA BuiltPriced ==
  ASSUME NEW s, world \in DOMAIN Ticks, Built(world, s), NEW p \in s.pairs,
         NEW e1 \in {1, 2}, NEW e2 \in {1, 2}, Fits(world, p, s.of[p], e1, e2)
  PROVE  Priced(s, e1, e2, p)
<1> PICK tables : \E list \in Seq(Pairs) :
      /\ \A q \in ToSet(list) : Exists(tables[q]) /\ CellsSound(world, q, tables[q])
      /\ s = BuildSummary(tables, list)
  BY DEF Built
<1> PICK list \in Seq(Pairs) :
      /\ \A q \in ToSet(list) : Exists(tables[q]) /\ CellsSound(world, q, tables[q])
      /\ s = BuildSummary(tables, list)
  OBVIOUS
<1>1. s.pairs = ToSet(list) /\ s.of = [q \in ToSet(list) |-> tables[q].of]
  BY BuildIs DEF Summary
<1>2. p \in ToSet(list) /\ s.of[p] = tables[p].of
  BY <1>1
<1>3. \A q \in ToSet(list) : CellTable(tables[q].rows)
  BY DEF CellsSound
<1>4. {Numbers(r) : r \in {x \in s.rows : x.pair = p}} = PairNumbers(tables[p].rows)
  BY <1>2, <1>3, BuiltNumbers
<1>5. PICK flipped \in BOOLEAN : PairNumbers(tables[p].rows) = PairNumbers(Reference[world][e1][e2][p][flipped])
  BY <1>2 DEF CellsSound
<1> QED
  BY <1>4, <1>5 DEF Priced, PairNumbers

\* A summary whose tables rest on one generation of events and one of ticks has the
\* numbers of the reference, however its quotes were found (the four ways of
\* build_materialize_quote_anchor_*_sql), in any order of commands, failures and the backfill.
THEOREM QuotesAreFound == Spec => []CellsPriced
<1>1. StudyInv => CellsPriced
  <2> SUFFICES ASSUME StudyInv, summary.is = "open", NEW p \in summary.pairs, NEW e1 \in {1, 2}, NEW e2 \in {1, 2},
                      summary.of[p] = {<<"events", e1>>, <<"ticks", e2>>}
               PROVE  Priced(summary, e1, e2, p)
    BY DEF CellsPriced
  <2>1. world \in DOMAIN Ticks /\ Built(world, summary)
    BY DEF StudyInv, SummarySound
  <2>2. Fits(world, p, summary.of[p], e1, e2)
    BY DEF Fits
  <2> QED  BY <2>1, <2>2, BuiltPriced
<1> QED
  BY <1>1, StudySound, PTL

\* The in-sample numbers do not depend on the sealed window, whichever tables are old.
THEOREM SealedStaysUnread == Spec => []SealedUnread
<1>1. StudyInv => SealedUnread
  <2> SUFFICES ASSUME StudyInv, summary.is = "open",
                      \A q \in Pairs : Ticks[world][1][q] \ SealedFrom(Ticks[world][1][q])
                                         = Ticks[world][2][q] \ SealedFrom(Ticks[world][2][q]),
                      NEW p \in summary.pairs
               PROVE  Priced(summary, 1, 1, p)
    BY DEF SealedUnread
  <2>1. world \in DOMAIN Ticks /\ Built(world, summary)
    BY DEF StudyInv, SummarySound
  <2>2. p \in Pairs
    <3>1. \E list \in Seq(Pairs) : summary.pairs = ToSet(list)
      BY <2>1, BuildIs DEF Built, Summary
    <3> QED  BY <3>1 DEF ToSet
  <2> DEFINE T == Ticks[world][1][p]
             U == Ticks[world][2][p]
  <2>3. T \in SUBSET TickType /\ U \in SUBSET TickType
    BY <2>1, <2>2, WorldIs
  <2>4. \A X \in SUBSET TickType : Known(X) = X \ SealedFrom(X)
    <3>1. IsEnd + Slack \in Nat
      BY MonthsAre DEF Slack
    <3>2. \A t \in TickType : t.at \in Nat
      BY DEF TickType
    <3> QED  BY <3>1, <3>2 DEF Known, SealedFrom
  <2>5. T \ SealedFrom(T) = U \ SealedFrom(U)
    BY <2>2
  <2> HIDE DEF T, U
  <2>6. Known(T) = Known(U)
    BY <2>3, <2>4, <2>5
  <2>7. IsEvents(Events(T)) = IsEvents(Events(U))
    BY <2>3, <2>6, EventsKnown
  <2>8. EventsOf[world][1][p] = Events(T) /\ EventsOf[world][2][p] = Events(U)
    BY <2>1, <2>2, WorldIs DEF T, U
  <2>9. Fits(world, p, summary.of[p], 1, 1)
    BY <2>6, <2>7, <2>8 DEF Fits, T, U
  <2> QED  BY <2>1, <2>9, BuiltPriced
<1> QED
  BY <1>1, StudySound, PTL

(***************************************************************************)
(* The family is finite, and so are the rows                               *)
(***************************************************************************)
LEMMA FamilyFinite == IsFiniteSet(Pairs) /\ IsFiniteSet(Family) /\ FwerDenominator \in Nat
<1>1. Order \in Seq(Pairs) /\ Pairs = {Order[i] : i \in 1 .. Len(Order)}
  BY PipelineAssumption DEF ToSet
<1>2. Len(Order) \in Nat /\ IsFiniteSet(1 .. Len(Order))
  BY <1>1, FS_Interval
<1>3. Order \in Surjection(1 .. Len(Order), Pairs)
  BY <1>1 DEF Surjection
<1>4. IsFiniteSet(Pairs)
  BY <1>2, <1>3, FS_Surjection
<1>5. IsFiniteSet(Family)
  BY <1>4, CellsFinite, FS_Product DEF Family
<1> QED
  BY <1>4, <1>5, FS_CardinalityType DEF FwerDenominator

\* Rows of pairs and cells, of which no two are of the same.
KeyedRows(rows) ==
  /\ \A x \in rows : x.pair \in Pairs /\ x.cell \in Cells
  /\ \A x, y \in rows : x.pair = y.pair /\ x.cell = y.cell => x = y

LEMMA KeyedFinite ==
  ASSUME NEW rows, KeyedRows(rows)
  PROVE  IsFiniteSet(rows) /\ Cardinality(rows) \in Nat /\ Cardinality(rows) <= FwerDenominator
<1> DEFINE f == [x \in rows |-> <<x.pair, x.cell>>]
<1>1. f \in [rows -> Family]
  BY DEF KeyedRows, Family
<1>2. \A x, y \in rows : f[x] = f[y] => x = y
  BY DEF KeyedRows
<1> HIDE DEF f
<1>3. f \in Injection(rows, Family)
  BY <1>1, <1>2 DEF Injection, IsInjective
<1>4. IsFiniteSet(rows) /\ Cardinality(rows) <= Cardinality(Family)
  BY <1>3, FamilyFinite, FS_Injection
<1> QED
  BY <1>4, FS_CardinalityType DEF FwerDenominator

LEMMA RowsKeyed ==
  ASSUME NEW tables, NEW pairs, pairs \subseteq Pairs, \A p \in pairs : CellTable(tables[p].rows)
  PROVE  KeyedRows(RowsOf(tables, pairs))
<1> DEFINE rows == RowsOf(tables, pairs)
<1>1. /\ \A x \in rows : x.pair \in pairs
      /\ \A x \in rows : \E r \in CollectPair(tables[x.pair].rows) : RowOK(r) /\ x = Paired(x.pair, r)
      /\ \A x, y \in rows : x.pair = y.pair /\ x.cell = y.cell => x = y
  BY RowsAre
<1> HIDE DEF rows
<1>2. \A x \in rows : x.cell \in Cells
  BY <1>1, PairedIs DEF RowOK
<1>3. KeyedRows(rows)
  BY <1>1, <1>2 DEF KeyedRows
<1> QED
  BY <1>3 DEF rows

(***************************************************************************)
(* Tables with the same numbers have the same candidates                   *)
(***************************************************************************)
RankIn(rows, s) == Cardinality({t \in rows : t.p < s.p})

LEMMA HolmIs ==
  ASSUME NEW rows, NEW r, NEW n
  PROVE  PAdjHolm(rows, r, n) = Min({1000, Max({(n - RankIn(rows, s)) * s.p : s \in {t \in rows : t.p <= r.p}})})
BY DEF PAdjHolm, RankIn

Twins(x, y) == x.pair = y.pair /\ Numbers(x) = Numbers(y)
\* Every row has its twin among the others, and every other one here.
Alike(A, B) == /\ \A x \in A : \E y \in B : Twins(x, y)
               /\ \A y \in B : \E x \in A : Twins(x, y)

LEMMA TwinFields ==
  ASSUME NEW x, NEW y, Twins(x, y)
  PROVE  /\ x.pair = y.pair /\ x.cell = y.cell /\ x.trades = y.trades
         /\ x.profit = y.profit /\ x.loss = y.loss /\ x.p = y.p
BY DEF Twins, Numbers

LEMMA AlikeCardinality ==
  ASSUME NEW A, NEW B, KeyedRows(A), KeyedRows(B), Alike(A, B)
  PROVE  Cardinality(A) = Cardinality(B)
<1> DEFINE f == [x \in A |-> CHOOSE y \in B : Twins(x, y)]
<1>1. \A x \in A : f[x] \in B /\ Twins(x, f[x])
  BY DEF Alike
<1>2. f \in [A -> B]
  BY <1>1
<1> HIDE DEF f
<1>3. \A x, y \in A : f[x] = f[y] => x = y
  BY <1>1, TwinFields DEF KeyedRows
<1>4. \A y \in B : \E x \in A : f[x] = y
  <2> TAKE y \in B
  <2>1. PICK x \in A : Twins(x, y)
    BY DEF Alike
  <2>2. f[x].pair = y.pair /\ f[x].cell = y.cell
    BY <1>1, <2>1, TwinFields
  <2>3. f[x] = y
    BY <1>1, <2>2 DEF KeyedRows
  <2> QED  BY <2>3
<1>5. f \in Bijection(A, B)
  BY <1>2, <1>3, <1>4 DEF Bijection, Injection, Surjection, IsInjective
<1>6. ExistsBijection(A, B)
  BY <1>5 DEF ExistsBijection
<1> QED
  BY <1>6, KeyedFinite, FS_Bijection

LEMMA AlikeHolm ==
  ASSUME NEW A, NEW B, KeyedRows(A), KeyedRows(B), Alike(A, B), NEW x, NEW y, Twins(x, y)
  PROVE  PAdjHolm(A, x, FwerDenominator) = PAdjHolm(B, y, FwerDenominator)
<1>1. ASSUME NEW s, NEW t, Twins(s, t) PROVE RankIn(A, s) = RankIn(B, t)
  <2> DEFINE C == {u \in A : u.p < s.p}
             D == {u \in B : u.p < t.p}
  <2>1. KeyedRows(C) /\ KeyedRows(D)
    BY DEF KeyedRows
  <2>2. s.p = t.p
    BY <1>1, TwinFields
  <2>3. Alike(C, D)
    BY <2>2, TwinFields DEF Alike
  <2> HIDE DEF C, D
  <2>4. Cardinality(C) = Cardinality(D)
    BY <2>1, <2>3, AlikeCardinality
  <2> QED  BY <2>4 DEF RankIn, C, D
<1> DEFINE Weighted(rows, r) == {(FwerDenominator - RankIn(rows, s)) * s.p : s \in {t \in rows : t.p <= r.p}}
<1>2. x.p = y.p
  BY TwinFields
<1>3. ASSUME NEW s \in A, s.p <= x.p
      PROVE  \E t \in B : t.p <= y.p /\ (FwerDenominator - RankIn(A, s)) * s.p = (FwerDenominator - RankIn(B, t)) * t.p
  <2>1. PICK t \in B : Twins(s, t)
    BY DEF Alike
  <2>2. s.p = t.p /\ RankIn(A, s) = RankIn(B, t)
    BY <1>1, <2>1, TwinFields
  <2> QED  BY <1>2, <1>3, <2>2
<1>4. ASSUME NEW t \in B, t.p <= y.p
      PROVE  \E s \in A : s.p <= x.p /\ (FwerDenominator - RankIn(B, t)) * t.p = (FwerDenominator - RankIn(A, s)) * s.p
  <2>1. PICK s \in A : Twins(s, t)
    BY DEF Alike
  <2>2. s.p = t.p /\ RankIn(A, s) = RankIn(B, t)
    BY <1>1, <2>1, TwinFields
  <2> QED  BY <1>2, <1>4, <2>2
<1>5. Weighted(A, x) = Weighted(B, y)
  BY <1>3, <1>4
<1>6. PAdjHolm(A, x, FwerDenominator) = PAdjHolm(B, y, FwerDenominator)
  <2>1. /\ PAdjHolm(A, x, FwerDenominator) = Min({1000, Max(Weighted(A, x))})
        /\ PAdjHolm(B, y, FwerDenominator) = Min({1000, Max(Weighted(B, y))})
    BY HolmIs
  <2> HIDE DEF Weighted
  <2> QED  BY <1>5, <2>1
<1> QED
  BY <1>6

LEMMA AlikeEligible ==
  ASSUME NEW A, NEW B, KeyedRows(A), KeyedRows(B), Alike(A, B), NEW x, NEW y, Twins(x, y)
  PROVE  IsEligible(A, x) <=> IsEligible(B, y)
<1>1. PAdjHolm(A, x, FwerDenominator) = PAdjHolm(B, y, FwerDenominator)
  BY AlikeHolm
<1>2. (Sparse(x) <=> Sparse(y)) /\ (PassNetPf(x) <=> PassNetPf(y))
  BY TwinFields DEF Sparse, PassNetPf
<1> QED
  BY <1>1, <1>2 DEF IsEligible

LEMMA RowsAlike ==
  ASSUME NEW tables, NEW others, NEW pairs,
         \A p \in pairs : CellTable(tables[p].rows) /\ CellTable(others[p].rows),
         \A p \in pairs : PairNumbers(tables[p].rows) \subseteq PairNumbers(others[p].rows)
  PROVE  \A x \in RowsOf(tables, pairs) : \E y \in RowsOf(others, pairs) : Twins(x, y)
<1> DEFINE A == RowsOf(tables, pairs)
           B == RowsOf(others, pairs)
<1>1. \A x \in A : x.pair \in pairs /\ \E r \in CollectPair(tables[x.pair].rows) : RowOK(r) /\ x = Paired(x.pair, r)
  BY RowsAre
<1>2. \A p \in pairs : \A r \in CollectPair(others[p].rows) : RowOK(r) /\ Paired(p, r) \in B
  BY RowsAre, CollectedIs
<1> HIDE DEF A, B
<1>3. \A p, r : RowOK(r) => Numbers(Paired(p, r)) = Numbers(r) /\ Paired(p, r).pair = p
  BY PairedIs DEF Numbers
<1>4. ASSUME NEW x \in A PROVE \E y \in B : Twins(x, y)
  <2> DEFINE p == x.pair
  <2>1. PICK r \in CollectPair(tables[p].rows) : RowOK(r) /\ x = Paired(p, r)
    BY <1>1
  <2>2. p \in pairs /\ Numbers(x) = Numbers(r) /\ Numbers(r) \in PairNumbers(tables[p].rows)
    BY <1>1, <1>3, <2>1 DEF PairNumbers
  <2>3. PICK t \in CollectPair(others[p].rows) : Numbers(t) = Numbers(r)
    BY <2>2 DEF PairNumbers
  <2>4. Paired(p, t) \in B /\ Twins(x, Paired(p, t))
    BY <1>2, <1>3, <2>2, <2>3 DEF Twins
  <2> QED  BY <2>4
<1> QED
  BY <1>4 DEF A, B

\* Tables with the same numbers have candidates if and only if the others have.
LEMMA SameCandidates ==
  ASSUME NEW tables, NEW others, NEW list, NEW order, ToSet(order) = ToSet(list), ToSet(list) \subseteq Pairs,
         \A p \in ToSet(list) : CellTable(tables[p].rows) /\ CellTable(others[p].rows),
         \A p \in ToSet(list) : PairNumbers(tables[p].rows) = PairNumbers(others[p].rows),
         Eligible(BuildSummary(tables, list)) = {}
  PROVE  Eligible(BuildSummary(others, order)) = {}
<1> DEFINE pairs == ToSet(list)
           A == RowsOf(tables, pairs)
           B == RowsOf(others, pairs)
<1>1. /\ BuildSummary(tables, list).rows = {Marked(IsEligible(A, r), r) : r \in A}
      /\ BuildSummary(others, order).rows = {Marked(IsEligible(B, r), r) : r \in B}
  BY BuildIs DEF Summary
<1>2. KeyedRows(A) /\ KeyedRows(B)
  BY RowsKeyed
<1>3. \A x \in A : \E y \in B : Twins(x, y)
  BY RowsAlike
<1>4. \A y \in B : \E x \in A : Twins(y, x)
  BY RowsAlike
<1>5. (\A x \in A : DOMAIN x = {"pair"} \cup RowFields) /\ (\A x \in B : DOMAIN x = {"pair"} \cup RowFields)
  BY RowsAre
<1> HIDE DEF A, B
<1>6. Alike(A, B)
  BY <1>3, <1>4 DEF Alike, Twins
<1> SUFFICES ASSUME NEW z \in BuildSummary(others, order).rows, z.eligible PROVE FALSE
  BY DEF Eligible
<1>7. PICK y \in B : z = Marked(IsEligible(B, y), y)
  BY <1>1
<1>8. IsEligible(B, y)
  <2>1. z.eligible = IsEligible(B, y)
    BY <1>5, <1>7, MarkedIs
  <2> QED  BY <2>1, ZenonT(30)
<1>9. PICK x \in A : Twins(x, y)
  BY <1>6 DEF Alike
<1>10. IsEligible(A, x)
  BY <1>2, <1>6, <1>8, <1>9, AlikeEligible
<1>11. Marked(IsEligible(A, x), x).eligible
  BY <1>5, <1>10, MarkedIs
<1>12. Marked(IsEligible(A, x), x) \in Eligible(BuildSummary(tables, list))
  BY <1>1, <1>11 DEF Eligible
<1> QED
  BY <1>12

\* A passed audit closes a study without a candidate: the summary its verdict read is
\* whole, and where it rests on one generation of events and ticks for each pair the
\* reference has no candidate either (load_phase115_summary, build_audit_report).
THEOREM ClosureStaysHonest == Spec => []ClosureHonest
<1>1. StudyInv => ClosureHonest
  <2> DEFINE s == audit.read.read
  <2> SUFFICES ASSUME StudyInv, audit.pass
               PROVE  /\ s.is = "open" /\ s.pairs = Pairs
                      /\ \A e1, e2 \in [Pairs -> {1, 2}] :
                           (\A p \in Pairs : s.of[p] = {<<"events", e1[p]>>, <<"ticks", e2[p]>>})
                             => ~HasCandidate(e1, e2)
    BY DEF ClosureHonest
  <2>1. /\ s.is = "open" /\ s.pairs = Pairs /\ Eligible(s) = {} /\ Built(world, s) /\ world \in DOMAIN Ticks
    BY DEF StudyInv, AuditSound, VerdictSound, KillPreserved, SummarySound, Loads
  <2> HIDE DEF s
  <2> SUFFICES ASSUME NEW e1 \in [Pairs -> {1, 2}], NEW e2 \in [Pairs -> {1, 2}],
                      \A p \in Pairs : s.of[p] = {<<"events", e1[p]>>, <<"ticks", e2[p]>>}
               PROVE  ~HasCandidate(e1, e2)
    BY <2>1
  <2> PICK tables : \E list \in Seq(Pairs) :
        /\ \A q \in ToSet(list) : Exists(tables[q]) /\ CellsSound(world, q, tables[q])
        /\ s = BuildSummary(tables, list)
    BY <2>1 DEF Built
  <2> PICK list \in Seq(Pairs) :
        /\ \A q \in ToSet(list) : Exists(tables[q]) /\ CellsSound(world, q, tables[q])
        /\ s = BuildSummary(tables, list)
    OBVIOUS
  <2>2. ToSet(list) = Pairs /\ s.of = [q \in ToSet(list) |-> tables[q].of] /\ ToSet(Order) = Pairs
    BY <2>1, BuildIs, PipelineAssumption DEF Summary
  <2> DEFINE ref(p, flipped) == Reference[world][e1[p]][e2[p]][p][flipped]
  <2>3. ASSUME NEW p \in Pairs
        PROVE  \E flipped \in BOOLEAN : PairNumbers(tables[p].rows) = PairNumbers(ref(p, flipped))
    <3>1. e1[p] \in {1, 2} /\ e2[p] \in {1, 2} /\ tables[p].of = {<<"events", e1[p]>>, <<"ticks", e2[p]>>}
      BY <2>2
    <3>2. Fits(world, p, tables[p].of, e1[p], e2[p])
      BY <3>1 DEF Fits
    <3> DEFINE v == e1[p]
               r == e2[p]
    <3> HIDE DEF v, r
    <3>3. v \in {1, 2} /\ r \in {1, 2} /\ Fits(world, p, tables[p].of, v, r)
      BY <3>1, <3>2 DEF v, r
    <3>4. Exists(tables[p]) /\ CellsSound(world, p, tables[p])
      BY <2>2
    <3>5. \E flipped \in BOOLEAN : PairNumbers(tables[p].rows) = PairNumbers(Reference[world][v][r][p][flipped])
      BY <3>3, <3>4 DEF CellsSound
    <3> QED  BY <3>5 DEF v, r
  <2> DEFINE choice == [p \in Pairs |-> CHOOSE flipped \in BOOLEAN : PairNumbers(tables[p].rows) = PairNumbers(ref(p, flipped))]
             others == [p \in Pairs |-> Table({}, ref(p, choice[p]))]
  <2>4. \A p \in Pairs : choice[p] \in BOOLEAN /\ PairNumbers(tables[p].rows) = PairNumbers(ref(p, choice[p]))
    <3> HIDE DEF ref
    <3> QED  BY <2>3
  <2>5. choice \in [Pairs -> BOOLEAN]
    <3> HIDE DEF ref
    <3> QED  BY <2>3
  <2> HIDE DEF choice
  <2>6. \A p \in Pairs : \A flipped \in BOOLEAN : CellTable(ref(p, flipped))
    <3> TAKE p \in Pairs, flipped \in BOOLEAN
    <3>1. e1[p] \in {1, 2} /\ e2[p] \in {1, 2}
      OBVIOUS
    <3> DEFINE v == e1[p]
               r == e2[p]
    <3> HIDE DEF v, r
    <3>2. v \in {1, 2} /\ r \in {1, 2}
      BY <3>1 DEF v, r
    <3>3. /\ Reference[world][v][r][p][flipped] = LiveCells(Events(Ticks[world][v][p]), Ticks[world][r][p], flipped)
          /\ Ticks[world][v][p] \in SUBSET TickType /\ Ticks[world][r][p] \in SUBSET TickType
          /\ IsFiniteSet(Ticks[world][v][p]) /\ IsFiniteSet(Ticks[world][r][p])
      BY <2>1, <3>2, WorldIs
    <3>4. CellTable(Reference[world][v][r][p][flipped])
      BY <3>3, LiveTable
    <3> QED  BY <3>4 DEF v, r
  <2>7. \A p \in Pairs : others[p].rows = ref(p, choice[p])
    <3> HIDE DEF ref
    <3> QED  BY DEF Table
  <2>8. others = [p \in Pairs |-> Table({}, Reference[world][e1[p]][e2[p]][p][choice[p]])]
    OBVIOUS
  <2> HIDE DEF others, ref
  <2>9. \A p \in Pairs : /\ CellTable(tables[p].rows) /\ CellTable(others[p].rows)
                         /\ PairNumbers(tables[p].rows) = PairNumbers(others[p].rows)
    BY <2>2, <2>4, <2>6, <2>7 DEF CellsSound
  <2>10. Eligible(BuildSummary(others, Order)) = {}
    BY <2>1, <2>2, <2>9, SameCandidates
  <2> QED  BY <2>5, <2>8, <2>10 DEF HasCandidate
<1> QED
  BY <1>1, StudySound, PTL

(***************************************************************************)
(* Padding: more rows in the family make no probability greater            *)
(***************************************************************************)
LEMMA MinBelow ==
  ASSUME NEW x \in Int
  PROVE  Min({1000, x}) < Alpha <=> x < Alpha
<1>1. CASE x <= 1000
  <2>1. \A y \in {1000, x} : x <= y
    BY <1>1
  <2>2. \A y \in {1000, x} : (\A z \in {1000, x} : y <= z) => y = x
    BY <1>1
  <2>3. Min({1000, x}) = x
    BY <2>1, <2>2 DEF Min
  <2> QED  BY <2>3
<1>2. CASE x > 1000
  <2>1. \A y \in {1000, x} : 1000 <= y
    BY <1>2
  <2>2. \A y \in {1000, x} : (\A z \in {1000, x} : y <= z) => y = 1000
    BY <1>2
  <2>3. Min({1000, x}) = 1000
    BY <2>1, <2>2 DEF Min
  <2> QED  BY <1>2, <2>3 DEF Alpha
<1> QED
  BY <1>1, <1>2

LEMMA RankType ==
  ASSUME NEW rows, KeyedRows(rows), NEW s
  PROVE  /\ IsFiniteSet({t \in rows : t.p < s.p}) /\ RankIn(rows, s) \in Nat
         /\ FwerDenominator - RankIn(rows, s) \in Int
<1>1. {t \in rows : t.p < s.p} \in SUBSET rows /\ IsFiniteSet(rows)
  BY KeyedFinite
<1>2. IsFiniteSet({t \in rows : t.p < s.p}) /\ RankIn(rows, s) \in Nat
  BY <1>1, FS_Subset, FS_CardinalityType DEF RankIn
<1> QED
  BY <1>2, FamilyFinite

\* The adjusted probability is below alpha if every weighted one up to the row's is.
LEMMA HolmBelow ==
  ASSUME NEW rows, KeyedRows(rows), \A t \in rows : t.p \in Nat, NEW r \in rows
  PROVE  PAdjHolm(rows, r, FwerDenominator) < Alpha
           <=> \A s \in rows : s.p <= r.p => (FwerDenominator - RankIn(rows, s)) * s.p < Alpha
<1> DEFINE U == {t \in rows : t.p <= r.p}
           f == [s \in U |-> (FwerDenominator - RankIn(rows, s)) * s.p]
           W == {f[s] : s \in U}
<1>1. \A s \in U : f[s] \in Int
  <2> TAKE s \in U
  <2> DEFINE a == FwerDenominator - RankIn(rows, s)
             b == s.p
  <2>1. a \in Int
    BY RankType
  <2>2. b \in Int
    OBVIOUS
  <2>3. f[s] = a * b
    OBVIOUS
  <2> HIDE DEF a, b, f
  <2> QED  BY <2>1, <2>2, <2>3
<1>2. \A s \in U : f[s] = (FwerDenominator - RankIn(rows, s)) * s.p
  OBVIOUS
<1>3. W = {(FwerDenominator - RankIn(rows, s)) * s.p : s \in {t \in rows : t.p <= r.p}}
  BY <1>2
<1>4. IsFiniteSet(U) /\ U # {} /\ DOMAIN f = U
  <2>1. U \in SUBSET rows /\ r \in U
    OBVIOUS
  <2>2. IsFiniteSet(rows)
    BY KeyedFinite
  <2>3. IsFiniteSet(U)
    <3> HIDE DEF U
    <3> QED  BY <2>1, <2>2, FS_Subset
  <2>4. DOMAIN f = U
    OBVIOUS
  <2> QED  BY <2>1, <2>3, <2>4
<1>5. \A s : s \in U <=> s \in rows /\ s.p <= r.p
  OBVIOUS
<1> HIDE DEF U, f
<1>6. IsFiniteSet(W) /\ W \subseteq Int /\ W # {}
  BY <1>1, <1>4, FiniteImage
<1>7. PAdjHolm(rows, r, FwerDenominator) = Min({1000, Max(W)})
  <2>1. PAdjHolm(rows, r, FwerDenominator) =
          Min({1000, Max({(FwerDenominator - RankIn(rows, s)) * s.p : s \in {t \in rows : t.p <= r.p}})})
    BY HolmIs
  <2> HIDE DEF W
  <2> QED  BY <1>3, <2>1
<1>8. Max(W) \in W /\ \A y \in W : y <= Max(W)
  <2> HIDE DEF W
  <2> QED  BY <1>6, FiniteMax
<1> DEFINE max == Max(W)
<1>9. max \in Int /\ max \in W /\ \A s \in U : f[s] <= max
  BY <1>6, <1>8
<1>10. PAdjHolm(rows, r, FwerDenominator) < Alpha <=> max < Alpha
  BY <1>7, <1>9, MinBelow
<1>11. PICK s \in U : max = f[s]
  BY <1>9
<1> HIDE DEF max
<1>12. max < Alpha <=> \A u \in U : f[u] < Alpha
  BY <1>1, <1>9, <1>11 DEF Alpha
<1> QED
  BY <1>2, <1>5, <1>10, <1>12

\* A rank and a probability can only shrink the weighted probability of the next row kept.
LEMMA SmallerProduct ==
  ASSUME NEW a \in Int, NEW b \in Int, a <= b, NEW p \in Nat, NEW q \in Nat, p <= q, b * q < Alpha
  PROVE  a * p < Alpha
<1>1. CASE a <= 0
  <2>1. a * p <= 0
    <3>1. -a \in Nat
      BY <1>1
    <3>2. (-a) * p \in Nat
      BY <3>1
    <3> QED  BY <3>2
  <2>2. a * p \in Int
    OBVIOUS
  <2> QED  BY <2>1, <2>2 DEF Alpha
<1>2. CASE a > 0
  <2>1. a * p <= b * p
    <3>1. b - a \in Nat
      OBVIOUS
    <3>2. (b - a) * p \in Nat
      BY <3>1
    <3>3. (b - a) * p = b * p - a * p /\ b * p \in Int /\ a * p \in Int
      OBVIOUS
    <3> QED  BY <3>2, <3>3
  <2>2. b * p <= b * q
    <3>1. q - p \in Nat /\ b \in Nat
      BY <1>2
    <3>2. b * (q - p) \in Nat
      BY <3>1
    <3>3. b * (q - p) = b * q - b * p /\ b * p \in Int /\ b * q \in Int
      OBVIOUS
    <3> QED  BY <3>2, <3>3
  <2>3. a * p \in Int /\ b * p \in Int /\ b * q \in Int
    OBVIOUS
  <2> QED  BY <2>1, <2>2, <2>3 DEF Alpha
<1> QED
  BY <1>1, <1>2

\* What is significant among some rows of the family stays so among more of them.
LEMMA HolmPadded ==
  ASSUME NEW A, NEW B, A \subseteq B, KeyedRows(B), \A t \in B : t.p \in Nat,
         NEW r \in A, PAdjHolm(A, r, FwerDenominator) < Alpha
  PROVE  PAdjHolm(B, r, FwerDenominator) < Alpha
<1>1. KeyedRows(A)
  BY DEF KeyedRows
<1>2. \A s \in A : s.p <= r.p => (FwerDenominator - RankIn(A, s)) * s.p < Alpha
  BY <1>1, HolmBelow
<1>3. ASSUME NEW s \in B, s.p <= r.p PROVE (FwerDenominator - RankIn(B, s)) * s.p < Alpha
  <2> DEFINE C == {t \in A : s.p <= t.p}
             f == [t \in C |-> t.p]
  <2>1. PICK t \in C : \A u \in C : t.p <= u.p
    <3>1. C # {} /\ DOMAIN f = C /\ \A u \in C : f[u] = u.p /\ f[u] \in Nat
      BY <1>3
    <3> HIDE DEF C, f
    <3>2. \E t \in C : \A u \in C : f[t] <= f[u]
      BY <3>1, LeastBy
    <3> QED  BY <3>1, <3>2
  <2>2. t \in A /\ s.p <= t.p /\ t.p <= r.p
    BY <1>3, <2>1
  <2>3. {u \in A : u.p < t.p} \in SUBSET {u \in B : u.p < s.p}
    <3> SUFFICES ASSUME NEW u \in A, u.p < t.p PROVE u.p < s.p
      OBVIOUS
    <3>1. u.p \in Nat /\ s.p \in Nat /\ t.p \in Nat
      BY <2>2
    <3>2. ~(s.p <= u.p)
      BY <2>1, <3>1
    <3> QED  BY <3>1, <3>2
  <2>4. RankIn(A, t) <= RankIn(B, s)
    BY <2>3, RankType, FS_Subset DEF RankIn
  <2> DEFINE a == FwerDenominator - RankIn(B, s)
             b == FwerDenominator - RankIn(A, t)
             m == s.p
             n == t.p
  <2>5. a \in Int /\ b \in Int /\ a <= b
    <3> DEFINE i == RankIn(B, s)
               j == RankIn(A, t)
    <3>1. i \in Nat /\ j \in Nat
      BY <1>1, RankType
    <3>2. j <= i /\ FwerDenominator \in Nat
      BY <2>4, FamilyFinite
    <3> HIDE DEF i, j
    <3>3. FwerDenominator - i \in Int /\ FwerDenominator - j \in Int /\ FwerDenominator - i <= FwerDenominator - j
      BY <3>1, <3>2
    <3> QED  BY <3>3 DEF i, j
  <2>6. m \in Nat /\ n \in Nat /\ m <= n /\ b * n < Alpha
    BY <1>2, <2>2
  <2> HIDE DEF a, b, m, n
  <2>7. a * m < Alpha
    BY <2>5, <2>6, SmallerProduct
  <2> QED  BY <2>7 DEF a, m
<1>4. r \in B
  OBVIOUS
<1> QED
  BY <1>3, <1>4, HolmBelow

MarkedOf(A) == {Marked(IsEligible(A, x), x) : x \in A}

\* A row of a summary says of its cell what the row it was made of does.
LEMMA MarkedRows ==
  ASSUME NEW tables, NEW pairs, pairs \subseteq Pairs, \A p \in pairs : CellTable(tables[p].rows),
         NEW A, A = RowsOf(tables, pairs), NEW M, M = MarkedOf(A)
  PROVE  /\ KeyedRows(A) /\ KeyedRows(M) /\ Alike(A, M)
         /\ \A z \in M : z.pair \in pairs /\ z.p \in Nat
         /\ \A z \in M : z.eligible => \E x \in A : Twins(x, z) /\ IsEligible(A, x)
<1>1. KeyedRows(A)
  BY RowsKeyed
<1>2. \A x \in A : /\ DOMAIN x = {"pair"} \cup RowFields /\ x.pair \in pairs
                   /\ \E r \in CollectPair(tables[x.pair].rows) : RowOK(r) /\ x = Paired(x.pair, r)
  BY RowsAre
<1>3. \A x \in A : x.p \in Nat
  BY <1>2, PairedIs DEF RowOK
<1>4. \A x \in A : Twins(x, Marked(IsEligible(A, x), x))
  <2> TAKE x \in A
  <2>1. DOMAIN x = {"pair"} \cup RowFields
    BY <1>2
  <2> DEFINE z == Marked(IsEligible(A, x), x)
  <2>2. /\ z.pair = x.pair /\ z.cell = x.cell /\ z.trades = x.trades
        /\ z.profit = x.profit /\ z.loss = x.loss /\ z.p = x.p
    BY <2>1, MarkedIs
  <2> HIDE DEF z
  <2>3. Twins(x, z)
    BY <2>2 DEF Twins, Numbers
  <2> QED  BY <2>3 DEF z
<1> DEFINE mark(x) == Marked(IsEligible(A, x), x)
<1>5. M = {mark(x) : x \in A} /\ \A x \in A : Twins(x, mark(x))
  BY <1>4 DEF MarkedOf
<1>6. \A x \in A : mark(x).eligible = IsEligible(A, x)
  BY <1>2, MarkedIs
<1> HIDE DEF mark
<1>7. Alike(A, M)
  BY <1>5 DEF Alike
<1>8. \A z \in M : \E x \in A : z = mark(x) /\ Twins(x, z)
  BY <1>5
<1>9. \A z \in M : z.pair \in pairs /\ z.p \in Nat /\ z.cell \in Cells
  BY <1>1, <1>2, <1>3, <1>8, TwinFields DEF KeyedRows
<1>10. ASSUME NEW y \in M, NEW z \in M, y.pair = z.pair, y.cell = z.cell PROVE y = z
  <2> PICK u \in A : y = mark(u) /\ Twins(u, y)
    BY <1>8
  <2> PICK v \in A : z = mark(v) /\ Twins(v, z)
    BY <1>8
  <2>1. u.pair = v.pair /\ u.cell = v.cell
    BY <1>10, TwinFields
  <2>2. u = v
    BY <1>1, <2>1 DEF KeyedRows
  <2> QED  BY <2>2
<1>11. KeyedRows(M)
  BY <1>9, <1>10 DEF KeyedRows
<1>12. ASSUME NEW z \in M, z.eligible PROVE \E x \in A : Twins(x, z) /\ IsEligible(A, x)
  <2>1. PICK x \in A : z = mark(x) /\ Twins(x, z)
    BY <1>8
  <2>2. z.eligible = IsEligible(A, x)
    BY <1>6, <2>1
  <2>3. IsEligible(A, x)
    BY <1>12, <2>2, ZenonT(30)
  <2> QED  BY <2>1, <2>3
<1> QED
  BY <1>1, <1>7, <1>9, <1>11, <1>12

OtherRows(pairs) == {With(EmptyRow(x[2]), "pair", x[1]) : x \in (Pairs \ pairs) \X Cells}
PaddedBy(M, others, above, p) == M \cup above \cup {[o EXCEPT !.p = p] : o \in others \ above}

LEMMA PairedEmpty ==
  ASSUME NEW q, NEW c, NEW o, o = Paired(q, EmptyRow(c))
  PROVE  o.pair = q /\ o.cell = c /\ o.p = 1000 /\ DOMAIN o = {"pair"} \cup RowFields
BY DEF Paired, With, EmptyRow, RowFields

\* The rows of the other pairs, with any probability, complete a family.
LEMMA PaddedKeyed ==
  ASSUME NEW pairs, pairs \subseteq Pairs, NEW M, KeyedRows(M),
         \A z \in M : z.pair \in pairs, \A z \in M : z.p \in Nat,
         NEW above, above \subseteq OtherRows(pairs), NEW p, p \in Nat,
         NEW B, B = PaddedBy(M, OtherRows(pairs), above, p)
  PROVE  KeyedRows(B) /\ \A t \in B : t.p \in Nat
<1> DEFINE others == OtherRows(pairs)
<1>1. ASSUME NEW o \in others
      PROVE  /\ DOMAIN o = {"pair"} \cup RowFields
             /\ o.pair \in Pairs \ pairs /\ o.cell \in Cells /\ o.p \in Nat /\ o = Paired(o.pair, EmptyRow(o.cell))
  <2>1. PICK x \in (Pairs \ pairs) \X Cells : o = With(EmptyRow(x[2]), "pair", x[1])
    BY DEF OtherRows
  <2> DEFINE q == x[1]
             c == x[2]
  <2>2. q \in Pairs \ pairs /\ c \in Cells
    OBVIOUS
  <2>3. o = Paired(q, EmptyRow(c))
    BY <2>1 DEF Paired
  <2> HIDE DEF q, c
  <2>4. o.pair = q /\ o.cell = c /\ o.p = 1000 /\ DOMAIN o = {"pair"} \cup RowFields
    BY <2>2, <2>3, PairedEmpty
  <2>5. o = Paired(o.pair, EmptyRow(o.cell))
    BY <2>3, <2>4
  <2> QED  BY <2>2, <2>4, <2>5
<1> DEFINE put(o) == [o EXCEPT !.p = p]
           raised == {put(o) : o \in others \ above}
<1>2. \A o \in others : put(o).pair = o.pair /\ put(o).cell = o.cell /\ put(o).p = p
  BY <1>1 DEF RowFields
<1>3. B = M \cup above \cup raised /\ above \subseteq others
  BY DEF PaddedBy
<1> HIDE DEF put, others
<1>4. \A y \in raised : \E o \in others : o \notin above /\ y = put(o) /\ y.pair = o.pair /\ y.cell = o.cell /\ y.p = p
  BY <1>2
<1> HIDE DEF raised
<1>5. \A o, t \in others : o.pair = t.pair /\ o.cell = t.cell => o = t
  BY <1>1
<1>6. /\ \A t \in M : t.pair \in pairs /\ t.cell \in Cells /\ t.p \in Nat
      /\ \A t \in above \cup raised : t.pair \in Pairs \ pairs /\ t.cell \in Cells /\ t.p \in Nat
  BY <1>1, <1>3, <1>4 DEF KeyedRows
<1>7. ASSUME NEW y \in B, NEW z \in B, y.pair = z.pair, y.cell = z.cell PROVE y = z
  <2>1. CASE y \in M
    <3>1. z \in M
      BY <1>3, <1>6, <1>7, <2>1
    <3> QED  BY <1>7, <2>1, <3>1 DEF KeyedRows
  <2>2. CASE y \in above
    <3>1. z \in above \cup raised
      BY <1>3, <1>6, <1>7, <2>2
    <3>2. z \notin raised
      BY <1>3, <1>4, <1>5, <1>7, <2>2
    <3> QED  BY <1>3, <1>5, <1>7, <2>2, <3>1, <3>2
  <2>3. CASE y \in raised
    <3>1. z \in above \cup raised
      BY <1>3, <1>6, <1>7, <2>3
    <3>2. z \notin above
      BY <1>3, <1>4, <1>5, <1>7, <2>3
    <3>3. z \in raised
      BY <3>1, <3>2
    <3> QED  BY <1>4, <1>5, <1>7, <2>3, <3>3
  <2> QED  BY <1>3, <2>1, <2>2, <2>3
<1> QED
  BY <1>3, <1>6, <1>7 DEF KeyedRows

\* A candidate of a summary of some pairs stays one beside the cells of the others,
\* whatever their probabilities: padding to the sealed family is enough (apply_holm_global).
THEOREM PaddingIsEnough == Spec => []PaddingSuffices
<1>1. StudyInv => PaddingSuffices
  <2> DEFINE pairs == summary.pairs
             others == {With(EmptyRow(x[2]), "pair", x[1]) : x \in (Pairs \ pairs) \X Cells}
             M == summary.rows
  <2> SUFFICES ASSUME StudyInv, summary.is = "open",
                      NEW r \in Eligible(summary), NEW p \in {0, 1, 10, 30},
                      NEW above \in {others} \cup {{o} : o \in others}
               PROVE  PAdjHolm(M \cup above \cup {[o EXCEPT !.p = p] : o \in others \ above}, r, FwerDenominator) < Alpha
    BY DEF PaddingSuffices
  <2>1. Built(world, summary)
    BY DEF StudyInv, SummarySound
  <2> PICK tables : \E list \in Seq(Pairs) :
        /\ \A q \in ToSet(list) : Exists(tables[q]) /\ CellsSound(world, q, tables[q])
        /\ summary = BuildSummary(tables, list)
    BY <2>1 DEF Built
  <2> PICK list \in Seq(Pairs) :
        /\ \A q \in ToSet(list) : Exists(tables[q]) /\ CellsSound(world, q, tables[q])
        /\ summary = BuildSummary(tables, list)
    OBVIOUS
  <2> DEFINE A == RowsOf(tables, pairs)
             B == M \cup above \cup {[o EXCEPT !.p = p] : o \in others \ above}
  <2>2. pairs = ToSet(list) /\ M = MarkedOf(A)
    BY BuildIs DEF Summary, MarkedOf
  <2>3. pairs \subseteq Pairs /\ \A q \in pairs : CellTable(tables[q].rows)
    BY <2>2 DEF ToSet, CellsSound
  <2>4. r \in M /\ r.eligible
    BY DEF Eligible
  <2>5. above \subseteq others /\ p \in Nat
    <3> HIDE DEF others
    <3> QED  OBVIOUS
  <2> HIDE DEF A, M, pairs
  <2>6. /\ KeyedRows(A) /\ KeyedRows(M) /\ Alike(A, M)
        /\ \A z \in M : z.pair \in pairs /\ z.p \in Nat
        /\ \A z \in M : z.eligible => \E x \in A : Twins(x, z) /\ IsEligible(A, x)
    <3>1. A = RowsOf(tables, pairs)
      BY DEF A
    <3>2. M = MarkedOf(A)
      BY <2>2
    <3> HIDE DEF B, others
    <3> QED  BY <2>3, <3>1, <3>2, MarkedRows
  <2>7. PICK x \in A : Twins(x, r) /\ IsEligible(A, x)
    BY <2>4, <2>6
  <2>8. PAdjHolm(M, r, FwerDenominator) < Alpha
    <3>1. PAdjHolm(A, x, FwerDenominator) < Alpha
      BY <2>7 DEF IsEligible
    <3>2. PAdjHolm(A, x, FwerDenominator) = PAdjHolm(M, r, FwerDenominator)
      BY <2>6, <2>7, AlikeHolm
    <3> QED  BY <3>1, <3>2
  <2>9. KeyedRows(B) /\ \A t \in B : t.p \in Nat
    <3>1. others = OtherRows(pairs)
      BY DEF OtherRows
    <3>2. B = PaddedBy(M, others, above, p)
      BY DEF PaddedBy
    <3> HIDE DEF B, others
    <3>3. B = PaddedBy(M, OtherRows(pairs), above, p) /\ above \subseteq OtherRows(pairs)
      BY <2>5, <3>1, <3>2
    <3>4. pairs \subseteq Pairs /\ KeyedRows(M) /\ p \in Nat
      BY <2>3, <2>5, <2>6
    <3>5. (\A z \in M : z.pair \in pairs) /\ (\A z \in M : z.p \in Nat)
      BY <2>6
    <3> QED  BY <3>3, <3>4, <3>5, PaddedKeyed
  <2>10. M \subseteq B
    OBVIOUS
  <2> HIDE DEF B, others
  <2>11. PAdjHolm(B, r, FwerDenominator) < Alpha
    BY <2>4, <2>8, <2>9, <2>10, HolmPadded
  <2> QED  BY <2>11 DEF B
<1> QED
  BY <1>1, StudySound, PTL
=============================================================================
