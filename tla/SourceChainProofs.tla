--------------------------- MODULE SourceChainProofs ---------------------------
(***************************************************************************)
(* Theorems of SourceChain: the book warnings of an audit are those of its *)
(* rows, whatever the rows, and the evidence the v5.2 reports rest on is   *)
(* evidence that was met.                                                  *)
(***************************************************************************)
EXTENDS SourceChain, FiniteSetTheorems, SequenceTheorems, WellFoundedInduction, TLAPS

(***************************************************************************)
(* Induction: a set of naturals that is not empty has a least member.      *)
(***************************************************************************)
LEMMA LeastNatural ==
  ASSUME NEW S, S \subseteq Nat, S # {}
  PROVE  \E x \in S : \A y \in S : x <= y
<1> DEFINE R == {ss \in Nat \X Nat : ss[1] < ss[2]}
<1>1. IsWellFoundedOn(R, Nat)
  BY NatLessThanWellFounded DEF OpToRel
<1>2. PICK x \in S : \A y \in S : <<y, x>> \notin R
  BY <1>1, WFMin
<1>3. ASSUME NEW y \in S PROVE x <= y
  <2>1. x \in Nat /\ y \in Nat
    OBVIOUS
  <2>2. ~(y < x)
    <3>1. SUFFICES ASSUME y < x PROVE FALSE
      OBVIOUS
    <3>2. <<y, x>> \in R
      BY <2>1, <3>1
    <3>3. QED BY <3>2, <1>2
  <2>3. QED BY <2>1, <2>2
<1>4. QED BY <1>3

(***************************************************************************)
(* InOrder enumerates a finite set in the order it is given.               *)
(***************************************************************************)
Orders(S, before) ==
  /\ \A i \in S : i \notin before[i]
  /\ \A i, j \in S : i # j => i \in before[j] \/ j \in before[i]
  /\ \A i, j \in S : j \in before[i] => before[j] \cap S \subseteq before[i]

LEMMA InOrderEnumerates ==
  ASSUME NEW S, IsFiniteSet(S), NEW before, Orders(S, before)
  PROVE  LET n == Cardinality(S)
             e == InOrder(S, before)
         IN /\ n \in Nat /\ e \in [1 .. n -> S]
            /\ \A i \in S : \E k \in 1 .. n : e[k] = i
            /\ \A j, k \in 1 .. n : e[j] \in before[e[k]] <=> j < k
<1> DEFINE n == Cardinality(S)
           e == InOrder(S, before)
           rank == [i \in S |-> Cardinality(before[i] \cap S)]
<1>1. n \in Nat
  BY FS_CardinalityType
<1>2. /\ \A i \in S : IsFiniteSet(before[i] \cap S)
      /\ \A i \in S : rank[i] \in Nat /\ rank[i] < n
  <2>1. SUFFICES ASSUME NEW i \in S
                 PROVE  IsFiniteSet(before[i] \cap S) /\ rank[i] \in Nat /\ rank[i] < n
    OBVIOUS
  <2>2. before[i] \cap S \in SUBSET S /\ before[i] \cap S # S
    BY DEF Orders
  <2>3. IsFiniteSet(before[i] \cap S) /\ Cardinality(before[i] \cap S) <= n
        /\ Cardinality(before[i] \cap S) # n
    BY <2>2, FS_Subset
  <2>4. Cardinality(before[i] \cap S) \in Nat
    BY <2>3, FS_CardinalityType
  <2> HIDE DEF n
  <2>5. QED BY <1>1, <2>3, <2>4
<1>3. \A i, j \in S : j \in before[i] => rank[j] < rank[i]
  <2>1. SUFFICES ASSUME NEW i \in S, NEW j \in S, j \in before[i] PROVE rank[j] < rank[i]
    OBVIOUS
  <2>2. before[j] \cap S \in SUBSET (before[i] \cap S) /\ before[j] \cap S # before[i] \cap S
    BY <2>1 DEF Orders
  <2>3. Cardinality(before[j] \cap S) <= Cardinality(before[i] \cap S)
        /\ Cardinality(before[j] \cap S) # Cardinality(before[i] \cap S)
    BY <1>2, <2>2, FS_Subset
  <2>4. rank[j] <= rank[i] /\ rank[j] # rank[i]
    BY <2>3
  <2> HIDE DEF rank, n
  <2>5. QED BY <1>1, <1>2, <2>4
<1>4. e = [k \in 1 .. n |-> CHOOSE i \in S : Cardinality(before[i] \cap S) = k - 1]
  BY DEF InOrder
<1>5. \A k : (CHOOSE i \in S : Cardinality(before[i] \cap S) = k - 1)
            = CHOOSE i \in S : rank[i] = k - 1
  OBVIOUS
<1> HIDE DEF rank, e, n
<1>6. \A i, j \in S : i # j => rank[i] # rank[j]
  <2>1. \A i, j \in S : i # j => i \in before[j] \/ j \in before[i]
    BY DEF Orders
  <2>2. \A i \in S : rank[i] \in Int
    BY <1>1, <1>2
  <2>3. QED BY <1>3, <2>1, <2>2
<1>7. \A k \in 1 .. n : \E i \in S : rank[i] = k - 1
  <2> DEFINE f == [i \in S |-> rank[i] + 1]
  <2>1. f \in [S -> 1 .. n]
    BY <1>1, <1>2
  <2>2. \A i, j \in S : f[i] = f[j] => i = j
    BY <1>1, <1>2, <1>6
  <2>3. f \in Injection(S, 1 .. n)
    <3> HIDE DEF f
    <3>1. QED BY <2>1, <2>2 DEF Injection, IsInjective
  <2>4. IsFiniteSet(1 .. n) /\ Cardinality(1 .. n) = Cardinality(S)
    BY <1>1, FS_Interval DEF n
  <2>5. f \in Surjection(S, 1 .. n)
    BY <2>3, <2>4, FS_Injection
  <2>6. \A k \in 1 .. n : \E i \in S : f[i] = k
    BY <2>5 DEF Surjection
  <2>7. \A i \in S : f[i] = rank[i] + 1
    OBVIOUS
  <2> HIDE DEF f
  <2>8. TAKE k \in 1 .. n
  <2>9. PICK i \in S : f[i] = k
    BY <2>6
  <2>10. rank[i] + 1 = k /\ rank[i] \in Nat
    BY <1>2, <2>7, <2>9
  <2>11. QED BY <1>1, <2>10
<1>8. \A k \in 1 .. n : e[k] \in S /\ rank[e[k]] = k - 1
  <2>1. TAKE k \in 1 .. n
  <2>2. e[k] = CHOOSE i \in S : rank[i] = k - 1
    BY <1>4, <1>5
  <2>3. QED BY <1>7, <2>2
<1>9. e \in [1 .. n -> S]
  BY <1>4, <1>8
<1>10. \A i \in S : \E k \in 1 .. n : e[k] = i
  <2>1. TAKE i \in S
  <2>2. rank[i] + 1 \in 1 .. n /\ rank[e[rank[i] + 1]] = rank[i]
    BY <1>1, <1>2, <1>8
  <2>3. QED BY <1>6, <1>8, <2>2
<1>11. \A j, k \in 1 .. n : e[j] \in before[e[k]] <=> j < k
  <2>1. TAKE j, k \in 1 .. n
  <2>2. e[j] \in S /\ e[k] \in S /\ rank[e[j]] = j - 1 /\ rank[e[k]] = k - 1
    BY <1>8
  <2>3. e[j] \in before[e[k]] => j < k
    BY <1>3, <2>2, <1>1
  <2>4. j < k => e[j] # e[k] /\ ~(e[k] \in before[e[j]])
    BY <1>1, <1>3, <2>2
  <2>5. QED BY <2>2, <2>3, <2>4 DEF Orders
<1>12. QED BY <1>1, <1>9, <1>10, <1>11 DEF n, e

(***************************************************************************)
(* The loop over the book, row by row.                                     *)
(***************************************************************************)
Walk(book, rows) ==
  book = [k \in 0 .. Len(rows) |-> IF k = 0 THEN Book ELSE BookStep(book[k - 1], rows[k])]

\* The recursion of BookAfter has a solution: the book after every row.
LEMMA BookWalks ==
  ASSUME NEW rows, Len(rows) \in Nat
  PROVE  \E book : Walk(book, rows) /\ BookAfter(rows) = book[Len(rows)]
<1> DEFINE n == Len(rows)
           Part(m, f) == f = [k \in 0 .. m |-> IF k = 0 THEN Book ELSE BookStep(f[k - 1], rows[k])]
           Bad == {m \in 0 .. n : ~ \E f : Part(m, f)}
<1>1. Bad = {}
  <2>1. SUFFICES ASSUME Bad # {} PROVE FALSE
    OBVIOUS
  <2>2. PICK m \in Bad : \A y \in Bad : m <= y
    <3> HIDE DEF Part
    <3>1. Bad \subseteq Nat
      OBVIOUS
    <3>2. QED BY <2>1, <3>1, LeastNatural
  <2>3. CASE m = 0
    <3>1. Part(m, [k \in 0 .. m |-> Book])
      BY <2>3
    <3>2. QED BY <3>1, <2>2
  <2>4. CASE m # 0
    <3>1. m - 1 \in 0 .. n /\ m \in Nat \ {0}
      BY <2>2, <2>4
    <3>2. PICK g : Part(m - 1, g)
      <4> HIDE DEF Part
      <4>1. m - 1 \notin Bad
        BY <3>1, <2>2
      <4>2. QED BY <3>1, <4>1
    <3> DEFINE h == [k \in 0 .. m |-> IF k = m THEN BookStep(g[k - 1], rows[k]) ELSE g[k]]
    <3>3. ASSUME NEW k \in 0 .. m
          PROVE  h[k] = IF k = 0 THEN Book ELSE BookStep(h[k - 1], rows[k])
      <4>1. CASE k = m
        BY <4>1, <3>1
      <4>2. CASE k # m /\ k = 0
        BY <4>2, <3>1, <3>2
      <4>3. CASE k # m /\ k # 0
        <5>1. g[k] = BookStep(g[k - 1], rows[k])
          BY <4>3, <3>1, <3>2
        <5>2. h[k - 1] = g[k - 1] /\ h[k] = g[k]
          BY <4>3, <3>1
        <5>3. QED BY <5>1, <5>2, <4>3
      <4>4. QED BY <4>1, <4>2, <4>3
    <3>4. Part(m, h)
      BY <3>3
    <3>5. QED BY <3>4, <2>2
  <2>5. QED BY <2>3, <2>4
<1>2. \E f : Part(n, f)
  <2> HIDE DEF Part
  <2>1. QED BY <1>1
<1> DEFINE book == CHOOSE f : Part(n, f)
<1>3. Part(n, book)
  <2> HIDE DEF Part
  <2>1. QED BY <1>2
<1>4. BookAfter(rows) = book[n]
  BY DEF BookAfter
<1>5. QED BY <1>3, <1>4 DEF Walk

CrossedAt(t, k) ==
  t[k].side = "ask" /\ \E j \in 1 .. k - 1 : t[j].side = "bid" /\ t[j].price > t[k].price
LockedAt(t, k) ==
  /\ t[k].side = "ask" /\ ~CrossedAt(t, k)
  /\ \E j \in 1 .. k - 1 : t[j].side = "bid" /\ t[j].price = t[k].price

\* What the loop holds after k rows: the best bid, and the rows counted so far.
BookOK(b, t, k) ==
  /\ b \in [bid : Nat, crossed : Nat, locked : Nat]
  /\ \A j \in 1 .. k : t[j].side = "bid" => t[j].price <= b.bid
  /\ b.bid # 0 => \E j \in 1 .. k : t[j].side = "bid" /\ t[j].price = b.bid
  /\ b.crossed = Cardinality({j \in 1 .. k : CrossedAt(t, j)})
  /\ b.locked = Cardinality({j \in 1 .. k : LockedAt(t, j)})

LEMMA CountOneMore ==
  ASSUME NEW k \in Nat \ {0}, NEW S \in SUBSET (1 .. k)
  PROVE  LET T == {j \in 1 .. k - 1 : j \in S}
         IN /\ Cardinality(T) \in Nat
            /\ Cardinality(S) = Cardinality(T) + (IF k \in S THEN 1 ELSE 0)
<1> DEFINE T == {j \in 1 .. k - 1 : j \in S}
<1>1. IsFiniteSet(1 .. k - 1) /\ T \in SUBSET (1 .. k - 1) /\ k \notin T
  BY FS_Interval
<1>2. IsFiniteSet(T)
  BY <1>1, FS_Subset
<1>3. /\ k \in S => S = T \cup {k}
      /\ k \notin S => S = T
  <2>1. \A j \in 1 .. k : j = k \/ j \in 1 .. k - 1
    OBVIOUS
  <2>2. QED BY <2>1
<1> HIDE DEF T
<1>4. Cardinality(T) \in Nat
  BY <1>2, FS_CardinalityType
<1>5. Cardinality(T \cup {k}) = Cardinality(T) + 1
  BY <1>1, <1>2, FS_AddElement
<1>6. QED BY <1>3, <1>4, <1>5 DEF T

LEMMA BookStepCounts ==
  ASSUME NEW t, NEW k \in Nat \ {0}, NEW b,
         \A j \in 1 .. k : t[j].side \in {"bid", "ask"} /\ t[j].price \in Nat \ {0},
         BookOK(b, t, k - 1)
  PROVE  BookOK(BookStep(b, t[k]), t, k)
<1> DEFINE X == {j \in 1 .. k : CrossedAt(t, j)}
           L == {j \in 1 .. k : LockedAt(t, j)}
           row == t[k]
           new == BookStep(b, row)
<1>1. /\ Cardinality(X) = b.crossed + (IF CrossedAt(t, k) THEN 1 ELSE 0)
      /\ Cardinality(L) = b.locked + (IF LockedAt(t, k) THEN 1 ELSE 0)
  <2>1. X \in SUBSET (1 .. k) /\ L \in SUBSET (1 .. k)
    OBVIOUS
  <2>2. /\ {j \in 1 .. k - 1 : j \in X} = {j \in 1 .. k - 1 : CrossedAt(t, j)}
        /\ {j \in 1 .. k - 1 : j \in L} = {j \in 1 .. k - 1 : LockedAt(t, j)}
    OBVIOUS
  <2>3. (k \in X <=> CrossedAt(t, k)) /\ (k \in L <=> LockedAt(t, k))
    OBVIOUS
  <2> HIDE DEF X, L
  <2>4. /\ Cardinality(X) = Cardinality({j \in 1 .. k - 1 : j \in X}) + (IF k \in X THEN 1 ELSE 0)
        /\ Cardinality(L) = Cardinality({j \in 1 .. k - 1 : j \in L}) + (IF k \in L THEN 1 ELSE 0)
    BY <2>1, CountOneMore
  <2>5. QED BY <2>2, <2>3, <2>4 DEF BookOK
<1>2. b \in [bid : Nat, crossed : Nat, locked : Nat] /\ row.price \in Nat \ {0}
      /\ row.side \in {"bid", "ask"}
  BY DEF BookOK
<1>3. CASE row.side = "bid"
  <2>1. new = [b EXCEPT !.bid = IF row.price > b.bid THEN row.price ELSE b.bid]
    BY <1>3 DEF BookStep
  <2>2. /\ new \in [bid : Nat, crossed : Nat, locked : Nat]
        /\ new.bid = IF row.price > b.bid THEN row.price ELSE b.bid
        /\ new.crossed = b.crossed /\ new.locked = b.locked
    <3> HIDE DEF row
    <3>1. QED BY <1>2, <2>1
  <2>3. ~CrossedAt(t, k) /\ ~LockedAt(t, k)
    BY <1>3 DEF CrossedAt, LockedAt
  <2>4. \A j \in 1 .. k : t[j].side = "bid" => t[j].price <= new.bid
    <3>1. TAKE j \in 1 .. k
    <3> HIDE DEF new
    <3>2. CASE j = k
      BY <1>2, <2>2, <3>2
    <3>3. CASE j # k
      BY <1>2, <2>2, <3>3 DEF BookOK
    <3>4. QED BY <3>2, <3>3
  <2>5. \E j \in 1 .. k : t[j].side = "bid" /\ t[j].price = new.bid
    <3> HIDE DEF new
    <3>1. CASE row.price > b.bid
      BY <1>3, <2>2, <3>1
    <3>2. CASE ~(row.price > b.bid)
      <4>1. b.bid # 0 /\ new.bid = b.bid
        BY <1>2, <2>2, <3>2
      <4>2. QED BY <4>1 DEF BookOK
    <3>3. QED BY <3>1, <3>2
  <2> HIDE DEF new
  <2>6. QED BY <1>1, <1>2, <2>2, <2>3, <2>4, <2>5 DEF BookOK, new
<1>4. CASE row.side = "ask"
  <2>1. new = [b EXCEPT !.crossed = b.crossed + Count(row.price < b.bid),
                        !.locked = b.locked + Count(row.price = b.bid)]
    BY <1>4 DEF BookStep
  <2>2. /\ new \in [bid : Nat, crossed : Nat, locked : Nat]
        /\ new.bid = b.bid
        /\ new.crossed = b.crossed + (IF row.price < b.bid THEN 1 ELSE 0)
        /\ new.locked = b.locked + (IF row.price = b.bid THEN 1 ELSE 0)
    <3> DEFINE c == b.crossed + Count(row.price < b.bid)
               l == b.locked + Count(row.price = b.bid)
    <3>1. /\ c = b.crossed + (IF row.price < b.bid THEN 1 ELSE 0)
          /\ l = b.locked + (IF row.price = b.bid THEN 1 ELSE 0)
          /\ new = [b EXCEPT !.crossed = c, !.locked = l]
      BY <2>1 DEF Count
    <3> HIDE DEF row, c, l, new
    <3>2. c \in Nat /\ l \in Nat
      BY <1>2, <3>1
    <3>3. new \in [bid : Nat, crossed : Nat, locked : Nat]
          /\ new.bid = b.bid /\ new.crossed = c /\ new.locked = l
      BY <1>2, <3>1, <3>2
    <3>4. QED BY <3>1, <3>3
  <2>3. CrossedAt(t, k) <=> row.price < b.bid
    BY <1>2, <1>4 DEF CrossedAt, BookOK
  <2>4. LockedAt(t, k) <=> row.price = b.bid
    BY <1>2, <1>4, <2>3 DEF LockedAt, BookOK
  <2>5. \A j \in 1 .. k : t[j].side = "bid" => j \in 1 .. k - 1
    BY <1>4
  <2> HIDE DEF new
  <2>6. QED BY <1>1, <1>2, <2>2, <2>3, <2>4, <2>5 DEF BookOK, new
<1>5. QED BY <1>2, <1>3, <1>4

\* The loop's counts are those of the rows it went through.
LEMMA BookAfterCounts ==
  ASSUME NEW t, Len(t) \in Nat,
         \A j \in 1 .. Len(t) : t[j].side \in {"bid", "ask"} /\ t[j].price \in Nat \ {0}
  PROVE  BookOK(BookAfter(t), t, Len(t))
<1> DEFINE n == Len(t)
<1>1. PICK book : Walk(book, t) /\ BookAfter(t) = book[n]
  BY BookWalks
<1> DEFINE Bad == {k \in 0 .. n : ~BookOK(book[k], t, k)}
<1>2. Bad = {}
  <2>1. SUFFICES ASSUME Bad # {} PROVE FALSE
    OBVIOUS
  <2>2. PICK k \in Bad : \A y \in Bad : k <= y
    <3>1. Bad \subseteq Nat
      OBVIOUS
    <3>2. QED BY <2>1, <3>1, LeastNatural
  <2>3. k # 0
    <3>1. book[0] = [bid |-> 0, crossed |-> 0, locked |-> 0]
      BY <1>1 DEF Walk, Book
    <3>2. /\ {j \in 1 .. 0 : CrossedAt(t, j)} = {}
          /\ {j \in 1 .. 0 : LockedAt(t, j)} = {}
      OBVIOUS
    <3>3. BookOK(book[0], t, 0)
      BY <3>1, <3>2, FS_EmptySet DEF BookOK
    <3>4. QED BY <3>3
  <2>4. k - 1 \in 0 .. n /\ k \in Nat \ {0} /\ k \in 1 .. n
    BY <2>2, <2>3
  <2>5. BookOK(book[k - 1], t, k - 1)
    BY <2>2, <2>4
  <2>6. book[k] = BookStep(book[k - 1], t[k])
    BY <1>1, <2>4 DEF Walk
  <2>7. BookOK(book[k], t, k)
    BY <2>4, <2>5, <2>6, BookStepCounts
  <2>8. QED BY <2>2, <2>7
<1>3. QED BY <1>1, <1>2

(***************************************************************************)
(* The rows that pass, and the order of time.                              *)
(***************************************************************************)
\* A row without a fault has a side of the book and a price.
LEMMA PassedRow ==
  ASSUME NEW row \in Rows, L2Faults(row) = <<>>
  PROVE  row.side \in DOMAIN L2SideMap /\ row.price > 0
<1> DEFINE Faults == {"timestamp", "side", "price", "amount"}
           a == IF row.at = 0 THEN <<"timestamp">> ELSE <<>>
           s == IF row.side \notin DOMAIN L2SideMap THEN <<"side">> ELSE <<>>
           p == IF row.price <= 0 THEN <<"price">> ELSE <<>>
           m == IF row.amount < 0 THEN <<"amount">> ELSE <<>>
<1>1. a \in Seq(Faults) /\ s \in Seq(Faults) /\ p \in Seq(Faults) /\ m \in Seq(Faults)
  <2>1. \A x \in Faults : <<x>> \in Seq(Faults)
    <3> HIDE DEF Faults
    <3>1. QED OBVIOUS
  <2>2. /\ <<"timestamp">> \in Seq(Faults) /\ <<"side">> \in Seq(Faults)
        /\ <<"price">> \in Seq(Faults) /\ <<"amount">> \in Seq(Faults) /\ <<>> \in Seq(Faults)
    BY <2>1
  <2> HIDE DEF Faults
  <2>3. QED BY <2>2
<1>2. ((a \o s) \o p) \o m = <<>>
  BY DEF L2Faults
<1>3. (s = <<>> => row.side \in DOMAIN L2SideMap) /\ (p = <<>> => ~(row.price <= 0))
  <2>1. <<"side">> # <<>> /\ <<"price">> # <<>>
    OBVIOUS
  <2>2. QED BY <2>1
<1>4. s = <<>> /\ p = <<>>
  <2> HIDE DEF Faults, a, s, p, m
  <2>1. a \o s \in Seq(Faults) /\ (a \o s) \o p \in Seq(Faults)
    BY <1>1, ConcatProperties
  <2>2. (a \o s) \o p = <<>>
    BY <1>1, <1>2, <2>1, ConcatSimplifications
  <2>3. a \o s = <<>> /\ p = <<>>
    BY <1>1, <2>1, <2>2, ConcatSimplifications
  <2>4. s = <<>>
    BY <1>1, <2>3, ConcatSimplifications
  <2>5. QED BY <2>3, <2>4
<1>5. row.price \in Int
  BY DEF Rows
<1>6. QED BY <1>3, <1>4, <1>5

BookRows == [at : Int, side : {"bid", "ask"}, price : Nat \ {0}, amount : Int]

LEMMA NormalizedRows ==
  ASSUME NEW l2 \in Seq(Rows)
  PROVE  NormalizeL2(l2).rows \in Seq(BookRows)
<1> DEFINE faults == [i \in DOMAIN l2 |-> L2Faults(l2[i])]
           sides == [i \in DOMAIN l2 |-> L2SideMap[l2[i].side]]
           failed == {i \in DOMAIN l2 : faults[i] # <<>>}
           ok == DOMAIN l2 \ failed
           before == [i \in DOMAIN l2 |-> 1 .. i - 1]
           passed == InOrder(ok, before)
           n == Cardinality(ok)
           rows == [k \in DOMAIN passed |-> [l2[passed[k]] EXCEPT !.side = sides[passed[k]]]]
<1>1. NormalizeL2(l2).rows = rows
  BY DEF NormalizeL2, Result
<1>2. DOMAIN l2 = 1 .. Len(l2) /\ Len(l2) \in Nat
  OBVIOUS
<1>3. IsFiniteSet(ok)
  <2>1. ok \in SUBSET (1 .. Len(l2))
    BY <1>2
  <2> HIDE DEF ok
  <2>2. IsFiniteSet(1 .. Len(l2))
    BY <1>2, FS_Interval
  <2>3. QED BY <2>1, <2>2, FS_Subset
<1>4. Orders(ok, before)
  BY <1>2 DEF Orders
<1>5. n \in Nat /\ passed \in [1 .. n -> ok]
  <2> HIDE DEF ok, before
  <2>1. QED BY <1>3, <1>4, InOrderEnumerates
<1>6. ASSUME NEW i \in ok PROVE [l2[i] EXCEPT !.side = sides[i]] \in BookRows
  <2>1. i \in DOMAIN l2 /\ l2[i] \in Rows /\ L2Faults(l2[i]) = <<>>
    BY <1>2
  <2>2. l2[i].side \in DOMAIN L2SideMap /\ l2[i].price > 0
    BY <2>1, PassedRow
  <2>3. sides[i] \in {"bid", "ask"}
    BY <2>1, <2>2 DEF L2SideMap
  <2> DEFINE side == sides[i]
             row == l2[i]
  <2>4. row \in [at : Int, side : STRING, price : Int, amount : Int] /\ row.price > 0
    BY <2>1, <2>2 DEF Rows
  <2> HIDE DEF side, row
  <2>5. [row EXCEPT !.side = side] \in [at : Int, side : {"bid", "ask"}, price : Nat \ {0}, amount : Int]
    BY <2>3, <2>4 DEF side
  <2>6. QED BY <2>5 DEF BookRows, side, row
<1>7. rows \in [1 .. n -> BookRows]
  <2>1. DOMAIN passed = 1 .. n /\ \A k \in 1 .. n : passed[k] \in ok
    <3> HIDE DEF ok, passed
    <3>1. QED BY <1>5
  <2> HIDE DEF ok, passed, n, sides
  <2>2. QED BY <1>6, <2>1
<1>8. rows \in Seq(BookRows)
  <2> HIDE DEF rows, n
  <2>1. QED BY <1>5, <1>7, SeqDef
<1>9. QED BY <1>1, <1>8

\* A reordering keeps the number of those it carries over.
Reorders(e, n) ==
  /\ e \in [1 .. n -> 1 .. n]
  /\ \A j, k \in 1 .. n : e[j] = e[k] => j = k
  /\ \A i \in 1 .. n : \E k \in 1 .. n : e[k] = i
Carries(e, n, X, Y) ==
  /\ X \in SUBSET (1 .. n) /\ Y \in SUBSET (1 .. n)
  /\ \A k \in 1 .. n : k \in X <=> e[k] \in Y

LEMMA SameCount ==
  ASSUME NEW n \in Nat, NEW e, Reorders(e, n), NEW X, NEW Y, Carries(e, n, X, Y)
  PROVE  Cardinality(X) = Cardinality(Y)
<1> DEFINE g == [k \in X |-> e[k]]
<1>1. g \in [X -> Y] /\ \A j, k \in X : g[j] = g[k] => j = k
  BY DEF Reorders, Carries
<1>2. \A y \in Y : \E k \in X : g[k] = y
  BY DEF Reorders, Carries
<1>3. IsFiniteSet(X)
  <2>1. IsFiniteSet(1 .. n)
    BY FS_Interval
  <2>2. QED BY <2>1, FS_Subset DEF Carries
<1> HIDE DEF g
<1>4. g \in Bijection(X, Y)
  BY <1>1, <1>2 DEF Bijection, Injection, Surjection, IsInjective
<1>5. QED BY <1>3, <1>4, FS_Bijection DEF ExistsBijection

\* The warnings of an audit, counted by the loop over the sorted rows, are those of the
\* rows by the definition of the property (audit_normalized_rows).
LEMMA WarningsCounted ==
  ASSUME NEW rows \in Seq(BookRows)
  PROVE  LET b == BookAfter(InTime(rows))
         IN /\ b.crossed = Cardinality(CrossedAsks(rows))
            /\ b.locked = Cardinality(LockedAsks(rows))
<1> DEFINE n == Len(rows)
           before == Earlier(rows)
           e == InOrder(1 .. n, before)
           t == InTime(rows)
<1>1. n \in Nat /\ DOMAIN rows = 1 .. n /\ \A i \in 1 .. n : rows[i] \in BookRows
  OBVIOUS
<1>2. \A i, j \in 1 .. n : j \in before[i] <=>
         rows[j].at < rows[i].at \/ (rows[j].at = rows[i].at /\ j < i)
  <2>1. before = [i \in 1 .. n |-> {j \in 1 .. n :
           rows[j].at < rows[i].at \/ (rows[j].at = rows[i].at /\ j < i)}]
    BY <1>1 DEF Earlier
  <2> HIDE DEF before, n
  <2>2. QED BY <2>1
<1>3. \A i \in 1 .. n : rows[i].at \in Int /\ rows[i].side \in {"bid", "ask"}
                       /\ rows[i].price \in Nat \ {0}
  BY <1>1 DEF BookRows
<1>4. Orders(1 .. n, before)
  <2> HIDE DEF n, before
  <2>1. \A i \in 1 .. n : i \notin before[i]
    BY <1>1, <1>2, <1>3
  <2>2. \A i, j \in 1 .. n : i # j => i \in before[j] \/ j \in before[i]
    BY <1>1, <1>2, <1>3
  <2>3. \A i, j, k \in 1 .. n : j \in before[i] /\ k \in before[j] => k \in before[i]
    <3>1. SUFFICES ASSUME NEW i \in 1 .. n, NEW j \in 1 .. n, NEW k \in 1 .. n,
                          j \in before[i], k \in before[j]
                   PROVE  k \in before[i]
      OBVIOUS
    <3>2. /\ rows[j].at < rows[i].at \/ (rows[j].at = rows[i].at /\ j < i)
          /\ rows[k].at < rows[j].at \/ (rows[k].at = rows[j].at /\ k < j)
      BY <1>2, <3>1
    <3>3. i \in Int /\ j \in Int /\ k \in Int
          /\ rows[i].at \in Int /\ rows[j].at \in Int /\ rows[k].at \in Int
      BY <1>1, <1>3
    <3>4. rows[k].at < rows[i].at \/ (rows[k].at = rows[i].at /\ k < i)
      BY <3>2, <3>3
    <3>5. QED BY <1>2, <3>4
  <2>4. QED BY <2>1, <2>2, <2>3 DEF Orders
<1>5. IsFiniteSet(1 .. n) /\ Cardinality(1 .. n) = n
  <2> HIDE DEF n
  <2>1. QED BY <1>1, FS_Interval
<1>6. /\ e \in [1 .. n -> 1 .. n]
      /\ \A i \in 1 .. n : \E k \in 1 .. n : e[k] = i
      /\ \A j, k \in 1 .. n : e[j] \in before[e[k]] <=> j < k
  <2> HIDE DEF n, before
  <2>1. QED BY <1>4, <1>5, InOrderEnumerates DEF e
<1>7. t = [k \in 1 .. n |-> rows[e[k]]]
  <2>1. DOMAIN e = 1 .. n
    <3> HIDE DEF e
    <3>1. QED BY <1>6
  <2>2. t = [k \in DOMAIN e |-> rows[e[k]]]
    BY <1>1 DEF InTime
  <2>3. QED BY <2>1, <2>2
<1> HIDE DEF n, before, e, t
<1>8. \A j, k \in 1 .. n : e[j] = e[k] => j = k
  <2>1. SUFFICES ASSUME NEW j \in 1 .. n, NEW k \in 1 .. n, e[j] = e[k] PROVE j = k
    OBVIOUS
  <2>2. /\ e[j] \in before[e[j]] <=> j < j
        /\ e[j] \in before[e[k]] <=> j < k
        /\ e[k] \in before[e[j]] <=> k < j
    BY <1>6
  <2>3. ~(j < k) /\ ~(k < j)
    BY <1>1, <2>1, <2>2
  <2>4. QED BY <1>1, <2>3
<1>9. t \in Seq(BookRows) /\ Len(t) = n
  <2>1. t \in [1 .. n -> BookRows]
    BY <1>1, <1>6, <1>7
  <2>2. t \in Seq(BookRows)
    BY <1>1, <2>1, SeqDef
  <2>3. QED BY <1>1, <2>1, <2>2
<1>10. \A k \in 1 .. n : t[k] = rows[e[k]] /\ e[k] \in 1 .. n
  BY <1>6, <1>7
<1>11. BookOK(BookAfter(t), t, n)
  BY <1>1, <1>3, <1>9, <1>10, BookAfterCounts
<1>12. \A k \in 1 .. n : BidsBefore(rows, e[k]) = {t[j].price : j \in {i \in 1 .. k - 1 : t[i].side = "bid"}}
  <2>1. TAKE k \in 1 .. n
  <2>2. BidsBefore(rows, e[k]) = {rows[j].price : j \in {i \in 1 .. n : rows[i].side = "bid" /\ i \in before[e[k]]}}
    <3>1. \A i \in 1 .. n : i \in before[e[k]] <=> \/ rows[i].at < rows[e[k]].at
                                                  \/ (rows[i].at = rows[e[k]].at /\ i < e[k])
      BY <1>2, <1>10
    <3>2. DOMAIN rows = 1 .. n
      BY <1>1
    <3>3. {i \in DOMAIN rows : /\ rows[i].side = "bid"
                              /\ \/ rows[i].at < rows[e[k]].at
                                 \/ rows[i].at = rows[e[k]].at /\ i < e[k]}
          = {i \in 1 .. n : rows[i].side = "bid" /\ i \in before[e[k]]}
      BY <3>1, <3>2
    <3>4. QED BY <3>3 DEF BidsBefore
  <2>3. ASSUME NEW j \in 1 .. n, rows[j].side = "bid", j \in before[e[k]]
        PROVE  \E i \in 1 .. k - 1 : t[i].side = "bid" /\ t[i].price = rows[j].price
    <3>1. PICK i \in 1 .. n : e[i] = j
      BY <1>6
    <3>2. i < k
      BY <1>6, <2>3, <3>1
    <3>3. QED BY <1>1, <1>10, <2>3, <3>1, <3>2
  <2>4. ASSUME NEW i \in 1 .. k - 1, t[i].side = "bid"
        PROVE  \E j \in 1 .. n : rows[j].side = "bid" /\ j \in before[e[k]] /\ rows[j].price = t[i].price
    <3>1. i \in 1 .. n /\ i < k
      BY <1>1
    <3>2. e[i] \in before[e[k]]
      BY <1>6, <3>1
    <3>3. QED BY <1>10, <2>4, <3>1, <3>2
  <2>5. QED BY <2>2, <2>3, <2>4
<1> DEFINE X == {k \in 1 .. n : CrossedAt(t, k)}
           L == {k \in 1 .. n : LockedAt(t, k)}
<1>13. \A k \in 1 .. n : CrossedAt(t, k) <=> e[k] \in CrossedAsks(rows)
  <2>1. TAKE k \in 1 .. n
  <2>2. CrossedAt(t, k) <=> t[k].side = "ask" /\ \E b \in BidsBefore(rows, e[k]) : b > t[k].price
    BY <1>12, ZenonT(30) DEF CrossedAt
  <2>3. QED BY <1>1, <1>10, <2>2 DEF CrossedAsks, Asks
<1>14. \A k \in 1 .. n : LockedAt(t, k) <=> e[k] \in LockedAsks(rows)
  <2>1. TAKE k \in 1 .. n
  <2>2. LockedAt(t, k) <=> /\ t[k].side = "ask" /\ ~CrossedAt(t, k)
                           /\ t[k].price \in BidsBefore(rows, e[k])
    BY <1>12 DEF LockedAt
  <2>3. QED BY <1>1, <1>10, <1>13, <2>2 DEF LockedAsks, Asks
<1>15. CrossedAsks(rows) \in SUBSET (1 .. n) /\ LockedAsks(rows) \in SUBSET (1 .. n)
  BY <1>1 DEF CrossedAsks, LockedAsks, Asks
<1>16. /\ X \in SUBSET (1 .. n) /\ L \in SUBSET (1 .. n)
       /\ \A k \in 1 .. n : k \in X <=> e[k] \in CrossedAsks(rows)
       /\ \A k \in 1 .. n : k \in L <=> e[k] \in LockedAsks(rows)
  BY <1>13, <1>14
<1> HIDE DEF X, L
<1>17. Cardinality(X) = Cardinality(CrossedAsks(rows)) /\ Cardinality(L) = Cardinality(LockedAsks(rows))
  <2>1. Reorders(e, n)
    BY <1>6, <1>8 DEF Reorders
  <2>2. Carries(e, n, X, CrossedAsks(rows)) /\ Carries(e, n, L, LockedAsks(rows))
    BY <1>15, <1>16 DEF Carries
  <2>3. QED BY <1>1, <2>1, <2>2, SameCount
<1>18. QED BY <1>11, <1>17 DEF BookOK, X, L, t

(***************************************************************************)
(* Sequences and what is in them.                                          *)
(***************************************************************************)
IsSeq(s) == s \in Seq(ToSet(s))

LEMMA ToSetOfTail ==
  ASSUME NEW s, IsSeq(s), s # <<>>
  PROVE  /\ IsSeq(Tail(s)) /\ Head(s) \in ToSet(s)
         /\ ToSet(s) = {Head(s)} \cup ToSet(Tail(s))
         /\ Tail(s) # <<>> => Tail(s)[Len(Tail(s))] = s[Len(s)]
         /\ Tail(s) = <<>> => Head(s) = s[Len(s)]
<1> DEFINE t == Tail(s)
           n == Len(s)
<1>1. s \in Seq(ToSet(s)) /\ DOMAIN s = 1 .. n /\ n \in Nat \ {0}
  BY DEF IsSeq
<1>2. /\ Head(s) = s[1] /\ t \in Seq(ToSet(s)) /\ Len(t) = n - 1
      /\ \A i \in 1 .. n - 1 : t[i] = s[i + 1]
      /\ DOMAIN t = 1 .. n - 1
  BY <1>1
<1>3. t = <<>> => Len(t) = 0
  <2> HIDE DEF t
  <2>1. QED OBVIOUS
<1> HIDE DEF t, n
<1>4. \A i \in 1 .. n : i = 1 \/ (i - 1 \in 1 .. n - 1 /\ s[i] = t[i - 1])
  BY <1>1, <1>2
<1>5. \A i \in 1 .. n - 1 : i + 1 \in 1 .. n
  BY <1>1
<1>6. ToSet(s) = {s[i] : i \in 1 .. n} /\ ToSet(t) = {t[i] : i \in 1 .. n - 1}
  BY <1>1, <1>2 DEF ToSet
<1>7. ToSet(s) = {s[1]} \cup ToSet(t)
  <2>1. ASSUME NEW x \in ToSet(s) PROVE x = s[1] \/ x \in ToSet(t)
    <3>1. PICK i \in 1 .. n : x = s[i]
      BY <1>6
    <3>2. QED BY <1>4, <1>6, <3>1
  <2>2. s[1] \in ToSet(s)
    BY <1>1, <1>6
  <2>3. \A x \in ToSet(t) : x \in ToSet(s)
    BY <1>2, <1>5, <1>6
  <2>4. QED BY <2>1, <2>2, <2>3
<1>8. t \in Seq(ToSet(t))
  <2>1. \A i \in 1 .. n - 1 : t[i] \in ToSet(t)
    BY <1>6
  <2>2. t \in [1 .. n - 1 -> ToSet(s)]
    BY <1>1, <1>2
  <2>3. t \in [1 .. n - 1 -> ToSet(t)]
    BY <2>1, <2>2
  <2>4. n - 1 \in Nat
    BY <1>1
  <2>5. QED BY <2>3, <2>4, SeqDef
<1>9. t # <<>> => n - 1 \in 1 .. n - 1
  <2>1. n - 1 = 0 => t = <<>>
    BY <1>2
  <2>2. QED BY <1>1, <2>1
<1>10. QED BY <1>1, <1>2, <1>3, <1>7, <1>8, <1>9 DEF IsSeq, t, n

LEMMA ToSetOfAppend ==
  ASSUME NEW s, IsSeq(s), NEW x
  PROVE  IsSeq(Append(s, x)) /\ ToSet(Append(s, x)) = ToSet(s) \cup {x}
<1> DEFINE T == ToSet(s) \cup {x}
           t == Append(s, x)
<1>1. s \in Seq(T) /\ x \in T
  <2>1. s \in Seq(ToSet(s)) /\ ToSet(s) \subseteq T
    BY DEF IsSeq
  <2> HIDE DEF T
  <2>2. s \in Seq(T)
    BY <2>1, SeqMonotonic
  <2>3. QED BY <2>2 DEF T
<1>2. /\ t \in Seq(T) /\ Len(t) = Len(s) + 1 /\ t[Len(s) + 1] = x
      /\ \A i \in 1 .. Len(s) : t[i] = s[i]
      /\ DOMAIN t = 1 .. Len(s) + 1 /\ DOMAIN s = 1 .. Len(s) /\ Len(s) \in Nat
  <2> HIDE DEF T
  <2>1. QED BY <1>1
<1> HIDE DEF t
<1>3. ToSet(t) = T
  <2>1. \A i \in 1 .. Len(s) + 1 : i \in 1 .. Len(s) \/ i = Len(s) + 1
    BY <1>2
  <2>2. \A i \in 1 .. Len(s) : i \in 1 .. Len(s) + 1
    BY <1>2
  <2>3. Len(s) + 1 \in 1 .. Len(s) + 1
    BY <1>2
  <2>4. QED BY <1>2, <2>1, <2>2, <2>3 DEF ToSet
<1>4. QED BY <1>2, <1>3 DEF IsSeq, t

LEMMA ToSetOfConcat ==
  ASSUME NEW s, IsSeq(s), NEW t, IsSeq(t)
  PROVE  /\ IsSeq(s \o t) /\ ToSet(s \o t) = ToSet(s) \cup ToSet(t)
         /\ t # <<>> => s \o t # <<>> /\ (s \o t)[Len(s \o t)] = t[Len(t)]
<1> DEFINE T == ToSet(s) \cup ToSet(t)
           u == s \o t
           m == Len(s)
           n == Len(t)
<1>1. s \in Seq(T) /\ t \in Seq(T)
  <2>1. ToSet(s) \subseteq T /\ ToSet(t) \subseteq T
    OBVIOUS
  <2> HIDE DEF T
  <2>2. QED BY <2>1, SeqMonotonic DEF IsSeq
<1>2. /\ u \in Seq(T) /\ Len(u) = m + n /\ DOMAIN u = 1 .. m + n
      /\ \A i \in 1 .. m + n : u[i] = IF i <= m THEN s[i] ELSE t[i - m]
      /\ m \in Nat /\ n \in Nat /\ DOMAIN s = 1 .. m /\ DOMAIN t = 1 .. n
  <2> HIDE DEF T
  <2>1. QED BY <1>1, ConcatProperties
<1>3. t # <<>> => n # 0
  BY <1>1
<1> HIDE DEF u, m, n
<1>4. /\ ToSet(s) = {s[i] : i \in 1 .. m} /\ ToSet(t) = {t[i] : i \in 1 .. n}
      /\ ToSet(u) = {u[i] : i \in 1 .. m + n}
  BY <1>2 DEF ToSet
<1>5. ToSet(u) = T
  <2>1. ASSUME NEW x \in ToSet(u) PROVE x \in T
    <3>1. PICK i \in 1 .. m + n : x = u[i]
      BY <1>4
    <3>2. IF i <= m THEN i \in 1 .. m ELSE i - m \in 1 .. n
      BY <1>2
    <3>3. QED BY <1>2, <1>4, <3>1, <3>2
  <2>2. ASSUME NEW x \in ToSet(s) PROVE x \in ToSet(u)
    <3>1. PICK i \in 1 .. m : x = s[i]
      BY <1>4
    <3>2. i \in 1 .. m + n /\ i <= m
      BY <1>2
    <3>3. QED BY <1>2, <1>4, <3>1, <3>2
  <2>3. ASSUME NEW x \in ToSet(t) PROVE x \in ToSet(u)
    <3>1. PICK i \in 1 .. n : x = t[i]
      BY <1>4
    <3>2. i + m \in 1 .. m + n /\ ~(i + m <= m) /\ (i + m) - m = i
      BY <1>2
    <3>3. QED BY <1>2, <1>4, <3>1, <3>2
  <2>4. QED BY <2>1, <2>2, <2>3
<1>6. t # <<>> => u # <<>> /\ u[Len(u)] = t[n]
  <2>1. SUFFICES ASSUME n # 0 PROVE u # <<>> /\ u[m + n] = t[n]
    BY <1>2, <1>3
  <2>2. m + n \in 1 .. m + n /\ ~(m + n <= m) /\ (m + n) - m = n /\ m + n # 0
    BY <1>2, <2>1
  <2>3. u = <<>> => Len(u) = 0
    OBVIOUS
  <2>4. QED BY <1>2, <2>2, <2>3
<1>7. QED BY <1>2, <1>5, <1>6 DEF IsSeq, u, m, n

LEMMA ToSetOfFew ==
  /\ IsSeq(<<>>) /\ ToSet(<<>>) = {}
  /\ \A a : /\ IsSeq(<<a>>) /\ ToSet(<<a>>) = {a}
            /\ <<a>>[Len(<<a>>)] = a /\ <<a>> # <<>>
  /\ \A a, b : IsSeq(<<a, b>>) /\ ToSet(<<a, b>>) = {a, b} /\ <<a, b>> # <<>>
<1>1. IsSeq(<<>>) /\ ToSet(<<>>) = {}
  <2>1. ToSet(<<>>) = {}
    BY DEF ToSet
  <2>2. QED BY <2>1 DEF IsSeq
<1>2. ASSUME NEW a
      PROVE  /\ IsSeq(<<a>>) /\ ToSet(<<a>>) = {a}
             /\ <<a>>[Len(<<a>>)] = a /\ <<a>> # <<>>
  <2>1. ToSet(<<a>>) = {a}
    BY DEF ToSet
  <2>2. <<a>> \in Seq({a}) /\ Len(<<a>>) = 1 /\ <<a>> # <<>>
    OBVIOUS
  <2>3. QED BY <2>1, <2>2 DEF IsSeq
<1>3. ASSUME NEW a, NEW b
      PROVE  IsSeq(<<a, b>>) /\ ToSet(<<a, b>>) = {a, b} /\ <<a, b>> # <<>>
  <2>1. ToSet(<<a, b>>) = {a, b}
    BY DEF ToSet
  <2>2. <<a, b>> \in Seq({a, b}) /\ <<a, b>> # <<>>
    OBVIOUS
  <2>3. QED BY <2>1, <2>2 DEF IsSeq
<1>4. QED BY <1>1, <1>2, <1>3

(***************************************************************************)
(* The inductive invariant: what is on file, and what the script that runs *)
(* is about to write, is evidence that was met.                            *)
(***************************************************************************)
Held(f) == IF IsWhole(disk[f]) THEN {disk[f].content} ELSE {}
Coming(f) == {put.content : put \in {q \in ToSet(run.todo) : q.file = f}}
Said(f) == Held(f) \cup Coming(f)

IsRun(r) == DOMAIN r = {"script", "left", "entries", "todo"} /\ r = [x \in DOMAIN r |-> r[x]]

Typed ==
  /\ disk = [f \in Files |-> disk[f]]
  /\ \A f \in Files : disk[f] \in {Absent, Torn} \/ disk[f] = Whole(disk[f].content)
  /\ raw = [r \in Requests |-> raw[r]]
  /\ IsRun(run)
  /\ IsSeq(run.left) /\ IsSeq(run.entries) /\ IsSeq(run.todo)
  /\ ToSet(run.left) \subseteq Requests
  /\ \A put \in ToSet(run.todo) : put.file \in Files
  /\ history \in [given : SUBSET Reasons, met : SUBSET Reasons, told : SUBSET Reasons, mixed : BOOLEAN]

\* An ingest's entries are of the raw files and the refusals it met, each request is
\* asked for once, and a refusal is the last thing it will write.
JobOK ==
  /\ run.script # "ingest" => run.left = <<>> /\ run.entries = <<>>
  /\ run.todo # <<>> => run.left = <<>>
  /\ \A i, j \in DOMAIN run.left : run.left[i] = run.left[j] => i = j
  /\ \A e \in ToSet(run.entries) : /\ e.status = "blocked" => e.reason \in history.given
                                   /\ e.sha # Absent => raw[e.request] = e.sha
                                   /\ e.request \in Requests \ ToSet(run.left)
  /\ run.todo # <<>> /\ BlockedRequests(run.entries) # {} => run.todo[Len(run.todo)].file = Blocker

BlockersOK == \A c \in Said(Blocker) : c.reasons # {} /\ c.reasons \subseteq history.given

Hashed(manifest) == \A e \in ToSet(manifest.requests) : e.sha # Absent => raw[e.request] = e.sha
ManifestsOK ==
  /\ \A c \in Held(Json("manifest")) : ~history.mixed => Hashed(c)
  /\ \A c \in Coming(Json("manifest")) : Hashed(c)

Counted(a) == /\ a.quality.crossed = Cardinality(CrossedAsks(a.l2.rows))
              /\ a.quality.locked = Cardinality(LockedAsks(a.l2.rows))
AuditsOK ==
  /\ \A c \in Said(Json("audit")) : c.reasons \subseteq history.given /\ Counted(c)
  /\ \A c \in Held(Json("audit")) : c.provider = "available" => history.told = {}
  /\ \A c \in Coming(Json("audit")) : c.provider = "available" => history.met = {}

ClaimsOK ==
  \A c \in Said(Json("claim")) : (UNION {r.detail : r \in c.reasons}) \subseteq history.given /\ history.given # {}
ClosuresOK == Said(Json("closure")) # {} => history.given # {}

\* What a whole ingest was refused is on file, whole or cut.
MetOnFile == history.met # {} => disk[Blocker] # Absent

IInv == Typed /\ JobOK /\ BlockersOK /\ ManifestsOK /\ AuditsOK /\ ClaimsOK /\ ClosuresOK /\ MetOnFile

LEMMA FilesAre ==
  /\ Blocker \in Files /\ Json("manifest") \in Files /\ Json("audit") \in Files
  /\ Json("claim") \in Files /\ Json("closure") \in Files /\ Json("verdict") \in Files
  /\ \A r \in Reports : Json(r) \in Files /\ Md(r) \in Files
  /\ \A r, q : Json(r) # Md(q) /\ (Json(r) = Json(q) <=> r = q)
BY DEF Files, Blocker, Json, Md, Reports

\* What a file that is not missing and not cut holds.
LEMMA OnDisk ==
  ASSUME Typed, NEW f \in Files
  PROVE  /\ disk[f] # Absent /\ disk[f] # Torn => IsWhole(disk[f])
         /\ IsWhole(disk[f]) => disk[f].content \in Held(f) /\ disk[f] # Absent
         /\ \A c \in Held(f) : IsWhole(disk[f]) /\ c = disk[f].content
BY DEF Typed, IsWhole, Whole, Absent, Torn, Held

LEMMA InvInit == Init => IInv
<1> SUFFICES ASSUME Init PROVE IInv
  OBVIOUS
<1>1. /\ run.script = "none" /\ run.left = <<>> /\ run.entries = <<>> /\ run.todo = <<>>
      /\ IsRun(run)
  BY DEF Init, Idle, IsRun
<1>2. \A f : Coming(f) = {}
  BY <1>1, ToSetOfFew DEF Coming
<1>3. \A f \in Files : disk[f] = Absent /\ Held(f) = {}
  BY DEF Init, Held, IsWhole, Absent
<1>4. Typed
  BY <1>1, <1>3, ToSetOfFew DEF Typed, Init
<1>5. JobOK
  BY <1>1, ToSetOfFew DEF JobOK
<1>6. history.met = {}
  BY DEF Init
<1>7. QED
  BY <1>2, <1>3, <1>4, <1>5, <1>6, FilesAre
  DEF IInv, BlockersOK, ManifestsOK, AuditsOK, ClaimsOK, ClosuresOK, MetOnFile, Said

LEMMA InvImplies == IInv => EvidenceHolds
<1> SUFFICES ASSUME IInv PROVE EvidenceHolds
  OBVIOUS
<1>1. \A r : Read(r) = disk[Json(r)].content /\ (OnFile(r) <=> IsWhole(disk[Json(r)]))
  BY DEF Read, OnFile
<1>2. \A r : OnFile(r) => Read(r) \in Held(Json(r)) /\ Read(r) \in Said(Json(r))
  BY <1>1 DEF Held, Said
<1>3. Blocker = Json("blocker")
  BY DEF Blocker
<1>4. RawAsRecorded
  BY <1>2 DEF IInv, ManifestsOK, Hashed, RawAsRecorded
<1>5. CitedAsGiven
  BY <1>2, <1>3 DEF IInv, BlockersOK, AuditsOK, ClaimsOK, CitedAsGiven, Cited
<1>6. NothingOverstated
  BY <1>2 DEF IInv, AuditsOK, NothingOverstated
<1>7. ReadyRests
  BY <1>2 DEF IInv, ClosuresOK, ReadyRests
<1>8. CountsHold
  BY <1>2 DEF IInv, AuditsOK, Counted, CountsHold
<1>9. QED BY <1>4, <1>5, <1>6, <1>7, <1>8 DEF EvidenceHolds

(***************************************************************************)
(* The steps                                                               *)
(***************************************************************************)
LEMMA InvUnchanged == IInv /\ UNCHANGED <<disk, raw, run, history>> => IInv'
BY DEF IInv, Typed, JobOK, BlockersOK, ManifestsOK, AuditsOK, ClaimsOK, ClosuresOK, MetOnFile,
       Said, Held, Coming, Hashed, Counted

\* A script that has written nothing and is about to write these, or no longer runs.
Writing(script, todo) == [script |-> script, left |-> <<>>, entries |-> <<>>, todo |-> todo]

LEMMA IdleIs ==
  /\ Idle = Writing("none", <<>>)
  /\ \A script, todo : [Idle EXCEPT !.script = script, !.todo = todo] = Writing(script, todo)
<1>1. Idle = Writing("none", <<>>)
  BY DEF Idle, Writing
<1>2. ASSUME NEW script, NEW todo
      PROVE  [Idle EXCEPT !.script = script, !.todo = todo] = Writing(script, todo)
  <2> DEFINE r == [Idle EXCEPT !.script = script, !.todo = todo]
  <2>1. DOMAIN Idle = {"script", "left", "entries", "todo"} /\ Idle.left = <<>> /\ Idle.entries = <<>>
    BY DEF Idle
  <2>2. /\ DOMAIN r = {"script", "left", "entries", "todo"} /\ r = [x \in DOMAIN r |-> r[x]]
        /\ r.script = script /\ r.left = <<>> /\ r.entries = <<>> /\ r.todo = todo
    BY <2>1
  <2> HIDE DEF r
  <2>3. r = [script |-> r.script, left |-> r.left, entries |-> r.entries, todo |-> r.todo]
    BY <2>2
  <2>4. QED BY <2>2, <2>3 DEF r, Writing
<1>3. QED BY <1>1, <1>2

\* A report about to be written has what the invariant asks of it.
PutOK(put) ==
  /\ put.file \in Files \ {Blocker, Json("manifest")}
  /\ put.file = Json("audit") =>
       /\ put.content.reasons \subseteq history.given
       /\ Counted(put.content)
       /\ put.content.provider = "available" => history.met = {}
  /\ put.file = Json("claim") => (UNION {r.detail : r \in put.content.reasons}) \subseteq history.given
  /\ put.file \in {Json("claim"), Json("closure")} => history.given # {}

LEMMA InvBegun ==
  ASSUME IInv, NEW script, script # "ingest", NEW todo, IsSeq(todo), run' = Writing(script, todo),
         UNCHANGED <<disk, raw, history>>,
         \A put \in ToSet(todo) : PutOK(put)
  PROVE  IInv'
<1>1. \A f : Held(f)' = Held(f)
  BY DEF Held
<1>2. \A f : Coming(f)' = {put.content : put \in {q \in ToSet(todo) : q.file = f}}
  BY DEF Coming, Writing
<1>3. \A c : (Counted(c) <=> Counted(c)') /\ (Hashed(c) <=> Hashed(c)')
  BY DEF Counted, Hashed
<1>4. /\ run'.script = script /\ run'.left = <<>> /\ run'.entries = <<>> /\ run'.todo = todo
      /\ IsRun(run')
  BY DEF Writing, IsRun
<1>5. Typed'
  BY <1>4, ToSetOfFew DEF IInv, Typed, PutOK
<1>6. JobOK'
  BY <1>4, ToSetOfFew DEF JobOK, BlockedRequests
<1>7. Coming(Blocker)' = {} /\ Coming(Json("manifest"))' = {}
  BY <1>2 DEF PutOK
<1>8. BlockersOK' /\ ManifestsOK'
  BY <1>1, <1>3, <1>7 DEF IInv, BlockersOK, ManifestsOK, Said
<1>9. AuditsOK'
  BY <1>1, <1>2, <1>3 DEF IInv, AuditsOK, Said, PutOK
<1>10. ClaimsOK'
  BY <1>1, <1>2 DEF IInv, ClaimsOK, Said, PutOK
<1>11. ClosuresOK'
  BY <1>1, <1>2 DEF IInv, ClosuresOK, Said, PutOK
<1>12. MetOnFile'
  BY DEF IInv, MetOnFile
<1>13. QED BY <1>5, <1>6, <1>8, <1>9, <1>10, <1>11, <1>12 DEF IInv

LEMMA InvIdled ==
  ASSUME IInv, run' = Idle, UNCHANGED <<disk, raw, history>>
  PROVE  IInv'
<1>1. run' = Writing("none", <<>>) /\ \A put \in ToSet(<<>>) : FALSE
  BY IdleIs, ToSetOfFew
<1>2. QED BY <1>1, InvBegun, ToSetOfFew

\* The two files of a report.
LEMMA PairIs ==
  ASSUME NEW r, NEW report, NEW md
  PROVE  /\ IsSeq(Pair(r, report, md)) /\ Pair(r, report, md) # <<>>
         /\ ToSet(Pair(r, report, md)) = {Put(Json(r), report), Put(Md(r), md)}
BY ToSetOfFew DEF Pair

LEMMA PutIs == \A f, c : Put(f, c).file = f /\ Put(f, c).content = c
BY DEF Put

LEMMA InvSelect == IInv /\ Select => IInv'
<1> SUFFICES ASSUME IInv, Select PROVE IInv'
  OBVIOUS
<1>1. PICK report, verdict :
        Begins("selection", Pair("candidates", report, CandidatesMd(report))
                              \o Pair("verdict", verdict, VerdictMd(verdict)))
  BY DEF Select
<1> DEFINE a == Pair("candidates", report, CandidatesMd(report))
           b == Pair("verdict", verdict, VerdictMd(verdict))
<1>2. /\ IsSeq(a) /\ IsSeq(b)
      /\ ToSet(a) \cup ToSet(b) = {Put(Json("candidates"), report), Put(Md("candidates"), CandidatesMd(report)),
                                   Put(Json("verdict"), verdict), Put(Md("verdict"), VerdictMd(verdict))}
  BY PairIs
<1> HIDE DEF a, b
<1>3. IsSeq(a \o b) /\ ToSet(a \o b) = ToSet(a) \cup ToSet(b)
  BY <1>2, ToSetOfConcat
<1>4. \A put \in ToSet(a \o b) : PutOK(put)
  <2>1. \A put \in ToSet(a \o b) :
          put.file \in Files \ {Blocker, Json("manifest"), Json("audit"), Json("claim"), Json("closure")}
    BY <1>2, <1>3, PutIs, FilesAre DEF Blocker, Reports
  <2>2. QED BY <2>1 DEF PutOK
<1>5. run' = Writing("selection", a \o b) /\ UNCHANGED <<disk, raw, history>>
  BY <1>1, IdleIs DEF Begins, Starts, a, b
<1> DEFINE todo == a \o b
<1> HIDE DEF todo
<1>6. QED BY <1>3, <1>4, <1>5, InvBegun DEF todo

LEMMA InvRaises == ASSUME IInv, NEW script, Raises(script) PROVE IInv'
BY InvUnchanged DEF Raises, Starts

LEMMA InvMicrostructure ==
  ASSUME ChainAssumption, IInv, NEW f \in Fixtures, Microstructure(f)
  PROVE  IInv'
<1>1. CASE \E r \in {"manifest", "blocker", "verdict"} : disk[Json(r)] = Torn
  BY <1>1, InvRaises DEF Microstructure
<1>2. CASE ~ \E r \in {"manifest", "blocker", "verdict"} : disk[Json(r)] = Torn
  <2> DEFINE report == AuditReport(f)
             todo == Pair("audit", report, AuditMd(report))
  <2>1. Begins("microstructure", todo)
    BY <1>2 DEF Microstructure
  <2>2. run' = Writing("microstructure", todo) /\ UNCHANGED <<disk, raw, history>>
    BY <2>1, IdleIs DEF Begins, Starts
  <2>3. report.reasons \subseteq history.given
    <3>1. report.reasons = IF disk[Blocker] = Absent THEN {} ELSE Read("blocker").reasons
      BY DEF AuditReport
    <3>2. disk[Blocker] # Absent => Read("blocker") \in Said(Blocker)
      BY <1>2, OnDisk, FilesAre DEF IInv, Read, Said, Blocker
    <3>3. QED BY <3>1, <3>2 DEF IInv, BlockersOK
  <2>4. report.provider = "available" => history.met = {}
    <3>1. report.provider = "available" => disk[Blocker] = Absent
      BY DEF AuditReport, ProviderEvidenceBlocked
    <3>2. QED BY <3>1 DEF IInv, MetOnFile
  <2>5. Counted(report)
    <3> DEFINE l2 == NormalizeL2(f.l2)
    <3>1. f.l2 \in Seq(Rows)
      BY DEF ChainAssumption
    <3>2. l2.rows \in Seq(BookRows)
      BY <3>1, NormalizedRows
    <3>3. report.l2 = l2 /\ report.quality = AuditNormalizedRows(NormalizeTrades(f.trades), l2)
      BY DEF AuditReport
    <3>4. /\ report.quality.crossed = BookAfter(InTime(l2.rows)).crossed
          /\ report.quality.locked = BookAfter(InTime(l2.rows)).locked
      BY <3>3 DEF AuditNormalizedRows
    <3> HIDE DEF l2, report
    <3>5. QED BY <3>2, <3>3, <3>4, WarningsCounted DEF Counted
  <2> HIDE DEF report
  <2>6. IsSeq(todo) /\ ToSet(todo) = {Put(Json("audit"), report), Put(Md("audit"), AuditMd(report))}
    BY PairIs
  <2> HIDE DEF todo
  <2>7. /\ Json("audit") \in Files \ {Blocker, Json("manifest"), Json("claim"), Json("closure")}
        /\ Md("audit") \in Files \ {Blocker, Json("manifest"), Json("audit"), Json("claim"), Json("closure")}
    BY FilesAre DEF Blocker, Reports
  <2>8. \A put \in ToSet(todo) : PutOK(put)
    BY <2>3, <2>4, <2>5, <2>6, <2>7, PutIs DEF PutOK
  <2>9. QED BY <2>2, <2>6, <2>8, InvBegun
<1>3. QED BY <1>1, <1>2

LEMMA InvClaimReadiness == ASSUME IInv, NEW v51, ClaimReadiness(v51) PROVE IInv'
<1>1. CASE \E r \in {"verdict", "manifest", "blocker", "audit"} : ~IsWhole(disk[Json(r)])
  BY <1>1, InvRaises DEF ClaimReadiness
<1>2. CASE ~ \E r \in {"verdict", "manifest", "blocker", "audit"} : ~IsWhole(disk[Json(r)])
  <2> DEFINE report == ClaimVerdict(v51)
             todo == Pair("claim", report, ClaimMd(report))
  <2>1. Begins("claim", todo)
    BY <1>2 DEF ClaimReadiness
  <2>2. run' = Writing("claim", todo) /\ UNCHANGED <<disk, raw, history>>
    BY <2>1, IdleIs DEF Begins, Starts
  <2>3. Read("blocker") \in Said(Blocker)
    BY <1>2 DEF Said, Held, Read, Blocker
  <2>4. Read("blocker").reasons \subseteq history.given /\ history.given # {}
    BY <2>3 DEF IInv, BlockersOK
  <2>5. (UNION {r.detail : r \in report.reasons}) \subseteq history.given
    <3>1. report.reasons = NullShipReasons(Read("blocker"))
      BY DEF ClaimVerdict
    <3>2. \A r \in NullShipReasons(Read("blocker")) : r.detail = {} \/ r.detail = Read("blocker").reasons
      BY DEF NullShipReasons
    <3>3. QED BY <2>4, <3>1, <3>2
  <2> HIDE DEF report
  <2>6. IsSeq(todo) /\ ToSet(todo) = {Put(Json("claim"), report), Put(Md("claim"), ClaimMd(report))}
    BY PairIs
  <2> HIDE DEF todo
  <2>7. /\ Json("claim") \in Files \ {Blocker, Json("manifest"), Json("audit"), Json("closure")}
        /\ Md("claim") \in Files \ {Blocker, Json("manifest"), Json("audit"), Json("claim"), Json("closure")}
    BY FilesAre DEF Blocker, Reports
  <2>8. \A put \in ToSet(todo) : PutOK(put)
    BY <2>4, <2>5, <2>6, <2>7, PutIs DEF PutOK
  <2>9. QED BY <2>2, <2>6, <2>8, InvBegun
<1>3. QED BY <1>1, <1>2

LEMMA InvClosure == ASSUME IInv, NEW in, Closure(in) PROVE IInv'
<1>1. CASE ~IsWhole(disk[Json("claim")])
  BY <1>1, InvRaises DEF Closure
<1>2. CASE IsWhole(disk[Json("claim")])
  <2> DEFINE report == AuditClosure(in)
             todo == Pair("closure", report, ClosureMd(report))
  <2>1. Begins("closure", todo)
    BY <1>2 DEF Closure
  <2>2. run' = Writing("closure", todo) /\ UNCHANGED <<disk, raw, history>>
    BY <2>1, IdleIs DEF Begins, Starts
  <2>3. history.given # {}
    BY <1>2 DEF IInv, ClaimsOK, Said, Held
  <2> HIDE DEF report
  <2>4. IsSeq(todo) /\ ToSet(todo) = {Put(Json("closure"), report), Put(Md("closure"), ClosureMd(report))}
    BY PairIs
  <2> HIDE DEF todo
  <2>5. /\ Json("closure") \in Files \ {Blocker, Json("manifest"), Json("audit"), Json("claim")}
        /\ Md("closure") \in Files \ {Blocker, Json("manifest"), Json("audit"), Json("claim"), Json("closure")}
    BY FilesAre DEF Blocker, Reports
  <2>6. \A put \in ToSet(todo) : PutOK(put)
    BY <2>3, <2>4, <2>5, PutIs DEF PutOK
  <2>7. QED BY <2>2, <2>4, <2>6, InvBegun
<1>3. QED BY <1>1, <1>2

LEMMA HistoryUpdates ==
  ASSUME Typed
  PROVE  /\ LET h == [history EXCEPT !.mixed = TRUE]
            IN /\ h.given = history.given /\ h.met = history.met /\ h.told = history.told
               /\ h.mixed = TRUE
               /\ h \in [given : SUBSET Reasons, met : SUBSET Reasons, told : SUBSET Reasons, mixed : BOOLEAN]
         /\ \A reason \in Reasons :
              LET h == [history EXCEPT !.given = @ \cup {reason}]
              IN /\ h.given = history.given \cup {reason} /\ h.met = history.met /\ h.told = history.told
                 /\ h.mixed = history.mixed
                 /\ h \in [given : SUBSET Reasons, met : SUBSET Reasons, told : SUBSET Reasons, mixed : BOOLEAN]
         /\ \A reason \in Reasons :
              LET h == [history EXCEPT !.given = @ \cup {reason}, !.mixed = TRUE]
              IN /\ h.given = history.given \cup {reason} /\ h.met = history.met /\ h.told = history.told
                 /\ h.mixed = TRUE
                 /\ h \in [given : SUBSET Reasons, met : SUBSET Reasons, told : SUBSET Reasons, mixed : BOOLEAN]
BY DEF Typed

LEMMA InvIngest ==
  ASSUME ChainAssumption, IInv, NEW l \in RequestLists, Ingest(l)
  PROVE  IInv'
<1>1. UNCHANGED <<disk, raw, history>>
  BY DEF Ingest, Starts
<1>2. /\ IsRun(run') /\ run'.script = "ingest" /\ run'.left = l
      /\ run'.entries = <<>> /\ run'.todo = <<>>
  <2>1. DOMAIN Idle = {"script", "left", "entries", "todo"} /\ Idle.todo = <<>> /\ Idle.entries = <<>>
    BY DEF Idle
  <2>2. run' = [Idle EXCEPT !.script = "ingest", !.left = l]
    BY DEF Ingest
  <2>3. QED BY <2>1, <2>2 DEF IsRun
<1>3. IsSeq(l) /\ ToSet(l) \subseteq Requests /\ \A i, j \in DOMAIN l : l[i] = l[j] => i = j
  BY DEF ChainAssumption, IsSeq, Requests, IsInjective
<1>4. \A f : Held(f)' = Held(f) /\ Coming(f)' = {}
  BY <1>1, <1>2, ToSetOfFew DEF Held, Coming
<1>5. \A c : (Counted(c) <=> Counted(c)') /\ (Hashed(c) <=> Hashed(c)')
  BY <1>1 DEF Counted, Hashed
<1>6. Typed'
  BY <1>1, <1>2, <1>3, ToSetOfFew DEF IInv, Typed
<1>7. JobOK'
  BY <1>2, <1>3, ToSetOfFew DEF JobOK, BlockedRequests
<1>8. QED
  BY <1>1, <1>4, <1>5, <1>6, <1>7
  DEF IInv, BlockersOK, ManifestsOK, AuditsOK, ClaimsOK, ClosuresOK, MetOnFile, Said

\* What the next request's answer leaves behind.
LEMMA RequestLeft ==
  ASSUME IInv, Fetching
  PROVE  /\ IsSeq(run.left) /\ run.left # <<>> /\ run.todo = <<>> /\ run.script = "ingest"
         /\ Head(run.left) \in Requests
         /\ IsSeq(Tail(run.left)) /\ ToSet(Tail(run.left)) \subseteq ToSet(run.left)
         /\ Head(run.left) \in ToSet(run.left) /\ Head(run.left) \notin ToSet(Tail(run.left))
         /\ \A i, j \in DOMAIN Tail(run.left) : Tail(run.left)[i] = Tail(run.left)[j] => i = j
<1> DEFINE l == run.left
           t == Tail(l)
<1>1. IsSeq(l) /\ l # <<>> /\ run.todo = <<>> /\ run.script = "ingest" /\ ToSet(l) \subseteq Requests
      /\ \A i, j \in DOMAIN l : l[i] = l[j] => i = j
  BY DEF IInv, Typed, JobOK, Fetching
<1>2. IsSeq(t) /\ Head(l) \in ToSet(l) /\ ToSet(l) = {Head(l)} \cup ToSet(t)
  BY <1>1, ToSetOfTail
<1>3. /\ DOMAIN l = 1 .. Len(l) /\ Len(l) \in Nat \ {0} /\ Head(l) = l[1]
      /\ DOMAIN t = 1 .. Len(l) - 1 /\ \A i \in 1 .. Len(l) - 1 : t[i] = l[i + 1]
  <2>1. l \in Seq(ToSet(l))
    BY <1>1 DEF IsSeq
  <2> HIDE DEF l
  <2>2. QED BY <1>1, <2>1
<1> HIDE DEF t, l
<1>4. \A i \in 1 .. Len(l) - 1 : i + 1 \in DOMAIN l /\ i + 1 # 1
  BY <1>3
<1>5. 1 \in DOMAIN l
  BY <1>3
<1>6. Head(l) \notin ToSet(t)
  BY <1>1, <1>3, <1>4, <1>5 DEF ToSet
<1>7. \A i, j \in DOMAIN t : t[i] = t[j] => i = j
  <2>1. SUFFICES ASSUME NEW i \in DOMAIN t, NEW j \in DOMAIN t, t[i] = t[j] PROVE i = j
    OBVIOUS
  <2>2. i + 1 = j + 1
    BY <1>1, <1>3, <1>4, <2>1
  <2>3. QED BY <1>3, <2>2
<1>8. QED BY <1>1, <1>2, <1>6, <1>7 DEF l, t

LEMMA InvFetchPayload == ASSUME IInv, NEW payload, FetchPayload(payload) PROVE IInv'
<1> DEFINE request == Head(run.left)
           entry == RequestEntry(request, payload)
<1>1. /\ Fetching /\ raw' = [raw EXCEPT ![request] = Whole(payload)]
      /\ run' = [run EXCEPT !.left = Tail(run.left), !.entries = Append(run.entries, entry)]
      /\ history' = [history EXCEPT !.mixed = TRUE] /\ UNCHANGED disk
  BY DEF FetchPayload, Answered
<1>2. Typed /\ IsRun(run) /\ IsSeq(run.entries)
  BY DEF IInv, Typed
<1>3. /\ IsRun(run') /\ run'.script = run.script /\ run'.todo = run.todo
      /\ run'.left = Tail(run.left) /\ run'.entries = Append(run.entries, entry)
  BY <1>1, <1>2 DEF IsRun
<1>4. /\ history'.given = history.given /\ history'.met = history.met
      /\ history'.told = history.told /\ history'.mixed = TRUE
      /\ history' \in [given : SUBSET Reasons, met : SUBSET Reasons, told : SUBSET Reasons, mixed : BOOLEAN]
  BY <1>1, <1>2, HistoryUpdates
<1>5. entry.request = request /\ entry.sha = Whole(payload) /\ entry.status # "blocked"
  BY DEF RequestEntry, ClassifyRequestStatus
<1> HIDE DEF entry
<1>6. IsSeq(run'.entries) /\ ToSet(run'.entries) = ToSet(run.entries) \cup {entry}
  BY <1>2, <1>3, ToSetOfAppend
<1>7. /\ run.todo = <<>> /\ run.script = "ingest" /\ request \in Requests
      /\ IsSeq(run'.left) /\ ToSet(run'.left) \subseteq ToSet(run.left)
      /\ request \in ToSet(run.left) /\ request \notin ToSet(run'.left)
      /\ \A i, j \in DOMAIN run'.left : run'.left[i] = run'.left[j] => i = j
  BY <1>1, <1>3, RequestLeft
<1> HIDE DEF request
<1>8. /\ raw' = [r \in Requests |-> raw'[r]] /\ raw'[request] = Whole(payload)
      /\ \A r \in Requests \ {request} : raw'[r] = raw[r]
  <2>1. raw = [r \in Requests |-> raw[r]]
    BY <1>2 DEF Typed
  <2>2. QED BY <1>1, <1>7, <2>1
<1>9. \A f : Held(f)' = Held(f) /\ Coming(f) = {} /\ Coming(f)' = {}
  BY <1>1, <1>3, <1>7, ToSetOfFew DEF Held, Coming
<1>10. Typed'
  BY <1>1, <1>2, <1>3, <1>4, <1>6, <1>7, <1>8 DEF Typed
<1>11. JobOK'
  <2>1. ASSUME NEW e \in ToSet(run'.entries)
        PROVE  /\ e.status = "blocked" => e.reason \in history'.given
               /\ e.sha # Absent => raw'[e.request] = e.sha
               /\ e.request \in Requests \ ToSet(run'.left)
    <3>1. CASE e = entry
      BY <1>5, <1>7, <1>8, <3>1
    <3>2. CASE e \in ToSet(run.entries)
      BY <1>4, <1>7, <1>8, <3>2 DEF IInv, JobOK
    <3>3. QED BY <1>6, <3>1, <3>2
  <2>2. QED BY <1>3, <1>7, <2>1 DEF JobOK
<1>12. \A c : Counted(c) <=> Counted(c)'
  BY DEF Counted
<1>13. QED
  BY <1>1, <1>4, <1>9, <1>10, <1>11, <1>12
  DEF IInv, BlockersOK, ManifestsOK, AuditsOK, ClaimsOK, ClosuresOK, MetOnFile, Said

LEMMA InvFetchBlocked == ASSUME IInv, NEW reason \in Reasons, FetchBlocked(reason) PROVE IInv'
<1> DEFINE request == Head(run.left)
           entry == BlockedEntry(request, reason)
<1>1. /\ Fetching
      /\ run' = [run EXCEPT !.left = Tail(run.left), !.entries = Append(run.entries, entry)]
      /\ \/ history' = [history EXCEPT !.given = @ \cup {reason}] /\ UNCHANGED raw
         \/ /\ history' = [history EXCEPT !.given = @ \cup {reason}, !.mixed = TRUE]
            /\ raw' = [raw EXCEPT ![request] = Torn]
      /\ UNCHANGED disk
  BY DEF FetchBlocked, Answered
<1>2. Typed /\ IsRun(run) /\ IsSeq(run.entries)
  BY DEF IInv, Typed
<1>3. /\ IsRun(run') /\ run'.script = run.script /\ run'.todo = run.todo
      /\ run'.left = Tail(run.left) /\ run'.entries = Append(run.entries, entry)
  BY <1>1, <1>2 DEF IsRun
<1>4. /\ history'.given = history.given \cup {reason} /\ history'.met = history.met
      /\ history'.told = history.told
      /\ (raw' = raw /\ history'.mixed = history.mixed) \/ history'.mixed = TRUE
      /\ history' \in [given : SUBSET Reasons, met : SUBSET Reasons, told : SUBSET Reasons, mixed : BOOLEAN]
  BY <1>1, <1>2, HistoryUpdates
<1>5. entry.request = request /\ entry.sha = Absent /\ entry.reason = reason
  BY DEF BlockedEntry
<1> HIDE DEF entry
<1>6. IsSeq(run'.entries) /\ ToSet(run'.entries) = ToSet(run.entries) \cup {entry}
  BY <1>2, <1>3, ToSetOfAppend
<1>7. /\ run.todo = <<>> /\ run.script = "ingest" /\ request \in Requests
      /\ IsSeq(run'.left) /\ ToSet(run'.left) \subseteq ToSet(run.left)
      /\ request \in ToSet(run.left) /\ request \notin ToSet(run'.left)
      /\ \A i, j \in DOMAIN run'.left : run'.left[i] = run'.left[j] => i = j
  BY <1>1, <1>3, RequestLeft
<1> HIDE DEF request
<1>8. \A f : Held(f)' = Held(f) /\ Coming(f) = {} /\ Coming(f)' = {}
  BY <1>1, <1>3, <1>7, ToSetOfFew DEF Held, Coming
<1> DEFINE same == Requests \ {request}
<1>raw. /\ raw' = [r \in Requests |-> raw'[r]]
        /\ \A r \in same : raw'[r] = raw[r]
  <2>1. raw = [r \in Requests |-> raw[r]]
    BY <1>2 DEF Typed
  <2>2. QED BY <1>1, <1>7, <2>1
<1>9. Typed'
  BY <1>1, <1>2, <1>3, <1>4, <1>6, <1>7, <1>raw DEF Typed
<1>10. JobOK'
  <2>1. ASSUME NEW e \in ToSet(run'.entries)
        PROVE  /\ e.status = "blocked" => e.reason \in history'.given
               /\ e.sha # Absent => raw'[e.request] = e.sha
               /\ e.request \in Requests \ ToSet(run'.left)
    <3>1. CASE e = entry
      BY <1>4, <1>5, <1>7, <3>1
    <3>2. CASE e \in ToSet(run.entries)
      BY <1>4, <1>7, <1>raw, <3>2 DEF IInv, JobOK
    <3>3. QED BY <1>6, <3>1, <3>2
  <2>2. QED BY <1>3, <1>7, <2>1 DEF JobOK
<1>11. \A c : (Counted(c) <=> Counted(c)') /\ (raw' = raw => (Hashed(c) <=> Hashed(c)'))
  BY DEF Counted, Hashed
<1>12. BlockersOK'
  BY <1>4, <1>8 DEF IInv, BlockersOK, Said
<1>13. ManifestsOK'
  BY <1>4, <1>8, <1>11 DEF IInv, ManifestsOK
<1>14. AuditsOK'
  BY <1>4, <1>8, <1>11 DEF IInv, AuditsOK, Said
<1>15. ClaimsOK' /\ ClosuresOK' /\ MetOnFile'
  BY <1>1, <1>4, <1>8 DEF IInv, ClaimsOK, ClosuresOK, MetOnFile, Said
<1>16. QED BY <1>9, <1>10, <1>12, <1>13, <1>14, <1>15 DEF IInv

LEMMA InvFetchRaises == ASSUME IInv, FetchRaises PROVE IInv'
BY InvIdled DEF FetchRaises, Dies

LEMMA InvManifestRaises == ASSUME IInv, ManifestRaises PROVE IInv'
BY InvIdled DEF ManifestRaises, Dies

\* The files a whole ingest writes, the refusals last.
LEMMA InvBuildManifest == ASSUME IInv, BuildManifest PROVE IInv'
<1> DEFINE verdict == Read("verdict")
           manifest == Manifest(verdict, run.entries)
           blocked == BlockedRequests(run.entries)
           blocker == AccessBlocker(verdict, blocked)
           a == Pair("manifest", manifest, ManifestMd(manifest))
           b == IF blocked = {} THEN <<>> ELSE <<Put(Blocker, blocker)>>
           todo == a \o b
<1>1. /\ Fetched /\ run' = [run EXCEPT !.todo = todo] /\ UNCHANGED <<disk, raw, history>>
  BY DEF BuildManifest
<1>2. Typed /\ IsRun(run) /\ IsSeq(run.entries) /\ run.left = <<>> /\ run.script = "ingest"
  BY <1>1 DEF IInv, Typed, Fetched
<1>3. blocked \subseteq ToSet(run.entries) /\ \A e \in blocked : e.status = "blocked"
  BY DEF BlockedRequests
<1>4. manifest.requests = run.entries
  BY DEF Manifest
<1>5. blocker.reasons = {e.reason : e \in blocked}
  BY DEF AccessBlocker
<1>6. blocked = BlockedRequests(run.entries)
  OBVIOUS
<1> HIDE DEF blocked, blocker, manifest
<1>7. Hashed(manifest)
  BY <1>4 DEF IInv, JobOK, Hashed
<1>8. blocked # {} => blocker.reasons # {} /\ blocker.reasons \subseteq history.given
  BY <1>3, <1>5 DEF IInv, JobOK
<1>9. /\ IsSeq(a) /\ IsSeq(b)
      /\ ToSet(a) = {Put(Json("manifest"), manifest), Put(Md("manifest"), ManifestMd(manifest))}
      /\ ToSet(b) = IF blocked = {} THEN {} ELSE {Put(Blocker, blocker)}
      /\ blocked # {} => b # <<>> /\ b[Len(b)] = Put(Blocker, blocker)
  <2>1. IsSeq(a) /\ ToSet(a) = {Put(Json("manifest"), manifest), Put(Md("manifest"), ManifestMd(manifest))}
    BY PairIs
  <2>2. CASE blocked = {}
    BY <2>1, <2>2, ToSetOfFew
  <2>3. CASE blocked # {}
    <3>1. b = <<Put(Blocker, blocker)>>
      BY <2>3
    <3> HIDE DEF a, b
    <3>2. /\ IsSeq(b) /\ ToSet(b) = {Put(Blocker, blocker)}
          /\ b # <<>> /\ b[Len(b)] = Put(Blocker, blocker)
      BY <3>1, ToSetOfFew
    <3>3. QED BY <2>1, <2>3, <3>2
  <2>4. QED BY <2>2, <2>3
<1> HIDE DEF a, b
<1>10. /\ IsSeq(todo) /\ ToSet(todo) = ToSet(a) \cup ToSet(b)
       /\ b # <<>> => todo[Len(todo)] = b[Len(b)]
  BY <1>9, ToSetOfConcat
<1> HIDE DEF todo
<1>11. /\ IsRun(run') /\ run'.script = run.script /\ run'.left = run.left
       /\ run'.entries = run.entries /\ run'.todo = todo
  BY <1>1, <1>2 DEF IsRun
<1>12. \A f : Held(f)' = Held(f) /\ Coming(f)' = {put.content : put \in {q \in ToSet(todo) : q.file = f}}
  BY <1>1, <1>11 DEF Held, Coming
<1>13. /\ \A f : Json(f) # Md("manifest") /\ (Json(f) = Json("manifest") <=> f = "manifest")
       /\ Blocker = Json("blocker") /\ {Blocker, Json("manifest"), Md("manifest")} \subseteq Files
  BY FilesAre DEF Blocker, Reports
<1>14. /\ Coming(Json("manifest"))' \subseteq {manifest}
       /\ Coming(Blocker)' = IF blocked = {} THEN {} ELSE {blocker}
       /\ Coming(Json("audit"))' = {} /\ Coming(Json("claim"))' = {} /\ Coming(Json("closure"))' = {}
  <2>1. \A put \in ToSet(todo) :
          \/ put.file = Json("manifest") /\ put.content = manifest
          \/ put.file = Md("manifest")
          \/ blocked # {} /\ put.file = Blocker /\ put.content = blocker
    BY <1>9, <1>10, PutIs
  <2>2. /\ Md("manifest") \notin {Blocker, Json("manifest"), Json("audit"), Json("claim"), Json("closure")}
        /\ Json("manifest") \notin {Blocker, Json("audit"), Json("claim"), Json("closure")}
        /\ Blocker \notin {Json("audit"), Json("claim"), Json("closure")}
    BY <1>13, FilesAre
  <2>3. blocked # {} => Put(Blocker, blocker) \in ToSet(todo)
    BY <1>9, <1>10
  <2>4. Coming(Json("manifest"))' \subseteq {manifest}
    BY <1>12, <2>1, <2>2
  <2>5. Coming(Blocker)' \subseteq {blocker} /\ (blocked = {} => Coming(Blocker)' = {})
    BY <1>12, <2>1, <2>2
  <2>6. blocked # {} => blocker \in Coming(Blocker)'
    BY <1>12, <2>3, PutIs
  <2>7. Coming(Json("audit"))' = {} /\ Coming(Json("claim"))' = {} /\ Coming(Json("closure"))' = {}
    BY <1>12, <2>1, <2>2
  <2>8. QED BY <2>4, <2>5, <2>6, <2>7
<1>15. \A c : (Counted(c) <=> Counted(c)') /\ (Hashed(c) <=> Hashed(c)')
  BY <1>1 DEF Counted, Hashed
<1>16. Typed'
  <2>1. \A put \in ToSet(todo) : put.file \in Files
    BY <1>9, <1>10, <1>13, PutIs
  <2>2. QED BY <1>1, <1>2, <1>10, <1>11, <2>1 DEF Typed
<1>17. JobOK'
  <2>1. blocked # {} => todo[Len(todo)].file = Blocker
    BY <1>9, <1>10, PutIs
  <2>2. BlockedRequests(run.entries)' = blocked
    BY <1>6, <1>11 DEF BlockedRequests
  <2>3. QED BY <1>1, <1>2, <1>11, <2>1, <2>2 DEF IInv, JobOK
<1>18. BlockersOK' /\ ManifestsOK'
  BY <1>1, <1>7, <1>8, <1>12, <1>14, <1>15 DEF IInv, BlockersOK, ManifestsOK, Said
<1>19. AuditsOK' /\ ClaimsOK' /\ ClosuresOK' /\ MetOnFile'
  BY <1>1, <1>12, <1>14, <1>15 DEF IInv, AuditsOK, ClaimsOK, ClosuresOK, MetOnFile, Said
<1>20. QED BY <1>16, <1>17, <1>18, <1>19 DEF IInv

\* A script that stops with the files as they were or less of them.
LEMMA InvStops ==
  ASSUME IInv, run' = Idle,
         disk' = [f \in Files |-> disk'[f]], \A f \in Files : disk'[f] \in {disk[f], Torn},
         raw' = [r \in Requests |-> raw'[r]],
         history'.given = history.given, history'.met = history.met, history'.told = history.told,
         history' \in [given : SUBSET Reasons, met : SUBSET Reasons, told : SUBSET Reasons, mixed : BOOLEAN],
         \/ raw' = raw /\ history'.mixed = history.mixed
         \/ history'.mixed = TRUE
  PROVE  IInv'
<1>1. /\ run'.script = "none" /\ run'.left = <<>> /\ run'.entries = <<>> /\ run'.todo = <<>>
      /\ IsRun(run')
  BY DEF Idle, IsRun
<1>2. \A f : Coming(f)' = {}
  BY <1>1, ToSetOfFew DEF Coming
<1>3. \A f \in Files : Held(f)' \subseteq Held(f)
  <2>1. ~IsWhole(Torn)
    BY DEF IsWhole, Torn
  <2>2. QED BY <2>1 DEF Held
<1>4. Typed'
  <2>1. \A f \in Files : disk[f] \in {Absent, Torn} \/ disk[f] = Whole(disk[f].content)
    BY DEF IInv, Typed
  <2>2. \A f \in Files : disk'[f] \in {Absent, Torn} \/ disk'[f] = Whole(disk'[f].content)
    BY <2>1
  <2>3. QED BY <1>1, <2>2, ToSetOfFew DEF Typed
<1>5. JobOK'
  BY <1>1, ToSetOfFew DEF JobOK, BlockedRequests
<1>6. \A c : Counted(c) <=> Counted(c)'
  BY DEF Counted
<1>7. Torn # Absent
  BY DEF Torn, Absent
<1>8. BlockersOK' /\ AuditsOK' /\ ClaimsOK' /\ ClosuresOK' /\ MetOnFile'
  BY <1>2, <1>3, <1>6, <1>7, FilesAre
  DEF IInv, BlockersOK, AuditsOK, ClaimsOK, ClosuresOK, MetOnFile, Said
<1>9. ManifestsOK'
  BY <1>2, <1>3, FilesAre DEF IInv, ManifestsOK, Hashed
<1>10. QED BY <1>4, <1>5, <1>8, <1>9 DEF IInv

LEMMA InvKill == ASSUME IInv, Kill PROVE IInv'
<1>1. Typed /\ run' = Idle
  BY DEF IInv, Kill, Dies
<1>2. disk = [f \in Files |-> disk[f]] /\ raw = [r \in Requests |-> raw[r]]
  BY <1>1 DEF Typed
<1>3. CASE UNCHANGED <<disk, raw, history>>
  BY <1>1, <1>3, InvIdled
<1>4. CASE /\ run.todo # <<>>
           /\ disk' = [disk EXCEPT ![Head(run.todo).file] = Torn]
           /\ UNCHANGED <<raw, history>>
  <2>1. disk' = [f \in Files |-> disk'[f]] /\ \A f \in Files : disk'[f] \in {disk[f], Torn}
    BY <1>2, <1>4
  <2>2. history \in [given : SUBSET Reasons, met : SUBSET Reasons, told : SUBSET Reasons, mixed : BOOLEAN]
    BY <1>1 DEF Typed
  <2>3. QED BY <1>1, <1>2, <1>4, <2>1, <2>2, InvStops
<1>5. CASE /\ Fetching
           /\ raw' = [raw EXCEPT ![Head(run.left)] = Torn]
           /\ history' = [history EXCEPT !.mixed = TRUE]
           /\ UNCHANGED disk
  <2>1. raw' = [r \in Requests |-> raw'[r]]
    BY <1>2, <1>5
  <2>2. /\ history'.given = history.given /\ history'.met = history.met
        /\ history'.told = history.told /\ history'.mixed = TRUE
        /\ history' \in [given : SUBSET Reasons, met : SUBSET Reasons, told : SUBSET Reasons, mixed : BOOLEAN]
    BY <1>1, <1>5, HistoryUpdates
  <2>3. QED BY <1>1, <1>2, <1>5, <2>1, <2>2, InvStops
<1>6. QED BY <1>3, <1>4, <1>5 DEF Kill

\* What the history says once a file is written.
LEMMA Remembers ==
  ASSUME Typed, NEW file, NEW done \in BOOLEAN, Remember(file, done),
         NEW refused \in SUBSET Reasons,
         refused = {e.reason : e \in {d \in ToSet(run.entries) : d.status = "blocked"}}
  PROVE  /\ history'.given = history.given
         /\ history'.told = IF file = Json("audit") THEN history.met ELSE history.told
         /\ history'.mixed = IF file = Json("manifest") THEN FALSE ELSE history.mixed
         /\ history'.met = IF done THEN history.met \cup refused ELSE history.met
         /\ history' \in [given : SUBSET Reasons, met : SUBSET Reasons, told : SUBSET Reasons, mixed : BOOLEAN]
<1> DEFINE told == IF file = Json("audit") THEN history.met ELSE history.told
           mixed == IF file = Json("manifest") THEN FALSE ELSE history.mixed
           met == IF done THEN history.met \cup refused ELSE history.met
<1>1. history' = [history EXCEPT !.told = told, !.mixed = mixed, !.met = met]
  BY DEF Remember
<1>2. /\ history \in [given : SUBSET Reasons, met : SUBSET Reasons, told : SUBSET Reasons, mixed : BOOLEAN]
  BY DEF Typed
<1>3. told \in SUBSET Reasons /\ mixed \in BOOLEAN /\ met \in SUBSET Reasons
  BY <1>2
<1> HIDE DEF told, mixed, met
<1>4. /\ history'.given = history.given /\ history'.told = told /\ history'.mixed = mixed
      /\ history'.met = met
      /\ history' \in [given : SUBSET Reasons, met : SUBSET Reasons, told : SUBSET Reasons, mixed : BOOLEAN]
  BY <1>1, <1>2, <1>3
<1>5. QED BY <1>4 DEF told, mixed, met

LEMMA InvWriteNext == ASSUME IInv, WriteNext PROVE IInv'
<1> DEFINE put == Head(run.todo)
           t == Tail(run.todo)
           done == t = <<>>
           refused == {e.reason : e \in {d \in ToSet(run.entries) : d.status = "blocked"}}
<1>1. /\ run.todo # <<>> /\ disk' = [disk EXCEPT ![put.file] = Whole(put.content)]
      /\ Remember(put.file, done) /\ UNCHANGED raw
      /\ done => run' = Idle
      /\ ~done => run' = [run EXCEPT !.todo = t]
  BY DEF WriteNext, Dies
<1>2. Typed /\ IsRun(run) /\ IsSeq(run.todo) /\ run.left = <<>>
  BY <1>1 DEF IInv, Typed, JobOK
<1>3. /\ IsSeq(t) /\ put \in ToSet(run.todo) /\ ToSet(run.todo) = {put} \cup ToSet(t)
      /\ ~done => t[Len(t)] = run.todo[Len(run.todo)]
      /\ done => put = run.todo[Len(run.todo)]
  BY <1>1, <1>2, ToSetOfTail
<1>4. refused \in SUBSET Reasons /\ (refused # {} => BlockedRequests(run.entries) # {})
  <2>1. \A e \in ToSet(run.entries) : e.status = "blocked" => e.reason \in history.given
    BY DEF IInv, JobOK
  <2>2. history.given \subseteq Reasons
    BY <1>2 DEF Typed
  <2>3. QED BY <2>1, <2>2 DEF BlockedRequests
<1>5. /\ history'.given = history.given
      /\ history'.told = IF put.file = Json("audit") THEN history.met ELSE history.told
      /\ history'.mixed = IF put.file = Json("manifest") THEN FALSE ELSE history.mixed
      /\ history'.met = IF done THEN history.met \cup refused ELSE history.met
      /\ history' \in [given : SUBSET Reasons, met : SUBSET Reasons, told : SUBSET Reasons, mixed : BOOLEAN]
  BY <1>1, <1>2, <1>4, Remembers, ZenonT(30)
<1>6. put.file \in Files /\ \A f : put.file = f => put.content \in Coming(f)
  BY <1>2, <1>3 DEF Typed, Coming
<1>7. done => /\ run'.script = "none" /\ run'.left = <<>> /\ run'.entries = <<>> /\ run'.todo = <<>>
              /\ IsRun(run')
  BY <1>1 DEF Idle, IsRun
<1>8. ~done => /\ run'.script = run.script /\ run'.left = <<>> /\ run'.entries = run.entries
               /\ run'.todo = t /\ IsRun(run')
  <2> HIDE DEF t
  <2>1. QED BY <1>1, <1>2 DEF IsRun
<1>9. /\ disk' = [f \in Files |-> disk'[f]] /\ disk'[put.file] = Whole(put.content)
      /\ \A f \in Files : f # put.file => disk'[f] = disk[f]
  <2>1. disk = [f \in Files |-> disk[f]]
    BY <1>2 DEF Typed
  <2> HIDE DEF put
  <2>2. QED BY <1>1, <1>6, <2>1
<1> HIDE DEF put, done, refused
<1>10. /\ Whole(put.content).content = put.content /\ Whole(put.content) # Absent
       /\ IsWhole(Whole(put.content))
  BY DEF Whole, Absent, IsWhole
<1>11. \A f \in Files : Held(f)' = IF f = put.file THEN {put.content} ELSE Held(f)
  BY <1>9, <1>10 DEF Held
<1>12. /\ \A f : Coming(f)' \subseteq Coming(f)
       /\ done => \A f : Coming(f)' = {}
  <2>1. CASE done
    BY <1>7, <2>1, ToSetOfFew DEF Coming
  <2>2. CASE ~done
    BY <1>3, <1>8, <2>2 DEF Coming
  <2>3. QED BY <2>1, <2>2
<1>13. \A f \in Files : Said(f)' \subseteq Said(f)
  BY <1>6, <1>11, <1>12 DEF Said
<1>14. \A c : (Counted(c) <=> Counted(c)') /\ (Hashed(c) <=> Hashed(c)')
  BY <1>1 DEF Counted, Hashed
<1>15. Typed'
  <2>1. \A f \in Files : disk'[f] \in {Absent, Torn} \/ disk'[f] = Whole(disk'[f].content)
    BY <1>2, <1>9, <1>10 DEF Typed
  <2>2. CASE done
    BY <1>1, <1>2, <1>5, <1>7, <1>9, <2>1, <2>2, ToSetOfFew DEF Typed
  <2>3. CASE ~done
    BY <1>1, <1>2, <1>3, <1>5, <1>8, <1>9, <2>1, <2>3, ToSetOfFew DEF Typed
  <2>4. QED BY <2>2, <2>3
<1>16. JobOK'
  <2>1. CASE done
    BY <1>7, <2>1, ToSetOfFew DEF JobOK, BlockedRequests
  <2>2. CASE ~done
    <3>1. BlockedRequests(run.entries)' = BlockedRequests(run.entries)
      BY <1>8, <2>2 DEF BlockedRequests
    <3>2. QED BY <1>1, <1>2, <1>3, <1>5, <1>8, <2>2, <3>1 DEF IInv, JobOK
  <2>3. QED BY <2>1, <2>2
<1>17. BlockersOK' /\ ClaimsOK' /\ ClosuresOK'
  BY <1>5, <1>13, FilesAre DEF IInv, BlockersOK, ClaimsOK, ClosuresOK
<1>18. ManifestsOK'
  BY <1>5, <1>6, <1>11, <1>12, <1>14, FilesAre DEF IInv, ManifestsOK
<1>19. AuditsOK'
  <2>1. \A c \in Said(Json("audit"))' : (c.reasons \subseteq history.given)' /\ Counted(c)'
    BY <1>5, <1>13, <1>14, FilesAre DEF IInv, AuditsOK
  <2>2. \A c \in Held(Json("audit"))' : c.provider = "available" => history'.told = {}
    BY <1>5, <1>6, <1>11, FilesAre DEF IInv, AuditsOK
  <2>3. \A c \in Coming(Json("audit"))' : c.provider = "available" => history'.met = {}
    BY <1>5, <1>12 DEF IInv, AuditsOK
  <2>4. QED BY <2>1, <2>2, <2>3 DEF AuditsOK
<1>20. MetOnFile'
  <2>1. disk[Blocker] # Absent => disk'[Blocker] # Absent
    BY <1>9, <1>10, FilesAre
  <2>2. done /\ refused # {} => disk'[Blocker] # Absent
    BY <1>1, <1>3, <1>4, <1>9, <1>10 DEF IInv, JobOK
  <2>3. QED BY <1>5, <2>1, <2>2 DEF IInv, MetOnFile
<1>21. QED BY <1>15, <1>16, <1>17, <1>18, <1>19, <1>20 DEF IInv

LEMMA InvNext == ChainAssumption /\ IInv /\ [Next]_vars => IInv'
<1> SUFFICES ASSUME ChainAssumption, IInv, [Next]_vars PROVE IInv'
  OBVIOUS
<1>1. CASE UNCHANGED vars
  BY <1>1, InvUnchanged DEF vars
<1>2. CASE Select
  BY <1>2, InvSelect
<1>3. CASE \E l \in RequestLists : Ingest(l)
  BY <1>3, InvIngest
<1>4. CASE \E p \in Payloads : FetchPayload(p)
  BY <1>4, InvFetchPayload
<1>5. CASE \E reason \in Reasons : FetchBlocked(reason)
  BY <1>5, InvFetchBlocked
<1>6. CASE FetchRaises \/ ManifestRaises
  BY <1>6, InvFetchRaises, InvManifestRaises
<1>7. CASE BuildManifest
  BY <1>7, InvBuildManifest
<1>8. CASE \E f \in Fixtures : Microstructure(f)
  BY <1>8, InvMicrostructure
<1>9. CASE \E in \in ClosureInputs : ClaimReadiness(in.v51) \/ Closure(in)
  BY <1>9, InvClaimReadiness, InvClosure
<1>10. CASE WriteNext
  BY <1>10, InvWriteNext
<1>11. CASE Kill
  BY <1>11, InvKill
<1>12. QED
  BY <1>1, <1>2, <1>3, <1>4, <1>5, <1>6, <1>7, <1>8, <1>9, <1>10, <1>11 DEF Next

\* Whatever was asked for, whatever the provider or the disk answered and wherever runs
\* were killed or repeated, the v5.2 reports rest on evidence that was met: hashes are of
\* the raw files on disk unless a later ingest broke off, the details cited are those of
\* requests that were blocked (the codes beside them are the script's own), availability
\* is claimed over no blocked request on file, a milestone closes on a request that was
\* blocked, and an audit's counts of crossed and locked asks are those of its rows.
THEOREM EvidenceIsMet == Spec => []EvidenceHolds
<1>1. IInv /\ [Next]_vars => IInv'
  BY InvNext, ChainAssumption
<1>2. QED BY InvInit, InvImplies, <1>1, PTL DEF Spec

===============================================================================
