----------------------- MODULE HybridRetrievalProofs -----------------------
(***************************************************************************)
(* Fusion ranks what the searches found without losing or repeating any of *)
(* it, selection keeps the best, and agreement of the searches wins, for   *)
(* any result lists, limits, sources and chunks.                           *)
(***************************************************************************)
EXTENDS HybridRetrieval, FunctionTheorems, FiniteSetTheorems, TLAPS

-----------------------------------------------------------------------------
\* Arrangements.

StrictOrder(S, R) ==
    /\ \A x \in S : <<x, x>> \notin R
    /\ \A x, y, z \in S : <<x, y>> \in R /\ <<y, z>> \in R => <<x, z>> \in R
    /\ \A x, y \in S : x # y => <<x, y>> \in R \/ <<y, x>> \in R

\* Counting what comes before gives every member a place of its own.
LEMMA ArrangedInOrder ==
  ASSUME NEW S, IsFiniteSet(S), NEW R, StrictOrder(S, R)
  PROVE  /\ Cardinality(S) \in Nat
         /\ Arranged(S, R) \in [1..Cardinality(S) -> S]
         /\ \A x \in S : \E k \in 1..Cardinality(S) : Arranged(S, R)[k] = x
         /\ \A k, l \in 1..Cardinality(S) : k < l => <<Arranged(S, R)[k], Arranged(S, R)[l]>> \in R
<1> DEFINE n == Cardinality(S)
           before(x) == {y \in S : <<y, x>> \in R}
           place == [x \in S |-> Cardinality(before(x)) + 1]
           a == Arranged(S, R)
<1>0. n \in Nat
  BY FS_CardinalityType
<1>1. ASSUME NEW x \in S
      PROVE  /\ IsFiniteSet(before(x))
             /\ Cardinality(before(x)) \in Nat
             /\ Cardinality(before(x)) + 1 <= n
  <2>1. before(x) \in SUBSET (S \ {x})
    BY DEF StrictOrder
  <2>2. IsFiniteSet(S \ {x}) /\ Cardinality(S \ {x}) = n - 1
    BY FS_RemoveElement
  <2>3. IsFiniteSet(before(x)) /\ Cardinality(before(x)) <= Cardinality(S \ {x})
    BY <2>1, <2>2, FS_Subset
  <2>4. Cardinality(before(x)) \in Nat
    BY <2>3, FS_CardinalityType
  <2> HIDE DEF before, n
  <2> QED
    BY <2>2, <2>3, <2>4, <1>0
<1>2. place \in [S -> 1..n]
  <2> HIDE DEF before, n
  <2> QED
    BY <1>0, <1>1
<1>3. ASSUME NEW x \in S, NEW y \in S, <<x, y>> \in R
      PROVE  place[x] < place[y]
  <2>1. before(x) \cup {x} \in SUBSET before(y)
    BY <1>3 DEF StrictOrder
  <2>2. x \notin before(x)
    BY DEF StrictOrder
  <2> HIDE DEF before, n
  <2>3. Cardinality(before(x) \cup {x}) = Cardinality(before(x)) + 1
    BY <2>2, <1>1, FS_AddElement
  <2>4. Cardinality(before(x) \cup {x}) <= Cardinality(before(y))
    BY <2>1, <1>1, FS_Subset
  <2> QED
    BY <2>3, <2>4, <1>1
<1> HIDE DEF place, n
<1>4. \A x, y \in S : place[x] = place[y] => x = y
  <2> SUFFICES ASSUME NEW x \in S, NEW y \in S, place[x] = place[y], x # y
               PROVE  FALSE
    OBVIOUS
  <2>1. <<x, y>> \in R \/ <<y, x>> \in R
    BY DEF StrictOrder
  <2>2. place[x] < place[y] \/ place[y] < place[x]
    BY <2>1, <1>3
  <2>3. place[x] \in 1..n /\ place[y] \in 1..n
    BY <1>2
  <2> QED
    BY <2>2, <2>3, <1>0
<1>5. place \in Surjection(S, 1..n)
  <2>1. place \in Injection(S, 1..n)
    BY <1>2, <1>4 DEF Injection, IsInjective
  <2>2. IsFiniteSet(1..n) /\ Cardinality(1..n) = n
    BY <1>0, FS_Interval
  <2> QED
    BY <2>1, <2>2, FS_Injection DEF n
<1>6. \A k \in 1..n : a[k] \in S /\ place[a[k]] = k
  <2> SUFFICES ASSUME NEW k \in 1..n
               PROVE  a[k] \in S /\ place[a[k]] = k
    OBVIOUS
  <2>1. PICK x \in S : place[x] = k
    BY <1>5 DEF Surjection
  <2>2. Cardinality(before(x)) = k - 1
    BY <2>1, <1>1, <1>0 DEF place
  <2>3. a[k] = CHOOSE y \in S : Cardinality(before(y)) = k - 1
    BY DEF Arranged, n
  <2>4. a[k] \in S /\ Cardinality(before(a[k])) = k - 1
    BY <2>2, <2>3
  <2> QED
    BY <2>4, <1>0 DEF place
<1>7. a \in [1..n -> S]
  <2> DEFINE c(k) == CHOOSE y \in S : Cardinality(before(y)) = k - 1
  <2>1. a = [k \in 1..n |-> c(k)]
    BY DEF Arranged, n
  <2>2. \A k \in 1..n : a[k] = c(k)
    BY <2>1
  <2> HIDE DEF a, c
  <2> QED
    BY <2>1, <2>2, <1>6
<1>8. \A x \in S : \E k \in 1..n : a[k] = x
  BY <1>2, <1>4, <1>6
<1>9. \A k, l \in 1..n : k < l => <<a[k], a[l]>> \in R
  <2> SUFFICES ASSUME NEW k \in 1..n, NEW l \in 1..n, k < l
               PROVE  <<a[k], a[l]>> \in R
    OBVIOUS
  <2>1. a[k] # a[l]
    BY <1>6, <1>0
  <2>2. <<a[k], a[l]>> \in R \/ <<a[l], a[k]>> \in R
    BY <2>1, <1>6 DEF StrictOrder
  <2>3. ~(<<a[l], a[k]>> \in R)
    BY <1>3, <1>6, <1>0
  <2> QED
    BY <2>2, <2>3
<1> QED
  BY <1>0, <1>7, <1>8, <1>9 DEF n

\* The places of a subset of 1..n in ascending order.
LEMMA ElementsInOrder ==
  ASSUME NEW s, NEW n \in Nat, NEW I \in SUBSET (1..n)
  PROVE  /\ Cardinality(I) \in Nat
         /\ \E p \in [1..Cardinality(I) -> I] :
              /\ ElementsAt(s, I) = [k \in 1..Cardinality(I) |-> s[p[k]]]
              /\ \A i \in I : \E k \in 1..Cardinality(I) : p[k] = i
              /\ \A k, l \in 1..Cardinality(I) : k < l => p[k] < p[l]
<1> DEFINE R == {p \in I \X I : p[1] < p[2]}
           a == Arranged(I, R)
<1>1. IsFiniteSet(I)
  <2>1. IsFiniteSet(1..n)
    BY FS_Interval
  <2> QED
    BY <2>1, FS_Subset
<1>2. \A x, y \in I : <<x, y>> \in R <=> x < y
  OBVIOUS
<1>3. StrictOrder(I, R)
  BY <1>2 DEF StrictOrder
<1>4. /\ Cardinality(I) \in Nat
      /\ a \in [1..Cardinality(I) -> I]
      /\ \A i \in I : \E k \in 1..Cardinality(I) : a[k] = i
      /\ \A k, l \in 1..Cardinality(I) : k < l => <<a[k], a[l]>> \in R
  BY <1>1, <1>3, ArrangedInOrder
<1>5. \A k, l \in 1..Cardinality(I) : k < l => a[k] < a[l]
  BY <1>4, <1>2
<1>6. ElementsAt(s, I) = [k \in 1..Cardinality(I) |-> s[a[k]]]
  BY DEF ElementsAt
<1> QED
  BY <1>4, <1>5, <1>6

-----------------------------------------------------------------------------
\* Fractions.

Fractions == Nat \X (Nat \ {0})

LEMMA Multiplying ==
  ASSUME NEW a \in Nat, NEW b \in Nat, NEW c \in Nat \ {0}
  PROVE  /\ a > b <=> a * c > b * c
         /\ a >= b <=> a * c >= b * c
  OBVIOUS

LEMMA CrossTransitive ==
  ASSUME NEW n1 \in Nat, NEW n2 \in Nat, NEW n3 \in Nat,
         NEW d1 \in Nat \ {0}, NEW d2 \in Nat \ {0}, NEW d3 \in Nat \ {0},
         n1 * d2 >= n2 * d1, n2 * d3 >= n3 * d2
  PROVE  /\ n1 * d3 >= n3 * d1
         /\ n1 * d2 > n2 * d1 \/ n2 * d3 > n3 * d2 => n1 * d3 > n3 * d1
<1>1. /\ n1 * d2 \in Nat /\ n2 * d1 \in Nat /\ n2 * d3 \in Nat /\ n3 * d2 \in Nat
      /\ n1 * d3 \in Nat /\ n3 * d1 \in Nat
  OBVIOUS
<1>2. /\ (n1 * d2) * d3 >= (n2 * d1) * d3
      /\ n1 * d2 > n2 * d1 => (n1 * d2) * d3 > (n2 * d1) * d3
  BY <1>1, Multiplying
<1>3. /\ (n2 * d3) * d1 >= (n3 * d2) * d1
      /\ n2 * d3 > n3 * d2 => (n2 * d3) * d1 > (n3 * d2) * d1
  BY <1>1, Multiplying
<1>4. /\ (n1 * d3) * d2 = (n1 * d2) * d3
      /\ (n2 * d1) * d3 = (n2 * d3) * d1
      /\ (n3 * d1) * d2 = (n3 * d2) * d1
  OBVIOUS
<1>5. /\ (n1 * d3) * d2 >= (n3 * d1) * d2
      /\ n1 * d2 > n2 * d1 \/ n2 * d3 > n3 * d2 => (n1 * d3) * d2 > (n3 * d1) * d2
  <2>1. /\ (n1 * d2) * d3 \in Nat /\ (n2 * d1) * d3 \in Nat /\ (n2 * d3) * d1 \in Nat
        /\ (n3 * d2) * d1 \in Nat /\ (n1 * d3) * d2 \in Nat /\ (n3 * d1) * d2 \in Nat
    OBVIOUS
  <2> QED
    BY <2>1, <1>2, <1>3, <1>4
<1> QED
  BY <1>1, <1>5, Multiplying

\* Comparing by cross multiplication is an order.
LEMMA FractionsAreOrdered ==
  ASSUME NEW a \in Fractions, NEW b \in Fractions, NEW c \in Fractions
  PROVE  /\ Above(a, b) \/ Same(a, b) \/ Above(b, a)
         /\ ~(Above(a, b) /\ Same(a, b)) /\ ~(Above(a, b) /\ Above(b, a))
         /\ Same(a, a)
         /\ Same(a, b) <=> Same(b, a)
         /\ (Above(a, b) \/ Same(a, b)) /\ (Above(b, c) \/ Same(b, c)) =>
              /\ Above(a, c) \/ Same(a, c)
              /\ Above(a, b) \/ Above(b, c) => Above(a, c)
         /\ Same(a, b) /\ Same(b, c) => Same(a, c)
<1>1. /\ a[1] \in Nat /\ b[1] \in Nat /\ c[1] \in Nat
      /\ a[2] \in Nat \ {0} /\ b[2] \in Nat \ {0} /\ c[2] \in Nat \ {0}
  BY DEF Fractions
<1>2. \A m \in {a[1], b[1], c[1]}, d \in {a[2], b[2], c[2]} : m * d \in Nat
  BY <1>1
<1>3. ASSUME Above(a, b) \/ Same(a, b), Above(b, c) \/ Same(b, c)
      PROVE  /\ Above(a, c) \/ Same(a, c)
             /\ Above(a, b) \/ Above(b, c) => Above(a, c)
  <2>1. a[1] * b[2] >= b[1] * a[2] /\ b[1] * c[2] >= c[1] * b[2]
    BY <1>2, <1>3 DEF Above, Same
  <2>2. /\ a[1] * c[2] >= c[1] * a[2]
        /\ a[1] * b[2] > b[1] * a[2] \/ b[1] * c[2] > c[1] * b[2] => a[1] * c[2] > c[1] * a[2]
    BY <1>1, <2>1, CrossTransitive
  <2> QED
    BY <1>2, <2>2 DEF Above, Same
<1>4. ASSUME Same(a, b), Same(b, c)
      PROVE  Same(a, c)
  <2>1. a[1] * c[2] >= c[1] * a[2]
    <3>1. a[1] * b[2] >= b[1] * a[2] /\ b[1] * c[2] >= c[1] * b[2]
      BY <1>2, <1>4 DEF Same
    <3> QED
      BY <1>1, <3>1, CrossTransitive
  <2>2. c[1] * a[2] >= a[1] * c[2]
    <3>1. c[1] * b[2] >= b[1] * c[2] /\ b[1] * a[2] >= a[1] * b[2]
      BY <1>2, <1>4 DEF Same
    <3> QED
      BY <1>1, <3>1, CrossTransitive
  <2> QED
    BY <1>2, <2>1, <2>2 DEF Same
<1>5. /\ Above(a, b) \/ Same(a, b) \/ Above(b, a)
      /\ ~(Above(a, b) /\ Same(a, b)) /\ ~(Above(a, b) /\ Above(b, a))
      /\ Same(a, a)
      /\ Same(a, b) <=> Same(b, a)
  BY <1>2 DEF Above, Same
<1> QED
  BY <1>3, <1>4, <1>5

LEMMA SumsAreFractions ==
  ASSUME NEW a \in Fractions, NEW b \in Fractions
  PROVE  Plus(a, b) \in Fractions
<1>1. a[1] \in Nat /\ b[1] \in Nat /\ a[2] \in Nat \ {0} /\ b[2] \in Nat \ {0}
  BY DEF Fractions
<1>2. a[1] * b[2] + b[1] * a[2] \in Nat
  BY <1>1
<1>3. a[2] * b[2] \in Nat \ {0}
  BY <1>1
<1> QED
  BY <1>2, <1>3 DEF Plus, Fractions

-----------------------------------------------------------------------------
\* Sequences.

Distinct(s) == \A i, j \in DOMAIN s : s[i] = s[j] => i = j

\* t lists what s has at the places 1..n once each, by descending score, p being its places in s.
Sorts(p, t, s, n, score) ==
    /\ t \in [1..n -> RangeOf(s)]
    /\ \A k \in 1..n : t[k] = s[p[k]]
    /\ \A i \in 1..n : \E k \in 1..n : p[k] = i
    /\ \A k, l \in 1..n : k < l =>
         \/ Above(score[p[k]], score[p[l]])
         \/ Same(score[p[k]], score[p[l]]) /\ p[k] < p[l]

\* sorted(..., reverse=True).
LEMMA SortedStably ==
  ASSUME NEW s, NEW n \in Nat, DOMAIN s = 1..n, NEW score \in [1..n -> Fractions]
  PROVE  \E p \in [1..n -> 1..n] : Sorts(p, StableDescending(s, score), s, n, score)
<1> DEFINE first(i, j) == Above(score[i], score[j]) \/ (Same(score[i], score[j]) /\ i < j)
           R == {p \in (1..n) \X (1..n) : first(p[1], p[2])}
           a == Arranged(1..n, R)
<1>1. IsFiniteSet(1..n) /\ Cardinality(1..n) = n
  BY FS_Interval
<1>2. \A x, y \in 1..n : <<x, y>> \in R <=> first(x, y)
  OBVIOUS
<1>3. StrictOrder(1..n, R)
  <2>1. \A x \in 1..n : ~first(x, x)
    <3> SUFFICES ASSUME NEW x \in 1..n PROVE ~first(x, x)
      OBVIOUS
    <3>1. score[x] \in Fractions
      OBVIOUS
    <3>2. ~Above(score[x], score[x])
      BY <3>1, FractionsAreOrdered
    <3> QED
      BY <3>2
  <2>2. \A x, y, z \in 1..n : first(x, y) /\ first(y, z) => first(x, z)
    <3> SUFFICES ASSUME NEW x \in 1..n, NEW y \in 1..n, NEW z \in 1..n, first(x, y), first(y, z)
                 PROVE  first(x, z)
      OBVIOUS
    <3>1. score[x] \in Fractions /\ score[y] \in Fractions /\ score[z] \in Fractions
      OBVIOUS
    <3>2. /\ Above(score[x], score[z]) \/ Same(score[x], score[z])
          /\ Above(score[x], score[y]) \/ Above(score[y], score[z]) => Above(score[x], score[z])
      BY <3>1, FractionsAreOrdered
    <3>3. CASE Above(score[x], score[y]) \/ Above(score[y], score[z])
      BY <3>2, <3>3
    <3>4. CASE ~(Above(score[x], score[y]) \/ Above(score[y], score[z]))
      <4>1. x < y /\ y < z
        BY <3>4
      <4>2. x < z
        BY <4>1
      <4> QED
        BY <4>2, <3>2
    <3> QED
      BY <3>3, <3>4
  <2>3. \A x, y \in 1..n : x # y => first(x, y) \/ first(y, x)
    <3> SUFFICES ASSUME NEW x \in 1..n, NEW y \in 1..n, x # y
                 PROVE  first(x, y) \/ first(y, x)
      OBVIOUS
    <3>1. score[x] \in Fractions /\ score[y] \in Fractions
      OBVIOUS
    <3>2. x < y \/ y < x
      OBVIOUS
    <3>3. /\ Above(score[x], score[y]) \/ Same(score[x], score[y]) \/ Above(score[y], score[x])
          /\ Same(score[x], score[y]) <=> Same(score[y], score[x])
      BY <3>1, FractionsAreOrdered
    <3> QED
      BY <3>2, <3>3
  <2> HIDE DEF first, R
  <2> QED
    BY <1>2, <2>1, <2>2, <2>3 DEF StrictOrder
<1>4. /\ a \in [1..n -> 1..n]
      /\ \A i \in 1..n : \E k \in 1..n : a[k] = i
      /\ \A k, l \in 1..n : k < l => <<a[k], a[l]>> \in R
  <2> HIDE DEF R
  <2>1. /\ a \in [1..Cardinality(1..n) -> 1..n]
        /\ \A x \in 1..n : \E k \in 1..Cardinality(1..n) : a[k] = x
        /\ \A k, l \in 1..Cardinality(1..n) : k < l => <<a[k], a[l]>> \in R
    BY <1>1, <1>3, ArrangedInOrder, Zenon
  <2> HIDE DEF a
  <2> QED
    BY <1>1, <2>1
<1>5. StableDescending(s, score) = [k \in 1..n |-> s[a[k]]]
  BY DEF StableDescending
<1>6. \A k, l \in 1..n : k < l => first(a[k], a[l])
  <2> HIDE DEF R, first, a
  <2> QED
    BY <1>2, <1>4
<1>7. /\ StableDescending(s, score) \in [1..n -> RangeOf(s)]
      /\ \A k \in 1..n : StableDescending(s, score)[k] = s[a[k]]
  <2> HIDE DEF a
  <2> QED
    BY <1>4, <1>5 DEF RangeOf
<1> HIDE DEF a
<1>8. Sorts(a, StableDescending(s, score), s, n, score)
  BY <1>4, <1>6, <1>7 DEF Sorts
<1> QED
  BY <1>4, <1>8

LEMMA Joined ==
  ASSUME NEW S, NEW s \in Seq(S), NEW t \in Seq(S),
         Distinct(s), Distinct(t), RangeOf(s) \cap RangeOf(t) = {}
  PROVE  /\ s \o t \in Seq(S)
         /\ Distinct(s \o t)
         /\ RangeOf(s \o t) = RangeOf(s) \cup RangeOf(t)
<1>1. /\ s \o t \in Seq(S)
      /\ Len(s \o t) = Len(s) + Len(t)
      /\ DOMAIN (s \o t) = 1..(Len(s) + Len(t))
      /\ \A i \in 1..(Len(s) + Len(t)) : (s \o t)[i] = IF i <= Len(s) THEN s[i] ELSE t[i - Len(s)]
  OBVIOUS
<1>2. /\ DOMAIN s = 1..Len(s) /\ DOMAIN t = 1..Len(t)
      /\ Len(s) \in Nat /\ Len(t) \in Nat
  OBVIOUS
<1>3. \A i \in DOMAIN (s \o t) :
        \/ i \in DOMAIN s /\ (s \o t)[i] = s[i]
        \/ i - Len(s) \in DOMAIN t /\ i > Len(s) /\ (s \o t)[i] = t[i - Len(s)]
  BY <1>1, <1>2
<1>4. \A i \in DOMAIN s, j \in DOMAIN t : s[i] # t[j]
  BY DEF RangeOf
<1>5. Distinct(s \o t)
  <2> SUFFICES ASSUME NEW i \in DOMAIN (s \o t), NEW j \in DOMAIN (s \o t),
                      (s \o t)[i] = (s \o t)[j]
               PROVE  i = j
    BY DEF Distinct
  <2>1. CASE i \in DOMAIN s /\ (s \o t)[i] = s[i]
    BY <2>1, <1>3, <1>4 DEF Distinct
  <2>2. CASE i - Len(s) \in DOMAIN t /\ i > Len(s) /\ (s \o t)[i] = t[i - Len(s)]
    <3>1. j - Len(s) \in DOMAIN t /\ (s \o t)[j] = t[j - Len(s)]
      BY <2>2, <1>3, <1>4
    <3>2. i - Len(s) = j - Len(s)
      BY <2>2, <3>1 DEF Distinct
    <3> QED
      BY <3>2, <1>1, <1>2
  <2> QED
    BY <2>1, <2>2, <1>3
<1>6. RangeOf(s \o t) = RangeOf(s) \cup RangeOf(t)
  <2>1. RangeOf(s \o t) \subseteq RangeOf(s) \cup RangeOf(t)
    BY <1>3 DEF RangeOf
  <2>2. \A i \in DOMAIN s : i \in DOMAIN (s \o t) /\ (s \o t)[i] = s[i]
    BY <1>1, <1>2
  <2>3. \A j \in DOMAIN t : j + Len(s) \in DOMAIN (s \o t) /\ (s \o t)[j + Len(s)] = t[j]
    <3> SUFFICES ASSUME NEW j \in DOMAIN t
                 PROVE  j + Len(s) \in DOMAIN (s \o t) /\ (s \o t)[j + Len(s)] = t[j]
      OBVIOUS
    <3>1. j + Len(s) \in 1..(Len(s) + Len(t)) /\ ~(j + Len(s) <= Len(s)) /\ (j + Len(s)) - Len(s) = j
      BY <1>2
    <3> QED
      BY <3>1, <1>1
  <2>4. RangeOf(s) \subseteq RangeOf(s \o t)
    BY <2>2 DEF RangeOf
  <2>5. RangeOf(t) \subseteq RangeOf(s \o t)
    BY <2>3 DEF RangeOf
  <2> QED
    BY <2>1, <2>4, <2>5
<1> QED
  BY <1>1, <1>5, <1>6

LEMMA ListsAreSequences ==
  ASSUME NEW S, NEW max \in Nat, NEW s \in Lists(S, max)
  PROVE  /\ s \in Seq(S)
         /\ DOMAIN s = 1..Len(s) /\ Len(s) \in 0..max
         /\ Distinct(s)
         /\ RangeOf(s) \subseteq S
<1>1. PICK n \in 0..max : s \in [1..n -> S] /\ \A i, j \in 1..n : s[i] = s[j] => i = j
  BY DEF Lists
<1>2. s \in Seq(S) /\ Len(s) = n /\ DOMAIN s = 1..n
  BY <1>1
<1> QED
  BY <1>1, <1>2 DEF Distinct, RangeOf

LEMMA PositionIsUnique ==
  ASSUME NEW s, Distinct(s), NEW i \in DOMAIN s
  PROVE  PositionOf(s, s[i]) = i
  BY DEF Distinct, PositionOf

\* What ElementsAt takes from a sequence is in the order of the sequence.
LEMMA ElementsAreKept ==
  ASSUME NEW S, NEW s \in Seq(S), NEW I \in SUBSET (DOMAIN s), Distinct(s)
  PROVE  /\ ElementsAt(s, I) \in Seq(S)
         /\ DOMAIN ElementsAt(s, I) = 1..Len(ElementsAt(s, I))
         /\ Distinct(ElementsAt(s, I))
         /\ RangeOf(ElementsAt(s, I)) = {s[i] : i \in I}
         /\ \A k, l \in DOMAIN ElementsAt(s, I) : k < l =>
              \E i, j \in I : i < j /\ ElementsAt(s, I)[k] = s[i] /\ ElementsAt(s, I)[l] = s[j]
<1> DEFINE m == Cardinality(I)
           e == ElementsAt(s, I)
<1>1. DOMAIN s = 1..Len(s) /\ Len(s) \in Nat
  OBVIOUS
<1>2. m \in Nat
  BY <1>1, ElementsInOrder
<1>3. PICK p \in [1..m -> I] :
        /\ e = [k \in 1..m |-> s[p[k]]]
        /\ \A i \in I : \E k \in 1..m : p[k] = i
        /\ \A k, l \in 1..m : k < l => p[k] < p[l]
  BY <1>1, ElementsInOrder
<1> HIDE DEF m, e
<1>4. e \in Seq(S) /\ DOMAIN e = 1..m /\ Len(e) = m
  BY <1>1, <1>2, <1>3
<1>5. \A k, l \in 1..m : k < l => p[k] < p[l] /\ p[k] \in I /\ p[l] \in I /\ e[k] = s[p[k]] /\ e[l] = s[p[l]]
  BY <1>3
<1>6. Distinct(e)
  <2> SUFFICES ASSUME NEW k \in 1..m, NEW l \in 1..m, e[k] = e[l], k # l
               PROVE  FALSE
    BY <1>4 DEF Distinct
  <2>1. p[k] = p[l]
    BY <1>3, <1>1 DEF Distinct
  <2>2. p[k] \in Nat /\ p[l] \in Nat
    BY <1>3, <1>1
  <2>3. k < l \/ l < k
    BY <1>2
  <2> QED
    BY <2>1, <2>2, <2>3, <1>3
<1>7. RangeOf(e) = {s[i] : i \in I}
  <2>1. RangeOf(e) \subseteq {s[i] : i \in I}
    BY <1>3, <1>4 DEF RangeOf
  <2>2. \A i \in I : s[i] \in RangeOf(e)
    BY <1>3, <1>4 DEF RangeOf
  <2> QED
    BY <2>1, <2>2
<1>8. \A k, l \in 1..m : k < l => \E i, j \in I : i < j /\ e[k] = s[i] /\ e[l] = s[j]
  BY <1>5
<1> QED
  BY <1>4, <1>6, <1>7, <1>8 DEF e

-----------------------------------------------------------------------------
\* The ranking.

LEMMA ScoresAreFractions ==
  ASSUME RetrievalTypeOK, NEW x
  PROVE  Score(x) \in Fractions
<1>1. ASSUME NEW S, NEW s \in Seq(S), NEW w \in Nat
      PROVE  Points(s, x, w) \in Fractions
  <2>1. CASE x \in RangeOf(s)
    <3>1. PositionOf(s, x) \in DOMAIN s
      BY <2>1 DEF PositionOf, RangeOf
    <3>2. K + PositionOf(s, x) \in Nat \ {0}
      BY <3>1, RetrievalConstants
    <3> QED
      BY <2>1, <3>2 DEF Points, Fractions
  <2>2. CASE x \notin RangeOf(s)
    BY <2>2 DEF Points, Fractions
  <2> QED
    BY <2>1, <2>2
<1>2. vector \in Seq(Chunks) /\ keyword \in Seq(Chunks) /\ graph \in Seq(Facts)
  BY RetrievalConstants, ListsAreSequences DEF RetrievalTypeOK
<1>3. /\ Points(vector, x, 2) \in Fractions
      /\ Points(keyword, x, 2) \in Fractions
      /\ Points(graph, x, 3) \in Fractions
  BY <1>1, <1>2
<1> QED
  BY <1>3, SumsAreFractions DEF Score

\* Every chunk and fact found is one entry of the dictionary of scores.
LEMMA CandidatesAreDistinct ==
  ASSUME RetrievalTypeOK
  PROVE  /\ Candidates \in Seq(Chunks \cup Facts)
         /\ Distinct(Candidates)
         /\ RangeOf(Candidates) = RangeOf(vector) \cup RangeOf(keyword) \cup RangeOf(graph)
<1> DEFINE All == Chunks \cup Facts
           I == {i \in DOMAIN keyword : keyword[i] \notin RangeOf(vector)}
           e == ElementsAt(keyword, I)
<1>1. /\ vector \in Seq(Chunks) /\ Distinct(vector) /\ RangeOf(vector) \subseteq Chunks
      /\ keyword \in Seq(Chunks) /\ Distinct(keyword) /\ RangeOf(keyword) \subseteq Chunks
      /\ graph \in Seq(Facts) /\ Distinct(graph) /\ RangeOf(graph) \subseteq Facts
  BY RetrievalConstants, ListsAreSequences DEF RetrievalTypeOK
<1>2. vector \in Seq(All) /\ keyword \in Seq(All) /\ graph \in Seq(All)
  BY <1>1
<1>3. e \in Seq(All) /\ Distinct(e) /\ RangeOf(e) = {keyword[i] : i \in I}
  BY <1>1, <1>2, ElementsAreKept
<1>4. RangeOf(e) = RangeOf(keyword) \ RangeOf(vector)
  BY <1>3 DEF RangeOf
<1> HIDE DEF e, All
<1>5. /\ vector \o e \in Seq(All) /\ Distinct(vector \o e)
      /\ RangeOf(vector \o e) = RangeOf(vector) \cup RangeOf(keyword)
  <2>1. RangeOf(vector) \cap RangeOf(e) = {}
    BY <1>4
  <2>2. /\ vector \o e \in Seq(All) /\ Distinct(vector \o e)
        /\ RangeOf(vector \o e) = RangeOf(vector) \cup RangeOf(e)
    BY <1>1, <1>2, <1>3, <2>1, Joined
  <2> QED
    BY <2>2, <1>4
<1>6. RangeOf(vector \o e) \cap RangeOf(graph) = {}
  BY <1>1, <1>5, RetrievalConstants
<1> DEFINE found == vector \o e
<1>7. /\ found \o graph \in Seq(All) /\ Distinct(found \o graph)
      /\ RangeOf(found \o graph) = RangeOf(found) \cup RangeOf(graph)
  <2>1. found \in Seq(All) /\ Distinct(found) /\ RangeOf(found) \cap RangeOf(graph) = {}
    BY <1>5, <1>6
  <2> HIDE DEF found
  <2> QED
    BY <1>1, <1>2, <2>1, Joined
<1>8. Candidates = found \o graph
  BY DEF Candidates, e
<1> QED
  BY <1>5, <1>7, <1>8 DEF All

\* The ranking is the candidates, each once, in the order of their scores.
LEMMA RankingIsInOrder ==
  ASSUME RetrievalTypeOK
  PROVE  /\ Ranking \in Seq(Chunks \cup Facts)
         /\ DOMAIN Ranking = 1..Len(Ranking) /\ Len(Ranking) \in Nat
         /\ Distinct(Ranking)
         /\ RangeOf(Ranking) = RangeOf(Candidates)
         /\ \A k, l \in DOMAIN Ranking : k < l => Outranks(Ranking[k], Ranking[l])
<1> DEFINE n == Len(Candidates)
           score == [i \in DOMAIN Candidates |-> Score(Candidates[i])]
<1>1. /\ Candidates \in Seq(Chunks \cup Facts) /\ Distinct(Candidates)
      /\ n \in Nat /\ DOMAIN Candidates = 1..n
  BY CandidatesAreDistinct
<1>2. score \in [1..n -> Fractions]
  BY <1>1, ScoresAreFractions
<1>3. PICK p \in [1..n -> 1..n] : Sorts(p, Ranking, Candidates, n, score)
  <2> HIDE DEF n, score
  <2>1. Ranking = StableDescending(Candidates, score)
    BY DEF Ranking, score
  <2> QED
    BY <1>1, <1>2, <2>1, SortedStably
<1>4. /\ Ranking \in [1..n -> RangeOf(Candidates)]
      /\ \A k \in 1..n : Ranking[k] = Candidates[p[k]]
      /\ \A i \in 1..n : \E k \in 1..n : p[k] = i
      /\ \A k, l \in 1..n : k < l =>
           \/ Above(score[p[k]], score[p[l]])
           \/ Same(score[p[k]], score[p[l]]) /\ p[k] < p[l]
  <2> HIDE DEF n, score
  <2> QED
    BY <1>3 DEF Sorts
<1>5. /\ \A k \in 1..n : score[p[k]] = Score(Ranking[k]) /\ Ranking[k] = Candidates[p[k]]
      /\ \A k \in 1..n : PositionOf(Candidates, Ranking[k]) = p[k]
  <2>1. \A k \in 1..n : score[p[k]] = Score(Candidates[p[k]]) /\ Ranking[k] = Candidates[p[k]]
    BY <1>1, <1>4
  <2>2. \A k \in 1..n : PositionOf(Candidates, Candidates[p[k]]) = p[k]
    <3> SUFFICES ASSUME NEW k \in 1..n
                 PROVE  PositionOf(Candidates, Candidates[p[k]]) = p[k]
      OBVIOUS
    <3>1. p[k] \in DOMAIN Candidates
      BY <1>1, <1>4
    <3> QED
      BY <3>1, <1>1, PositionIsUnique
  <2> HIDE DEF score, n
  <2> QED
    BY <2>1, <2>2
<1> HIDE DEF score, n
<1>6. Ranking \in Seq(Chunks \cup Facts) /\ DOMAIN Ranking = 1..n /\ Len(Ranking) = n
  <2>1. RangeOf(Candidates) \subseteq Chunks \cup Facts
    BY <1>1 DEF RangeOf
  <2>2. Ranking \in [1..n -> Chunks \cup Facts]
    BY <1>4, <2>1
  <2> QED
    BY <1>1, <2>2
<1>7. Distinct(Ranking)
  <2> SUFFICES ASSUME NEW k \in 1..n, NEW l \in 1..n, Ranking[k] = Ranking[l], k # l
               PROVE  FALSE
    BY <1>6 DEF Distinct
  <2>1. p[k] = p[l]
    BY <1>5
  <2>2. k < l \/ l < k
    BY <1>1
  <2>3. p[k] \in 1..n /\ score[p[k]] \in Fractions
    BY <1>2, <1>4
  <2>4. ~Above(score[p[k]], score[p[k]])
    BY <2>3, FractionsAreOrdered
  <2>5. ~(p[k] < p[k])
    BY <2>3, <1>1
  <2> QED
    BY <1>4, <2>1, <2>2, <2>4, <2>5
<1>8. RangeOf(Ranking) = RangeOf(Candidates)
  <2>1. RangeOf(Ranking) \subseteq RangeOf(Candidates)
    BY <1>1, <1>4, <1>6 DEF RangeOf
  <2>2. \A i \in 1..n : \E k \in 1..n : Ranking[k] = Candidates[i]
    BY <1>4, <1>5
  <2>3. RangeOf(Candidates) \subseteq RangeOf(Ranking)
    <3>1. \A i \in DOMAIN Candidates : Candidates[i] \in {Ranking[k] : k \in 1..n}
      BY <2>2, <1>1
    <3> QED
      BY <3>1, <1>6 DEF RangeOf
  <2> QED
    BY <2>1, <2>3
<1>9. \A k, l \in 1..n : k < l => Outranks(Ranking[k], Ranking[l])
  BY <1>4, <1>5 DEF Outranks
<1> QED
  BY <1>1, <1>6, <1>7, <1>8, <1>9

-----------------------------------------------------------------------------
\* Selection.

LEMMA LeastExists ==
  ASSUME NEW n \in Nat, NEW T \in SUBSET (1..n), NEW x \in T
  PROVE  \E m \in T : \A k \in T : m <= k
<1> DEFINE c == Cardinality(T)
<1>1. c \in Nat
  BY ElementsInOrder
<1>2. PICK p \in [1..c -> T] :
        /\ \A i \in T : \E k \in 1..c : p[k] = i
        /\ \A k, l \in 1..c : k < l => p[k] < p[l]
  BY ElementsInOrder
<1> HIDE DEF c
<1>3. 1 \in 1..c
  BY <1>1, <1>2
<1>4. ASSUME NEW i \in T
      PROVE  p[1] <= i
  <2>1. PICK k \in 1..c : p[k] = i
    BY <1>2
  <2>2. k = 1 \/ 1 < k
    BY <1>1
  <2>3. p[1] \in 1..n /\ i \in 1..n
    BY <1>2, <1>3
  <2> QED
    BY <1>2, <1>3, <2>1, <2>2, <2>3
<1> QED
  BY <1>2, <1>3, <1>4

\* Of each source the first of the sequence remains, in its order.
LEMMA FirstOfEachSource ==
  ASSUME NEW S, NEW r \in Seq(S), Distinct(r)
  PROVE  /\ FirstPerSource(r) \in Seq(S)
         /\ Distinct(FirstPerSource(r))
         /\ RangeOf(FirstPerSource(r)) \subseteq RangeOf(r)
         /\ \A k, l \in DOMAIN FirstPerSource(r) : k < l =>
              \E i, j \in DOMAIN r :
                i < j /\ FirstPerSource(r)[k] = r[i] /\ FirstPerSource(r)[l] = r[j]
         /\ \A k, l \in DOMAIN FirstPerSource(r) :
              SourceId(FirstPerSource(r)[k]) = SourceId(FirstPerSource(r)[l]) => k = l
         /\ \A j \in DOMAIN r : \E i \in DOMAIN r :
              i <= j /\ SourceId(r[i]) = SourceId(r[j]) /\ r[i] \in RangeOf(FirstPerSource(r))
<1> DEFINE I == {i \in DOMAIN r : \A j \in 1..(i - 1) : SourceId(r[j]) # SourceId(r[i])}
           u == FirstPerSource(r)
<1>1. DOMAIN r = 1..Len(r) /\ Len(r) \in Nat
  OBVIOUS
<1>2. u = ElementsAt(r, I)
  BY DEF FirstPerSource
<1>3. /\ u \in Seq(S) /\ DOMAIN u = 1..Len(u)
      /\ Distinct(u)
      /\ RangeOf(u) = {r[i] : i \in I}
      /\ \A k, l \in DOMAIN u : k < l => \E i, j \in I : i < j /\ u[k] = r[i] /\ u[l] = r[j]
  <2>1. I \in SUBSET (DOMAIN r)
    OBVIOUS
  <2> HIDE DEF I, u
  <2> QED
    BY <1>2, <2>1, ElementsAreKept
<1>4. \A i, j \in I : i < j => SourceId(r[i]) # SourceId(r[j])
  BY <1>1
<1>5. \A k, l \in DOMAIN u : SourceId(u[k]) = SourceId(u[l]) => k = l
  <2> HIDE DEF I, u
  <2> SUFFICES ASSUME NEW k \in DOMAIN u, NEW l \in DOMAIN u, k < l
               PROVE  SourceId(u[k]) # SourceId(u[l])
    BY <1>3
  <2>1. PICK i \in I, j \in I : i < j /\ u[k] = r[i] /\ u[l] = r[j]
    BY <1>3
  <2> QED
    BY <2>1, <1>4
<1>6. ASSUME NEW j \in DOMAIN r
      PROVE  \E i \in I : i <= j /\ SourceId(r[i]) = SourceId(r[j])
  <2> DEFINE T == {i \in 1..j : SourceId(r[i]) = SourceId(r[j])}
  <2>1. j \in Nat /\ j \in T /\ T \in SUBSET (1..j)
    BY <1>1
  <2>2. PICK m \in T : \A k \in T : m <= k
    <3> HIDE DEF T
    <3> QED
      BY <2>1, LeastExists
  <2>3. m \in 1..j /\ m \in DOMAIN r /\ SourceId(r[m]) = SourceId(r[j])
    BY <1>1
  <2>4. \A k \in 1..(m - 1) : SourceId(r[k]) # SourceId(r[m])
    <3> SUFFICES ASSUME NEW k \in 1..(m - 1), SourceId(r[k]) = SourceId(r[m])
                 PROVE  FALSE
      OBVIOUS
    <3>1. k \in T
      BY <2>1, <2>3
    <3>2. m <= k
      BY <2>2, <3>1
    <3> QED
      BY <3>2, <2>1, <2>3
  <2>5. m \in I
    BY <2>3, <2>4
  <2> HIDE DEF I
  <2> QED
    BY <2>3, <2>5, <2>1
<1>7. I \subseteq DOMAIN r
  OBVIOUS
<1> HIDE DEF I
<1>8. \A j \in DOMAIN r : \E i \in DOMAIN r :
        i <= j /\ SourceId(r[i]) = SourceId(r[j]) /\ r[i] \in RangeOf(u)
  BY <1>3, <1>6, <1>7
<1>9. RangeOf(u) \subseteq RangeOf(r)
  BY <1>3, <1>7 DEF RangeOf
<1> HIDE DEF u
<1>10. \A k, l \in DOMAIN u : k < l => \E i, j \in DOMAIN r : i < j /\ u[k] = r[i] /\ u[l] = r[j]
  BY <1>3, <1>7
<1> QED
  BY <1>3, <1>5, <1>8, <1>9, <1>10 DEF u

\* What a limit cuts off comes after as many others as the limit allows.
LEMMA PrefixIsFull ==
  ASSUME NEW S, NEW u \in Seq(S), Distinct(u), NEW n \in Nat
  PROVE  /\ Prefix(u, n) \in Seq(S)
         /\ DOMAIN Prefix(u, n) \subseteq DOMAIN u
         /\ \A k \in DOMAIN Prefix(u, n) : k <= n /\ Prefix(u, n)[k] = u[k]
         /\ \A k \in DOMAIN u : u[k] \notin RangeOf(Prefix(u, n)) =>
              /\ k > n
              /\ Cardinality(RangeOf(Prefix(u, n))) = n
<1> DEFINE m == IF Len(u) <= n THEN Len(u) ELSE n
           v == Prefix(u, n)
<1>1. /\ DOMAIN u = 1..Len(u) /\ Len(u) \in Nat
      /\ m \in Nat /\ m <= n /\ m <= Len(u)
      /\ m < Len(u) => m = n
  OBVIOUS
<1>2. v = [i \in 1..m |-> u[i]]
  BY DEF Prefix
<1> HIDE DEF m, v
<1>3. v \in Seq(S) /\ DOMAIN v = 1..m /\ \A k \in 1..m : v[k] = u[k]
  BY <1>1, <1>2
<1>4. ASSUME NEW k \in DOMAIN u, u[k] \notin RangeOf(v)
      PROVE  k > n /\ Cardinality(RangeOf(v)) = n
  <2>1. k \notin 1..m
    BY <1>3, <1>4 DEF RangeOf
  <2>2. m = n /\ k > n
    BY <1>1, <2>1
  <2>3. v \in Bijection(1..m, RangeOf(v))
    <3>1. v \in [1..m -> RangeOf(v)]
      BY <1>2, <1>3 DEF RangeOf
    <3>2. \A i, j \in 1..m : v[i] = v[j] => i = j
      BY <1>1, <1>3 DEF Distinct
    <3>3. \A x \in RangeOf(v) : \E i \in 1..m : v[i] = x
      BY <1>3 DEF RangeOf
    <3> QED
      BY <3>1, <3>2, <3>3 DEF Bijection, Injection, Surjection, IsInjective
  <2>4. IsFiniteSet(1..m) /\ Cardinality(1..m) = m
    BY <1>1, FS_Interval
  <2>5. ExistsBijection(1..m, RangeOf(v))
    BY <2>3 DEF ExistsBijection
  <2>6. Cardinality(RangeOf(v)) = Cardinality(1..m)
    BY <2>4, <2>5, FS_Bijection
  <2> QED
    BY <2>2, <2>4, <2>6
<1>5. DOMAIN v \subseteq DOMAIN u /\ \A k \in DOMAIN v : k <= n
  BY <1>1, <1>3
<1> QED
  BY <1>3, <1>4, <1>5 DEF v

\* Selected is the best of what was found.
LEMMA SelectionIsBest ==
  ASSUME RetrievalTypeOK, plan.strategy # "graph"
  PROVE  /\ DOMAIN Selected \subseteq Nat
         /\ \A i, j \in DOMAIN Selected : i < j => Outranks(Selected[i], Selected[j])
         /\ \A x \in RangeOf(Candidates) \ RangeOf(Selected) :
              \/ /\ plan.strategy = "hybrid"
                 /\ \E y \in RangeOf(Selected) : SourceId(y) = SourceId(x) /\ Outranks(y, x)
              \/ /\ Cardinality(RangeOf(Selected)) = FinalLimit
                 /\ \A y \in RangeOf(Selected) : Outranks(y, x)
         /\ plan.strategy = "hybrid" =>
              \A i, j \in DOMAIN Selected : SourceId(Selected[i]) = SourceId(Selected[j]) => i = j
<1> DEFINE All == Chunks \cup Facts
           r == Ranking
<1>1. /\ r \in Seq(All) /\ DOMAIN r = 1..Len(r) /\ Len(r) \in Nat /\ Distinct(r)
      /\ RangeOf(r) = RangeOf(Candidates)
      /\ \A k, l \in DOMAIN r : k < l => Outranks(r[k], r[l])
  BY RankingIsInOrder
<1> HIDE DEF All, r
<1>2. CASE plan.strategy = "hybrid"
  <2> DEFINE u == FirstPerSource(r)
             v == Prefix(u, FinalLimit)
  <2>1. /\ u \in Seq(All) /\ Distinct(u)
        /\ \A k, l \in DOMAIN u : k < l => \E i, j \in DOMAIN r : i < j /\ u[k] = r[i] /\ u[l] = r[j]
        /\ \A k, l \in DOMAIN u : SourceId(u[k]) = SourceId(u[l]) => k = l
        /\ \A j \in DOMAIN r : \E i \in DOMAIN r :
             i <= j /\ SourceId(r[i]) = SourceId(r[j]) /\ r[i] \in RangeOf(u)
    BY <1>1, FirstOfEachSource
  <2> HIDE DEF u
  <2>2. /\ v \in Seq(All)
        /\ DOMAIN v \subseteq DOMAIN u
        /\ \A k \in DOMAIN v : k <= FinalLimit /\ v[k] = u[k]
        /\ \A k \in DOMAIN u : u[k] \notin RangeOf(v) =>
             k > FinalLimit /\ Cardinality(RangeOf(v)) = FinalLimit
    BY <2>1, PrefixIsFull, RetrievalConstants
  <2>3. Selected = v
    BY <1>2 DEF Selected, u, r
  <2> HIDE DEF v
  <2>4. DOMAIN v \subseteq Nat /\ DOMAIN u \subseteq Nat
    BY <2>1, <2>2
  <2>5. \A i, j \in DOMAIN v : i < j => Outranks(v[i], v[j])
    <3> SUFFICES ASSUME NEW i \in DOMAIN v, NEW j \in DOMAIN v, i < j
                 PROVE  Outranks(v[i], v[j])
      OBVIOUS
    <3>1. PICK a \in DOMAIN r, b \in DOMAIN r : a < b /\ u[i] = r[a] /\ u[j] = r[b]
      BY <2>1, <2>2
    <3> QED
      BY <3>1, <1>1, <2>2
  <2>6. ASSUME NEW x \in RangeOf(r), x \notin RangeOf(v)
        PROVE  \/ \E y \in RangeOf(v) : SourceId(y) = SourceId(x) /\ Outranks(y, x)
               \/ /\ Cardinality(RangeOf(v)) = FinalLimit
                  /\ \A y \in RangeOf(v) : Outranks(y, x)
    <3>1. PICK j \in DOMAIN r : r[j] = x
      BY DEF RangeOf
    <3>2. PICK i \in DOMAIN r :
            i <= j /\ SourceId(r[i]) = SourceId(r[j]) /\ r[i] \in RangeOf(u)
      BY <2>1
    <3>3. PICK k \in DOMAIN u : u[k] = r[i]
      BY <3>2 DEF RangeOf
    <3>4. CASE r[i] \in RangeOf(v)
      <4>1. i # j
        BY <3>1, <3>4, <2>6
      <4>2. i < j
        BY <4>1, <3>2, <1>1
      <4>3. Outranks(r[i], r[j])
        BY <4>2, <1>1
      <4> QED
        BY <3>1, <3>2, <3>4, <4>3
    <3>5. CASE r[i] \notin RangeOf(v)
      <4>1. k > FinalLimit /\ Cardinality(RangeOf(v)) = FinalLimit
        BY <3>3, <3>5, <2>2
      <4>2. ASSUME NEW y \in RangeOf(v)
            PROVE  Outranks(y, x)
        <5>1. PICK l \in DOMAIN v : v[l] = y
          BY DEF RangeOf
        <5>2. l \in DOMAIN u /\ l < k /\ u[l] = y
          BY <5>1, <4>1, <2>2, <2>4, RetrievalConstants
        <5>3. PICK a \in DOMAIN r, b \in DOMAIN r : a < b /\ u[l] = r[a] /\ u[k] = r[b]
          BY <5>2, <2>1
        <5>4. b = i
          BY <5>3, <3>3, <1>1 DEF Distinct
        <5>5. a < j
          BY <5>3, <5>4, <3>2, <1>1
        <5> QED
          BY <5>5, <5>3, <5>2, <3>1, <1>1
      <4> QED
        BY <4>1, <4>2
    <3> QED
      BY <3>4, <3>5
  <2>7. \A i, j \in DOMAIN v : SourceId(v[i]) = SourceId(v[j]) => i = j
    BY <2>1, <2>2
  <2> QED
    BY <1>1, <1>2, <2>3, <2>4, <2>5, <2>6, <2>7
<1>3. CASE plan.strategy # "hybrid"
  <2> DEFINE v == Prefix(r, FinalLimit)
  <2>1. Selected = v
    BY <1>3 DEF Selected, r
  <2>2. /\ v \in Seq(All)
        /\ DOMAIN v \subseteq DOMAIN r
        /\ \A k \in DOMAIN v : k <= FinalLimit /\ v[k] = r[k]
        /\ \A k \in DOMAIN r : r[k] \notin RangeOf(v) =>
             k > FinalLimit /\ Cardinality(RangeOf(v)) = FinalLimit
    BY <1>1, PrefixIsFull, RetrievalConstants
  <2> HIDE DEF v
  <2>3. DOMAIN v \subseteq Nat
    BY <1>1, <2>2
  <2>4. \A i, j \in DOMAIN v : i < j => Outranks(v[i], v[j])
    BY <1>1, <2>2
  <2>5. ASSUME NEW x \in RangeOf(r), x \notin RangeOf(v)
        PROVE  /\ Cardinality(RangeOf(v)) = FinalLimit
               /\ \A y \in RangeOf(v) : Outranks(y, x)
    <3>1. PICK k \in DOMAIN r : r[k] = x
      BY DEF RangeOf
    <3>2. k > FinalLimit /\ Cardinality(RangeOf(v)) = FinalLimit
      BY <3>1, <2>2, <2>5
    <3>3. ASSUME NEW y \in RangeOf(v)
          PROVE  Outranks(y, x)
      <4>1. PICK l \in DOMAIN v : v[l] = y
        BY DEF RangeOf
      <4>2. l \in DOMAIN r /\ l < k /\ r[l] = y
        BY <4>1, <3>2, <2>2, <1>1, RetrievalConstants
      <4> QED
        BY <4>2, <3>1, <1>1
    <3> QED
      BY <3>2, <3>3
  <2> QED
    BY <1>1, <1>3, <2>1, <2>3, <2>4, <2>5
<1> QED
  BY <1>2, <1>3

-----------------------------------------------------------------------------
\* The specification.

LEMMA RetrievalInit == Init => RetrievalIInv
<1> SUFFICES ASSUME Init PROVE RetrievalIInv
  OBVIOUS
<1>1. \A S, max : max \in Nat => <<>> \in Lists(S, max)
  <2> SUFFICES ASSUME NEW S, NEW max \in Nat PROVE <<>> \in Lists(S, max)
    OBVIOUS
  <2>1. <<>> \in {s \in [1..0 -> S] : \A i, j \in 1..0 : s[i] = s[j] => i = j}
    OBVIOUS
  <2> QED
    BY <2>1 DEF Lists
<1> QED
  BY <1>1, RetrievalConstants DEF Init, RetrievalIInv, RetrievalTypeOK, FusedIsSelected

\* The lists stay what they are until the evidence is reranked, and so does the selection.
LEMMA RetrievalStep ==
  ASSUME RetrievalIInv, [Next]_vars
  PROVE  RetrievalIInv'
<1>1. ASSUME NEW words \in SUBSET KeyWords, NEW n \in 0..2, NEW m \in 0..2, MakePlan(words, n, m)
      PROVE  RetrievalIInv'
  BY <1>1 DEF RetrievalIInv, RetrievalTypeOK, FusedIsSelected, MakePlan
<1>2. ASSUME NEW list \in Lists(Chunks, VectorTopK), SearchVector(list)
      PROVE  RetrievalIInv'
  BY <1>2 DEF RetrievalIInv, RetrievalTypeOK, FusedIsSelected, SearchVector
<1>3. ASSUME NEW list \in Lists(Chunks, KeywordTopK), SearchKeyword(list)
      PROVE  RetrievalIInv'
  BY <1>3 DEF RetrievalIInv, RetrievalTypeOK, FusedIsSelected, SearchKeyword
<1>4. ASSUME NEW list \in Lists(Facts, GraphTopK), RetrieveGraph(list)
      PROVE  RetrievalIInv'
  BY <1>4 DEF RetrievalIInv, RetrievalTypeOK, FusedIsSelected, RetrieveGraph
<1>5. CASE Fuse
  <2>1. Selected' = Selected
    BY <1>5 DEF Fuse, Selected, Ranking, Candidates, Score
  <2>2. fused' = [i \in DOMAIN Selected |-> EvidenceOf(Selected[i])]
    BY <1>5 DEF Fuse
  <2> QED
    BY <1>5, <2>1, <2>2 DEF RetrievalIInv, RetrievalTypeOK, FusedIsSelected, Fuse, EvidenceOf, SourceId
<1>6. ASSUME NEW relevance \in [1..FinalLimit -> Relevance], Rerank(relevance)
      PROVE  RetrievalIInv'
  BY <1>6 DEF RetrievalIInv, RetrievalTypeOK, FusedIsSelected, Rerank
<1>7. CASE UNCHANGED vars
  <2>1. Selected' = Selected
    BY <1>7 DEF vars, Selected, Ranking, Candidates, Score
  <2> QED
    BY <1>7, <2>1 DEF RetrievalIInv, RetrievalTypeOK, FusedIsSelected, vars, EvidenceOf, SourceId
<1> QED
  BY <1>1, <1>2, <1>3, <1>4, <1>5, <1>6, <1>7 DEF Next

\* The result lists of query_with_evidence name nothing twice, and what goes to the
\* reranker is what the selection gives on the lists, in every reachable state.
THEOREM RetrievalInvariant == Spec => []RetrievalIInv
<1>1. RetrievalIInv /\ [Next]_vars => RetrievalIInv'
  BY RetrievalStep
<1> QED
  BY RetrievalInit, <1>1, PTL DEF Spec

\* hybrid_rrf_fusion with its deduplication by source and the final limit, and
\* reciprocal_rank_fusion with the limit alone, leave a chunk or a fact out only for better
\* ones, whatever the searches return and wherever the limit falls.
THEOREM SelectionKeepsTheBest == Spec => []BestIsSelected
<1>1. RetrievalIInv => BestIsSelected
  <2> SUFFICES ASSUME RetrievalIInv, stage = "rerank", plan.strategy # "graph"
               PROVE  LET kept == {e.id : e \in RangeOf(fused)}
                      IN  /\ \A i, j \in DOMAIN fused : i < j => Outranks(fused[i].id, fused[j].id)
                          /\ \A x \in RangeOf(Candidates) \ kept :
                               \/ /\ plan.strategy = "hybrid"
                                  /\ \E y \in kept : SourceId(y) = SourceId(x) /\ Outranks(y, x)
                               \/ Cardinality(kept) = FinalLimit /\ \A y \in kept : Outranks(y, x)
                          /\ plan.strategy = "hybrid" =>
                               \A i, j \in DOMAIN fused : fused[i].source = fused[j].source => i = j
    BY DEF BestIsSelected
  <2> DEFINE kept == {e.id : e \in RangeOf(fused)}
  <2>1. /\ DOMAIN fused = DOMAIN Selected
        /\ \A i \in DOMAIN Selected :
             fused[i].id = Selected[i] /\ fused[i].source = SourceId(Selected[i])
    BY DEF RetrievalIInv, FusedIsSelected, EvidenceOf
  <2>2. kept = RangeOf(Selected)
    <3>1. kept = {fused[i].id : i \in DOMAIN fused}
      BY DEF RangeOf
    <3> HIDE DEF kept
    <3> QED
      BY <2>1, <3>1 DEF RangeOf
  <2>3. /\ \A i, j \in DOMAIN Selected : i < j => Outranks(Selected[i], Selected[j])
        /\ \A x \in RangeOf(Candidates) \ RangeOf(Selected) :
             \/ /\ plan.strategy = "hybrid"
                /\ \E y \in RangeOf(Selected) : SourceId(y) = SourceId(x) /\ Outranks(y, x)
             \/ /\ Cardinality(RangeOf(Selected)) = FinalLimit
                /\ \A y \in RangeOf(Selected) : Outranks(y, x)
        /\ plan.strategy = "hybrid" =>
             \A i, j \in DOMAIN Selected : SourceId(Selected[i]) = SourceId(Selected[j]) => i = j
    BY SelectionIsBest DEF RetrievalIInv
  <2> HIDE DEF kept
  <2>4. \A x \in RangeOf(Candidates) \ kept :
          \/ /\ plan.strategy = "hybrid"
             /\ \E y \in kept : SourceId(y) = SourceId(x) /\ Outranks(y, x)
          \/ Cardinality(kept) = FinalLimit /\ \A y \in kept : Outranks(y, x)
    BY <2>2, <2>3
  <2>5. \A i, j \in DOMAIN fused : i < j => Outranks(fused[i].id, fused[j].id)
    BY <2>1, <2>3
  <2>6. plan.strategy = "hybrid" =>
          \A i, j \in DOMAIN fused : fused[i].source = fused[j].source => i = j
    BY <2>1, <2>3
  <2> QED
    BY <2>4, <2>5, <2>6 DEF kept
<1> QED
  BY RetrievalInvariant, <1>1, PTL

-----------------------------------------------------------------------------
\* Agreement.

LEMMA ProductsGrow ==
  ASSUME NEW a \in Nat, NEW b \in Nat, NEW c \in Nat, NEW d \in Nat, a <= b, c <= d
  PROVE  a * c <= b * d
<1>1. a * c <= b * c
  OBVIOUS
<1>2. b * c <= b * d
  OBVIOUS
<1>3. a * c \in Nat /\ b * c \in Nat /\ b * d \in Nat
  OBVIOUS
<1> QED
  BY <1>1, <1>2, <1>3

\* 1/P + 1/Q > 1/R.
LEMMA TwoOutweighOne ==
  ASSUME NEW P \in (K + 1)..(K + VectorTopK), NEW Q \in (K + 1)..(K + KeywordTopK),
         NEW R \in Nat, R >= K + 1
  PROVE  P * Q < R * (P + Q)
<1> DEFINE k == K + 1
           v == VectorTopK - 1
           w == KeywordTopK - 1
           p == P - k
           q == Q - k
<1>1. /\ k \in Nat /\ v \in Nat /\ w \in Nat /\ p \in Nat /\ q \in Nat
      /\ p <= v /\ q <= w
      /\ P = p + k /\ Q = q + k /\ P \in Nat /\ Q \in Nat
      /\ K + VectorTopK = v + k /\ K + KeywordTopK = w + k
      /\ 2 * K + VectorTopK + KeywordTopK = (v + k) + (w + k)
  BY RetrievalConstants
<1>2. (v + k) * (w + k) < k * ((v + k) + (w + k))
  BY <1>1, AgreementOutweighs
<1> HIDE DEF k, v, w, p, q
<1>3. /\ (v + k) * (w + k) = v * w + k * v + k * w + k * k
      /\ k * ((v + k) + (w + k)) = k * v + k * w + k * k + k * k
  BY <1>1
<1>4. /\ (p + k) * (q + k) = p * q + k * p + k * q + k * k
      /\ k * ((p + k) + (q + k)) = k * p + k * q + k * k + k * k
  BY <1>1
<1>5. /\ v * w \in Nat /\ k * v \in Nat /\ k * w \in Nat /\ k * k \in Nat
      /\ p * q \in Nat /\ k * p \in Nat /\ k * q \in Nat
  BY <1>1
<1>6. v * w < k * k
  BY <1>2, <1>3, <1>5
<1>7. p * q <= v * w
  BY <1>1, ProductsGrow
<1>8. P * Q < k * (P + Q)
  BY <1>1, <1>4, <1>5, <1>6, <1>7
<1>9. k * (P + Q) <= R * (P + Q)
  <2>1. k <= R /\ P + Q \in Nat
    BY <1>1 DEF k
  <2> QED
    BY <2>1, <1>1, ProductsGrow
<1>10. P * Q \in Nat /\ k * (P + Q) \in Nat /\ R * (P + Q) \in Nat
  BY <1>1
<1> QED
  BY <1>8, <1>9, <1>10

\* A chunk that the vector search and the keyword search both found precedes every chunk
\* that only one of them found, for any RRF_K and limits with AgreementOutweighs.
THEOREM AgreementWins == Spec => []CorroborationWins
<1>1. RetrievalIInv => CorroborationWins
  <2> SUFFICES ASSUME RetrievalTypeOK,
                      NEW c \in Chunks, NEW d \in Chunks,
                      c \in RangeOf(vector) \cap RangeOf(keyword),
                      d \in (RangeOf(vector) \cup RangeOf(keyword))
                              \ (RangeOf(vector) \cap RangeOf(keyword))
               PROVE  Outranks(c, d)
    BY DEF CorroborationWins, RetrievalIInv
  <2>1. /\ vector \in Seq(Chunks) /\ DOMAIN vector = 1..Len(vector) /\ Len(vector) \in 0..VectorTopK
        /\ keyword \in Seq(Chunks) /\ DOMAIN keyword = 1..Len(keyword)
        /\ Len(keyword) \in 0..KeywordTopK
        /\ RangeOf(graph) \subseteq Facts
    BY RetrievalConstants, ListsAreSequences DEF RetrievalTypeOK
  <2>2. c \notin RangeOf(graph) /\ d \notin RangeOf(graph)
    BY <2>1, RetrievalConstants
  <2>3. \A s, x : x \in RangeOf(s) => PositionOf(s, x) \in DOMAIN s
    BY DEF RangeOf, PositionOf
  <2> DEFINE P == K + PositionOf(vector, c)
             Q == K + PositionOf(keyword, c)
             R == IF d \in RangeOf(vector) THEN K + PositionOf(vector, d) ELSE K + PositionOf(keyword, d)
  <2>4. P \in (K + 1)..(K + VectorTopK) /\ P \in Nat
    BY <2>1, <2>3, RetrievalConstants
  <2>5. Q \in (K + 1)..(K + KeywordTopK) /\ Q \in Nat
    BY <2>1, <2>3, RetrievalConstants
  <2>6. R \in Nat /\ R >= K + 1
    <3>1. CASE d \in RangeOf(vector)
      BY <3>1, <2>1, <2>3, RetrievalConstants
    <3>2. CASE d \notin RangeOf(vector)
      BY <3>2, <2>1, <2>3, RetrievalConstants
    <3> QED
      BY <3>1, <3>2
  <2>7. /\ Points(vector, c, 2) = <<2, P>>
        /\ Points(keyword, c, 2) = <<2, Q>>
        /\ Points(graph, c, 3) = <<0, 1>>
    BY <2>2 DEF Points
  <2>8. /\ Points(graph, d, 3) = <<0, 1>>
        /\ \/ Points(vector, d, 2) = <<2, R>> /\ Points(keyword, d, 2) = <<0, 1>>
           \/ Points(vector, d, 2) = <<0, 1>> /\ Points(keyword, d, 2) = <<2, R>>
    BY <2>2 DEF Points
  <2> HIDE DEF P, Q, R
  <2>9. Score(c) = <<2 * (P + Q), P * Q>>
    <3>1. 2 * Q + 2 * P = 2 * (P + Q) /\ P * Q \in Nat /\ 2 * (P + Q) \in Nat
      BY <2>4, <2>5
    <3>2. Plus(<<2, P>>, <<2, Q>>) = <<2 * (P + Q), P * Q>>
      BY <3>1 DEF Plus
    <3>3. Plus(<<2 * (P + Q), P * Q>>, <<0, 1>>) = <<2 * (P + Q), P * Q>>
      BY <3>1 DEF Plus
    <3> QED
      BY <2>7, <3>2, <3>3 DEF Score
  <2>10. Score(d) = <<2, R>>
    <3>1. /\ Plus(<<2, R>>, <<0, 1>>) = <<2, R>>
          /\ Plus(<<0, 1>>, <<2, R>>) = <<2, R>>
      BY <2>6 DEF Plus
    <3> QED
      BY <2>8, <3>1 DEF Score
  <2>11. P * Q < R * (P + Q)
    BY <2>4, <2>5, <2>6, TwoOutweighOne
  <2>12. 2 * (P + Q) * R > 2 * (P * Q)
    <3>1. P * Q \in Nat /\ R * (P + Q) \in Nat /\ 2 * (P + Q) * R = 2 * (R * (P + Q))
      BY <2>4, <2>5, <2>6
    <3> QED
      BY <3>1, <2>11
  <2>13. Above(Score(c), Score(d))
    BY <2>9, <2>10, <2>12 DEF Above
  <2> QED
    BY <2>13 DEF Outranks
<1> QED
  BY RetrievalInvariant, <1>1, PTL
=============================================================================
