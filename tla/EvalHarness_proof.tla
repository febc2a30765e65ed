------------------------- MODULE EvalHarness_proof -------------------------
(***************************************************************************)
(* Proofs about the fusion of Retrieval and the evaluation that            *)
(* EvalHarness makes of it: for any corpus and golden set, any _RRF_K and  *)
(* any pool of at most _RRF_K + 1.                                         *)
(***************************************************************************)
EXTENDS EvalHarness, FiniteSetTheorems, FunctionTheorems, TLAPS

USE RetrievalAssumption DEF RetrievalAssumption
USE EvalAssumption DEF EvalAssumption

\* A ranking is cut to the pool (vector_store.py:163, 170).
Ranking(s, S) == s \in Seq(S) /\ Len(s) <= PoolSize

LEMMA RankBounds ==
    ASSUME NEW S, NEW s \in Seq(S), NEW id \in Range(s)
    PROVE  Rank(s, id) \in 1..Len(s) /\ s[Rank(s, id)] = id
<1>1. \E i \in 1..Len(s) : s[i] = id BY DEF Range
<1> QED BY <1>1 DEF Rank

LEMMA DivisorBounds ==
    ASSUME NEW S, NEW s, Ranking(s, S), NEW id \in Range(s)
    PROVE  Divisor(s, id) \in (RrfK + 1)..(2 * RrfK + 1)
<1>1. s \in Seq(S) /\ Len(s) \in Nat /\ Len(s) <= RrfK + 1 BY DEF Ranking
<1>2. Rank(s, id) \in 1..Len(s) BY <1>1, RankBounds
<1> QED BY <1>1, <1>2 DEF Divisor

LEMMA ProductGrows ==
    ASSUME NEW x \in Nat \ {0}, NEW y \in Nat, NEW z \in Nat, y < z
    PROVE  x * y \in Nat /\ x * z \in Nat /\ x * y < x * z
<1>1. z = y + (z - y) /\ z - y \in Nat \ {0} OBVIOUS
<1>2. x * (z - y) \in Nat \ {0} BY <1>1
<1>3. x * z = x * y + x * (z - y) BY <1>1
<1>4. x * y \in Nat /\ x * z \in Nat OBVIOUS
<1> QED BY <1>2, <1>3, <1>4

\* An id that both rankings name outscores every id only one of them names,
\* wherever in the rankings they are: agreement beats rank
\* (vector_store.py:171-177).  It takes a pool of at most _RRF_K + 1, which the
\* code's 20 and 60 leave wide room for.
THEOREM AgreementWins ==
    ASSUME NEW S, NEW dense, NEW sparse,
           Ranking(dense, S), Ranking(sparse, S),
           NEW a \in Range(dense) \intersect Range(sparse),
           NEW b \in (Range(dense) \union Range(sparse))
                         \ (Range(dense) \intersect Range(sparse))
    PROVE  Outscores(Score(dense, sparse, a), Score(dense, sparse, b))
<1> DEFINE p == Divisor(dense, a)
           q == Divisor(sparse, a)
           r == Divisor(IF b \in Range(dense) THEN dense ELSE sparse, b)
<1>1. p \in (RrfK + 1)..(2 * RrfK + 1) /\ q \in (RrfK + 1)..(2 * RrfK + 1)
      BY DivisorBounds
<1>2. r \in (RrfK + 1)..(2 * RrfK + 1)
  <2>1. CASE b \in Range(dense) BY <2>1, DivisorBounds
  <2>2. CASE b \notin Range(dense) BY <2>2, DivisorBounds
  <2> QED BY <2>1, <2>2
<1>3. Score(dense, sparse, a) = <<p + q, p * q>> BY DEF Score
<1>4. Score(dense, sparse, b) = <<1, r>> BY DEF Score
<1> HIDE DEF p, q, r
<1>5. p \in Nat \ {0} /\ q \in Nat \ {0} /\ r \in Nat /\ p < 2 * r /\ q < 2 * r
      BY <1>1, <1>2
<1>6. p * q < p * (2 * r) /\ q * p < q * (2 * r)
      BY <1>5, ProductGrows
<1>7. /\ p * (2 * r) = 2 * (p * r) /\ q * (2 * r) = 2 * (q * r)
      /\ q * p = p * q
      /\ (p + q) * r = p * r + q * r
      /\ p * q \in Nat /\ p * r \in Nat /\ q * r \in Nat
      BY <1>5
<1>8. (p + q) * r > 1 * (p * q) BY <1>6, <1>7
<1> QED BY <1>3, <1>4, <1>8 DEF Outscores

\* An id that is ahead of another in both rankings outscores it
\* (vector_store.py:171-177).
THEOREM AheadInBothWins ==
    ASSUME NEW S, NEW dense, NEW sparse,
           Ranking(dense, S), Ranking(sparse, S),
           NEW a \in Range(dense) \intersect Range(sparse),
           NEW b \in Range(dense) \intersect Range(sparse),
           Rank(dense, a) < Rank(dense, b),
           Rank(sparse, a) < Rank(sparse, b)
    PROVE  Outscores(Score(dense, sparse, a), Score(dense, sparse, b))
<1> DEFINE p == Divisor(dense, a)
           q == Divisor(sparse, a)
           u == Divisor(dense, b)
           v == Divisor(sparse, b)
<1>1. /\ p \in (RrfK + 1)..(2 * RrfK + 1) /\ q \in (RrfK + 1)..(2 * RrfK + 1)
      /\ u \in (RrfK + 1)..(2 * RrfK + 1) /\ v \in (RrfK + 1)..(2 * RrfK + 1)
      BY DivisorBounds
<1>2. p < u /\ q < v
  <2>1. /\ Rank(dense, a) \in Nat /\ Rank(dense, b) \in Nat
        /\ Rank(sparse, a) \in Nat /\ Rank(sparse, b) \in Nat
        BY RankBounds DEF Ranking
  <2> QED BY <2>1 DEF Divisor
<1>3. /\ Score(dense, sparse, a) = <<p + q, p * q>>
      /\ Score(dense, sparse, b) = <<u + v, u * v>>
      BY DEF Score
<1> HIDE DEF p, q, u, v
<1>4. /\ p \in Nat \ {0} /\ q \in Nat \ {0}
      /\ u \in Nat \ {0} /\ v \in Nat \ {0}
      BY <1>1
<1>5. p * u \in Nat \ {0} /\ q * v \in Nat \ {0} BY <1>4
<1>6. (p * u) * q < (p * u) * v /\ (q * v) * p < (q * v) * u
      BY <1>2, <1>4, <1>5, ProductGrows
<1>7. /\ (p + q) * (u * v) = (p * u) * v + (q * v) * u
      /\ (u + v) * (p * q) = (p * u) * q + (q * v) * p
      BY <1>4
<1>8. (p + q) * (u * v) > (u + v) * (p * q)
  <2>1. /\ (p * u) * q \in Nat /\ (p * u) * v \in Nat
        /\ (q * v) * p \in Nat /\ (q * v) * u \in Nat
        BY <1>4, <1>5
  <2> QED BY <1>6, <1>7, <2>1
<1> QED BY <1>3, <1>8 DEF Outscores

-----------------------------------------------------------------------------
(* Finite sets in sequence.                                                *)

LEMMA Counting ==
    ASSUME NEW n \in Nat
    PROVE  IsFiniteSet(1..n) /\ Cardinality(1..n) = n
<1>1. 1 \in Int /\ n \in Int OBVIOUS
<1>2. /\ IsFiniteSet(1..n)
      /\ Cardinality(1..n) = IF 1 > n THEN 0 ELSE n - 1 + 1
      BY <1>1, FS_Interval
<1> QED BY <1>2

LEMMA Sequenced ==
    ASSUME NEW S, IsFiniteSet(S), NEW order \in SetToSeqs(S)
    PROVE  /\ order \in [1..Cardinality(S) -> S]
           /\ Cardinality(S) \in Nat
           /\ order \in Seq(S)
           /\ Len(order) = Cardinality(S)
           /\ IsInjective(order)
           /\ Range(order) = S
<1> DEFINE n == Cardinality(S)
<1>1. n \in Nat BY FS_CardinalityType
<1>2. order \in [1..n -> S] /\ \A i, j \in 1..n : order[i] = order[j] => i = j
      BY DEF SetToSeqs
<1>3. order \in Seq(S) /\ Len(order) = n BY <1>1, <1>2
<1>4. IsInjective(order) BY <1>2 DEF IsInjective
<1>5. order \in Injection(1..n, S) BY <1>2, Fun_IsInj
<1>6. Cardinality(1..n) = n BY <1>1, Counting
<1>7. order \in Surjection(1..n, S) BY <1>5, <1>6, FS_Injection
<1>8. Range(order) = S BY <1>7, Fun_SurjectionProperties
<1> QED BY <1>1, <1>2, <1>3, <1>4, <1>8

\* Any strict order on a finite set that leaves no two members unrelated can
\* be followed by a sequence of its members: their places are how many come
\* before them.
LEMMA SortingExists ==
    ASSUME NEW S, IsFiniteSet(S), NEW R,
           \A x \in S : <<x, x>> \notin R,
           \A x, y \in S : x # y => <<x, y>> \in R \/ <<y, x>> \in R,
           \A x, y, z \in S :
               <<x, y>> \in R /\ <<y, z>> \in R => <<x, z>> \in R
    PROVE  \E order \in SetToSeqs(S) :
               \A i, j \in 1..Len(order) :
                   i < j => <<order[i], order[j]>> \in R
<1> DEFINE n == Cardinality(S)
           before(x) == {y \in S : <<y, x>> \in R}
           place == [x \in S |-> Cardinality(before(x)) + 1]
<1>1. n \in Nat BY FS_CardinalityType
<1>2. ASSUME NEW x \in S
      PROVE  /\ IsFiniteSet(before(x))
             /\ Cardinality(before(x)) \in Nat
             /\ Cardinality(before(x)) < n
  <2>1. before(x) \in SUBSET S /\ before(x) # S OBVIOUS
  <2>2. /\ IsFiniteSet(before(x)) /\ Cardinality(before(x)) <= n
        /\ n = Cardinality(before(x)) => S = before(x)
        BY <2>1, FS_Subset
  <2>3. Cardinality(before(x)) \in Nat BY <2>2, FS_CardinalityType
  <2> QED BY <1>1, <2>1, <2>2, <2>3
<1>3. ASSUME NEW x \in S, NEW y \in S, <<x, y>> \in R
      PROVE  place[x] < place[y]
  <2>1. before(x) \in SUBSET before(y) BY <1>3
  <2>2. x \in before(y) /\ x \notin before(x) BY <1>3
  <2>3. /\ Cardinality(before(x)) <= Cardinality(before(y))
        /\ Cardinality(before(y)) = Cardinality(before(x)) =>
               before(y) = before(x)
        BY <1>2, <2>1, FS_Subset
  <2> HIDE DEF before
  <2> QED BY <1>2, <2>2, <2>3
<1>4. place \in [S -> 1..n]
  <2> HIDE DEF before
  <2> QED BY <1>1, <1>2
<1>5. \A x, y \in S : place[x] = place[y] => x = y
  <2> SUFFICES ASSUME NEW x \in S, NEW y \in S, x # y
               PROVE  place[x] # place[y]
      OBVIOUS
  <2> HIDE DEF place
  <2>1. place[x] \in Nat /\ place[y] \in Nat BY <1>1, <1>4
  <2>2. place[x] < place[y] \/ place[y] < place[x] BY <1>3
  <2> QED BY <2>1, <2>2
<1> HIDE DEF place, before
<1>6. place \in Injection(S, 1..n) BY <1>4, <1>5, Fun_IsInj
<1>7. IsFiniteSet(1..n) /\ Cardinality(1..n) = n BY <1>1, Counting
<1>8. place \in Surjection(S, 1..n) BY <1>6, <1>7, FS_Injection
<1>9. \A i \in 1..n : \E x \in S : place[x] = i
      BY <1>8, Fun_SurjectionProperties
<1> DEFINE order == [i \in 1..n |-> CHOOSE x \in S : place[x] = i]
<1>10. \A i \in 1..n : order[i] \in S /\ place[order[i]] = i BY <1>9
<1>11. order \in SetToSeqs(S)
  <2>1. order \in [1..n -> S] BY <1>10
  <2>2. \A i, j \in 1..n : i # j => order[i] # order[j] BY <1>10
  <2> HIDE DEF order
  <2> QED BY <2>1, <2>2 DEF SetToSeqs
<1>12. Len(order) = n BY <1>11, Sequenced
<1>13. ASSUME NEW i \in 1..n, NEW j \in 1..n, i < j
       PROVE  <<order[i], order[j]>> \in R
  <2>1. order[i] \in S /\ order[j] \in S BY <1>10
  <2>2. place[order[i]] = i /\ place[order[j]] = j BY <1>10
  <2> HIDE DEF order
  <2>3. order[i] # order[j] BY <1>13, <2>2
  <2>4. ~(<<order[j], order[i]>> \in R)
    <3>1. SUFFICES ASSUME <<order[j], order[i]>> \in R PROVE FALSE OBVIOUS
    <3>2. j < i BY <1>3, <2>1, <2>2, <3>1
    <3> QED BY <1>13, <3>2
  <2> QED BY <2>1, <2>3, <2>4
<1> HIDE DEF order
<1> QED BY <1>11, <1>12, <1>13


-----------------------------------------------------------------------------
(* The fused order.                                                        *)

LEMMA RankingsAre ==
    ASSUME NEW chunks \in Corpora, NEW s \in Rankings(chunks)
    PROVE  /\ Ranking(s, Ids) /\ IsInjective(s)
           /\ IsFiniteSet(Range(s)) /\ Range(s) \subseteq Ids
           /\ Cardinality(Range(s)) = Len(s)
<1>1. PICK S \in SUBSET chunks : s \in SetToSeqs(S)
      BY DEF Rankings, SetToAllKPermutations
<1>2. S \subseteq Ids /\ IsFiniteSet(S) /\ IsFiniteSet(chunks) BY FS_Subset
<1>3. /\ s \in Seq(S) /\ IsInjective(s)
      /\ Range(s) = S /\ Len(s) = Cardinality(S)
      BY <1>1, <1>2, Sequenced
<1>4. s \in Seq(Ids) BY <1>2, <1>3
<1>5. Len(s) <= PoolSize
  <2>1. Len(s) = Smaller(PoolSize, Cardinality(chunks)) BY DEF Rankings
  <2>2. Cardinality(chunks) \in Nat BY <1>2, FS_CardinalityType
  <2> QED BY <2>1, <2>2 DEF Smaller
<1> QED BY <1>2, <1>3, <1>4, <1>5 DEF Ranking

LEMMA ScoreBounds ==
    ASSUME NEW S, NEW dense, NEW sparse,
           Ranking(dense, S), Ranking(sparse, S),
           NEW id \in Range(dense) \union Range(sparse)
    PROVE  /\ Score(dense, sparse, id)[1] \in Nat \ {0}
           /\ Score(dense, sparse, id)[2] \in Nat \ {0}
<1>1. CASE id \in Range(dense) /\ id \in Range(sparse)
  <2> DEFINE p == Divisor(dense, id)
             q == Divisor(sparse, id)
  <2>1. Score(dense, sparse, id) = <<p + q, p * q>> BY <1>1 DEF Score
  <2>2. p \in Nat \ {0} /\ q \in Nat \ {0} BY <1>1, DivisorBounds
  <2> HIDE DEF p, q
  <2>3. p + q \in Nat \ {0} BY <2>2
  <2>4. p * q \in Nat \ {0} BY <2>2
  <2> QED BY <2>1, <2>3, <2>4
<1>2. CASE ~(id \in Range(dense) /\ id \in Range(sparse))
  <2> DEFINE r == Divisor(IF id \in Range(dense) THEN dense ELSE sparse, id)
  <2>1. Score(dense, sparse, id) = <<1, r>> BY <1>2 DEF Score
  <2>2. r \in Nat \ {0}
    <3>1. CASE id \in Range(dense) BY <3>1, DivisorBounds
    <3>2. CASE id \notin Range(dense) BY <3>2, DivisorBounds
    <3> QED BY <3>1, <3>2
  <2> HIDE DEF r
  <2> QED BY <2>1, <2>2
<1> QED BY <1>1, <1>2

LEMMA EnteredOnce ==
    ASSUME NEW S, NEW dense \in Seq(S), NEW sparse \in Seq(S),
           NEW a \in Range(dense) \union Range(sparse),
           NEW b \in Range(dense) \union Range(sparse)
    PROVE  /\ Entered(dense, sparse, a) \in Nat
           /\ Entered(dense, sparse, a) = Entered(dense, sparse, b) => a = b
<1>1. Len(dense) \in Nat /\ Len(sparse) \in Nat OBVIOUS
<1>2. ASSUME NEW c \in Range(dense) \union Range(sparse)
      PROVE  \/ /\ c \in Range(dense)
                /\ Entered(dense, sparse, c) = Rank(dense, c)
                /\ Rank(dense, c) \in 1..Len(dense)
                /\ dense[Rank(dense, c)] = c
             \/ /\ c \notin Range(dense)
                /\ Entered(dense, sparse, c) = Len(dense) + Rank(sparse, c)
                /\ Rank(sparse, c) \in 1..Len(sparse)
                /\ sparse[Rank(sparse, c)] = c
  <2>1. CASE c \in Range(dense) BY <2>1, RankBounds DEF Entered
  <2>2. CASE c \notin Range(dense) BY <2>2, RankBounds DEF Entered
  <2> QED BY <2>1, <2>2
<1> QED BY <1>1, <1>2

\* Fractions compare as numbers do.
LEMMA FractionOrder ==
    ASSUME NEW a \in Nat \ {0}, NEW b \in Nat \ {0},
           NEW c \in Nat \ {0}, NEW d \in Nat \ {0},
           NEW e \in Nat \ {0}, NEW f \in Nat \ {0},
           a * d >= c * b, c * f >= e * d
    PROVE  /\ a * f >= e * b
           /\ a * d > c * b \/ c * f > e * d => a * f > e * b
<1>1. /\ a * d \in Nat /\ c * b \in Nat /\ c * f \in Nat /\ e * d \in Nat
      /\ a * f \in Nat /\ e * b \in Nat
      OBVIOUS
<1>2. f * (a * d) >= f * (c * b) /\ b * (c * f) >= b * (e * d)
  <2>1. \A x \in Nat \ {0}, y, z \in Nat : y >= z => x * y >= x * z
    <3> SUFFICES ASSUME NEW x \in Nat \ {0}, NEW y \in Nat, NEW z \in Nat, y >= z
                 PROVE  x * y >= x * z
        OBVIOUS
    <3>1. CASE y = z BY <3>1
    <3>2. CASE z < y BY <3>2, ProductGrows
    <3> QED BY <3>1, <3>2
  <2> QED BY <1>1, <2>1
<1>3. /\ f * (a * d) = d * (a * f) /\ f * (c * b) = b * (c * f)
      /\ b * (e * d) = d * (e * b)
      OBVIOUS
<1>4. a * d > c * b => f * (a * d) > f * (c * b) BY <1>1, ProductGrows
<1>5. c * f > e * d => b * (c * f) > b * (e * d) BY <1>1, ProductGrows
<1>6. /\ f * (a * d) \in Nat /\ b * (c * f) \in Nat /\ b * (e * d) \in Nat
      /\ d * (a * f) \in Nat /\ d * (e * b) \in Nat
      BY <1>1
<1>7. a * f < e * b => d * (a * f) < d * (e * b) BY <1>1, ProductGrows
<1>8. a * f = e * b => d * (a * f) = d * (e * b) OBVIOUS
<1> QED BY <1>1, <1>2, <1>3, <1>4, <1>5, <1>6, <1>7, <1>8

\* The order of the fused ids is strict, total and transitive.
LEMMA PrecedesIsOrder ==
    ASSUME NEW S, NEW dense, NEW sparse,
           Ranking(dense, S), Ranking(sparse, S),
           NEW a \in Range(dense) \union Range(sparse),
           NEW b \in Range(dense) \union Range(sparse),
           NEW c \in Range(dense) \union Range(sparse)
    PROVE  /\ ~Precedes(dense, sparse, a, a)
           /\ a # b => Precedes(dense, sparse, a, b)
                           \/ Precedes(dense, sparse, b, a)
           /\ Precedes(dense, sparse, a, b) /\ Precedes(dense, sparse, b, c)
                  => Precedes(dense, sparse, a, c)
<1> DEFINE x == Score(dense, sparse, a)
           y == Score(dense, sparse, b)
           z == Score(dense, sparse, c)
           i == Entered(dense, sparse, a)
           j == Entered(dense, sparse, b)
           k == Entered(dense, sparse, c)
<1>1. /\ x[1] \in Nat \ {0} /\ x[2] \in Nat \ {0}
      /\ y[1] \in Nat \ {0} /\ y[2] \in Nat \ {0}
      /\ z[1] \in Nat \ {0} /\ z[2] \in Nat \ {0}
      BY ScoreBounds
<1>2. i \in Nat /\ j \in Nat /\ k \in Nat /\ (i = j => a = b)
      BY EnteredOnce DEF Ranking
<1>3. /\ Precedes(dense, sparse, a, a) <=>
             (Outscores(x, x) \/ (~Outscores(x, x) /\ i < i))
      /\ Precedes(dense, sparse, a, b) <=>
             (Outscores(x, y) \/ (~Outscores(y, x) /\ i < j))
      /\ Precedes(dense, sparse, b, a) <=>
             (Outscores(y, x) \/ (~Outscores(x, y) /\ j < i))
      /\ Precedes(dense, sparse, b, c) <=>
             (Outscores(y, z) \/ (~Outscores(z, y) /\ j < k))
      /\ Precedes(dense, sparse, a, c) <=>
             (Outscores(x, z) \/ (~Outscores(z, x) /\ i < k))
      BY DEF Precedes
<1> HIDE DEF x, y, z, i, j, k
<1> DEFINE xy == x[1] * y[2]
           yx == y[1] * x[2]
           yz == y[1] * z[2]
           zy == z[1] * y[2]
           xz == x[1] * z[2]
           zx == z[1] * x[2]
<1>4. /\ xy \in Nat /\ yx \in Nat /\ yz \in Nat /\ zy \in Nat
      /\ xz \in Nat /\ zx \in Nat
  <2>1. \A m, n \in Nat : m * n \in Nat OBVIOUS
  <2> QED BY <1>1, <2>1
<1>5. /\ Outscores(x, y) <=> xy > yx
      /\ Outscores(y, x) <=> yx > xy
      /\ Outscores(y, z) <=> yz > zy
      /\ Outscores(z, y) <=> zy > yz
      /\ Outscores(x, z) <=> xz > zx
      /\ Outscores(z, x) <=> zx > xz
      BY DEF Outscores
<1>6. ASSUME xy >= yx, yz >= zy
      PROVE  /\ xz >= zx
             /\ xy > yx \/ yz > zy => xz > zx
  <2> DEFINE a1 == x[1]
             a2 == x[2]
             b1 == y[1]
             b2 == y[2]
             c1 == z[1]
             c2 == z[2]
  <2>1. /\ a1 \in Nat \ {0} /\ a2 \in Nat \ {0}
        /\ b1 \in Nat \ {0} /\ b2 \in Nat \ {0}
        /\ c1 \in Nat \ {0} /\ c2 \in Nat \ {0}
        BY <1>1
  <2>2. a1 * b2 >= b1 * a2 /\ b1 * c2 >= c1 * b2 BY <1>6
  <2> HIDE DEF a1, a2, b1, b2, c1, c2
  <2>3. /\ a1 * c2 >= c1 * a2
        /\ a1 * b2 > b1 * a2 \/ b1 * c2 > c1 * b2 => a1 * c2 > c1 * a2
        BY <2>1, <2>2, FractionOrder
  <2> QED BY <2>3 DEF a1, a2, b1, b2, c1, c2
<1>7. ~Outscores(x, x)
  <2>1. \A m, n \in Nat : ~(m * n > m * n) OBVIOUS
  <2> QED BY <1>1, <2>1 DEF Outscores
<1> HIDE DEF xy, yx, yz, zy, xz, zx
<1>8. ~Precedes(dense, sparse, a, a) BY <1>2, <1>3, <1>7
<1>9. a # b => Precedes(dense, sparse, a, b) \/ Precedes(dense, sparse, b, a)
      BY <1>2, <1>3, <1>4, <1>5
<1>10. Precedes(dense, sparse, a, b) /\ Precedes(dense, sparse, b, c)
           => Precedes(dense, sparse, a, c)
       BY <1>2, <1>3, <1>4, <1>5, <1>6
<1> QED BY <1>8, <1>9, <1>10

\* The fused ids, whatever order the CHOOSE takes, are all of them, once, in
\* the order of Precedes.
LEMMA FusedIsSorted ==
    ASSUME NEW chunks \in Corpora,
           NEW dense \in Rankings(chunks), NEW sparse \in Rankings(chunks)
    PROVE  LET ids == Range(dense) \union Range(sparse)
               order == Fused(dense, sparse)
           IN  /\ IsFiniteSet(ids) /\ ids \subseteq Ids
               /\ order \in SetToSeqs(ids)
               /\ \A i, j \in 1..Len(order) :
                      i < j => Precedes(dense, sparse, order[i], order[j])
<1> DEFINE ids == Range(dense) \union Range(sparse)
           order == Fused(dense, sparse)
           R == {e \in ids \X ids : Precedes(dense, sparse, e[1], e[2])}
<1>1. Ranking(dense, Ids) /\ Ranking(sparse, Ids) BY RankingsAre
<1>2. ids \subseteq Ids BY RankingsAre
<1>3. IsFiniteSet(ids) BY <1>2, FS_Subset
<1>4. \A x, y \in ids : <<x, y>> \in R <=> Precedes(dense, sparse, x, y)
      OBVIOUS
<1>5. /\ \A x \in ids : <<x, x>> \notin R
      /\ \A x, y \in ids : x # y => <<x, y>> \in R \/ <<y, x>> \in R
      /\ \A x, y, z \in ids :
             <<x, y>> \in R /\ <<y, z>> \in R => <<x, z>> \in R
  <2> HIDE DEF R
  <2> QED BY <1>1, <1>4, PrecedesIsOrder
<1> HIDE DEF R
<1>7. PICK s \in SetToSeqs(ids) :
          \A i, j \in 1..Len(s) : i < j => <<s[i], s[j]>> \in R
  <2> HIDE DEF ids
  <2> QED BY <1>3, <1>5, SortingExists
<1>8. s \in Seq(ids) BY <1>3, Sequenced
<1>9. \A i, j \in 1..Len(s) : i < j => Precedes(dense, sparse, s[i], s[j])
  <2>1. \A i \in 1..Len(s) : s[i] \in ids BY <1>8
  <2> QED BY <1>4, <1>7, <2>1
<1>10. /\ order \in SetToSeqs(ids)
       /\ \A i, j \in 1..Len(order) :
              i < j => Precedes(dense, sparse, order[i], order[j])
       BY <1>9 DEF Fused
<1> QED BY <1>2, <1>3, <1>10

LEMMA FirstOfIs ==
    ASSUME NEW S, NEW s \in Seq(S), NEW n \in Nat
    PROVE  /\ FirstOf(s, n) \in Seq(S)
           /\ Len(FirstOf(s, n)) \in Nat
           /\ Len(FirstOf(s, n)) = Smaller(n, Len(s))
           /\ \A i \in 1..Len(FirstOf(s, n)) :
                  i \in 1..Len(s) /\ FirstOf(s, n)[i] = s[i]
           /\ Range(FirstOf(s, n)) \subseteq Range(s)
           /\ IsInjective(s) => IsInjective(FirstOf(s, n))
<1> DEFINE m == Smaller(n, Len(s))
           t == FirstOf(s, n)
<1>1. m \in Nat /\ m <= Len(s) BY DEF Smaller
<1>2. t = SubSeq(s, 1, m) BY DEF FirstOf, Smaller
<1> HIDE DEF m, t
<1>3. /\ t \in Seq(S) /\ Len(t) = m
      /\ \A i \in 1..m : t[i] = s[i]
      BY <1>1, <1>2
<1>4. /\ DOMAIN t = 1..m /\ DOMAIN s = 1..Len(s)
      /\ 1..m \subseteq 1..Len(s)
      BY <1>1, <1>3
<1>5. Range(t) \subseteq Range(s) BY <1>3, <1>4 DEF Range
<1>6. IsInjective(s) => IsInjective(t) BY <1>3, <1>4 DEF IsInjective
<1> QED BY <1>1, <1>3, <1>4, <1>5, <1>6 DEF m, t

\* What FusionRespectsAgreement says of a query, of any two rankings.
LEMMA PoolAgrees ==
    ASSUME NEW chunks \in Corpora,
           NEW dense \in Rankings(chunks), NEW sparse \in Rankings(chunks)
    PROVE  LET agreed == Range(dense) \intersect Range(sparse)
               pool == Pool(dense, sparse)
           IN  /\ agreed \subseteq Range(pool)
               /\ \A a \in agreed, b \in Range(pool) \ agreed :
                      IsBefore(pool, a, b)
               /\ \A a, b \in agreed :
                      IsBefore(dense, a, b) /\ IsBefore(sparse, a, b)
                          => IsBefore(pool, a, b)
<1> DEFINE ids == Range(dense) \union Range(sparse)
           agreed == Range(dense) \intersect Range(sparse)
           order == Fused(dense, sparse)
           pool == Pool(dense, sparse)
           Goes(x, y) == Precedes(dense, sparse, x, y)
<1>1. /\ IsFiniteSet(ids) /\ order \in SetToSeqs(ids)
      /\ \A i, j \in 1..Len(order) : i < j => Goes(order[i], order[j])
      BY FusedIsSorted
<1>2. /\ Ranking(dense, Ids) /\ IsInjective(dense)
      /\ Ranking(sparse, Ids) /\ IsInjective(sparse)
      BY RankingsAre
<1>3. /\ order \in Seq(ids) /\ Len(order) \in Nat /\ DOMAIN order = 1..Len(order)
      /\ \A i \in 1..Len(order) : order[i] \in ids
      /\ \A i, j \in 1..Len(order) : order[i] = order[j] => i = j
      /\ \A x \in ids : \E i \in 1..Len(order) : order[i] = x
  <2> HIDE DEF ids, order
  <2>1. order \in Seq(ids) /\ IsInjective(order) /\ Range(order) = ids
        BY <1>1, Sequenced
  <2> QED BY <2>1 DEF IsInjective, Range
<1>4. /\ Len(pool) = Smaller(PoolSize, Len(order)) /\ pool \in Seq(ids)
      /\ \A i \in 1..Len(pool) : pool[i] = order[i]
  <2>1. pool = FirstOf(order, PoolSize) BY DEF Pool
  <2> HIDE DEF pool, order, ids
  <2> QED BY <1>3, <2>1, FirstOfIs
<1>5. ASSUME NEW x \in ids, NEW y \in ids, Goes(x, y) PROVE ~Goes(y, x)
      BY <1>2, <1>5, PrecedesIsOrder
<1>6. ASSUME NEW a \in agreed, NEW b \in ids \ agreed PROVE Goes(a, b)
  <2>1. Outscores(Score(dense, sparse, a), Score(dense, sparse, b))
        BY <1>2, AgreementWins
  <2> QED BY <2>1 DEF Precedes
<1>7. ASSUME NEW a \in agreed, NEW b \in agreed,
             IsBefore(dense, a, b), IsBefore(sparse, a, b)
      PROVE  Goes(a, b)
  <2>1. ASSUME NEW s, Ranking(s, Ids), IsInjective(s),
               a \in Range(s), b \in Range(s), IsBefore(s, a, b)
        PROVE  Rank(s, a) < Rank(s, b)
    <3>1. PICK i, j \in 1..Len(s) : i < j /\ s[i] = a /\ s[j] = b
          BY <2>1 DEF IsBefore
    <3>2. s \in Seq(Ids) BY <2>1 DEF Ranking
    <3>3. /\ Rank(s, a) \in 1..Len(s) /\ s[Rank(s, a)] = a
          /\ Rank(s, b) \in 1..Len(s) /\ s[Rank(s, b)] = b
          BY <2>1, <3>2, RankBounds
    <3>4. Rank(s, a) = i /\ Rank(s, b) = j
          BY <2>1, <3>1, <3>2, <3>3 DEF IsInjective
    <3> QED BY <3>1, <3>4
  <2>2. Rank(dense, a) < Rank(dense, b) /\ Rank(sparse, a) < Rank(sparse, b)
        BY <1>2, <1>7, <2>1
  <2>3. Outscores(Score(dense, sparse, a), Score(dense, sparse, b))
        BY <1>2, <2>2, AheadInBothWins
  <2> QED BY <2>3 DEF Precedes
<1>8. /\ agreed \subseteq ids
      /\ IsFiniteSet(agreed) /\ Cardinality(agreed) \in Nat
      /\ Cardinality(agreed) <= PoolSize
  <2>1. /\ IsFiniteSet(Range(dense))
        /\ Cardinality(Range(dense)) = Len(dense)
        /\ Len(dense) <= PoolSize
        BY RankingsAre DEF Ranking
  <2>2. IsFiniteSet(agreed) /\ Cardinality(agreed) <= Cardinality(Range(dense))
        BY <2>1, FS_Subset
  <2>3. Cardinality(agreed) \in Nat /\ Cardinality(Range(dense)) \in Nat
        BY <2>1, <2>2, FS_CardinalityType
  <2> QED BY <2>1, <2>2, <2>3
<1> HIDE DEF ids, agreed, order, pool, Goes
<1>9. ASSUME NEW k \in 1..Len(order), order[k] \in agreed PROVE k <= PoolSize
  <2> DEFINE f == [i \in 1..k |-> order[i]]
  <2>1. \A i \in 1..k : i \in 1..Len(order) BY <1>3
  <2>2. \A i \in 1..k : order[i] \in agreed
    <3> SUFFICES ASSUME NEW i \in 1..k, order[i] \notin agreed PROVE FALSE
        OBVIOUS
    <3>1. i \in 1..Len(order) /\ order[i] \in ids \ agreed BY <1>3, <2>1
    <3>2. Goes(order[k], order[i]) BY <1>6, <1>9, <3>1
    <3>3. i # k BY <1>9
    <3>4. Goes(order[i], order[k]) BY <1>1, <3>1, <3>3
    <3> QED BY <1>3, <1>5, <3>1, <3>2, <3>4
  <2>3. f \in Injection(1..k, agreed)
    <3>1. f \in [1..k -> agreed] BY <2>2
    <3>2. \A i, j \in 1..k : f[i] = f[j] => i = j BY <1>3, <2>1
    <3> HIDE DEF f
    <3> QED BY <3>1, <3>2, Fun_IsInj
  <2>4. Cardinality(1..k) <= Cardinality(agreed) BY <1>8, <2>3, FS_Injection
  <2>5. Cardinality(1..k) = k BY Counting
  <2> QED BY <1>8, <2>4, <2>5
<1>10. agreed \subseteq Range(pool)
  <2> SUFFICES ASSUME NEW a \in agreed PROVE a \in Range(pool) OBVIOUS
  <2>1. PICK k \in 1..Len(order) : order[k] = a BY <1>3, <1>8
  <2>2. k \in 1..Len(pool) BY <1>3, <1>4, <1>9, <2>1 DEF Smaller
  <2> QED BY <1>4, <2>1, <2>2 DEF Range
<1>11. Range(pool) \subseteq ids BY <1>4 DEF Range
<1>12. ASSUME NEW a \in Range(pool), NEW b \in Range(pool), Goes(a, b)
       PROVE  IsBefore(pool, a, b)
  <2>1. PICK i \in 1..Len(pool) : pool[i] = a BY <1>4 DEF Range
  <2>2. PICK j \in 1..Len(pool) : pool[j] = b BY <1>4 DEF Range
  <2>3. /\ i \in 1..Len(order) /\ j \in 1..Len(order)
        /\ order[i] = a /\ order[j] = b
        BY <1>3, <1>4, <2>1, <2>2 DEF Smaller
  <2>4. i # j /\ ~(j < i) BY <1>1, <1>3, <1>5, <1>12, <2>3
  <2>5. i < j BY <2>4
  <2> QED BY <2>1, <2>2, <2>5 DEF IsBefore
<1>13. \A a \in agreed, b \in Range(pool) \ agreed : IsBefore(pool, a, b)
       BY <1>6, <1>10, <1>11, <1>12
<1>14. \A a, b \in agreed :
           IsBefore(dense, a, b) /\ IsBefore(sparse, a, b)
               => IsBefore(pool, a, b)
       BY <1>7, <1>10, <1>12
<1> QED BY <1>10, <1>13, <1>14 DEF agreed, pool

-----------------------------------------------------------------------------
(* The metrics of a query.  Places are at most four, so what holds of a    *)
(* set of places is seen from which of the four it has.                    *)

Has(S, i) == IF i \in S THEN 1 ELSE 0

Weight(S, i) == IF i \in S THEN Discount[i] ELSE 0

LEMMA OneLess ==
    ASSUME NEW S, IsFiniteSet(S), NEW i
    PROVE  /\ IsFiniteSet(S \ {i})
           /\ Cardinality(S) = Cardinality(S \ {i}) + Has(S, i)
<1> DEFINE A == S \ {i}
<1>1. IsFiniteSet(A) BY FS_RemoveElement
<1>2. Cardinality(A) = IF i \in S THEN Cardinality(S) - 1 ELSE Cardinality(S)
      BY FS_RemoveElement
<1>3. Cardinality(S) \in Nat BY FS_CardinalityType
<1> HIDE DEF A
<1>4. Cardinality(S) = Cardinality(A) + Has(S, i) BY <1>2, <1>3 DEF Has
<1> QED BY <1>1, <1>4 DEF A

LEMMA PlacesCount ==
    ASSUME NEW S \in SUBSET (1..4)
    PROVE  /\ IsFiniteSet(S)
           /\ Cardinality(S) = Has(S, 1) + Has(S, 2) + Has(S, 3) + Has(S, 4)
<1> DEFINE A == S \ {1}
           B == A \ {2}
           C == B \ {3}
           D == C \ {4}
<1>1. IsFiniteSet(S)
  <2>1. \A n \in Nat : IsFiniteSet(1..n) BY Counting
  <2>2. IsFiniteSet(1..4) BY <2>1
  <2> QED BY <2>2, FS_Subset
<1>2. IsFiniteSet(A) /\ Cardinality(S) = Cardinality(A) + Has(S, 1)
      BY <1>1, OneLess
<1>3. IsFiniteSet(B) /\ Cardinality(A) = Cardinality(B) + Has(A, 2)
  <2> HIDE DEF A
  <2> QED BY <1>2, OneLess
<1>4. IsFiniteSet(C) /\ Cardinality(B) = Cardinality(C) + Has(B, 3)
  <2> HIDE DEF B
  <2> QED BY <1>3, OneLess
<1>5. IsFiniteSet(D) /\ Cardinality(C) = Cardinality(D) + Has(C, 4)
  <2> HIDE DEF C
  <2> QED BY <1>4, OneLess
<1>6. Has(A, 2) = Has(S, 2) /\ Has(B, 3) = Has(S, 3) /\ Has(C, 4) = Has(S, 4)
      BY DEF Has
<1>7. Cardinality(D) = 0
  <2>1. D = {} OBVIOUS
  <2> HIDE DEF D
  <2> QED BY <2>1, FS_EmptySet
<1>8. /\ Has(S, 1) \in Nat /\ Has(S, 2) \in Nat
      /\ Has(S, 3) \in Nat /\ Has(S, 4) \in Nat
      BY DEF Has
<1> HIDE DEF A, B, C, D
<1> QED BY <1>1, <1>2, <1>3, <1>4, <1>5, <1>6, <1>7, <1>8

\* The fold of Gain is the sum, in whatever order it takes the places.
LEMMA GainIs ==
    ASSUME NEW S \in SUBSET (1..4)
    PROVE  Gain(S) = Weight(S, 1) + Weight(S, 2) + Weight(S, 3) + Weight(S, 4)
<1> DEFINE Sum(s) == Weight(s, 1) + Weight(s, 2) + Weight(s, 3) + Weight(s, 4)
           x(s) == CHOOSE i \in s : TRUE
           Is(f) == f = [s \in SUBSET S |->
                            IF s = {} THEN 0 ELSE Discount[x(s)] + f[s \ {x(s)}]]
           iter == CHOOSE f : Is(f)
           g == [s \in SUBSET S |-> Sum(s)]
<1>1. \A s \in SUBSET S : s # {} => x(s) \in s OBVIOUS
<1>2. ASSUME NEW s \in SUBSET S, s # {}
      PROVE  Sum(s) = Discount[x(s)] + Sum(s \ {x(s)})
  <2>1. x(s) \in s /\ x(s) \in 1..4 BY <1>1, <1>2
  <2> HIDE DEF x
  <2>2. PICK y \in 1..4 : y = x(s) /\ y \in s BY <2>1
  <2> DEFINE t == s \ {y}
  <2>3. /\ Weight(s, y) = Discount[y] /\ Weight(t, y) = 0
        /\ \A i \in 1..4 : i # y => Weight(t, i) = Weight(s, i)
        BY <2>2 DEF Weight
  <2>4. \A i \in 1..4 : Weight(s, i) \in Nat BY SMT DEF Weight, Discount
  <2>5. y = 1 \/ y = 2 \/ y = 3 \/ y = 4 OBVIOUS
  <2> HIDE DEF t
  <2>6. Sum(s) = Discount[y] + Sum(t) BY <2>3, <2>4, <2>5
  <2> QED BY <2>2, <2>6 DEF t
<1>3. Sum({}) = 0 BY DEF Weight
<1> HIDE DEF x, Sum
<1>4. Is(g) BY <1>2, <1>3
<1>5. Is(iter)
  <2> HIDE DEF Is, g
  <2> QED BY <1>4
<1>6. \A s \in SUBSET S : iter[s] = IF s = {} THEN 0
                                    ELSE Discount[x(s)] + iter[s \ {x(s)}]
  <2> HIDE DEF iter
  <2> QED BY <1>5
<1>7. Gain(S) = iter[S]
      BY DEF Gain, FoldSet, MapThenFoldSet, x
<1> HIDE DEF iter, Is
<1> DEFINE Bad == {s \in SUBSET S : iter[s] # Sum(s)}
<1>8. Bad = {}
  <2>1. SUFFICES ASSUME Bad # {} PROVE FALSE OBVIOUS
  <2>2. IsFiniteSet(S) BY PlacesCount
  <2>3. IsWellFoundedOn(StrictSubsetOrdering(S), SUBSET S)
        BY <2>2, FS_StrictSubsetOrderingWellFounded, FS_FiniteSubsetsOfFinite
  <2>4. Bad \subseteq SUBSET S OBVIOUS
  <2> HIDE DEF Bad
  <2>5. PICK s \in Bad : \A t \in Bad : ~(<<t, s>> \in StrictSubsetOrdering(S))
        BY <2>1, <2>3, <2>4, WFMin
  <2>6. s \in SUBSET S /\ iter[s] # Sum(s) BY <2>5 DEF Bad
  <2>7. s # {} BY <1>3, <1>6, <2>6
  <2>8. <<s \ {x(s)}, s>> \in StrictSubsetOrdering(S)
        BY <1>1, <2>6, <2>7 DEF StrictSubsetOrdering
  <2>9. iter[s \ {x(s)}] = Sum(s \ {x(s)}) BY <2>5, <2>6, <2>8 DEF Bad
  <2> QED BY <1>2, <1>6, <2>6, <2>7, <2>9
<1>9. iter[S] = Sum(S) BY <1>8
<1> QED BY <1>7, <1>9 DEF Sum

\* What a search may return: distinct ids, at most K.
Founds == {found \in Seq(Ids) : IsInjective(found) /\ Len(found) <= K}

LEMMA RelevantIs ==
    ASSUME NEW found \in Founds, NEW expected \in SUBSET Ids
    PROVE  LET hits == Relevant(found, expected) IN
           /\ hits \in SUBSET (1..4) /\ hits \in SUBSET (1..K)
           /\ Cardinality(Range(found) \intersect expected) = Cardinality(hits)
           /\ IsFiniteSet(expected) /\ Cardinality(expected) \in Nat
           /\ Cardinality(hits) <= Smaller(Cardinality(expected), K)
           /\ Cardinality(Relevant(FirstOf(found, 1), expected)) = Has(hits, 1)
<1> DEFINE hits == Relevant(found, expected)
           shared == Range(found) \intersect expected
<1>1. /\ found \in Seq(Ids) /\ IsInjective(found)
      /\ Len(found) \in Nat /\ Len(found) <= K
      /\ DOMAIN found = 1..Len(found)
      BY DEF Founds
<1>2. K \in 1..4 BY SMT DEF Discount
<1>3. hits \in SUBSET (1..4) /\ hits \in SUBSET (1..K)
      BY <1>1, <1>2 DEF Relevant
<1>4. IsFiniteSet(expected) /\ Cardinality(expected) \in Nat
      BY FS_Subset, FS_CardinalityType
<1>5. IsFiniteSet(hits) /\ Cardinality(hits) \in Nat
      BY <1>3, PlacesCount, FS_CardinalityType
<1>6. Cardinality(shared) = Cardinality(hits)
  <2> DEFINE f == [i \in hits |-> found[i]]
  <2>1. /\ f \in [hits -> shared]
        /\ \A i, j \in hits : f[i] = f[j] => i = j
        /\ \A id \in shared : \E i \in hits : f[i] = id
        BY <1>1 DEF Relevant, Range, IsInjective
  <2> HIDE DEF f, hits, shared
  <2>2. f \in Bijection(hits, shared) BY <2>1, Fun_IsBij
  <2>3. ExistsBijection(hits, shared) BY <2>2 DEF ExistsBijection
  <2> QED BY <1>5, <2>3, FS_Bijection
<1>7. Cardinality(hits) <= Cardinality(expected)
  <2>1. shared \in SUBSET expected OBVIOUS
  <2> HIDE DEF shared
  <2> QED BY <1>4, <1>6, <2>1, FS_Subset
<1>8. Cardinality(hits) <= K
  <2> DEFINE places == 1..K
  <2>1. IsFiniteSet(places) /\ Cardinality(places) = K BY <1>2, Counting
  <2>2. hits \in SUBSET places BY <1>3
  <2> HIDE DEF hits, places
  <2>3. Cardinality(hits) <= Cardinality(places) BY <2>1, <2>2, FS_Subset
  <2> QED BY <2>1, <2>3
<1>9. Cardinality(Relevant(FirstOf(found, 1), expected)) = Has(hits, 1)
  <2> DEFINE one == FirstOf(found, 1)
  <2>1. /\ Len(one) = Smaller(1, Len(found))
        /\ \A i \in 1..Len(one) : one[i] = found[i]
        BY <1>1, FirstOfIs
  <2>2. Relevant(one, expected) = IF 1 \in hits THEN {1} ELSE {}
    <3> HIDE DEF one
    <3> QED BY <1>1, <2>1 DEF Relevant, Smaller
  <2>3. Cardinality({1}) = 1 /\ Cardinality({}) = 0
        BY FS_Singleton, FS_EmptySet
  <2>4. Cardinality(Relevant(one, expected)) = Has(hits, 1)
    <3>1. CASE 1 \in hits BY <2>2, <2>3, <3>1 DEF Has
    <3>2. CASE 1 \notin hits BY <2>2, <2>3, <3>2 DEF Has
    <3> QED BY <3>1, <3>2
  <2> QED BY <2>4
<1> HIDE DEF hits, shared
<1> QED BY <1>3, <1>4, <1>6, <1>7, <1>8, <1>9 DEF hits, shared, Smaller

\* The least of some places is one of them; with no place there is no rank.
LEMMA RankIs ==
    ASSUME NEW found \in Founds, NEW expected \in SUBSET Ids
    PROVE  LET hits == Relevant(found, expected)
               rank == ReciprocalRank(found, expected)
           IN  IF hits = {} THEN rank = 0
               ELSE rank \in hits /\ \A i \in hits : rank <= i
<1> DEFINE hits == Relevant(found, expected)
<1>1. hits \in SUBSET (1..4) BY RelevantIs
<1>2. CASE hits = {} BY <1>2 DEF ReciprocalRank
<1>3. CASE hits # {}
  <2>1. ReciprocalRank(found, expected) = Min(hits)
        BY <1>3 DEF ReciprocalRank
  <2> HIDE DEF hits
  <2>2. \E i \in hits : \A j \in hits : i <= j
    <3>1. \A j \in hits : j = 1 \/ j = 2 \/ j = 3 \/ j = 4 BY <1>1
    <3>2. PICK i \in hits : TRUE BY <1>3
    <3>3. 1 \in hits \/ 2 \in hits \/ 3 \in hits \/ 4 \in hits
          BY <3>1, <3>2
    <3> QED BY <3>1, <3>3
  <2>3. Min(hits) \in hits /\ \A j \in hits : Min(hits) <= j
        BY <2>2 DEF Min
  <2> QED BY <1>3, <2>1, <2>3 DEF hits
<1> QED BY <1>2, <1>3

\* What MetricsAgree says of a row, of any results and any golden answer.
LEMMA RowAgrees ==
    ASSUME NEW found \in Founds, NEW expected \in (SUBSET Ids) \ {{}}
    PROVE  LET row  == Row(found, expected)
               best == Smaller(Cardinality(expected), K)
           IN  /\ row \in [relevant : SUBSET (1..K), top1 : Nat, hits : 0..K,
                           rank : 0..K, dcg : Nat, idcg : Nat]
               /\ row.hits = Cardinality(row.relevant)
               /\ row.hits > 0 <=> row.rank \in 1..K
               /\ row.hits > 0 <=> row.dcg > 0
               /\ row.top1 = 1 <=> row.rank = 1
               /\ row.dcg <= row.idcg
               /\ row.dcg = row.idcg <=> 1..best \subseteq row.relevant
<1> DEFINE hits == Relevant(found, expected)
           rank == ReciprocalRank(found, expected)
           best == Smaller(Cardinality(expected), K)
           row  == Row(found, expected)
<1>1. /\ hits \in SUBSET (1..4) /\ hits \in SUBSET (1..K)
      /\ Cardinality(Range(found) \intersect expected) = Cardinality(hits)
      /\ IsFiniteSet(expected) /\ Cardinality(expected) \in Nat
      /\ Cardinality(hits) <= best
      /\ Cardinality(Relevant(FirstOf(found, 1), expected)) = Has(hits, 1)
      BY RelevantIs
<1>2. IF hits = {} THEN rank = 0
      ELSE rank \in hits /\ \A i \in hits : rank <= i
      BY RankIs
<1>3. K \in 1..4 BY SMT DEF Discount
<1>4. best \in 1..K
  <2>1. Cardinality(expected) # 0 BY <1>1, FS_EmptySet
  <2> QED BY <1>1, <1>3, <2>1 DEF Smaller
<1>5. row = [relevant |-> hits, top1 |-> Has(hits, 1), hits |-> Cardinality(hits),
             rank |-> rank, dcg |-> Gain(hits), idcg |-> Gain(1..best)]
      BY <1>1 DEF Row
<1> HIDE DEF hits, rank, best, row
<1>6. Cardinality(hits) = Has(hits, 1) + Has(hits, 2)
                              + Has(hits, 3) + Has(hits, 4)
      BY <1>1, PlacesCount
<1>7. Gain(hits) = Weight(hits, 1) + Weight(hits, 2)
                       + Weight(hits, 3) + Weight(hits, 4)
      BY <1>1, GainIs
<1>8. /\ Gain(1..best) = Weight(1..best, 1) + Weight(1..best, 2)
                             + Weight(1..best, 3) + Weight(1..best, 4)
      /\ best \in 1..4
  <2>1. 1..best \in SUBSET (1..4) BY <1>3, <1>4
  <2> QED BY <1>3, <1>4, <2>1, GainIs
<1>9. Gain(1..best) = IF best = 1 THEN 1000000
                      ELSE IF best = 2 THEN 1630930
                      ELSE IF best = 3 THEN 2130930 ELSE 2561607
  <2>1. best = 1 \/ best = 2 \/ best = 3 \/ best = 4 BY <1>8
  <2> QED BY <1>8, <2>1, SMT DEF Weight, Discount
<1>10. /\ Weight(hits, 1) = 1000000 * Has(hits, 1)
       /\ Weight(hits, 2) = 630930 * Has(hits, 2)
       /\ Weight(hits, 3) = 500000 * Has(hits, 3)
       /\ Weight(hits, 4) = 430677 * Has(hits, 4)
       BY SMT DEF Weight, Has, Discount
<1>11. /\ Has(hits, 1) \in {0, 1} /\ Has(hits, 2) \in {0, 1}
       /\ Has(hits, 3) \in {0, 1} /\ Has(hits, 4) \in {0, 1}
       /\ \A i \in 1..4 : i \in hits <=> Has(hits, i) = 1
       BY DEF Has
<1>12. hits = {} <=> Cardinality(hits) = 0
  <2>1. IsFiniteSet(hits) BY <1>1, PlacesCount
  <2> QED BY <2>1, FS_EmptySet
<1>13. rank \in 0..K /\ (rank = 0 <=> hits = {})
  <2>1. CASE hits = {} BY <1>2, <1>3, <2>1
  <2>2. CASE hits # {}
    <3>1. rank \in hits BY <1>2, <2>2
    <3>2. rank \in 1..K BY <1>1, <3>1
    <3> QED BY <1>3, <2>2, <3>2
  <2> QED BY <2>1, <2>2
<1>14. rank = 1 <=> Has(hits, 1) = 1
  <2>1. CASE hits = {} BY <1>2, <1>11, <2>1
  <2>2. CASE hits # {}
    <3>1. 1 \in hits => rank = 1 BY <1>1, <1>2, <1>13, <2>2
    <3>2. rank = 1 => 1 \in hits BY <1>2, <2>2
    <3> QED BY <1>11, <3>1, <3>2
  <2> QED BY <2>1, <2>2
<1> DEFINE n == Cardinality(hits)
           h1 == Has(hits, 1)
           h2 == Has(hits, 2)
           h3 == Has(hits, 3)
           h4 == Has(hits, 4)
           dcg == Gain(hits)
           idcg == Gain(1..best)
<1>15. /\ n = h1 + h2 + h3 + h4 /\ n <= best /\ best \in 1..4
       /\ h1 \in {0, 1} /\ h2 \in {0, 1} /\ h3 \in {0, 1} /\ h4 \in {0, 1}
       BY <1>1, <1>6, <1>8, <1>11
<1>16. /\ dcg = 1000000 * h1 + 630930 * h2 + 500000 * h3 + 430677 * h4
       /\ idcg = IF best = 1 THEN 1000000
                 ELSE IF best = 2 THEN 1630930
                 ELSE IF best = 3 THEN 2130930 ELSE 2561607
       BY <1>7, <1>9, <1>10, SMT
<1> HIDE DEF n, h1, h2, h3, h4, dcg, idcg
<1>17. /\ dcg \in Nat /\ idcg \in Nat /\ n \in 0..4
       /\ n > 0 <=> dcg > 0
       /\ dcg <= idcg
       /\ dcg = idcg <=> /\ h1 = 1
                         /\ best >= 2 => h2 = 1
                         /\ best >= 3 => h3 = 1
                         /\ best = 4 => h4 = 1
       BY <1>15, <1>16, SMT
<1>18. n <= K /\ (n = 0 <=> hits = {}) /\ (rank = 1 <=> h1 = 1)
       BY <1>3, <1>4, <1>12, <1>14, <1>15, <1>17 DEF n, h1
<1>a. dcg = idcg <=> 1..best \subseteq hits
  <2>1. 1..best \subseteq hits <=> /\ h1 = 1
                                   /\ best >= 2 => h2 = 1
                                   /\ best >= 3 => h3 = 1
                                   /\ best = 4 => h4 = 1
    <3>1. /\ 1 \in hits <=> h1 = 1
          /\ 2 \in hits <=> h2 = 1
          /\ 3 \in hits <=> h3 = 1
          /\ 4 \in hits <=> h4 = 1
          BY <1>11 DEF h1, h2, h3, h4
    <3>2. best = 1 \/ best = 2 \/ best = 3 \/ best = 4 BY <1>8
    <3> QED BY <3>1, <3>2
  <2> QED BY <1>17, <2>1
<1>19. row = [relevant |-> hits, top1 |-> h1, hits |-> n, rank |-> rank,
              dcg |-> dcg, idcg |-> idcg]
       BY <1>5 DEF n, h1, dcg, idcg
<1>20. row.relevant = hits /\ row.top1 = h1 /\ row.hits = n /\ row.rank = rank /\ row.dcg = dcg
           /\ row.idcg = idcg
       BY <1>19
<1>21. row \in [relevant : SUBSET (1..K), top1 : Nat, hits : 0..K,
                rank : 0..K, dcg : Nat, idcg : Nat]
       BY <1>1, <1>3, <1>13, <1>15, <1>17, <1>18, <1>19
<1>22. /\ row.hits = Cardinality(row.relevant)
       /\ row.hits > 0 <=> row.rank \in 1..K
       /\ row.hits > 0 <=> row.dcg > 0
       /\ row.top1 = 1 <=> row.rank = 1
       /\ row.dcg <= row.idcg
       /\ row.dcg = row.idcg <=> 1..best \subseteq row.relevant
       BY <1>3, <1>13, <1>15, <1>17, <1>18, <1>20, <1>a DEF n
<1> QED BY <1>21, <1>22 DEF row, best

-----------------------------------------------------------------------------
(* Percentiles.                                                            *)

\* order puts the turns of a sample in the order of their times.
Sorts(order, sample) ==
    /\ order \in SetToSeqs(DOMAIN sample)
    /\ \A i, j \in 1..Len(order) :
           i < j => sample[order[i]] <= sample[order[j]]

UpTo(sample, v) == {i \in DOMAIN sample : sample[i] <= v}

\* Equal times are ordered by turn, so a sample can always be sorted.
LEMMA AscendingIs ==
    ASSUME NEW D \in SUBSET Nat, IsFiniteSet(D), NEW sample \in [D -> Nat]
    PROVE  \E order : /\ Sorts(order, sample)
                      /\ Ascending(sample) =
                             [i \in 1..Len(order) |-> sample[order[i]]]
<1> DEFINE R == {e \in D \X D : \/ sample[e[1]] < sample[e[2]]
                                \/ /\ sample[e[1]] = sample[e[2]]
                                   /\ e[1] < e[2]}
           turns == CHOOSE order \in SetToSeqs(D) :
                        \A i, j \in 1..Len(order) :
                            i < j => sample[order[i]] <= sample[order[j]]
<1>1. DOMAIN sample = D /\ \A i \in D : i \in Nat /\ sample[i] \in Nat
      OBVIOUS
<1>2. \A x, y \in D : <<x, y>> \in R <=> \/ sample[x] < sample[y]
                                         \/ sample[x] = sample[y] /\ x < y
      OBVIOUS
<1> HIDE DEF R
<1>3. /\ \A x \in D : <<x, x>> \notin R
      /\ \A x, y \in D : x # y => <<x, y>> \in R \/ <<y, x>> \in R
      /\ \A x, y, z \in D :
             <<x, y>> \in R /\ <<y, z>> \in R => <<x, z>> \in R
      BY <1>1, <1>2
<1>4. PICK s \in SetToSeqs(D) :
          \A i, j \in 1..Len(s) : i < j => <<s[i], s[j]>> \in R
      BY <1>3, SortingExists
<1>5. \A i \in 1..Len(s) : s[i] \in D
  <2>1. s \in Seq(D) BY Sequenced
  <2> QED BY <2>1
<1>6. ASSUME NEW i \in 1..Len(s), NEW j \in 1..Len(s), i < j
      PROVE  sample[s[i]] <= sample[s[j]]
  <2>1. s[i] \in D /\ s[j] \in D BY <1>5
  <2>2. <<s[i], s[j]>> \in R BY <1>4, <1>6
  <2>3. sample[s[i]] < sample[s[j]] \/ sample[s[i]] = sample[s[j]]
        BY <1>2, <2>1, <2>2
  <2>4. sample[s[i]] \in Nat /\ sample[s[j]] \in Nat BY <1>1, <2>1
  <2> QED BY <2>3, <2>4
<1>7. /\ turns \in SetToSeqs(D)
      /\ \A i, j \in 1..Len(turns) :
             i < j => sample[turns[i]] <= sample[turns[j]]
      BY <1>6
<1>8. Ascending(sample) = [i \in 1..Len(turns) |-> sample[turns[i]]]
      BY <1>1 DEF Ascending
<1>9. Sorts(turns, sample) BY <1>1, <1>7 DEF Sorts
<1> HIDE DEF turns
<1> QED BY <1>8, <1>9

\* What is at a place of a sorted sample tells how much of the sample is
\* below it, and the other way round.
LEMMA PlaceCounts ==
    ASSUME NEW D, IsFiniteSet(D), NEW sample \in [D -> Nat],
           NEW order, Sorts(order, sample), NEW k \in 1..Cardinality(D),
           NEW v \in Nat
    PROVE  /\ Len(order) = Cardinality(D) /\ order[k] \in D
           /\ Cardinality(UpTo(sample, v)) \in Nat
           /\ sample[order[k]] <= v => Cardinality(UpTo(sample, v)) >= k
           /\ v < sample[order[k]] => Cardinality(UpTo(sample, v)) <= k - 1
<1> DEFINE n == Cardinality(D)
           low == UpTo(sample, v)
<1>1. /\ n \in Nat /\ order \in [1..n -> D] /\ Len(order) = n
      /\ \A i, j \in 1..n : order[i] = order[j] => i = j
      /\ \A x \in D : \E i \in 1..n : order[i] = x
  <2>1. order \in SetToSeqs(D) BY DEF Sorts
  <2>2. /\ order \in [1..n -> D] /\ n \in Nat /\ Len(order) = n
        /\ IsInjective(order) /\ Range(order) = D
        BY <2>1, Sequenced
  <2> HIDE DEF n
  <2>3. DOMAIN order = 1..n BY <2>2
  <2>4. \A i, j \in 1..n : order[i] = order[j] => i = j
        BY <2>2, <2>3 DEF IsInjective
  <2>5. \A x \in D : \E i \in 1..n : order[i] = x
        BY <2>2, <2>3 DEF Range
  <2> QED BY <2>2, <2>4, <2>5
<1>2. \A i, j \in 1..n : i <= j => sample[order[i]] <= sample[order[j]]
  <2>1. \A i \in 1..n : sample[order[i]] \in Nat BY <1>1
  <2> QED BY <1>1, <2>1 DEF Sorts
<1>3. low \in SUBSET D /\ \A x \in D : x \in low <=> sample[x] <= v
      BY DEF UpTo
<1>4. IsFiniteSet(low) /\ Cardinality(low) \in Nat
      BY <1>3, FS_Subset, FS_CardinalityType
<1>5. /\ \A i \in 1..k : i \in 1..n
      /\ k \in Nat /\ \A x \in D : sample[x] \in Nat
      BY <1>1
<1> HIDE DEF n, low
<1>6. ASSUME sample[order[k]] <= v PROVE Cardinality(low) >= k
  <2> DEFINE f == [i \in 1..k |-> order[i]]
  <2>1. \A i \in 1..k : order[i] \in low
    <3> SUFFICES ASSUME NEW i \in 1..k PROVE order[i] \in low OBVIOUS
    <3>1. i \in 1..n /\ k \in 1..n /\ i <= k BY <1>5 DEF n
    <3>2. sample[order[i]] <= sample[order[k]] BY <1>2, <3>1
    <3>3. order[i] \in D /\ order[k] \in D BY <1>1, <3>1
    <3>4. sample[order[i]] <= v BY <1>5, <1>6, <3>2, <3>3
    <3> QED BY <1>3, <3>3, <3>4
  <2>2. f \in [1..k -> low] BY <2>1
  <2>3. \A i, j \in 1..k : f[i] = f[j] => i = j BY <1>1, <1>5
  <2> HIDE DEF f
  <2>4. f \in Injection(1..k, low) BY <2>2, <2>3, Fun_IsInj
  <2>5. Cardinality(1..k) <= Cardinality(low) BY <1>4, <2>4, FS_Injection
  <2>6. Cardinality(1..k) = k BY <1>5, Counting
  <2> QED BY <1>4, <1>5, <2>5, <2>6
<1>7. ASSUME v < sample[order[k]] PROVE Cardinality(low) <= k - 1
  <2> DEFINE g == [x \in low |-> CHOOSE i \in 1..n : order[i] = x]
  <2>1. \A x \in low : g[x] \in 1..n /\ order[g[x]] = x BY <1>1, <1>3
  <2>2. \A x \in low : g[x] \in 1..(k - 1)
    <3> SUFFICES ASSUME NEW x \in low PROVE g[x] \in 1..(k - 1) OBVIOUS
    <3>1. g[x] \in 1..n /\ order[g[x]] = x BY <2>1
    <3> DEFINE i == g[x]
    <3> HIDE DEF g, i
    <3>2. i \in 1..n /\ order[i] = x BY <3>1 DEF i
    <3>3. k \in 1..n BY DEF n
    <3>4. sample[x] <= v /\ x \in D BY <1>3
    <3>5. ~(k <= i)
      <4> SUFFICES ASSUME k <= i PROVE FALSE OBVIOUS
      <4>1. sample[order[k]] <= sample[x] BY <1>2, <3>2, <3>3
      <4>2. order[k] \in D BY <1>1, <3>3
      <4> QED BY <1>5, <1>7, <3>4, <4>1, <4>2
    <3>6. i \in 1..(k - 1) BY <1>1, <3>2, <3>3, <3>5
    <3> QED BY <3>6 DEF i
  <2>3. g \in [low -> 1..(k - 1)] BY <2>2
  <2>4. \A x, y \in low : g[x] = g[y] => x = y BY <2>1
  <2> HIDE DEF g
  <2>5. g \in Injection(low, 1..(k - 1)) BY <2>3, <2>4, Fun_IsInj
  <2>6. IsFiniteSet(1..(k - 1)) /\ Cardinality(1..(k - 1)) = k - 1
    <3>1. k - 1 \in Nat BY <1>5
    <3> DEFINE m == k - 1
    <3> HIDE DEF m
    <3>2. m \in Nat BY <3>1 DEF m
    <3>3. IsFiniteSet(1..m) /\ Cardinality(1..m) = m BY <3>2, Counting
    <3> QED BY <3>3 DEF m
  <2> QED BY <2>5, <2>6, FS_Injection
<1>8. order[k] \in D BY <1>1 DEF n
<1> QED BY <1>1, <1>4, <1>6, <1>7, <1>8 DEF n, low

\* The place of a percentile is the nearest rank.
LEMMA PercentileIs ==
    ASSUME NEW D \in SUBSET Nat, IsFiniteSet(D), D # {},
           NEW sample \in [D -> Nat], NEW pct \in Percentages
    PROVE  LET k == (pct * Cardinality(D) + 99) \div 100 IN
           /\ k \in 1..Cardinality(D)
           /\ 100 * k >= pct * Cardinality(D)
           /\ 100 * (k - 1) < pct * Cardinality(D)
           /\ \E order : /\ Sorts(order, sample)
                         /\ Percentile(Ascending(sample), pct)
                                = sample[order[k]]
<1> DEFINE n == Cardinality(D)
           k == (pct * n + 99) \div 100
<1>1. n \in Nat /\ n # 0 BY FS_CardinalityType, FS_EmptySet
<1>2. pct = 50 \/ pct = 95 \/ pct = 99 BY DEF Percentages
<1> HIDE DEF n
<1>3. /\ k \in 1..n
      /\ 100 * k >= pct * n
      /\ 100 * (k - 1) < pct * n
  <2>1. CASE pct = 50 BY <1>1, <2>1
  <2>2. CASE pct = 95 BY <1>1, <2>2
  <2>3. CASE pct = 99 BY <1>1, <2>3
  <2> QED BY <1>2, <2>1, <2>2, <2>3
<1>4. PICK order : /\ Sorts(order, sample)
                   /\ Ascending(sample) =
                          [i \in 1..Len(order) |-> sample[order[i]]]
      BY AscendingIs
<1>5. Len(order) = n
  <2>1. order \in SetToSeqs(D) BY <1>4 DEF Sorts
  <2> QED BY <2>1, Sequenced DEF n
<1> DEFINE s == Ascending(sample)
<1>6. Len(s) = n /\ s # << >> /\ s[k] = sample[order[k]]
      BY <1>1, <1>3, <1>4, <1>5
<1>7. Percentile(s, pct) = s[k]
  <2> HIDE DEF s
  <2>1. Percentile(s, pct) = s[IF k < 1 THEN 1 ELSE Smaller(k, n)]
        BY <1>6 DEF Percentile
  <2> HIDE DEF k
  <2>2. ~(k < 1) /\ Smaller(k, n) = k BY <1>1, <1>3 DEF Smaller
  <2> QED BY <2>1, <2>2
<1> QED BY <1>3, <1>4, <1>6, <1>7 DEF n

LEMMA PercentileIsNearest ==
    ASSUME NEW D \in SUBSET Nat, IsFiniteSet(D), D # {},
           NEW sample \in [D -> Nat], NEW pct \in Percentages
    PROVE  IsNearestRank(Percentile(Ascending(sample), pct), sample, pct)
<1> DEFINE n == Cardinality(D)
           k == (pct * n + 99) \div 100
           v == Percentile(Ascending(sample), pct)
<1>1. /\ k \in 1..n /\ 100 * k >= pct * n /\ 100 * (k - 1) < pct * n
      BY PercentileIs
<1>2. PICK order : Sorts(order, sample) /\ v = sample[order[k]]
      BY PercentileIs
<1>3. n \in Nat /\ pct * n \in Nat
  <2>1. n \in Nat BY FS_CardinalityType
  <2>2. pct \in Nat BY DEF Percentages
  <2> QED BY <2>1, <2>2
<1>4. DOMAIN sample = D OBVIOUS
<1> DEFINE upTo(x) == Cardinality({i \in DOMAIN sample : sample[i] <= x})
<1> HIDE DEF k, v
<1>5. ASSUME NEW x \in Nat
      PROVE  /\ order[k] \in D
             /\ upTo(x) \in Nat
             /\ v <= x => upTo(x) >= k
             /\ x < v => upTo(x) <= k - 1
  <2>1. upTo(x) = Cardinality(UpTo(sample, x)) BY DEF UpTo
  <2> HIDE DEF upTo
  <2>2. /\ order[k] \in D
        /\ Cardinality(UpTo(sample, x)) \in Nat
        /\ sample[order[k]] <= x => Cardinality(UpTo(sample, x)) >= k
        /\ x < sample[order[k]] => Cardinality(UpTo(sample, x)) <= k - 1
        BY <1>1, <1>2, PlaceCounts
  <2> QED BY <1>2, <2>1, <2>2
<1>6. v \in Range(sample) /\ v \in Nat
  <2>1. order[k] \in D BY <1>5
  <2> QED BY <1>2, <1>4, <2>1 DEF Range
<1>7. \A x \in Range(sample) : x \in Nat BY DEF Range
<1> HIDE DEF n, upTo
<1>8. k \in Nat BY <1>1, <1>3
<1>9. 100 * upTo(v) >= pct * n
  <2>1. upTo(v) \in Nat /\ upTo(v) >= k BY <1>5, <1>6
  <2> QED BY <1>1, <1>3, <1>8, <2>1
<1>10. ASSUME NEW x \in Range(sample), x < v PROVE 100 * upTo(x) < pct * n
  <2>1. upTo(x) \in Nat /\ upTo(x) <= k - 1 BY <1>5, <1>7, <1>10
  <2> QED BY <1>1, <1>3, <1>8, <2>1
<1> QED BY <1>4, <1>6, <1>9, <1>10 DEF IsNearestRank, n, upTo, v

\* Of two samples, one never above the other, the same holds of their
\* percentiles.
LEMMA PercentileGrows ==
    ASSUME NEW D \in SUBSET Nat, IsFiniteSet(D), D # {},
           NEW f \in [D -> Nat], NEW g \in [D -> Nat],
           \A i \in D : f[i] <= g[i],
           NEW pct \in Percentages
    PROVE  Percentile(Ascending(f), pct) <= Percentile(Ascending(g), pct)
<1> DEFINE n == Cardinality(D)
           k == (pct * n + 99) \div 100
           v == Percentile(Ascending(f), pct)
           w == Percentile(Ascending(g), pct)
<1>1. k \in 1..n BY PercentileIs
<1>2. PICK p : Sorts(p, f) /\ v = f[p[k]] BY PercentileIs
<1>3. PICK q : Sorts(q, g) /\ w = g[q[k]] BY PercentileIs
<1> HIDE DEF k, v, w
<1>4. k \in Nat
  <2>1. n \in Nat BY FS_CardinalityType
  <2> QED BY <1>1, <2>1
<1>5. p[k] \in D /\ q[k] \in D
      BY <1>1, <1>2, <1>3, PlaceCounts
<1>6. v \in Nat /\ w \in Nat BY <1>2, <1>3, <1>5
<1>7. SUFFICES ASSUME w < v PROVE FALSE BY <1>6 DEF v, w
<1>8. /\ Cardinality(UpTo(f, w)) \in Nat
      /\ Cardinality(UpTo(f, w)) <= k - 1
      BY <1>1, <1>2, <1>6, <1>7, PlaceCounts
<1>9. /\ Cardinality(UpTo(g, w)) \in Nat
      /\ Cardinality(UpTo(g, w)) >= k
  <2>1. g[q[k]] <= w BY <1>3, <1>6
  <2> QED BY <1>1, <1>3, <1>6, <2>1, PlaceCounts
<1>10. Cardinality(UpTo(g, w)) <= Cardinality(UpTo(f, w))
  <2>1. UpTo(f, w) \in SUBSET D BY DEF UpTo
  <2>2. IsFiniteSet(UpTo(f, w)) BY <2>1, FS_Subset
  <2>3. UpTo(g, w) \in SUBSET UpTo(f, w)
    <3> SUFFICES ASSUME NEW i \in D, g[i] <= w PROVE f[i] <= w
        BY DEF UpTo
    <3>1. f[i] \in Nat /\ g[i] \in Nat OBVIOUS
    <3> QED BY <1>6, <3>1
  <2> QED BY <2>2, <2>3, FS_Subset
<1> QED BY <1>4, <1>8, <1>9, <1>10

-----------------------------------------------------------------------------
(* The run.                                                                *)

\* While a query is being scored its pool and results are made from its two
\* rankings.
QueryInv ==
    \/ query = NoQuery /\ pc # "scoring"
    \/ /\ pc = "scoring"
       /\ Len(rows) < Len(Golden)
       /\ query.dense \in Rankings(corpus) /\ query.sparse \in Rankings(corpus)
       /\ query.pool = Pool(query.dense, query.sparse)
       /\ query.found \in Results(query.pool, K)

Counts ==
    [relevant : SUBSET (1..K), top1 : Nat, hits : 0..K, rank : 0..K,
     dcg : Nat, idcg : Nat]

\* Every row is the row of its golden query, for some results.
RowsInv ==
    /\ rows \in Seq(Counts)
    /\ Len(rows) <= Len(Golden)
    /\ \A n \in 1..Len(rows) :
           \E found \in Founds : rows[n] = Row(found, Golden[n])

\* No first token comes later than the end of its turn.
TimesInv ==
    /\ times \in Seq([ttft : Time \union {None}, total : Time])
    /\ Len(times) <= Len(Golden)
    /\ \A n \in 1..Len(times) :
           times[n].ttft # None => times[n].ttft <= times[n].total

\* A stage is left only when it is through with the golden set.
StageInv ==
    /\ pc \in Stages
    /\ pc \in {"latency", "report", "written"} => Len(rows) = Len(Golden)
    /\ pc \in {"report", "written"} => Len(times) = Len(Golden)
    /\ pc = "written" => report = SummarizeLatency

EvalInv == corpus \in Corpora /\ QueryInv /\ RowsInv /\ TimesInv /\ StageInv

\* What a search returns is distinct ids of its pool, at most K of them.
LEMMA ResultsAre ==
    ASSUME NEW chunks \in Corpora,
           NEW dense \in Rankings(chunks), NEW sparse \in Rankings(chunks),
           NEW found \in Results(Pool(dense, sparse), K)
    PROVE  /\ Len(Pool(dense, sparse)) <= PoolSize
           /\ Range(Pool(dense, sparse)) \subseteq Ids
           /\ Range(found) \subseteq Range(Pool(dense, sparse))
           /\ found \in Founds
<1> DEFINE ids == Range(dense) \union Range(sparse)
           order == Fused(dense, sparse)
           pool == Pool(dense, sparse)
<1>1. IsFiniteSet(ids) /\ ids \subseteq Ids /\ order \in SetToSeqs(ids)
      BY FusedIsSorted
<1>2. order \in Seq(ids) /\ IsInjective(order) /\ Range(order) = ids
  <2> HIDE DEF ids, order
  <2> QED BY <1>1, Sequenced
<1>3. /\ pool \in Seq(ids) /\ IsInjective(pool) /\ Range(pool) \subseteq ids
      /\ Len(pool) = Smaller(PoolSize, Len(order)) /\ Len(order) \in Nat
  <2>1. pool = FirstOf(order, PoolSize) BY DEF Pool
  <2>2. Len(order) \in Nat BY <1>2
  <2> HIDE DEF ids, order, pool
  <2> QED BY <1>2, <2>1, <2>2, FirstOfIs
<1> HIDE DEF order, pool
<1>4. Len(pool) <= PoolSize /\ Len(pool) \in Nat BY <1>3 DEF Smaller
<1>5. Range(pool) \subseteq Ids /\ pool \in Seq(Ids)
  <2>1. Range(pool) \subseteq Ids BY <1>1, <1>3
  <2> HIDE DEF ids
  <2> QED BY <1>1, <1>3, <2>1
<1>6. K \in Nat BY SMT DEF Discount
<1>7. /\ found \in Seq(Ids) /\ IsInjective(found) /\ Len(found) <= K
      /\ Range(found) \subseteq Range(pool)
  <2>1. CASE Len(pool) <= K
    <3>1. found = pool BY <2>1 DEF Results, pool
    <3> QED BY <1>3, <1>5, <2>1, <3>1
  <2>2. CASE ~(Len(pool) <= K)
    <3>1. PICK o \in SetToSeqs(Range(pool)) : found = FirstOf(o, K)
          BY <2>2 DEF Results, pool
    <3>2. IsFiniteSet(Range(pool)) BY <1>5, FS_Subset
    <3>3. o \in Seq(Range(pool)) /\ IsInjective(o) /\ Range(o) = Range(pool)
          BY <3>2, Sequenced
    <3>4. Len(o) \in Nat BY <3>3
    <3>5. /\ found \in Seq(Range(pool)) /\ IsInjective(found)
          /\ Range(found) \subseteq Range(pool)
          /\ Len(found) = Smaller(K, Len(o))
          BY <1>6, <3>1, <3>3, FirstOfIs
    <3>6. found \in Seq(Ids) BY <1>5, <3>5
    <3>7. Len(found) <= K BY <1>6, <3>4, <3>5 DEF Smaller
    <3> QED BY <3>5, <3>6, <3>7
  <2> QED BY <2>1, <2>2
<1>8. found \in Founds BY <1>7 DEF Founds
<1> QED BY <1>4, <1>5, <1>7, <1>8 DEF pool

LEMMA GoldenIs ==
    /\ Len(Golden) \in Nat
    /\ \A n \in 1..Len(Golden) : Golden[n] \in (SUBSET Ids) \ {{}}
BY DEF Discount

LEMMA InitEval == Init => EvalInv
<1> SUFFICES ASSUME Init PROVE EvalInv OBVIOUS
<1>1. QueryInv BY DEF Init, QueryInv
<1>2. RowsInv BY GoldenIs DEF Init, RowsInv
<1>3. TimesInv BY GoldenIs DEF Init, TimesInv
<1>4. StageInv BY DEF Init, StageInv, Stages
<1>5. corpus \in Corpora BY DEF Init
<1> QED BY <1>1, <1>2, <1>3, <1>4, <1>5 DEF EvalInv

LEMMA StepEval == EvalInv /\ [Next]_vars => EvalInv'
<1> SUFFICES ASSUME EvalInv, [Next]_vars PROVE EvalInv' OBVIOUS
<1> USE DEF EvalInv
<1>0. UNCHANGED corpus
      BY DEF Next, Search, ScoreQuery, EvaluateLatency, NextStage, Die,
             WriteReport, vars
<1>1. CASE Search
  <2>1. /\ RowsInv' /\ TimesInv'
        BY <1>1 DEF Search, RowsInv, TimesInv
  <2>2. PICK dense \in Rankings(corpus), sparse \in Rankings(corpus) :
            \E found \in Results(Pool(dense, sparse), K) :
                query' = [dense |-> dense, sparse |-> sparse,
                          pool |-> Pool(dense, sparse), found |-> found]
        BY <1>1 DEF Search
  <2>3. PICK found \in Results(Pool(dense, sparse), K) :
            query' = [dense |-> dense, sparse |-> sparse,
                      pool |-> Pool(dense, sparse), found |-> found]
        BY <2>2
  <2>4. /\ query'.dense = dense /\ query'.sparse = sparse
        /\ query'.pool = Pool(dense, sparse) /\ query'.found = found
        BY <2>3
  <2>5. QueryInv'
    <3>1. /\ query'.dense \in Rankings(corpus) /\ query'.sparse \in Rankings(corpus)
          /\ query'.pool = Pool(query'.dense, query'.sparse)
          /\ query'.found \in Results(query'.pool, K)
          BY <2>4
    <3>2. pc' = "scoring" /\ Len(rows') < Len(Golden)
          BY <1>1 DEF Search
    <3> QED BY <1>0, <3>1, <3>2 DEF QueryInv
  <2>6. StageInv' BY <1>1 DEF Search, StageInv, Stages
  <2> QED BY <1>0, <2>1, <2>5, <2>6
<1>2. CASE ScoreQuery
  <2> DEFINE n == Len(rows) + 1
             row == Row(query.found, Golden[n])
  <2>1. /\ pc = "scoring" /\ Len(rows) < Len(Golden)
        /\ query.dense \in Rankings(corpus) /\ query.sparse \in Rankings(corpus)
        /\ query.found \in Results(Pool(query.dense, query.sparse), K)
        BY <1>2 DEF ScoreQuery, QueryInv
  <2>2. query.found \in Founds BY <2>1, ResultsAre
  <2>3. rows \in Seq(Counts) /\ Len(rows) \in Nat /\ n \in 1..Len(Golden)
        BY <2>1, GoldenIs DEF RowsInv
  <2>4. row \in Counts BY <2>2, <2>3, GoldenIs, RowAgrees DEF Counts
  <2>5. rows' = Append(rows, row) BY <1>2 DEF ScoreQuery
  <2> DEFINE ns == Append(rows, row)
  <2>6. /\ ns \in Seq(Counts) /\ Len(ns) = n /\ ns[n] = row
        /\ \A i \in 1..Len(rows) : ns[i] = rows[i]
    <3> HIDE DEF row
    <3> QED BY <2>3, <2>4
  <2>7. \A i \in 1..Len(ns) :
            \E found \in Founds : ns[i] = Row(found, Golden[i])
    <3> SUFFICES ASSUME NEW i \in 1..Len(ns)
                 PROVE  \E found \in Founds : ns[i] = Row(found, Golden[i])
        OBVIOUS
    <3> HIDE DEF ns
    <3>1. CASE i = n BY <2>2, <2>6, <3>1
    <3>2. CASE i # n
      <4>1. i \in 1..Len(rows) BY <2>3, <2>6, <3>2
      <4> QED BY <2>6, <4>1 DEF RowsInv
    <3> QED BY <3>1, <3>2
  <2> HIDE DEF ns
  <2>8. rows' = ns BY <2>5 DEF ns
  <2>9. RowsInv'
    <3>1. Len(ns) <= Len(Golden) BY <2>3, <2>6, GoldenIs
    <3> QED BY <2>6, <2>7, <2>8, <3>1 DEF RowsInv
  <2>10. TimesInv' BY <1>2 DEF ScoreQuery, TimesInv
  <2>11. QueryInv' BY <1>2 DEF ScoreQuery, QueryInv
  <2>12. StageInv' BY <1>2 DEF ScoreQuery, StageInv, Stages
  <2> QED BY <1>0, <2>9, <2>10, <2>11, <2>12
<1>3. CASE EvaluateLatency
  <2>1. PICK total \in Time : \E ttft \in (1..total) \union {None} :
            times' = Append(times, [ttft |-> ttft, total |-> total])
        BY <1>3 DEF EvaluateLatency
  <2>2. PICK ttft \in (1..total) \union {None} :
            times' = Append(times, [ttft |-> ttft, total |-> total])
        BY <2>1
  <2> DEFINE time == [ttft |-> ttft, total |-> total]
             n == Len(times) + 1
  <2>3. total \in Nat /\ total <= MaxTime BY DEF Time
  <2>4. time \in [ttft : Time \union {None}, total : Time]
    <3>1. ttft \in Time \union {None} BY <2>3 DEF Time
    <3> QED BY <3>1
  <2>5. time.ttft # None => time.ttft <= time.total BY <2>3
  <2> HIDE DEF time
  <2>6. /\ times \in Seq([ttft : Time \union {None}, total : Time])
        /\ Len(times) \in Nat /\ n <= Len(Golden)
        BY <1>3, GoldenIs DEF EvaluateLatency, TimesInv
  <2>7. times' = Append(times, time) BY <2>2 DEF time
  <2>8. /\ times' \in Seq([ttft : Time \union {None}, total : Time])
        /\ Len(times') = n /\ times'[n] = time
        /\ \A i \in 1..Len(times) : times'[i] = times[i]
        BY <2>4, <2>6, <2>7
  <2>9. \A i \in 1..Len(times') :
            times'[i].ttft # None => times'[i].ttft <= times'[i].total
    <3> SUFFICES ASSUME NEW i \in 1..Len(times'), times'[i].ttft # None
                 PROVE  times'[i].ttft <= times'[i].total
        OBVIOUS
    <3>1. CASE i = n BY <2>5, <2>8, <3>1
    <3>2. CASE i # n
      <4>1. i \in 1..Len(times) BY <2>6, <2>8, <3>2
      <4> QED BY <2>8, <4>1 DEF TimesInv
    <3> QED BY <3>1, <3>2
  <2>10. TimesInv' BY <2>6, <2>8, <2>9 DEF TimesInv
  <2>11. RowsInv' BY <1>3 DEF EvaluateLatency, RowsInv
  <2>12. QueryInv' BY <1>3 DEF EvaluateLatency, QueryInv
  <2>13. StageInv' BY <1>3 DEF EvaluateLatency, StageInv
  <2> QED BY <1>0, <2>10, <2>11, <2>12, <2>13
<1>4. CASE NextStage
  <2>1. RowsInv' /\ TimesInv' BY <1>4 DEF NextStage, RowsInv, TimesInv
  <2>2. QueryInv' BY <1>4 DEF NextStage, QueryInv
  <2>3. StageInv' BY <1>4 DEF NextStage, StageInv, Stages
  <2> QED BY <1>0, <2>1, <2>2, <2>3
<1>5. CASE Die
  <2>1. RowsInv' /\ TimesInv' BY <1>5 DEF Die, RowsInv, TimesInv
  <2>2. QueryInv' BY <1>5 DEF Die, QueryInv
  <2>3. StageInv' BY <1>5 DEF Die, StageInv, Stages
  <2> QED BY <1>0, <2>1, <2>2, <2>3
<1>6. CASE WriteReport
  <2>1. RowsInv' /\ TimesInv' BY <1>6 DEF WriteReport, RowsInv, TimesInv
  <2>2. QueryInv' BY <1>6 DEF WriteReport, QueryInv
  <2>3. StageInv'
    <3>1. SummarizeLatency' = SummarizeLatency
          BY <1>6 DEF WriteReport, SummarizeLatency, Ttfts, Totals, Heard
    <3> QED BY <1>6, <3>1 DEF WriteReport, StageInv, Stages
  <2> QED BY <1>0, <2>1, <2>2, <2>3
<1>7. CASE UNCHANGED vars
  <2>1. SummarizeLatency' = SummarizeLatency
        BY <1>7 DEF vars, SummarizeLatency, Ttfts, Totals, Heard
  <2> QED BY <1>7, <2>1
          DEF vars, QueryInv, RowsInv, TimesInv, StageInv
<1> QED BY <1>1, <1>2, <1>3, <1>4, <1>5, <1>6, <1>7 DEF Next

LEMMA EvalInvariant == Spec => []EvalInv
BY InitEval, StepEval, PTL DEF Spec

\* Every reachable state of an evaluation is well typed
\* (run_eval.py:45-103, 139-146).
THEOREM TypeCorrect == Spec => []TypeOK
<1>1. EvalInv => TypeOK
  <2> SUFFICES ASSUME EvalInv PROVE TypeOK OBVIOUS
  <2> USE DEF EvalInv
  <2>1. pc \in Stages BY DEF StageInv
  <2>2. K \in Nat BY SMT DEF Discount
  <2>3. /\ \A i \in 1..Len(rows) : rows[i].hits \in 0..K /\ rows[i].rank \in 0..K
        /\ times \in Seq([ttft : Time \union {None}, total : Time])
        /\ Len(rows) <= Len(Golden) /\ Len(times) <= Len(Golden)
    <3>1. \A i \in 1..Len(rows) : rows[i] \in Counts BY DEF RowsInv
    <3> QED BY <3>1 DEF RowsInv, TimesInv, Counts
  <2>4. CASE query = NoQuery
    <3>1. /\ query.dense = << >> /\ query.sparse = << >>
          /\ query.pool = << >> /\ query.found = << >>
          BY <2>4 DEF NoQuery
    <3>2. Range(<< >>) = {} /\ Len(<< >>) = 0 BY DEF Range
    <3>3. /\ query.dense \in Rankings(corpus) \union {<< >>}
          /\ query.sparse \in Rankings(corpus) \union {<< >>}
          BY <3>1
    <3>4. /\ Len(query.pool) <= PoolSize /\ Range(query.pool) \subseteq Ids
          /\ Len(query.found) <= K
          /\ Range(query.found) \subseteq Range(query.pool)
          BY <2>2, <3>1, <3>2
    <3> QED BY <2>1, <2>3, <3>3, <3>4 DEF TypeOK
  <2>5. CASE pc = "scoring"
    <3>1. /\ query.dense \in Rankings(corpus) /\ query.sparse \in Rankings(corpus)
          /\ query.pool = Pool(query.dense, query.sparse)
          /\ query.found \in Results(Pool(query.dense, query.sparse), K)
          BY <2>5 DEF QueryInv
    <3>2. /\ Len(query.pool) <= PoolSize /\ Range(query.pool) \subseteq Ids
          /\ Len(query.found) <= K
          /\ Range(query.found) \subseteq Range(query.pool)
          BY <3>1, ResultsAre DEF Founds
    <3> QED BY <2>1, <2>3, <3>1, <3>2 DEF TypeOK
  <2> QED BY <2>4, <2>5 DEF QueryInv
<1> QED BY <1>1, EvalInvariant, PTL

\* What both rankings of a search say is what the pool says: agreement beats
\* rank, an id that both name is not cut, and an id ahead in both stays ahead,
\* for any corpus and any two rankings of it (vector_store.py:171-177).
THEOREM FusionAgrees == Spec => []FusionRespectsAgreement
<1>1. EvalInv => FusionRespectsAgreement
  <2> SUFFICES ASSUME EvalInv PROVE FusionRespectsAgreement OBVIOUS
  <2>1. CASE query = NoQuery
    <3>1. query.dense = << >> /\ query.pool = << >> BY <2>1 DEF NoQuery
    <3>2. Range(<< >>) = {} BY DEF Range
    <3> QED BY <3>1, <3>2 DEF FusionRespectsAgreement
  <2>2. CASE pc = "scoring"
    <3>1. /\ query.dense \in Rankings(corpus) /\ query.sparse \in Rankings(corpus)
          /\ query.pool = Pool(query.dense, query.sparse)
          BY <2>2 DEF EvalInv, QueryInv
    <3> QED BY <3>1, PoolAgrees DEF EvalInv, FusionRespectsAgreement
  <2> QED BY <2>1, <2>2 DEF EvalInv, QueryInv
<1> QED BY <1>1, EvalInvariant, PTL

\* The metrics of every query agree with one another: hits, reciprocal rank,
\* first result and NDCG (run_eval.py:50-68).
THEOREM MetricsAlwaysAgree == Spec => []MetricsAgree
<1>1. EvalInv => MetricsAgree
  <2> SUFFICES ASSUME EvalInv, NEW n \in 1..Len(rows)
               PROVE  LET row  == rows[n]
                          best == Smaller(Cardinality(Golden[n]), K)
                      IN  /\ row.hits = Cardinality(row.relevant)
                          /\ row.hits > 0 <=> row.rank \in 1..K
                          /\ row.hits > 0 <=> row.dcg > 0
                          /\ row.top1 = 1 <=> row.rank = 1
                          /\ row.dcg <= row.idcg
                          /\ row.dcg = row.idcg <=>
                                 1..best \subseteq row.relevant
      BY DEF MetricsAgree
  <2>1. PICK found \in Founds : rows[n] = Row(found, Golden[n])
        BY DEF EvalInv, RowsInv
  <2>2. n \in 1..Len(Golden)
    <3>1. Len(rows) \in Nat /\ Len(rows) <= Len(Golden)
          BY DEF EvalInv, RowsInv
    <3> QED BY <3>1, GoldenIs
  <2>3. Golden[n] \in (SUBSET Ids) \ {{}} BY <2>2, GoldenIs
  <2> QED BY <2>1, <2>3, RowAgrees
<1> QED BY <1>1, EvalInvariant, PTL

\* A written report covers the whole golden set, its percentiles are nearest
\* ranks of what was measured, and no percentile of the first token is above
\* that of the whole turn where every turn said something
\* (run_eval.py:32-36, 86-136).
THEOREM ReportsAreWhole == Spec => []ReportIsWhole
<1>1. EvalInv => ReportIsWhole
  <2> SUFFICES ASSUME EvalInv, pc = "written"
               PROVE  /\ Len(rows) = Len(Golden)
                      /\ report.queries = Len(Golden)
                      /\ report.missing + Cardinality(Heard) = Len(Golden)
                      /\ \A pct \in Percentages :
                             /\ IsNearestRank(report.total[pct], Totals, pct)
                             /\ IF Heard = {} THEN report.ttft[pct] = None
                                ELSE IsNearestRank(report.ttft[pct], Ttfts, pct)
                             /\ report.missing = 0 =>
                                    report.ttft[pct] <= report.total[pct]
      BY DEF ReportIsWhole
  <2> DEFINE D == 1..Len(times)
  <2>1. /\ Len(rows) = Len(Golden) /\ Len(times) = Len(Golden)
        /\ report = SummarizeLatency
        BY DEF EvalInv, StageInv
  <2>2. /\ times \in Seq([ttft : Time \union {None}, total : Time])
        /\ \A i \in D : times[i].ttft # None => times[i].ttft <= times[i].total
        BY DEF EvalInv, TimesInv
  <2>3. Len(times) \in Nat /\ Len(times) # 0 BY <2>1, SMT
  <2>4. /\ D \in SUBSET Nat /\ D # {}
        /\ IsFiniteSet(D) /\ Cardinality(D) = Len(times)
        BY <2>3, Counting
  <2>5. /\ \A i \in D : times[i].total \in Nat
        /\ \A i \in D : times[i].ttft # None => times[i].ttft \in Nat
    <3> DEFINE Pair == [ttft : Time \union {None}, total : Time]
    <3>1. times \in Seq(Pair) BY <2>2
    <3> HIDE DEF Pair
    <3>2. \A i \in D : times[i] \in Pair BY <3>1
    <3>3. \A t \in Pair : /\ t.total \in Nat
                          /\ t.ttft # None => t.ttft \in Nat
          BY DEF Pair, Time
    <3> QED BY <3>2, <3>3
  <2>6. /\ Heard \in SUBSET D /\ IsFiniteSet(Heard)
        /\ Cardinality(Heard) \in Nat /\ Cardinality(D \ Heard) \in Nat
        /\ Cardinality(D \ Heard) = Cardinality(D) - Cardinality(Heard)
    <3>1. Heard \in SUBSET D BY DEF Heard
    <3> HIDE DEF D
    <3>2. IsFiniteSet(Heard) BY <2>4, <3>1, FS_Subset
    <3>3. D \intersect Heard = Heard BY <3>1
    <3>4. /\ IsFiniteSet(D \ Heard)
          /\ Cardinality(D \ Heard) = Cardinality(D) - Cardinality(D \intersect Heard)
          BY <2>4, FS_Difference
    <3> QED BY <3>1, <3>2, <3>3, <3>4, FS_CardinalityType
  <2>7. Heard \in SUBSET Nat BY <2>4, <2>6
  <2>8. Totals \in [D -> Nat] BY <2>5 DEF Totals
  <2>9. Ttfts \in [Heard -> Nat] BY <2>5 DEF Ttfts, Heard
  <2>10. /\ report.queries = Len(times)
        /\ report.missing = Cardinality(D \ Heard)
        /\ \A pct \in Percentages :
               /\ report.total[pct] = Percentile(Ascending(Totals), pct)
               /\ report.ttft[pct] = Percentile(Ascending(Ttfts), pct)
        BY <2>1 DEF SummarizeLatency, Percentiles
  <2>11. report.missing + Cardinality(Heard) = Len(Golden)
    <3> HIDE DEF D
    <3> QED BY <2>1, <2>3, <2>4, <2>6, <2>10
  <2> HIDE DEF D
  <2>12. ASSUME NEW pct \in Percentages
         PROVE  IsNearestRank(report.total[pct], Totals, pct)
         BY <2>4, <2>8, <2>10, PercentileIsNearest
  <2>13. ASSUME NEW pct \in Percentages
         PROVE  IF Heard = {} THEN report.ttft[pct] = None
                ELSE IsNearestRank(report.ttft[pct], Ttfts, pct)
    <3>1. CASE Heard = {}
      <4>1. PICK order : /\ Sorts(order, Ttfts)
                         /\ Ascending(Ttfts) =
                                [i \in 1..Len(order) |-> Ttfts[order[i]]]
            BY <2>6, <2>7, <2>9, AscendingIs
      <4>2. order \in SetToSeqs({}) BY <2>9, <3>1, <4>1 DEF Sorts
      <4>3. Len(order) = 0
        <5>1. IsFiniteSet({}) /\ Cardinality({}) = 0 BY FS_EmptySet
        <5> QED BY <4>2, <5>1, Sequenced
      <4>4. Ascending(Ttfts) = << >> BY <4>1, <4>3
      <4> QED BY <2>10, <3>1, <4>4 DEF Percentile
    <3>2. CASE Heard # {}
          BY <2>6, <2>7, <2>9, <2>10, <3>2, PercentileIsNearest
    <3> QED BY <3>1, <3>2
  <2>14. ASSUME NEW pct \in Percentages, report.missing = 0
         PROVE  report.ttft[pct] <= report.total[pct]
    <3>1. Heard = D
      <4>1. Cardinality(D) = Cardinality(Heard) BY <2>3, <2>4, <2>6, <2>10, <2>14
      <4> QED BY <2>4, <2>6, <4>1, FS_Subset
    <3>2. Ttfts \in [D -> Nat] BY <2>9, <3>1
    <3>3. \A i \in D : Ttfts[i] <= Totals[i]
          BY <2>2, <3>1 DEF Ttfts, Totals, Heard, D
    <3>4. Percentile(Ascending(Ttfts), pct) <= Percentile(Ascending(Totals), pct)
      <4> DEFINE f == Ttfts
                 g == Totals
      <4>1. f \in [D -> Nat] /\ g \in [D -> Nat] BY <2>8, <3>2
      <4>2. \A i \in D : f[i] <= g[i] BY <3>3
      <4> HIDE DEF f, g
      <4>3. Percentile(Ascending(f), pct) <= Percentile(Ascending(g), pct)
            BY <2>4, <4>1, <4>2, PercentileGrows
      <4> QED BY <4>3 DEF f, g
    <3> QED BY <2>10, <3>4
  <2> QED BY <2>1, <2>10, <2>11, <2>12, <2>13, <2>14
<1> QED BY <1>1, EvalInvariant, PTL

=============================================================================
