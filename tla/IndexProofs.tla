------------------------------ MODULE IndexProofs ------------------------------
(***************************************************************************)
(* What the KD-tree of a vector store guarantees for any table, dimension  *)
(* and number of hits.  The part of the tree below a place holds rows on   *)
(* one side of each split above it; two vectors are no nearer than their   *)
(* coordinates on one axis, so a half behind a plane no nearer than the    *)
(* worst of k hits holds nothing better; and a call therefore adds to the  *)
(* best hits of some rows those of the rows below its node.  The recursive *)
(* functions of the model (the sum of a product, the calls of a build,     *)
(* those of a search) are solved with NatRecursion.                        *)
(***************************************************************************)
EXTENDS VectorIndex, NatRecursion, SequenceTheorems, FiniteSetTheorems, TLAPS

-----------------------------------------------------------------------------
(* Scores.                                                                 *)

\* s holds the partial sums of the scalar product of a and b.
PartialSums(s, a, b, N) ==
  /\ s \in [0..N -> Int]
  /\ s[0] = 0
  /\ \A n \in 1..N : s[n] = s[n - 1] + a[n] * b[n]

LEMMA OneTerm == ASSUME NEW x \in Int, NEW y \in Int, NEW z \in Int PROVE x + y * z \in Int
  OBVIOUS

LEMMA DotIsSum ==
  ASSUME NEW a \in Seq(Int), NEW b \in Seq(Int), Len(a) = Len(b)
  PROVE  \E s : PartialSums(s, a, b, Len(a)) /\ Dot(a, b) = s[Len(a)]
<1> DEFINE term == [n \in Nat |-> IF n \in 1..Len(a) THEN a[n] * b[n] ELSE 0]
           F    == [x \in Nat \X Int |-> x[2] + term[x[1] + 1]]
<1>1. term \in [Nat -> Int]
  OBVIOUS
<1>2. F \in [Nat \X Int -> Int]
  <2> HIDE DEF term
  <2> QED BY <1>1
<1>3. PICK g : Recurs(g, Int, 0, F)
  <2>1. 0 \in Int
    OBVIOUS
  <2> HIDE DEF F
  <2> QED BY <1>2, <2>1, Recursion
<1>4. /\ g \in [Nat -> Int] /\ g[0] = 0
      /\ \A n \in Nat : g[n + 1] = g[n] + term[n + 1]
  <2> HIDE DEF term
  <2> QED BY <1>3 DEF Recurs
<1> DEFINE s == [n \in 0..Len(a) |-> g[n]]
<1>5. ASSUME NEW n \in 1..Len(a) PROVE s[n] = s[n - 1] + a[n] * b[n]
  <2>1. n - 1 \in Nat /\ (n - 1) + 1 = n /\ n \in 0..Len(a) /\ n - 1 \in 0..Len(a)
    OBVIOUS
  <2>2. g[n] = g[n - 1] + term[n]
    BY <1>4, <2>1
  <2>3. term[n] = a[n] * b[n]
    BY <2>1
  <2> HIDE DEF term
  <2> QED BY <2>1, <2>2, <2>3
<1>6. s \in [0..Len(a) -> Int] /\ s[0] = 0
  BY <1>4
<1> HIDE DEF s
<1>7. s = [n \in 0..Len(a) |-> IF n = 0 THEN 0 ELSE s[n - 1] + a[n] * b[n]]
  <2>1. ASSUME NEW n \in 0..Len(a)
        PROVE  s[n] = IF n = 0 THEN 0 ELSE s[n - 1] + a[n] * b[n]
    BY <1>5, <1>6
  <2> QED
    BY <1>6, <2>1
<1> DEFINE d == CHOOSE f : f = [n \in 0..Len(a) |-> IF n = 0 THEN 0 ELSE f[n - 1] + a[n] * b[n]]
<1>8. d = [n \in 0..Len(a) |-> IF n = 0 THEN 0 ELSE d[n - 1] + a[n] * b[n]]
  BY <1>7
<1>9. Dot(a, b) = d[Len(a)]
  BY DEF Dot
<1> HIDE DEF d
<1>10. ASSUME NEW n \in 1..Len(a) PROVE d[n] = d[n - 1] + a[n] * b[n]
  <2>1. n \in 0..Len(a) /\ n # 0
    OBVIOUS
  <2> QED
    BY <1>8, <2>1
<1>11. d[0] = 0
  BY <1>8
<1>12. d \in [0..Len(a) -> Int]
  <2> DEFINE G == {n \in Nat : n <= Len(a) => d[n] \in Int}
  <2>1. 0 \in G
    BY <1>11
  <2>2. ASSUME NEW n \in Nat, n \in G PROVE n + 1 \in G
    <3>1. CASE n + 1 <= Len(a)
      <4>1. n + 1 \in 1..Len(a) /\ (n + 1) - 1 = n
        BY <3>1
      <4>2. d[n + 1] = d[n] + a[n + 1] * b[n + 1]
        BY <1>10, <4>1
      <4>3. PICK x \in Int, y \in Int, z \in Int : x = d[n] /\ y = a[n + 1] /\ z = b[n + 1]
        BY <2>2, <3>1, <4>1
      <4>4. x + y * z \in Int
        BY OneTerm
      <4>5. d[n + 1] \in Int
        BY <4>2, <4>3, <4>4, Zenon
      <4> QED
        BY <4>5
    <3> QED
      BY <3>1
  <2>3. Nat \subseteq G
    <3> HIDE DEF G
    <3> QED BY <2>1, <2>2, NatSets
  <2>4. \A n \in 0..Len(a) : n \in Nat /\ n <= Len(a)
    OBVIOUS
  <2>5. \A n \in 0..Len(a) : d[n] \in Int
    BY <2>3, <2>4
  <2>6. d = [n \in 0..Len(a) |-> d[n]]
    BY <1>8
  <2> HIDE DEF G
  <2> QED BY <2>5, <2>6
<1> QED
  BY <1>9, <1>10, <1>11, <1>12 DEF PartialSums

LEMMA DotInt ==
  ASSUME NEW a \in Seq(Int), NEW b \in Seq(Int), Len(a) = Len(b)
  PROVE  Dot(a, b) \in Int
<1>1. PICK s : PartialSums(s, a, b, Len(a)) /\ Dot(a, b) = s[Len(a)]
  BY DotIsSum
<1> QED
  BY <1>1 DEF PartialSums

LEMMA Square == ASSUME NEW x \in Int, NEW y \in Int PROVE (x - y) * (x - y) \in Nat
  OBVIOUS

LEMMA SquareStep ==
  ASSUME NEW x \in Int, NEW y \in Int, NEW z \in Int, NEW a \in Int, NEW b \in Int
  PROVE  (x + a * a) + (y + b * b) - 2 * (z + a * b) = (x + y - 2 * z) + (a - b) * (a - b)
  OBVIOUS

\* A sum of squares is no smaller than each of them.
LEMMA SumOfSquares ==
  ASSUME NEW N \in Nat, NEW q \in [1..N -> Int], NEW w \in [1..N -> Int], NEW d \in 1..N,
         NEW qq, PartialSums(qq, q, q, N),
         NEW ww, PartialSums(ww, w, w, N),
         NEW qw, PartialSums(qw, q, w, N)
  PROVE  qq[N] + ww[N] - 2 * qw[N] >= (q[d] - w[d]) * (q[d] - w[d])
<1> DEFINE sq(n)  == (q[n] - w[n]) * (q[n] - w[n])
           gap(n) == qq[n] + ww[n] - 2 * qw[n]
           G == {n \in Nat : n <= N => /\ gap(n) \in Nat
                                       /\ d <= n => gap(n) >= sq(d)}
<1>1. 0 \in G
  <2>1. qq[0] = 0 /\ ww[0] = 0 /\ qw[0] = 0 /\ ~(d <= 0)
    BY DEF PartialSums
  <2>2. gap(0) = 0
    BY <2>1
  <2> HIDE DEF gap
  <2> QED BY <2>1, <2>2
<1>2. ASSUME NEW n \in Nat, n \in G PROVE n + 1 \in G
  <2>1. CASE n + 1 <= N
    <3>1. n + 1 \in 1..N /\ (n + 1) - 1 = n /\ n \in 0..N
      BY <2>1
    <3>2. q[n + 1] \in Int /\ w[n + 1] \in Int /\ q[d] \in Int /\ w[d] \in Int
      BY <3>1
    <3>3. qq[n] \in Int /\ ww[n] \in Int /\ qw[n] \in Int
      BY <3>1 DEF PartialSums
    <3>4. /\ qq[n + 1] = qq[n] + q[n + 1] * q[n + 1]
          /\ ww[n + 1] = ww[n] + w[n + 1] * w[n + 1]
          /\ qw[n + 1] = qw[n] + q[n + 1] * w[n + 1]
      BY <3>1 DEF PartialSums
    <3>5. PICK x \in Int, y \in Int, z \in Int : x = qq[n] /\ y = ww[n] /\ z = qw[n]
      BY <3>3
    <3>6. PICK a \in Int, b \in Int : a = q[n + 1] /\ b = w[n + 1]
      BY <3>2
    <3>6a. (x + a * a) + (y + b * b) - 2 * (z + a * b) = (x + y - 2 * z) + (a - b) * (a - b)
      BY SquareStep
    <3>7. gap(n + 1) = gap(n) + sq(n + 1)
      BY <3>4, <3>5, <3>6, <3>6a, Zenon
    <3>8. sq(n + 1) \in Nat /\ sq(d) \in Nat
      BY <3>2, Square
    <3>9. gap(n) \in Nat /\ (d <= n => gap(n) >= sq(d))
      BY <1>2, <2>1
    <3>10. d <= n + 1 => d <= n \/ d = n + 1
      OBVIOUS
    <3> HIDE DEF gap, sq
    <3>11. gap(n + 1) \in Nat /\ (d <= n + 1 => gap(n + 1) >= sq(d))
      BY <3>7, <3>8, <3>9, <3>10
    <3> QED
      BY <3>11
  <2> QED
    BY <2>1
<1>3. Nat \subseteq G
  <2> HIDE DEF G
  <2> QED BY <1>1, <1>2, NatSets
<1>4. N \in G /\ d <= N
  BY <1>3
<1> QED
  BY <1>4

\* Two points are no nearer than their projections on an axis.
LEMMA Projection ==
  ASSUME NEW q \in Seq(Int), NEW w \in Seq(Int), Len(q) = Len(w), NEW d \in 1..Len(q)
  PROVE  Dot(q, q) + Dot(w, w) - 2 * Dot(q, w) >= (q[d] - w[d]) * (q[d] - w[d])
<1>1. PICK qq : PartialSums(qq, q, q, Len(q)) /\ Dot(q, q) = qq[Len(q)]
  BY DotIsSum
<1>2. PICK ww : PartialSums(ww, w, w, Len(q)) /\ Dot(w, w) = ww[Len(w)]
  BY DotIsSum
<1>3. PICK qw : PartialSums(qw, q, w, Len(q)) /\ Dot(q, w) = qw[Len(q)]
  BY DotIsSum
<1>4. Len(q) \in Nat /\ q \in [1..Len(q) -> Int] /\ w \in [1..Len(q) -> Int]
  OBVIOUS
<1>5. qq[Len(q)] + ww[Len(q)] - 2 * qw[Len(q)] >= (q[d] - w[d]) * (q[d] - w[d])
  BY <1>1, <1>2, <1>3, <1>4, SumOfSquares
<1> QED
  BY <1>1, <1>2, <1>3, <1>5

-----------------------------------------------------------------------------
(* The best hits.                                                          *)

Above(s, I, x) == {i \in I : s[i] > x}

\* The j-th of m hits is above x just when j scores are.
Counts(h, m, c) == \A j \in 1..m, x \in Int : h[j] > x <=> c[x] >= j

\* h lists the k best of the scores s[i] of the rows in I.
Ranked(h, k, s, I) ==
  /\ h \in Seq(Int)
  /\ Len(h) = IF Cardinality(I) < k THEN Cardinality(I) ELSE k
  /\ Counts(h, Len(h), [x \in Int |-> Cardinality(Above(s, I, x))])

\* What Ranked says, without sequences.
LEMMA RankedMeans ==
  ASSUME NEW k \in Nat, NEW s, NEW I, IsFiniteSet(I), NEW h, Ranked(h, k, s, I)
  PROVE  /\ Len(h) \in Nat /\ Len(h) <= k /\ DOMAIN h = 1..Len(h)
         /\ Cardinality(I) \in Nat
         /\ Len(h) < k => Len(h) = Cardinality(I)
         /\ Len(h) = k => k <= Cardinality(I)
         /\ \A j \in 1..Len(h) : h[j] \in Int
         /\ \A x \in Int : /\ Cardinality(Above(s, I, x)) \in Nat
                           /\ Cardinality(Above(s, I, x)) <= Cardinality(I)
<1>1. Len(h) \in Nat /\ DOMAIN h = 1..Len(h) /\ \A j \in 1..Len(h) : h[j] \in Int
  BY DEF Ranked
<1>2. Cardinality(I) \in Nat
  BY FS_CardinalityType
<1>3. Len(h) = IF Cardinality(I) < k THEN Cardinality(I) ELSE k
  BY DEF Ranked
<1>4. ASSUME NEW x \in Int
      PROVE  /\ Cardinality(Above(s, I, x)) \in Nat
             /\ Cardinality(Above(s, I, x)) <= Cardinality(I)
  <2>1. Above(s, I, x) \in SUBSET I
    BY DEF Above
  <2> QED
    BY <2>1, FS_Subset, FS_CardinalityType
<1>5. /\ Len(h) <= k
      /\ Len(h) < k => Len(h) = Cardinality(I)
      /\ Len(h) = k => k <= Cardinality(I)
  <2>1. PICK l \in Nat, c \in Nat : l = Len(h) /\ c = Cardinality(I)
    BY <1>1, <1>2
  <2>2. l = IF c < k THEN c ELSE k
    BY <1>3, <2>1
  <2> QED
    BY <2>1, <2>2
<1> QED
  BY <1>1, <1>2, <1>4, <1>5

LEMMA RankedEmpty == ASSUME NEW k \in Nat, NEW s PROVE Ranked(<<>>, k, s, {})
<1>1. Cardinality({}) = 0
  BY FS_EmptySet
<1>2. Len(<<>>) = 0 /\ <<>> \in Seq(Int)
  OBVIOUS
<1> QED
  BY <1>1, <1>2 DEF Ranked, Counts

\* Where a new hit goes, for one place j among m hits and one bound x: p hits are at
\* least as good as the new one, a of the n scores are above x.
LEMMA InsertRank ==
  ASSUME NEW k \in Nat, NEW m \in Nat, NEW n \in Nat, NEW p \in Nat, NEW a \in Nat,
         NEW hit \in Int, NEW x \in Int, NEW j \in Nat, 
         NEW now \in Int, NEW prev \in Int, NEW v \in Int,
         m = IF n < k THEN n ELSE k, p <= m, a <= n,
         1 <= j, j <= m + 1, j = m + 1 => m < k,
         j <= m => /\ now > x => a >= j
                   /\ a >= j => now > x
                   /\ now >= hit => j <= p
                   /\ j <= p => now >= hit,
         1 < j => /\ prev > x => a >= j - 1
                  /\ a >= j - 1 => prev > x
                  /\ prev >= hit => j - 1 <= p
                  /\ j - 1 <= p => prev >= hit,
         v = IF j <= p THEN now ELSE IF j = p + 1 THEN hit ELSE prev
  PROVE  /\ v > x => (IF hit > x THEN a + 1 ELSE a) >= j
         /\ (IF hit > x THEN a + 1 ELSE a) >= j => v > x
<1>1. CASE j <= p
  BY <1>1
<1>2. CASE j = p + 1
  BY <1>2
<1>3. CASE j > p + 1
  BY <1>3
<1> QED
  BY <1>1, <1>2, <1>3

CountedHits(h, m, c) == h \in [1..m -> Int] /\ c \in [Int -> Nat] /\ Counts(h, m, c)

\* The places of the hits that are at least as good as x.
AtLeast(h, m, x) == {j \in 1..m : h[j] >= x}

\* The hits that are at least as good as a new one come first.
LEMMA InsertPoint ==
  ASSUME NEW m \in Nat, NEW h, NEW c, CountedHits(h, m, c), NEW hit \in Int
  PROVE  \E p : p \in 0..m /\ AtLeast(h, m, hit) = 1..p
<1>0. h \in [1..m -> Int] /\ c \in [Int -> Nat]
  BY DEF CountedHits
<1>1. PICK a \in Nat : a = c[hit - 1]
  BY <1>0
<1>2. PICK p \in 0..m : p = IF a < m THEN a ELSE m
  OBVIOUS
<1>3. ASSUME NEW j \in 1..m PROVE /\ h[j] >= hit => j <= p
                                  /\ j <= p => h[j] >= hit
  <2>1. PICK y \in Int : y = h[j]
    BY <1>0
  <2>2. hit - 1 \in Int
    OBVIOUS
  <2>3. (y > hit - 1 => a >= j) /\ (a >= j => y > hit - 1)
    BY <1>1, <2>1, <2>2 DEF CountedHits, Counts
  <2>4. (y >= hit => a >= j) /\ (a >= j => y >= hit)
    BY <2>3
  <2>5. (a >= j => j <= p) /\ (j <= p => a >= j)
    BY <1>1, <1>2
  <2> QED
    BY <2>1, <2>4, <2>5, Zenon
<1>4. \A j : j \in 1..p <=> j \in 1..m /\ j <= p
  OBVIOUS
<1>5. \A j : j \in 1..p <=> j \in 1..m /\ h[j] >= hit
  BY <1>3, <1>4
<1> QED
  BY <1>5 DEF AtLeast

\* One more row.
LEMMA RankedAdd ==
  ASSUME NEW k \in Nat, NEW s, NEW I, IsFiniteSet(I), 
         NEW e, e \notin I, s[e] \in Int, NEW h, Ranked(h, k, s, I)
  PROVE  Ranked(AddQueryResult(h, s[e], k), k, s, I \cup {e})
<1>1. PICK hit \in Int : hit = s[e]
  OBVIOUS
<1>2. PICK m \in Nat : m = Len(h) /\ DOMAIN h = 1..m
  BY RankedMeans
<1>3. PICK n \in Nat : n = Cardinality(I)
  BY RankedMeans
<1>4. PICK c \in [Int -> Nat] : c = [x \in Int |-> Cardinality(Above(s, I, x))]
  BY RankedMeans
<1>5. \A x \in Int : c[x] = Cardinality(Above(s, I, x)) /\ c[x] <= n
  BY <1>3, <1>4, RankedMeans
<1>6. h \in [1..m -> Int] /\ Counts(h, m, c) /\ m = IF n < k THEN n ELSE k
  <2>1. h \in Seq(Int) /\ Counts(h, m, c) /\ m = IF n < k THEN n ELSE k
    BY <1>2, <1>3, <1>4 DEF Ranked
  <2>2. h \in [1..Len(h) -> Int]
    BY <2>1
  <2> QED
    BY <1>2, <2>1, <2>2
<1>7. PICK p \in 0..m : AtLeast(h, m, hit) = 1..p
  <2>1. CountedHits(h, m, c)
    BY <1>6 DEF CountedHits
  <2>2. \E p : p \in 0..m /\ AtLeast(h, m, hit) = 1..p
    BY <2>1, InsertPoint
  <2> QED
    BY <2>2
<1>8. Cardinality({j \in DOMAIN h : h[j] >= hit}) = p
  <2>1. p \in Int /\ 1 \in Int /\ (IF 1 > p THEN 0 ELSE p - 1 + 1) = p
    OBVIOUS
  <2>2. Cardinality(1..p) = p
    BY <2>1, FS_Interval
  <2> QED
    BY <1>2, <1>7, <2>2 DEF AtLeast
<1>9. PICK m2 \in Nat : m2 = IF m < k THEN m + 1 ELSE k
  OBVIOUS
<1>10. PICK h2 : h2 = AddQueryResult(h, hit, k)
  OBVIOUS
<1>11. h2 = [j \in 1..m2 |-> IF j < p + 1 THEN h[j] ELSE IF j = p + 1 THEN hit ELSE h[j - 1]]
  BY <1>2, <1>8, <1>9, <1>10 DEF AddQueryResult
<1>12. PICK c2 : c2 = [x \in Int |-> Cardinality(Above(s, I \cup {e}, x))]
  OBVIOUS
<1>13. ASSUME NEW x \in Int
       PROVE  c2[x] = IF hit > x THEN c[x] + 1 ELSE c[x]
  <2>1. IsFiniteSet(Above(s, I, x)) /\ e \notin Above(s, I, x)
    BY FS_Subset DEF Above
  <2>2. Above(s, I \cup {e}, x) = IF hit > x THEN Above(s, I, x) \cup {e} ELSE Above(s, I, x)
    BY <1>1 DEF Above
  <2>3. Cardinality(Above(s, I, x) \cup {e}) = Cardinality(Above(s, I, x)) + 1
    BY <2>1, FS_AddElement
  <2> QED
    BY <1>5, <1>12, <2>2, <2>3
<1>14. ASSUME NEW j \in 1..m2 PROVE h2[j] \in Int
  <2>1. j <= m + 1 /\ (j = m + 1 => p + 1 <= m + 1)
    BY <1>9
  <2>2. CASE j < p + 1
    <3>1. j \in 1..m
      BY <2>2
    <3> QED
      BY <1>6, <1>11, <2>2, <3>1
  <2>3. CASE j = p + 1
    BY <1>11, <2>3
  <2>4. CASE j > p + 1
    <3>1. j - 1 \in 1..m /\ ~(j < p + 1) /\ j # p + 1
      BY <2>1, <2>4
    <3> QED
      BY <1>6, <1>11, <3>1
  <2> QED
    BY <2>2, <2>3, <2>4
<1>15. ASSUME NEW j \in 1..m2, NEW x \in Int PROVE h2[j] > x <=> c2[x] >= j
  <2>1. PICK v \in Int : v = h2[j]
    BY <1>14
  <2>2. PICK a \in Nat : a = c[x]
    OBVIOUS
  <2>3. PICK now \in Int : j \in 1..m => now = h[j]
    BY <1>6
  <2>4. PICK prev \in Int : j - 1 \in 1..m => prev = h[j - 1]
    BY <1>6
  <2>5. j <= m => /\ now > x => a >= j
                  /\ a >= j => now > x
                  /\ now >= hit => j <= p
                  /\ j <= p => now >= hit
    <3> SUFFICES ASSUME j \in 1..m PROVE /\ now > x => a >= j
                                         /\ a >= j => now > x
                                         /\ now >= hit => j <= p
                                         /\ j <= p => now >= hit
      OBVIOUS
    <3>1. (now > x => a >= j) /\ (a >= j => now > x)
      BY <1>6, <2>2, <2>3 DEF Counts
    <3>2. j \in {i \in 1..m : h[i] >= hit} <=> j \in 1..p
      BY <1>7 DEF AtLeast
    <3> QED
      BY <2>3, <3>1, <3>2
  <2>6. 1 < j => /\ prev > x => a >= j - 1
                 /\ a >= j - 1 => prev > x
                 /\ prev >= hit => j - 1 <= p
                 /\ j - 1 <= p => prev >= hit
    <3> SUFFICES ASSUME 1 < j PROVE /\ prev > x => a >= j - 1
                                    /\ a >= j - 1 => prev > x
                                    /\ prev >= hit => j - 1 <= p
                                    /\ j - 1 <= p => prev >= hit
      OBVIOUS
    <3>1. PICK i \in 1..m : i = j - 1
      BY <1>9
    <3>2. (prev > x => a >= i) /\ (a >= i => prev > x)
      BY <1>6, <2>2, <2>4, <3>1 DEF Counts
    <3>3. i \in {l \in 1..m : h[l] >= hit} <=> i \in 1..p
      BY <1>7 DEF AtLeast
    <3> QED
      BY <2>4, <3>1, <3>2, <3>3
  <2>7. v = IF j <= p THEN now ELSE IF j = p + 1 THEN hit ELSE prev
    <3>1. j <= m + 1
      BY <1>9
    <3>2. CASE j <= p
      <4>1. j \in 1..m /\ j < p + 1
        BY <3>2
      <4> QED
        BY <1>11, <2>1, <2>3, <3>2, <4>1
    <3>3. CASE j = p + 1
      BY <1>11, <2>1, <3>3
    <3>4. CASE j > p + 1
      <4>1. j - 1 \in 1..m /\ ~(j < p + 1) /\ j # p + 1 /\ ~(j <= p)
        BY <3>1, <3>4
      <4> QED
        BY <1>11, <2>1, <2>4, <4>1
    <3> QED
      BY <3>2, <3>3, <3>4
  <2>8. /\ v > x => (IF hit > x THEN a + 1 ELSE a) >= j
        /\ (IF hit > x THEN a + 1 ELSE a) >= j => v > x
    <3>0. m = (IF n < k THEN n ELSE k) /\ a <= n
      BY <1>5, <1>6, <2>2
    <3>1. /\ p \in Nat /\ p <= m
          /\ j \in Nat /\ 1 <= j /\ j <= m + 1 /\ (j = m + 1 => m < k)
      BY <1>9, <3>0
    <3>2. m \in Nat /\ n \in Nat /\ a \in Nat /\ hit \in Int /\ now \in Int /\ prev \in Int /\ v \in Int
      BY <1>1, <1>2, <1>3, <2>1, <2>2, <2>3, <2>4
    <3> QED
      BY <2>5, <2>6, <2>7, <3>0, <3>1, <3>2, InsertRank
  <2> QED
    BY <1>13, <2>1, <2>2, <2>8
<1>16. Cardinality(I \cup {e}) = n + 1
  BY <1>3, FS_AddElement
<1>17. m2 = IF n + 1 < k THEN n + 1 ELSE k
  BY <1>6, <1>9
<1>18. h2 \in Seq(Int) /\ Len(h2) = m2
  <2>1. h2 \in [1..m2 -> Int]
    BY <1>11, <1>14
  <2> QED
    BY <2>1
<1>19. Counts(h2, m2, c2)
  BY <1>15 DEF Counts
<1>20. Ranked(h2, k, s, I \cup {e})
  BY <1>12, <1>16, <1>17, <1>18, <1>19 DEF Ranked
<1> QED
  BY <1>1, <1>10, <1>20

\* Rows that are no better than the worst of k hits.
LEMMA RankedSkip ==
  ASSUME NEW k \in Nat, 0 < k, NEW s, NEW I, IsFiniteSet(I), NEW J, IsFiniteSet(J),
         \A i \in I \cup J : s[i] \in Int,
         NEW h, Ranked(h, k, s, I), Len(h) = k, \A i \in J : ~(s[i] > h[k])
  PROVE  Ranked(h, k, s, I \cup J)
<1>1. DOMAIN h = 1..k /\ h[k] \in Int /\ h \in Seq(Int)
  BY RankedMeans DEF Ranked
<1>2. IsFiniteSet(I \cup J) /\ I \in SUBSET (I \cup J)
  BY FS_Union
<1>3. k <= Cardinality(I \cup J) /\ Cardinality(I \cup J) \in Nat
  <2>1. k <= Cardinality(I) /\ Cardinality(I) \in Nat
    BY RankedMeans
  <2>2. Cardinality(I) <= Cardinality(I \cup J) /\ Cardinality(I \cup J) \in Nat
    BY <1>2, FS_Subset, FS_CardinalityType
  <2> QED
    BY <2>1, <2>2
<1> DEFINE c  == [x \in Int |-> Cardinality(Above(s, I, x))]
           c2 == [x \in Int |-> Cardinality(Above(s, I \cup J, x))]
<1>4. \A x \in Int : c[x] \in Nat /\ c2[x] \in Nat /\ c[x] <= c2[x]
  <2> SUFFICES ASSUME NEW x \in Int PROVE c[x] \in Nat /\ c2[x] \in Nat /\ c[x] <= c2[x]
    OBVIOUS
  <2>1. Above(s, I \cup J, x) \in SUBSET (I \cup J) /\ Above(s, I, x) \in SUBSET Above(s, I \cup J, x)
    BY DEF Above
  <2>2. IsFiniteSet(Above(s, I \cup J, x))
    BY <1>2, <2>1, FS_Subset
  <2>3. IsFiniteSet(Above(s, I, x)) /\ Cardinality(Above(s, I, x)) <= Cardinality(Above(s, I \cup J, x))
    BY <2>1, <2>2, FS_Subset
  <2> QED
    BY <2>2, <2>3, FS_CardinalityType
<1>5. ASSUME NEW x \in Int, ~(h[k] > x) PROVE c2[x] = c[x]
  <2>1. \A i \in J : ~(s[i] > x)
    <3> SUFFICES ASSUME NEW i \in J PROVE ~(s[i] > x)
      OBVIOUS
    <3>1. PICK y \in Int : y = s[i]
      OBVIOUS
    <3>2. PICK z \in Int : z = h[k]
      BY <1>1
    <3>3. ~(y > z) /\ ~(z > x)
      BY <1>5, <3>1, <3>2
    <3>4. ~(y > x)
      BY <3>3
    <3> QED
      BY <3>1, <3>4
  <2>2. Above(s, I \cup J, x) = Above(s, I, x)
    BY <2>1 DEF Above
  <2> QED
    BY <2>2
<1> HIDE DEF c, c2
<1>6. ASSUME NEW j \in 1..k, NEW x \in Int PROVE h[j] > x <=> c2[x] >= j
  <2>1. h[j] > x <=> c[x] >= j
    BY DEF Ranked, Counts, c
  <2>2. CASE h[k] > x
    <3>1. c[x] >= k
      BY <2>2 DEF Ranked, Counts, c
    <3>2. c[x] >= j /\ c2[x] >= j
      BY <1>4, <3>1
    <3> QED
      BY <2>1, <3>2
  <2>3. CASE ~(h[k] > x)
    BY <1>5, <2>1, <2>3
  <2> QED
    BY <2>2, <2>3
<1>7. Counts(h, k, c2)
  BY <1>6 DEF Counts
<1>8. k = IF Cardinality(I \cup J) < k THEN Cardinality(I \cup J) ELSE k
  BY <1>3
<1> QED
  BY <1>1, <1>7, <1>8 DEF Ranked, c2

\* The k best scores of all rows are what the linear scan returns.
LEMMA RankedIsScan ==
  ASSUME NEW k \in Nat, NEW query, NEW n \in Nat, n = Len(table), DOMAIN table = 1..n,
         NEW s, s = [i \in DOMAIN table |-> Dot(query, table[i])],
         \A i \in DOMAIN table : s[i] \in Int,
         NEW h, Ranked(h, k, s, DOMAIN table)
  PROVE  h = LinearScanScores(query, k)
<1> DEFINE R == DOMAIN table
           Scores == {s[i] : i \in R}
           IsJth(x, j) == /\ Cardinality({i \in R : s[i] > x}) < j
                          /\ Cardinality({i \in R : s[i] >= x}) >= j
           c == [x \in Int |-> Cardinality(Above(s, R, x))]
<1>1. IsFiniteSet(R) /\ Cardinality(R) = n
  <2>1. 1 \in Int /\ n \in Int /\ (IF 1 > n THEN 0 ELSE n - 1 + 1) = n
    OBVIOUS
  <2>2. IsFiniteSet(1..n) /\ Cardinality(1..n) = n
    BY <2>1, FS_Interval
  <2> QED
    BY <2>2
<1>2. PICK m \in Nat : m = Len(h) /\ m = IF n < k THEN n ELSE k
  BY <1>1, RankedMeans DEF Ranked
<1>3. h \in Seq(Int) /\ h \in [1..m -> Int]
  <2>1. h \in Seq(Int) /\ h \in [1..Len(h) -> Int]
    BY DEF Ranked
  <2> QED
    BY <1>2, <2>1
<1>4. \A x \in Int : c[x] \in Nat
  BY <1>1, RankedMeans
<1>5. ASSUME NEW j \in 1..m, NEW x \in Int PROVE (h[j] > x => c[x] >= j) /\ (c[x] >= j => h[j] > x)
  BY <1>2 DEF Ranked, Counts
<1>6. ASSUME NEW x \in Int
      PROVE  {i \in R : s[i] > x} = Above(s, R, x) /\ {i \in R : s[i] >= x} = Above(s, R, x - 1)
  <2>1. ASSUME NEW i \in R PROVE (s[i] >= x => s[i] > x - 1) /\ (s[i] > x - 1 => s[i] >= x)
    <3>1. PICK y \in Int : y = s[i]
      OBVIOUS
    <3>2. (y >= x => y > x - 1) /\ (y > x - 1 => y >= x)
      OBVIOUS
    <3> QED
      BY <3>1, <3>2
  <2> QED
    BY <2>1 DEF Above
<1>7. ASSUME NEW x \in Int, NEW j \in 1..m
      PROVE  (IsJth(x, j) => c[x] < j /\ c[x - 1] >= j) /\ (c[x] < j /\ c[x - 1] >= j => IsJth(x, j))
  <2>1. x - 1 \in Int
    OBVIOUS
  <2> QED
    BY <1>6, <2>1
<1> HIDE DEF IsJth
<1>8. ASSUME NEW j \in 1..m
      PROVE  /\ h[j] \in Scores /\ IsJth(h[j], j)
             /\ \A x \in Scores : IsJth(x, j) => x = h[j]
  <2>1. PICK y \in Int : y = h[j]
    BY <1>3
  <2>2. y - 1 \in Int /\ ~(y > y) /\ y > y - 1
    OBVIOUS
  <2>3. ~(c[y] >= j) /\ c[y - 1] >= j
    BY <1>5, <2>1, <2>2
  <2>4. PICK a \in Nat, b \in Nat : a = c[y] /\ b = c[y - 1]
    BY <1>4, <2>2
  <2>5. a < j /\ b >= j /\ a # b
    BY <2>3, <2>4
  <2>6. IsJth(y, j)
    BY <1>7, <2>4, <2>5
  <2>7. PICK i \in R : s[i] > y - 1 /\ ~(s[i] > y)
    <3>1. Above(s, R, y) # Above(s, R, y - 1)
      BY <2>2, <2>4, <2>5
    <3>2. Above(s, R, y) \subseteq Above(s, R, y - 1)
      <4> SUFFICES ASSUME NEW i \in R, s[i] > y PROVE s[i] > y - 1
        BY DEF Above
      <4>1. PICK z \in Int : z = s[i]
        OBVIOUS
      <4>2. z > y => z > y - 1
        OBVIOUS
      <4> QED
        BY <4>1, <4>2
    <3> QED
      BY <3>1, <3>2 DEF Above
  <2>8. s[i] = y
    <3>1. PICK z \in Int : z = s[i]
      OBVIOUS
    <3>2. z > y - 1 /\ ~(z > y) => z = y
      OBVIOUS
    <3> QED
      BY <2>7, <3>1, <3>2
  <2>9. ASSUME NEW x \in Scores, IsJth(x, j) PROVE x = y
    <3>1. x \in Int /\ x - 1 \in Int
      OBVIOUS
    <3>2. PICK u \in Nat, v \in Nat : u = c[x] /\ v = c[x - 1]
      BY <1>4, <3>1
    <3>3. u < j /\ v >= j
      BY <1>7, <2>9, <3>1, <3>2
    <3>4. ~(y > x) /\ y > x - 1
      BY <1>5, <2>1, <3>1, <3>2, <3>3
    <3> QED
      BY <3>1, <3>4
  <2> QED
    BY <2>1, <2>6, <2>8, <2>9
<1> DEFINE Best   == {Dot(query, table[i]) : i \in R}
           IsBest(x, j) == /\ Cardinality({i \in R : Dot(query, table[i]) > x}) < j
                           /\ Cardinality({i \in R : Dot(query, table[i]) >= x}) >= j
<1>9. LinearScanScores(query, k) = [j \in 1..m |-> CHOOSE x \in Best : IsBest(x, j)]
  BY <1>2 DEF LinearScanScores
<1>10. \A i \in R : s[i] = Dot(query, table[i])
  OBVIOUS
<1>11. Best = Scores
  BY <1>10
<1>12. ASSUME NEW x, NEW j PROVE IsBest(x, j) <=> IsJth(x, j)
  <2>1. /\ {i \in R : Dot(query, table[i]) > x} = {i \in R : s[i] > x}
        /\ {i \in R : Dot(query, table[i]) >= x} = {i \in R : s[i] >= x}
    BY <1>10
  <2> QED
    BY <2>1 DEF IsJth
<1> HIDE DEF Best, IsBest, Scores
<1>13. ASSUME NEW j \in 1..m PROVE (CHOOSE x \in Best : IsBest(x, j)) = h[j]
  BY <1>8, <1>11, <1>12
<1> QED
  BY <1>3, <1>9, <1>13

-----------------------------------------------------------------------------
(* The search.                                                             *)

\* The nodes that are reached through this one, itself included.
Below(t) == {u \in DOMAIN tree : Len(t) <= Len(u) /\ \A n \in 1..Len(t) : u[n] = t[n]}

RowsBelow(t) == {tree[u] : u \in Below(t)}

\* Of the two vectors the first is on this side of the second, or on the split.
OnSide(side, vec, split, depth) ==
  /\ side = "left"  => SplitVal(vec, depth) <= SplitVal(split, depth)
  /\ side = "right" => SplitVal(vec, depth) >= SplitVal(split, depth)

\* Every node is below the nodes it is reached through, on the side it was turned to.
Ordered ==
  \A t \in DOMAIN tree : \A n \in DOMAIN t :
    LET above == SubSeq(t, 1, n - 1)
    IN  /\ above \in DOMAIN tree
        /\ OnSide(t[n], table[tree[t]], table[tree[above]], n - 1)

OneNodePerRow ==
  /\ \A t, u \in DOMAIN tree : tree[t] = tree[u] => t = u
  /\ \A i \in DOMAIN table : \E t \in DOMAIN tree : tree[t] = i

\* What the operations keep true of the tree.
IndexInv == KTypeOK /\ Ordered /\ OneNodePerRow

LEMMA VectorFacts ==
  ASSUME NEW v \in Vector, NEW w \in Vector
  PROVE  /\ v \in Seq(Int) /\ Len(v) \in Nat /\ Len(v) > 0 /\ Len(v) = Len(w)
         /\ Dot(v, w) \in Int /\ Dot(v, v) = Norm * Norm
<1>1. v \in Seq(Int) /\ w \in Seq(Int) /\ Len(v) > 0 /\ Len(v) = Len(w) /\ Dot(v, v) = Norm * Norm
  BY VectorAssumption
<1> QED
  BY <1>1, DotInt

LEMMA SplitValIs ==
  ASSUME NEW v \in Vector, NEW w \in Vector, NEW depth \in Nat
  PROVE  \E d \in 1..Len(v) : SplitVal(v, depth) = v[d] /\ SplitVal(w, depth) = w[d]
<1>1. PICK N \in Nat : N > 0 /\ N = Len(v) /\ N = Len(w)
  BY VectorFacts
<1>2. (depth % N) + 1 \in 1..N
  BY <1>1
<1> QED
  BY <1>1, <1>2 DEF SplitVal

LEMMA SplitValInt ==
  ASSUME NEW v \in Vector, NEW depth \in Nat
  PROVE  SplitVal(v, depth) \in Int
<1>1. PICK d \in 1..Len(v) : SplitVal(v, depth) = v[d]
  BY SplitValIs
<1> QED
  BY <1>1, VectorFacts

LEMMA NodeFacts ==
  ASSUME KTypeOK, NEW t \in DOMAIN tree
  PROVE  /\ t \in Seq(Side) /\ Len(t) \in Nat /\ DOMAIN t = 1..Len(t)
         /\ tree[t] \in DOMAIN table /\ table[tree[t]] \in Vector
  BY DEF KTypeOK

\* A place of the tree: what it is extended by and what precedes it.
LEMMA Turned ==
  ASSUME NEW t \in Seq(Side), NEW side \in Side
  PROVE  /\ Append(t, side) \in Seq(Side)
         /\ Len(Append(t, side)) = Len(t) + 1
         /\ Append(t, side)[Len(t) + 1] = side
         /\ \A n \in 1..Len(t) : Append(t, side)[n] = t[n]
  BY AppendProperties

LEMMA SameTurns ==
  ASSUME NEW t \in Seq(Side), NEW u \in Seq(Side), Len(t) = Len(u),
         \A n \in 1..Len(t) : t[n] = u[n]
  PROVE  t = u
<1>1. t \in [1..Len(t) -> Side] /\ u \in [1..Len(t) -> Side]
  OBVIOUS
<1> QED
  BY <1>1

LEMMA FirstTurns ==
  ASSUME NEW t \in Seq(Side), NEW n \in 0..Len(t)
  PROVE  /\ SubSeq(t, 1, n) \in Seq(Side)
         /\ Len(SubSeq(t, 1, n)) = n
         /\ \A i \in 1..n : SubSeq(t, 1, n)[i] = t[i]
         /\ n = Len(t) => SubSeq(t, 1, n) = t
<1>1. \A i \in 1..n : t[i] \in Side
  OBVIOUS
<1>2. 1 \in Int /\ n \in Int /\ n - 1 + 1 = n /\ (IF 1 <= n THEN n - 1 + 1 ELSE 0) = n
  OBVIOUS
<1>3. /\ SubSeq(t, 1, n) \in Seq(Side)
      /\ Len(SubSeq(t, 1, n)) = IF 1 <= n THEN n - 1 + 1 ELSE 0
      /\ \A i \in 1..(n - 1 + 1) : SubSeq(t, 1, n)[i] = t[1 + i - 1]
  BY <1>1, <1>2, SubSeqProperties
<1>4. Len(SubSeq(t, 1, n)) = n
  BY <1>2, <1>3
<1>5. ASSUME NEW i \in 1..n PROVE SubSeq(t, 1, n)[i] = t[i]
  <2>1. 1 + i - 1 = i /\ i \in 1..(n - 1 + 1)
    BY <1>2
  <2> QED
    BY <1>3, <2>1
<1>6. n = Len(t) => SubSeq(t, 1, n) = t
  BY <1>3, <1>4, <1>5, SameTurns
<1> QED
  BY <1>3, <1>4, <1>5, <1>6

\* Every node is reached through a node for each of its turns.
LEMMA NodesAbove ==
  ASSUME KTypeOK, Ordered, NEW t \in DOMAIN tree, NEW n \in 0..Len(t)
  PROVE  SubSeq(t, 1, n) \in DOMAIN tree
<1>1. t \in Seq(Side) /\ Len(t) \in Nat /\ DOMAIN t = 1..Len(t)
  BY NodeFacts
<1>2. CASE n = Len(t)
  BY <1>1, <1>2, FirstTurns
<1>3. CASE n # Len(t)
  <2>1. n + 1 \in 1..Len(t) /\ (n + 1) - 1 = n
    <3>1. PICK L \in Nat : L = Len(t)
      BY <1>1
    <3> QED
      BY <1>3, <3>1
  <2>2. n + 1 \in DOMAIN t
    BY <1>1, <2>1
  <2>3. SubSeq(t, 1, (n + 1) - 1) \in DOMAIN tree
    BY <2>2 DEF Ordered
  <2> QED
    BY <2>1, <2>3
<1> QED
  BY <1>2, <1>3

\* A tree of n nodes is less than n turns deep: every node has as many above it
\* as turns, and each holds a row of its own.
LEMMA Shallow ==
  ASSUME IndexInv, NEW t \in DOMAIN tree
  PROVE  Len(t) < Len(table)
<1>1. t \in Seq(Side) /\ Len(t) \in Nat /\ KTypeOK /\ Ordered
  BY NodeFacts DEF IndexInv
<1>2. Len(table) \in Nat /\ DOMAIN table = 1..Len(table)
  BY DEF IndexInv, KTypeOK
<1> DEFINE N == Len(table)
           L == Len(t)
           row == [n \in 1..(L + 1) |-> tree[SubSeq(t, 1, n - 1)]]
<1>3. ASSUME NEW n \in 1..(L + 1)
      PROVE  /\ n - 1 \in 0..L
             /\ SubSeq(t, 1, n - 1) \in DOMAIN tree /\ Len(SubSeq(t, 1, n - 1)) = n - 1
             /\ row[n] \in 1..N
  <2>1. n - 1 \in 0..L
    BY <1>1
  <2>2. SubSeq(t, 1, n - 1) \in DOMAIN tree
    BY <1>1, <2>1, NodesAbove
  <2>3. Len(SubSeq(t, 1, n - 1)) = n - 1
    BY <1>1, <2>1, FirstTurns
  <2>4. tree[SubSeq(t, 1, n - 1)] \in 1..N
    BY <1>1, <1>2, <2>2, NodeFacts
  <2> QED
    BY <2>1, <2>2, <2>3, <2>4
<1>4. ASSUME NEW m \in 1..(L + 1), NEW n \in 1..(L + 1), row[m] = row[n] PROVE m = n
  <2>1. SubSeq(t, 1, m - 1) = SubSeq(t, 1, n - 1)
    BY <1>3, <1>4 DEF IndexInv, OneNodePerRow
  <2>2. m - 1 = n - 1
    BY <1>3, <2>1, Zenon
  <2> QED
    BY <2>2
<1>5. row \in Injection(1..(L + 1), 1..N)
  <2>1. row \in [1..(L + 1) -> 1..N]
    BY <1>3
  <2> HIDE DEF row
  <2> QED BY <1>4, <2>1 DEF Injection, IsInjective
<1>6. IsFiniteSet(1..N) /\ Cardinality(1..N) = N /\ Cardinality(1..(L + 1)) = L + 1
  <2>1. 1 \in Int /\ N \in Int /\ L + 1 \in Int
    BY <1>1, <1>2
  <2>2. (IF 1 > N THEN 0 ELSE N - 1 + 1) = N /\ (IF 1 > L + 1 THEN 0 ELSE (L + 1) - 1 + 1) = L + 1
    BY <1>1, <1>2
  <2> QED
    BY <2>1, <2>2, FS_Interval
<1>7. Cardinality(1..(L + 1)) <= Cardinality(1..N)
  <2>1. ExistsInjection(1..(L + 1), 1..N)
    BY <1>5 DEF ExistsInjection
  <2> QED
    BY <1>5, <1>6, <2>1, FS_Injection
<1> QED
  BY <1>1, <1>2, <1>6, <1>7

-----------------------------------------------------------------------------
(* The calls of a search.                                                  *)

Hits == Seq(Int)

NodeVec(t) == table[tree[t]]

Gap(query, t) == SplitVal(query, Len(t)) - SplitVal(NodeVec(t), Len(t))

NearSide(query, t) == IF Gap(query, t) < 0 THEN "left" ELSE "right"
FarSide(query, t)  == IF Gap(query, t) < 0 THEN "right" ELSE "left"

\* The hits with the node's own, and those the search of the nearer half leaves.
WithNode(query, k, t, hits) == AddQueryResult(hits, Dot(query, NodeVec(t)), k)

Near(f, query, k, t, hits) ==
  f[<<Append(t, NearSide(query, t)), WithNode(query, k, t, hits)>>]

LEMMA VisitIs ==
  ASSUME NEW f, NEW query, NEW k, NEW t, NEW hits
  PROVE  Visit(f, query, k, t, hits) =
           IF t \notin DOMAIN tree THEN hits
           ELSE IF TooFar(Gap(query, t), Near(f, query, k, t, hits), k)
             THEN Near(f, query, k, t, hits)
             ELSE f[<<Append(t, FarSide(query, t)), Near(f, query, k, t, hits)>>]
BY DEF Visit, NodeVec, Gap, NearSide, FarSide, WithNode, Near

LEMMA AddTyped ==
  ASSUME NEW hits \in Hits, NEW hit \in Int, NEW k \in Nat
  PROVE  AddQueryResult(hits, hit, k) \in Hits
<1> DEFINE C  == {j \in DOMAIN hits : hits[j] >= hit}
           at == Cardinality(C) + 1
<1>1. PICK m \in Nat : m = Len(hits) /\ DOMAIN hits = 1..m
  BY DEF Hits
<1>2. hits \in [1..m -> Int]
  BY <1>1 DEF Hits
<1>3. IsFiniteSet(1..m) /\ Cardinality(1..m) = m
  <2>1. 1 \in Int /\ m \in Int /\ (IF 1 > m THEN 0 ELSE m - 1 + 1) = m
    OBVIOUS
  <2> QED
    BY <2>1, FS_Interval
<1>4. C \in SUBSET (1..m)
  BY <1>1
<1>5. Cardinality(C) \in Nat /\ Cardinality(C) <= m
  BY <1>3, <1>4, FS_Subset, FS_CardinalityType
<1>6. PICK p \in Nat : p = at /\ 1 <= p /\ p <= m + 1
  <2> HIDE DEF C
  <2> QED BY <1>5
<1>7. PICK n \in Nat : n = IF m < k THEN m + 1 ELSE k
  OBVIOUS
<1>8. AddQueryResult(hits, hit, k) =
        [j \in 1..n |-> IF j < p THEN hits[j] ELSE IF j = p THEN hit ELSE hits[j - 1]]
  BY <1>1, <1>6, <1>7 DEF AddQueryResult
<1>9. ASSUME NEW j \in 1..n
      PROVE  (IF j < p THEN hits[j] ELSE IF j = p THEN hit ELSE hits[j - 1]) \in Int
  <2>1. j <= m + 1
    BY <1>7
  <2>2. CASE j < p
    <3>1. j \in 1..m
      BY <1>6, <2>2
    <3> QED
      BY <1>2, <2>2, <3>1
  <2>3. CASE j = p
    BY <2>3
  <2>4. CASE j > p
    <3>1. j - 1 \in 1..m /\ ~(j < p) /\ j # p
      BY <1>6, <2>1, <2>4
    <3> QED
      BY <1>2, <3>1
  <2> QED
    BY <1>6, <2>2, <2>3, <2>4
<1>10. AddQueryResult(hits, hit, k) \in [1..n -> Int]
  BY <1>8, <1>9
<1> QED
  BY <1>10, IsASeq DEF Hits

LEMMA NearCall ==
  ASSUME KTypeOK, NEW t \in DOMAIN tree, NEW query \in Vector, NEW k \in Nat, NEW hits \in Hits
  PROVE  /\ t \in Seq(Side)
         /\ NearSide(query, t) \in Side /\ FarSide(query, t) \in Side
         /\ WithNode(query, k, t, hits) \in Hits
<1>1. t \in Seq(Side) /\ NodeVec(t) \in Vector
  BY NodeFacts DEF NodeVec
<1>2. Dot(query, NodeVec(t)) \in Int
  BY <1>1, VectorFacts
<1> QED
  BY <1>1, <1>2, AddTyped DEF NearSide, FarSide, Side, WithNode

\* A call returns hits when the calls it makes do, and takes from the search only
\* what it returns for the two halves.
LEMMA VisitTyped ==
  ASSUME KTypeOK, NEW query \in Vector, NEW k \in Nat, NEW t \in Seq(Side), NEW hits \in Hits,
         NEW g \in [Seq(Side) \X Hits -> Hits]
  PROVE  /\ Visit(g, query, k, t, hits) \in Hits
         /\ t \in DOMAIN tree => Near(g, query, k, t, hits) \in Hits
<1>1. CASE t \notin DOMAIN tree
  BY <1>1, VisitIs
<1>2. CASE t \in DOMAIN tree
  <2> DEFINE ns == NearSide(query, t)
             fs == FarSide(query, t)
             h1 == WithNode(query, k, t, hits)
  <2>1. ns \in Side /\ fs \in Side /\ h1 \in Hits
    BY <1>2, NearCall
  <2>2. Append(t, ns) \in Seq(Side) /\ Append(t, fs) \in Seq(Side)
    BY <2>1, AppendProperties
  <2>3. Near(g, query, k, t, hits) \in Hits
    BY <2>1, <2>2 DEF Near
  <2>4. g[<<Append(t, fs), Near(g, query, k, t, hits)>>] \in Hits
    BY <2>2, <2>3
  <2> QED
    BY <1>2, <2>3, <2>4, VisitIs
<1> QED
  BY <1>1, <1>2

IsCall(query, k, t, hits) ==
  query \in Vector /\ k \in Nat /\ t \in Seq(Side) /\ hits \in Hits

SameBelow(f, g, t) ==
  /\ g \in [Seq(Side) \X Hits -> Hits]
  /\ \A side \in Side, h \in Hits : f[<<Append(t, side), h>>] = g[<<Append(t, side), h>>]

LEMMA SameHalves ==
  ASSUME KTypeOK, NEW query, NEW k, NEW t, NEW hits, IsCall(query, k, t, hits),
         NEW f, NEW g, SameBelow(f, g, t)
  PROVE  Visit(f, query, k, t, hits) = Visit(g, query, k, t, hits)
<1>0. /\ query \in Vector /\ k \in Nat /\ t \in Seq(Side) /\ hits \in Hits
      /\ g \in [Seq(Side) \X Hits -> Hits]
  BY DEF IsCall, SameBelow
<1>1. CASE t \notin DOMAIN tree
  BY <1>1, VisitIs
<1>2. CASE t \in DOMAIN tree
  <2>1. /\ NearSide(query, t) \in Side /\ FarSide(query, t) \in Side
        /\ WithNode(query, k, t, hits) \in Hits /\ Near(g, query, k, t, hits) \in Hits
    BY <1>0, <1>2, NearCall, VisitTyped
  <2>2. Near(f, query, k, t, hits) = Near(g, query, k, t, hits)
    BY <2>1 DEF Near, SameBelow
  <2>3. f[<<Append(t, FarSide(query, t)), Near(f, query, k, t, hits)>>]
          = g[<<Append(t, FarSide(query, t)), Near(g, query, k, t, hits)>>]
    BY <2>1, <2>2 DEF SameBelow
  <2> QED
    BY <1>2, <2>2, <2>3, VisitIs
<1> QED
  BY <1>1, <1>2

\* f is what the search returns for every call.
Searches(f, query, k) ==
  /\ f \in [Seq(Side) \X Hits -> Hits]
  /\ \A t \in Seq(Side), h \in Hits : f[<<t, h>>] = Visit(f, query, k, t, h)

\* The definition of the search has a solution, and a query is one of its calls.
LEMMA SearchReturns ==
  ASSUME IndexInv, NEW query \in Vector, NEW k \in Nat
  PROVE  \E f : Searches(f, query, k) /\ SearchKdTree(query, k) = f[<< <<>>, <<>> >>]
<1> DEFINE C  == Seq(Side) \X Hits
           S  == [C -> Hits]
           s0 == [call \in C |-> call[2]]
           F  == [x \in Nat \X S |-> [call \in C |-> Visit(x[2], query, k, call[1], call[2])]]
<1>1. KTypeOK
  BY DEF IndexInv
<1>2. F \in [Nat \X S -> S]
  <2>1. ASSUME NEW x \in Nat \X S, NEW call \in C PROVE Visit(x[2], query, k, call[1], call[2]) \in Hits
    BY <1>1, <2>1, VisitTyped
  <2> QED
    BY <2>1
<1>3. s0 \in S
  OBVIOUS
<1>4. PICK g : Recurs(g, S, s0, F)
  <2> HIDE DEF S, s0, F
  <2> QED BY <1>2, <1>3, Recursion
<1>5. /\ g \in [Nat -> S] /\ g[0] = s0
      /\ \A n \in Nat : g[n + 1] = F[<<n, g[n]>>]
  <2> HIDE DEF S, s0, F
  <2> QED BY <1>4 DEF Recurs
<1>6. ASSUME NEW n \in Nat, NEW t \in Seq(Side), NEW h \in Hits
      PROVE  g[n + 1][<<t, h>>] = Visit(g[n], query, k, t, h)
  <2>1. g[n] \in S /\ g[n + 1] = F[<<n, g[n]>>]
    BY <1>5
  <2>2. F[<<n, g[n]>>] = [call \in C |-> Visit(g[n], query, k, call[1], call[2])]
    <3>1. <<n, g[n]>> \in Nat \X S
      BY <2>1
    <3> HIDE DEF S
    <3> QED BY <3>1
  <2> QED
    BY <2>1, <2>2
<1> HIDE DEF F
<1>7. PICK N \in Nat : N = Len(table) /\ \A t \in DOMAIN tree : Len(t) < N
  <2>1. Len(table) \in Nat
    BY <1>1 DEF KTypeOK
  <2> QED
    BY <2>1, Shallow
<1> DEFINE G == {n \in Nat : \A t \in Seq(Side), h \in Hits :
                               Len(t) + n >= N => g[n + 1][<<t, h>>] = g[n][<<t, h>>]}
<1>8. 0 \in G
  <2> SUFFICES ASSUME NEW t \in Seq(Side), NEW h \in Hits, Len(t) + 0 >= N
               PROVE  g[0 + 1][<<t, h>>] = g[0][<<t, h>>]
    OBVIOUS
  <2>1. t \notin DOMAIN tree
    <3>1. Len(t) \in Nat /\ ~(Len(t) < N)
      OBVIOUS
    <3> QED
      BY <1>7, <3>1
  <2>2. g[0 + 1][<<t, h>>] = Visit(g[0], query, k, t, h)
    BY <1>6
  <2>3. Visit(g[0], query, k, t, h) = h
    BY <2>1, VisitIs
  <2>4. g[0][<<t, h>>] = h
    BY <1>5
  <2> QED
    BY <2>2, <2>3, <2>4
<1>9. ASSUME NEW n \in Nat, n \in G PROVE n + 1 \in G
  <2> SUFFICES ASSUME NEW t \in Seq(Side), NEW h \in Hits, Len(t) + (n + 1) >= N
               PROVE  g[(n + 1) + 1][<<t, h>>] = g[n + 1][<<t, h>>]
    OBVIOUS
  <2>1. g[(n + 1) + 1][<<t, h>>] = Visit(g[n + 1], query, k, t, h)
    BY <1>6
  <2>2. g[n + 1][<<t, h>>] = Visit(g[n], query, k, t, h)
    BY <1>6
  <2>3. ASSUME NEW side \in Side, NEW x \in Hits
        PROVE  g[n + 1][<<Append(t, side), x>>] = g[n][<<Append(t, side), x>>]
    <3>1. Append(t, side) \in Seq(Side) /\ Len(Append(t, side)) = Len(t) + 1
      BY Turned
    <3>2. PICK L \in Nat : L = Len(t)
      OBVIOUS
    <3>3. Len(Append(t, side)) + n >= N
      BY <3>1, <3>2
    <3> QED
      BY <1>9, <3>1, <3>3
  <2>4. g[n] \in [Seq(Side) \X Hits -> Hits]
    BY <1>5
  <2>5. Visit(g[n + 1], query, k, t, h) = Visit(g[n], query, k, t, h)
    <3>1. SameBelow(g[n + 1], g[n], t)
      BY <2>3, <2>4 DEF SameBelow
    <3>2. IsCall(query, k, t, h)
      BY DEF IsCall
    <3> HIDE DEF G, S
    <3> QED BY <1>1, <3>1, <3>2, SameHalves
  <2> QED
    BY <2>1, <2>2, <2>5
<1>10. N \in G
  <2> HIDE DEF G
  <2> QED BY <1>8, <1>9, NatSets
<1>11. ASSUME NEW t \in Seq(Side), NEW h \in Hits
       PROVE  g[N][<<t, h>>] = Visit(g[N], query, k, t, h)
  <2>1. Len(t) + N >= N
    BY LenProperties
  <2>2. g[N + 1][<<t, h>>] = g[N][<<t, h>>]
    BY <1>10, <2>1
  <2> QED
    BY <1>6, <2>2
<1>12. g[N] \in S
  BY <1>5
<1> DEFINE Solves(f) == f = [call \in C |-> Visit(f, query, k, call[1], call[2])]
           q == CHOOSE f : Solves(f)
<1>13. Solves(g[N])
  <2>1. ASSUME NEW call \in C PROVE g[N][call] = Visit(g[N], query, k, call[1], call[2])
    <3>1. call = <<call[1], call[2]>> /\ call[1] \in Seq(Side) /\ call[2] \in Hits
      OBVIOUS
    <3> QED
      BY <1>11, <3>1
  <2> QED
    BY <1>12, <2>1
<1>14. Solves(q)
  <2> HIDE DEF Solves
  <2> QED BY <1>13
<1>15. SearchKdTree(query, k) = q[<< <<>>, <<>> >>]
  BY DEF SearchKdTree, Hits
<1>16. ASSUME NEW t \in Seq(Side), NEW h \in Hits
       PROVE  q[<<t, h>>] = Visit(q, query, k, t, h)
  <2>1. <<t, h>> \in C /\ <<t, h>>[1] = t /\ <<t, h>>[2] = h
    OBVIOUS
  <2> HIDE DEF q
  <2> QED BY <1>14, <2>1
<1> HIDE DEF q
<1> DEFINE E == {n \in Nat : \A t \in Seq(Side), h \in Hits :
                               Len(t) + n >= N => q[<<t, h>>] = g[N][<<t, h>>]}
<1>17. 0 \in E
  <2> SUFFICES ASSUME NEW t \in Seq(Side), NEW h \in Hits, Len(t) + 0 >= N
               PROVE  q[<<t, h>>] = g[N][<<t, h>>]
    OBVIOUS
  <2>1. t \notin DOMAIN tree
    <3>1. Len(t) \in Nat /\ ~(Len(t) < N)
      OBVIOUS
    <3> QED
      BY <1>7, <3>1
  <2>2. Visit(q, query, k, t, h) = h /\ Visit(g[N], query, k, t, h) = h
    BY <2>1, VisitIs
  <2> QED
    BY <1>11, <1>16, <2>2
<1>18. ASSUME NEW n \in Nat, n \in E PROVE n + 1 \in E
  <2> SUFFICES ASSUME NEW t \in Seq(Side), NEW h \in Hits, Len(t) + (n + 1) >= N
               PROVE  q[<<t, h>>] = g[N][<<t, h>>]
    OBVIOUS
  <2>1. ASSUME NEW side \in Side, NEW x \in Hits
        PROVE  q[<<Append(t, side), x>>] = g[N][<<Append(t, side), x>>]
    <3>1. Append(t, side) \in Seq(Side) /\ Len(Append(t, side)) = Len(t) + 1
      BY Turned
    <3>2. PICK L \in Nat : L = Len(t)
      OBVIOUS
    <3>3. Len(Append(t, side)) + n >= N
      BY <3>1, <3>2
    <3> QED
      BY <1>18, <3>1, <3>3
  <2>2. g[N] \in [Seq(Side) \X Hits -> Hits]
    BY <1>5
  <2>3. Visit(q, query, k, t, h) = Visit(g[N], query, k, t, h)
    <3>1. SameBelow(q, g[N], t)
      BY <2>1, <2>2 DEF SameBelow
    <3>2. IsCall(query, k, t, h)
      BY DEF IsCall
    <3> HIDE DEF E, S
    <3> QED BY <1>1, <3>1, <3>2, SameHalves
  <2> QED
    BY <1>11, <1>16, <2>3
<1>19. N \in E
  <2> HIDE DEF E
  <2> QED BY <1>17, <1>18, NatSets
<1>20. q = g[N]
  <2>1. ASSUME NEW call \in C PROVE q[call] = g[N][call]
    <3>1. call = <<call[1], call[2]>> /\ call[1] \in Seq(Side) /\ call[2] \in Hits
      OBVIOUS
    <3>2. Len(call[1]) + N >= N
      BY <3>1, LenProperties
    <3> QED
      BY <1>19, <3>1, <3>2
  <2>2. q = [call \in C |-> q[call]]
    BY <1>14
  <2> QED
    BY <1>12, <2>1, <2>2
<1>21. Searches(q, query, k)
  <2>1. q \in [Seq(Side) \X Hits -> Hits]
    BY <1>12, <1>20
  <2> QED
    BY <1>16, <2>1 DEF Searches
<1> QED
  BY <1>15, <1>21

-----------------------------------------------------------------------------
(* What a search finds.                                                    *)

\* Below a free place there is nothing, and below a node are the node and its halves.
LEMMA BelowFree ==
  ASSUME KTypeOK, Ordered, NEW t \in Seq(Side), t \notin DOMAIN tree
  PROVE  RowsBelow(t) = {}
<1> SUFFICES ASSUME NEW u \in Below(t) PROVE FALSE
  BY DEF RowsBelow
<1>1. u \in DOMAIN tree /\ Len(t) <= Len(u) /\ \A n \in 1..Len(t) : u[n] = t[n]
  BY DEF Below
<1>2. u \in Seq(Side) /\ Len(u) \in Nat /\ Len(t) \in Nat
  BY <1>1, NodeFacts
<1>3. Len(t) \in 0..Len(u)
  BY <1>1, <1>2
<1>4. SubSeq(u, 1, Len(t)) \in DOMAIN tree
  BY <1>1, <1>3, NodesAbove
<1>5. SubSeq(u, 1, Len(t)) = t
  <2>1. /\ SubSeq(u, 1, Len(t)) \in Seq(Side) /\ Len(SubSeq(u, 1, Len(t))) = Len(t)
        /\ \A i \in 1..Len(t) : SubSeq(u, 1, Len(t))[i] = u[i]
    BY <1>2, <1>3, FirstTurns
  <2> QED
    BY <1>1, <2>1, SameTurns
<1> QED
  BY <1>4, <1>5

LEMMA BelowNode ==
  ASSUME KTypeOK, NEW t \in DOMAIN tree
  PROVE  /\ t \in Below(t)
         /\ Below(t) = {t} \cup Below(Append(t, "left")) \cup Below(Append(t, "right"))
         /\ t \notin Below(Append(t, "left")) /\ t \notin Below(Append(t, "right"))
         /\ Below(Append(t, "left")) \cap Below(Append(t, "right")) = {}
         /\ \A side \in Side : \A u \in Below(Append(t, side)) :
              u \in DOMAIN tree /\ Len(t) + 1 \in DOMAIN u /\ u[Len(t) + 1] = side
                /\ \A n \in 1..Len(t) : u[n] = t[n]
<1>1. t \in Seq(Side) /\ Len(t) \in Nat
  BY NodeFacts
<1>2. PICK L \in Nat : L = Len(t)
  BY <1>1
<1>3. ASSUME NEW side \in Side, NEW u
      PROVE  u \in Below(Append(t, side)) <=>
               /\ u \in DOMAIN tree /\ L + 1 <= Len(u) /\ u[L + 1] = side
               /\ \A n \in 1..L : u[n] = t[n]
  <2>1. /\ Len(Append(t, side)) = L + 1 /\ Append(t, side)[L + 1] = side
        /\ \A n \in 1..L : Append(t, side)[n] = t[n]
    BY <1>1, <1>2, Turned
  <2>2. \A n : n \in 1..(L + 1) <=> n \in 1..L \/ n = L + 1
    OBVIOUS
  <2> QED
    BY <2>1, <2>2 DEF Below
<1>4. \A u : u \in Below(t) <=> u \in DOMAIN tree /\ L <= Len(u) /\ \A n \in 1..L : u[n] = t[n]
  BY <1>2 DEF Below
<1>5. t \in Below(t)
  BY <1>2, <1>4
<1>6. ASSUME NEW u \in DOMAIN tree
      PROVE  Len(u) \in Nat /\ DOMAIN u = 1..Len(u) /\ u \in Seq(Side)
  BY NodeFacts
<1>7. ASSUME NEW u \in Below(t), u # t
      PROVE  u \in Below(Append(t, "left")) \/ u \in Below(Append(t, "right"))
  <2>1. u \in DOMAIN tree /\ L <= Len(u) /\ \A n \in 1..L : u[n] = t[n]
    BY <1>4
  <2>2. Len(u) # L
    BY <1>1, <1>2, <1>6, <1>7, <2>1, SameTurns
  <2>3. PICK M \in Nat : M = Len(u)
    BY <1>6, <2>1
  <2>4. L + 1 <= M /\ L + 1 \in 1..M
    BY <2>1, <2>2, <2>3
  <2>5. u[L + 1] \in Side
    BY <1>6, <2>1, <2>3, <2>4
  <2> QED
    BY <1>3, <2>1, <2>3, <2>4, <2>5 DEF Side
<1>8. ASSUME NEW side \in Side, NEW u \in Below(Append(t, side))
      PROVE  /\ u \in Below(t) /\ u # t /\ L + 1 \in DOMAIN u /\ u[L + 1] = side
             /\ u \in DOMAIN tree /\ \A n \in 1..L : u[n] = t[n]
  <2>1. /\ u \in DOMAIN tree /\ L + 1 <= Len(u) /\ u[L + 1] = side
        /\ \A n \in 1..L : u[n] = t[n]
    BY <1>3
  <2>2. PICK M \in Nat : M = Len(u) /\ DOMAIN u = 1..M
    BY <1>6, <2>1
  <2>3. L <= M /\ L + 1 \in 1..M /\ L # M
    BY <2>1, <2>2
  <2> QED
    BY <1>2, <1>4, <2>1, <2>2, <2>3
<1>9. "left" \in Side /\ "right" \in Side
  BY DEF Side
<1>10. Below(Append(t, "left")) \cap Below(Append(t, "right")) = {}
  BY <1>8, <1>9
<1>11. t \notin Below(Append(t, "left")) /\ t \notin Below(Append(t, "right"))
  BY <1>8, <1>9
<1>12. Below(t) = {t} \cup Below(Append(t, "left")) \cup Below(Append(t, "right"))
  BY <1>5, <1>7, <1>8, <1>9
<1> QED
  BY <1>2, <1>5, <1>8, <1>10, <1>11, <1>12

\* The same of the rows; near and far are the two halves in some order.
LEMMA RowsSplit ==
  ASSUME IndexInv, NEW t \in DOMAIN tree, NEW near \in Side, NEW far \in Side, near # far
  PROVE  /\ RowsBelow(t) = {tree[t]} \cup RowsBelow(Append(t, near)) \cup RowsBelow(Append(t, far))
         /\ tree[t] \notin RowsBelow(Append(t, near)) /\ tree[t] \notin RowsBelow(Append(t, far))
         /\ RowsBelow(Append(t, near)) \cap RowsBelow(Append(t, far)) = {}
<1>1. \/ near = "left" /\ far = "right"
      \/ near = "right" /\ far = "left"
  BY DEF Side
<1>2. /\ t \in Below(t)
      /\ Below(t) = {t} \cup Below(Append(t, near)) \cup Below(Append(t, far))
      /\ t \notin Below(Append(t, near)) /\ t \notin Below(Append(t, far))
      /\ Below(Append(t, near)) \cap Below(Append(t, far)) = {}
  BY <1>1, BelowNode DEF IndexInv
<1>3. Below(Append(t, near)) \subseteq DOMAIN tree /\ Below(Append(t, far)) \subseteq DOMAIN tree
  BY DEF Below
<1>4. \A u, w \in DOMAIN tree : tree[u] = tree[w] => u = w
  BY DEF IndexInv, OneNodePerRow
<1> QED
  BY <1>2, <1>3, <1>4 DEF RowsBelow

\* The step from one coordinate to the scores.
LEMMA FartherThanWorst ==
  ASSUME NEW q \in Int, NEW v \in Int, NEW w \in Int, NEW nn \in Int, NEW worst \in Int,
         NEW score \in Int, NEW gap \in Int, gap = q - v,
         gap < 0 => w >= v, ~(gap < 0) => w <= v,
         nn + nn - 2 * score >= (q - w) * (q - w), gap * gap >= 2 * (nn - worst)
  PROVE  ~(score > worst)
<1>1. (q - w) * (q - w) >= gap * gap
  <2>1. PICK a \in Int : a = q - w
    OBVIOUS
  <2>2. CASE gap < 0
    <3>1. a <= gap
      BY <2>1, <2>2
    <3>2. \A x, y \in Int : x <= y /\ y < 0 => x * x >= y * y
      OBVIOUS
    <3> QED
      BY <2>1, <2>2, <3>1, <3>2
  <2>3. CASE ~(gap < 0)
    <3>1. a >= gap
      BY <2>1, <2>3
    <3>2. \A x, y \in Int : x >= y /\ y >= 0 => x * x >= y * y
      OBVIOUS
    <3> QED
      BY <2>1, <2>3, <3>1, <3>2
  <2> QED
    BY <2>2, <2>3
<1>2. PICK aa \in Int, gg \in Int : aa = (q - w) * (q - w) /\ gg = gap * gap
  OBVIOUS
<1>3. nn + nn - 2 * score >= aa /\ aa >= gg /\ gg >= 2 * (nn - worst)
  BY <1>1, <1>2
<1> QED
  BY <1>3

\* What a skipped half holds is no better than the worst of the hits.
LEMMA PrunesNothing ==
  ASSUME IndexInv, NEW query \in Vector, NEW k \in Nat, NEW t \in DOMAIN tree,
         NEW near, near[k] \in Int, TooFar(Gap(query, t), near, k),
         NEW i \in RowsBelow(Append(t, FarSide(query, t)))
  PROVE  ~(Dot(query, table[i]) > near[k])
<1> DEFINE far == FarSide(query, t)
<1>1. KTypeOK /\ Ordered /\ far \in Side
  BY DEF IndexInv, FarSide, Side
<1>2. PICK u \in DOMAIN tree : /\ i = tree[u] /\ Len(t) + 1 \in DOMAIN u /\ u[Len(t) + 1] = far
                               /\ \A n \in 1..Len(t) : u[n] = t[n]
  BY <1>1, BelowNode DEF RowsBelow
<1>3. /\ t \in Seq(Side) /\ Len(t) \in Nat /\ u \in Seq(Side) /\ Len(u) \in Nat
      /\ DOMAIN u = 1..Len(u) /\ NodeVec(t) \in Vector /\ table[i] \in Vector
  BY <1>1, <1>2, NodeFacts DEF NodeVec
<1>4. PICK L \in Nat : L = Len(t)
  BY <1>3
<1>5. SubSeq(u, 1, (L + 1) - 1) = t
  <2>1. (L + 1) - 1 = L /\ L \in 0..Len(u)
    BY <1>2, <1>3, <1>4
  <2>2. /\ SubSeq(u, 1, L) \in Seq(Side) /\ Len(SubSeq(u, 1, L)) = L
        /\ \A n \in 1..L : SubSeq(u, 1, L)[n] = u[n]
    BY <1>3, <2>1, FirstTurns
  <2>3. SubSeq(u, 1, L) = t
    BY <1>2, <1>3, <1>4, <2>2, SameTurns
  <2> QED
    BY <2>1, <2>3
<1>6. OnSide(far, table[i], NodeVec(t), L)
  <2>1. L + 1 \in DOMAIN u /\ u[L + 1] = far /\ (L + 1) - 1 = L
    BY <1>2, <1>4
  <2>2. OnSide(u[L + 1], table[tree[u]], table[tree[SubSeq(u, 1, (L + 1) - 1)]], (L + 1) - 1)
    BY <1>1, <2>1 DEF Ordered
  <2> QED
    BY <1>2, <1>5, <2>1, <2>2 DEF NodeVec
<1>7. PICK w \in Int : w = SplitVal(table[i], L)
  BY <1>3, SplitValInt
<1>8. PICK v \in Int : v = SplitVal(NodeVec(t), L)
  BY <1>3, SplitValInt
<1>9. PICK q \in Int : q = SplitVal(query, L)
  BY SplitValInt
<1>10. PICK gap \in Int : gap = Gap(query, t) /\ gap = q - v
  BY <1>4, <1>8, <1>9 DEF Gap
<1>11. (gap < 0 => w >= v) /\ (~(gap < 0) => w <= v)
  BY <1>6, <1>7, <1>8, <1>10 DEF OnSide, FarSide
<1>12. PICK score \in Int : score = Dot(query, table[i])
  BY <1>3, VectorFacts
<1>13. PICK nn \in Int : nn = Norm * Norm
  BY IndexConstantsAssumption
<1>14. nn + nn - 2 * score >= (q - w) * (q - w)
  <2>1. PICK d \in 1..Len(query) : q = query[d] /\ w = table[i][d]
    BY <1>3, <1>7, <1>9, SplitValIs
  <2>2. /\ query \in Seq(Int) /\ table[i] \in Seq(Int) /\ Len(query) = Len(table[i])
        /\ Dot(query, query) = nn /\ Dot(table[i], table[i]) = nn
    BY <1>3, <1>13, VectorFacts
  <2>3. Dot(query, query) + Dot(table[i], table[i]) - 2 * Dot(query, table[i])
          >= (query[d] - table[i][d]) * (query[d] - table[i][d])
    BY <2>2, Projection
  <2> QED
    BY <1>12, <2>1, <2>2, <2>3
<1>15. PICK worst \in Int : worst = near[k]
  OBVIOUS
<1>16. gap * gap >= 2 * (nn - worst)
  BY <1>10, <1>13, <1>15 DEF TooFar
<1>17. ~(score > worst)
  BY <1>10, <1>11, <1>14, <1>16, FartherThanWorst
<1> QED
  BY <1>12, <1>15, <1>17

\* A call adds to the best of some rows the rows below its node.
LEMMA SearchFinds ==
  ASSUME IndexInv, NEW query \in Vector, NEW k \in Nat, 0 < k, NEW f, Searches(f, query, k),
         NEW s, s = [i \in DOMAIN table |-> Dot(query, table[i])]
  PROVE  \A t \in Seq(Side), h \in Hits, I \in SUBSET DOMAIN table :
           Ranked(h, k, s, I) /\ I \cap RowsBelow(t) = {}
             => Ranked(f[<<t, h>>], k, s, I \cup RowsBelow(t))
<1>1. KTypeOK /\ Ordered
  BY DEF IndexInv
<1>2. PICK N \in Nat : N = Len(table) /\ DOMAIN table = 1..N /\ \A t \in DOMAIN tree : Len(t) < N
  <2>1. Len(table) \in Nat /\ DOMAIN table = 1..Len(table)
    BY <1>1 DEF KTypeOK
  <2> QED
    BY <2>1, Shallow
<1>3. \A J \in SUBSET DOMAIN table : IsFiniteSet(J)
  <2>1. IsFiniteSet(1..N)
    BY FS_Interval
  <2> QED
    BY <1>2, <2>1, FS_Subset
<1>4. \A i \in DOMAIN table : s[i] = Dot(query, table[i]) /\ s[i] \in Int
  <2>1. \A i \in DOMAIN table : table[i] \in Vector
    BY <1>1 DEF KTypeOK
  <2> QED
    BY <2>1, VectorFacts
<1>5. \A t \in Seq(Side), h \in Hits : f[<<t, h>>] = Visit(f, query, k, t, h)
  BY DEF Searches
<1>6. f \in [Seq(Side) \X Hits -> Hits]
  BY DEF Searches
<1>7. \A t \in Seq(Side) : RowsBelow(t) \in SUBSET DOMAIN table
  BY <1>1, NodeFacts DEF RowsBelow, Below
<1> DEFINE Adds(t, h, I) == Ranked(h, k, s, I) /\ I \cap RowsBelow(t) = {}
                              => Ranked(f[<<t, h>>], k, s, I \cup RowsBelow(t))
           G == {n \in Nat : \A t \in Seq(Side), h \in Hits, I \in SUBSET DOMAIN table :
                               Len(t) + n >= N => Adds(t, h, I)}
<1>8. ASSUME NEW t \in Seq(Side), NEW h \in Hits, NEW I \in SUBSET DOMAIN table,
             t \notin DOMAIN tree
      PROVE  Adds(t, h, I)
  <2>1. f[<<t, h>>] = h
    BY <1>5, <1>8, VisitIs
  <2>2. RowsBelow(t) = {}
    BY <1>1, <1>8, BelowFree
  <2>3. I \cup RowsBelow(t) = I
    BY <2>2
  <2> QED
    BY <2>1, <2>3
<1>9. ASSUME NEW t \in DOMAIN tree, NEW h \in Hits, NEW I \in SUBSET DOMAIN table,
             Ranked(h, k, s, I), I \cap RowsBelow(t) = {},
             \A side \in Side, x \in Hits, J \in SUBSET DOMAIN table : Adds(Append(t, side), x, J)
      PROVE  Ranked(f[<<t, h>>], k, s, I \cup RowsBelow(t))
  <2>1. PICK ns \in Side, fs \in Side : ns = NearSide(query, t) /\ fs = FarSide(query, t) /\ ns # fs
    BY DEF NearSide, FarSide, Side
  <2>2. PICK e \in DOMAIN table : e = tree[t]
    BY <1>1, NodeFacts
  <2>3. t \in Seq(Side) /\ Append(t, ns) \in Seq(Side) /\ Append(t, fs) \in Seq(Side)
    BY <1>1, NodeFacts, AppendProperties
  <2> DEFINE A == RowsBelow(Append(t, ns))
             B == RowsBelow(Append(t, fs))
             I1 == I \cup {e}
             I2 == I1 \cup A
  <2>4. RowsBelow(t) = {e} \cup A \cup B /\ e \notin A /\ e \notin B /\ A \cap B = {}
    BY <2>1, <2>2, RowsSplit
  <2>5. A \in SUBSET DOMAIN table /\ B \in SUBSET DOMAIN table
    BY <1>7, <2>3
  <2> HIDE DEF A, B
  <2>6. /\ e \notin I /\ I1 \cap A = {} /\ I2 \cap B = {} /\ I2 \cup B = I \cup RowsBelow(t)
        /\ I1 \in SUBSET DOMAIN table /\ I2 \in SUBSET DOMAIN table
    BY <1>9, <2>4, <2>5
  <2> DEFINE h1   == WithNode(query, k, t, h)
             near == Near(f, query, k, t, h)
  <2>7. h1 \in Hits /\ Ranked(h1, k, s, I1)
    <3>1. h1 = AddQueryResult(h, s[e], k)
      BY <1>4, <2>2 DEF WithNode, NodeVec
    <3>2. Ranked(AddQueryResult(h, s[e], k), k, s, I \cup {e})
      BY <1>3, <1>4, <1>9, <2>6, RankedAdd
    <3> QED
      BY <1>1, <3>1, <3>2, NearCall
  <2> HIDE DEF h1
  <2>8. near = f[<<Append(t, ns), h1>>]
    BY <2>1 DEF Near, h1
  <2>9. near \in Hits /\ Ranked(near, k, s, I2)
    <3>1. Adds(Append(t, ns), h1, I1)
      BY <1>9, <2>6, <2>7
    <3>2. Ranked(f[<<Append(t, ns), h1>>], k, s, I1 \cup RowsBelow(Append(t, ns)))
      BY <2>6, <2>7, <3>1 DEF A
    <3>3. f[<<Append(t, ns), h1>>] \in Hits
      BY <1>6, <2>3, <2>7
    <3> QED
      BY <2>8, <3>2, <3>3 DEF A
  <2>10. f[<<t, h>>] = IF TooFar(Gap(query, t), near, k) THEN near ELSE f[<<Append(t, fs), near>>]
    <3>1. f[<<t, h>>] = Visit(f, query, k, t, h)
      BY <1>5, <2>3
    <3>2. Visit(f, query, k, t, h)
            = IF TooFar(Gap(query, t), near, k) THEN near ELSE f[<<Append(t, FarSide(query, t)), near>>]
      BY VisitIs
    <3> QED
      BY <2>1, <3>1, <3>2
  <2> HIDE DEF near, Adds
  <2>11. CASE TooFar(Gap(query, t), near, k)
    <3>1. Len(near) = k
      BY <2>11 DEF TooFar
    <3>2. near[k] \in Int
      <4>1. k \in 1..Len(near)
        BY <3>1
      <4> QED
        BY <2>9, <4>1 DEF Hits
    <3>3. ASSUME NEW i \in B PROVE ~(s[i] > near[k])
      <4>1. i \in RowsBelow(Append(t, FarSide(query, t)))
        BY <2>1 DEF B
      <4>2. ~(Dot(query, table[i]) > near[k])
        BY <2>11, <3>2, <4>1, PrunesNothing
      <4> QED
        BY <1>4, <2>5, <4>2
    <3>4. Ranked(near, k, s, I2 \cup B)
      <4>1. IsFiniteSet(I2) /\ IsFiniteSet(B) /\ \A i \in I2 \cup B : s[i] \in Int
        BY <1>3, <1>4, <2>5, <2>6
      <4> HIDE DEF I2
      <4> QED BY <2>9, <3>1, <3>3, <4>1, RankedSkip
    <3> QED
      BY <2>6, <2>10, <2>11, <3>4
  <2>12. CASE ~TooFar(Gap(query, t), near, k)
    <3>1. Adds(Append(t, fs), near, I2)
      BY <1>9, <2>6, <2>9
    <3>2. Ranked(f[<<Append(t, fs), near>>], k, s, I2 \cup B)
      BY <2>6, <2>9, <3>1 DEF Adds, B
    <3> QED
      BY <2>6, <2>10, <2>12, <3>2
  <2> QED
    BY <2>11, <2>12
<1>10. 0 \in G
  <2> SUFFICES ASSUME NEW t \in Seq(Side), NEW h \in Hits, NEW I \in SUBSET DOMAIN table, Len(t) + 0 >= N
               PROVE  Adds(t, h, I)
    OBVIOUS
  <2>1. Len(t) \in Nat /\ ~(Len(t) < N)
    OBVIOUS
  <2>2. t \notin DOMAIN tree
    BY <1>2, <2>1
  <2> QED
    BY <1>8, <2>2
<1>11. ASSUME NEW n \in Nat, n \in G PROVE n + 1 \in G
  <2> SUFFICES ASSUME NEW t \in Seq(Side), NEW h \in Hits, NEW I \in SUBSET DOMAIN table,
                      Len(t) + (n + 1) >= N
               PROVE  Adds(t, h, I)
    <3> HIDE DEF Adds
    <3> QED OBVIOUS
  <2>1. CASE t \notin DOMAIN tree
    BY <1>8, <2>1
  <2>2. CASE t \in DOMAIN tree
    <3>1. ASSUME NEW side \in Side, NEW x \in Hits, NEW J \in SUBSET DOMAIN table
          PROVE  Adds(Append(t, side), x, J)
      <4>1. Append(t, side) \in Seq(Side) /\ Len(Append(t, side)) = Len(t) + 1
        BY Turned
      <4>2. PICK L \in Nat : L = Len(t)
        OBVIOUS
      <4>3. Len(Append(t, side)) + n >= N
        BY <4>1, <4>2
      <4> HIDE DEF Adds
      <4> QED BY <1>11, <4>1, <4>3
    <3> QED
      BY <1>9, <2>2, <3>1
  <2> QED
    BY <2>1, <2>2
<1>12. N \in G
  <2> HIDE DEF G
  <2> QED BY <1>10, <1>11, NatSets
<1> SUFFICES ASSUME NEW t \in Seq(Side), NEW h \in Hits, NEW I \in SUBSET DOMAIN table
             PROVE  Adds(t, h, I)
  OBVIOUS
<1>13. Len(t) + N >= N
  BY LenProperties
<1> HIDE DEF Adds
<1> QED
  BY <1>12, <1>13

\* The answer of a query in a tree the operations keep.
LEMMA TreeAnswers ==
  ASSUME IndexInv
  PROVE  IndexIsExact
<1> SUFFICES ASSUME NEW query \in Vector, NEW k \in 1..TopK
             PROVE  QueryScores(query, k) = LinearScanScores(query, k)
  BY DEF IndexIsExact
<1>1. k \in Nat /\ 0 < k
  BY IndexConstantsAssumption
<1>2. PICK f : Searches(f, query, k) /\ SearchKdTree(query, k) = f[<< <<>>, <<>> >>]
  BY <1>1, SearchReturns
<1>3. KTypeOK
  BY DEF IndexInv
<1>4. PICK n \in Nat : n = Len(table) /\ DOMAIN table = 1..n
  BY <1>3 DEF KTypeOK
<1> DEFINE s == [i \in DOMAIN table |-> Dot(query, table[i])]
           none == <<>>
<1>5. \A i \in DOMAIN table : s[i] \in Int
  <2>1. \A i \in DOMAIN table : table[i] \in Vector
    BY <1>3 DEF KTypeOK
  <2> QED
    BY <2>1, VectorFacts
<1>6. none \in Seq(Side) /\ none \in Hits /\ Len(none) = 0
  BY DEF Hits
<1>7. Ranked(none, k, s, {})
  BY <1>1, RankedEmpty
<1>8. RowsBelow(none) = DOMAIN table
  <2>1. Below(none) = DOMAIN tree
    <3>1. ASSUME NEW u \in DOMAIN tree PROVE u \in Below(none)
      <4>1. 0 <= Len(u)
        BY <1>3, NodeFacts
      <4>2. Len(none) <= Len(u) /\ 1..Len(none) = {}
        BY <1>6, <4>1
      <4> HIDE DEF none
      <4> QED BY <4>2 DEF Below
    <3> QED
      BY <3>1 DEF Below
  <2>2. \A u \in DOMAIN tree : tree[u] \in DOMAIN table
    BY <1>3, NodeFacts
  <2>3. \A i \in DOMAIN table : \E u \in DOMAIN tree : tree[u] = i
    BY DEF IndexInv, OneNodePerRow
  <2> HIDE DEF none
  <2> QED BY <2>1, <2>2, <2>3 DEF RowsBelow
<1>9. Ranked(f[<<none, none>>], k, s, {} \cup RowsBelow(none))
  <2> HIDE DEF none, s
  <2>1. s = [i \in DOMAIN table |-> Dot(query, table[i])]
    BY DEF s
  <2> QED
    BY <1>1, <1>2, <1>6, <1>7, <2>1, SearchFinds
<1>10. Ranked(f[<<none, none>>], k, s, DOMAIN table)
  BY <1>8, <1>9
<1>11. f[<<none, none>>] = LinearScanScores(query, k)
  <2> HIDE DEF none, s
  <2>1. s = [i \in DOMAIN table |-> Dot(query, table[i])]
    BY DEF s
  <2> QED
    BY <1>1, <1>4, <1>5, <1>10, <2>1, RankedIsScan
<1> QED
  BY <1>2, <1>11 DEF QueryScores

-----------------------------------------------------------------------------
(* Sorting.                                                                *)

InOrder(vecs, rows, depth) ==
  \A i, j \in DOMAIN rows :
    i <= j => SplitVal(vecs[rows[i]], depth) <= SplitVal(vecs[rows[j]], depth)

\* NotBehind in the values of the records.
Precedes(val, j, i) == val[j] < val[i] \/ (val[j] = val[i] /\ j <= i)

\* The number of records that are not behind is a rank: each place has one record.
Ranks(val, m) == [i \in 1..m |-> Cardinality({j \in 1..m : Precedes(val, j, i)})]

ArePlaces(rank, val, m) ==
  /\ rank \in [1..m -> 1..m]
  /\ \A r \in 1..m : \E i \in 1..m : rank[i] = r
  /\ \A i, j \in 1..m : rank[i] = rank[j] => i = j
  /\ \A i, j \in 1..m : rank[i] <= rank[j] => val[i] <= val[j]

LEMMA RanksArePlaces ==
  ASSUME NEW m \in Nat, NEW val \in [1..m -> Int]
  PROVE  ArePlaces(Ranks(val, m), val, m)
<1> DEFINE D == 1..m
           Ahead(i) == {j \in D : Precedes(val, j, i)}
<1> DEFINE rank == Ranks(val, m)
<1>1. IsFiniteSet(D) /\ Cardinality(D) = m
  <2>1. 1 \in Int /\ m \in Int /\ (IF 1 > m THEN 0 ELSE m - 1 + 1) = m
    OBVIOUS
  <2> QED
    BY <2>1, FS_Interval
<1>2. \A i \in D : val[i] \in Int /\ i \in Int
  OBVIOUS
<1>3. ASSUME NEW i \in D, NEW j \in D
      PROVE  /\ Precedes(val, i, i)
             /\ Precedes(val, i, j) \/ Precedes(val, j, i)
             /\ i # j => ~(Precedes(val, i, j) /\ Precedes(val, j, i))
             /\ Precedes(val, i, j) => val[i] <= val[j]
             /\ \A l \in D : Precedes(val, l, i) /\ Precedes(val, i, j) => Precedes(val, l, j)
  BY <1>2 DEF Precedes
<1>4. \A i \in D : /\ Ahead(i) \in SUBSET D /\ IsFiniteSet(Ahead(i)) /\ i \in Ahead(i)
                   /\ Cardinality(Ahead(i)) \in Nat /\ rank[i] = Cardinality(Ahead(i))
  <2> SUFFICES ASSUME NEW i \in D
               PROVE  /\ Ahead(i) \in SUBSET D /\ IsFiniteSet(Ahead(i)) /\ i \in Ahead(i)
                      /\ Cardinality(Ahead(i)) \in Nat /\ rank[i] = Cardinality(Ahead(i))
    OBVIOUS
  <2>1. Ahead(i) \in SUBSET D /\ i \in Ahead(i)
    BY <1>3
  <2>2. IsFiniteSet(Ahead(i)) /\ Cardinality(Ahead(i)) \in Nat
    BY <1>1, <2>1, FS_Subset, FS_CardinalityType
  <2> QED
    BY <2>1, <2>2 DEF Ranks
<1>5. ASSUME NEW i \in D PROVE rank[i] \in D
  <2>1. Cardinality(Ahead(i)) <= m
    BY <1>1, <1>4, FS_Subset
  <2>2. Cardinality(Ahead(i)) # 0
    BY <1>4, FS_EmptySet
  <2> HIDE DEF Ahead
  <2> QED BY <1>4, <2>1, <2>2
<1>6. ASSUME NEW i \in D, NEW j \in D, i # j, Precedes(val, i, j) PROVE rank[i] < rank[j]
  <2>1. Ahead(i) \subseteq Ahead(j) /\ j \notin Ahead(i) /\ j \in Ahead(j)
    BY <1>3, <1>6
  <2>2. Ahead(i) \in SUBSET Ahead(j) /\ Ahead(i) # Ahead(j)
    BY <2>1
  <2> HIDE DEF Ahead
  <2>3. IsFiniteSet(Ahead(j)) /\ Cardinality(Ahead(i)) \in Nat /\ Cardinality(Ahead(j)) \in Nat
    BY <1>4
  <2>4. Cardinality(Ahead(i)) <= Cardinality(Ahead(j)) /\ Cardinality(Ahead(i)) # Cardinality(Ahead(j))
    BY <2>2, <2>3, FS_Subset
  <2>5. rank[i] = Cardinality(Ahead(i)) /\ rank[j] = Cardinality(Ahead(j))
    BY <1>4
  <2> QED
    BY <2>3, <2>4, <2>5
<1>7. ASSUME NEW i \in D, NEW j \in D, rank[i] = rank[j] PROVE i = j
  <2>1. rank[i] \in Int /\ ~(rank[i] < rank[j]) /\ ~(rank[j] < rank[i])
    BY <1>5, <1>7
  <2> QED
    BY <1>3, <1>6, <2>1
<1>8. ASSUME NEW i \in D, NEW j \in D, rank[i] <= rank[j] PROVE val[i] <= val[j]
  <2>1. CASE i = j
    BY <1>2, <2>1
  <2>2. CASE i # j
    <3>1. rank[i] \in Int /\ rank[j] \in Int
      BY <1>5
    <3>2. ~(rank[j] < rank[i])
      BY <1>8, <3>1
    <3>3. Precedes(val, i, j)
      BY <1>3, <1>6, <2>2, <3>2
    <3> QED
      BY <1>3, <3>3
  <2> QED
    BY <2>1, <2>2
<1>9. rank \in [D -> D]
  BY <1>5 DEF Ranks
<1>10. rank \in Injection(D, D)
  BY <1>7, <1>9 DEF Injection, IsInjective
<1>11. rank \in Surjection(D, D)
  BY <1>1, <1>10, FS_Injection
<1>12. \A r \in D : \E i \in D : rank[i] = r
  BY <1>11 DEF Surjection
<1> HIDE DEF rank
<1>13. ArePlaces(rank, val, m)
  BY <1>7, <1>8, <1>9, <1>12 DEF ArePlaces
<1> QED
  BY <1>13 DEF rank

\* sort() puts the same records in the order of their coordinate.
SameRecords(S, vecs, rows, depth, m, R) ==
  /\ S \in [1..m -> R] /\ Range(S) = Range(rows)
  /\ IsInjective(rows) => IsInjective(S)
  /\ InOrder(vecs, S, depth)

Records(vecs, rows, m, R) == rows \in [1..m -> R] /\ \A i \in R : vecs[i] \in Vector

LEMMA SortedIs ==
  ASSUME NEW R, NEW vecs, NEW rows, NEW m \in Nat, Records(vecs, rows, m, R), NEW depth \in Nat
  PROVE  SameRecords(Sorted(vecs, rows, depth), vecs, rows, depth, m, R)
<1> DEFINE D == 1..m
           val == [i \in D |-> SplitVal(vecs[rows[i]], depth)]
           rank == [i \in D |-> Cardinality({j \in D : Precedes(val, j, i)})]
           from == [r \in D |-> CHOOSE i \in D : rank[i] = r]
           S    == Sorted(vecs, rows, depth)
<1>0. rows \in [1..m -> R] /\ \A i \in R : vecs[i] \in Vector
  BY DEF Records
<1>1. val \in [D -> Int]
  BY <1>0, SplitValInt
<1>2. \A i, j \in D : NotBehind(vecs, rows, depth, j, i) <=> Precedes(val, j, i)
  BY DEF NotBehind, Precedes
<1>3. DOMAIN rows = D
  BY <1>0
<1>4. ASSUME NEW i \in D
      PROVE  Cardinality({j \in DOMAIN rows : NotBehind(vecs, rows, depth, j, i)}) = rank[i]
  <2>1. {j \in DOMAIN rows : NotBehind(vecs, rows, depth, j, i)} = {j \in D : Precedes(val, j, i)}
    BY <1>2, <1>3
  <2> HIDE DEF val
  <2> QED BY <2>1
<1>5. S = [r \in D |-> rows[from[r]]]
  <2>1. S = [r \in D |-> rows[CHOOSE i \in D :
               Cardinality({j \in DOMAIN rows : NotBehind(vecs, rows, depth, j, i)}) = r]]
    BY <1>3 DEF Sorted
  <2>2. ASSUME NEW r \in D
        PROVE  (CHOOSE i \in D :
                 Cardinality({j \in DOMAIN rows : NotBehind(vecs, rows, depth, j, i)}) = r)
               = (CHOOSE i \in D : rank[i] = r)
    <3> HIDE DEF rank
    <3> QED BY <1>4
  <2> HIDE DEF rank
  <2> QED BY <2>1, <2>2
<1> HIDE DEF val, S
<1>6. /\ rank \in [D -> D]
      /\ \A r \in D : \E i \in D : rank[i] = r
      /\ \A i, j \in D : rank[i] = rank[j] => i = j
      /\ \A i, j \in D : rank[i] <= rank[j] => val[i] <= val[j]
  <2>1. rank = Ranks(val, m)
    BY DEF Ranks
  <2>2. ArePlaces(Ranks(val, m), val, m)
    BY <1>1, RanksArePlaces
  <2> HIDE DEF rank
  <2> QED BY <2>1, <2>2 DEF ArePlaces
<1> HIDE DEF rank
<1>7. ASSUME NEW r \in D PROVE from[r] \in D /\ rank[from[r]] = r
  BY <1>6
<1>8. ASSUME NEW i \in D PROVE rank[i] \in D /\ from[rank[i]] = i
  BY <1>6, <1>7
<1> HIDE DEF from
<1>9. S \in [D -> R]
  BY <1>0, <1>5, <1>7
<1>10. Range(S) = Range(rows)
  <2>1. Range(S) = {S[r] : r \in D} /\ Range(rows) = {rows[i] : i \in D}
    BY <1>3, <1>9 DEF Range
  <2>2. \A r \in D : S[r] = rows[from[r]] /\ from[r] \in D
    BY <1>5, <1>7
  <2>3. \A i \in D : rank[i] \in D /\ rows[i] = S[rank[i]]
    BY <1>5, <1>8
  <2> QED
    BY <2>1, <2>2, <2>3
<1>11. ASSUME IsInjective(rows) PROVE IsInjective(S)
  BY <1>3, <1>5, <1>7, <1>9, <1>11 DEF IsInjective
<1>12. ASSUME NEW i \in D, NEW j \in D, i <= j
       PROVE  SplitVal(vecs[S[i]], depth) <= SplitVal(vecs[S[j]], depth)
  <2>1. val[from[i]] <= val[from[j]]
    <3>1. /\ from[i] \in D /\ rank[from[i]] = i
          /\ from[j] \in D /\ rank[from[j]] = j
      BY <1>7
    <3>2. rank[from[i]] <= rank[from[j]]
      BY <1>12, <3>1
    <3> QED
      BY <1>6, <3>1, <3>2
  <2>2. S[i] = rows[from[i]] /\ S[j] = rows[from[j]]
    BY <1>5
  <2>3. val[from[i]] = SplitVal(vecs[rows[from[i]]], depth) /\ val[from[j]] = SplitVal(vecs[rows[from[j]]], depth)
    BY <1>7 DEF val
  <2> QED
    BY <2>1, <2>2, <2>3
<1>13. InOrder(vecs, S, depth)
  BY <1>9, <1>12 DEF InOrder
<1>14. SameRecords(S, vecs, rows, depth, m, R)
  BY <1>9, <1>10, <1>11, <1>13 DEF SameRecords
<1> QED
  BY <1>14 DEF S

-----------------------------------------------------------------------------
(* The halves.                                                             *)

Bounds(S, a, b) == a \in Nat /\ b \in Nat /\ 1 <= a /\ a <= b + 1 /\ b <= Len(S)

IsSlice(h, R, S, a, b) ==
  /\ h \in Seq(R) /\ Len(h) = b - a + 1
  /\ Range(h) = {S[j] : j \in a..b}
  /\ IsInjective(S) => IsInjective(h)

LEMMA Slice ==
  ASSUME NEW R, NEW S \in Seq(R), NEW a, NEW b, Bounds(S, a, b)
  PROVE  IsSlice(SubSeq(S, a, b), R, S, a, b)
<1> DEFINE h == SubSeq(S, a, b)
<1>0. a \in Nat /\ b \in Nat /\ 1 <= a /\ a <= b + 1 /\ b <= Len(S)
  BY DEF Bounds
<1>1. PICK n \in Nat : n = Len(S) /\ DOMAIN S = 1..n /\ S \in [1..n -> R]
  <2>1. Len(S) \in Nat /\ DOMAIN S = 1..Len(S) /\ S \in [1..Len(S) -> R]
    OBVIOUS
  <2> QED
    BY <2>1
<1>2. \A i \in a..b : i \in 1..n /\ S[i] \in R
  BY <1>0, <1>1
<1>3. /\ h \in Seq(R) /\ Len(h) = IF a <= b THEN b - a + 1 ELSE 0
      /\ \A i \in 1..(b - a + 1) : h[i] = S[a + i - 1]
  <2>1. a \in Int /\ b \in Int
    BY <1>0
  <2> QED
    BY <1>2, <2>1, SubSeqProperties
<1>4. (IF a <= b THEN b - a + 1 ELSE 0) = b - a + 1
  BY <1>0
<1>5. PICK l \in Nat : l = b - a + 1
  BY <1>0
<1> HIDE DEF h
<1>6. DOMAIN h = 1..l /\ Len(h) = l
  BY <1>3, <1>4, <1>5
<1>7. ASSUME NEW i \in 1..l PROVE h[i] = S[a + i - 1] /\ a + i - 1 \in a..b /\ a + i - 1 \in 1..n
  <2>1. i \in 1..(b - a + 1) /\ a + i - 1 \in a..b
    BY <1>0, <1>5
  <2> QED
    BY <1>2, <1>3, <2>1
<1>8. ASSUME NEW j \in a..b PROVE j - a + 1 \in 1..l /\ h[j - a + 1] = S[j]
  <2>1. j - a + 1 \in 1..l /\ a + (j - a + 1) - 1 = j
    BY <1>0, <1>5
  <2> QED
    BY <1>7, <2>1
<1>9. Range(h) = {S[j] : j \in a..b}
  <2>1. Range(h) = {h[i] : i \in 1..l}
    BY <1>6 DEF Range
  <2>2. \A i \in 1..l : \E j \in a..b : h[i] = S[j]
    BY <1>7
  <2>3. \A j \in a..b : \E i \in 1..l : h[i] = S[j]
    BY <1>8
  <2>4. Range(h) \subseteq {S[j] : j \in a..b}
    BY <2>1, <2>2
  <2>5. {S[j] : j \in a..b} \subseteq Range(h)
    BY <2>1, <2>3
  <2> QED
    BY <2>4, <2>5
<1>10. ASSUME IsInjective(S) PROVE IsInjective(h)
  <2> SUFFICES ASSUME NEW i \in 1..l, NEW j \in 1..l, h[i] = h[j] PROVE i = j
    BY <1>6 DEF IsInjective
  <2>1. S[a + i - 1] = S[a + j - 1] /\ a + i - 1 \in DOMAIN S /\ a + j - 1 \in DOMAIN S
    BY <1>1, <1>7
  <2>2. a + i - 1 = a + j - 1
    BY <1>10, <2>1 DEF IsInjective
  <2> QED
    BY <1>0, <2>2
<1>11. IsSlice(h, R, S, a, b)
  BY <1>3, <1>4, <1>9, <1>10 DEF IsSlice
<1> QED
  BY <1>11 DEF h

\* The places of a half.
InHalf(S, side) == {j \in DOMAIN S : IF side = "left" THEN j < Median(S) ELSE j > Median(S)}

LEMMA MedianIs ==
  ASSUME NEW R, NEW S \in Seq(R), S # <<>>
  PROVE  Median(S) \in DOMAIN S
<1>1. PICK n \in Nat : n = Len(S) /\ DOMAIN S = 1..n
  OBVIOUS
<1>2. n > 0
  BY <1>1
<1>3. n \div 2 + 1 \in 1..n
  BY <1>2
<1> QED
  BY <1>1, <1>3 DEF Median

IsHalf(h, R, S, side) ==
  /\ h \in Seq(R)
  /\ Len(h) <= Len(S) /\ (S # <<>> => Len(h) < Len(S))
  /\ Range(h) = {S[j] : j \in InHalf(S, side)}
  /\ IsInjective(S) => IsInjective(h)

LEMMA HalfIs ==
  ASSUME NEW R, NEW S \in Seq(R), NEW side \in Side
  PROVE  IsHalf(Half(S, side), R, S, side)
<1> DEFINE h == Half(S, side)
<1>0. h = Half(S, side)
  OBVIOUS
<1> HIDE DEF h
<1>1. PICK n \in Nat : n = Len(S) /\ DOMAIN S = 1..n
  OBVIOUS
<1>2. S # <<>> => n > 0
  BY <1>1
<1>3. PICK m \in Nat : m = Median(S) /\ m >= 1 /\ m <= n + 1 /\ (n > 0 => m <= n)
  <2>1. n \div 2 + 1 \in Nat /\ n \div 2 + 1 >= 1 /\ n \div 2 + 1 <= n + 1 /\ (n > 0 => n \div 2 + 1 <= n)
    OBVIOUS
  <2> QED
    BY <1>1, <2>1 DEF Median
<1>4. ASSUME side = "left" PROVE IsHalf(h, R, S, side)
  <2>1. h = SubSeq(S, 1, m - 1)
    BY <1>0, <1>3, <1>4 DEF Half
  <2>2. PICK b \in Nat : b = m - 1 /\ 1 <= b + 1 /\ b <= Len(S)
    BY <1>1, <1>3
  <2>3. /\ h \in Seq(R) /\ Len(h) = b - 1 + 1 /\ Range(h) = {S[j] : j \in 1..b}
        /\ IsInjective(S) => IsInjective(h)
    <3>1. h = SubSeq(S, 1, b) /\ Bounds(S, 1, b)
      BY <2>1, <2>2 DEF Bounds
    <3>2. IsSlice(SubSeq(S, 1, b), R, S, 1, b)
      BY <3>1, Slice
    <3> QED
      BY <3>1, <3>2 DEF IsSlice
  <2>4. InHalf(S, side) = 1..b
    <3>1. \A j : j \in 1..b <=> j \in 1..n /\ j < m
      BY <1>1, <2>2
    <3> QED
      BY <1>1, <1>3, <1>4, <3>1 DEF InHalf
  <2>5. b - 1 + 1 <= n /\ (n > 0 => b - 1 + 1 < n)
    BY <1>1, <1>3, <2>2
  <2> QED
    BY <1>1, <1>2, <2>3, <2>4, <2>5 DEF IsHalf
<1>5. ASSUME side # "left", n > 0 PROVE IsHalf(h, R, S, side)
  <2>1. h = SubSeq(S, m + 1, n)
    BY <1>0, <1>1, <1>3, <1>5 DEF Half
  <2>2. PICK a \in Nat : a = m + 1 /\ 1 <= a /\ a <= n + 1 /\ n <= Len(S)
    BY <1>1, <1>3, <1>5
  <2>3. /\ h \in Seq(R) /\ Len(h) = n - a + 1 /\ Range(h) = {S[j] : j \in a..n}
        /\ IsInjective(S) => IsInjective(h)
    <3>1. h = SubSeq(S, a, n) /\ Bounds(S, a, n)
      BY <2>1, <2>2 DEF Bounds
    <3>2. IsSlice(SubSeq(S, a, n), R, S, a, n)
      BY <3>1, Slice
    <3> QED
      BY <3>1, <3>2 DEF IsSlice
  <2>4. InHalf(S, side) = a..n
    <3>1. \A j : j \in a..n <=> j \in 1..n /\ j > m
      BY <2>2
    <3> QED
      BY <1>1, <1>3, <1>5, <3>1 DEF InHalf
  <2>5. n - a + 1 <= n /\ n - a + 1 < n
    BY <1>3, <1>5, <2>2
  <2> QED
    BY <1>1, <2>3, <2>4, <2>5 DEF IsHalf
<1>6. ASSUME side # "left", n = 0 PROVE IsHalf(h, R, S, side)
  <2>1. h = SubSeq(S, m + 1, n) /\ m + 1 \in Int /\ n \in Int /\ n < m + 1
    BY <1>0, <1>1, <1>3, <1>6 DEF Half
  <2>2. h = <<>> /\ S = <<>>
    BY <1>1, <1>6, <2>1, SubSeqEmpty
  <2>3. h \in Seq(R) /\ Len(h) = 0 /\ Range(h) = {}
    BY <2>2 DEF Range
  <2>4. IsInjective(h)
    BY <2>2 DEF IsInjective
  <2>5. InHalf(S, side) = {}
    BY <1>1, <1>6 DEF InHalf
  <2> QED
    BY <1>1, <1>6, <2>2, <2>3, <2>4, <2>5 DEF IsHalf
<1>7. IsHalf(h, R, S, side)
  <2>1. n > 0 \/ n = 0
    OBVIOUS
  <2> QED
    BY <1>4, <1>5, <1>6, <2>1
<1> QED
  BY <1>7 DEF h

-----------------------------------------------------------------------------
(* The calls of a build.                                                   *)

\* What holds of no turns, and with some turns of one more, holds of all turns.
LEMMA TurnByTurn ==
  ASSUME NEW G, <<>> \in G, \A t \in Seq(Side), side \in Side : t \in G => Append(t, side) \in G
  PROVE  Seq(Side) \subseteq G
<1> DEFINE H == {n \in Nat : \A t \in Seq(Side) : Len(t) = n => t \in G}
<1>1. 0 \in H
  <2>1. \A t \in Seq(Side) : Len(t) = 0 => t = <<>>
    OBVIOUS
  <2> QED
    BY <2>1
<1>2. ASSUME NEW n \in Nat, n \in H PROVE n + 1 \in H
  <2> SUFFICES ASSUME NEW t \in Seq(Side), Len(t) = n + 1 PROVE t \in G
    OBVIOUS
  <2>1. t # <<>>
    OBVIOUS
  <2>2. PICK u \in Seq(Side), side \in Side : t = Append(u, side)
    BY <2>1, SequenceEmptyOrAppend
  <2>3. Len(u) \in Nat /\ Len(t) = Len(u) + 1
    BY <2>2, Turned
  <2>4. Len(u) = n
    BY <2>3
  <2> QED
    BY <1>2, <2>2, <2>4
<1>3. Nat \subseteq H
  <2> HIDE DEF H
  <2> QED BY <1>1, <1>2, NatSets
<1> QED
  BY <1>3

AllRows(vecs) == [i \in DOMAIN vecs |-> i]

\* What sort() makes of a list of records, as a sequence.
IsSortOf(S, vecs, rows, depth) ==
  /\ S \in Seq(DOMAIN vecs) /\ Len(S) = Len(rows) /\ Range(S) = Range(rows)
  /\ IsInjective(rows) => IsInjective(S)
  /\ InOrder(vecs, S, depth)

LEMMA Sorts ==
  ASSUME NEW vecs \in Seq(Vector), NEW rows \in Seq(DOMAIN vecs), NEW depth \in Nat
  PROVE  IsSortOf(Sorted(vecs, rows, depth), vecs, rows, depth)
<1> DEFINE R == DOMAIN vecs
           S == Sorted(vecs, rows, depth)
<1>1. PICK m \in Nat : m = Len(rows) /\ rows \in [1..m -> R]
  <2>1. Len(rows) \in Nat /\ rows \in [1..Len(rows) -> R]
    OBVIOUS
  <2> QED
    BY <2>1
<1>2. \A i \in R : vecs[i] \in Vector
  OBVIOUS
<1> HIDE DEF R
<1>3. /\ S \in [1..m -> R] /\ Range(S) = Range(rows)
      /\ IsInjective(rows) => IsInjective(S)
      /\ InOrder(vecs, S, depth)
  <2>1. Records(vecs, rows, m, R)
    BY <1>1, <1>2 DEF Records
  <2>2. SameRecords(Sorted(vecs, rows, depth), vecs, rows, depth, m, R)
    BY <2>1, SortedIs
  <2> QED
    BY <2>2 DEF SameRecords
<1> HIDE DEF S
<1>4. S \in Seq(R) /\ Len(S) = m
  <2>1. S \in Seq(R)
    BY <1>3, IsASeq
  <2> QED
    BY <1>3, <2>1
<1>5. IsSortOf(S, vecs, rows, depth)
  BY <1>1, <1>3, <1>4 DEF IsSortOf, R
<1> QED
  BY <1>5 DEF S

\* part lists the records of the calls these turns pass.
PartsOf(part, vecs, t) ==
  /\ part \in [0..Len(t) -> Seq(DOMAIN vecs)]
  /\ part[0] = Sorted(vecs, AllRows(vecs), 0)
  /\ \A n \in 1..Len(t) : part[n] = Sorted(vecs, Half(part[n - 1], t[n]), n)

LEMMA AllRowsIs ==
  ASSUME NEW vecs \in Seq(Vector)
  PROVE  /\ AllRows(vecs) \in Seq(DOMAIN vecs) /\ Len(AllRows(vecs)) = Len(vecs)
         /\ Range(AllRows(vecs)) = DOMAIN vecs /\ IsInjective(AllRows(vecs))
<1>1. Len(vecs) \in Nat /\ DOMAIN vecs = 1..Len(vecs)
  OBVIOUS
<1>2. AllRows(vecs) \in [1..Len(vecs) -> DOMAIN vecs]
  BY <1>1 DEF AllRows
<1>3. AllRows(vecs) \in Seq(DOMAIN vecs)
  BY <1>1, <1>2, IsASeq
<1>4. Len(AllRows(vecs)) = Len(vecs)
  BY <1>1, <1>2, <1>3
<1> QED
  BY <1>3, <1>4 DEF AllRows, Range, IsInjective

LEMMA HalfSorted ==
  ASSUME NEW vecs \in Seq(Vector), NEW rows \in Seq(DOMAIN vecs), NEW side \in Side, NEW n \in Nat
  PROVE  Sorted(vecs, Half(rows, side), n) \in Seq(DOMAIN vecs)
<1>1. Half(rows, side) \in Seq(DOMAIN vecs)
  BY HalfIs DEF IsHalf
<1> QED
  BY <1>1, Sorts DEF IsSortOf

LEMMA PartIs ==
  ASSUME NEW vecs \in Seq(Vector), NEW t \in Seq(Side)
  PROVE  \E part : PartsOf(part, vecs, t) /\ Part(vecs, t) = part[Len(t)]
<1> DEFINE S  == Seq(DOMAIN vecs)
           F  == [x \in Nat \X S |-> IF x[1] + 1 \in 1..Len(t)
                                     THEN Sorted(vecs, Half(x[2], t[x[1] + 1]), x[1] + 1) ELSE <<>>]
<1>0. PICK N \in Nat : N = Len(t)
  OBVIOUS
<1>1. F \in [Nat \X S -> S]
  <2>1. ASSUME NEW x \in Nat \X S
        PROVE  (IF x[1] + 1 \in 1..Len(t)
                  THEN Sorted(vecs, Half(x[2], t[x[1] + 1]), x[1] + 1) ELSE <<>>) \in S
    <3>1. CASE x[1] + 1 \in 1..Len(t)
      <4>1. x[2] \in Seq(DOMAIN vecs) /\ t[x[1] + 1] \in Side /\ x[1] + 1 \in Nat
        BY <3>1
      <4>2. Sorted(vecs, Half(x[2], t[x[1] + 1]), x[1] + 1) \in Seq(DOMAIN vecs)
        BY <4>1, HalfSorted
      <4> QED
        BY <3>1, <4>2
    <3>2. CASE ~(x[1] + 1 \in 1..Len(t))
      <4>1. <<>> \in Seq(DOMAIN vecs)
        OBVIOUS
      <4> QED
        BY <3>2, <4>1
    <3> QED
      BY <3>1, <3>2
  <2> HIDE DEF S
  <2> QED BY <2>1
<1>2. PICK s0 \in S : s0 = Sorted(vecs, AllRows(vecs), 0)
  <2>1. AllRows(vecs) \in Seq(DOMAIN vecs) /\ 0 \in Nat
    BY AllRowsIs
  <2> QED
    BY <2>1, Sorts DEF IsSortOf
<1>3. PICK g : Recurs(g, S, s0, F)
  <2> HIDE DEF S, F
  <2> QED BY <1>1, Recursion
<1>4. g \in [Nat -> S] /\ g[0] = s0
  BY <1>3 DEF Recurs
<1>5. ASSUME NEW n \in 1..N PROVE g[n] = Sorted(vecs, Half(g[n - 1], t[n]), n)
  <2>1. n - 1 \in Nat /\ (n - 1) + 1 = n /\ n \in 1..Len(t)
    BY <1>0
  <2>2. g[n] = F[<<n - 1, g[n - 1]>>]
    <3> HIDE DEF S, F
    <3> QED BY <1>3, <2>1 DEF Recurs
  <2>3. <<n - 1, g[n - 1]>> \in Nat \X S
    BY <1>4, <2>1
  <2>4. F[<<n - 1, g[n - 1]>>] = Sorted(vecs, Half(g[n - 1], t[n]), n)
    <3> HIDE DEF S
    <3> QED BY <2>1, <2>3
  <2> QED
    BY <2>2, <2>4
<1> HIDE DEF F
<1> DEFINE part == [n \in 0..N |-> g[n]]
           Solves(f) == f = [n \in 0..N |-> Sorted(vecs, IF n = 0 THEN AllRows(vecs)
                                                               ELSE Half(f[n - 1], t[n]), n)]
           d == CHOOSE f : Solves(f)
<1>6. Solves(part)
  <2>1. ASSUME NEW n \in 0..N
        PROVE  part[n] = Sorted(vecs, IF n = 0 THEN AllRows(vecs) ELSE Half(part[n - 1], t[n]), n)
    <3>1. CASE n = 0
      BY <1>2, <1>4, <3>1
    <3>2. CASE n # 0
      <4>1. n \in 1..N /\ n - 1 \in 0..N
        BY <3>2
      <4>2. part[n] = g[n] /\ part[n - 1] = g[n - 1]
        BY <4>1
      <4> HIDE DEF part
      <4> QED BY <1>5, <3>2, <4>1, <4>2
    <3> QED
      BY <3>1, <3>2
  <2>2. part = [n \in 0..N |-> part[n]]
    OBVIOUS
  <2> HIDE DEF part
  <2> QED BY <2>1, <2>2
<1>7. Solves(d)
  <2> HIDE DEF Solves
  <2> QED BY <1>6
<1>8. Part(vecs, t) = d[Len(t)]
  BY <1>0 DEF Part, AllRows
<1> HIDE DEF d
<1>9. ASSUME NEW n \in 1..N PROVE d[n] = Sorted(vecs, Half(d[n - 1], t[n]), n)
  <2>1. n \in 0..N /\ n # 0
    OBVIOUS
  <2> QED
    BY <1>7, <2>1
<1>10. d[0] = Sorted(vecs, AllRows(vecs), 0) /\ d = [n \in 0..N |-> d[n]]
  BY <1>7
<1> HIDE DEF Solves
<1> DEFINE G == {n \in Nat : n <= N => d[n] \in S}
<1>11. 0 \in G
  BY <1>2, <1>10
<1>12. ASSUME NEW n \in Nat, n \in G PROVE n + 1 \in G
  <2> SUFFICES ASSUME n + 1 <= N PROVE d[n + 1] \in S
    OBVIOUS
  <2>1. n + 1 \in 1..N /\ (n + 1) - 1 = n /\ n <= N /\ n + 1 \in Nat
    OBVIOUS
  <2>2. d[n + 1] = Sorted(vecs, Half(d[n], t[n + 1]), n + 1)
    BY <1>9, <2>1
  <2>3. t[n + 1] \in Side /\ d[n] \in Seq(DOMAIN vecs)
    BY <1>0, <1>12, <2>1
  <2> QED
    BY <2>1, <2>2, <2>3, HalfSorted
<1>13. Nat \subseteq G
  <2> HIDE DEF G
  <2> QED BY <1>11, <1>12, NatSets
<1>14. d \in [0..Len(t) -> Seq(DOMAIN vecs)]
  <2>1. \A n \in 0..N : d[n] \in S
    BY <1>13
  <2> QED
    BY <1>0, <1>10, <2>1
<1>15. PartsOf(d, vecs, t)
  BY <1>0, <1>9, <1>10, <1>14 DEF PartsOf
<1> QED
  BY <1>8, <1>15

\* The first call sorts all records, and each of its two calls one half.
LEMMA PartRoot ==
  ASSUME NEW vecs \in Seq(Vector)
  PROVE  Part(vecs, <<>>) = Sorted(vecs, AllRows(vecs), 0)
<1>1. <<>> \in Seq(Side) /\ Len(<<>>) = 0
  OBVIOUS
<1> QED
  BY <1>1, PartIs DEF PartsOf

LEMMA PartStep ==
  ASSUME NEW vecs \in Seq(Vector), NEW t \in Seq(Side), NEW side \in Side
  PROVE  Part(vecs, Append(t, side)) = Sorted(vecs, Half(Part(vecs, t), side), Len(t) + 1)
<1> DEFINE u == Append(t, side)
<1>1. PICK L \in Nat : L = Len(t)
  OBVIOUS
<1>2. u \in Seq(Side) /\ Len(u) = L + 1 /\ u[L + 1] = side /\ \A n \in 1..L : u[n] = t[n]
  BY <1>1, Turned
<1> HIDE DEF u
<1>3. PICK p : PartsOf(p, vecs, t) /\ Part(vecs, t) = p[L]
  BY <1>1, PartIs
<1>4. PICK q : PartsOf(q, vecs, u) /\ Part(vecs, u) = q[L + 1]
  BY <1>2, PartIs
<1>5. p[0] = q[0] /\ \A n \in 1..L : p[n] = Sorted(vecs, Half(p[n - 1], t[n]), n)
  BY <1>1, <1>3, <1>4 DEF PartsOf
<1>6. \A n \in 1..(L + 1) : q[n] = Sorted(vecs, Half(q[n - 1], u[n]), n)
  BY <1>2, <1>4 DEF PartsOf
<1> DEFINE G == {n \in Nat : n <= L => p[n] = q[n]}
<1>7. 0 \in G
  BY <1>5
<1>8. ASSUME NEW n \in Nat, n \in G PROVE n + 1 \in G
  <2> SUFFICES ASSUME n + 1 <= L PROVE p[n + 1] = q[n + 1]
    OBVIOUS
  <2>1. n + 1 \in 1..L /\ n + 1 \in 1..(L + 1) /\ (n + 1) - 1 = n /\ n <= L
    OBVIOUS
  <2>2. p[n] = q[n] /\ u[n + 1] = t[n + 1]
    BY <1>2, <1>8, <2>1
  <2>3. p[n + 1] = Sorted(vecs, Half(p[n], t[n + 1]), n + 1)
    BY <1>5, <2>1
  <2>4. q[n + 1] = Sorted(vecs, Half(q[n], u[n + 1]), n + 1)
    BY <1>6, <2>1
  <2> QED
    BY <2>2, <2>3, <2>4
<1>9. L \in G
  <2> HIDE DEF G
  <2> QED BY <1>7, <1>8, NatSets
<1>10. p[L] = q[L]
  BY <1>9
<1>11. q[L + 1] = Sorted(vecs, Half(q[L], u[L + 1]), L + 1)
  <2>1. L + 1 \in 1..(L + 1) /\ (L + 1) - 1 = L
    OBVIOUS
  <2> QED
    BY <1>6, <2>1
<1> QED
  BY <1>1, <1>2, <1>3, <1>4, <1>10, <1>11 DEF u

\* The records of a call: each once, in order, and one fewer at least with each turn.
PartOK(vecs, t) ==
  /\ Part(vecs, t) \in Seq(DOMAIN vecs)
  /\ IsInjective(Part(vecs, t))
  /\ InOrder(vecs, Part(vecs, t), Len(t))
  /\ Part(vecs, t) # <<>> => Len(Part(vecs, t)) + Len(t) <= Len(vecs)

LEMMA PartGoesOn ==
  ASSUME NEW vecs \in Seq(Vector), NEW t \in Seq(Side), PartOK(vecs, t), NEW side \in Side
  PROVE  /\ PartOK(vecs, Append(t, side))
         /\ Range(Part(vecs, Append(t, side)))
              = {Part(vecs, t)[j] : j \in InHalf(Part(vecs, t), side)}
         /\ Part(vecs, Append(t, side)) # <<>> => Part(vecs, t) # <<>>
<1> DEFINE R == DOMAIN vecs
           P == Part(vecs, t)
           h == Half(P, side)
           Q == Part(vecs, Append(t, side))
<1>1. P \in Seq(R) /\ IsInjective(P) /\ (P # <<>> => Len(P) + Len(t) <= Len(vecs))
  BY DEF PartOK
<1>2. Q = Sorted(vecs, h, Len(t) + 1)
  BY PartStep
<1> HIDE DEF P, Q
<1>3. /\ h \in Seq(R) /\ Len(h) <= Len(P) /\ (P # <<>> => Len(h) < Len(P))
      /\ Range(h) = {P[j] : j \in InHalf(P, side)}
      /\ IsInjective(h)
  <2>1. IsHalf(h, R, P, side)
    BY <1>1, HalfIs
  <2> QED
    BY <1>1, <2>1 DEF IsHalf
<1> HIDE DEF h
<1>4. IsSortOf(Q, vecs, h, Len(t) + 1)
  <2>1. Len(t) + 1 \in Nat
    OBVIOUS
  <2> QED
    BY <1>2, <1>3, <2>1, Sorts
<1>5. /\ Q \in Seq(R) /\ Len(Q) = Len(h) /\ Range(Q) = Range(h)
      /\ IsInjective(Q) /\ InOrder(vecs, Q, Len(t) + 1)
  BY <1>3, <1>4 DEF IsSortOf
<1>6. Len(Append(t, side)) = Len(t) + 1
  BY Turned
<1>7. PICK p \in Nat, q \in Nat, l \in Nat, n \in Nat :
        p = Len(P) /\ q = Len(Q) /\ l = Len(t) /\ n = Len(vecs)
  BY <1>1, <1>5, LenProperties
<1>8. (P = <<>> => p = 0) /\ (Q # <<>> => q # 0)
  BY <1>5, <1>7
<1>9. Q # <<>> => P # <<>>
  BY <1>3, <1>5, <1>7, <1>8
<1>10. Q # <<>> => q + (l + 1) <= n
  <2>1. Q # <<>> => q < p /\ p + l <= n
    BY <1>1, <1>3, <1>5, <1>7, <1>9
  <2> QED
    BY <2>1
<1>11. PartOK(vecs, Append(t, side))
  BY <1>5, <1>6, <1>7, <1>10 DEF PartOK, Q
<1> QED
  BY <1>3, <1>5, <1>9, <1>11 DEF P, Q

LEMMA PartFacts ==
  ASSUME NEW vecs \in Seq(Vector)
  PROVE  \A t \in Seq(Side) : PartOK(vecs, t)
<1> DEFINE G == {t \in Seq(Side) : PartOK(vecs, t)}
<1>1. <<>> \in G
  <2>1. /\ AllRows(vecs) \in Seq(DOMAIN vecs) /\ Len(AllRows(vecs)) = Len(vecs)
        /\ IsInjective(AllRows(vecs)) /\ 0 \in Nat
    BY AllRowsIs
  <2>2. IsSortOf(Part(vecs, <<>>), vecs, AllRows(vecs), 0)
    BY <2>1, PartRoot, Sorts
  <2>3. <<>> \in Seq(Side) /\ Len(<<>>) = 0 /\ Len(vecs) + 0 <= Len(vecs)
    OBVIOUS
  <2> QED
    BY <2>1, <2>2, <2>3 DEF PartOK, IsSortOf
<1>2. ASSUME NEW t \in Seq(Side), NEW side \in Side, t \in G PROVE Append(t, side) \in G
  BY <1>2, PartGoesOn, AppendProperties
<1>3. Seq(Side) \subseteq G
  <2> HIDE DEF G
  <2> QED BY <1>1, <1>2, TurnByTurn
<1> QED
  BY <1>3

\* The record a call makes a node of.
Node(vecs, t) == Part(vecs, t)[Median(Part(vecs, t))]

TurnsUpto(t, n) == SubSeq(t, 1, n)

LEMMA TurnOfAppend ==
  ASSUME NEW t \in Seq(Side), NEW side \in Side, NEW n \in 0..Len(t)
  PROVE  TurnsUpto(Append(t, side), n) = TurnsUpto(t, n)
<1> DEFINE u == Append(t, side)
<1>1. PICK L \in Nat : L = Len(t)
  OBVIOUS
<1>2. u \in Seq(Side) /\ Len(u) = L + 1 /\ \A i \in 1..L : u[i] = t[i]
  BY <1>1, Turned
<1> HIDE DEF u
<1>3. n \in 0..Len(u) /\ n \in 0..L /\ \A i \in 1..n : i \in 1..L
  BY <1>1, <1>2
<1>4. /\ TurnsUpto(u, n) \in Seq(Side) /\ Len(TurnsUpto(u, n)) = n
      /\ \A i \in 1..n : TurnsUpto(u, n)[i] = u[i]
  BY <1>2, <1>3, FirstTurns DEF TurnsUpto
<1>5. /\ TurnsUpto(t, n) \in Seq(Side) /\ Len(TurnsUpto(t, n)) = n
      /\ \A i \in 1..n : TurnsUpto(t, n)[i] = t[i]
  BY FirstTurns DEF TurnsUpto
<1>6. TurnsUpto(u, n) = TurnsUpto(t, n)
  BY <1>2, <1>3, <1>4, <1>5, SameTurns
<1> QED
  BY <1>6 DEF u

\* The records of a call are among those of the calls it comes from.
LEMMA PartAbove ==
  ASSUME NEW vecs \in Seq(Vector)
  PROVE  \A t \in Seq(Side) : \A n \in 0..Len(t) :
           Range(Part(vecs, t)) \subseteq Range(Part(vecs, TurnsUpto(t, n)))
<1> DEFINE G == {t \in Seq(Side) : \A n \in 0..Len(t) :
                   Range(Part(vecs, t)) \subseteq Range(Part(vecs, TurnsUpto(t, n)))}
<1>1. \A t \in Seq(Side) : TurnsUpto(t, Len(t)) = t
  <2> SUFFICES ASSUME NEW t \in Seq(Side) PROVE TurnsUpto(t, Len(t)) = t
    OBVIOUS
  <2>1. Len(t) \in 0..Len(t)
    OBVIOUS
  <2> QED
    BY <2>1, FirstTurns DEF TurnsUpto
<1>2. <<>> \in G
  <2>1. <<>> \in Seq(Side) /\ \A n \in 0..Len(<<>>) : n = Len(<<>>)
    OBVIOUS
  <2> QED
    BY <1>1, <2>1
<1>3. ASSUME NEW t \in Seq(Side), NEW side \in Side, t \in G PROVE Append(t, side) \in G
  <2>1. PICK L \in Nat : L = Len(t)
    OBVIOUS
  <2>2. Append(t, side) \in Seq(Side) /\ Len(Append(t, side)) = L + 1
    BY <2>1, Turned
  <2>3. Range(Part(vecs, Append(t, side))) \subseteq Range(Part(vecs, t))
    <3>1. Range(Part(vecs, Append(t, side))) = {Part(vecs, t)[j] : j \in InHalf(Part(vecs, t), side)}
      BY PartFacts, PartGoesOn
    <3> QED
      BY <3>1 DEF Range, InHalf
  <2>4. ASSUME NEW n \in 0..(L + 1)
        PROVE  Range(Part(vecs, Append(t, side))) \subseteq Range(Part(vecs, TurnsUpto(Append(t, side), n)))
    <3>1. CASE n = L + 1
      BY <1>1, <2>2, <3>1
    <3>2. CASE n # L + 1
      <4>1. n \in 0..Len(t)
        BY <2>1, <3>2
      <4>2. TurnsUpto(Append(t, side), n) = TurnsUpto(t, n)
        BY <4>1, TurnOfAppend
      <4>3. Range(Part(vecs, t)) \subseteq Range(Part(vecs, TurnsUpto(t, n)))
        BY <1>3, <4>1
      <4> QED
        BY <2>3, <4>2, <4>3
    <3> QED
      BY <3>1, <3>2
  <2> QED
    BY <2>2, <2>4
<1>4. Seq(Side) \subseteq G
  <2> HIDE DEF G
  <2> QED BY <1>2, <1>3, TurnByTurn
<1> QED
  BY <1>4

\* Where a record is below a call: in one half, unless it is the call's node.
LEMMA WhichHalf ==
  ASSUME NEW vecs \in Seq(Vector), NEW t \in Seq(Side), NEW x \in Range(Part(vecs, t))
  PROVE  /\ Part(vecs, t) # <<>>
         /\ x = Node(vecs, t) => \A side \in Side : x \notin Range(Part(vecs, Append(t, side)))
         /\ x # Node(vecs, t) => \E side \in Side : x \in Range(Part(vecs, Append(t, side)))
         /\ ~(/\ x \in Range(Part(vecs, Append(t, "left")))
              /\ x \in Range(Part(vecs, Append(t, "right"))))
<1> DEFINE P == Part(vecs, t)
<1>1. P \in Seq(DOMAIN vecs) /\ IsInjective(P)
  BY PartFacts DEF PartOK
<1>2. \A side \in Side : Range(Part(vecs, Append(t, side))) = {P[j] : j \in InHalf(P, side)}
  BY PartFacts, PartGoesOn
<1>3. Node(vecs, t) = P[Median(P)]
  BY DEF Node
<1>4. PICK i \in DOMAIN P : x = P[i]
  BY DEF Range
<1> HIDE DEF P
<1>5. P # <<>>
  BY <1>4
<1>6. "left" \in Side /\ "right" \in Side /\ Side = {"left", "right"}
  BY DEF Side
<1>7. Median(P) \in DOMAIN P
  BY <1>1, <1>5, MedianIs
<1>8. DOMAIN P = 1..Len(P) /\ Len(P) \in Nat
  BY <1>1
<1>9. PICK l \in Nat, m \in Nat : l = Len(P) /\ m = Median(P) /\ m \in 1..l /\ i \in 1..l
  <2>1. Len(P) \in Nat /\ Median(P) \in 1..Len(P) /\ i \in 1..Len(P)
    BY <1>4, <1>7, <1>8
  <2>2. Median(P) \in Nat
    BY <2>1
  <2> QED
    BY <2>1, <2>2
<1>10. ASSUME NEW side \in Side
       PROVE  x \in Range(Part(vecs, Append(t, side))) <=> i \in InHalf(P, side)
  <2>1. x \in Range(Part(vecs, Append(t, side))) <=> \E j \in InHalf(P, side) : x = P[j]
    BY <1>2
  <2>2. \A j \in InHalf(P, side) : j \in DOMAIN P
    BY DEF InHalf
  <2>3. \A j \in DOMAIN P : x = P[j] => j = i
    BY <1>1, <1>4 DEF IsInjective
  <2> QED
    BY <1>4, <2>1, <2>2, <2>3
<1>11. (x = Node(vecs, t) => i = m) /\ (i = m => x = Node(vecs, t))
  BY <1>1, <1>3, <1>4, <1>7, <1>9 DEF IsInjective
<1>12. /\ i \in InHalf(P, "left") <=> i < m
       /\ i \in InHalf(P, "right") <=> i > m
  BY <1>4, <1>9 DEF InHalf
<1>13. i = m => \A side \in Side : i \notin InHalf(P, side)
  BY <1>6, <1>9, <1>12
<1>14. i # m => i < m \/ i > m
  BY <1>9
<1>15. ~(i < m /\ i > m)
  BY <1>9
<1>16. x = Node(vecs, t) => \A side \in Side : x \notin Range(Part(vecs, Append(t, side)))
  BY <1>10, <1>11, <1>13
<1>17. x # Node(vecs, t) => \E side \in Side : x \in Range(Part(vecs, Append(t, side)))
  BY <1>6, <1>10, <1>11, <1>12, <1>14
<1> QED
  BY <1>5, <1>6, <1>10, <1>12, <1>15, <1>16, <1>17 DEF P

\* Two calls after as many turns share no record.
LEMMA OneCall ==
  ASSUME NEW vecs \in Seq(Vector), NEW x
  PROVE  \A t \in Seq(Side) : \A u \in Seq(Side) :
           Len(t) = Len(u) /\ x \in Range(Part(vecs, t)) /\ x \in Range(Part(vecs, u)) => t = u
<1> DEFINE G == {t \in Seq(Side) : \A u \in Seq(Side) :
             Len(t) = Len(u) /\ x \in Range(Part(vecs, t)) /\ x \in Range(Part(vecs, u)) => t = u}
<1>1. <<>> \in G
  <2>1. <<>> \in Seq(Side) /\ \A u \in Seq(Side) : Len(<<>>) = Len(u) => <<>> = u
    OBVIOUS
  <2> QED
    BY <2>1
<1>2. ASSUME NEW t \in Seq(Side), NEW side \in Side, t \in G PROVE Append(t, side) \in G
  <2> SUFFICES ASSUME NEW u \in Seq(Side), Len(Append(t, side)) = Len(u),
                      x \in Range(Part(vecs, Append(t, side))), x \in Range(Part(vecs, u))
               PROVE  Append(t, side) = u
    BY AppendProperties
  <2>1. PICK L \in Nat : L = Len(t) /\ Len(u) = L + 1
    BY Turned
  <2>2. PICK w \in Seq(Side), other \in Side : u = Append(w, other)
    <3>1. u # <<>>
      BY <2>1
    <3> QED
      BY <3>1, SequenceEmptyOrAppend
  <2>3. Len(w) = L
    BY <2>1, <2>2, Turned
  <2>4. x \in Range(Part(vecs, t)) /\ x \in Range(Part(vecs, w))
    <3>1. ASSUME NEW v \in Seq(Side), NEW s \in Side, x \in Range(Part(vecs, Append(v, s)))
          PROVE  x \in Range(Part(vecs, v))
      <4>1. Range(Part(vecs, Append(v, s))) = {Part(vecs, v)[j] : j \in InHalf(Part(vecs, v), s)}
        BY PartFacts, PartGoesOn
      <4> QED
        BY <3>1, <4>1 DEF Range, InHalf
    <3> QED
      BY <2>2, <3>1
  <2>5. t = w
    BY <1>2, <2>1, <2>3, <2>4
  <2>6. side = other
    <3>1. x \in Range(Part(vecs, Append(t, side))) /\ x \in Range(Part(vecs, Append(t, other)))
      BY <2>2, <2>5
    <3>2. ~(/\ x \in Range(Part(vecs, Append(t, "left")))
            /\ x \in Range(Part(vecs, Append(t, "right"))))
      BY <2>4, WhichHalf
    <3> QED
      BY <3>1, <3>2 DEF Side
  <2> QED
    BY <2>2, <2>5, <2>6
<1>3. Seq(Side) \subseteq G
  <2> HIDE DEF G
  <2> QED BY <1>1, <1>2, TurnByTurn
<1> QED
  BY <1>3

IsNode(vecs, t) == t \in Seq(Side) /\ Part(vecs, t) # <<>>

LEMMA NodeRow ==
  ASSUME NEW vecs \in Seq(Vector), NEW t, IsNode(vecs, t)
  PROVE  Node(vecs, t) \in DOMAIN vecs /\ Node(vecs, t) \in Range(Part(vecs, t))
<1> DEFINE P == Part(vecs, t)
<1>1. P \in Seq(DOMAIN vecs) /\ P # <<>> /\ Node(vecs, t) = P[Median(P)]
  BY PartFacts DEF PartOK, IsNode, Node
<1> HIDE DEF P
<1>2. Median(P) \in DOMAIN P
  BY <1>1, MedianIs
<1>3. P[Median(P)] \in DOMAIN vecs /\ P[Median(P)] \in Range(P)
  BY <1>1, <1>2 DEF Range
<1> QED
  BY <1>1, <1>3 DEF P

LEMMA NodeForRow ==
  ASSUME NEW vecs \in Seq(Vector), NEW x \in DOMAIN vecs
  PROVE  \E t \in Seq(Side) : IsNode(vecs, t) /\ Node(vecs, t) = x
<1> SUFFICES ASSUME \A t \in Seq(Side) : IsNode(vecs, t) => Node(vecs, t) # x
             PROVE  FALSE
  OBVIOUS
<1> DEFINE G == {n \in Nat : \E t \in Seq(Side) : Len(t) = n /\ x \in Range(Part(vecs, t))}
<1>1. 0 \in G
  <2>1. <<>> \in Seq(Side) /\ Len(<<>>) = 0
    OBVIOUS
  <2>2. /\ AllRows(vecs) \in Seq(DOMAIN vecs) /\ Range(AllRows(vecs)) = DOMAIN vecs /\ 0 \in Nat
    BY AllRowsIs
  <2>3. IsSortOf(Part(vecs, <<>>), vecs, AllRows(vecs), 0)
    BY <2>2, PartRoot, Sorts
  <2>4. x \in Range(Part(vecs, <<>>))
    BY <2>2, <2>3 DEF IsSortOf
  <2> QED
    BY <2>1, <2>4
<1>2. ASSUME NEW n \in Nat, n \in G PROVE n + 1 \in G
  <2>1. PICK t \in Seq(Side) : Len(t) = n /\ x \in Range(Part(vecs, t))
    BY <1>2
  <2>2. x # Node(vecs, t)
    BY <2>1, WhichHalf DEF IsNode
  <2>3. PICK side \in Side : x \in Range(Part(vecs, Append(t, side)))
    BY <2>1, <2>2, WhichHalf
  <2>4. Append(t, side) \in Seq(Side) /\ Len(Append(t, side)) = n + 1
    BY <2>1, Turned
  <2>5. PICK u \in Seq(Side) : Len(u) = n + 1 /\ x \in Range(Part(vecs, u))
    BY <2>3, <2>4
  <2> QED
    BY <2>5
<1>3. PICK N \in Nat : N = Len(vecs)
  OBVIOUS
<1>4. N + 1 \in G
  <2> HIDE DEF G
  <2> QED BY <1>1, <1>2, NatSets
<1>5. PICK t \in Seq(Side) : Len(t) = N + 1 /\ x \in Range(Part(vecs, t))
  BY <1>4
<1>6. Part(vecs, t) # <<>>
  BY <1>5, WhichHalf
<1>7. Part(vecs, t) \in Seq(DOMAIN vecs) /\ Len(Part(vecs, t)) + Len(t) <= Len(vecs)
  BY <1>6, PartFacts DEF PartOK
<1>8. PICK l \in Nat : l = Len(Part(vecs, t))
  BY <1>7, LenProperties
<1>9. l + (N + 1) <= N
  BY <1>3, <1>5, <1>7, <1>8
<1> QED
  BY <1>9

LEMMA RowOfOneNode ==
  ASSUME NEW vecs \in Seq(Vector), NEW t, NEW u, IsNode(vecs, t), IsNode(vecs, u),
         Node(vecs, t) = Node(vecs, u)
  PROVE  t = u
<1> DEFINE x == Node(vecs, t)
<1>1. /\ t \in Seq(Side) /\ x \in Range(Part(vecs, t))
      /\ u \in Seq(Side) /\ x \in Range(Part(vecs, u))
  BY NodeRow DEF IsNode
\* One of them above the other: its node is in none of its halves.
<1>2. ASSUME NEW v \in Seq(Side), NEW w \in Seq(Side), Len(v) < Len(w),
             x = Node(vecs, v), x \in Range(Part(vecs, v)), x \in Range(Part(vecs, w))
      PROVE  FALSE
  <2>1. PICK L \in Nat, M \in Nat : L = Len(v) /\ M = Len(w) /\ L < M
    BY <1>2, LenProperties
  <2>2. L \in 0..Len(w) /\ L + 1 \in 0..Len(w) /\ L + 1 \in 1..Len(w)
    BY <2>1
  <2>3. PICK side \in Side : side = w[L + 1]
    BY <2>2
  <2>4. TurnsUpto(w, L) \in Seq(Side) /\ Len(TurnsUpto(w, L)) = L /\ \A i \in 1..L : TurnsUpto(w, L)[i] = w[i]
    BY <2>2, FirstTurns DEF TurnsUpto
  <2>5. x \in Range(Part(vecs, TurnsUpto(w, L))) /\ x \in Range(Part(vecs, TurnsUpto(w, L + 1)))
    BY <1>2, <2>2, PartAbove
  <2>6. TurnsUpto(w, L) = v
    BY <1>2, <2>1, <2>4, <2>5, OneCall
  <2>7. TurnsUpto(w, L + 1) = Append(v, side)
    <3>1. /\ TurnsUpto(w, L + 1) \in Seq(Side) /\ Len(TurnsUpto(w, L + 1)) = L + 1
          /\ \A i \in 1..(L + 1) : TurnsUpto(w, L + 1)[i] = w[i]
      BY <2>2, FirstTurns DEF TurnsUpto
    <3>2. /\ Append(v, side) \in Seq(Side) /\ Len(Append(v, side)) = L + 1
          /\ Append(v, side)[L + 1] = side /\ \A i \in 1..L : Append(v, side)[i] = v[i]
      BY <2>1, Turned
    <3>3. ASSUME NEW i \in 1..(L + 1) PROVE TurnsUpto(w, L + 1)[i] = Append(v, side)[i]
      <4>1. CASE i = L + 1
        BY <2>3, <3>1, <3>2, <4>1
      <4>2. CASE i # L + 1
        <5>1. i \in 1..L
          BY <4>2
        <5> QED
          BY <2>4, <2>6, <3>1, <3>2, <5>1
      <4> QED
        BY <4>1, <4>2
    <3> QED
      BY <3>1, <3>2, <3>3, SameTurns
  <2>8. x \notin Range(Part(vecs, Append(v, side)))
    BY <1>2, WhichHalf
  <2> QED
    BY <2>5, <2>7, <2>8
<1> HIDE DEF x
<1>3. CASE Len(t) = Len(u)
  BY <1>1, <1>3, OneCall
<1>4. CASE Len(t) < Len(u)
  <2>1. x = Node(vecs, t)
    BY DEF x
  <2> QED
    BY <1>1, <1>2, <1>4, <2>1
<1>5. CASE Len(u) < Len(t)
  <2>1. x = Node(vecs, u)
    BY DEF x
  <2> QED
    BY <1>1, <1>2, <1>5, <2>1
<1>6. Len(t) \in Nat /\ Len(u) \in Nat
  BY <1>1, LenProperties
<1>7. Len(t) = Len(u) \/ Len(t) < Len(u) \/ Len(u) < Len(t)
  <2>1. PICK a \in Nat, b \in Nat : a = Len(t) /\ b = Len(u)
    BY <1>6
  <2> QED
    BY <2>1
<1> QED
  BY <1>3, <1>4, <1>5, <1>7

\* A node is on the side of the nodes above it that it was turned to.
LEMMA NodeOnSide ==
  ASSUME NEW vecs \in Seq(Vector), NEW t, IsNode(vecs, t), NEW n \in 1..Len(t)
  PROVE  /\ IsNode(vecs, TurnsUpto(t, n - 1))
         /\ OnSide(t[n], vecs[Node(vecs, t)], vecs[Node(vecs, TurnsUpto(t, n - 1))], n - 1)
<1> DEFINE a == TurnsUpto(t, n - 1)
           P == Part(vecs, a)
           x == Node(vecs, t)
<1>1. t \in Seq(Side) /\ x \in DOMAIN vecs /\ x \in Range(Part(vecs, t))
  BY NodeRow DEF IsNode
<1>2. PICK L \in Nat : L = Len(t)
  BY <1>1, LenProperties
<1>3. n - 1 \in 0..Len(t) /\ n \in 0..Len(t) /\ n - 1 \in Nat /\ n \in 1..L
  BY <1>2
<1>4. PICK side \in Side : side = t[n]
  BY <1>1, <1>2, <1>3
<1>5. a \in Seq(Side) /\ Len(a) = n - 1 /\ \A i \in 1..(n - 1) : a[i] = t[i]
  BY <1>1, <1>3, FirstTurns DEF TurnsUpto
<1>6. TurnsUpto(t, n) = Append(a, side)
  <2>1. /\ TurnsUpto(t, n) \in Seq(Side) /\ Len(TurnsUpto(t, n)) = n /\ \A i \in 1..n : TurnsUpto(t, n)[i] = t[i]
    BY <1>1, <1>3, FirstTurns DEF TurnsUpto
  <2> HIDE DEF a
  <2>2. /\ Append(a, side) \in Seq(Side) /\ Len(Append(a, side)) = n
        /\ Append(a, side)[n] = side /\ \A i \in 1..(n - 1) : Append(a, side)[i] = a[i]
    <3>1. (n - 1) + 1 = n
      BY <1>3
    <3> QED
      BY <1>5, <3>1, Turned
  <2>3. ASSUME NEW i \in 1..n PROVE TurnsUpto(t, n)[i] = Append(a, side)[i]
    <3>1. CASE i = n
      BY <1>4, <2>1, <2>2, <3>1
    <3>2. CASE i # n
      <4>1. i \in 1..(n - 1)
        BY <3>2
      <4> QED
        BY <1>5, <2>1, <2>2, <4>1
    <3> QED
      BY <3>1, <3>2
  <2> QED
    BY <2>1, <2>2, <2>3, SameTurns
<1>7. x \in Range(P) /\ x \in Range(Part(vecs, Append(a, side)))
  BY <1>1, <1>3, <1>6, PartAbove
<1> HIDE DEF a, x
<1>8. P # <<>> /\ IsNode(vecs, a)
  BY <1>5, <1>7, WhichHalf DEF IsNode
<1>9. P \in Seq(DOMAIN vecs) /\ InOrder(vecs, P, n - 1)
  BY <1>5, PartFacts DEF PartOK
<1>10. PICK j \in InHalf(P, side) : x = P[j]
  <2>1. Range(Part(vecs, Append(a, side))) = {P[j] : j \in InHalf(P, side)}
    BY <1>5, PartFacts, PartGoesOn
  <2> QED
    BY <1>7, <2>1
<1>11. Node(vecs, a) = P[Median(P)]
  BY DEF Node
<1> HIDE DEF P
<1>12. Median(P) \in DOMAIN P
  BY <1>8, <1>9, MedianIs
<1>13. DOMAIN P = 1..Len(P)
  BY <1>9
<1>14. PICK m \in Nat : m = Median(P)
  BY <1>12, <1>13
<1>15. j \in DOMAIN P /\ j \in Nat /\ (side = "left" => j <= m) /\ (side = "right" => m <= j)
  <2>1. j \in DOMAIN P /\ (side = "left" => j < m) /\ (side = "right" => j > m)
    BY <1>14 DEF InHalf
  <2>2. j \in Nat
    BY <1>13, <2>1
  <2> QED
    BY <1>14, <2>1, <2>2
<1>16. /\ side = "left"  => SplitVal(vecs[P[j]], n - 1) <= SplitVal(vecs[P[m]], n - 1)
       /\ side = "right" => SplitVal(vecs[P[m]], n - 1) <= SplitVal(vecs[P[j]], n - 1)
  BY <1>9, <1>12, <1>14, <1>15 DEF InOrder
<1>17. Node(vecs, a) \in DOMAIN vecs
  BY <1>8, NodeRow
<1>18. PICK y \in Int, z \in Int : y = SplitVal(vecs[x], n - 1) /\ z = SplitVal(vecs[Node(vecs, a)], n - 1)
  <2>1. vecs[x] \in Vector /\ vecs[Node(vecs, a)] \in Vector
    BY <1>1, <1>17 DEF x
  <2> QED
    BY <1>3, <2>1, SplitValInt
<1>19. (side = "left" => y <= z) /\ (side = "right" => y >= z)
  BY <1>10, <1>11, <1>14, <1>16, <1>18
<1>20. OnSide(side, vecs[x], vecs[Node(vecs, a)], n - 1)
  BY <1>18, <1>19 DEF OnSide
<1> QED
  BY <1>4, <1>8, <1>20 DEF a, x

-----------------------------------------------------------------------------
(* The operations keep the tree.                                           *)

\* What IndexInv says of the tree b of the vectors vecs.
TreeOf(vecs, b) ==
  /\ DOMAIN b \subseteq Seq(Side)
  /\ b \in [DOMAIN b -> DOMAIN vecs]
  /\ \A t \in DOMAIN b : \A n \in DOMAIN t :
       /\ SubSeq(t, 1, n - 1) \in DOMAIN b
       /\ OnSide(t[n], vecs[b[t]], vecs[b[SubSeq(t, 1, n - 1)]], n - 1)
  /\ \A t, u \in DOMAIN b : b[t] = b[u] => t = u
  /\ \A i \in DOMAIN vecs : \E t \in DOMAIN b : b[t] = i

LEMMA BuildIs ==
  ASSUME NEW vecs \in Seq(Vector)
  PROVE  TreeOf(vecs, BuildKdTree(vecs))
<1> DEFINE b == BuildKdTree(vecs)
           D == {t \in Seq(Side) : Part(vecs, t) # <<>>}
<1>1. PICK N \in Nat : N = Len(vecs)
  OBVIOUS
<1>2. {t \in BoundedSeq(Side, Len(vecs)) : Part(vecs, t) # <<>>} = D
  <2>1. ASSUME NEW t \in Seq(Side), Part(vecs, t) # <<>> PROVE t \in BoundedSeq(Side, N)
    <3>1. Part(vecs, t) \in Seq(DOMAIN vecs) /\ Len(Part(vecs, t)) + Len(t) <= N
      BY <1>1, <2>1, PartFacts DEF PartOK
    <3>2. PICK p \in Nat, l \in Nat : p = Len(Part(vecs, t)) /\ l = Len(t)
      BY <3>1, LenProperties
    <3>3. l \in 0..N
      BY <3>1, <3>2
    <3>4. t \in [1..l -> Side]
      BY <3>2
    <3> QED
      BY <3>3, <3>4 DEF BoundedSeq, SeqOf
  <2>2. ASSUME NEW t \in BoundedSeq(Side, N) PROVE t \in Seq(Side)
    <3>1. PICK l \in 0..N : t \in [1..l -> Side]
      BY DEF BoundedSeq, SeqOf
    <3>2. l \in Nat
      OBVIOUS
    <3> QED
      BY <3>1, <3>2, IsASeq
  <2> QED
    BY <1>1, <2>1, <2>2
<1>3. b = [t \in D |-> Node(vecs, t)]
  BY <1>2 DEF BuildKdTree, Node
<1> HIDE DEF b
<1>4. DOMAIN b = D /\ \A t \in D : b[t] = Node(vecs, t) /\ IsNode(vecs, t)
  BY <1>3 DEF IsNode
<1>5. ASSUME NEW t \in D PROVE b[t] \in DOMAIN vecs
  BY <1>4, NodeRow
<1>6. b \in [DOMAIN b -> DOMAIN vecs]
  BY <1>3, <1>4, <1>5
<1>7. ASSUME NEW t \in D, NEW n \in DOMAIN t
      PROVE  /\ SubSeq(t, 1, n - 1) \in D
             /\ OnSide(t[n], vecs[b[t]], vecs[b[SubSeq(t, 1, n - 1)]], n - 1)
  <2>1. n \in 1..Len(t)
    OBVIOUS
  <2>2. /\ IsNode(vecs, TurnsUpto(t, n - 1))
        /\ OnSide(t[n], vecs[Node(vecs, t)], vecs[Node(vecs, TurnsUpto(t, n - 1))], n - 1)
    BY <1>4, <2>1, NodeOnSide
  <2>3. TurnsUpto(t, n - 1) \in D
    BY <2>2 DEF IsNode
  <2> QED
    BY <1>4, <2>2, <2>3 DEF TurnsUpto
<1>8. ASSUME NEW t \in D, NEW u \in D, b[t] = b[u] PROVE t = u
  BY <1>4, <1>8, RowOfOneNode
<1>9. ASSUME NEW i \in DOMAIN vecs PROVE \E t \in D : b[t] = i
  <2>1. PICK t \in Seq(Side) : IsNode(vecs, t) /\ Node(vecs, t) = i
    BY NodeForRow
  <2> QED
    BY <1>4, <2>1 DEF IsNode
<1>10. DOMAIN b \subseteq Seq(Side)
  BY <1>4
<1> HIDE DEF D
<1>11. TreeOf(vecs, b)
  BY <1>4, <1>6, <1>7, <1>8, <1>9, <1>10 DEF TreeOf
<1> QED
  BY <1>11 DEF b

\* InsertKdNode: the appended row at a free place its turns lead to.
Grown(turns) ==
  [t \in DOMAIN tree \cup {turns} |-> IF t = turns THEN Len(table) + 1 ELSE tree[t]]

LEMMA InsertKeeps ==
  ASSUME IndexInv, NEW vec \in Vector, NEW turns, LeadsTo(vec, turns),
         turns \in {<<>>} \cup {Append(t, s) : t \in DOMAIN tree, s \in Side}
  PROVE  TreeOf(Append(table, vec), Grown(turns))
<1> DEFINE rows == Append(table, vec)
           b    == Grown(turns)
<1>1. KTypeOK /\ Ordered /\ OneNodePerRow
  BY DEF IndexInv
<1>2. PICK N \in Nat : N = Len(table) /\ DOMAIN table = 1..N
  BY <1>1 DEF KTypeOK
<1>3. DOMAIN tree \subseteq Seq(Side) /\ \A t \in DOMAIN tree : tree[t] \in 1..N
  BY <1>1, <1>2 DEF KTypeOK
<1>4. turns \in Seq(Side)
  <2>1. CASE turns = <<>>
    BY <2>1
  <2>2. CASE turns # <<>>
    <3>1. PICK t \in Seq(Side), s \in Side : turns = Append(t, s)
      BY <1>3, <2>2
    <3> QED
      BY <3>1, Turned
  <2> QED
    BY <2>1, <2>2
<1>5. /\ DOMAIN rows = 1..(N + 1) /\ rows[N + 1] = vec
      /\ \A i \in 1..N : rows[i] = table[i]
  <2>1. table \in Seq(Vector)
    BY <1>1 DEF KTypeOK
  <2>2. /\ rows \in Seq(Vector) /\ Len(rows) = N + 1 /\ rows[N + 1] = vec
        /\ \A i \in 1..N : rows[i] = table[i]
    BY <1>2, <2>1, AppendProperties
  <2> QED
    BY <2>2
<1> HIDE DEF rows
<1>6. turns \notin DOMAIN tree
  BY DEF LeadsTo
<1>7. /\ DOMAIN b = DOMAIN tree \cup {turns} /\ b[turns] = N + 1
      /\ \A t \in DOMAIN tree : b[t] = tree[t]
  BY <1>2, <1>6 DEF Grown
<1>8. DOMAIN b \subseteq Seq(Side)
  BY <1>3, <1>4, <1>7
<1>9. b \in [DOMAIN b -> DOMAIN rows]
  <2>1. \A i \in 1..N : i \in 1..(N + 1)
    OBVIOUS
  <2>2. N + 1 \in 1..(N + 1)
    OBVIOUS
  <2>3. \A t \in DOMAIN b : b[t] \in DOMAIN rows
    BY <1>3, <1>5, <1>7, <2>1, <2>2
  <2>4. b = [t \in DOMAIN b |-> b[t]]
    BY DEF Grown
  <2> QED
    BY <2>3, <2>4
<1> HIDE DEF b
<1>10. ASSUME NEW t \in DOMAIN tree, NEW n \in DOMAIN t
       PROVE  /\ SubSeq(t, 1, n - 1) \in DOMAIN b
              /\ OnSide(t[n], rows[b[t]], rows[b[SubSeq(t, 1, n - 1)]], n - 1)
  <2> DEFINE a == SubSeq(t, 1, n - 1)
  <2>1. a \in DOMAIN tree /\ OnSide(t[n], table[tree[t]], table[tree[a]], n - 1)
    BY <1>1 DEF Ordered
  <2> HIDE DEF a
  <2>2. rows[b[t]] = table[tree[t]] /\ rows[b[a]] = table[tree[a]]
    BY <1>3, <1>5, <1>7, <2>1
  <2>3. a \in DOMAIN b /\ OnSide(t[n], rows[b[t]], rows[b[a]], n - 1)
    BY <1>7, <2>1, <2>2
  <2> QED
    BY <2>3 DEF a
<1>11. ASSUME NEW n \in DOMAIN turns
       PROVE  /\ SubSeq(turns, 1, n - 1) \in DOMAIN b
              /\ OnSide(turns[n], rows[b[turns]], rows[b[SubSeq(turns, 1, n - 1)]], n - 1)
  <2> DEFINE a == SubSeq(turns, 1, n - 1)
  <2>1. /\ a \in DOMAIN tree
        /\ turns[n] = IF SplitVal(vec, n - 1) < SplitVal(table[tree[a]], n - 1) THEN "left" ELSE "right"
    BY DEF LeadsTo
  <2> HIDE DEF a
  <2>2. rows[b[turns]] = vec /\ rows[b[a]] = table[tree[a]] /\ table[tree[a]] \in Vector
    BY <1>1, <1>3, <1>5, <1>7, <2>1, NodeFacts
  <2>3. n - 1 \in Nat
    BY <1>4
  <2>4. PICK y \in Int, z \in Int : y = SplitVal(vec, n - 1) /\ z = SplitVal(table[tree[a]], n - 1)
    BY <2>2, <2>3, SplitValInt
  <2>5. (turns[n] = "left" => y <= z) /\ (turns[n] = "right" => y >= z)
    <3>1. CASE y < z
      BY <2>1, <2>4, <3>1
    <3>2. CASE ~(y < z)
      BY <2>1, <2>4, <3>2
    <3> QED
      BY <3>1, <3>2
  <2>6. OnSide(turns[n], vec, table[tree[a]], n - 1)
    BY <2>4, <2>5 DEF OnSide
  <2>7. a \in DOMAIN b /\ OnSide(turns[n], rows[b[turns]], rows[b[a]], n - 1)
    BY <1>7, <2>1, <2>2, <2>6
  <2> QED
    BY <2>7 DEF a
<1>12. ASSUME NEW t \in DOMAIN b, NEW u \in DOMAIN b, b[t] = b[u] PROVE t = u
  <2>1. ~(N + 1 \in 1..N)
    OBVIOUS
  <2>2. \A v \in DOMAIN tree : b[v] # N + 1
    BY <1>3, <1>7, <2>1
  <2> QED
    BY <1>1, <1>7, <1>12, <2>2 DEF OneNodePerRow
<1>13. ASSUME NEW i \in DOMAIN rows PROVE \E t \in DOMAIN b : b[t] = i
  <2>1. i = N + 1 \/ i \in 1..N
    BY <1>5
  <2>2. i \in 1..N => \E t \in DOMAIN tree : tree[t] = i
    BY <1>1, <1>2 DEF OneNodePerRow
  <2> QED
    BY <1>7, <2>1, <2>2
<1>14. TreeOf(rows, b)
  BY <1>7, <1>8, <1>9, <1>10, <1>11, <1>12, <1>13 DEF TreeOf
<1> QED
  BY <1>14 DEF rows, b

\* The way of a vector down the tree ends at a free place.
FreePlace(vec) ==
  \E turns \in {<<>>} \cup {Append(t, s) : t \in DOMAIN tree, s \in Side} : LeadsTo(vec, turns)

\* One turn of insertKdNode: the side of the vector at a node.
TurnAt(vec, t, depth) ==
  IF SplitVal(vec, depth) < SplitVal(table[tree[t]], depth) THEN "left" ELSE "right"

Follows(vec, t) ==
  \A n \in DOMAIN t : /\ TurnsUpto(t, n - 1) \in DOMAIN tree
                      /\ t[n] = TurnAt(vec, TurnsUpto(t, n - 1), n - 1)

LEMMA WayEnds ==
  ASSUME IndexInv, NEW vec \in Vector
  PROVE  FreePlace(vec)
<1> SUFFICES ASSUME ~FreePlace(vec) PROVE FALSE
  OBVIOUS
<1>1. KTypeOK /\ Ordered
  BY DEF IndexInv
<1>2. ASSUME NEW t \in Seq(Side), Follows(vec, t) PROVE t \in DOMAIN tree
  <2> SUFFICES ASSUME t \notin DOMAIN tree PROVE FALSE
    OBVIOUS
  <2>1. LeadsTo(vec, t)
    BY <1>2 DEF LeadsTo, Follows, TurnAt, TurnsUpto
  <2>2. t \in {<<>>} \cup {Append(u, s) : u \in DOMAIN tree, s \in Side}
    <3> SUFFICES ASSUME t # <<>> PROVE t \in {Append(u, s) : u \in DOMAIN tree, s \in Side}
      OBVIOUS
    <3>1. PICK u \in Seq(Side), s \in Side : t = Append(u, s)
      BY SequenceEmptyOrAppend
    <3>2. PICK L \in Nat : L = Len(u) /\ Len(t) = L + 1
      BY <3>1, Turned
    <3>3. (L + 1) - 1 = L /\ L + 1 \in DOMAIN t /\ L \in 0..Len(u)
      BY <3>2
    <3>4. TurnsUpto(t, L) = TurnsUpto(u, L)
      BY <3>1, <3>3, TurnOfAppend
    <3>5. TurnsUpto(u, L) = u
      BY <3>2, <3>3, FirstTurns DEF TurnsUpto
    <3>6. u \in DOMAIN tree
      BY <1>2, <3>3, <3>4, <3>5 DEF Follows
    <3> QED
      BY <3>1, <3>6
  <2> QED
    BY <2>1, <2>2 DEF FreePlace
<1> DEFINE G == {n \in Nat : \E t \in Seq(Side) : Len(t) = n /\ Follows(vec, t)}
<1>3. 0 \in G
  <2>1. <<>> \in Seq(Side) /\ Len(<<>>) = 0 /\ Follows(vec, <<>>)
    BY DEF Follows
  <2> QED
    BY <2>1
<1>4. ASSUME NEW n \in Nat, n \in G PROVE n + 1 \in G
  <2>1. PICK t \in Seq(Side) : Len(t) = n /\ Follows(vec, t)
    BY <1>4
  <2>2. t \in DOMAIN tree
    BY <1>2, <2>1
  <2>3. PICK side \in Side : side = TurnAt(vec, t, n)
    BY DEF TurnAt, Side
  <2>4. PICK u \in Seq(Side) : /\ u = Append(t, side) /\ Len(u) = n + 1 /\ u[n + 1] = side
                               /\ \A i \in 1..n : u[i] = t[i]
    BY <2>1, Turned
  <2>5. ASSUME NEW i \in 1..(n + 1)
        PROVE  TurnsUpto(u, i - 1) \in DOMAIN tree /\ u[i] = TurnAt(vec, TurnsUpto(u, i - 1), i - 1)
    <3>1. i - 1 \in 0..Len(t)
      BY <2>1
    <3>2. TurnsUpto(u, i - 1) = TurnsUpto(t, i - 1)
      BY <2>4, <3>1, TurnOfAppend
    <3>3. CASE i = n + 1
      <4>1. i - 1 = n /\ n \in 0..Len(t)
        BY <2>1, <3>3
      <4>2. TurnsUpto(t, n) = t
        BY <2>1, <4>1, FirstTurns DEF TurnsUpto
      <4> QED
        BY <2>2, <2>3, <2>4, <3>2, <3>3, <4>1, <4>2
    <3>4. CASE i # n + 1
      <4>1. i \in 1..n /\ i \in DOMAIN t
        BY <2>1, <3>4
      <4>2. TurnsUpto(t, i - 1) \in DOMAIN tree /\ t[i] = TurnAt(vec, TurnsUpto(t, i - 1), i - 1)
        BY <2>1, <4>1 DEF Follows
      <4> QED
        BY <2>4, <3>2, <4>1, <4>2
    <3> QED
      BY <3>3, <3>4
  <2>6. Follows(vec, u)
    BY <2>4, <2>5 DEF Follows
  <2>7. Len(u) = n + 1
    BY <2>4
  <2>8. \E w \in Seq(Side) : Len(w) = n + 1 /\ Follows(vec, w)
    BY <2>6, <2>7
  <2>9. n + 1 \in Nat
    OBVIOUS
  <2> QED
    BY <2>8, <2>9
<1>5. PICK N \in Nat : N = Len(table)
  BY <1>1 DEF KTypeOK
<1>6. N \in G
  <2> HIDE DEF G
  <2> QED BY <1>3, <1>4, NatSets
<1>7. PICK t \in Seq(Side) : Len(t) = N /\ Follows(vec, t)
  BY <1>6
<1>8. Len(t) < Len(table)
  BY <1>2, <1>7, Shallow
<1> QED
  BY <1>5, <1>7, <1>8

LEMMA InvMeans ==
  ASSUME table \in Seq(Vector), Len(table) <= MaxRows, TreeOf(table, tree)
  PROVE  IndexInv
BY DEF IndexInv, KTypeOK, Ordered, OneNodePerRow, TreeOf

LEMMA InvInit == KInit => IndexInv
<1> SUFFICES ASSUME KInit PROVE IndexInv
  OBVIOUS
<1>1. table = <<>> /\ tree = <<>> /\ DOMAIN tree = {} /\ DOMAIN table = {}
  BY DEF KInit
<1>2. table \in Seq(Vector) /\ Len(table) <= MaxRows
  <2>1. Len(<<>>) = 0 /\ <<>> \in Seq(Vector)
    OBVIOUS
  <2> QED
    BY <1>1, <2>1, IndexConstantsAssumption
<1>3. TreeOf(table, tree)
  BY <1>1 DEF TreeOf
<1> QED
  BY <1>2, <1>3, InvMeans

LEMMA InvStep == IndexInv /\ [KNext]_kvars => IndexInv'
<1> SUFFICES ASSUME IndexInv, [KNext]_kvars PROVE IndexInv'
  OBVIOUS
<1>1. table \in Seq(Vector) /\ Len(table) \in Nat /\ Len(table) <= MaxRows /\ MaxRows \in Nat
  BY IndexConstantsAssumption DEF IndexInv, KTypeOK
<1>2. SUFFICES table' \in Seq(Vector) /\ Len(table') <= MaxRows /\ TreeOf(table', tree')
  BY <1>2 DEF IndexInv, KTypeOK, Ordered, OneNodePerRow, TreeOf
<1>3. ASSUME NEW vec \in Vector, Store(vec)
      PROVE  table' \in Seq(Vector) /\ Len(table') <= MaxRows /\ TreeOf(table', tree')
  <2>1. Len(table) < MaxRows /\ table' = Append(table, vec)
    BY <1>3 DEF Store
  <2>2. table' \in Seq(Vector) /\ Len(table') = Len(table) + 1
    BY <1>1, <2>1, AppendProperties
  <2>3. PICK turns \in {<<>>} \cup {Append(t, s) : t \in DOMAIN tree, s \in Side} :
          /\ LeadsTo(vec, turns)
          /\ tree' = Grown(turns)
    BY <1>3 DEF Store, InsertKdNode, Grown
  <2>4. TreeOf(table', tree')
    BY <2>1, <2>3, InsertKeeps
  <2> QED
    BY <1>1, <2>1, <2>2, <2>4
<1>4. ASSUME NEW i \in DOMAIN table, Delete(i)
      PROVE  table' \in Seq(Vector) /\ Len(table') <= MaxRows /\ TreeOf(table', tree')
  <2>1. table' = SubSeq(table, 1, i - 1) \o SubSeq(table, i + 1, Len(table)) /\ tree' = BuildKdTree(table')
    BY <1>4 DEF Delete, RemoveAt
  <2>2. PICK n \in Nat : n = Len(table) /\ i \in 1..n
    BY <1>1
  <2>3. SubSeq(table, 1, i - 1) \in Seq(Vector) /\ Len(SubSeq(table, 1, i - 1)) = i - 1
    <3>1. Bounds(table, 1, i - 1) /\ (i - 1) - 1 + 1 = i - 1
      BY <2>2 DEF Bounds
    <3>2. IsSlice(SubSeq(table, 1, i - 1), Vector, table, 1, i - 1)
      BY <1>1, <3>1, Slice
    <3> QED
      BY <3>1, <3>2 DEF IsSlice
  <2>4. SubSeq(table, i + 1, n) \in Seq(Vector) /\ Len(SubSeq(table, i + 1, n)) = n - i
    <3>1. Bounds(table, i + 1, n) /\ n - (i + 1) + 1 = n - i
      BY <2>2 DEF Bounds
    <3>2. IsSlice(SubSeq(table, i + 1, n), Vector, table, i + 1, n)
      BY <1>1, <3>1, Slice
    <3> QED
      BY <3>1, <3>2 DEF IsSlice
  <2>5. table' \in Seq(Vector) /\ Len(table') = (i - 1) + (n - i)
    BY <2>1, <2>2, <2>3, <2>4, ConcatProperties
  <2>6. (i - 1) + (n - i) <= MaxRows
    BY <1>1, <2>2
  <2>7. TreeOf(table', tree')
    <3>1. PICK vecs \in Seq(Vector) : vecs = table'
      BY <2>5
    <3> QED
      BY <2>1, <3>1, BuildIs
  <2> QED
    BY <2>5, <2>6, <2>7
<1>5. ASSUME Reopen PROVE table' \in Seq(Vector) /\ Len(table') <= MaxRows /\ TreeOf(table', tree')
  <2>1. table' = table /\ tree' = BuildKdTree(table)
    BY <1>5 DEF Reopen
  <2>2. TreeOf(table, BuildKdTree(table))
    BY <1>1, BuildIs
  <2> QED
    BY <1>1, <2>1, <2>2
<1>6. ASSUME UNCHANGED kvars PROVE table' \in Seq(Vector) /\ Len(table') <= MaxRows /\ TreeOf(table', tree')
  <2>1. TreeOf(table, tree)
    BY DEF IndexInv, KTypeOK, Ordered, OneNodePerRow, TreeOf
  <2> QED
    BY <1>1, <1>6, <2>1 DEF kvars
<1> QED
  BY <1>3, <1>4, <1>5, <1>6 DEF KNext

\* The rows are vectors and the tree's nodes are turns with rows of the table at
\* them, whatever is stored, deleted and rebuilt (vectorStore.ts insert,
\* deleteById, rebuildIndex).
THEOREM IndexTypes == KSpec => []KTypeOK
<1>1. KSpec => []IndexInv
  BY InvInit, InvStep, PTL DEF KSpec
<1>2. IndexInv => KTypeOK
  BY DEF IndexInv
<1> QED
  BY <1>1, <1>2, PTL

\* The tree is an index of the rows: every row has one node, every node is reached
\* through nodes, and is on the side of each that it was turned to.
THEOREM TreeIndexesRows == KSpec => [](Ordered /\ OneNodePerRow)
<1>1. KSpec => []IndexInv
  BY InvInit, InvStep, PTL DEF KSpec
<1>2. IndexInv => Ordered /\ OneNodePerRow
  BY DEF IndexInv
<1> QED
  BY <1>1, <1>2, PTL

\* The loop of insertKdNode ends: whatever the tree, every vector comes to a free
\* place in it.
THEOREM InsertFindsPlace == KSpec => [](\A vec \in Vector : FreePlace(vec))
<1>1. KSpec => []IndexInv
  BY InvInit, InvStep, PTL DEF KSpec
<1>2. IndexInv => \A vec \in Vector : FreePlace(vec)
  BY WayEnds
<1> QED
  BY <1>1, <1>2, PTL

\* A query of the tree finds hits as good as the scan of every row does, for any
\* number of rows and dimensions, any vectors of one length and any k: the half
\* spaces searchKdTree leaves out hold nothing better, whatever was stored, deleted
\* and rebuilt before.
THEOREM TreeSearchIsExact == KSpec => []IndexIsExact
<1>1. KSpec => []IndexInv
  BY InvInit, InvStep, PTL DEF KSpec
<1> QED
  BY <1>1, TreeAnswers, PTL
=============================================================================
