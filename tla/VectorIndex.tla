------------------------------ MODULE VectorIndex -----------------------------
(***************************************************************************)
(* The KD-tree over the embeddings of a vector store, and the linear scan  *)
(* it replaces.  The embedding provider normalises its vectors and counts  *)
(* in them, so a vector is a point with non-negative coordinates at one    *)
(* fixed distance from the origin; the points of the model are scaled to   *)
(* integers, and with them the cosine (times Norm^2) and the squared       *)
(* distances (times Norm^2).  Rounding is not modelled, nor are the ids,   *)
(* which are fresh for every row: a row is its place in the table.  A node *)
(* of the tree is found by the turns that lead to it from the root, and    *)
(* holds a row.                                                            *)
(***************************************************************************)
EXTENDS Integers, FiniteSets, Sequences, SequencesExt

CONSTANTS
  Vector,    \* embeddings, and queries: sequences of one length
  Norm,      \* their length
  MaxRows,   \* bound: rows of the table
  TopK       \* how many hits a query asks for at most

Dot(a, b) ==
  LET sum[n \in 0..Len(a)] == IF n = 0 THEN 0 ELSE sum[n - 1] + a[n] * b[n]
  IN  sum[Len(a)]

ASSUME VectorAssumption ==
  /\ \A v \in Vector : v \in Seq(Int) /\ Len(v) > 0
  /\ \A v, w \in Vector : Len(v) = Len(w) /\ Dot(v, v) = Norm * Norm

ASSUME IndexConstantsAssumption == Norm \in Int /\ MaxRows \in Nat /\ TopK \in Nat

VARIABLES
  table,  \* the rows of embeddings in the order they were inserted
  tree    \* kdRoot: tree[turns] is the row at the node the turns lead to

kvars == <<table, tree>>

Side == {"left", "right"}

KTypeOK ==
  /\ table \in Seq(Vector) /\ Len(table) <= MaxRows
  /\ DOMAIN tree \subseteq Seq(Side)
  /\ tree \in [DOMAIN tree -> DOMAIN table]

KInit == table = <<>> /\ tree = <<>>

-----------------------------------------------------------------------------
(* Building and growing the tree.                                          *)

\* The coordinate of a vector a node at this depth splits by.
SplitVal(vec, depth) == vec[(depth % Len(vec)) + 1]

\* The record at j goes no further back than the one at i; sort() is stable.
NotBehind(vecs, rows, depth, j, i) ==
  LET val(n) == SplitVal(vecs[rows[n]], depth)
  IN  \/ val(j) < val(i)
      \/ val(j) = val(i) /\ j <= i

\* The records in the order of the coordinate of this depth.
Sorted(vecs, rows, depth) ==
  LET rank(i) == Cardinality({j \in DOMAIN rows : NotBehind(vecs, rows, depth, j, i)})
  IN  [r \in DOMAIN rows |-> rows[CHOOSE i \in DOMAIN rows : rank(i) = r]]

Median(rows) == Len(rows) \div 2 + 1

Half(rows, side) ==
  IF side = "left" THEN SubSeq(rows, 1, Median(rows) - 1)
                   ELSE SubSeq(rows, Median(rows) + 1, Len(rows))

\* The records of the call of buildKdTree that these turns lead to, sorted.
Part(vecs, turns) ==
  LET part[n \in 0..Len(turns)] ==
        Sorted(vecs, IF n = 0 THEN [i \in DOMAIN vecs |-> i]
                              ELSE Half(part[n - 1], turns[n]), n)
  IN  part[Len(turns)]

\* The median of every part that has records becomes a node.
BuildKdTree(vecs) ==
  [turns \in {t \in BoundedSeq(Side, Len(vecs)) : Part(vecs, t) # <<>>} |->
     LET part == Part(vecs, turns) IN part[Median(part)]]

\* The free place to which a vector's turns at the nodes above it lead.
LeadsTo(vec, turns) ==
  /\ turns \notin DOMAIN tree
  /\ \A n \in DOMAIN turns :
       LET above == SubSeq(turns, 1, n - 1)
       IN  /\ above \in DOMAIN tree
           /\ turns[n] = IF SplitVal(vec, n - 1) < SplitVal(table[tree[above]], n - 1)
                           THEN "left" ELSE "right"

\* The row appended for the vector gets the node there.
InsertKdNode(vec) ==
  \E turns \in {<<>>} \cup {Append(t, s) : t \in DOMAIN tree, s \in Side} :
    /\ LeadsTo(vec, turns)
    /\ tree' = [t \in DOMAIN tree \cup {turns} |->
                  IF t = turns THEN Len(table) + 1 ELSE tree[t]]

-----------------------------------------------------------------------------
(* Queries.                                                                *)

\* Hits are their scores, best first; an equal one goes behind those it equals,
\* and beyond the k-th place nothing is kept.
AddQueryResult(hits, hit, k) ==
  LET at == Cardinality({j \in DOMAIN hits : hits[j] >= hit}) + 1
  IN  [j \in 1..(IF Len(hits) < k THEN Len(hits) + 1 ELSE k) |->
         IF j < at THEN hits[j] ELSE IF j = at THEN hit ELSE hits[j - 1]]

\* Compared with the best hit instead of the worst.
TooFarForTheBest(gap, hits, k) ==
  Len(hits) = k /\ gap * gap >= 2 * (Norm * Norm - hits[1])

\* The half space behind the split is too far when the plane is no nearer
\* than the worst hit; unit vectors a and b are sqrt(2(1 - a.b)) apart.
TooFar(gap, hits, k) ==
  Len(hits) = k /\ gap * gap >= 2 * (Norm * Norm - hits[k])

\* One call of searchKdTree; search stands for the calls it makes: the half with
\* the query first, then the other one unless it is too far.
Visit(search, query, k, turns, hits) ==
  IF turns \notin DOMAIN tree THEN hits ELSE
  LET vec  == table[tree[turns]]
      gap  == SplitVal(query, Len(turns)) - SplitVal(vec, Len(turns))
      next == IF gap < 0 THEN "left" ELSE "right"
      other == IF gap < 0 THEN "right" ELSE "left"
      near == search[<<Append(turns, next), AddQueryResult(hits, Dot(query, vec), k)>>]
  IN  IF TooFar(gap, near, k) THEN near ELSE search[<<Append(turns, other), near>>]

SearchKdTree(query, k) ==
  LET search[call \in Seq(Side) \X Seq(Int)] ==
        Visit(search, query, k, call[1], call[2])
  IN  search[<< <<>>, <<>> >>]

QueryScores(query, k) == SearchKdTree(query, k)

\* The j-th best score: fewer than j rows have a better one, j have one as good.
LinearScanScores(query, k) ==
  LET Score(i) == Dot(query, table[i])
  IN  [j \in 1..(IF Len(table) < k THEN Len(table) ELSE k) |->
         CHOOSE x \in {Score(i) : i \in DOMAIN table} :
           /\ Cardinality({i \in DOMAIN table : Score(i) > x}) < j
           /\ Cardinality({i \in DOMAIN table : Score(i) >= x}) >= j]

-----------------------------------------------------------------------------
Store(vec) ==
  /\ Len(table) < MaxRows
  /\ table' = Append(table, vec)
  /\ InsertKdNode(vec)

\* A deletion rebuilds the tree, and so does opening the file.
Delete(i) ==
  /\ table' = RemoveAt(table, i)
  /\ tree' = BuildKdTree(table')

Reopen ==
  /\ tree' = BuildKdTree(table)
  /\ UNCHANGED table

KNext == \/ \E vec \in Vector : Store(vec)
         \/ \E i \in DOMAIN table : Delete(i)
         \/ Reopen

KSpec == KInit /\ [][KNext]_kvars

-----------------------------------------------------------------------------
\* Whatever was stored, deleted and rebuilt in whatever order, a query of
\* the tree finds hits as good as the scan of every row does: pruning loses
\* nothing.
IndexIsExact ==
  \A query \in Vector, k \in 1..TopK :
    QueryScores(query, k) = LinearScanScores(query, k)
=============================================================================
