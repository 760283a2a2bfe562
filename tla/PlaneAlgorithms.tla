--------------------------- MODULE PlaneAlgorithms ----------------------------
(***************************************************************************)
(* Algorithms on points in the plane: the convex hull of                   *)
(* benchmarks/convexHull/quickHull/hull.C, and how many points are in a    *)
(* rectangle, by benchmarks/rangeQuery2d/parallelPlaneSweep.               *)
(***************************************************************************)
EXTENDS Primitives

CONSTANT sweep_blocks       \* as many blocks as workers

-----------------------------------------------------------------------------
(* The hull.  Points is a sequence of <<x, y>>; a point is known by its    *)
(* index from 0.                                                           *)
triArea(a, b, c) == (b[1] - a[1]) * (c[2] - a[2]) - (b[2] - a[2]) * (c[1] - a[1])

pairMax == [op |-> "pairMax"]

Above(areas) == [i \in DOMAIN areas |-> areas[i] > 0]

(* The points of Idxs lie above the line l--r and mid is the farthest of   *)
(* them from it.                                                           *)
RECURSIVE quickHull(_, _, _, _, _)
quickHull(Points, Idxs, l, mid, r) ==
    LET P(i)   == Points[i + 1]
        lefta  == [i \in DOMAIN Idxs |-> triArea(P(l), P(mid), P(Idxs[i]))]
        righta == [i \in DOMAIN Idxs |-> triArea(P(mid), P(r), P(Idxs[i]))]
        prs    == reduce([i \in DOMAIN Idxs |-> <<<<lefta[i], Idxs[i]>>, <<righta[i], Idxs[i]>>>>], pairMax)
    IN  IF Len(Idxs) <= 1 THEN Idxs
        ELSE quickHull(Points, pack(Idxs, Above(lefta)), l, prs[1][2], mid) \o <<mid>>
               \o quickHull(Points, pack(Idxs, Above(righta)), mid, prs[2][2], r)


(* The order of x, then y, as keys.                                        *)
pntless(p) == <<p[1] * WORD + p[2]>>

hull(Points) ==
    LET minmax == minmax_element([i \in DOMAIN Points |-> pntless(Points[i])])
        lo == minmax[1]
        hi == minmax[2]
        a  == [i \in DOMAIN Points |-> triArea(Points[lo + 1], Points[hi + 1], Points[i])]
        negative == [i \in DOMAIN a |-> -a[i]]
        lower_upper == reduce([i \in DOMAIN a |-> <<<<negative[i], i - 1>>, <<a[i], i - 1>>>>], pairMax)
    IN  <<lo>> \o quickHull(Points, pack_index(Above(a)), lo, lower_upper[2][2], hi)
          \o <<hi>> \o quickHull(Points, pack_index(Above(negative)), hi, lower_upper[1][2], lo)

-----------------------------------------------------------------------------
(* For distinct points, two at least: the hull goes round them clockwise,  *)
(* with all points on its right, has each of its points once and none of   *)
(* the corners missing.  (Where several points lie on one side of it, some *)
(* of those that are not corners may be in it.)                            *)
HullRight(Points) ==
    LET H == hull(Points)
        P(i) == Points[i + 1]
        Next_(k) == H[(k % Len(H)) + 1]
        Corner(i) == ~ \E a, b \in (0..(Len(Points) - 1)) \ {i} :
                          /\ a # b /\ triArea(P(a), P(b), P(i)) = 0
                          /\ (P(a)[1] - P(i)[1]) * (P(b)[1] - P(i)[1]) + (P(a)[2] - P(i)[2]) * (P(b)[2] - P(i)[2]) < 0
        Outer(i) == \E a \in (0..(Len(Points) - 1)) \ {i} : \A c \in 0..(Len(Points) - 1) : triArea(P(i), P(a), P(c)) <= 0
    IN  /\ Len(H) = Cardinality(ToSet(H))
        /\ \A k \in DOMAIN H, i \in 0..(Len(Points) - 1) : triArea(P(H[k]), P(Next_(k)), P(i)) <= 0
        /\ \A i \in 0..(Len(Points) - 1) : Outer(i) /\ Corner(i) => i \in ToSet(H)

-----------------------------------------------------------------------------
(* The range queries, by the sets of the points up to each place of a      *)
(* sweep.  The persistent sets of PAM, which is not in the repository, are *)
(* sets.                                                                   *)

(* The set at the start of block i, of those from 0 on.                    *)
BlockStart(A, i, s, Sums) == UNION {Sums[j] : j \in 1..i}

(* sweep.h: R[i + 1] is the set of the first i elements.  Two threads      *)
(* never write the same cell.                                              *)
sweep(A) ==
    LET n  == Len(A)
        s  == (n - 1) \div sweep_blocks
        Sums == [i \in 1..(sweep_blocks - 1) |-> ToSet(cut(A, (i - 1) * s, i * s))]
        End_(i) == IF i = sweep_blocks - 1 THEN n + 1 ELSE (i + 1) * s
    IN  Cells(n + 1, {<<i * s + 1, -1, BlockStart(A, i, s, Sums)>> : i \in 0..(sweep_blocks - 1)} \cup
               UNION {{<<j + 1, i, BlockStart(A, i, s, Sums) \cup ToSet(cut(A, i * s, j))>> :
                         j \in (i * s + 1)..(End_(i) - 1)} : i \in 0..(sweep_blocks - 1)})

(* The points that the sweep goes over are those of points, in their order *)
(* there, xs are the coordinates of A, which is sorted.                    *)
RangeQuery(points) ==
    LET A == sample_sort(points, FALSE, FALSE, FALSE) IN [xs |-> KeysIn(A), ts |-> sweep(points)]

lower_bound(xs, x) == Cardinality({i \in DOMAIN xs : xs[i] < x})

(* How many of the set are below y, or at y.                               *)
rank_below(m, y) == Cardinality({p \in m : p[2] < y})
rank_upto(m, y)  == Cardinality({p \in m : p[2] <= y})

count_in_range(r, q) ==
    LET Up(x) == LET m == r.ts[lower_bound(r.xs, x) + 1] IN rank_upto(m, q.y2) - rank_below(m, q.y1)
    IN  Up(q.x2) - Up(q.x1)

range(r, queries) == reduce([i \in DOMAIN queries |-> count_in_range(r, queries[i])], plus)

-----------------------------------------------------------------------------
(* The check that is compiled in with CHECK, lines 85-92.                  *)
naive(points, q) ==
    Cardinality({i \in DOMAIN points : /\ points[i][1] > q.x1 /\ points[i][1] < q.x2
                                       /\ points[i][2] > q.y1 /\ points[i][2] < q.y2})

(* For queries with no point on their border: each of them, and all.      *)
RangesCounted(points, queries) ==
    \A r \in {RangeQuery(points)} :
        /\ \A i \in DOMAIN queries : count_in_range(r, queries[i]) = naive(points, queries[i])
        /\ range(r, queries) = FoldLeft(LAMBDA sum, q : sum + naive(points, q), 0, queries)
=============================================================================
