-------------------------------- MODULE OctTree -------------------------------
(***************************************************************************)
(* benchmarks/nearestNeighbors/octTree: points in the plane are sorted by  *)
(* the interleaved bits of their coordinates, the sorted sequence is cut   *)
(* in two at each bit that divides it, and the k nearest neighbours of a   *)
(* point are found from the root or from a leaf.  Batches of points can be *)
(* inserted into the tree and deleted from it.                             *)
(*                                                                         *)
(* A vertex is <<id, <<x, y>>>>, an indexed point <<bits, vertex>>.  A     *)
(* node is a record with its subtrees in L and R; of its parent it has to  *)
(* know whether the pointer to it was set.  Distances are squared and the  *)
(* double of a centre stands for it, so that all numbers are integers.     *)
(***************************************************************************)
EXTENDS SequenceOps

CONSTANTS
    Vertices,       \* a set of vertices
    coordinate_bits, \* key_bits / dim
    node_cutoff,    \* a leaf has fewer points: 32
    queue_cutoff,   \* from this k on a priority queue is used: 50
    copy_size,      \* of subtrees that are searched in parallel: more than 10000
    MaxBatches      \* that are applied to a tree (a bound of the model)

VARIABLES
    tree,           \* the root, or NoNode
    tree_box,       \* the box of the structure, as batches are given it
    contents,       \* the vertices that should be in the tree (for the properties)
    batches         \* how many batches were applied

dims == 1..2
top_bit == 2 * coordinate_bits
Infinite == 4^(coordinate_bits + 2)

NoNode   == [size |-> 0]
NoVertex == <<0, << >>>>

-----------------------------------------------------------------------------
(* Boxes and keys.                                                         *)

LowestOf(S)  == CHOOSE x \in S : \A y \in S : x <= y
HighestOf(S) == CHOOSE x \in S : \A y \in S : x >= y

get_box(V) == <<[i \in dims |-> LowestOf({v[2][i] : v \in V})], [i \in dims |-> HighestOf({v[2][i] : v \in V})]>>

box_of(a, b) == <<[i \in dims |-> LowestOf({a[1][i], b[1][i]})], [i \in dims |-> HighestOf({a[2][i], b[2][i]})]>>

Delta(box) == HighestOf({box[2][i] - box[1][i] : i \in dims})

(* Bit j of coordinate i goes to place 2 * j + i, from 0.                  *)
interleave_bits(p, box) ==
    LET ip == [i \in dims |-> ((2^coordinate_bits - 1) * (p[i] - box[1][i])) \div Delta(box)]
        bit(j, i) == (ip[i] \div 2^j) % 2
    IN  FoldFunctionOnSet(+, 0, [ji \in (0..(coordinate_bits - 1)) \X dims |->
                                    bit(ji[1], ji[2]) * 2^(2 * ji[1] + ji[2] - 1)],
                          (0..(coordinate_bits - 1)) \X dims)

(* tag_points, as parlay::sort is known to sort (SortsAndGroups).          *)
tag_points(V, box) ==
    SetToSortSeq({<<interleave_bits(v[2], box), v>> : v \in V},
                 LAMBDA a, b : a[1] < b[1] \/ (a[1] = b[1] /\ a[2][1] < b[2][1]))

Verts(pts) == {pts[i][2] : i \in DOMAIN pts}

(* Where the points divide that have the bit from those that do not: a     *)
(* binary search, which takes them to be in order.                         *)
cut_point(pts, bit) ==
    LET has(i) == pts[i][1] % 2^bit >= 2^(bit - 1)
        from[s \in 0..Len(pts), e \in 0..Len(pts)] ==
            IF s >= e THEN s
            ELSE LET mid == (s + e) \div 2 IN IF has(mid + 1) THEN from[s, mid] ELSE from[mid + 1, e]
    IN  from[0, Len(pts)]

-----------------------------------------------------------------------------
(* Nodes.                                                                  *)

is_leaf(T) == T.L = NoNode /\ T.R = NoNode

new_leaf(pts, bit) ==
    [L |-> NoNode, R |-> NoNode, linked |-> FALSE, flag |-> FALSE, bit |-> bit,
     size |-> Len(pts), pts |-> pts, box |-> get_box(Verts(pts))]

new_node(L, R, bit) ==
    [L |-> [L EXCEPT !.linked = TRUE], R |-> [R EXCEPT !.linked = TRUE], linked |-> FALSE, flag |-> FALSE,
     bit |-> bit, size |-> L.size + R.size, pts |-> << >>, box |-> box_of(L.box, R.box)]

RECURSIVE build_recursive(_, _)
build_recursive(pts, bit) ==
    IF bit = 0 \/ Len(pts) < node_cutoff THEN new_leaf(pts, bit)
    ELSE LET pos == cut_point(pts, bit) IN
         IF pos \in {0, Len(pts)} THEN build_recursive(pts, bit - 1)
         ELSE new_node(build_recursive(cut(pts, 0, pos), bit - 1),
                       build_recursive(cut(pts, pos, Len(pts)), bit - 1), bit)

build(V) == build_recursive(tag_points(V, get_box(V)), top_bit)

RECURSIVE flatten_rec(_)
flatten_rec(T) == IF is_leaf(T) THEN [i \in DOMAIN T.pts |-> T.pts[i][2]] ELSE flatten_rec(T.L) \o flatten_rec(T.R)

(* map calls its function on each vertex and the leaf it is in, which is   *)
(* given by the way that leads to it.                                      *)
RECURSIVE map(_, _)
map(T, way) ==
    IF is_leaf(T) THEN {<<v, way>> : v \in Verts(T.pts)}
    ELSE map(T.L, Append(way, "L")) \cup map(T.R, Append(way, "R"))

-----------------------------------------------------------------------------
(* The k nearest, farthest first.                                          *)

sqDistance(p, q) == (p[1] - q[1])^2 + (p[2] - q[2])^2

kNN(p, k) ==
    [vertex |-> p, k |-> k, max_distance |-> Infinite, queue |-> {},
     neighbors |-> [i \in 1..k |-> IF k < queue_cutoff THEN NoVertex ELSE Torn],
     distances |-> [i \in 1..k |-> IF k < queue_cutoff THEN Infinite ELSE Torn]]

(* It takes the place of the first and is swapped past all that are        *)
(* farther.                                                                *)
update_nearest(nn, other) ==
    LET dist == sqDistance(nn.vertex[2], other[2])
        m    == Cardinality({i \in 2..nn.k : \A j \in 2..i : dist < nn.distances[j]})
        Moved(s, x) == SubSeq(s, 2, m + 1) \o <<x>> \o SubSeq(s, m + 2, nn.k)
        distances == Moved(nn.distances, dist)
    IN  IF dist >= nn.max_distance THEN nn
        ELSE [nn EXCEPT !.neighbors = Moved(nn.neighbors, other), !.distances = distances,
                        !.max_distance = distances[1]]

topdist(queue) == HighestOf({e[2] : e \in queue})

update_nearest_queue(nn, other) ==
    LET dist == sqDistance(nn.vertex[2], other[2])
        full == Cardinality(nn.queue) >= nn.k
        top  == CHOOSE e \in nn.queue : e[2] = topdist(nn.queue)
        queue == (IF full THEN nn.queue \ {top} ELSE nn.queue) \cup {<<other, dist>>}
    IN  IF full /\ topdist(nn.queue) <= dist THEN nn
        ELSE [nn EXCEPT !.queue = queue, !.max_distance = topdist(queue)]

SearchLeaf(nn, pts) ==
    FoldLeft(LAMBDA n, x : IF x[2] = n.vertex THEN n
                           ELSE IF n.k < queue_cutoff THEN update_nearest(n, x[2])
                           ELSE update_nearest_queue(n, x[2]), nn, pts)

(* Does the box come within the distance of the vertex; is the ball around *)
(* the vertex inside of the box?                                           *)
within_epsilon_box(nn, T) ==
    LET Near(x) == x < 0 \/ x * x < nn.max_distance
        p == nn.vertex[2]
    IN  \A i \in dims : Near(T.box[1][i] - p[i]) /\ Near(p[i] - T.box[2][i])

ball_in_box(nn, T) ==
    LET Beyond(x) == x > 0 /\ x * x > nn.max_distance
        p == nn.vertex[2]
    IN  \A i \in dims : Beyond(p[i] - T.box[1][i]) /\ Beyond(T.box[2][i] - p[i])

distance(nn, T) ==
    LET p == nn.vertex[2] IN
    (T.box[1][1] + T.box[2][1] - 2 * p[1])^2 + (T.box[1][2] + T.box[2][2] - 2 * p[2])^2

(* The nearest of both, from the last on; a neighbour may be in both.  The *)
(* rest of nn stays as it is.                                              *)
MergeNearest(nn, l, r) ==
    LET take[n \in 0..nn.k, i \in 0..nn.k, j \in 0..nn.k] ==
            IF n = 0 THEN << >>
            ELSE IF l.distances[i] < r.distances[j]
            THEN Append(take[n - 1, i - 1, j], <<l.neighbors[i], l.distances[i]>>)
            ELSE Append(take[n - 1, IF l.neighbors[i] = r.neighbors[j] THEN i - 1 ELSE i, j - 1],
                        <<r.neighbors[j], r.distances[j]>>)
        all == take[nn.k, nn.k, nn.k]
    IN  [nn EXCEPT !.neighbors = [i \in 1..nn.k |-> all[i][1]], !.distances = [i \in 1..nn.k |-> all[i][2]]]

RECURSIVE k_nearest_rec(_, _, _)
k_nearest_rec(nn, T, version) ==
    IF ~within_epsilon_box(nn, T) THEN nn
    ELSE IF is_leaf(T) THEN SearchLeaf(nn, T.pts)
    ELSE IF T.size > copy_size /\ version # 0 /\ nn.k < queue_cutoff
    THEN MergeNearest(nn, k_nearest_rec(nn, T.L, version), k_nearest_rec(nn, T.R, version))
    ELSE IF distance(nn, T.L) < distance(nn, T.R)
    THEN k_nearest_rec(k_nearest_rec(nn, T.L, version), T.R, version)
    ELSE k_nearest_rec(k_nearest_rec(nn, T.R, version), T.L, version)

RECURSIVE NodeAt(_, _)
NodeAt(T, way) ==
    IF way = << >> THEN T ELSE NodeAt(IF way[1] = "L" THEN T.L ELSE T.R, Tail(way))

(* Up from a leaf, through the other subtrees, until the ball is in a box  *)
(* or there is no parent.                                                  *)
RECURSIVE Climb(_, _, _, _)
Climb(nn, T, way, version) ==
    LET current == NodeAt(T, way)
        up      == Front(way)
        other   == Append(up, IF Last(way) = "R" THEN "L" ELSE "R")
    IN  IF ball_in_box(nn, current) \/ ~current.linked THEN nn
        ELSE Climb(k_nearest_rec(nn, NodeAt(T, other), version), T, up, version)

k_nearest_fromLeaf(nn, T, way, version) == Climb(SearchLeaf(nn, NodeAt(T, way).pts), T, way, version)

(* Is the bit 0?  (Or 1, with all below it 0.)                             *)
lookup_bit(key, pos) == IF key % 2^pos <= 2^(pos - 1) THEN 1 ELSE 0

RECURSIVE find_leaf(_, _)
find_leaf(key, T) ==
    IF is_leaf(T) THEN << >>
    ELSE IF lookup_bit(key, T.bit) = 0 THEN <<"R">> \o find_leaf(key, T.R) ELSE <<"L">> \o find_leaf(key, T.L)

Nearest(nn) == [i \in 1..nn.k |-> nn.neighbors[nn.k - i + 1]]

(* ANN on a tree: what each of its vertices gets, by the three versions.   *)
ANN(T, box, k, version) ==
    {<<m[1], Nearest(CASE version = 0 -> k_nearest_rec(kNN(m[1], k), T, version)
                       [] version = 1 -> k_nearest_fromLeaf(kNN(m[1], k), T,
                                            find_leaf(interleave_bits(m[1][2], box), T), version)
                       [] version = 2 -> k_nearest_fromLeaf(kNN(m[1], k), T, m[2], version))>> : m \in map(T, << >>)}
-----------------------------------------------------------------------------
(* Batches.                                                                *)

batch_update(T, pts) ==
    [T EXCEPT !.pts = T.pts \o pts, !.size = T.size + Len(pts), !.box = get_box(Verts(T.pts \o pts))]

ByKey(S) == SetToSortSeq(S, LAMBDA a, b : a[1] < b[1] \/ (a[1] = b[1] /\ a[2][1] < b[2][1]))

batch_split(T, pts) == [build_recursive(ByKey(ToSet(T.pts \o pts)), T.bit) EXCEPT !.linked = TRUE]

RECURSIVE get_point(_)
get_point(T) == IF is_leaf(T) THEN T.pts[1] ELSE get_point(T.L)

(* The node between T and its old subtrees is not told its parent.         *)
create_new(T, pts, left) ==
    LET new     == [build_recursive(pts, T.bit - 1) EXCEPT !.linked = TRUE]
        between == new_node(T.L, T.R, T.bit - 1)
    IN  IF pts = << >> THEN T
        ELSE IF left THEN [T EXCEPT !.L = between, !.R = new]
        ELSE [T EXCEPT !.R = between, !.L = new]

(* Only the right subtree is asked whether bits were skipped below T.      *)
RECURSIVE batch_insert0(_, _)
batch_insert0(pts, T) ==
    LET pos   == cut_point(pts, T.bit)
        low   == cut(pts, 0, pos)
        high  == cut(pts, pos, Len(pts))
        Grown == [T EXCEPT !.flag = TRUE, !.size = T.size + Len(pts)]
    IN  IF pts = << >> THEN T
        ELSE IF is_leaf(T)
        THEN IF T.size + Len(pts) < node_cutoff \/ T.bit = 0
             THEN batch_update([T EXCEPT !.flag = TRUE], pts)
             ELSE batch_split(T, pts)
        ELSE IF T.R.bit = T.bit - 1
        THEN [Grown EXCEPT !.L = batch_insert0(low, T.L), !.R = batch_insert0(high, T.R)]
        ELSE IF lookup_bit(get_point(T)[1], T.bit - 1) = 0
        THEN LET made == create_new(Grown, low, TRUE) IN [made EXCEPT !.L = batch_insert0(high, made.L)]
        ELSE LET made == create_new(Grown, high, FALSE) IN [made EXCEPT !.R = batch_insert0(low, made.R)]

RECURSIVE update_boxes(_)
update_boxes(T) ==
    LET L == update_boxes(T.L)
        R == update_boxes(T.R)
    IN  IF ~T.flag \/ is_leaf(T) THEN T
        ELSE [T EXCEPT !.L = L, !.R = R, !.box = box_of(L.box, R.box), !.flag = FALSE]

batch_insert(V, T, box) == update_boxes(batch_insert0(tag_points(V, box), T))

batch_remove(T, pts) ==
    LET left == SelectSeq(T.pts, LAMBDA x : x \notin ToSet(pts)) IN
    [T EXCEPT !.flag = TRUE, !.pts = left, !.size = T.size - Len(pts), !.box = get_box(Verts(left))]

(* A subtree that loses all its points is pruned.                          *)
RECURSIVE batch_delete0(_, _)
batch_delete0(pts, T) ==
    LET pos == cut_point(pts, T.bit) IN
    IF pts = << >> THEN T
    ELSE IF Len(pts) = T.size THEN NoNode
    ELSE IF is_leaf(T) THEN batch_remove(T, pts)
    ELSE [T EXCEPT !.flag = TRUE, !.size = T.size - Len(pts),
                   !.L = batch_delete0(cut(pts, 0, pos), T.L),
                   !.R = batch_delete0(cut(pts, pos, Len(pts)), T.R)]

(* Nodes with one subtree are replaced by it.                              *)
RECURSIVE compress(_)
compress(T) ==
    IF is_leaf(T) \/ ~T.flag THEN T
    ELSE IF T.R = NoNode THEN compress([T.L EXCEPT !.linked = TRUE])
    ELSE IF T.L = NoNode THEN compress([T.R EXCEPT !.linked = TRUE])
    ELSE [T EXCEPT !.L = compress(T.L), !.R = compress(T.R)]

batch_delete(V, T, box) == update_boxes(compress(batch_delete0(tag_points(V, box), T)))

-----------------------------------------------------------------------------
KeysOf(T, box) == {interleave_bits(v[2], box) : v \in ToSet(flatten_rec(T))}

(* Every point is where its key leads, and every node knows its parent.    *)
RECURSIVE InOrder(_, _)
InOrder(T, box) ==
    ~is_leaf(T) => /\ T.L.linked /\ T.R.linked
                   /\ \A x \in KeysOf(T.L, box) : x % 2^T.bit < 2^(T.bit - 1)
                   /\ \A x \in KeysOf(T.R, box) : x % 2^T.bit >= 2^(T.bit - 1)
                   /\ Cardinality({x \div 2^T.bit : x \in KeysOf(T, box)}) = 1
                   /\ InOrder(T.L, box) /\ InOrder(T.R, box)

(* Batches are given to such trees only: others they may damage further.   *)
Sound(T) == T # NoNode /\ InOrder(T, tree_box)

Inside(V, box) == \A v \in V, i \in dims : box[1][i] <= v[2][i] /\ v[2][i] <= box[2][i]

TreeInit == tree = NoNode /\ tree_box = << >> /\ contents = {} /\ batches = 0

Build ==
    /\ tree = NoNode
    /\ \E V \in SUBSET Vertices :
         /\ Cardinality({v[2] : v \in V}) > 1
         /\ tree' = build(V)
         /\ tree_box' = get_box(V)
         /\ contents' = V
    /\ UNCHANGED batches

(* A root that is a leaf cannot be split.                                  *)
Insert ==
    /\ Sound(tree) /\ batches < MaxBatches
    /\ \E V \in SUBSET (Vertices \ contents) :
         /\ V # {} /\ Inside(V, tree_box)
         /\ is_leaf(tree) => tree.size + Cardinality(V) < node_cutoff \/ tree.bit = 0
         /\ tree' = batch_insert(V, tree, tree_box)
         /\ contents' = contents \cup V
    /\ batches' = batches + 1
    /\ UNCHANGED tree_box

(* Pruning aborts at the root and at its two subtrees.                     *)
Delete ==
    /\ Sound(tree) /\ batches < MaxBatches
    /\ \E V \in SUBSET contents :
         LET T == batch_delete0(tag_points(V, tree_box), tree) IN
         /\ V \notin {{}, contents}
         /\ ~is_leaf(tree) => T.L # NoNode /\ T.R # NoNode
         /\ tree' = batch_delete(V, tree, tree_box)
         /\ contents' = contents \ V
    /\ batches' = batches + 1
    /\ UNCHANGED tree_box

TreeNext == Build \/ Insert \/ Delete
-----------------------------------------------------------------------------
(* The boxes and sizes of nodes are those of the points below them.        *)
RECURSIVE Consistent(_)
Consistent(T) ==
    /\ T.size = Len(flatten_rec(T)) /\ T.size > 0
    /\ T.box = get_box(ToSet(flatten_rec(T)))
    /\ ~is_leaf(T) => Consistent(T.L) /\ Consistent(T.R)

(* Whatever batches were inserted and deleted: no vertex is lost or kept   *)
(* or in two leaves, and the nodes say what is below them.                 *)
TreeHolds(T) ==
    /\ Consistent(T)
    /\ ToSet(flatten_rec(T)) = contents /\ T.size = Cardinality(contents)

(* The k distances a brute force finds, nearest first.                     *)
KDistances(p, k) ==
    LET others == SetToSortSeq({<<sqDistance(p[2], v[2]), v[1]>> : v \in contents \ {p}}, LAMBDA a, b : a[1] < b[1])
    IN  [i \in 1..k |-> IF i <= Len(others) THEN others[i][1] ELSE Infinite]

(* Each vertex of the tree gets different others, and those a brute force  *)
(* would find but for ties.                                                *)
FindsNearest(T, box, k, version) ==
    \A r \in ANN(T, box, k, version) :
        LET found == r[2] IN
        /\ \A i \in 1..k : found[i] # NoVertex => found[i] \in contents \ {r[1]}
        /\ \A i, j \in 1..k : i # j /\ found[i] = found[j] => found[i] = NoVertex
        /\ [i \in 1..k |-> IF found[i] = NoVertex THEN Infinite ELSE sqDistance(r[1][2], found[i][2])]
             = KDistances(r[1], k)
=============================================================================
