------------------------------- MODULE Delaunay -------------------------------
(***************************************************************************)
(* delaunayTriangulation/incrementalDelaunay/delaunay.C on the mesh of     *)
(* common/topology.h.  In rounds, some of the points that are left find    *)
(* the triangle they lie in and reserve all vertices around their cavity,  *)
(* the triangles whose circle they are in; those that kept all of their    *)
(* reservations then insert themselves, each splitting its triangle and    *)
(* flipping the others of its cavity, in parallel and with no locks.       *)
(*                                                                         *)
(* A vertex is its place in Vertices, a triangle its place in Triangles.   *)
(* Coordinates are integers.  The maxima that the first loop of a round    *)
(* writes into reserve commute and nobody reads them before its end, so    *)
(* one iteration of it is one step.  In the second loop each look at a     *)
(* reservation, each split and each flip is a step.                        *)
(***************************************************************************)
EXTENDS Integers, Sequences, FiniteSets, SequencesExt

CONSTANTS
    n,              \* the number of points
    Layouts,        \* of records: pt and id of the vertices 0..n-1
    Corners,        \* where the boundary vertices are, counterclockwise
    round_share,    \* 50: of the points done, 1 / 50 are tried in a round
    block_share,    \* 100: but at most 1 / 100 of all
    first_rebuild,  \* 100: as many points are done when they are first used to locate others
    multiplier      \* 10: the next time with so many times as many

VARIABLES
    pt, id,         \* of the vertices
    tri,            \* [triangle -> its three neighbours and its three vertices]
    at,             \* [vertex -> a triangle it belongs to], v->t
    reserve,        \* [vertex -> an id or -1]
    located,        \* the points in the structure knn
    num_next_rebuild,
    done, remain,   \* vertices: inserted, and left over from the round before
    buffer, t, VQ, flags,   \* the arrays of the round's iterations
    pc, k           \* where these are, and at which place in VQ

mesh  == <<tri, at>>
outer == <<located, num_next_rebuild, done, remain, buffer>>
delaunayVars == <<pt, id, mesh, reserve, outer, t, VQ, flags, pc, k>>

NULL          == -1
boundary_size == Len(Corners)
AllVertices   == 0..(n + boundary_size - 1)
Triangles     == 0..(2 * n + boundary_size - 3)
max_block_size == n \div block_share + 1
Three(a, b, c) == [i \in 0..2 |-> IF i = 0 THEN a ELSE IF i = 1 THEN b ELSE c]
Lower(a, b)   == IF a <= b THEN a ELSE b

-----------------------------------------------------------------------------
(* Geometry.                                                               *)

cross(p, q) == p[1] * q[2] - p[2] * q[1]
Minus(p, q) == <<p[1] - q[1], p[2] - q[2]>>

counterClockwise(a, b, c) == cross(Minus(b, a), Minus(c, a)) > 0

inCircle(a, b, c, d) ==
    LET lift(p) == Minus(p, d)[1]^2 + Minus(p, d)[2]^2
        ad == Minus(a, d)
        bd == Minus(b, d)
        cd == Minus(c, d)
    IN  cross(ad, bd) * lift(c) + cross(bd, cd) * lift(a) + cross(cd, ad) * lift(b) > 0

-----------------------------------------------------------------------------
(* The mesh: a simplex is a triangle seen from one of its edges.           *)

mod3(i) == i % 3
Simplices     == [t : Triangles, o : 0..2, boundary : BOOLEAN]
simplex(x, o) == [t |-> x, o |-> o, boundary |-> FALSE]

locate(T, x, neighbour) == CHOOSE i \in 0..2 : T[x].ngh[i] = neighbour

update(T, x, old, new) ==
    IF x = NULL THEN T ELSE [T EXCEPT ![x].ngh[locate(T, x, old)] = new]

across(s) ==
    LET to == tri[s.t].ngh[s.o] IN
    IF to = NULL THEN [s EXCEPT !.boundary = TRUE] ELSE simplex(to, locate(tri, to, s.t))

rotClockwise(s) == simplex(s.t, mod3(s.o + 1))
firstVertex(s)  == tri[s.t].vtx[s.o]
Corner(s, i)    == pt[tri[s.t].vtx[mod3(s.o + i)]]

inCirc(s, v) ==
    ~s.boundary /\ LET V == tri[s.t].vtx IN inCircle(pt[V[0]], pt[V[1]], pt[V[2]], pt[v])

outside(s, v) == ~s.boundary /\ counterClockwise(Corner(s, 2), pt[v], Corner(s, 0))

LooseFlip(M, s) ==      \* mutant: the vertices that move keep their old triangle
    LET x  == M.tri[s.t].ngh[s.o]
        so == locate(M.tri, x, s.t)
        o1 == mod3(s.o + 1)
        os1 == mod3(so + 1)
        t1 == M.tri[s.t].ngh[o1]
        t2 == M.tri[x].ngh[os1]
        a  == [M.tri EXCEPT ![s.t].vtx[s.o] = M.tri[x].vtx[os1], ![s.t].ngh[s.o] = t2, ![s.t].ngh[o1] = x,
                            ![x].vtx[so] = M.tri[s.t].vtx[o1], ![x].ngh[so] = t1, ![x].ngh[os1] = s.t]
    IN  [tri |-> update(update(a, t2, x, s.t), t1, s.t, x), at |-> M.at]

(* Of the two triangles that share the edge.                               *)
flip(M, s) ==
    LET x  == M.tri[s.t].ngh[s.o]
        so == locate(M.tri, x, s.t)
        o1 == mod3(s.o + 1)
        os1 == mod3(so + 1)
        t1 == M.tri[s.t].ngh[o1]
        t2 == M.tri[x].ngh[os1]
        a  == [M.tri EXCEPT ![s.t].vtx[s.o] = M.tri[x].vtx[os1], ![s.t].ngh[s.o] = t2, ![s.t].ngh[o1] = x,
                            ![x].vtx[so] = M.tri[s.t].vtx[o1], ![x].ngh[so] = t1, ![x].ngh[os1] = s.t]
    IN  [tri |-> update(update(a, t2, x, s.t), t1, s.t, x),
         at  |-> [M.at EXCEPT ![M.tri[s.t].vtx[s.o]] = x, ![M.tri[x].vtx[so]] = s.t]]

(* Into three triangles, two of them new, with v in the middle.            *)
split(M, x, v, ta0, ta1) ==
    LET ngh == M.tri[x].ngh
        vtx == M.tri[x].vtx
        a == [M.tri EXCEPT ![x] = [ngh |-> Three(ngh[0], ta0, ta1), vtx |-> Three(vtx[0], v, vtx[2])],
                           ![ta0] = [ngh |-> Three(ngh[1], ta1, x), vtx |-> Three(vtx[1], v, vtx[0])],
                           ![ta1] = [ngh |-> Three(ngh[2], x, ta0), vtx |-> Three(vtx[2], v, vtx[1])]]
    IN  [tri |-> update(update(a, ngh[1], x, ta0), ngh[2], x, ta1),
         at  |-> [M.at EXCEPT ![v] = x, ![vtx[1]] = ta0]]

(* A fan of triangles, each an extension of the one before it.             *)
generate_boundary ==
    [x \in Triangles |->
        LET i == x - 2 * n IN
        IF i < 0 THEN [ngh |-> Three(NULL, NULL, NULL), vtx |-> Three(NULL, NULL, NULL)]
        ELSE [ngh |-> Three(IF x + 1 \in Triangles THEN x + 1 ELSE NULL, IF i = 0 THEN NULL ELSE x - 1, NULL),
              vtx |-> Three(n, n + i + 1, n + i + 2)]]

-----------------------------------------------------------------------------
(* Finding and reserving.                                                  *)

(* Walk on through the first edge that v is on the other side of.  (The    *)
(* walk has no more steps than there are simplices, or it goes round.)     *)
find(v, start) ==
    LET walk[steps \in Nat, s \in Simplices] ==
            LET r == [i \in 1..3 |-> simplex(s.t, mod3(s.o + i))]
                out == {i \in 1..3 : outside(r[i], v)}
            IN  IF s.boundary \/ out = {} \/ steps = 0 THEN s
                ELSE walk[steps - 1, across(r[CHOOSE i \in out : \A j \in out : i <= j])]
    IN  walk[3 * Cardinality(Triangles), start]

(* What a search pushes on the two queues that enters s through its edge.  *)
findCavity(v) ==
    LET search[s \in Simplices] ==
            LET r == rotClockwise(s) IN
            IF ~inCirc(s, v) THEN << >>
            ELSE <<[simplexQ |-> s]>> \o search[across(r)]
                   \o <<[vertexQ |-> firstVertex(r)]>> \o search[across(rotClockwise(r))]
    IN  search

PushedOn(q, pushed) ==
    LET on == SelectSeq(pushed, LAMBDA x : q \in DOMAIN x) IN [i \in DOMAIN on |-> on[i][q]]

OwnCorners(s, v) ==     \* mutant: only the vertices of the triangle itself are reserved
    LET Edge(i) == simplex(s.t, mod3(s.o + i)) IN
    [i \in 1..3 |-> [vertexQ |-> firstVertex(Edge(i))]]
      \o SelectSeq(FlattenSeq([i \in 1..3 |-> findCavity(v)[across(Edge(i))]]), LAMBDA x : "simplexQ" \in DOMAIN x)

(* From each edge of the triangle that v is in.                            *)
Cavity(s, v) ==
    LET From(r) == <<[vertexQ |-> firstVertex(r)]>> \o findCavity(v)[across(r)]
    IN  From(s) \o From(simplex(s.t, mod3(s.o + 1))) \o From(simplex(s.t, mod3(s.o + 2)))

-----------------------------------------------------------------------------
num_done  == Cardinality(done)
num_round == Lower(Lower(1 + num_done \div round_share, n - num_done), max_block_size)
Iterations == DOMAIN pc

Init ==
    /\ \E layout \in Layouts :
         /\ pt = [v \in AllVertices |-> IF v < n THEN layout.pt[v + 1] ELSE Corners[v - n + 1]]
         /\ id = [v \in AllVertices |-> IF v < n THEN layout.id[v + 1] ELSE v]
    /\ tri = generate_boundary
    /\ at = [v \in AllVertices |-> IF v < n THEN 2 * v ELSE IF v < n + 2 THEN 2 * n ELSE n + v - 2]
    /\ reserve = [v \in AllVertices |-> -1]
    /\ located = {n} /\ num_next_rebuild = first_rebuild
    /\ done = {} /\ remain = << >> /\ buffer = << >>
    /\ t = << >> /\ VQ = << >> /\ flags = << >> /\ pc = << >> /\ k = << >>

StartRound ==
    /\ pc = << >> /\ num_done < n
    /\ IF num_done >= num_next_rebuild /\ num_done <= n \div multiplier
       THEN located' = done /\ num_next_rebuild' = num_next_rebuild * multiplier
       ELSE UNCHANGED <<located, num_next_rebuild>>
    /\ buffer' = [j \in 1..num_round |-> IF j <= Len(remain) THEN remain[j] ELSE j - 1 + num_done]
    /\ pc' = [j \in 1..num_round |-> "reserve"]
    /\ k' = [j \in 1..num_round |-> 0]
    /\ flags' = [j \in 1..num_round |-> FALSE]
    /\ t' = [j \in 1..num_round |-> simplex(0, 0)]
    /\ VQ' = [j \in 1..num_round |-> [vertexQ |-> << >>, simplexQ |-> << >>]]
    /\ UNCHANGED <<pt, id, mesh, reserve, done, remain>>

(* Which vertex knn takes for the nearest is left open: any will do.       *)
Reserve(j) ==
    LET v == buffer[j] IN
    /\ pc[j] = "reserve"
    /\ \E u \in located : \E s \in {find(v, simplex(at[u], 0))} : \E pushed \in {Cavity(s, v)} :
         /\ t' = [t EXCEPT ![j] = s]
         /\ VQ' = [VQ EXCEPT ![j] = [vertexQ |-> PushedOn("vertexQ", pushed), simplexQ |-> PushedOn("simplexQ", pushed)]]
         /\ reserve' = [w \in AllVertices |->
                          IF w \in ToSet(VQ'[j].vertexQ) /\ reserve[w] < id[v] THEN id[v] ELSE reserve[w]]
    /\ pc' = [pc EXCEPT ![j] = "check"]
    /\ UNCHANGED <<pt, id, mesh, outer, flags, k>>

Check(j) ==
    LET u == VQ[j].vertexQ[k[j] + 1] IN
    /\ pc[j] = "check" /\ \A i \in Iterations : pc[i] # "reserve"
    /\ IF reserve[u] = id[buffer[j]]
       THEN reserve' = [reserve EXCEPT ![u] = -1] /\ UNCHANGED flags
       ELSE flags' = [flags EXCEPT ![j] = TRUE] /\ UNCHANGED reserve
    /\ IF k[j] + 1 < Len(VQ[j].vertexQ)
       THEN k' = [k EXCEPT ![j] = @ + 1] /\ UNCHANGED pc
       ELSE k' = [k EXCEPT ![j] = 0] /\ pc' = [pc EXCEPT ![j] = IF flags'[j] THEN "end" ELSE "split"]
    /\ UNCHANGED <<pt, id, mesh, outer, t, VQ>>

Split(j) ==
    LET v == buffer[j]
        M == split([tri |-> tri, at |-> at], t[j].t, v, at[v], at[v] + 1)
    IN  /\ pc[j] = "split"
        /\ tri' = M.tri /\ at' = M.at
        /\ pc' = [pc EXCEPT ![j] = IF VQ[j].simplexQ = << >> THEN "end" ELSE "flip"]
        /\ UNCHANGED <<pt, id, reserve, outer, t, VQ, flags, k>>

Flip(j) ==
    /\ pc[j] = "flip"
    /\ LET M == flip([tri |-> tri, at |-> at], VQ[j].simplexQ[k[j] + 1]) IN tri' = M.tri /\ at' = M.at
    /\ k' = [k EXCEPT ![j] = @ + 1]
    /\ pc' = [pc EXCEPT ![j] = IF k'[j] = Len(VQ[j].simplexQ) THEN "end" ELSE "flip"]
    /\ UNCHANGED <<pt, id, reserve, outer, t, VQ, flags>>

(* Those that failed are packed to the front.                              *)
EndRound ==
    /\ pc # << >> /\ \A j \in Iterations : pc[j] = "end"
    /\ LET failed == SelectSeq([j \in Iterations |-> j], LAMBDA j : flags[j]) IN
         remain' = [i \in DOMAIN failed |-> buffer[failed[i]]]
    /\ done' = done \cup {buffer[j] : j \in {i \in Iterations : ~flags[i]}}
    /\ buffer' = << >> /\ t' = << >> /\ VQ' = << >> /\ flags' = << >> /\ pc' = << >> /\ k' = << >>
    /\ UNCHANGED <<pt, id, mesh, reserve, located, num_next_rebuild>>

Ended == pc = << >> /\ num_done = n

Next ==
    \/ StartRound
    \/ \E j \in Iterations : Reserve(j) \/ Check(j) \/ Split(j) \/ Flip(j)
    \/ EndRound
    \/ Ended /\ UNCHANGED delaunayVars

-----------------------------------------------------------------------------
Built  == {x \in Triangles : tri[x].vtx[0] # NULL}
Placed == done \cup n..(n + boundary_size - 1)

(* What the program itself can check in the end.                          *)
check_delaunay ==
    /\ \A x \in Built, o \in 0..2 :
         LET s == simplex(x, o) IN
         ~across(s).boundary => LET v == firstVertex(rotClockwise(across(s))) IN outside(s, v) /\ ~inCirc(s, v)
    /\ boundary_size = Cardinality({xo \in Built \X (0..2) : across(simplex(xo[1], xo[2])).boundary})

(* Between rounds the triangles lie counterclockwise and point to each     *)
(* other across the edges they share, all around but for the boundary;     *)
(* each vertex knows a triangle it is in; no circle of a triangle has a    *)
(* vertex inside, whereas check_delaunay looks at neighbours only; and no  *)
(* reservation is left.                                                    *)
MeshIsRight ==
    pc = << >> =>
        /\ Cardinality(Built) = 2 * num_done + boundary_size - 2
        /\ UNION {{tri[x].vtx[i] : i \in 0..2} : x \in Built} = Placed
        /\ \A x \in Built :
             LET s == simplex(x, 0) IN
             /\ counterClockwise(Corner(s, 0), Corner(s, 1), Corner(s, 2))
             /\ \A v \in Placed : ~inCirc(s, v)
        /\ \A x \in Built, o \in 0..2 :
             LET y == tri[x].ngh[o] IN
             y # NULL => \E i \in 0..2 : /\ tri[y].ngh[i] = x
                                         /\ tri[y].vtx[i] = tri[x].vtx[mod3(o + 2)]
                                         /\ tri[y].vtx[mod3(i + 2)] = tri[x].vtx[o]
        /\ check_delaunay
        /\ \A v \in Placed : \E i \in 0..2 : tri[at[v]].vtx[i] = v
        /\ \A v \in AllVertices : reserve[v] = -1

(* What iteration j changes when it inserts its point: its cavity, its two *)
(* new triangles, and the pointers back of those around.                   *)
Inserting == {j \in Iterations : pc[j] \in {"split", "flip", "end"} /\ ~flags[j]}
Own(j)    == {t[j].t, 2 * buffer[j], 2 * buffer[j] + 1} \cup {s.t : s \in ToSet(VQ[j].simplexQ)}
Around(j) == UNION {{tri[x].ngh[i] : i \in 0..2} : x \in Own(j)} \ {NULL}

(* Points that are inserted at the same time do not touch the same         *)
(* triangle, nor the triangle pointer of the same vertex.                  *)
CavitiesApart ==
    \A i, j \in Inserting : i # j =>
        /\ (Own(i) \cup Around(i)) \cap (Own(j) \cup Around(j)) = {}
        /\ ToSet(VQ[i].vertexQ) \cap ToSet(VQ[j].vertexQ) = {}
=============================================================================
