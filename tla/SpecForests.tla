----------------------------- MODULE SpecForests -----------------------------
(***************************************************************************)
(* Two forests by union-find on top of speculative_for.                    *)
(*                                                                         *)
(* Kruskal's algorithm, minSpanningForest/parallelKruskal/MST.C: iteration *)
(* i is the i-th edge in the order of weights; it reserves the roots of    *)
(* both its ends and is taken if it gets one of them.                      *)
(*                                                                         *)
(* The deterministic spanning forest, spanningForest/incrementalST/ST.C:   *)
(* iteration i is edge i; it reserves the larger of the roots of its ends  *)
(* and links it to the smaller.                                            *)
(*                                                                         *)
(* reserve and commit are one step each: while iterations reserve, no root *)
(* changes and the writes of minima commute; while they commit, a cell of  *)
(* R that holds i, and the parent of its vertex, are touched by i only.    *)
(* How finds shorten paths is in NdST and left out here.                   *)
(***************************************************************************)
EXTENDS SpecEdges

VARIABLES
    G,              \* history: the graph as it was
    parents,
    inST,           \* Kruskal's only
    roots           \* the other's only: the fields u and v of state[k], u the smaller

forest == <<G, E, R, parents, inST, roots>>
forestVars   == <<specVars, forest>>

NoParent == -1
is_root(x) == parents[x] < 0

ForestInit ==
    /\ Init
    /\ G \in EdgeGraphs /\ E = G
    /\ R = Free(Vertices)
    /\ parents = [x \in Vertices |-> NoParent]
    /\ inST = {}
    /\ roots = [k \in Slots |-> << >>]       \* uninitialized: written before it is read

find[x \in Vertices] == IF is_root(x) THEN x ELSE find[parents[x]]

-----------------------------------------------------------------------------
(* Kruskal's algorithm.                                                    *)

KruskalInit == ForestInit              \* EdgeGraphs are sorted

(* The ends of edge i are replaced by their roots for good.                *)
KruskalReserve(k) ==
    /\ phase = "reserve" /\ at[k] = "todo"
    /\ LET i == Iteration(k)
           u == find[E[i].u]
           v == find[E[i].v]
       IN /\ E' = [E EXCEPT ![i] = [u |-> u, v |-> v]]
          /\ R' = IF u # v THEN Reserved(Reserved(R, v, i), u, i) ELSE R
          /\ EndReserve(k, u # v)
    /\ UNCHANGED <<G, parents, inST, roots>>

TakeV(k) ==                          \* v is ours: it hangs below u, which is given back
    LET i == I[k]  u == E[i].u  v == E[i].v IN
    /\ R[v] = i
    /\ R' = IF R[u] = i THEN Reset(R, u) ELSE R
    /\ parents' = [parents EXCEPT ![v] = u]
    /\ inST' = inST \cup {i}
    /\ EndCommit(k, TRUE)

TakeU(k) ==                          \* only u is ours: it hangs below v
    LET i == I[k]  u == E[i].u  v == E[i].v IN
    /\ R[v] # i /\ R[u] = i
    /\ parents' = [parents EXCEPT ![u] = v]
    /\ inST' = inST \cup {i}
    /\ EndCommit(k, TRUE)
    /\ R' = R

CommitFails(k) ==
    LET i == I[k] IN
    /\ R[E[i].v] # i /\ R[E[i].u] # i
    /\ EndCommit(k, FALSE)
    /\ UNCHANGED <<R, parents, inST>>

KruskalCommit(k) ==
    /\ phase = "commit" /\ at[k] = "todo"
    /\ TakeV(k) \/ TakeU(k) \/ CommitFails(k)
    /\ UNCHANGED <<G, E, roots>>

KruskalNext ==
    \/ (DriverNext \/ Stopped) /\ UNCHANGED forest
    \/ \E k \in Slots : KruskalReserve(k) \/ KruskalCommit(k)

KruskalSpec == KruskalInit /\ [][KruskalNext]_forestVars

-----------------------------------------------------------------------------
(* The spanning forest.                                                    *)

STInit == ForestInit

RootsUnsorted(i) == [u |-> find[E[i].u], v |-> find[E[i].v]]      \* mutant: no swap

(* The roots of edge i, the smaller one first.                             *)
RootsOf(i) ==
    LET a == find[E[i].u]  b == find[E[i].v]
    IN  [u |-> MinOf(a, b), v |-> MaxOf(a, b)]

STReserve(k) ==
    /\ phase = "reserve" /\ at[k] = "todo"
    /\ LET r == RootsOf(Iteration(k)) IN
       /\ roots' = [roots EXCEPT ![k] = r]
       /\ R' = IF r.u # r.v THEN Reserved(R, r.v, Iteration(k)) ELSE R
       /\ EndReserve(k, r.u # r.v)
    /\ UNCHANGED <<G, E, parents, inST>>

STCommitSmaller(k) ==                  \* mutant: looks at the wrong root
    /\ phase = "commit" /\ at[k] = "todo"
    /\ LET won == R[roots[k].u] = I[k] IN
       /\ parents' = IF won THEN [parents EXCEPT ![roots[k].v] = roots[k].u] ELSE parents
       /\ EndCommit(k, won)
    /\ UNCHANGED <<G, E, R, inST, roots>>

STCommitReset(k) ==                    \* mutant: gives the reservation back
    /\ phase = "commit" /\ at[k] = "todo"
    /\ LET won == R[roots[k].v] = I[k] IN
       /\ parents' = IF won THEN [parents EXCEPT ![roots[k].v] = roots[k].u] ELSE parents
       /\ R' = IF won THEN Reset(R, roots[k].v) ELSE R
       /\ EndCommit(k, won)
    /\ UNCHANGED <<G, E, inST, roots>>

STCommit(k) ==
    /\ phase = "commit" /\ at[k] = "todo"
    /\ LET won == R[roots[k].v] = I[k] IN
       /\ parents' = IF won THEN [parents EXCEPT ![roots[k].v] = roots[k].u] ELSE parents
       /\ EndCommit(k, won)
    /\ UNCHANGED <<G, E, R, inST, roots>>

STNext ==
    \/ (DriverNext \/ Stopped) /\ UNCHANGED forest
    \/ \E k \in Slots : STReserve(k) \/ STCommit(k)

STSpec == STInit /\ [][STNext]_forestVars

-----------------------------------------------------------------------------
(* Properties of Kruskal's algorithm.                                      *)

(* Following parents always ends at a root: edges that link roots in the   *)
(* same round never close a cycle, in which find would not return.         *)
Acyclic ==
    ~ \E S \in (SUBSET Vertices) \ {{}} : \A x \in S : ~is_root(x) /\ parents[x] \in S

(* Kruskal's choice: edge i is taken if the edges before it leave its ends *)
(* apart.                                                                  *)
Apart(i) ==
    \E S \in SUBSET Vertices :
      /\ G[i].u \in S /\ G[i].v \notin S
      /\ \A j \in s..(i - 1) : G[j].u \in S <=> G[j].v \in S

(* The loop takes the edges that Kruskal's serial algorithm takes, and on  *)
(* the way there never another one.                                        *)
KruskalIsSerial ==
    /\ phase \in {"start", "end"} => \A i \in inST : Apart(i)
    /\ phase = "end" => \A i \in Iterations : Apart(i) => i \in inST

(* Between rounds no root is reserved: a later round would lose against a  *)
(* stale number.                                                           *)
RootsAreFree ==
    phase \in {"start", "end"} => \A x \in Vertices : is_root(x) => R[x] = max_idx

-----------------------------------------------------------------------------
(* Properties of the spanning forest.                                      *)

(* The result, lines 69-71: the reservations that are there at the end.    *)
Result == {R[x] : x \in {y \in Vertices : R[y] < max_idx}}

(* Two sets of pairs connect the same vertices if the same sets of         *)
(* vertices are closed under them.                                         *)
Closed(S, pairs) == \A p \in pairs : p.u \in S <=> p.v \in S
SameComponents(a, b) == \A S \in SUBSET Vertices : Closed(S, a) <=> Closed(S, b)
Pairs(edges) == {E[i] : i \in edges}

(* Reservations are never given back: between rounds R is a forest that    *)
(* spans the edges completed so far, each of its edges joins what the      *)
(* others leave apart, and at the end it spans the graph.                  *)
ResultSpans ==
    phase \in {"start", "end"} =>
      /\ SameComponents(Pairs(Result), Pairs({i \in Iterations : committed[i] = 1}))
      /\ \A i \in Result : ~SameComponents(Pairs(Result), Pairs(Result \ {i}))
      /\ phase = "end" => SameComponents(Pairs(Result), Pairs(Iterations))

(* Between rounds exactly the vertices with a parent are reserved.         *)
ReservedAreLinked ==
    phase \in {"start", "end"} =>
      \A x \in Vertices : is_root(x) <=> R[x] = max_idx

(* A parent is always smaller, so no cycle can arise.                      *)
ParentsAreSmaller == \A x \in Vertices : is_root(x) \/ parents[x] < x

-----------------------------------------------------------------------------
(* The inductive invariants.                                               *)

ForestAssumption ==
    /\ Vertices \subseteq Nat
    /\ EdgeGraphs \subseteq [Iterations -> [u : Vertices, v : Vertices]]

ForestTypeOK ==
    /\ G \in [Iterations -> [u : Vertices, v : Vertices]]
    /\ E \in [Iterations -> [u : Vertices, v : Vertices]]
    /\ R \in [Vertices -> s..max_idx]
    /\ parents \in [Vertices -> Vertices \cup {NoParent}]
    /\ inST \subseteq Iterations
    /\ DOMAIN roots = Slots

(* The reservations of slot k are made and not yet used.                   *)
Active(k) ==
    \/ phase = "reserve" /\ at[k] = "ready" /\ keep[k]
    \/ phase = "commit" /\ at[k] = "todo"

(* S does not cut a tree of the forest, or an edge of F, in two.           *)
Trees(S)    == \A x \in Vertices : ~is_root(x) => (x \in S <=> parents[x] \in S)
Uncut(F, S) == \A i \in F : G[i].u \in S <=> G[i].v \in S

SameTree(x, y) == \A S \in SUBSET Vertices : Trees(S) => (x \in S <=> y \in S)

(* Vertices have ranks that grow along the links.  What was a root at the  *)
(* start of the round has a rank above zero, the higher the smaller the    *)
(* iteration that holds it, and the highest if none does.                  *)
Level(x) == IF R[x] = max_idx THEN max_idx + 1 ELSE max_idx - R[x]

EndsOf(k) == {E[Iteration(k)].u, E[Iteration(k)].v}

Ordered(rank) ==
    /\ \A x \in Vertices :
         /\ rank[x] <= 0 \/ rank[x] = Level(x)
         /\ is_root(x) => rank[x] = Level(x)
         /\ ~is_root(x) => rank[x] < rank[parents[x]] /\ (phase # "commit" => rank[x] <= 0)
    /\ phase = "commit" =>
         \A k \in Running : Active(k) => \A x \in EndsOf(k) : rank[x] > 0

OrderInv == \E rank \in [Vertices -> Int] : Ordered(rank)

(* An active slot has two different ends.  Both were roots when it         *)
(* reserved them; who holds one may take its edge.                         *)
ReservedInv ==
    \A k \in Running : Active(k) =>
      /\ E[Iteration(k)].u # E[Iteration(k)].v
      /\ \A x \in EndsOf(k) :
           /\ R[x] <= Iteration(k) \/ (phase = "commit" /\ R[x] = max_idx)
           /\ phase = "reserve" \/ R[x] = Iteration(k) => is_root(x)
           /\ phase = "commit" /\ R[x] = Iteration(k) => Apart(Iteration(k))

(* Whoever holds a root is going to use it.                                *)
HolderInv ==
    \A x \in Vertices : is_root(x) /\ R[x] # max_idx =>
      \E k \in Running : Active(k) /\ R[x] = Iteration(k) /\ x \in EndsOf(k)

(* The trees are those of the edges taken; these, and those completed      *)
(* without being taken, are as Kruskal's algorithm has them.               *)
EdgesInv ==
    /\ \A i \in Iterations : SameTree(G[i].u, E[i].u) /\ SameTree(G[i].v, E[i].v)
    /\ \A S \in SUBSET Vertices : Uncut(inST, S) => Trees(S)
    /\ \A i \in inST : committed[i] # 0 /\ Apart(i)
    /\ \A i \in Iterations : committed[i] # 0 => SameTree(G[i].u, G[i].v) /\ (i \in inST \/ ~Apart(i))

KruskalInv == ForestTypeOK /\ OrderInv /\ ReservedInv /\ HolderInv /\ EdgesInv

(* The first edge of a round gets the roots of both its ends.              *)
FirstHasRoots ==
    FirstDone /\ (phase = "commit" /\ 0 \in Running /\ Active(0) =>
                    \A x \in EndsOf(0) : R[x] = Iteration(0))

(* The spanning forest: an active slot has the roots of its edge, of which *)
(* it reserved the larger.                                                 *)
LargerInv ==
    \A k \in Running : Active(k) =>
      /\ roots[k].u \in Vertices /\ roots[k].v \in Vertices /\ roots[k].u < roots[k].v
      /\ \A S \in SUBSET Vertices : Trees(S) =>
           ((roots[k].u \in S <=> roots[k].v \in S) <=> Uncut({Iteration(k)}, S))
      /\ R[roots[k].v] <= Iteration(k)
      /\ phase = "reserve" \/ R[roots[k].v] = Iteration(k) => is_root(roots[k].v)

LargerHolderInv ==
    \A x \in Vertices : is_root(x) /\ R[x] # max_idx =>
      \E k \in Running : Active(k) /\ R[x] = Iteration(k) /\ x = roots[k].v

(* The edges by which vertices were linked: their trees are the forest's,  *)
(* each joins what the others leave apart, and all completed edges are     *)
(* within trees.                                                           *)
Links == {R[x] : x \in {y \in Vertices : ~is_root(y)}}

LinksInv ==
    /\ \A x \in Vertices : ~is_root(x) => parents[x] < x /\ R[x] # max_idx /\ committed[R[x]] # 0
    /\ \A S \in SUBSET Vertices : Uncut(Links, S) <=> Trees(S)
    /\ \A i \in Links : \E S \in SUBSET Vertices : Uncut(Links \ {i}, S) /\ ~Uncut({i}, S)
    /\ \A i \in Iterations : committed[i] # 0 => SameTree(G[i].u, G[i].v)

STInv == ForestTypeOK /\ E = G /\ LargerInv /\ LargerHolderInv /\ LinksInv

(* The first edge of a round gets the larger root.                         *)
FirstHasLarger ==
    FirstDone /\ (phase = "commit" /\ 0 \in Running /\ Active(0) =>
                    R[roots[0].v] = Iteration(0))
=============================================================================
