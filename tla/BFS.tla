--------------------------------- MODULE BFS ---------------------------------
(***************************************************************************)
(* The four parallel breadth-first searches of                             *)
(* benchmarks/breadthFirstSearch: "nd" (ndBFS), "simple" (simpleBFS),      *)
(* "deterministic" (deterministicBFS) and "ligra" (backForwardBFS, with    *)
(* the edge_map of common/ligraLight.h).  All go round by round through    *)
(* the edges of the frontier; they differ in how an edge claims its end.   *)
(*                                                                         *)
(* The iterations of a round's parallel loop are tasks: a frontier vertex  *)
(* with all its edges (nd), an edge (simple, deterministic, and ligra when *)
(* the frontier is sparse) or a vertex that looks for a neighbour in the   *)
(* frontier (ligra when it is dense).  Each step of a task is one access   *)
(* to the shared Visited or parent.                                        *)
(***************************************************************************)
EXTENDS Integers, Sequences, FiniteSets, SequencesExt

CONSTANTS
    n,              \* the number of vertices
    Graphs,         \* the inputs: the sequence of neighbours of every vertex
    Fraction        \* 20 in ligraLight.h: how much of a graph makes it dense

Vertices == 0..(n - 1)
start == 0
None  == -1              \* no parent
Empty == <<>>            \* -1 in a slot of nd

VARIABLES
    algo,
    G,              \* the input
    nbrs, degrees,  \* the graph as nd rewrites it
    parent, visited,
    frontier, sparse,
    round, phase,
    task,           \* [v, j, to, o, pc]: owner, neighbours to go, first slot
    kept,           \* nd's k, per task
    seen,           \* what a task has read of parent in write_max
    next            \* the slots of the next frontier

vars == <<algo, G, nbrs, degrees, parent, visited, frontier, sparse, round, phase,
          task, kept, seen, next>>

Tasks == DOMAIN task

Init ==
    /\ algo \in {"nd", "simple", "deterministic", "ligra"}
    /\ G \in Graphs
    /\ nbrs = G /\ degrees = [v \in Vertices |-> Len(G[v])]
    /\ parent = [v \in Vertices |-> IF v = start THEN start ELSE None]
    /\ visited = [v \in Vertices |-> v = start]
    /\ frontier = <<start>> /\ sparse = TRUE
    /\ round = 0 /\ phase = "round"
    /\ task = <<>> /\ kept = <<>> /\ seen = <<>> /\ next = <<>>

-----------------------------------------------------------------------------
(* The start of a round: the loop's iterations and where they write.       *)

Sum(s) == FoldSeq(LAMBDA a, b : a + b, 0, s)

(* scan_inplace over the degrees of the frontier.                          *)
Offsets(i) == Sum([x \in 1..(i - 1) |-> degrees[frontier[x]]])
numEdges == Sum([v \in 1..n |-> Len(G[v - 1])])

(* edge_map::operator(): which of its two loops goes through the edges.    *)
Dense ==
    /\ algo = "ligra"
    /\ IF sparse THEN Len(frontier) + Offsets(Len(frontier) + 1) > numEdges \div Fraction
                 ELSE Len(frontier) > n \div Fraction

Iteration(v, j, to, o) == [v |-> v, j |-> j, to |-> to, o |-> o, pc |-> "test"]

VertexTasks == [i \in 1..Len(frontier) |->
                  Iteration(frontier[i], 1, degrees[frontier[i]], Offsets(i))]
(* flatten: one task for each edge, in the order of the frontier.          *)
EdgeTasks ==
    FlattenSeq([i \in 1..Len(frontier) |->
      [j \in 1..degrees[frontier[i]] |-> Iteration(frontier[i], j, j, Offsets(i))]])
(* edge_map_dense: slot v + 1 for vertex v.                                *)
DenseTasks == [i \in 1..n |-> Iteration(i - 1, 1, Len(G[i - 1]), 0)]

StartRound ==
    /\ phase = "round" /\ frontier # <<>>
    /\ task' = CASE Dense       -> DenseTasks
                 [] algo = "nd" -> VertexTasks
                 [] OTHER       -> EdgeTasks
    /\ kept' = [t \in DOMAIN task' |-> 0]
    /\ seen' = [t \in DOMAIN task' |-> None]
    /\ next' = [o \in 1..(IF Dense THEN n ELSE Offsets(Len(frontier) + 1)) |-> Empty]
    /\ phase' = IF Dense THEN "dense" ELSE "sparse"
    /\ UNCHANGED <<algo, G, nbrs, degrees, parent, visited, frontier, sparse, round>>

-----------------------------------------------------------------------------
(* One edge.                                                               *)

Running(t, l) == phase \in {"dense", "sparse"} /\ t \in Tasks /\ task[t].pc = l

(* The edge a task is at, as a pair <<u, v>> that may make u parent of v.  *)
EdgeOf(t) == LET x == nbrs[task[t].v][task[t].j] IN
             IF phase = "dense" THEN <<x, task[t].v>> ELSE <<task[t].v, x>>
Slot(t)   == IF phase = "dense" THEN task[t].v + 1 ELSE task[t].o + task[t].j

(* On to the next edge of the task.                                        *)
Advance(t) == task' = [task EXCEPT ![t].j = @ + 1, ![t].pc = "test"]
Fixed      == UNCHANGED <<algo, G, frontier, sparse, round, phase>>

(* The test in front of the claim, and edge_map's cond.                    *)
cond_f(v)  == parent[v] = None
Open(v)    == IF algo \in {"nd", "deterministic"} THEN ~visited[v] ELSE cond_f(v)

Test(t) ==
    /\ Running(t, "test") /\ phase = "sparse" /\ task[t].j <= task[t].to
    /\ IF Open(EdgeOf(t)[2]) THEN task' = [task EXCEPT ![t].pc = "claim"] ELSE Advance(t)
    /\ UNCHANGED <<nbrs, degrees, parent, visited, kept, seen, next>> /\ Fixed

(* A vertex that looks for its parent returns when it has one, and passes  *)
(* over neighbours out of the frontier.                                    *)
TestDense(t) ==
    /\ Running(t, "test") /\ phase = "dense" /\ task[t].j <= task[t].to
    /\ task' = CASE ~Open(task[t].v)               -> [task EXCEPT ![t].j = task[t].to + 1]
                 [] Open(task[t].v) /\ Contains(frontier, EdgeOf(t)[1])
                                                   -> [task EXCEPT ![t].pc = "claim"]
                 [] OTHER                          -> [task EXCEPT ![t].j = @ + 1]
    /\ UNCHANGED <<nbrs, degrees, parent, visited, kept, seen, next>> /\ Fixed

ClaimByStore(t) ==                     \* mutant: a store in place of the CAS
    /\ Running(t, "claim") /\ algo = "nd"
    /\ LET e == EdgeOf(t) IN
         /\ visited' = [visited EXCEPT ![e[2]] = TRUE]
         /\ next' = [next EXCEPT ![Slot(t)] = e]
         /\ nbrs' = [nbrs EXCEPT ![e[1]][kept[t] + 1] = e[2]]
         /\ kept' = [kept EXCEPT ![t] = @ + 1]
    /\ Advance(t)
    /\ UNCHANGED <<degrees, parent, seen>> /\ Fixed

(* The compare-and-swap on Visited.  The edge is also kept, by moving it   *)
(* to the front of the neighbours of the vertex.                           *)
ClaimVisited(t) ==
    /\ Running(t, "claim") /\ algo = "nd"
    /\ LET e == EdgeOf(t) IN
         IF visited[e[2]] THEN UNCHANGED <<visited, next, nbrs, kept>>
         ELSE /\ visited' = [visited EXCEPT ![e[2]] = TRUE]
              /\ next' = [next EXCEPT ![Slot(t)] = e]
              /\ nbrs' = [nbrs EXCEPT ![e[1]][kept[t] + 1] = e[2]]
              /\ kept' = [kept EXCEPT ![t] = @ + 1]
    /\ Advance(t)
    /\ UNCHANGED <<degrees, parent, seen>> /\ Fixed

(* The compare-and-swap on parent.                                         *)
edge_fa(t) ==
    /\ Running(t, "claim") /\ algo \in {"simple", "ligra"}
    /\ LET e == EdgeOf(t) IN
         IF parent[e[2]] # None THEN UNCHANGED <<parent, next>>
         ELSE /\ parent' = [parent EXCEPT ![e[2]] = e[1]]
              /\ next' = [next EXCEPT ![Slot(t)] = e]
    /\ Advance(t)
    /\ UNCHANGED <<nbrs, degrees, visited, kept, seen>> /\ Fixed

(* write_max: the load, and the compare-and-swap if it helps.  The swap is *)
(* a weak one: failing for no reason would be one more turn of the loop.   *)
LoadParent(t) ==
    /\ Running(t, "claim") /\ algo = "deterministic"
    /\ LET u == EdgeOf(t)[1]
           c == parent[EdgeOf(t)[2]]
       IN  IF c < u THEN /\ task' = [task EXCEPT ![t].pc = "swap"]
                         /\ seen' = [seen EXCEPT ![t] = c]
                    ELSE Advance(t) /\ seen' = seen
    /\ UNCHANGED <<nbrs, degrees, parent, visited, kept, next>> /\ Fixed

SwapParent(t) ==
    /\ Running(t, "swap")
    /\ LET u == EdgeOf(t)[1]
           v == EdgeOf(t)[2]
       IN  IF parent[v] = seen[t]
             THEN /\ parent' = [parent EXCEPT ![v] = u]
                  /\ next' = [next EXCEPT ![Slot(t)] = <<u, v>>]
                  /\ Advance(t)
             ELSE /\ task' = [task EXCEPT ![t].pc = "claim"]
                  /\ UNCHANGED <<parent, next>>
    /\ UNCHANGED <<nbrs, degrees, visited, kept, seen>> /\ Fixed

(* The end of an iteration; nd sets the new degree of its vertex.          *)
EndVertex(t) ==
    /\ Running(t, "test") /\ algo = "nd" /\ task[t].j > task[t].to
    /\ task' = [task EXCEPT ![t].pc = "done"]
    /\ degrees' = [degrees EXCEPT ![task[t].v] = kept[t]]
    /\ UNCHANGED <<nbrs, parent, visited, kept, seen, next>> /\ Fixed

EndTask(t) ==
    /\ Running(t, "test") /\ algo # "nd" /\ task[t].j > task[t].to
    /\ task' = [task EXCEPT ![t].pc = "done"]
    /\ UNCHANGED <<degrees, nbrs, parent, visited, kept, seen, next>> /\ Fixed

-----------------------------------------------------------------------------
(* The end of a round: the filter of the slots.                            *)

EndRound(won) ==
    /\ phase \in {"dense", "sparse"} /\ \A t \in Tasks : task[t].pc = "done"
    /\ frontier' = [i \in DOMAIN won |-> won[i][2]]
    /\ round' = round + 1 /\ phase' = "round"
    /\ UNCHANGED <<algo, G, nbrs, degrees, parent, task, kept, seen, next>>

Claimed == SelectSeq(next, LAMBDA e : e # Empty)

KeepVisited == algo = "nd" /\ EndRound(Claimed) /\ UNCHANGED <<visited, sparse>>
KeepClaimed == /\ algo = "simple" \/ (algo = "ligra" /\ phase = "sparse")
               /\ EndRound(Claimed) /\ sparse' = TRUE /\ visited' = visited
KeepDense   == /\ algo = "ligra" /\ phase = "dense"
               /\ EndRound(Claimed) /\ sparse' = FALSE /\ visited' = visited

(* The deterministic search keeps the edges that are still parents; no     *)
(* task reads visited or writes parent by then.                            *)
KeepWinners ==
    /\ algo = "deterministic"
    /\ EndRound(SelectSeq(Claimed, LAMBDA e : parent[e[2]] = e[1]))
    /\ visited' = [v \in Vertices |-> visited[v] \/ Contains(frontier', v)]
    /\ sparse' = sparse

Return ==
    /\ phase = "round" /\ frontier = <<>>
    /\ phase' = "end"
    /\ UNCHANGED <<algo, G, nbrs, degrees, parent, visited, frontier, sparse, round,
                   task, kept, seen, next>>

Task(t) ==
    \/ Test(t) \/ TestDense(t) \/ ClaimVisited(t) \/ edge_fa(t)
    \/ LoadParent(t) \/ SwapParent(t) \/ EndVertex(t) \/ EndTask(t)
Keep == KeepVisited \/ KeepClaimed \/ KeepDense \/ KeepWinners
Done == phase = "end" /\ UNCHANGED vars

Next == StartRound \/ (\E t \in Tasks : Task(t)) \/ Keep \/ Return \/ Done

(* Tasks are iterations of parallel loops; the rest is the calling thread. *)
Fairness == WF_vars(Next)
Spec     == Init /\ [][Next]_vars /\ Fairness

-----------------------------------------------------------------------------
(* Properties.                                                             *)

(* The vertices at most d edges from the start.                            *)
Reach[d \in Nat] ==
    IF d = 0 THEN {start}
    ELSE Reach[d - 1] \cup UNION {ToSet(G[v]) : v \in Reach[d - 1]}
Layer(d) == IF d = 0 THEN {start} ELSE Reach[d] \ Reach[d - 1]

(* The frontier of a round holds the vertices at that distance, each of    *)
(* them once, however many edges lead to it and race for it.               *)
FrontierIsLayer ==
    phase = "round" => ToSet(frontier) = Layer(round) /\ IsInjective(frontier)

(* What a parent may be: a neighbour one layer nearer to the start.        *)
Parents(v) == {u \in Vertices : \E d \in 0..n : u \in Layer(d) /\ v \in ToSet(G[u]) \cap Layer(d + 1)}
Largest(S) == CHOOSE u \in S : \A x \in S : x <= u

Children(u) == {nbrs[u][j] : j \in 1..degrees[u]}

(* The result is a tree of shortest paths to all that can be reached.  The *)
(* deterministic search takes the largest parent in every run; nd leaves   *)
(* the children of each vertex in the graph.                               *)
TreeAtEnd ==
    phase = "end" =>
      \A v \in Vertices \ {start} :
        CASE algo = "nd" -> \/ v \notin Reach[n]
                            \/ \E u \in Parents(v) :
                                 /\ \A w \in Reach[n] : v \in Children(w) <=> w = u
                                 /\ Cardinality({j \in 1..degrees[u] : nbrs[u][j] = v}) = 1
          [] v \notin Reach[n]      -> parent[v] = None
          [] algo = "deterministic" -> parent[v] = Largest(Parents(v))
          [] OTHER                  -> parent[v] \in Parents(v)
=============================================================================
