------------------------------ MODULE MCNondet -------------------------------
(***************************************************************************)
(* The algorithms whose iterations all race with one another, on small     *)
(* inputs: the nondeterministic spanning forest ("st"), the                *)
(* nondeterministic maximal independent set ("mis"), the breadth-first     *)
(* searches ("bfs"), the incremental triangulation ("delaunay") and, for   *)
(* its liveness, the hash table ("hash").  One state machine stands for    *)
(* all of them: which one runs is chosen at the start, and each uses those *)
(* of the variables that it has.                                           *)
(***************************************************************************)
EXTENDS NdMIS, NdST

CONSTANTS
    BFSGraphs, Fraction,
    HashCells, HashKeys, Hashes, Procs,
    MeshPoints, MeshLayouts, MeshCorners,
    round_share, block_share, first_rebuild, multiplier

VARIABLES
    client,
    algo, bG, nbrs, degrees, parent, visited,        \* bfs
    frontier, sparse, round, phase, task, kept, seen, next,
    TA, hash, hphase, before, contents,          \* hash
    key, result, hpc, hv, hi, c, hj, jj, jjj, hx,
    pt, id, tri, at, reserve, located,           \* delaunay
    num_next_rebuild, done, remain, buffer, t, VQ, flags, dpc, dk

bfsVars == <<algo, bG, nbrs, degrees, parent, visited, frontier, sparse, round, phase,
             task, kept, seen, next>>
hashVars == <<TA, hash, hphase, before, contents, key, result, hpc, hv, hi, c, hj, jj, jjj, hx>>
meshVars == <<pt, id, tri, at, reserve, located, num_next_rebuild, done, remain, buffer,
              t, VQ, flags, dpc, dk>>
allVars == <<vars, client, stVars, bfsVars, hashVars, meshVars>>

Search == INSTANCE BFS WITH Graphs <- BFSGraphs, G <- bG
Hash   == INSTANCE HashTable WITH
            m <- HashCells, Keys <- HashKeys, phase <- hphase, at <- hpc, returned <- result,
            v <- hv, i <- hi, j <- hj, x <- hx
Mesh   == INSTANCE Delaunay WITH
            n <- MeshPoints, Layouts <- MeshLayouts, Corners <- MeshCorners, pc <- dpc, k <- dk

Unused == "unused"
STUnused  == STInit /\ E = CHOOSE g \in STGraphs : TRUE
MISUnused == Init /\ G = CHOOSE g \in Graphs : IsSimple(g)
BFSUnused ==
    /\ algo = Unused /\ bG = Unused /\ nbrs = Unused /\ degrees = Unused /\ parent = Unused
    /\ visited = Unused /\ frontier = Unused /\ sparse = Unused /\ round = Unused
    /\ phase = Unused /\ task = Unused /\ kept = Unused /\ seen = Unused /\ next = Unused
HashUnused ==
    /\ TA = Unused /\ hash = Unused /\ hphase = Unused /\ before = Unused
    /\ contents = Unused /\ key = Unused /\ result = Unused /\ hpc = Unused
    /\ hv = Unused /\ hi = Unused /\ c = Unused /\ hj = Unused
    /\ jj = Unused /\ jjj = Unused /\ hx = Unused
MeshUnused ==
    /\ pt = Unused /\ id = Unused /\ tri = Unused /\ at = Unused /\ reserve = Unused
    /\ located = Unused /\ num_next_rebuild = Unused /\ done = Unused /\ remain = Unused
    /\ buffer = Unused /\ t = Unused /\ VQ = Unused /\ flags = Unused
    /\ dpc = Unused /\ dk = Unused

MCInit ==
    \/ client = "st"   /\ STInit /\ MISUnused /\ BFSUnused /\ HashUnused /\ MeshUnused
    \/ client = "mis"  /\ Init /\ STUnused /\ BFSUnused /\ HashUnused /\ MeshUnused
    \/ client = "bfs"  /\ Search!Init /\ STUnused /\ MISUnused /\ HashUnused /\ MeshUnused
    \/ client = "hash" /\ Hash!TableInit /\ STUnused /\ MISUnused /\ BFSUnused /\ MeshUnused
    \/ client = "delaunay" /\ Mesh!Init /\ STUnused /\ MISUnused /\ BFSUnused /\ HashUnused

(* A step of one client leaves the variables of the others alone.          *)
STOnly   == UNCHANGED <<client, vars, bfsVars, hashVars, meshVars>>
MISOnly  == UNCHANGED <<client, stVars, bfsVars, hashVars, meshVars>>
BFSOnly  == UNCHANGED <<client, vars, stVars, hashVars, meshVars>>
HashOnly == UNCHANGED <<client, vars, stVars, bfsVars, meshVars>>
MeshOnly == UNCHANGED <<client, vars, stVars, bfsVars, hashVars>>

STStep   == client = "st" /\ STNext /\ STOnly
MISStep  == client = "mis" /\ Next /\ MISOnly
BFSStep  == client = "bfs" /\ Search!Next /\ BFSOnly
HashStep == client = "hash" /\ Hash!TableNext /\ HashOnly
MeshStep == client = "delaunay" /\ Mesh!Next /\ MeshOnly

MCNext == STStep \/ MISStep \/ BFSStep \/ HashStep \/ MeshStep

(* Every iteration of a parallel loop is run by some thread; within a      *)
(* round of a search or of the triangulation it is enough that one of them *)
(* is.                                                                     *)
Fairness ==
    /\ \A e \in Edges : WF_stVars(client = "st" /\ Edge(e))
    /\ \A q \in Procs : WF_hashVars(client = "hash" /\ Hash!TableOperation(q))
    /\ WF_bfsVars(client = "bfs" /\ Search!Next)
    /\ WF_meshVars(client = "delaunay" /\ Mesh!Next)

MCSpec == MCInit /\ [][MCNext]_allVars /\ Fairness

-----------------------------------------------------------------------------
(* The properties of the algorithms, see their modules; those of the       *)
(* spanning forest and of the maximal independent set have the names that  *)
(* they have in NdST and NdMIS.                                            *)

(* A round's frontier is the layer of vertices at that distance, each of   *)
(* them once; and in the end the parents, or the graph that ndBFS leaves,  *)
(* are a tree of shortest paths, in the deterministic search always the    *)
(* same one.                                                               *)
SearchIsRight == client = "bfs" => Search!FrontierIsLayer /\ Search!TreeAtEnd

(* Points that are inserted at the same time, by splits and flips with no  *)
(* locks, do not touch the same triangle, nor the triangle pointer of the  *)
(* same vertex.                                                            *)
CavitiesApart == client = "delaunay" => Mesh!CavitiesApart

(* Between rounds the triangles fit together, no circle of one has a       *)
(* vertex inside, and no reservation is left.                              *)
MeshIsRight == client = "delaunay" => Mesh!MeshIsRight

(* Spanning forest, searches and triangulation end, and so do the          *)
(* operations of each phase of the hash table, although what loses a race  *)
(* tries again.                                                            *)
AllEnd ==
    []<>(/\ client = "st"   => STDone
         /\ client = "bfs"  => phase = "end"
         /\ client = "hash" => Hash!Quiet
         /\ client = "delaunay" => Mesh!Ended)

-----------------------------------------------------------------------------
(* The inputs.                                                             *)

Pair(a, b) == [u |-> a, v |-> b]

(* Bound: five edges on five vertices: a cycle along which long chains can *)
(* grow, a graph with two parallel edges and a loop, and a cycle with a    *)
(* tail at a vertex that three edges hook.                                 *)
STLists == {
    << Pair(0, 1), Pair(1, 2), Pair(3, 2), Pair(3, 4), Pair(0, 4) >>,
    << Pair(2, 3), Pair(1, 0), Pair(2, 0), Pair(0, 1), Pair(3, 3) >>,
    << Pair(3, 0), Pair(0, 4), Pair(1, 0), Pair(1, 2), Pair(2, 4) >> }
MCSTGraphs == {[e \in 0..(m - 1) |-> list[e + 1]] : list \in STLists}

(* Bound: on four vertices a cycle, a path and a triangle with a tail; the *)
(* neighbours are listed so that vertices go for each other's locks.       *)
MCGraphs == {
    << <<2, 4>>, <<3, 1>>, <<4, 2>>, <<1, 3>> >>,
    << <<2>>, <<1, 3>>, <<4, 2>>, <<3>> >>,
    << <<2, 3>>, <<3, 1>>, <<1, 2, 4>>, <<3>> >> }

(* Bound: on five vertices, where two or three of a layer share a          *)
(* neighbour in the next one; one with parallel edges and a vertex out of  *)
(* reach, one with a loop.  Half a graph (Fraction) is a dense frontier.   *)
BFSLists == {
    << <<1, 2, 3>>, <<0, 4, 2>>, <<4, 0, 1>>, <<0, 4>>, <<3, 1, 2>> >>,
    << <<1, 1>>, <<0, 0, 2, 3>>, <<1, 3>>, <<2, 1>>, <<>> >>,
    << <<3, 2>>, <<4>>, <<0, 4>>, <<0, 4, 3>>, <<2, 1, 3>> >> }
MCBFSGraphs == {[x \in 0..(n - 1) |-> list[x + 1]] : list \in BFSLists}

(* Bound: all keys in one run that wraps around the end, and two runs that *)
(* touch.                                                                  *)
OneRun   == [y \in HashKeys |-> IF y % 2 = 0 THEN HashCells - 2 ELSE HashCells - 1]
TwoRuns  == [y \in HashKeys |-> IF y % 2 = 0 THEN HashCells - 1 ELSE 1]
MCHashes == {OneRun, TwoRuns}

(* Bound: six points in a hexagon whose corners are on a circle, spread    *)
(* out so that two fit in at the same time, close together so that they    *)
(* do not, and with four on a circle.  Priorities rise, fall and mix.      *)
MCCorners == << <<24, -7>>, <<24, 7>>, <<0, 25>>, <<-24, 7>>, <<-24, -7>>, <<0, -25>> >>
MCPoints == {
    << <<-9, 0>>, <<9, 0>>, <<-22, 0>>, <<22, 1>>, <<0, 22>>, <<0, 0>> >>,
    << <<0, 0>>, <<3, 1>>, <<1, 3>>, <<4, 4>>, <<2, 2>>, <<5, 1>> >>,
    << <<-9, 0>>, <<9, 0>>, <<0, 9>>, <<22, 1>>, <<-22, 0>>, <<0, -22>> >> }
MCPriorities == { <<0, 1, 2, 3, 4, 5>>, <<5, 4, 3, 2, 1, 0>>, <<2, 0, 4, 5, 1, 3>> }
MCLayouts == {[pt |-> points, id |-> ids] : points \in MCPoints, ids \in MCPriorities}
=============================================================================
