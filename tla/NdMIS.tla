-------------------------------- MODULE NdMIS --------------------------------
(***************************************************************************)
(* The nondeterministic maximal independent set of                         *)
(* benchmarks/maximalIndependentSet/ndMIS/MIS.C.  All vertices run in      *)
(* parallel; each tries to lock itself and its neighbours, and joins the   *)
(* set if it gets all of them.  Locks of a winner are never released.      *)
(*                                                                         *)
(* Each step is one access to Flags or V.  A read of a flag and the write  *)
(* that depends on it are one step where the cell is locked by the vertex  *)
(* that does both.                                                         *)
(***************************************************************************)
EXTENDS Integers, Sequences

CONSTANTS
    VertexSet,
    Graphs          \* the inputs: the sequence of neighbours of every vertex

VARIABLES
    G,
    Flags,          \* 0 undecided, 1 chosen, 2 a neighbour is chosen
    V,              \* the locks
    pc, k, j        \* per vertex: its place and its locals

vars == <<G, Flags, V, pc, k, j>>

Ngh(v, a)   == G[v][a + 1]
degree(v)   == Len(G[v])
Adjacent(v) == {G[v][a] : a \in 1..degree(v)}

(* A simple undirected graph: with a loop or a neighbour listed twice a    *)
(* vertex would wait for its own lock.                                     *)
IsSimple(g) ==
    /\ g \in [VertexSet -> Seq(VertexSet)]
    /\ \A v \in VertexSet : \A a, b \in 1..Len(g[v]) :
         /\ g[v][a] # v
         /\ g[v][a] = g[v][b] => a = b
         /\ \E c \in 1..Len(g[g[v][a]]) : g[g[v][a]][c] = v

Init ==
    /\ G \in Graphs /\ IsSimple(G)
    /\ Flags = [v \in VertexSet |-> 0]
    /\ V = [v \in VertexSet |-> FALSE]
    /\ pc = [v \in VertexSet |-> "look"] /\ k = [v \in VertexSet |-> 0] /\ j = k

Goto(v, l) == pc' = [pc EXCEPT ![v] = l]

(* Drop out if already in or out of the set.                               *)
Look(v) ==
    /\ pc[v] = "look"
    /\ Goto(v, IF Flags[v] # 0 THEN "done" ELSE "lock")
    /\ UNCHANGED <<G, Flags, V, k, j>>

LockSelfByStore(v) ==                  \* mutant: a store in place of the CAS
    /\ pc[v] = "lock"
    /\ V' = [V EXCEPT ![v] = TRUE]
    /\ k' = [k EXCEPT ![v] = 0]
    /\ Goto(v, "neighbours")
    /\ UNCHANGED <<G, Flags, j>>

LockSelf(v) ==
    /\ pc[v] = "lock"
    /\ IF V[v] THEN Goto(v, "look") /\ UNCHANGED <<V, k>>
               ELSE /\ V' = [V EXCEPT ![v] = TRUE]
                    /\ k' = [k EXCEPT ![v] = 0]
                    /\ Goto(v, "neighbours")
    /\ UNCHANGED <<G, Flags, j>>

(* The neighbour is out of the set, so it needs no lock.                   *)
SkipNeighbour(v) ==
    /\ pc[v] = "neighbours" /\ k[v] < degree(v)
    /\ IF Flags[Ngh(v, k[v])] = 2
         THEN k' = [k EXCEPT ![v] = @ + 1] /\ pc' = pc
         ELSE k' = k /\ Goto(v, "lock neighbour")
    /\ UNCHANGED <<G, Flags, V, j>>

LockNeighbour(v) ==
    /\ pc[v] = "lock neighbour"
    /\ IF V[Ngh(v, k[v])]
         THEN Goto(v, "unlock") /\ UNCHANGED <<V, k>>
         ELSE /\ V' = [V EXCEPT ![Ngh(v, k[v])] = TRUE]
              /\ k' = [k EXCEPT ![v] = @ + 1]
              /\ Goto(v, "neighbours")
    /\ UNCHANGED <<G, Flags, j>>

Win(v) ==
    /\ pc[v] = "neighbours" /\ k[v] = degree(v)
    /\ Flags' = [Flags EXCEPT ![v] = 1]
    /\ j' = [j EXCEPT ![v] = 0]
    /\ Goto(v, "cover")
    /\ UNCHANGED <<G, V, k>>

Cover(v) ==
    /\ pc[v] = "cover" /\ j[v] < degree(v)
    /\ Flags' = [Flags EXCEPT ![Ngh(v, j[v])] = 2]
    /\ j' = [j EXCEPT ![v] = @ + 1]
    /\ UNCHANGED <<G, V, pc, k>>

CoverEnds(v) ==
    /\ pc[v] = "cover" /\ j[v] = degree(v)
    /\ Goto(v, "look")
    /\ UNCHANGED <<G, Flags, V, k, j>>

(* A loser unlocks itself, then the neighbours before the one that it lost,*)
(* but for those that are out of the set, which it did not lock.           *)
UnlockSelf(v) ==
    /\ pc[v] = "unlock"
    /\ V' = [V EXCEPT ![v] = FALSE]
    /\ j' = [j EXCEPT ![v] = 0]
    /\ Goto(v, "unlock neighbours")
    /\ UNCHANGED <<G, Flags, k>>

UnlockNeighbour(v) ==
    /\ pc[v] = "unlock neighbours" /\ j[v] < k[v]
    /\ V' = IF Flags[Ngh(v, j[v])] # 2 THEN [V EXCEPT ![Ngh(v, j[v])] = FALSE] ELSE V
    /\ j' = [j EXCEPT ![v] = @ + 1]
    /\ UNCHANGED <<G, Flags, pc, k>>

UnlockTooFew(v) ==                     \* mutant: not the last one it locked
    /\ pc[v] = "unlock neighbours" /\ j[v] >= k[v] - 1
    /\ Goto(v, "look")
    /\ UNCHANGED <<G, Flags, V, k, j>>

UnlockEnds(v) ==
    /\ pc[v] = "unlock neighbours" /\ j[v] = k[v]
    /\ Goto(v, "look")
    /\ UNCHANGED <<G, Flags, V, k, j>>

Vertex(v) ==
    \/ Look(v) \/ LockSelf(v) \/ SkipNeighbour(v) \/ LockNeighbour(v)
    \/ Win(v) \/ Cover(v) \/ CoverEnds(v)
    \/ UnlockSelf(v) \/ UnlockNeighbour(v) \/ UnlockEnds(v)

AllDone == \A v \in VertexSet : pc[v] = "done"
Stopped == AllDone /\ UNCHANGED vars

Next == Stopped \/ \E v \in VertexSet : Vertex(v)

Spec == Init /\ [][Next]_vars

-----------------------------------------------------------------------------
(* Properties.                                                             *)

(* The chosen vertices are independent at every moment, not only at the    *)
(* end, and only neighbours of chosen vertices are ruled out.              *)
Independent ==
    \A v \in VertexSet :
      /\ Flags[v] = 1 => \A w \in Adjacent(v) : Flags[w] # 1
      /\ Flags[v] = 2 => \E w \in Adjacent(v) : Flags[w] = 1

(* The vertices whose locks v has taken and not given back.                *)
Locked(v, a, b) == {w \in {Ngh(v, d) : d \in a..(b - 1)} : Flags[w] # 2}
Holds(v) ==
    {x \in VertexSet :
       \/ /\ pc[v] \in {"neighbours", "lock neighbour", "unlock"}
          /\ x = v \/ x \in Locked(v, 0, k[v])
       \/ pc[v] = "unlock neighbours" /\ x \in Locked(v, j[v], k[v])
       \/ pc[v] = "cover" /\ (x = v \/ x \in Adjacent(v))}

(* A lock on a vertex that is not decided is held by exactly one vertex    *)
(* that will give it back or decide it.  A lock no one holds would make    *)
(* the vertex and its neighbours try for ever.                             *)
LocksAreOwned ==
    /\ \A v, w \in VertexSet : v # w => {x \in Holds(v) \cap Holds(w) : Flags[x] # 2} = {}
    /\ \A x \in VertexSet : V[x] /\ Flags[x] = 0 => \E v \in VertexSet : x \in Holds(v)

(* When all are done the set is maximal.                                   *)
MaximalAtEnd == AllDone => \A v \in VertexSet : Flags[v] # 0

(* Both: what the program promises.                                        *)
MaximalIndependent == Independent /\ MaximalAtEnd

(* A flag once set stays.                                                  *)
KeepsDecisions == \A v \in VertexSet : Flags[v] # 0 => Flags'[v] = Flags[v]
DecidedStays == [][KeepsDecisions]_vars

(* The inductive invariant.  A vertex holds locks that are set, of         *)
(* vertices that nobody has decided until it wins; a lock is never given   *)
(* back once its vertex is decided, so that nobody can lock it after a     *)
(* read of its flag that has grown old.                                    *)
TypeOK ==
    /\ G \in Graphs /\ IsSimple(G)
    /\ Flags \in [VertexSet -> {0, 1, 2}] /\ V \in [VertexSet -> BOOLEAN]
    /\ pc \in [VertexSet -> {"look", "lock", "neighbours", "lock neighbour", "cover",
                            "unlock", "unlock neighbours", "done"}]
    /\ k \in [VertexSet -> Nat] /\ j \in [VertexSet -> Nat]

Place(v) ==
    /\ pc[v] = "neighbours" => k[v] <= degree(v)
    /\ pc[v] \in {"lock neighbour", "unlock", "unlock neighbours"} => k[v] < degree(v)
    /\ pc[v] = "unlock neighbours" => j[v] <= k[v]
    /\ pc[v] = "cover" => j[v] <= degree(v) /\ \A d \in 0..(j[v] - 1) : Flags[Ngh(v, d)] = 2
    /\ pc[v] = "done" => Flags[v] # 0
PlaceInv == \A v \in VertexSet : Place(v)

LockInv ==
    /\ \A v \in VertexSet : \A x \in Holds(v) : V[x]
    /\ \A x \in VertexSet : Flags[x] # 0 => V[x]
    /\ \A v \in VertexSet : IF pc[v] = "cover" THEN Flags[v] = 1
                            ELSE \A x \in Holds(v) : Flags[x] = 0

MISInv == TypeOK /\ PlaceInv /\ LockInv /\ LocksAreOwned /\ Independent
=============================================================================
