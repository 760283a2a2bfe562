-------------------------------- MODULE NdST --------------------------------
(***************************************************************************)
(* The nondeterministic spanning forest of                                 *)
(* benchmarks/spanningForest/ndST/ST.C over the union-find structure of    *)
(* algorithm/union_find.h.  All edges run in parallel; each finds the      *)
(* roots of its ends, hooks the smaller root with a CAS and links it to    *)
(* the larger.  Finds shorten paths while other edges link.                *)
(*                                                                         *)
(* Each step is one access to shared memory.  Two reads in a row of the    *)
(* parent of a vertex that is not a root are one: such a vertex stays one, *)
(* and the second read could have been the first.                          *)
(***************************************************************************)
EXTENDS Integers

CONSTANTS
    n, m,           \* numbers of vertices and edges
    STGraphs          \* the inputs: functions from edges to [u, v]

Vertices == 0..(n - 1)
Edges    == 0..(m - 1)

(* What is assumed of the input.                                           *)
ASSUME NdSTAssumption ==
    n \in Nat /\ m \in Nat /\ STGraphs \subseteq [Edges -> [u : Vertices, v : Vertices]]

VARIABLES
    E,
    parents,        \* -1 at a root
    hooks,          \* the edge that linked the vertex, m for none
    place,
    u, v,           \* the locals of the loop body
    i, p, gp        \* the locals of find

locals == <<u, v, i, p, gp>>
stVars == <<E, parents, hooks, place, locals>>

is_root(x) == parents[x] < 0

STInit ==
    /\ E \in STGraphs
    /\ parents = [x \in Vertices |-> -1]
    /\ hooks = [x \in Vertices |-> m]
    /\ u = [e \in Edges |-> E[e].u] /\ v = [e \in Edges |-> E[e].v]
    /\ i = u /\ p = u /\ gp = u
    /\ place = [e \in Edges |-> "find u"]

-----------------------------------------------------------------------------
(* find, lines 43-56 of union_find.h; u first, then v.                     *)

Finding(e) == place[e] \in {"find u", "find v"}

(* The call of find has returned r.                                        *)
Found(e, r, of) ==
    IF of = "u" THEN /\ u' = [u EXCEPT ![e] = r] /\ v' = v
                     /\ i' = [i EXCEPT ![e] = v[e]]
                     /\ place' = [place EXCEPT ![e] = "find v"]
                ELSE /\ v' = [v EXCEPT ![e] = r] /\ UNCHANGED <<u, i>>
                     /\ place' = [place EXCEPT ![e] = "compare"]

Which(e) == IF place[e] \in {"find u", "parent u", "shortcut u"} THEN "u" ELSE "v"

FindFirst(e) ==
    /\ Finding(e)
    /\ IF is_root(i[e])
         THEN Found(e, i[e], Which(e)) /\ p' = p
         ELSE /\ p' = [p EXCEPT ![e] = parents[i[e]]]
              /\ place' = [place EXCEPT ![e] = IF Which(e) = "u" THEN "parent u" ELSE "parent v"]
              /\ UNCHANGED <<u, v, i>>
    /\ UNCHANGED <<E, parents, hooks, gp>>

FindParent(e) ==
    /\ place[e] \in {"parent u", "parent v"}
    /\ IF is_root(p[e])
         THEN Found(e, p[e], Which(e)) /\ gp' = gp
         ELSE /\ gp' = [gp EXCEPT ![e] = parents[p[e]]]
              /\ place' = [place EXCEPT ![e] =
                             IF Which(e) = "u" THEN "shortcut u" ELSE "shortcut v"]
              /\ UNCHANGED <<u, v, i>>
    /\ UNCHANGED <<E, parents, hooks, p>>

Shortcut(e) ==
    /\ place[e] \in {"shortcut u", "shortcut v"}
    /\ parents' = [parents EXCEPT ![i[e]] = gp[e]]
    /\ i' = [i EXCEPT ![e] = p[e]] /\ p' = [p EXCEPT ![e] = gp[e]]
    /\ place' = [place EXCEPT ![e] = IF Which(e) = "u" THEN "parent u" ELSE "parent v"]
    /\ UNCHANGED <<E, hooks, u, v, gp>>

-----------------------------------------------------------------------------
(* The loop body, lines 22-33 of ST.C.                                     *)

Break(e) ==
    /\ place[e] = "compare" /\ u[e] = v[e]
    /\ place' = [place EXCEPT ![e] = "done"]
    /\ UNCHANGED <<E, parents, hooks, locals>>

CompareNoSwap(e) ==                    \* mutant: links any root to any
    /\ place[e] = "compare" /\ u[e] # v[e]
    /\ place' = [place EXCEPT ![e] = "hook"]
    /\ UNCHANGED <<E, parents, hooks, locals>>

Compare(e) ==
    /\ place[e] = "compare" /\ u[e] # v[e]
    /\ u' = [u EXCEPT ![e] = IF u[e] > v[e] THEN v[e] ELSE u[e]]
    /\ v' = [v EXCEPT ![e] = IF u[e] > v[e] THEN u[e] ELSE v[e]]
    /\ place' = [place EXCEPT ![e] = "hook"]
    /\ UNCHANGED <<E, parents, hooks, i, p, gp>>

HookTaken(e) ==                        \* mutant: writes without the CAS
    /\ place[e] = "hook"
    /\ hooks' = [hooks EXCEPT ![u[e]] = e]
    /\ place' = [place EXCEPT ![e] = "link"]
    /\ UNCHANGED <<E, parents, locals>>

HookAndWait(e) ==                      \* mutant: tries the same root again
    /\ place[e] = "hook"
    /\ IF hooks[u[e]] = m
         THEN hooks' = [hooks EXCEPT ![u[e]] = e] /\ place' = [place EXCEPT ![e] = "link"]
         ELSE UNCHANGED <<hooks, place>>
    /\ UNCHANGED <<E, parents, locals>>

(* The test of hooks[u] and the CAS.  A lost one starts over with find(u). *)
Hook(e) ==
    /\ place[e] = "hook"
    /\ IF hooks[u[e]] = m
         THEN /\ hooks' = [hooks EXCEPT ![u[e]] = e]
              /\ place' = [place EXCEPT ![e] = "link"] /\ i' = i
         ELSE /\ hooks' = hooks
              /\ place' = [place EXCEPT ![e] = "find u"] /\ i' = [i EXCEPT ![e] = u[e]]
    /\ UNCHANGED <<E, parents, u, v, p, gp>>

link(e) ==
    /\ place[e] = "link"
    /\ parents' = [parents EXCEPT ![u[e]] = v[e]]
    /\ place' = [place EXCEPT ![e] = "done"]
    /\ UNCHANGED <<E, hooks, locals>>

Edge(e) ==
    \/ FindFirst(e) \/ FindParent(e) \/ Shortcut(e)
    \/ Break(e) \/ Compare(e) \/ Hook(e) \/ link(e)

(* parallel_for has returned.                                              *)
STDone == \A e \in Edges : place[e] = "done"
STStopped == STDone /\ UNCHANGED stVars

STNext == STStopped \/ \E e \in Edges : Edge(e)

STSpec == STInit /\ [][STNext]_stVars

-----------------------------------------------------------------------------
(* Properties.                                                             *)

STTypeOK ==
    /\ E \in STGraphs
    /\ parents \in [Vertices -> Vertices \cup {-1}]
    /\ hooks \in [Vertices -> Edges \cup {m}]
    /\ place \in [Edges -> {"find u", "parent u", "shortcut u", "find v", "parent v",
                         "shortcut v", "compare", "hook", "link", "done"}]
    /\ \A f \in {u, v, i, p, gp} : f \in [Edges -> Vertices]

(* Parents are larger, whichever links and shortcuts are written in        *)
(* whatever order: there is never a cycle.                                 *)
Acyclic == \A x \in Vertices : is_root(x) \/ parents[x] > x

(* The result: the edges in hooks.                                         *)
stIdx == {hooks[x] : x \in Vertices} \ {m}

(* Two sets of pairs connect the same vertices if the same sets of         *)
(* vertices are closed under them.                                         *)
Closed(S, pairs) == \A e \in pairs : e.u \in S <=> e.v \in S
SameComponents(a, b) == \A S \in SUBSET Vertices : Closed(S, a) <=> Closed(S, b)

Ends(edges) == {E[e] : e \in edges}
ParentPairs == {[u |-> x, v |-> parents[x]] : x \in {y \in Vertices : ~is_root(y)}}

(* The trees of the union-find structure are the components of the edges   *)
(* linked so far.                                                          *)
Linked == {e \in stIdx : place[e] = "done"}
TreesAreComponents == SameComponents(ParentPairs, Ends(Linked))

(* Both: shortcuts and links, stale or not, never build a cycle, detach a  *)
(* vertex or move it to another tree.                                      *)
UnionFindIsSound == Acyclic /\ TreesAreComponents

(* Edges that have been hooked form no cycle: each joins what the others   *)
(* leave apart.                                                            *)
HooksAreForest ==
    \A e \in stIdx : ~SameComponents(Ends(stIdx), Ends(stIdx \ {e}))

(* When the loop is done the hooked edges span the graph.                  *)
SpansGraph == STDone => SameComponents(Ends(stIdx), Ends(Edges))

(* Both: what st returns is a spanning forest.                             *)
HooksSpan == HooksAreForest /\ SpansGraph

(* The inductive invariant.  What a find has seen is larger than where it  *)
(* has seen it, and a vertex that has got a parent keeps one.              *)
Ascends(e) ==
    /\ place[e] \in {"parent u", "parent v", "shortcut u", "shortcut v"} =>
          i[e] < p[e] /\ ~is_root(i[e])
    /\ place[e] \in {"shortcut u", "shortcut v"} => p[e] < gp[e] /\ ~is_root(p[e])
    /\ place[e] \in {"hook", "link"} => u[e] < v[e]
OrderInv == \A e \in Edges : Ascends(e)

(* Who has hooked a root, and only he, links it.                           *)
HookInv ==
    /\ \A x \in Vertices :
         IF hooks[x] = m THEN is_root(x)
         ELSE /\ place[hooks[x]] \in {"link", "done"}
              /\ place[hooks[x]] = "link" => u[hooks[x]] = x /\ is_root(x)
    /\ \A e \in Edges : place[e] = "link" => hooks[u[e]] = e

(* A set that cuts no tree has all of what a find has seen or none of it,  *)
(* and separates the two roots that an edge has found if and only if it    *)
(* separates the ends of the edge, whatever has been linked since.         *)
Uncut(S)       == \A x \in Vertices : is_root(x) \/ (x \in S <=> parents[x] \in S)
SameSide(S, e) == E[e].u \in S <=> E[e].v \in S
Start(e)       == IF Which(e) = "u" THEN u[e] ELSE v[e]
Together(S, e) ==
    /\ (u[e] \in S <=> v[e] \in S) <=> SameSide(S, e)
    /\ place[e] \in {"find u", "find v", "parent u", "parent v", "shortcut u", "shortcut v"} =>
          (i[e] \in S <=> Start(e) \in S)
    /\ place[e] \in {"parent u", "parent v", "shortcut u", "shortcut v"} =>
          (p[e] \in S <=> Start(e) \in S)
    /\ place[e] \in {"shortcut u", "shortcut v"} => (gp[e] \in S <=> Start(e) \in S)
    /\ place[e] = "done" => SameSide(S, e)
TreeInv == \A S \in SUBSET Vertices : Uncut(S) => \A e \in Edges : Together(S, e)

STInv ==
    /\ STTypeOK
    /\ Acyclic
    /\ OrderInv
    /\ HookInv
    /\ TreeInv
    /\ TreesAreComponents
    /\ HooksAreForest
=============================================================================
