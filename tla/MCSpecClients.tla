---------------------------- MODULE MCSpecClients ----------------------------
(***************************************************************************)
(* speculative_for with steps that do anything at all, and its four        *)
(* clients on small graphs: maximal matching, maximal independent set,     *)
(* minimum spanning forest, spanning forest.  One state machine stands for *)
(* all of them: which one runs is chosen at the start, and each uses those *)
(* of the variables below that it has.                                     *)
(***************************************************************************)
EXTENDS SpecMIS, SpecMatching, SpecForests

(* Inputs for the graph algorithms: lists of 12 edges on seven vertices    *)
(* that compete with one another in different ways.                        *)
Edge(a, b) == [u |-> a, v |-> b]

Path     == << Edge(1, 2), Edge(2, 3), Edge(3, 4), Edge(4, 5), Edge(5, 6), Edge(6, 7),
               Edge(7, 1), Edge(1, 3), Edge(3, 5), Edge(5, 7), Edge(7, 2), Edge(2, 4) >>
Separate == << Edge(1, 2), Edge(4, 3), Edge(5, 6), Edge(2, 7), Edge(7, 5), Edge(3, 1),
               Edge(7, 6), Edge(7, 4), Edge(1, 6), Edge(1, 7), Edge(3, 5), Edge(2, 4) >>
Star     == << Edge(1, 1), Edge(2, 1), Edge(1, 3), Edge(4, 1), Edge(1, 5), Edge(2, 6),
               Edge(6, 2), Edge(3, 6), Edge(4, 4), Edge(4, 7), Edge(4, 3), Edge(7, 3) >>
Crossed  == << Edge(1, 2), Edge(3, 4), Edge(4, 1), Edge(2, 3), Edge(5, 4), Edge(4, 6),
               Edge(6, 5), Edge(5, 7), Edge(2, 7), Edge(7, 1), Edge(6, 7), Edge(7, 6) >>

(* Bound: every choice of the first three edges from four, an edge in both *)
(* directions and a loop among them, before the last nine of Crossed.      *)
Kinds    == {Edge(1, 2), Edge(2, 1), Edge(2, 3), Edge(4, 4)}
EdgeLists ==
    {Path, Separate, Star, Crossed}
    \cup {first \o SubSeq(Crossed, 4, 12) : first \in [1..3 -> Kinds]}

CONSTANT
    Clients         \* which of the steps

VARIABLE client

vars == <<specVars, client, GS, Flags, flag, E, R, matched, G, parents, inST, roots>>

ASSUME EdgesAssumption == ForestAssumption

Unused == "unused"

(* The variables of the others; those of the independent set are where it  *)
(* starts, since StaysIndependent speaks of them at all times.             *)
NoMIS ==
    /\ GS = CHOOSE g \in Graphs : TRUE
    /\ Flags = [i \in Iterations |-> 0] /\ flag = [k \in Slots |-> 0]
NoEdges    == E = Unused /\ R = Unused
NoMatching == matched = Unused
NoForest   == G = Unused /\ parents = Unused /\ inST = Unused /\ roots = Unused

MCInit ==
    /\ client \in Clients
    /\ \/ client = "any" /\ Init /\ NoMIS /\ NoEdges /\ NoMatching /\ NoForest
       \/ client = "mis" /\ MISInit /\ NoEdges /\ NoMatching /\ NoForest
       \/ client = "matching" /\ MatchingInit /\ NoMIS /\ NoForest
       \/ client = "kruskal" /\ KruskalInit /\ NoMIS /\ NoMatching
       \/ client = "st" /\ STInit /\ NoMIS /\ NoMatching

AnyRuns == client = "any" /\ Next /\ UNCHANGED <<GS, Flags, flag, E, R, matched, G, parents, inST, roots>>
MISRuns == client = "mis" /\ MISNext /\ UNCHANGED <<E, R, matched, G, parents, inST, roots>>
MatchingRuns ==
    client = "matching" /\ MatchingNext /\ UNCHANGED <<GS, Flags, flag, G, parents, inST, roots>>
KruskalRuns == client = "kruskal" /\ KruskalNext /\ UNCHANGED <<GS, Flags, flag, matched>>
STRuns      == client = "st" /\ STNext /\ UNCHANGED <<GS, Flags, flag, matched>>

MCNext ==
    /\ AnyRuns \/ MISRuns \/ MatchingRuns \/ KruskalRuns \/ STRuns
    /\ UNCHANGED client

(* Some thread takes a step as long as there is one to take.               *)
MCSpec == MCInit /\ [][MCNext]_vars /\ WF_vars(MCNext)

-----------------------------------------------------------------------------
(* The properties of the clients, see their modules.  StaysIndependent is  *)
(* the one of SpecMIS.                                                     *)

(* Matching, independent set and minimum spanning forest are those of the  *)
(* serial loops, whatever the interleaving and the round sizes; the        *)
(* spanning forest spans what is completed.  The invariants next to each   *)
(* are what its proof goes by.                                             *)
ResultsAreRight ==
    /\ client = "matching" => MatchingResult /\ MatchingInv /\ FirstEdgeInv
    /\ client = "mis" => SerialResult /\ FlagsInv /\ FirstVertexInv
    /\ client = "kruskal" =>
         /\ KruskalIsSerial /\ FirstHasRoots
         /\ ForestTypeOK /\ ReservedInv /\ HolderInv /\ EdgesInv
    /\ client = "st" => ResultSpans /\ STInv /\ FirstHasLarger

(* Between rounds exactly the reservations of edges that were taken are    *)
(* there: a stray one would stop all later edges at its vertex.            *)
ReservationsAtRest ==
    /\ client = "matching" => MatchingReservations
    /\ client = "kruskal" => RootsAreFree
    /\ client = "st" => ReservedAreLinked

(* Links of one round never close a cycle, in which find would not return. *)
LinksAreAcyclic ==
    /\ client = "kruskal" => Acyclic
    /\ client = "st" => ParentsAreSmaller

(* The reserve and commit of each client are a step that speculative_for   *)
(* may take as a whole.                                                    *)
Step == INSTANCE SpeculativeFor WITH
          at <- [k \in Slots |-> IF at[k] = "ready" THEN "ready" ELSE "todo"]
Implements == Step!Spec

(* Every round with any slots completes an iteration: the smallest one of  *)
(* a round loses no reservation and has nobody to wait for.                *)
EveryRoundAdvances ==
    [][client # "any" /\ phase = "commit" /\ phase' = "start" /\ size > 0 =>
         numberDone' > numberDone]_vars

(* The loop of each client ends, with every iteration completed.           *)
Terminates == client # "any" => <>(phase = "end")

-----------------------------------------------------------------------------
(* The inputs.                                                             *)

NotGiven == -1                         \* the default of maxTries

GraphOf(list) == [i \in Iterations |-> list[i + 1 - s]]
MCEdgeGraphs == {GraphOf(list) : list \in EdgeLists}

(* Bound: every graph on the first four vertices, the others in a path     *)
(* that starts at the first vertex and ends in the second.                 *)
Small == s..(s + 3)
Rim   == {{s, s + 4}, {s + 1, e - 1}} \cup {{i, i + 1} : i \in (s + 4)..(e - 2)}
Neighbors(edges) == [i \in Iterations |-> {j \in Iterations : {i, j} \in edges /\ j # i}]
MCVertexGraphs ==
    {Neighbors(edges \cup Rim) : edges \in SUBSET {p \in SUBSET Small : Cardinality(p) = 2}}

(* A graph with so few edges that a quarter of maxRoundSize is nothing.    *)
FewEdges == {GraphOf(<< Edge(1, 2), Edge(3, 4), Edge(2, 3), Edge(4, 1) >>)}
=============================================================================
