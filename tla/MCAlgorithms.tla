----------------------------- MODULE MCAlgorithms -----------------------------
(***************************************************************************)
(* The pure algorithms on every input up to a length: of keys, of edges or *)
(* of points, given one by one.  When it is complete all the algorithms    *)
(* for its kind are called on it, and each property compares what they     *)
(* return with reference definitions.  A tree of points is built at once   *)
(* and changed by batches, as the actions of OctTree say.                  *)
(***************************************************************************)
EXTENDS Examples, ParallelLoops, GraphTools, PlaneAlgorithms, OctTree

CONSTANTS
    Kinds,          \* of "keys", "edges", "points" and "tree"
    MaxLength,      \* of the inputs of keys
    MaxSearched,    \* of those for searches and selection
    MaxText,        \* of strings
    Letters,        \* the keys are those below
    MaxEdges,       \* of a graph
    MaxArrays,      \* of one that is made into adjacency arrays
    MaxFiles,       \* of one that is written into files
    MaxPoints       \* of a hull

VARIABLES
    kind,           \* of the input
    input,          \* a sequence of keys, or of places in Edges or Plane
    called          \* have the algorithms been called on it?

treeVars == <<tree, tree_box, contents, batches>>
vars == <<kind, input, called, treeVars>>

\* inputs of the greatest length have one letter less
Within(in, max) ==
    IF Len(in) = max THEN ToSet(in) \subseteq 0..(Letters - 2) ELSE Len(in) < max

\* what edges and points are taken from, in this order; an edge has a weight
VertexCount == 5
Edges == << <<0, 1, 2>>, <<3, 4, 1>>, <<1, 0, 2>>, <<1, 2, 0>>, <<2, 2, 0>>, <<0, 2, 2>>, <<2, 3, 1>>,
            <<4, 0, 0>>, <<3, 4, 0>>, <<1, 3, 1>> >>
Plane == << <<2, 2>>, <<0, 2>>, <<3, 0>>, <<1, 1>>, <<1, 3>>, <<0, 0>>, <<2, 0>>, <<3, 3>>, <<1, 0>>,
            <<2, 3>>, <<3, 1>>, <<0, 1>> >>
MCVertices == { <<1, <<0, 0>>>>, <<2, <<1, 1>>>>, <<3, <<2, 1>>>>, <<4, <<3, 0>>>>, <<5, <<3, 1>>>>, <<6, <<1, 3>>>> }

MCInit == kind \in Kinds /\ input = << >> /\ called = FALSE /\ TreeInit

GiveKey ==
    /\ kind = "keys"
    /\ \E key \in 0..(Letters - 1) : input' = Append(input, key)
    /\ Within(input', MaxLength)

\* each set of edges or points in one order
GiveOf(what, pool, max) ==
    /\ kind = what /\ Len(input) < max
    /\ \E i \in DOMAIN pool : (input # << >> => i > Last(input)) /\ input' = Append(input, i)

Give ==
    /\ ~called
    /\ GiveKey \/ GiveOf("edges", Edges, MaxEdges) \/ GiveOf("points", Plane, MaxPoints)
    /\ UNCHANGED <<kind, called, treeVars>>

Change == ~called /\ kind = "tree" /\ TreeNext /\ UNCHANGED <<kind, input, called>>

Call == ~called /\ called' = TRUE /\ UNCHANGED <<kind, input, treeVars>>

MCNext == Give \/ Change \/ Call
MCSpec == MCInit /\ [][MCNext]_vars

\* what stands for the hash function and for random numbers
MCHash == <<5, 2, 7, 1, 4, 3, 6, 0, 11, 9, 8, 13, 4, 2, 7, 5, 3, 1, 6>>

Elements_ == [i \in DOMAIN input |-> <<input[i], i>>]
\* "<doc", what a document begins with: no part of it is also its beginning
Header == <<0, 2>>

\* the points of a range query, at even coordinates, and rectangles with odd corners
SweptPoints(list) == [i \in DOMAIN list |-> <<2 * Plane[list[i]][1], 2 * Plane[list[i]][2], i>>]
ByCoordinate == SortSeq(input, LAMBDA i, j : Plane[i][1] < Plane[j][1])
Spans   == << <<-1, 1>>, <<-1, 3>>, <<-1, 5>>, <<1, 3>>, <<1, 7>>, <<3, 5>>, <<5, 7>> >>
Queries == [i \in DOMAIN Spans |-> [x1 |-> Spans[i][1], x2 |-> Spans[i][2], y1 |-> -1, y2 |-> 3]]
             \o [i \in DOMAIN Spans |-> [x1 |-> Spans[i][1], x2 |-> Spans[i][2], y1 |-> 1, y2 |-> 7]]

\* digits, and what the keys are as the digits of one number
Numerals == [i \in DOMAIN input |-> <<0, 1, 3>>[input[i] + 1]]
Number   == FoldLeft(LAMBDA x, key : Letters * x + key, 0, input)

Distinct_ == [i \in DOMAIN input |-> <<rank(Elements_)[i], i>>]

(* A parallel loop over as many indices as the input has keys, and up to   *)
(* three times as many, calls its body once on each, under every scheduler *)
(* plugin and granularity.                                                 *)
LoopsRunOnce ==
    [][called' /\ kind = "keys" /\ ToSet(input) \subseteq {0} =>
           \A start \in 0..1, g \in 0..4 : LoopRunsOnce(start, start + Len(input), g)
                                           /\ LoopRunsOnce(start, start + 3 * Len(input), g)]_vars


(* Every sort returns its input sorted, the stable ones with equal keys in *)
(* order; grouping returns each key once with all that belongs to it.      *)
SortsAndGroups ==
    [][called' /\ kind = "keys" => /\ SortsRight(Elements_)
                  /\ IntegerSortsRight(Elements_, Letters)
                  /\ GroupsRight(Elements_, Letters)]_vars





(* The points that the sweep goes over are not sorted by the program: in   *)
(* the order in which they come, too, rectangles have as many points as    *)
(* the naive count of range.C:85-92 says.                                  *)
RangesAreCounted ==
    [][called' /\ kind = "points" /\ input # << >> => RangesCounted(SweptPoints(input), Queries)]_vars

(* neighbors.h:36, "find the k nearest neighbors for all points in tree",  *)
(* by the version that is its default.                                     *)
AllNearestFound ==
    [][called' /\ tree # NoNode => \A k \in 1..2 : FindsNearest(tree, tree_box, k, 2)]_vars

(* What test_group_by.cpp:853 asserts of remove_duplicate_integers, with   *)
(* one more integer allowed than the keys have values.                     *)
NoDuplicatesLeft == [][called' /\ kind = "keys" /\ input # << >> => DuplicatesRemoved(Elements_, Letters)]_vars
===============================================================================
