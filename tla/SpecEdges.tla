------------------------------ MODULE SpecEdges ------------------------------
(***************************************************************************)
(* What matching and the two forests share: iteration i is edge i of a     *)
(* graph, and vertices have cells in which edges reserve them, the         *)
(* reservation of common/speculative_for.h.                                *)
(***************************************************************************)
EXTENDS SpeculativeFor

CONSTANTS
    Vertices,
    EdgeGraphs      \* the inputs: functions from Iterations to edges [u, v]

VARIABLES
    E,              \* the edges
    R               \* a reservation for each vertex
=============================================================================
