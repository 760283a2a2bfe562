------------------------------- MODULE SpecMIS -------------------------------
(***************************************************************************)
(* Maximal independent set on top of speculative_for:                      *)
(* benchmarks/maximalIndependentSet/incrementalMIS/MIS.C.  Iteration i is  *)
(* vertex i.  reserve looks at the neighbours before i, which were decided *)
(* in earlier rounds or not at all; commit records what it found.          *)
(***************************************************************************)
EXTENDS SpeculativeFor

CONSTANT
    Graphs          \* the inputs: the neighbours of every vertex

(* Graphs have their edges in both directions, and no loops.               *)
ASSUME SpecMISAssumption ==
    \A g \in Graphs :
      /\ g \in [Iterations -> SUBSET Iterations]
      /\ \A i \in Iterations : \A j \in g[i] : i # j /\ i \in g[j]

VARIABLES
    GS,             \* the graph
    Flags,          \* 0 undecided, 1 chosen, 2 a neighbour is chosen
    flag            \* the field flag of state[k]

misVars == <<specVars, GS, Flags, flag>>

MISInit ==
    /\ Init
    /\ GS \in Graphs
    /\ Flags = [i \in Iterations |-> 0]
    /\ flag = [k \in Slots |-> 0]       \* uninitialized: written before it is read

OneForAll(k) == 0                      \* mutant: hasState is false

(* The copy of the step that slot k works with: hasState is true.          *)
State(k) == k

LaterToo(i, f) == \E ngh \in GS[i] : Flags[ngh] = f      \* mutant: no ngh < i

(* Has a neighbour that comes before i the flag f?                         *)
Earlier(i, f) == \E ngh \in GS[i] : ngh < i /\ Flags[ngh] = f

FlagForgetsToWait(i) == IF Earlier(i, 1) THEN 2 ELSE 1   \* mutant

FlagOf(i) == IF Earlier(i, 1) THEN 2
             ELSE IF Earlier(i, 0) THEN 0
             ELSE 1

MISReserve(k) ==
    /\ phase = "reserve" /\ at[k] = "todo"
    /\ flag' = [flag EXCEPT ![State(k)] = FlagOf(Iteration(k))]
    /\ EndReserve(k, TRUE)
    /\ UNCHANGED <<GS, Flags>>

MISCommit(k) ==
    /\ phase = "commit" /\ at[k] = "todo"
    /\ Flags' = [Flags EXCEPT ![I[k]] = flag[State(k)]]
    /\ EndCommit(k, flag[State(k)] > 0)
    /\ UNCHANGED <<GS, flag>>

MISNext ==
    \/ (DriverNext \/ Stopped) /\ UNCHANGED <<GS, Flags, flag>>
    \/ \E k \in Slots : MISReserve(k) \/ MISCommit(k)

MISSpec == MISInit /\ [][MISNext]_misVars

-----------------------------------------------------------------------------
(* Properties.                                                             *)

(* serialMIS/MIS.C lines 36-45: a vertex is chosen unless an earlier       *)
(* neighbour is.                                                           *)
Serial[i \in Iterations] ==
    IF \E j \in GS[i] : j < i /\ Serial[j] = 1 THEN 2 ELSE 1

(* Between rounds every vertex whose iteration is complete has the flag    *)
(* that the serial loop gives it, and no other vertex has any.             *)
SerialResult ==
    phase \in {"start", "end"} =>
      \A i \in Iterations : Flags[i] = IF committed[i] = 0 THEN 0 ELSE Serial[i]

(* A flag once decided stays, and within a round no neighbour of a vertex  *)
(* that gets chosen has been or gets chosen: the set stays independent at  *)
(* every moment.                                                           *)
StaysIndependent ==
    [][\A i \in Iterations :
         /\ Flags[i] # 0 => Flags'[i] = Flags[i]
         /\ Flags'[i] = 1 => \A j \in GS[i] : Flags'[j] # 1]_misVars

(* The inductive invariant.  What a vertex has found in reserve is right   *)
(* or undecided, however old it is when commit records it; and flags and   *)
(* completed iterations go together, also within a round.                  *)
FlagsInv ==
    /\ GS \in Graphs
    /\ Flags \in [Iterations -> {0, 1, 2}] /\ flag \in [Slots -> {0, 1, 2}]
    /\ \A i \in Iterations : Flags[i] = IF committed[i] = 0 THEN 0 ELSE Serial[i]
    /\ \A k \in Running : phase = "commit" \/ (phase = "reserve" /\ at[k] = "ready") =>
                            flag[k] \in {0, Serial[Iteration(k)]}

(* The first vertex of a round is decided in it: all before it are.        *)
FirstFlag ==
    0 \in Running /\ (phase = "commit" \/ (phase = "reserve" /\ at[0] = "ready")) => flag[0] # 0

FirstVertexInv == FirstDone /\ FirstFlag
=============================================================================
