------------------------------- MODULE TaskDag -------------------------------
(***************************************************************************)
(* What pardo promises: a fork-join program is a tree of tasks, and the    *)
(* body of a task is a sequence of pardos, each with a left and a right    *)
(* child.  A child runs once, after the pardos before its own are over; a  *)
(* task ends after all its children have.                                  *)
(***************************************************************************)
EXTENDS Naturals, Sequences

CONSTANTS
    Tasks,     \* the thunks of one run of a program
    Root,      \* the one the main thread starts with
    Pardos     \* [Tasks -> the sequence of its pardos, each <<left, right>>]

VARIABLES
    starts,    \* [Tasks -> how often its thunk has been entered]
    ends       \* [Tasks -> how often its thunk has returned]

vars == <<starts, ends>>

Children(t, i) == {Pardos[t][i][1], Pardos[t][i][2]}

Init == /\ starts = [t \in Tasks |-> IF t = Root THEN 1 ELSE 0]
        /\ ends = [t \in Tasks |-> 0]

Start(t) ==
    /\ starts[t] = 0
    /\ \E p \in Tasks : \E i \in DOMAIN Pardos[p] :
         /\ t \in Children(p, i)
         /\ starts[p] = 1 /\ ends[p] = 0
         /\ \A k \in 1..(i - 1) : \A c \in Children(p, k) : ends[c] = 1
    /\ starts' = [starts EXCEPT ![t] = 1]
    /\ UNCHANGED ends

End(t) ==
    /\ starts[t] = 1 /\ ends[t] = 0
    /\ \A i \in DOMAIN Pardos[t] : \A c \in Children(t, i) : ends[c] = 1
    /\ ends' = [ends EXCEPT ![t] = 1]
    /\ UNCHANGED starts

Next == \E t \in Tasks : Start(t) \/ End(t)

Spec == Init /\ [][Next]_vars
=============================================================================
