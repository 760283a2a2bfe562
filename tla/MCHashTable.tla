----------------------------- MODULE MCHashTable -----------------------------
(* A small table in which keys collide and runs wrap around the end.       *)
EXTENDS HashTable

(* Bound: two hash functions: all keys in one run, and two runs that touch.*)
OneRun  == [k \in Keys |-> IF k % 2 = 0 THEN m - 2 ELSE m - 1]
TwoRuns == [k \in Keys |-> IF k % 2 = 0 THEN m - 1 ELSE 1]
MCHashes == {OneRun, TwoRuns}

-----------------------------------------------------------------------------
(* A table made for 210 values that holds 210 values of the same hash, and *)
(* one deletion of a key that was inserted late.                           *)

Size     == 210
MCm      == CellsFor(Size)
MCKeys   == 1..Size
AllAtZero == {[k \in Keys |-> 0]}

(* The layout that the inserts of all keys in any order end with: the      *)
(* largest key is first.                                                   *)
FullInit ==
    /\ hash \in Hashes
    /\ TA = [a \in Cells |-> IF a < Size THEN Size - a ELSE empty]
    /\ phase = "delete" /\ before = Keys
    /\ key \in [Procs -> {1, 2, 3}]
    /\ contents = before \ {key[q] : q \in Procs}
    /\ returned = [q \in Procs |-> FALSE]
    /\ at = [q \in Procs |-> "delete"]
    /\ v = key
    /\ i = [q \in Procs |-> hash[key[q]]] /\ c = [q \in Procs |-> empty]
    /\ j = i /\ jj = i /\ jjj = i /\ x = c

FullSpec == FullInit /\ [][\E q \in Procs : TableOperation(q)]_tableVars
=============================================================================
