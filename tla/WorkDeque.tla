------------------------------ MODULE WorkDeque ------------------------------
(***************************************************************************)
(* What the work-stealing deque of scheduler.h promises to the scheduler   *)
(* that calls it: a sequence of jobs, worked at the bottom by its owner    *)
(* and at the top by thieves.  An operation is a call, one atomic effect,  *)
(* and a result.  The owner's pop is exact: it comes back empty-handed     *)
(* only when the deque is empty.  A thief's pop is relaxed: it may come    *)
(* back empty-handed at any time, but what it does return it has removed.  *)
(* Deque.tla is shown to implement this specification.                     *)
(***************************************************************************)
EXTENDS Naturals, Sequences

CONSTANTS
    Jobs,       \* the job pointers a caller may push
    Thieves,    \* the threads that call pop_top
    NullJob,    \* nullptr, not a job
    Pending     \* the result of a pop that has not taken effect yet

VARIABLES
    items,         \* the jobs in the deque, top first
    bottomResult,  \* what the owner's latest pop_bottom returned
    topResult      \* [Thieves -> what that thief's latest pop_top returned]

vars == <<items, bottomResult, topResult>>

Results == Jobs \cup {NullJob, Pending}

TypeOK == /\ items \in Seq(Jobs)
          /\ bottomResult \in Results
          /\ topResult \in [Thieves -> Results]

Init == /\ items = << >>
        /\ bottomResult = NullJob
        /\ topResult = [t \in Thieves |-> NullJob]

Contents(s) == {s[i] : i \in 1..Len(s)}

-----------------------------------------------------------------------------
(* The owner.                                                              *)

PushBottom(job) ==
    /\ bottomResult # Pending
    /\ job \notin Contents(items)
    /\ items' = Append(items, job)
    /\ UNCHANGED <<bottomResult, topResult>>

CallPopBottom ==
    /\ bottomResult # Pending
    /\ bottomResult' = Pending
    /\ UNCHANGED <<items, topResult>>

PopBottom ==
    /\ bottomResult = Pending
    /\ items # << >>
    /\ bottomResult' = items[Len(items)]
    /\ items' = SubSeq(items, 1, Len(items) - 1)
    /\ UNCHANGED topResult

PopBottomEmpty ==
    /\ bottomResult = Pending
    /\ items = << >>
    /\ bottomResult' = NullJob
    /\ UNCHANGED <<items, topResult>>

-----------------------------------------------------------------------------
(* A thief.                                                                *)

CallPopTop(t) ==
    /\ topResult[t] # Pending
    /\ topResult' = [topResult EXCEPT ![t] = Pending]
    /\ UNCHANGED <<items, bottomResult>>

PopTop(t) ==
    /\ topResult[t] = Pending
    /\ items # << >>
    /\ topResult' = [topResult EXCEPT ![t] = Head(items)]
    /\ items' = Tail(items)
    /\ UNCHANGED bottomResult

PopTopGivesUp(t) ==
    /\ topResult[t] = Pending
    /\ topResult' = [topResult EXCEPT ![t] = NullJob]
    /\ UNCHANGED <<items, bottomResult>>

-----------------------------------------------------------------------------
Next == \/ \E job \in Jobs : PushBottom(job)
        \/ CallPopBottom
        \/ PopBottom
        \/ PopBottomEmpty
        \/ \E t \in Thieves : CallPopTop(t) \/ PopTop(t) \/ PopTopGivesUp(t)

Spec == Init /\ [][Next]_vars
=============================================================================
