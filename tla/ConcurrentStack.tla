--------------------------- MODULE ConcurrentStack ---------------------------
(***************************************************************************)
(* What hazptr_stack promises: a stack whose operations take effect at one *)
(* moment between their call and their return.                             *)
(***************************************************************************)
EXTENDS Integers, Sequences

CONSTANTS Procs, Values

VARIABLES
    items,          \* the stack, the top first
    op              \* [proc -> its operation, its argument or result]

vars == <<items, op>>

Idle         == [call |-> "none"]
Pushing(t)   == [call |-> "push", arg |-> t]
Popping      == [call |-> "pop"]
Sizing       == [call |-> "size"]
Returning(r) == [call |-> "return", result |-> r]
Nothing      == << >>                  \* the result of push

Init ==
    /\ items = << >>
    /\ op = [p \in Procs |-> Idle]

Call(p) ==
    /\ op[p] = Idle
    /\ op' \in {[op EXCEPT ![p] = c] : c \in {Popping, Sizing} \cup {Pushing(t) : t \in Values}}
    /\ UNCHANGED items

Push(p) ==
    /\ op[p].call = "push"
    /\ items' = << op[p].arg >> \o items
    /\ op' = [op EXCEPT ![p] = Returning(Nothing)]

Pop(p) ==
    /\ op[p].call = "pop" /\ items # << >>
    /\ items' = Tail(items)
    /\ op' = [op EXCEPT ![p] = Returning(<< Head(items) >>)]

(* A pop that finds the stack empty has nothing more to do.                *)
PopNothing(p) ==
    /\ op[p].call = "pop" /\ items = << >>
    /\ op' = [op EXCEPT ![p] = Idle]
    /\ UNCHANGED items

Size(p) ==
    /\ op[p].call = "size"
    /\ op' = [op EXCEPT ![p] = Returning(<< Len(items) >>)]
    /\ UNCHANGED items

Return(p) ==
    /\ op[p].call = "return"
    /\ op' = [op EXCEPT ![p] = Idle]
    /\ UNCHANGED items

Next ==
    \E p \in Procs :
      Call(p) \/ Push(p) \/ Pop(p) \/ PopNothing(p) \/ Size(p) \/ Return(p)

Spec == Init /\ [][Next]_vars
=============================================================================
