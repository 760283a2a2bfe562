----------------------------- MODULE HazptrStack -----------------------------
(***************************************************************************)
(* The lock-free stack of parlay/internal/concurrency/hazptr_stack.h with  *)
(* the hazard pointers of acquire_retire.h that reclaim its nodes.         *)
(*                                                                         *)
(* One action per access to shared memory; all of them are sequentially    *)
(* consistent in the code.  Memory is a set of nodes: new takes one that   *)
(* is not allocated, so an address that was freed comes back at once.      *)
(***************************************************************************)
EXTENDS Integers, Sequences, FiniteSets

CONSTANTS
    N,              \* the threads are 1 .. N
    Nodes, Values, Null,
    Threshold       \* retires between two ejects: 30 or more in the code

ASSUME HazptrStackAssumption ==
    /\ N \in Nat \ {0} /\ Threshold \in Nat \ {0}
    /\ Null \notin Nodes /\ IsFiniteSet(Nodes)

Threads == 1..N

VARIABLES
    head,
    allocated,      \* the nodes that are allocated
    t, next, length,            \* the fields of the nodes
    announcements, amortized_work,
    retired,        \* per thread the multiset of the nodes it retired: in which
                    \* order they are listed shows only in when they are freed
    pc,
    call,           \* the operation: "push", "pop" or "size"
    p,              \* the variable p: the node to push, or the one popped
    result,         \* what acquire has loaded
    after,          \* p->next, as pop has read it
    val,            \* what pop and size return
    announced,      \* the multiset of the announcements scanned, by node
    scanned         \* how many have been scanned

heap   == <<allocated, t, next, length>>
hazard == <<announcements, retired, amortized_work>>
scan   == <<announced, scanned>>
local  == <<call, p, result, after, val>>
vars   == <<head, heap, hazard, pc, local, scan>>

LocalsEnd(i) ==                        \* the operation returns
    /\ call' = [call EXCEPT ![i] = "none"]
    /\ p' = [p EXCEPT ![i] = Null] /\ result' = [result EXCEPT ![i] = Null]
    /\ after' = [after EXCEPT ![i] = Null] /\ val' = [val EXCEPT ![i] = Null]

At(i, l)   == pc[i] = l
Goto(i, l) == pc' = [pc EXCEPT ![i] = l]

NoNodes == [x \in Nodes |-> 0]        \* the empty multiset

Init ==
    /\ head = Null
    /\ allocated = {}
    /\ t = [x \in Nodes |-> Null]
    /\ next = [x \in Nodes |-> Null] /\ length = [x \in Nodes |-> 0]
    /\ announcements = [i \in Threads |-> Null]
    /\ retired = [i \in Threads |-> NoNodes]
    /\ amortized_work = [i \in Threads |-> 0]
    /\ pc = [i \in Threads |-> "idle"]
    /\ call = [i \in Threads |-> "none"]
    /\ p = [i \in Threads |-> Null] /\ result = p /\ after = p /\ val = p
    /\ announced = [i \in Threads |-> NoNodes]
    /\ scanned = [i \in Threads |-> 0]

(* Bound: freed nodes are scrubbed.  Nobody reads them: NoUseAfterFree.    *)
Free(X) ==
    /\ allocated' = allocated \ X
    /\ t' = [x \in Nodes |-> IF x \in X THEN Null ELSE t[x]]
    /\ next' = [x \in Nodes |-> IF x \in X THEN Null ELSE next[x]]
    /\ length' = [x \in Nodes |-> IF x \in X THEN 0 ELSE length[x]]

-----------------------------------------------------------------------------
(* The calls, up to their first acquire.                                   *)

CallPush(i, v) ==
    /\ At(i, "idle")
    /\ \E x \in Nodes \ allocated :
         /\ allocated' = allocated \cup {x}
         /\ t' = [t EXCEPT ![x] = v]
         /\ next' = [next EXCEPT ![x] = Null] /\ length' = [length EXCEPT ![x] = 1]
         /\ p' = [p EXCEPT ![i] = x]
    /\ call' = [call EXCEPT ![i] = "push"]
    /\ Goto(i, "load")
    /\ UNCHANGED <<head, hazard, result, after, val, scan>>

CallOther(i, c) ==
    /\ At(i, "idle")
    /\ call' = [call EXCEPT ![i] = c]
    /\ Goto(i, "load")
    /\ UNCHANGED <<head, heap, hazard, p, result, after, val, scan>>

-----------------------------------------------------------------------------
(* acquire, lines 42-47.                                                   *)

Load(i) ==
    /\ At(i, "load")
    /\ result' = [result EXCEPT ![i] = head]
    /\ Goto(i, "announce")
    /\ UNCHANGED <<head, heap, hazard, call, p, after, val, scan>>

Announce(i) ==
    /\ At(i, "announce")
    /\ announcements' = [announcements EXCEPT ![i] = result[i]]
    /\ Goto(i, "check")
    /\ UNCHANGED <<head, heap, retired, amortized_work, local, scan>>

CheckNever(i) ==                       \* mutant: trusts what it has announced
    /\ At(i, "check") /\ ~(call[i] = "pop" /\ result[i] = Null)
    /\ Goto(i, "acquired")
    /\ UNCHANGED <<head, heap, hazard, local, scan>>

Check(i) ==
    /\ At(i, "check") /\ ~(call[i] = "pop" /\ head = Null /\ result[i] = Null)
    /\ Goto(i, IF head = result[i] THEN "acquired" ELSE "load")
    /\ UNCHANGED <<head, heap, hazard, local, scan>>

(* The pop of an empty stack returns.  It does not release: what it has    *)
(* announced is no node.                                                   *)
PopEmpty(i) ==
    /\ At(i, "check") /\ call[i] = "pop" /\ head = Null /\ result[i] = Null
    /\ Goto(i, "idle")
    /\ LocalsEnd(i)
    /\ UNCHANGED <<head, heap, hazard, scan>>

-----------------------------------------------------------------------------
(* push, lines 50-54 of its file.  The weak compare_exchange may fail with *)
(* no reason; it then writes head into p->next, which the next turn of the *)
(* loop overwrites.                                                        *)

PushLink(i) ==
    /\ At(i, "acquired") /\ call[i] = "push"
    /\ next' = [next EXCEPT ![p[i]] = result[i]]
    /\ length' = [length EXCEPT ![p[i]] = IF result[i] = Null THEN 1 ELSE length[result[i]] + 1]
    /\ Goto(i, "cas")
    /\ UNCHANGED <<head, allocated, t, hazard, local, scan>>

PushCas(i) ==
    /\ At(i, "cas") /\ call[i] = "push"
    /\ \/ /\ head = next[p[i]]
          /\ head' = p[i] /\ next' = next
          /\ Goto(i, "release")
       \/ /\ head' = head /\ next' = [next EXCEPT ![p[i]] = head]
          /\ Goto(i, "load")
    /\ UNCHANGED <<allocated, t, length, hazard, local, scan>>

-----------------------------------------------------------------------------
(* pop, lines 63-70 of its file.                                           *)

PopNext(i) ==
    /\ At(i, "acquired") /\ call[i] = "pop"
    /\ after' = [after EXCEPT ![i] = next[result[i]]]
    /\ Goto(i, "cas")
    /\ UNCHANGED <<head, heap, hazard, call, p, result, val, scan>>

PopCas(i) ==
    /\ At(i, "cas") /\ call[i] = "pop"
    /\ \/ /\ head = result[i]
          /\ head' = after[i] /\ p' = [p EXCEPT ![i] = result[i]]
          /\ Goto(i, "retire")
       \/ /\ UNCHANGED <<head, p>>
          /\ Goto(i, "load")
    /\ UNCHANGED <<heap, hazard, call, result, after, val, scan>>

(* The value is moved out; retire, lines 56-61, and the head of            *)
(* work_toward_ejects, lines 106-116.  in_progress is left out: to delete  *)
(* a node retires nothing, so it is never found set.                       *)
Retire(i) ==
    /\ At(i, "retire")
    /\ val' = [val EXCEPT ![i] = t[p[i]]]
    /\ retired' = [retired EXCEPT ![i][p[i]] = @ + 1]
    /\ LET full == amortized_work[i] + 1 >= Threshold IN
       /\ amortized_work' = [amortized_work EXCEPT ![i] = IF full THEN 0 ELSE @ + 1]
       /\ Goto(i, IF full THEN "scan" ELSE "release")
    /\ UNCHANGED <<head, heap, announcements, call, p, result, after, scan>>

ScanSlot(i) ==
    /\ At(i, "scan") /\ scanned[i] < N
    /\ scanned' = [scanned EXCEPT ![i] = @ + 1]
    /\ LET x == announcements[scanned'[i]] IN
       announced' = IF x = Null THEN announced ELSE [announced EXCEPT ![i][x] = @ + 1]
    /\ UNCHANGED <<head, heap, hazard, pc, local>>

KeptNever(i, x) == 0                   \* mutant: deletes what others use

(* An announcement of a node protects it from one deferred destruct.       *)
Kept(i, x) == IF retired[i][x] <= announced[i][x] THEN retired[i][x] ELSE announced[i][x]

EjectForgets(i) ==                     \* mutant: line 137 is missing
    /\ At(i, "scan") /\ scanned[i] = N
    /\ Free({x \in Nodes : Kept(i, x) < retired[i][x]})
    /\ retired' = [retired EXCEPT ![i] = NoNodes]
    /\ announced' = [announced EXCEPT ![i] = NoNodes]
    /\ scanned' = [scanned EXCEPT ![i] = 0]
    /\ Goto(i, "release")
    /\ UNCHANGED <<head, announcements, amortized_work, local>>

(* Lines 124-138.  The nodes are freed at once.                            *)
Eject(i) ==
    /\ At(i, "scan") /\ scanned[i] = N
    /\ Free({x \in Nodes : Kept(i, x) < retired[i][x]})
    /\ retired' = [retired EXCEPT ![i] = [x \in Nodes |-> Kept(i, x)]]
    /\ announced' = [announced EXCEPT ![i] = NoNodes]
    /\ scanned' = [scanned EXCEPT ![i] = 0]
    /\ Goto(i, "release")
    /\ UNCHANGED <<head, announcements, amortized_work, local>>

-----------------------------------------------------------------------------
(* size reads the length of the node it acquired; then all operations end  *)
(* with release.                                                           *)

LengthOf(x) == IF x = Null THEN 0 ELSE length[x]

SizeRead(i) ==
    /\ At(i, "acquired") /\ call[i] = "size"
    /\ val' = [val EXCEPT ![i] = LengthOf(result[i])]
    /\ Goto(i, "release")
    /\ UNCHANGED <<head, heap, hazard, call, p, result, after, scan>>

Release(i) ==
    /\ At(i, "release")
    /\ announcements' = [announcements EXCEPT ![i] = Null]
    /\ Goto(i, "idle")
    /\ LocalsEnd(i)
    /\ UNCHANGED <<head, heap, retired, amortized_work, scan>>

Step(i) ==
    \/ \E v \in Values : CallPush(i, v)
    \/ \E c \in {"pop", "size"} : CallOther(i, c)
    \/ Load(i) \/ Announce(i) \/ Check(i) \/ PopEmpty(i)
    \/ PushLink(i) \/ PushCas(i) \/ PopNext(i) \/ PopCas(i)
    \/ Retire(i) \/ ScanSlot(i) \/ Eject(i) \/ SizeRead(i) \/ Release(i)

Next == \E i \in Threads : Step(i)

Spec == Init /\ [][Next]_vars
-----------------------------------------------------------------------------
(* Properties.                                                             *)

(* The list of nodes that head leads to: it is as long as its first node   *)
(* says, it ends there, and has each node once.                            *)
IsChain(q) ==
    /\ head = IF q = << >> THEN Null ELSE q[1]
    /\ q \in Seq(Nodes)
    /\ \A k \in 1..Len(q) : next[q[k]] = IF k = Len(q) THEN Null ELSE q[k + 1]
    /\ \A k, l \in 1..Len(q) : q[k] = q[l] => k = l
Chains  == {q \in [1..LengthOf(head) -> Nodes] : IsChain(q)}
OnStack == LET chains == Chains IN IF chains = {} THEN << >> ELSE CHOOSE q \in chains : TRUE

(* No thread reads a node that was freed: the one that it has acquired is  *)
(* allocated until the thread releases it, whoever pops and retires it.    *)
Using(i, x) == pc[i] \in {"acquired", "cas", "retire"} /\ result[i] = x
NoUseAfterFree == \A i \in Threads, x \in Nodes : Using(i, x) => x \in allocated

(* Each node that is allocated is in one place: on the stack, in the hands *)
(* of the push that made it or the pop that took it, or in one retired     *)
(* list.  So none is freed twice and none is forgotten.                    *)
Pushing(i, x) == call[i] = "push" /\ pc[i] # "release" /\ p[i] = x
Held(i, x)    == Pushing(i, x) \/ (call[i] = "pop" /\ pc[i] = "retire" /\ p[i] = x)
Places(x, q) ==
    {<<"stack", 0, k>> : k \in {k \in DOMAIN q : q[k] = x}}
      \cup {<<"held", i, 1>> : i \in {i \in Threads : Held(i, x)}}
      \cup UNION {{<<"retired", i, k>> : k \in 1..retired[i][x]} : i \in Threads}
NodesAccounted ==
    LET q == OnStack IN
    \A x \in Nodes : IF x \in allocated THEN \E a \in Places(x, q) : Places(x, q) = {a} ELSE Places(x, q) = {}

(* The operations of this module take effect one at a time: a push and a   *)
(* pop when their compare_exchange succeeds, an empty pop and size when    *)
(* the second load of acquire agrees with the first.                       *)
Taken(i) ==                            \* it has taken effect
    \/ call[i] = "push" /\ pc[i] = "release"
    \/ call[i] = "pop"  /\ pc[i] \in {"retire", "scan", "release"}
    \/ call[i] = "size" /\ pc[i] \in {"acquired", "release"}
Result(i) ==
    IF call[i] = "push" THEN << >>
    ELSE IF pc[i] = "acquired" THEN << LengthOf(result[i]) >>
    ELSE IF pc[i] = "retire" THEN << t[p[i]] >>
    ELSE << val[i] >>
Operation(i) ==
    IF pc[i] = "idle" THEN [call |-> "none"]
    ELSE IF Taken(i) THEN [call |-> "return", result |-> Result(i)]
    ELSE IF call[i] = "push" THEN [call |-> "push", arg |-> t[p[i]]]
    ELSE [call |-> call[i]]
Items == LET q == OnStack IN [k \in DOMAIN q |-> t[q[k]]]
Ops   == [i \in Threads |-> Operation(i)]
Stack == INSTANCE ConcurrentStack WITH Procs <- Threads, items <- Items, op <- Ops
Implements == Stack!Spec

-----------------------------------------------------------------------------
(* The inductive invariant.                                                *)

NodeOrNull == Nodes \cup {Null}
TypeOK ==
    /\ head \in NodeOrNull /\ allocated \in SUBSET Nodes
    /\ t \in [Nodes -> Values \cup {Null}]
    /\ next \in [Nodes -> NodeOrNull] /\ length \in [Nodes -> Nat]
    /\ announcements \in [Threads -> NodeOrNull]
    /\ retired \in [Threads -> [Nodes -> Nat]] /\ amortized_work \in [Threads -> Nat]
    /\ pc \in [Threads -> {"idle", "load", "announce", "check", "acquired", "cas",
                           "retire", "scan", "release"}]
    /\ call \in [Threads -> {"none", "push", "pop", "size"}]
    /\ p \in [Threads -> NodeOrNull] /\ result \in [Threads -> NodeOrNull]
    /\ after \in [Threads -> NodeOrNull] /\ val \in [Threads -> Values \cup {Null} \cup Nat]
    /\ announced \in [Threads -> [Nodes -> Nat]] /\ scanned \in [Threads -> 0..N]

(* Where thread i is, and what it knows there.  What it has read of a node *)
(* that it uses is still so.                                               *)
Place(i) ==
    /\ call[i] = "none" <=> pc[i] = "idle"
    /\ call[i] = "push" => pc[i] \notin {"retire", "scan"} /\ p[i] \in Nodes
    /\ call[i] = "size" => pc[i] \notin {"cas", "retire", "scan"}
    /\ pc[i] # "scan" => scanned[i] = 0 /\ announced[i] = NoNodes
    /\ pc[i] \in {"check", "acquired", "cas", "retire"} => announcements[i] = result[i]
    /\ call[i] = "pop" /\ pc[i] \in {"acquired", "cas", "retire"} => result[i] \in Nodes
    /\ call[i] = "pop" /\ pc[i] = "cas" => after[i] = next[result[i]]
    /\ call[i] = "push" /\ pc[i] = "cas" =>
         next[p[i]] = result[i] /\ length[p[i]] = LengthOf(result[i]) + 1
    /\ pc[i] = "retire" => p[i] = result[i]
PlaceInv == \A i \in Threads : Place(i)

ListInv ==
    /\ IsChain(OnStack)
    /\ \A k \in 1..Len(OnStack) : length[OnStack[k]] = Len(OnStack) - k + 1

Listed(x)     == \E k \in 1..Len(OnStack) : OnStack[k] = x
Retired(i, x) == retired[i][x] # 0
OnePlace ==
    /\ \A x \in Nodes : x \in allocated <=>
         Listed(x) \/ \E i \in Threads : Held(i, x) \/ Retired(i, x)
    /\ \A x \in Nodes, i \in Threads :
         /\ Listed(x) => ~Held(i, x) /\ ~Retired(i, x)
         /\ Retired(i, x) => retired[i][x] = 1
         /\ \A j \in Threads :
              /\ Held(i, x) => ~Retired(j, x)
              /\ i # j /\ Held(i, x) => ~Held(j, x)
              /\ i # j /\ Retired(i, x) => ~Retired(j, x)

(* A node that somebody uses is not one that a push is still filling, and  *)
(* whoever wants to free it, and has passed the user's slot, has seen the  *)
(* announcement there.                                                     *)
HazardInv ==
    \A i, j \in Threads, x \in Nodes : Using(i, x) =>
      /\ x \in allocated /\ ~Pushing(j, x)
      /\ Retired(j, x) /\ i <= scanned[j] => announced[j][x] # 0

StackInv == TypeOK /\ PlaceInv /\ ListInv /\ OnePlace /\ HazardInv
=============================================================================
