-------------------------- MODULE HazptrStackProofs --------------------------
(***************************************************************************)
(* The lock-free stack: for every number of threads, every set of nodes    *)
(* and values and every threshold, no node is read after it is freed, none *)
(* is freed twice or lost, and the operations take effect one at a time.   *)
(***************************************************************************)
EXTENDS HazptrStack, SequenceTheorems, WellFoundedInduction, TLAPS

USE HazptrStackAssumption

(* --------------------------- The list ---------------------------------- *)

LEMMA SmallestNat ==
    ASSUME NEW S, S \subseteq Nat, S # {}
    PROVE  \E a \in S : \A b \in S : ~ (b < a)
<1>1. \E a \in S : \A b \in S : ~ (<<b, a>> \in OpToRel(<, Nat))
  BY NatLessThanWellFounded, WFMin
<1>2. QED
  BY <1>1 DEF OpToRel

(* Two lists from head of the same length are one.                         *)
LEMMA ChainUnique ==
    ASSUME NEW q, NEW r, IsChain(q), IsChain(r), Len(q) = Len(r)
    PROVE  q = r
<1>1. q \in Seq(Nodes) /\ r \in Seq(Nodes)
  BY DEF IsChain
<1> DEFINE Differ == {k \in 1..Len(q) : q[k] # r[k]}
<1>2. Differ = {}
  <2> SUFFICES ASSUME Differ # {} PROVE FALSE
    OBVIOUS
  <2>1. Differ \subseteq Nat
    OBVIOUS
  <2>2. PICK a \in Differ : \A b \in Differ : ~ (b < a)
    BY <2>1, SmallestNat
  <2>3. a \in 1..Len(q) /\ q[a] # r[a] /\ Len(q) \in Nat
    BY <1>1
  <2>4. a # 1
    <3>1. Len(q) # 0
      BY <2>3
    <3>2. q # << >> /\ r # << >>
      BY <3>1
    <3>3. q[1] = r[1]
      BY <3>2 DEF IsChain
    <3>4. QED
      BY <2>3, <3>3
  <2>5. a - 1 \in 1..Len(q) /\ a - 1 < a /\ a - 1 # Len(q)
    BY <2>3, <2>4
  <2>6. q[a - 1] = r[a - 1]
    BY <2>2, <2>5
  <2>7. next[q[a - 1]] = q[a - 1 + 1] /\ next[r[a - 1]] = r[a - 1 + 1]
    BY <2>5 DEF IsChain
  <2>8. a - 1 + 1 = a
    BY <2>3
  <2>9. QED
    BY <2>3, <2>6, <2>7, <2>8
<1>3. QED
  BY <1>1, <1>2, SeqEqual

(* So OnStack is the list.                                                 *)
OnlyList == \A q : IsChain(q) /\ Len(q) = LengthOf(head) => OnStack = q

LEMMA OnStackIs == OnlyList
<1> SUFFICES ASSUME NEW q, IsChain(q), Len(q) = LengthOf(head) PROVE OnStack = q
  BY DEF OnlyList
<1>1. q \in Seq(Nodes) /\ Len(q) \in Nat
  BY DEF IsChain
<1>2. q \in [1..LengthOf(head) -> Nodes]
  BY <1>1
<1>3. q \in Chains
  BY <1>2 DEF Chains
<1>4. OnStack \in Chains
  BY <1>3 DEF OnStack
<1>5. IsChain(OnStack) /\ OnStack \in [1..Len(q) -> Nodes]
  BY <1>4 DEF Chains
<1>6. OnStack \in Seq(Nodes)
  BY <1>5 DEF IsChain
<1>7. Len(OnStack) = Len(q)
  BY <1>1, <1>5, <1>6
<1>8. QED
  BY <1>5, <1>7, ChainUnique

LEMMA OnStackIsPrime == OnlyList'
BY OnStackIs, PTL

(* The list as ListInv has it.                                             *)
LEMMA ListFacts ==
    ASSUME TypeOK, ListInv
    PROVE  /\ OnStack \in Seq(Nodes) /\ Len(OnStack) \in Nat
           /\ Len(OnStack) = LengthOf(head)
           /\ head = IF OnStack = << >> THEN Null ELSE OnStack[1]
<1>1. OnStack \in Seq(Nodes) /\ Len(OnStack) \in Nat
  BY DEF ListInv, IsChain
<1>2. head = IF OnStack = << >> THEN Null ELSE OnStack[1]
  BY DEF ListInv, IsChain
<1>3. CASE OnStack = << >>
  BY <1>2, <1>3 DEF LengthOf
<1>4. CASE OnStack # << >>
  <2>1. 1 \in 1..Len(OnStack) /\ Len(OnStack) - 1 + 1 = Len(OnStack)
    BY <1>1, <1>4
  <2>2. length[OnStack[1]] = Len(OnStack) /\ OnStack[1] # Null
    BY <1>1, <2>1 DEF ListInv
  <2>3. QED
    BY <1>1, <1>2, <1>4, <2>2 DEF LengthOf
<1>5. QED
  BY <1>1, <1>2, <1>3, <1>4

(* A step that writes to no node of the list and not to head keeps it.     *)
LEMMA ListStays ==
    ASSUME TypeOK, ListInv, head' = head,
           \A x \in Nodes : Listed(x) => next'[x] = next[x] /\ length'[x] = length[x]
    PROVE  OnStack' = OnStack /\ ListInv'
<1> DEFINE q == OnStack
<1>1. q \in Seq(Nodes) /\ Len(q) \in Nat /\ Len(q) = LengthOf(head)
  BY ListFacts
<1>2. \A k \in 1..Len(q) : q[k] \in Nodes /\ Listed(q[k])
  BY <1>1 DEF Listed
<1>3. \A k \in 1..Len(q) : next'[q[k]] = next[q[k]] /\ length'[q[k]] = length[q[k]]
  BY <1>2
<1>4. \A r : r = OnStack => IsChain(r)'
  BY <1>3 DEF IsChain, ListInv
<1>5. LengthOf(head)' = LengthOf(head)
  <2>1. CASE head = Null
    BY <2>1 DEF LengthOf
  <2>2. CASE head # Null
    <3>1. q # << >> /\ head = q[1]
      BY <2>2, ListFacts
    <3>2. 1 \in 1..Len(q)
      BY <1>1, <3>1
    <3>3. QED
      BY <1>3, <2>2, <3>1, <3>2 DEF LengthOf
  <2>3. QED
    BY <2>1, <2>2
<1>6. OnStack' = OnStack
  <2>1. \A r : r = OnStack => OnStack' = r
    BY <1>1, <1>4, <1>5, OnStackIsPrime DEF OnlyList
  <2>2. QED
    BY <2>1
<1>7. QED
  BY <1>3, <1>4, <1>6 DEF ListInv

(* --------------------------- The types --------------------------------- *)

LEMMA TypeStep == ASSUME TypeOK, PlaceInv, [Next]_vars PROVE TypeOK'
<1>1. CASE UNCHANGED vars
  BY <1>1 DEF TypeOK, vars, heap, hazard, scan, local
<1>2. ASSUME NEW i \in Threads, Step(i) PROVE TypeOK'
  <2>1. ASSUME NEW v \in Values, CallPush(i, v) PROVE TypeOK'
    BY <2>1 DEF CallPush, TypeOK, NodeOrNull, Goto, hazard, scan
  <2>2. ASSUME NEW c \in {"pop", "size"}, CallOther(i, c) PROVE TypeOK'
    BY <2>2 DEF CallOther, TypeOK, NodeOrNull, Goto, heap, hazard, scan
  <2>3. CASE Load(i)
    BY <2>3 DEF Load, TypeOK, NodeOrNull, Goto, heap, hazard, scan, local
  <2>4. CASE Announce(i)
    BY <2>4 DEF Announce, TypeOK, NodeOrNull, Goto, heap, hazard, scan, local
  <2>5. CASE Check(i)
    BY <2>5 DEF Check, TypeOK, NodeOrNull, Goto, heap, hazard, scan, local
  <2>6. CASE PopEmpty(i)
    BY <2>6 DEF PopEmpty, TypeOK, NodeOrNull, Goto, heap, hazard, scan, local, LocalsEnd
  <2>7. CASE PushLink(i)
    <3>1. p[i] \in Nodes /\ result[i] \in NodeOrNull /\ length \in [Nodes -> Nat]
      BY <2>7 DEF PushLink, TypeOK, PlaceInv, Place
    <3>2. (IF result[i] = Null THEN 1 ELSE length[result[i]] + 1) \in Nat
      BY <3>1 DEF NodeOrNull
    <3>3. length' \in [Nodes -> Nat]
      BY <2>7, <3>1, <3>2 DEF PushLink
    <3>4. next' \in [Nodes -> NodeOrNull]
      BY <2>7, <3>1 DEF PushLink, TypeOK
    <3>5. pc' = [pc EXCEPT ![i] = "cas"]
      BY <2>7 DEF PushLink, Goto
    <3>6. QED
      BY <2>7, <3>3, <3>4, <3>5 DEF PushLink, TypeOK, hazard, scan, local
  <2>8. CASE PushCas(i)
    <3>1. p[i] \in Nodes /\ head \in NodeOrNull
      BY <2>8 DEF PushCas, TypeOK, PlaceInv, Place
    <3>2. next' \in [Nodes -> NodeOrNull]
      BY <2>8, <3>1 DEF PushCas, TypeOK
    <3>3. head' \in NodeOrNull
      BY <2>8, <3>1 DEF PushCas, NodeOrNull
    <3>4. pc' = [pc EXCEPT ![i] = "release"] \/ pc' = [pc EXCEPT ![i] = "load"]
      BY <2>8 DEF PushCas, Goto
    <3>5. QED
      BY <2>8, <3>2, <3>3, <3>4 DEF PushCas, TypeOK, hazard, scan, local
  <2>9. CASE PopNext(i)
    <3>1. next[result[i]] \in NodeOrNull
      <4>1. result[i] \in Nodes
        BY <2>9 DEF PopNext, At, PlaceInv, Place
      <4>2. QED
        BY <4>1 DEF TypeOK
    <3>2. after' \in [Threads -> NodeOrNull]
      BY <2>9, <3>1 DEF PopNext, TypeOK
    <3>3. pc' = [pc EXCEPT ![i] = "cas"]
      BY <2>9 DEF PopNext, Goto
    <3>4. QED
      BY <2>9, <3>2, <3>3 DEF PopNext, TypeOK, heap, hazard, scan
  <2>10. CASE PopCas(i)
    <3>1. head' \in NodeOrNull
      BY <2>10 DEF PopCas, TypeOK
    <3>2. p' \in [Threads -> NodeOrNull]
      BY <2>10 DEF PopCas, TypeOK
    <3>3. pc' = [pc EXCEPT ![i] = "retire"] \/ pc' = [pc EXCEPT ![i] = "load"]
      BY <2>10 DEF PopCas, Goto
    <3>4. QED
      BY <2>10, <3>1, <3>2, <3>3 DEF PopCas, TypeOK, heap, hazard, scan
  <2>11. CASE Retire(i)
    <3>1. p[i] \in Nodes
      BY <2>11 DEF Retire, At, TypeOK, PlaceInv, Place
    <3>2. val' \in [Threads -> Values \cup {Null} \cup Nat]
      <4>1. t[p[i]] \in Values \cup {Null} \cup Nat
        BY <3>1 DEF TypeOK
      <4>2. QED
        BY <2>11, <4>1 DEF Retire, TypeOK
    <3>3. retired' \in [Threads -> [Nodes -> Nat]]
      <4>1. retired \in [Threads -> [Nodes -> Nat]] /\ retired' = [retired EXCEPT ![i][p[i]] = @ + 1]
        BY <2>11 DEF Retire, TypeOK
      <4>2. QED
        BY <3>1, <4>1
    <3>4. amortized_work' \in [Threads -> Nat]
      <4>1. /\ amortized_work \in [Threads -> Nat]
            /\ \/ amortized_work' = [amortized_work EXCEPT ![i] = 0]
               \/ amortized_work' = [amortized_work EXCEPT ![i] = @ + 1]
        BY <2>11 DEF Retire, TypeOK
      <4>2. QED
        BY <4>1
    <3>5. pc' = [pc EXCEPT ![i] = "scan"] \/ pc' = [pc EXCEPT ![i] = "release"]
      BY <2>11 DEF Retire, Goto
    <3>6. QED
      BY <2>11, <3>2, <3>3, <3>4, <3>5 DEF Retire, TypeOK, heap, scan
  <2>12. CASE ScanSlot(i)
    <3>1. scanned[i] \in 0..N /\ scanned[i] < N /\ scanned' = [scanned EXCEPT ![i] = @ + 1]
      BY <2>12 DEF ScanSlot, TypeOK
    <3>2. scanned' \in [Threads -> 0..N] /\ scanned'[i] \in Threads
      <4>1. scanned[i] + 1 \in 0..N /\ scanned[i] + 1 \in Threads
        BY <3>1 DEF Threads
      <4>2. QED
        BY <3>1, <4>1 DEF TypeOK
    <3>3. announcements[scanned'[i]] \in NodeOrNull
      BY <3>2 DEF TypeOK
    <3>4. announced' \in [Threads -> [Nodes -> Nat]]
      <4>1. /\ announced \in [Threads -> [Nodes -> Nat]]
            /\ \/ announced' = announced
               \/ \E x \in Nodes : announced' = [announced EXCEPT ![i][x] = @ + 1]
        BY <2>12, <3>3 DEF ScanSlot, TypeOK, NodeOrNull
      <4>2. QED
        BY <4>1
    <3>5. QED
      BY <2>12, <3>2, <3>4 DEF ScanSlot, TypeOK, heap, hazard, local
  <2>13. CASE Eject(i)
    BY <2>13 DEF Eject, TypeOK, NodeOrNull, Goto, heap, hazard, scan, local, Free, Kept, NoNodes
  <2>14. CASE SizeRead(i)
    <3>1. LengthOf(result[i]) \in Nat
      <4>1. result[i] \in NodeOrNull /\ length \in [Nodes -> Nat]
        BY DEF TypeOK
      <4>2. QED
        BY <4>1 DEF LengthOf, NodeOrNull
    <3>2. val' \in [Threads -> Values \cup {Null} \cup Nat]
      BY <2>14, <3>1 DEF SizeRead, TypeOK
    <3>3. pc' = [pc EXCEPT ![i] = "release"]
      BY <2>14 DEF SizeRead, Goto
    <3>4. QED
      BY <2>14, <3>2, <3>3 DEF SizeRead, TypeOK, heap, hazard, scan
  <2>15. CASE Release(i)
    BY <2>15 DEF Release, TypeOK, NodeOrNull, Goto, heap, hazard, scan, local, LocalsEnd
  <2>16. QED
    BY <1>2, <2>1, <2>2, <2>3, <2>4, <2>5, <2>6, <2>7, <2>8, <2>9, <2>10, <2>11, <2>12, <2>13, <2>14, <2>15 DEF Step
<1>3. QED
  BY <1>1, <1>2 DEF Next

(* ------------------------- One step of i ------------------------------- *)

(* It leaves the locals of the others alone, and their announcements.      *)
LEMMA OthersStay ==
    ASSUME TypeOK, NEW i \in Threads, Step(i), NEW j \in Threads, j # i
    PROVE  /\ pc'[j] = pc[j] /\ call'[j] = call[j] /\ p'[j] = p[j] /\ result'[j] = result[j]
           /\ after'[j] = after[j] /\ val'[j] = val[j]
           /\ announcements'[j] = announcements[j] /\ retired'[j] = retired[j]
           /\ announced'[j] = announced[j] /\ scanned'[j] = scanned[j]
<1> DEFINE Own(f, g) == g = f \/ \E e : g = [f EXCEPT ![i] = e]
<1> USE DEF CallPush, CallOther, Load, Announce, Check, PopEmpty, PushLink, PushCas, PopNext, PopCas,
            Retire, ScanSlot, Eject, SizeRead, Release, LocalsEnd, Goto, heap, hazard, scan, local
<1>2. Own(pc, pc')
  BY DEF Step
<1>3. Own(call, call')
  BY DEF Step
<1>4. Own(p, p')
  BY DEF Step
<1>5. Own(result, result')
  BY DEF Step
<1>6. Own(after, after')
  BY DEF Step
<1>7. Own(val, val')
  BY DEF Step
<1>8. Own(announcements, announcements')
  BY DEF Step
<1>9. Own(retired, retired')
  BY DEF Step
<1>10. Own(announced, announced')
  BY DEF Step
<1>11. Own(scanned, scanned')
  BY DEF Step
<1>12. pc'[j] = pc[j]
  BY <1>2 DEF TypeOK
<1>13. call'[j] = call[j]
  BY <1>3 DEF TypeOK
<1>14. p'[j] = p[j]
  BY <1>4 DEF TypeOK
<1>15. result'[j] = result[j]
  BY <1>5 DEF TypeOK
<1>16. after'[j] = after[j]
  BY <1>6 DEF TypeOK
<1>17. val'[j] = val[j]
  BY <1>7 DEF TypeOK
<1>18. announcements'[j] = announcements[j]
  BY <1>8 DEF TypeOK
<1>19. retired'[j] = retired[j]
  BY <1>9 DEF TypeOK
<1>20. announced'[j] = announced[j]
  BY <1>10 DEF TypeOK
<1>21. scanned'[j] = scanned[j]
  BY <1>11 DEF TypeOK
<1>22. QED
  BY <1>12, <1>13, <1>14, <1>15, <1>16, <1>17, <1>18, <1>19, <1>20, <1>21

(* What Eject frees: what nobody has announced.                            *)
LEMMA EjectFrees ==
    ASSUME StackInv, NEW i \in Threads, Eject(i), NEW x \in Nodes
    PROVE  /\ x \in allocated' <=> x \in allocated /\ ~(Retired(i, x) /\ announced[i][x] = 0)
           /\ retired'[i][x] = IF Retired(i, x) /\ announced[i][x] # 0 THEN 1 ELSE 0
<1>1. retired[i][x] \in Nat /\ announced[i][x] \in Nat
  BY DEF StackInv, TypeOK
<1>2. retired[i][x] = 0 \/ retired[i][x] = 1
  BY <1>1 DEF StackInv, OnePlace, Retired
<1>3. Kept(i, x) = IF Retired(i, x) /\ announced[i][x] # 0 THEN 1 ELSE 0
  BY <1>1, <1>2 DEF Kept, Retired
<1>4. Kept(i, x) < retired[i][x] <=> Retired(i, x) /\ announced[i][x] = 0
  BY <1>1, <1>2, <1>3 DEF Retired
<1>5. retired'[i][x] = Kept(i, x)
  BY DEF Eject, StackInv, TypeOK
<1>6. x \in allocated' <=> x \in allocated /\ ~(Kept(i, x) < retired[i][x])
  BY DEF Eject, Free
<1>7. QED
  BY <1>3, <1>4, <1>5, <1>6

LEMMA StaysAllocated ==
    ASSUME StackInv, NEW i \in Threads, Step(i), NEW x \in Nodes, x \in allocated,
           Eject(i) => ~(Retired(i, x) /\ announced[i][x] = 0)
    PROVE  x \in allocated'
<1>1. CASE Eject(i)
  BY <1>1, EjectFrees
<1>2. CASE ~Eject(i)
  BY <1>2 DEF Step, CallPush, CallOther, Load, Announce, Check, PopEmpty, PushLink, PushCas, PopNext,
              PopCas, Retire, ScanSlot, SizeRead, Release, heap
<1>3. QED
  BY <1>1, <1>2

(* Nobody else frees a node that somebody uses.                            *)
LEMMA UsedStays ==
    ASSUME StackInv, NEW i \in Threads, Step(i), NEW j \in Threads, NEW x \in Nodes, Using(j, x)
    PROVE  x \in allocated /\ x \in allocated'
<1>1. x \in allocated
  BY DEF StackInv, HazardInv
<1>2. ASSUME Eject(i), Retired(i, x) PROVE announced[i][x] # 0
  <2>1. scanned[i] = N /\ j <= N
    BY <1>2 DEF Eject, Threads
  <2>2. QED
    BY <1>2, <2>1 DEF StackInv, HazardInv
<1>3. QED
  BY <1>1, <1>2, StaysAllocated

(* Nor one that is on the stack or held.                                   *)
LEMMA PlacedStays ==
    ASSUME StackInv, NEW i \in Threads, Step(i), NEW x \in Nodes,
           Listed(x) \/ \E j \in Threads : Held(j, x)
    PROVE  x \in allocated /\ x \in allocated'
<1>1. x \in allocated /\ ~Retired(i, x)
  BY DEF StackInv, OnePlace
<1>2. QED
  BY <1>1, StaysAllocated

(* A push writes to its own node; nobody writes to another that stays.     *)
LEMMA NodeWrites ==
    ASSUME StackInv, NEW i \in Threads, Step(i), NEW x \in Nodes, x \in allocated, x \in allocated'
    PROVE  /\ t'[x] = t[x]
           /\ ~Pushing(i, x) => next'[x] = next[x] /\ length'[x] = length[x]
<1>1. CASE \E v \in Values : CallPush(i, v)
  BY <1>1 DEF CallPush, StackInv, TypeOK
<1>2. CASE PushLink(i) \/ PushCas(i)
  <2>1. call[i] = "push" /\ pc[i] # "release" /\ p[i] \in Nodes
    BY <1>2 DEF PushLink, PushCas, At, StackInv, PlaceInv, Place
  <2>2. t' = t
    BY <1>2 DEF PushLink, PushCas
  <2>3. ~Pushing(i, x) => x # p[i]
    BY <2>1 DEF Pushing
  <2>4. x # p[i] => next'[x] = next[x] /\ length'[x] = length[x]
    BY <1>2 DEF PushLink, PushCas, StackInv, TypeOK
  <2>5. QED
    BY <2>2, <2>3, <2>4
<1>3. CASE Eject(i)
  BY <1>3 DEF Eject, Free
<1>4. CASE UNCHANGED heap
  BY <1>4 DEF heap
<1>5. QED
  BY <1>1, <1>2, <1>3, <1>4 DEF Step, CallOther, Load, Announce, Check, PopEmpty, PopNext, PopCas,
     Retire, ScanSlot, SizeRead, Release, heap
(* ---------------------- The list and its steps ------------------------- *)

Pushes(i) == PushCas(i) /\ head = next[p[i]] /\ head' = p[i] /\ next' = next /\ Goto(i, "release")
Pops(i)   == PopCas(i) /\ head = result[i] /\ head' = after[i] /\ p' = [p EXCEPT ![i] = result[i]]
                       /\ Goto(i, "retire")

LEMMA PushSucceeds ==
    ASSUME StackInv, NEW i \in Threads, Pushes(i)
    PROVE  /\ p[i] \in Nodes /\ head # p[i]
           /\ OnStack' = << p[i] >> \o OnStack /\ ListInv'
<1> DEFINE q == OnStack
           new == p[i]
           r == << new >> \o q
<1>1. /\ q \in Seq(Nodes) /\ Len(q) \in Nat /\ Len(q) = LengthOf(head)
      /\ head = IF q = << >> THEN Null ELSE q[1]
  BY ListFacts DEF StackInv
<1>2. new \in Nodes /\ call[i] = "push" /\ pc[i] = "cas"
  BY DEF Pushes, PushCas, At, StackInv, PlaceInv, Place
<1>3. next[new] = head /\ length[new] = LengthOf(head) + 1
  BY <1>2 DEF Pushes, StackInv, PlaceInv, Place
<1>4. \A k \in 1..Len(q) : q[k] # new
  <2>1. Held(i, new)
    BY <1>2 DEF Held, Pushing
  <2>2. ~ Listed(new)
    BY <1>2, <2>1 DEF StackInv, OnePlace
  <2>3. QED
    BY <2>2 DEF Listed
<1>5. head' = new /\ next' = next /\ length' = length
  BY DEF Pushes, PushCas
<1>6. r \in Seq(Nodes) /\ Len(r) = Len(q) + 1 /\ r[1] = new /\ \A k \in 1..Len(q) : r[k + 1] = q[k]
  BY <1>1, <1>2
<1>7. \A k \in 1..Len(q) : next[q[k]] = IF k = Len(q) THEN Null ELSE q[k + 1]
  BY DEF StackInv, ListInv, IsChain
<1>8. \A k, l \in 1..Len(q) : q[k] = q[l] => k = l
  BY DEF StackInv, ListInv, IsChain
<1>9. \A k \in 1..Len(q) : length[q[k]] = Len(q) - k + 1
  BY DEF StackInv, ListInv
<1>10. \A k \in 1..Len(r) : k = 1 \/ (k - 1 \in 1..Len(q) /\ r[k] = q[k - 1])
  <2> SUFFICES ASSUME NEW k \in 1..Len(r), k # 1 PROVE k - 1 \in 1..Len(q) /\ r[k] = q[k - 1]
    OBVIOUS
  <2>1. k - 1 \in 1..Len(q) /\ k - 1 + 1 = k
    BY <1>1, <1>6
  <2>2. QED
    BY <1>6, <2>1
<1>11. \A k \in 1..Len(r) : next[r[k]] = IF k = Len(r) THEN Null ELSE r[k + 1]
  <2> SUFFICES ASSUME NEW k \in 1..Len(r) PROVE next[r[k]] = IF k = Len(r) THEN Null ELSE r[k + 1]
    OBVIOUS
  <2>1. CASE k = 1
    <3>1. next[r[k]] = head
      BY <1>3, <1>6, <2>1
    <3>2. CASE q = << >>
      <4>1. Len(q) = 0
        BY <3>2
      <4>2. QED
        BY <1>1, <1>6, <2>1, <3>1, <3>2, <4>1
    <3>3. CASE q # << >>
      <4>1. 1 \in 1..Len(q) /\ k # Len(r)
        BY <1>1, <1>6, <2>1, <3>3
      <4>2. r[k + 1] = q[1]
        BY <1>6, <2>1, <4>1
      <4>3. QED
        BY <1>1, <3>1, <3>3, <4>1, <4>2
    <3>4. QED
      BY <3>2, <3>3
  <2>2. CASE k # 1
    <3>1. k - 1 \in 1..Len(q) /\ r[k] = q[k - 1]
      BY <1>10, <2>2
    <3>2. next[q[k - 1]] = IF k - 1 = Len(q) THEN Null ELSE q[k - 1 + 1]
      BY <1>7, <3>1
    <3>3. k - 1 + 1 = k /\ (k - 1 = Len(q) <=> k = Len(r))
      BY <1>1, <1>6
    <3>4. k # Len(r) => k \in 1..Len(q)
      BY <1>1, <1>6
    <3>5. k # Len(r) => r[k + 1] = q[k]
      BY <1>6, <3>4
    <3>6. QED
      BY <3>1, <3>2, <3>3, <3>5
  <2>3. QED
    BY <2>1, <2>2
<1>12. \A k, l \in 1..Len(r) : r[k] = r[l] => k = l
  <2> SUFFICES ASSUME NEW k \in 1..Len(r), NEW l \in 1..Len(r), r[k] = r[l] PROVE k = l
    OBVIOUS
  <2>1. k = 1 <=> l = 1
    BY <1>4, <1>6, <1>10
  <2>2. k # 1 => k - 1 = l - 1
    BY <1>8, <1>10, <2>1
  <2>3. QED
    BY <1>1, <1>6, <2>1, <2>2
<1>13. \A k \in 1..Len(r) : length[r[k]] = Len(r) - k + 1
  <2> SUFFICES ASSUME NEW k \in 1..Len(r) PROVE length[r[k]] = Len(r) - k + 1
    OBVIOUS
  <2>1. CASE k = 1
    <3>1. Len(r) - 1 + 1 = Len(q) + 1
      BY <1>1, <1>6
    <3>2. length[r[1]] = Len(q) + 1
      BY <1>1, <1>3, <1>6
    <3>3. QED
      BY <2>1, <3>1, <3>2
  <2>2. CASE k # 1
    <3>1. k - 1 \in 1..Len(q) /\ r[k] = q[k - 1]
      BY <1>10, <2>2
    <3>2. length[q[k - 1]] = Len(q) - (k - 1) + 1
      BY <1>9, <3>1
    <3>3. Len(q) - (k - 1) + 1 = Len(r) - k + 1
      BY <1>1, <1>6
    <3>4. QED
      BY <3>1, <3>2, <3>3
  <2>3. QED
    BY <2>1, <2>2
<1>14. r # << >> /\ new # Null
  BY <1>1, <1>2, <1>6
<1>15. \A s : s = << p[i] >> \o OnStack => IsChain(s)'
  BY <1>5, <1>6, <1>11, <1>12, <1>14 DEF IsChain
<1>16. LengthOf(head)' = Len(r)
  BY <1>1, <1>3, <1>5, <1>6, <1>14 DEF LengthOf
<1>17. OnStack' = << p[i] >> \o OnStack
  <2>1. \A s : s = << p[i] >> \o OnStack => OnStack' = s
    BY <1>15, <1>16, OnStackIsPrime DEF OnlyList
  <2>2. QED
    BY <2>1
<1>18. ListInv'
  BY <1>5, <1>13, <1>15, <1>17 DEF ListInv
<1>19. head # p[i]
  BY <1>1, <1>4, <1>14
<1>20. QED
  BY <1>2, <1>17, <1>18, <1>19

LEMMA PopSucceeds ==
    ASSUME StackInv, NEW i \in Threads, Pops(i)
    PROVE  /\ result[i] \in Nodes /\ OnStack # << >> /\ OnStack[1] = result[i]
           /\ OnStack' = Tail(OnStack) /\ ListInv'
<1> DEFINE q == OnStack
           old == result[i]
           r == Tail(q)
<1>1. /\ q \in Seq(Nodes) /\ Len(q) \in Nat /\ Len(q) = LengthOf(head)
      /\ head = IF q = << >> THEN Null ELSE q[1]
  BY ListFacts DEF StackInv
<1>2. old \in Nodes /\ after[i] = next[old] /\ head = old
  BY DEF Pops, PopCas, At, StackInv, PlaceInv, Place
<1>3. q # << >> /\ q[1] = old
  BY <1>1, <1>2
<1>4. head' = next[old] /\ next' = next /\ length' = length
  BY <1>2 DEF Pops, PopCas, heap
<1>5. /\ r \in Seq(Nodes) /\ Len(r) = Len(q) - 1 /\ Len(r) \in Nat
      /\ \A k \in 1..Len(r) : r[k] = q[k + 1]
      /\ r = << >> <=> Len(r) = 0
  BY <1>1, <1>3, EmptySeq
<1> HIDE DEF r
<1>6. \A k \in 1..Len(q) : next[q[k]] = IF k = Len(q) THEN Null ELSE q[k + 1]
  BY DEF StackInv, ListInv, IsChain
<1>7. \A k, l \in 1..Len(q) : q[k] = q[l] => k = l
  BY DEF StackInv, ListInv, IsChain
<1>8. \A k \in 1..Len(q) : length[q[k]] = Len(q) - k + 1
  BY DEF StackInv, ListInv
<1>9. head' = IF r = << >> THEN Null ELSE r[1]
  <2>1. 1 \in 1..Len(q)
    BY <1>1, <1>3
  <2>2. head' = IF 1 = Len(q) THEN Null ELSE q[1 + 1]
    BY <1>3, <1>4, <1>6, <2>1
  <2>3. r = << >> <=> 1 = Len(q)
    BY <1>1, <1>5
  <2>4. r # << >> => r[1] = q[1 + 1]
    BY <1>5
  <2>5. QED
    BY <2>2, <2>3, <2>4
<1>10. \A k \in 1..Len(r) :
          /\ k + 1 \in 1..Len(q) /\ r[k] = q[k + 1] /\ (k = Len(r) <=> k + 1 = Len(q))
          /\ k # Len(r) => r[k + 1] = q[k + 1 + 1]
  <2> SUFFICES ASSUME NEW k \in 1..Len(r)
               PROVE  /\ k + 1 \in 1..Len(q) /\ r[k] = q[k + 1] /\ (k = Len(r) <=> k + 1 = Len(q))
                      /\ k # Len(r) => r[k + 1] = q[k + 1 + 1]
    OBVIOUS
  <2>1. k + 1 \in 1..Len(q) /\ (k = Len(r) <=> k + 1 = Len(q))
    BY <1>1, <1>5
  <2>2. k # Len(r) => k + 1 \in 1..Len(r)
    BY <1>5
  <2>3. QED
    BY <1>5, <2>1, <2>2
<1>11. \A k \in 1..Len(r) : next[r[k]] = IF k = Len(r) THEN Null ELSE r[k + 1]
  BY <1>6, <1>10
<1>12. \A k, l \in 1..Len(r) : r[k] = r[l] => k = l
  <2> SUFFICES ASSUME NEW k \in 1..Len(r), NEW l \in 1..Len(r), r[k] = r[l] PROVE k = l
    OBVIOUS
  <2>1. k + 1 = l + 1
    BY <1>7, <1>10
  <2>2. QED
    BY <1>5, <2>1
<1>13. \A k \in 1..Len(r) : length[r[k]] = Len(r) - k + 1
  <2> SUFFICES ASSUME NEW k \in 1..Len(r) PROVE length[r[k]] = Len(r) - k + 1
    OBVIOUS
  <2>1. length[r[k]] = Len(q) - (k + 1) + 1
    BY <1>8, <1>10
  <2>2. Len(q) - (k + 1) + 1 = Len(r) - k + 1
    BY <1>1, <1>5
  <2>3. QED
    BY <2>1, <2>2
<1>14. \A s : s = Tail(OnStack) => IsChain(s)'
  BY <1>4, <1>5, <1>9, <1>11, <1>12 DEF IsChain, r
<1>15. LengthOf(head)' = Len(r)
  <2>1. CASE r = << >>
    BY <1>9, <2>1 DEF LengthOf
  <2>2. CASE r # << >>
    <3>1. 1 \in 1..Len(r) /\ Len(r) - 1 + 1 = Len(r)
      BY <1>5, <2>2
    <3>2. length[r[1]] = Len(r) /\ r[1] \in Nodes
      BY <1>5, <1>13, <3>1
    <3>3. head' = r[1] /\ r[1] # Null
      BY <1>9, <2>2, <3>2
    <3>4. QED
      BY <1>4, <3>2, <3>3 DEF LengthOf
  <2>3. QED
    BY <2>1, <2>2
<1>16. OnStack' = Tail(OnStack)
  <2>1. \A s : s = Tail(OnStack) => OnStack' = s
    BY <1>14, <1>15, OnStackIsPrime DEF OnlyList, r
  <2>2. QED
    BY <2>1
<1>17. ListInv'
  BY <1>4, <1>13, <1>14, <1>16 DEF ListInv, r
<1>18. QED
  BY <1>2, <1>3, <1>16, <1>17

LEMMA ListStep ==
    ASSUME StackInv, NEW i \in Threads, Step(i)
    PROVE  /\ ListInv'
           /\ Pushes(i) \/ Pops(i) \/ (head' = head /\ OnStack' = OnStack)
<1>1. Pushes(i) \/ Pops(i) \/ head' = head
  BY DEF Step, Pushes, Pops, CallPush, CallOther, Load, Announce, Check, PopEmpty, PushLink, PushCas,
         PopNext, PopCas, Retire, ScanSlot, Eject, SizeRead, Release
<1>2. CASE head' = head
  <2>1. ASSUME NEW x \in Nodes, Listed(x) PROVE next'[x] = next[x] /\ length'[x] = length[x]
    <3>1. x \in allocated /\ x \in allocated'
      BY <2>1, PlacedStays
    <3>2. ~Pushing(i, x)
      BY <2>1 DEF StackInv, OnePlace, Held
    <3>3. QED
      BY <3>1, <3>2, NodeWrites
  <2>2. QED
    BY <1>2, <2>1, ListStays DEF StackInv
<1>3. QED
  BY <1>1, <1>2, PushSucceeds, PopSucceeds
(* -------------------- Where the threads are ---------------------------- *)

(* A step of i leaves true what j knows.                                   *)
LEMMA PlaceOthers ==
    ASSUME StackInv, NEW i \in Threads, Step(i), NEW j \in Threads, j # i
    PROVE  Place(j)'
<1>1. /\ pc'[j] = pc[j] /\ call'[j] = call[j] /\ p'[j] = p[j] /\ result'[j] = result[j]
      /\ after'[j] = after[j] /\ announcements'[j] = announcements[j]
      /\ announced'[j] = announced[j] /\ scanned'[j] = scanned[j]
  BY OthersStay DEF StackInv
<1>2. Place(j)
  BY DEF StackInv, PlaceInv
<1>3. ASSUME NEW x \in Nodes, Using(j, x) PROVE next'[x] = next[x] /\ length'[x] = length[x]
  <2>1. x \in allocated /\ x \in allocated'
    BY <1>3, UsedStays
  <2>2. ~Pushing(i, x)
    BY <1>3 DEF StackInv, HazardInv
  <2>3. QED
    BY <2>1, <2>2, NodeWrites
<1>4. ASSUME call[j] = "pop", pc[j] = "cas" PROVE after'[j] = next'[result'[j]]
  <2>1. result[j] \in Nodes /\ after[j] = next[result[j]]
    BY <1>2, <1>4 DEF Place
  <2>2. Using(j, result[j])
    BY <1>4 DEF Using
  <2>3. QED
    BY <1>1, <1>3, <2>1, <2>2
<1>5. ASSUME call[j] = "push", pc[j] = "cas"
      PROVE  next'[p'[j]] = result'[j] /\ length'[p'[j]] = LengthOf(result[j])' + 1
  <2>1. p[j] \in Nodes /\ next[p[j]] = result[j] /\ length[p[j]] = LengthOf(result[j]) + 1
    BY <1>2, <1>5 DEF Place
  <2>2. Held(j, p[j])
    BY <1>5 DEF Held, Pushing
  <2>3. p[j] \in allocated /\ p[j] \in allocated'
    BY <2>1, <2>2, PlacedStays
  <2>4. ~Pushing(i, p[j])
    BY <2>1, <2>2 DEF StackInv, OnePlace, Held
  <2>5. next'[p[j]] = next[p[j]] /\ length'[p[j]] = length[p[j]]
    BY <2>1, <2>3, <2>4, NodeWrites
  <2>6. LengthOf(result[j])' = LengthOf(result[j])
    <3>1. CASE result[j] = Null
      BY <1>1, <3>1 DEF LengthOf
    <3>2. CASE result[j] # Null
      <4>1. result[j] \in Nodes /\ Using(j, result[j])
        BY <1>5, <3>2 DEF Using, StackInv, TypeOK, NodeOrNull
      <4>2. QED
        BY <1>1, <1>3, <3>2, <4>1 DEF LengthOf
    <3>3. QED
      BY <3>1, <3>2
  <2>7. QED
    BY <1>1, <2>1, <2>5, <2>6
<1>6. QED
  BY <1>1, <1>2, <1>4, <1>5 DEF Place

(* i knows where it goes what it needs to know there.                      *)
LEMMA PlaceOwn == ASSUME StackInv, NEW i \in Threads, Step(i) PROVE Place(i)'
<1>1. Place(i)
  BY DEF StackInv, PlaceInv
<1>2. /\ pc \in [Threads -> {"idle", "load", "announce", "check", "acquired", "cas", "retire", "scan", "release"}]
      /\ call \in [Threads -> {"none", "push", "pop", "size"}]
      /\ p \in [Threads -> NodeOrNull] /\ result \in [Threads -> NodeOrNull]
      /\ after \in [Threads -> NodeOrNull] /\ announcements \in [Threads -> NodeOrNull]
      /\ DOMAIN scanned = Threads /\ DOMAIN announced = Threads
      /\ next \in [Nodes -> NodeOrNull] /\ length \in [Nodes -> Nat]
  BY DEF StackInv, TypeOK
<1>3. ASSUME NEW v \in Values, CallPush(i, v) PROVE Place(i)'
  BY <1>1, <1>2, <1>3 DEF CallPush, Place, At, Goto, hazard, scan
<1>4. ASSUME NEW c \in {"pop", "size"}, CallOther(i, c) PROVE Place(i)'
  BY <1>1, <1>2, <1>4 DEF CallOther, Place, At, Goto, heap, hazard, scan
<1>5. CASE Load(i)
  BY <1>1, <1>2, <1>5 DEF Load, Place, At, Goto, heap, hazard, scan
<1>6. CASE Announce(i)
  BY <1>1, <1>2, <1>6 DEF Announce, Place, At, Goto, heap, local, scan
<1>7. CASE Check(i)
  BY <1>1, <1>2, <1>7 DEF Check, Place, At, Goto, heap, hazard, local, scan, NodeOrNull
<1>8. CASE PopEmpty(i)
  BY <1>1, <1>2, <1>8 DEF PopEmpty, Place, At, Goto, heap, hazard, scan, LocalsEnd
<1>9. CASE PushLink(i)
  <2>1. p[i] \in Nodes /\ pc[i] = "acquired" /\ call[i] = "push"
    BY <1>1, <1>9 DEF PushLink, Place, At
  <2>2. next'[p[i]] = result[i] /\ pc'[i] = "cas"
    BY <1>2, <1>9, <2>1 DEF PushLink, Goto
  <2>3. length'[p[i]] = (IF result[i] = Null THEN 1 ELSE length[result[i]] + 1)
    BY <1>2, <1>9, <2>1 DEF PushLink
  <2>4. result[i] # Null => length'[result[i]] = length[result[i]]
    <3>1. SUFFICES ASSUME result[i] # Null PROVE length'[result[i]] = length[result[i]]
      OBVIOUS
    <3>2. result[i] \in Nodes /\ Using(i, result[i])
      BY <1>2, <2>1, <3>1 DEF Using, NodeOrNull
    <3>3. result[i] # p[i]
      BY <2>1, <3>2 DEF StackInv, HazardInv, Pushing
    <3>4. QED
      BY <1>2, <1>9, <3>2, <3>3 DEF PushLink
  <2>5. call' = call /\ p' = p /\ result' = result /\ announcements' = announcements
        /\ scanned' = scanned /\ announced' = announced
    BY <1>9 DEF PushLink, local, hazard, scan
  <2>6. length'[p[i]] = LengthOf(result[i])' + 1
    BY <2>3, <2>4, <2>5 DEF LengthOf
  <2>7. QED
    BY <1>1, <2>1, <2>2, <2>5, <2>6 DEF Place
<1>10. CASE PushCas(i)
  BY <1>1, <1>2, <1>10 DEF PushCas, Place, At, Goto, hazard, local, scan
<1>11. CASE PopNext(i)
  BY <1>1, <1>2, <1>11 DEF PopNext, Place, At, Goto, heap, hazard, scan
<1>12. CASE PopCas(i)
  BY <1>1, <1>2, <1>12 DEF PopCas, Place, At, Goto, heap, hazard, scan
<1>13. CASE Retire(i)
  BY <1>1, <1>2, <1>13 DEF Retire, Place, At, Goto, heap, scan
<1>14. CASE ScanSlot(i)
  BY <1>1, <1>2, <1>14 DEF ScanSlot, Place, At, Goto, heap, hazard, local
<1>15. CASE Eject(i)
  BY <1>1, <1>2, <1>15 DEF Eject, Place, At, Goto, local
<1>16. CASE SizeRead(i)
  BY <1>1, <1>2, <1>16 DEF SizeRead, Place, At, Goto, heap, hazard, scan
<1>17. CASE Release(i)
  BY <1>1, <1>2, <1>17 DEF Release, Place, At, Goto, heap, scan, LocalsEnd
<1>18. QED
  BY <1>3, <1>4, <1>5, <1>6, <1>7, <1>8, <1>9, <1>10, <1>11, <1>12, <1>13, <1>14, <1>15, <1>16, <1>17 DEF Step

LEMMA PlaceStep == ASSUME StackInv, NEW i \in Threads, Step(i) PROVE PlaceInv'
<1>1. \A j \in Threads : Place(j)'
  BY PlaceOthers, PlaceOwn
<1>2. QED
  BY <1>1 DEF PlaceInv
(* ---------------------- Each node in one place ------------------------- *)

LEMMA NodesMoved ==
    ASSUME StackInv, NEW i \in Threads, Step(i)
    PROVE  /\ OnStack' = OnStack => \A x \in Nodes : Listed(x)' <=> Listed(x)
           /\ \A j \in Threads \ {i}, x \in Nodes :
                /\ Held(j, x)' <=> Held(j, x)
                /\ Retired(j, x)' <=> Retired(j, x)
                /\ retired'[j][x] = retired[j][x]
<1>1. OnStack' = OnStack => \A x \in Nodes : Listed(x)' <=> Listed(x)
  BY DEF Listed
<1>2. ASSUME NEW j \in Threads \ {i}, NEW x \in Nodes
      PROVE  /\ Held(j, x)' <=> Held(j, x)
             /\ Retired(j, x)' <=> Retired(j, x)
             /\ retired'[j][x] = retired[j][x]
  <2>1. pc'[j] = pc[j] /\ call'[j] = call[j] /\ p'[j] = p[j] /\ retired'[j] = retired[j]
    BY OthersStay DEF StackInv
  <2>2. QED
    BY <2>1 DEF Held, Pushing, Retired
<1>3. QED
  BY <1>1, <1>2

(* Most steps move no node.                                                *)
LEMMA OnePlaceStays ==
    ASSUME StackInv, NEW i \in Threads, Step(i), OnStack' = OnStack,
           retired' = retired, allocated' = allocated,
           \A x \in Nodes : Held(i, x)' <=> Held(i, x)
    PROVE  OnePlace'
<1>1. \A j \in Threads, x \in Nodes : (Held(j, x)' <=> Held(j, x)) /\ (Listed(x)' <=> Listed(x))
  BY NodesMoved
<1>2. \A j \in Threads, x \in Nodes : Retired(j, x)' <=> Retired(j, x)
  BY DEF Retired
<1>3. OnePlace
  BY DEF StackInv
<1>4. QED
  BY <1>1, <1>2, <1>3 DEF OnePlace

LEMMA OnePlaceCallPush ==
    ASSUME StackInv, NEW i \in Threads, Step(i), NEW v \in Values, CallPush(i, v)
    PROVE  OnePlace'
<1>1. OnePlace
  BY DEF StackInv
<1>2. OnStack' = OnStack /\ retired' = retired
  <2>1. ~Pushes(i) /\ ~Pops(i)
    BY DEF CallPush, Pushes, PushCas, Pops, PopCas, At
  <2>2. QED
    BY <2>1, ListStep DEF CallPush, hazard
<1>3. PICK new \in Nodes \ allocated : allocated' = allocated \cup {new} /\ p' = [p EXCEPT ![i] = new]
  BY DEF CallPush
<1>4. \A x \in Nodes : ~Held(i, x)
  BY DEF CallPush, At, StackInv, PlaceInv, Place, Held, Pushing
<1>5. \A x \in Nodes : Held(i, x)' <=> x = new
  BY <1>3 DEF CallPush, Goto, StackInv, TypeOK, Held, Pushing
<1>6. /\ \A x \in Nodes : Listed(x)' <=> Listed(x)
      /\ \A j \in Threads \ {i}, x \in Nodes : Held(j, x)' <=> Held(j, x)
  BY <1>2, NodesMoved
<1>7. \A j \in Threads, x \in Nodes : Retired(j, x)' <=> Retired(j, x)
  BY <1>2 DEF Retired
<1>8. ~Listed(new) /\ \A j \in Threads : ~Held(j, new) /\ ~Retired(j, new)
  BY <1>1, <1>3 DEF OnePlace
<1>9. \A x \in Nodes : x \in allocated' <=> x \in allocated \/ x = new
  BY <1>3
<1>10. QED
  BY <1>1, <1>2, <1>3, <1>4, <1>5, <1>6, <1>7, <1>8, <1>9 DEF OnePlace

LEMMA OnePlacePush ==
    ASSUME StackInv, NEW i \in Threads, Step(i), Pushes(i)
    PROVE  OnePlace'
<1> DEFINE new == p[i]
<1>1. OnePlace
  BY DEF StackInv
<1>2. new \in Nodes /\ OnStack' = << new >> \o OnStack
  BY PushSucceeds
<1>3. \A x \in Nodes : Listed(x)' <=> Listed(x) \/ x = new
  <2> DEFINE q == OnStack
  <2>1. q \in Seq(Nodes) /\ Len(q) \in Nat
    BY ListFacts DEF StackInv
  <2>2. /\ Len(OnStack') = Len(q) + 1 /\ OnStack'[1] = new
        /\ \A k \in 1..Len(q) : OnStack'[k + 1] = q[k]
    BY <1>2, <2>1
  <2>3. ASSUME NEW x \in Nodes, Listed(x) \/ x = new PROVE Listed(x)'
    <3>1. CASE x = new
      <4>1. 1 \in 1..Len(OnStack')
        BY <2>1, <2>2
      <4>2. QED
        BY <2>2, <3>1, <4>1 DEF Listed
    <3>2. CASE Listed(x)
      <4>1. PICK k \in 1..Len(q) : q[k] = x
        BY <3>2 DEF Listed
      <4>2. k + 1 \in 1..Len(OnStack') /\ OnStack'[k + 1] = x
        BY <2>1, <2>2, <4>1
      <4>3. QED
        BY <4>2 DEF Listed
    <3>3. QED
      BY <2>3, <3>1, <3>2
  <2>4. ASSUME NEW x \in Nodes, Listed(x)', x # new PROVE Listed(x)
    <3>1. PICK k \in 1..Len(OnStack') : OnStack'[k] = x
      BY <2>4 DEF Listed
    <3>2. k # 1
      BY <2>2, <2>4, <3>1
    <3>3. k - 1 \in 1..Len(q) /\ k - 1 + 1 = k
      BY <2>1, <2>2, <3>1, <3>2
    <3>4. q[k - 1] = x
      BY <2>2, <3>1, <3>3
    <3>5. QED
      BY <3>3, <3>4 DEF Listed
  <2>5. QED
    BY <2>3, <2>4
<1>4. \A x \in Nodes : Held(i, x) <=> x = new
  BY DEF Pushes, PushCas, At, Held, Pushing
<1>5. \A x \in Nodes : ~Held(i, x)'
  BY DEF Pushes, PushCas, Goto, local, StackInv, TypeOK, Held, Pushing
<1>6. retired' = retired /\ allocated' = allocated
  BY DEF Pushes, PushCas, hazard
<1>7. \A j \in Threads \ {i}, x \in Nodes : Held(j, x)' <=> Held(j, x)
  BY NodesMoved
<1>8. \A j \in Threads, x \in Nodes : Retired(j, x)' <=> Retired(j, x)
  BY <1>6 DEF Retired
<1>9. \A x \in Nodes : x \in allocated' <=>
         Listed(x)' \/ \E j \in Threads : Held(j, x)' \/ Retired(j, x)'
  BY <1>1, <1>3, <1>4, <1>5, <1>6, <1>7, <1>8 DEF OnePlace
<1>10. QED
  BY <1>1, <1>2, <1>3, <1>4, <1>5, <1>6, <1>7, <1>8, <1>9 DEF OnePlace

LEMMA OnePlacePop ==
    ASSUME StackInv, NEW i \in Threads, Step(i), Pops(i)
    PROVE  OnePlace'
<1> DEFINE old == result[i]
<1>1. OnePlace
  BY DEF StackInv
<1>2. old \in Nodes /\ OnStack # << >> /\ OnStack[1] = old /\ OnStack' = Tail(OnStack)
  BY PopSucceeds
<1>3. Listed(old) /\ \A x \in Nodes : Listed(x)' <=> Listed(x) /\ x # old
  <2> DEFINE q == OnStack
  <2>1. q \in Seq(Nodes) /\ Len(q) \in Nat
    BY ListFacts DEF StackInv
  <2>2. Len(OnStack') = Len(q) - 1 /\ \A k \in 1..Len(q) - 1 : OnStack'[k] = q[k + 1]
    BY <1>2, <2>1
  <2>3. \A k, l \in 1..Len(q) : q[k] = q[l] => k = l
    BY DEF StackInv, ListInv, IsChain
  <2>4. 1 \in 1..Len(q)
    BY <1>2, <2>1
  <2>5. ASSUME NEW x \in Nodes, Listed(x), x # old PROVE Listed(x)'
    <3>1. PICK k \in 1..Len(q) : q[k] = x
      BY <2>5 DEF Listed
    <3>2. k # 1
      BY <1>2, <2>5, <3>1
    <3>3. k - 1 \in 1..Len(q) - 1 /\ k - 1 + 1 = k
      BY <2>1, <3>1, <3>2
    <3>4. OnStack'[k - 1] = x /\ k - 1 \in 1..Len(OnStack')
      BY <2>2, <3>1, <3>3
    <3>5. QED
      BY <3>4 DEF Listed
  <2>6. ASSUME NEW x \in Nodes, Listed(x)' PROVE Listed(x) /\ x # old
    <3>1. PICK k \in 1..Len(OnStack') : OnStack'[k] = x
      BY <2>6 DEF Listed
    <3>2. k \in 1..Len(q) - 1
      BY <2>2, <3>1
    <3>3. q[k + 1] = x
      BY <2>2, <3>1, <3>2
    <3>4. k + 1 \in 1..Len(q) /\ k + 1 # 1
      BY <2>1, <3>2
    <3>5. QED
      BY <1>2, <2>3, <2>4, <3>3, <3>4 DEF Listed
  <2>7. Listed(old)
    BY <1>2, <2>4 DEF Listed
  <2>8. QED
    BY <2>5, <2>6, <2>7
<1>4. \A x \in Nodes : ~Held(i, x)
  BY DEF Pops, PopCas, At, Held, Pushing
<1>5. \A x \in Nodes : Held(i, x)' <=> x = old
  BY DEF Pops, PopCas, Goto, At, StackInv, TypeOK, Held, Pushing
<1>6. retired' = retired /\ allocated' = allocated
  BY DEF Pops, PopCas, hazard, heap
<1>7. \A j \in Threads \ {i}, x \in Nodes : Held(j, x)' <=> Held(j, x)
  BY NodesMoved
<1>8. \A j \in Threads, x \in Nodes : Retired(j, x)' <=> Retired(j, x)
  BY <1>6 DEF Retired
<1>9. QED
  BY <1>1, <1>2, <1>3, <1>4, <1>5, <1>6, <1>7, <1>8 DEF OnePlace

LEMMA OnePlaceRetire ==
    ASSUME StackInv, NEW i \in Threads, Step(i), Retire(i)
    PROVE  OnePlace'
<1> DEFINE old == p[i]
<1>1. OnePlace
  BY DEF StackInv
<1>2. call[i] = "pop" /\ pc[i] = "retire" /\ old \in Nodes
  <2>1. pc[i] = "retire"
    BY DEF Retire, At
  <2>2. call[i] \in {"none", "push", "pop", "size"}
    BY DEF StackInv, TypeOK
  <2>3. QED
    BY <2>1, <2>2 DEF StackInv, PlaceInv, Place
<1>3. \A x \in Nodes : Held(i, x) <=> x = old
  BY <1>2 DEF Held, Pushing
<1>4. \A x \in Nodes : ~Held(i, x)'
  BY <1>2 DEF Retire, Goto, StackInv, TypeOK, Held, Pushing
<1>5. OnStack' = OnStack
  <2>1. ~Pushes(i) /\ ~Pops(i)
    BY <1>2 DEF Pushes, PushCas, Pops, PopCas, At
  <2>2. QED
    BY <2>1, ListStep
<1>6. ~Retired(i, old)
  BY <1>1, <1>2, <1>3 DEF OnePlace
<1>7. \A x \in Nodes : retired'[i][x] = IF x = old THEN 1 ELSE retired[i][x]
  <2>1. retired \in [Threads -> [Nodes -> Nat]] /\ retired' = [retired EXCEPT ![i][old] = @ + 1]
    BY DEF Retire, StackInv, TypeOK
  <2>2. retired[i][old] = 0
    BY <1>6 DEF Retired
  <2>3. retired'[i] = [retired[i] EXCEPT ![old] = 0 + 1]
    BY <2>1, <2>2
  <2>4. QED
    BY <1>2, <2>1, <2>3
<1>8. \A x \in Nodes : Retired(i, x)' <=> Retired(i, x) \/ x = old
  BY <1>7 DEF Retired
<1>9. allocated' = allocated
  BY DEF Retire, heap
<1>10. /\ \A x \in Nodes : Listed(x)' <=> Listed(x)
       /\ \A j \in Threads \ {i}, x \in Nodes :
            /\ Held(j, x)' <=> Held(j, x)
            /\ Retired(j, x)' <=> Retired(j, x)
            /\ retired'[j][x] = retired[j][x]
  BY <1>5, NodesMoved
<1>11. \A j \in Threads, x \in Nodes : Retired(j, x)' => retired'[j][x] = 1
  <2>1. \A j \in Threads, x \in Nodes : Retired(j, x) => retired[j][x] = 1
    BY <1>1 DEF OnePlace
  <2>2. QED
    BY <1>7, <1>8, <1>10, <2>1
<1>12. QED
  BY <1>1, <1>2, <1>3, <1>4, <1>8, <1>9, <1>10, <1>11 DEF OnePlace

LEMMA OnePlaceEject ==
    ASSUME StackInv, NEW i \in Threads, Step(i), Eject(i)
    PROVE  OnePlace'
<1>1. OnePlace
  BY DEF StackInv
<1>2. pc[i] = "scan" /\ call[i] # "push"
  BY DEF Eject, At, StackInv, PlaceInv, Place
<1>3. \A x \in Nodes : ~Held(i, x) /\ ~Held(i, x)'
  BY <1>2 DEF Eject, Goto, local, StackInv, TypeOK, Held, Pushing
<1>4. OnStack' = OnStack
  <2>1. ~Pushes(i) /\ ~Pops(i)
    BY <1>2 DEF Pushes, PushCas, Pops, PopCas, At
  <2>2. QED
    BY <2>1, ListStep
<1>5. \A x \in Nodes :
        /\ x \in allocated' <=> x \in allocated /\ ~(Retired(i, x) /\ announced[i][x] = 0)
        /\ retired'[i][x] = IF Retired(i, x) /\ announced[i][x] # 0 THEN 1 ELSE 0
  BY EjectFrees
<1>6. \A x \in Nodes : Retired(i, x)' <=> Retired(i, x) /\ announced[i][x] # 0
  BY <1>5 DEF Retired
<1>7. /\ \A x \in Nodes : Listed(x)' <=> Listed(x)
      /\ \A j \in Threads \ {i}, x \in Nodes :
            /\ Held(j, x)' <=> Held(j, x)
            /\ Retired(j, x)' <=> Retired(j, x)
            /\ retired'[j][x] = retired[j][x]
  BY <1>4, NodesMoved
<1>8. \A j \in Threads, x \in Nodes : Retired(j, x)' => retired'[j][x] = 1
  <2>1. \A j \in Threads, x \in Nodes : Retired(j, x) => retired[j][x] = 1
    BY <1>1 DEF OnePlace
  <2>2. QED
    BY <1>5, <1>6, <1>7, <2>1
<1>9. \A x \in Nodes : x \in allocated' <=>
         Listed(x)' \/ \E j \in Threads : Held(j, x)' \/ Retired(j, x)'
  BY <1>1, <1>3, <1>5, <1>6, <1>7 DEF OnePlace
<1>10. QED
  BY <1>1, <1>3, <1>6, <1>7, <1>8, <1>9 DEF OnePlace

LEMMA OnePlaceStep == ASSUME StackInv, NEW i \in Threads, Step(i) PROVE OnePlace'
<1>1. CASE \E v \in Values : CallPush(i, v)
  BY <1>1, OnePlaceCallPush
<1>2. CASE Pushes(i) \/ Pops(i) \/ Retire(i) \/ Eject(i)
  BY <1>2, OnePlacePush, OnePlacePop, OnePlaceRetire, OnePlaceEject
<1>3. CASE ~(\E v \in Values : CallPush(i, v)) /\ ~(Pushes(i) \/ Pops(i) \/ Retire(i) \/ Eject(i))
  <2>1. OnStack' = OnStack
    BY <1>3, ListStep
  <2>2. retired' = retired /\ allocated' = allocated
    BY <1>3 DEF Step, CallOther, Load, Announce, Check, PopEmpty, PushLink, PushCas, PopNext, PopCas,
                ScanSlot, SizeRead, Release, heap, hazard
  <2>3. ASSUME NEW x \in Nodes PROVE Held(i, x)' <=> Held(i, x)
    <3>1. /\ pc \in [Threads -> {"idle", "load", "announce", "check", "acquired", "cas", "retire", "scan", "release"}]
          /\ call \in [Threads -> {"none", "push", "pop", "size"}]
          /\ DOMAIN p = Threads
      BY DEF StackInv, TypeOK
    <3>2. (call[i] = "none" <=> pc[i] = "idle") /\ (call[i] = "size" => pc[i] \notin {"cas", "retire", "scan"})
      BY DEF StackInv, PlaceInv, Place
    <3>3. CASE (\E c \in {"pop", "size"} : CallOther(i, c)) \/ PopEmpty(i) \/ Release(i)
      BY <3>1, <3>2, <3>3 DEF CallOther, PopEmpty, Release, At, Goto, LocalsEnd, Held, Pushing
    <3>4. CASE Load(i) \/ Announce(i) \/ Check(i) \/ PushLink(i) \/ PopNext(i) \/ ScanSlot(i) \/ SizeRead(i)
      BY <3>1, <3>2, <3>4 DEF Load, Announce, Check, PushLink, PopNext, ScanSlot, SizeRead,
                              At, Goto, local, Held, Pushing
    <3>5. CASE PushCas(i)
      <4>1. pc' = [pc EXCEPT ![i] = "load"] /\ pc[i] = "cas" /\ call' = call /\ p' = p /\ call[i] = "push"
        BY <1>3, <3>5 DEF PushCas, Pushes, At, Goto, local
      <4>2. QED
        BY <3>1, <4>1 DEF Held, Pushing
    <3>6. CASE PopCas(i)
      <4>1. pc' = [pc EXCEPT ![i] = "load"] /\ pc[i] = "cas" /\ call' = call /\ p' = p /\ call[i] = "pop"
        BY <1>3, <3>6 DEF PopCas, Pops, At, Goto
      <4>2. QED
        BY <3>1, <4>1 DEF Held, Pushing
    <3>7. QED
      BY <1>3, <3>3, <3>4, <3>5, <3>6 DEF Step
  <2>4. QED
    BY <2>1, <2>2, <2>3, OnePlaceStays
<1>4. QED
  BY <1>1, <1>2, <1>3
(* ------------------------ The hazard pointers -------------------------- *)

(* Only the check of acquire makes a thread use a node, and it is the one  *)
(* on top of the stack.                                                    *)
LEMMA UsingBefore ==
    ASSUME StackInv, NEW i \in Threads, Step(i), NEW j \in Threads, NEW x \in Nodes,
           Using(j, x)', ~Using(j, x)
    PROVE  Check(i) /\ head = x
<1>1. j = i
  BY OthersStay DEF Using, StackInv
<1>2. /\ pc \in [Threads -> {"idle", "load", "announce", "check", "acquired", "cas", "retire", "scan", "release"}]
      /\ DOMAIN result = Threads
  BY DEF StackInv, TypeOK
<1>3. pc'[i] \in {"acquired", "cas", "retire"} /\ result'[i] = x
  BY <1>1 DEF Using
<1>4. pc[i] \notin {"acquired", "cas", "retire"} \/ result[i] # x
  BY <1>1 DEF Using
<1>5. CASE Check(i)
  <2>1. pc'[i] = (IF head = result[i] THEN "acquired" ELSE "load") /\ result' = result
    BY <1>2, <1>5 DEF Check, Goto, local
  <2>2. QED
    BY <1>3, <1>5, <2>1
<1>6. CASE (\E v \in Values : CallPush(i, v)) \/ (\E c \in {"pop", "size"} : CallOther(i, c))
           \/ Load(i) \/ Announce(i) \/ PopEmpty(i) \/ Release(i)
  BY <1>2, <1>3, <1>6 DEF CallPush, CallOther, Load, Announce, PopEmpty, Release, Goto
<1>7. CASE PushLink(i) \/ PushCas(i) \/ PopNext(i) \/ PopCas(i)
  BY <1>2, <1>3, <1>4, <1>7 DEF PushLink, PushCas, PopNext, PopCas, At, Goto, local
<1>8. CASE Retire(i) \/ ScanSlot(i) \/ Eject(i) \/ SizeRead(i)
  BY <1>2, <1>3, <1>4, <1>8 DEF Retire, ScanSlot, Eject, SizeRead, At, Goto, local
<1>9. QED
  BY <1>5, <1>6, <1>7, <1>8 DEF Step

LEMMA PushingBefore ==
    ASSUME StackInv, NEW i \in Threads, Step(i), NEW j \in Threads, NEW x \in Nodes, Pushing(j, x)'
    PROVE  Pushing(j, x) \/ x \notin allocated
<1>1. CASE j # i
  BY <1>1, OthersStay DEF Pushing, StackInv
<1>2. CASE j = i
  <2>1. /\ pc \in [Threads -> {"idle", "load", "announce", "check", "acquired", "cas", "retire", "scan", "release"}]
        /\ call \in [Threads -> {"none", "push", "pop", "size"}]
        /\ DOMAIN p = Threads
    BY DEF StackInv, TypeOK
  <2>2. call[i] = "push" => pc[i] \notin {"retire", "scan"}
    BY DEF StackInv, PlaceInv, Place
  <2>3. call'[i] = "push" /\ pc'[i] # "release" /\ p'[i] = x
    BY <1>2 DEF Pushing
  <2>4. CASE \E v \in Values : CallPush(i, v)
    BY <2>1, <2>3, <2>4 DEF CallPush
  <2>5. CASE (\E c \in {"pop", "size"} : CallOther(i, c)) \/ PopEmpty(i) \/ Release(i)
    BY <2>1, <2>3, <2>5 DEF CallOther, PopEmpty, Release, LocalsEnd
  <2>6. CASE Load(i) \/ Announce(i) \/ Check(i) \/ PushLink(i) \/ PushCas(i)
    BY <1>2, <2>1, <2>3, <2>6 DEF Load, Announce, Check, PushLink, PushCas, At, local, Pushing
  <2>7. CASE PopNext(i) \/ PopCas(i) \/ SizeRead(i)
    BY <2>1, <2>3, <2>7 DEF PopNext, PopCas, SizeRead
  <2>8. CASE Retire(i) \/ ScanSlot(i) \/ Eject(i)
    BY <2>1, <2>2, <2>3, <2>8 DEF Retire, ScanSlot, Eject, At, local
  <2>9. QED
    BY <2>4, <2>5, <2>6, <2>7, <2>8 DEF Step
<1>3. QED
  BY <1>1, <1>2

(* Thread i, when it has scanned the slot of j, has seen what j uses.      *)
LEMMA AnnouncedStays ==
    ASSUME StackInv, NEW i \in Threads, Step(i), NEW j \in Threads, NEW x \in Nodes, Using(j, x),
           Retired(i, x)', j <= scanned'[i]
    PROVE  announced'[i][x] # 0
<1>1. j \in Nat /\ ~(j <= 0)
  BY DEF Threads
<1>2. pc[i] # "scan" => scanned[i] = 0
  BY DEF StackInv, PlaceInv, Place
<1>3. DOMAIN scanned = Threads /\ scanned[i] \in 0..N /\ announced \in [Threads -> [Nodes -> Nat]]
  BY DEF StackInv, TypeOK
<1>4. Retired(i, x) /\ j <= scanned[i] => announced[i][x] # 0
  BY DEF StackInv, HazardInv
<1>5. CASE ScanSlot(i)
  <2>1. Retired(i, x)
    BY <1>5 DEF ScanSlot, hazard, Retired
  <2>2. scanned'[i] = scanned[i] + 1
    BY <1>3, <1>5 DEF ScanSlot
  <2>3. CASE j <= scanned[i]
    <3>1. announced[i][x] # 0 /\ announced[i][x] \in Nat
      BY <1>3, <1>4, <2>1, <2>3
    <3>2. announced' = announced \/ announced' = [announced EXCEPT ![i][announcements[scanned'[i]]] = @ + 1]
      BY <1>5 DEF ScanSlot
    <3>3. QED
      BY <1>3, <3>1, <3>2
  <2>4. CASE ~(j <= scanned[i])
    <3>1. j = scanned'[i]
      BY <1>1, <1>3, <2>2, <2>4
    <3>2. announcements[j] = x /\ x # Null
      BY DEF StackInv, PlaceInv, Place, Using
    <3>3. announced' = [announced EXCEPT ![i][x] = @ + 1]
      BY <1>5, <3>1, <3>2 DEF ScanSlot
    <3>4. announced[i][x] \in Nat /\ announced'[i][x] = announced[i][x] + 1
      BY <1>3, <3>3
    <3>5. QED
      BY <3>4
  <2>5. QED
    BY <2>3, <2>4
<1>6. CASE Retire(i)
  BY <1>1, <1>2, <1>6 DEF Retire, At, scan
<1>7. CASE Eject(i)
  BY <1>1, <1>3, <1>7 DEF Eject
<1>8. CASE retired' = retired /\ scan' = scan
  BY <1>4, <1>8 DEF scan, Retired
<1>9. QED
  BY <1>5, <1>6, <1>7, <1>8 DEF Step, CallPush, CallOther, Load, Announce, Check, PopEmpty, PushLink,
     PushCas, PopNext, PopCas, SizeRead, Release, hazard

LEMMA HazardStep == ASSUME StackInv, NEW i \in Threads, Step(i) PROVE HazardInv'
<1> SUFFICES ASSUME NEW u \in Threads, NEW f \in Threads, NEW x \in Nodes, Using(u, x)'
             PROVE  /\ x \in allocated' /\ ~Pushing(f, x)'
                    /\ Retired(f, x)' /\ u <= scanned'[f] => announced'[f][x] # 0
  BY DEF HazardInv
<1>1. CASE Using(u, x)
  <2>1. x \in allocated /\ x \in allocated'
    BY <1>1, UsedStays
  <2>2. /\ ~Pushing(f, x)
        /\ Retired(f, x) /\ u <= scanned[f] => announced[f][x] # 0
    BY <1>1 DEF StackInv, HazardInv
  <2>3. ~Pushing(f, x)'
    BY <2>1, <2>2, PushingBefore
  <2>4. CASE f = i
    BY <1>1, <2>1, <2>3, <2>4, AnnouncedStays
  <2>5. CASE f # i
    <3>1. retired'[f] = retired[f] /\ scanned'[f] = scanned[f] /\ announced'[f] = announced[f]
      BY <2>5, OthersStay DEF StackInv
    <3>2. QED
      BY <2>1, <2>2, <2>3, <3>1 DEF Retired
  <2>6. QED
    BY <2>4, <2>5
<1>2. CASE ~Using(u, x)
  <2>1. Check(i) /\ head = x
    BY <1>2, UsingBefore
  <2>2. Listed(x)
    <3>1. OnStack # << >> /\ OnStack[1] = x /\ OnStack \in Seq(Nodes)
      BY <2>1, ListFacts DEF StackInv
    <3>2. 1 \in 1..Len(OnStack)
      BY <3>1
    <3>3. QED
      BY <3>1, <3>2 DEF Listed
  <2>3. x \in allocated /\ ~Held(f, x) /\ ~Retired(f, x)
    BY <2>2 DEF StackInv, OnePlace
  <2>4. allocated' = allocated /\ retired' = retired
    BY <2>1 DEF Check, heap, hazard
  <2>5. ~Pushing(f, x)'
    BY <2>3, PushingBefore DEF Held
  <2>6. QED
    BY <2>3, <2>4, <2>5 DEF Retired
<1>3. QED
  BY <1>1, <1>2

(* ------------------------- The invariant ------------------------------- *)

LEMMA StackInit == Init => StackInv
<1> SUFFICES ASSUME Init PROVE StackInv
  OBVIOUS
<1>1. TypeOK
  <2>1. 0 \in 0..N
    OBVIOUS
  <2>2. QED
    BY <2>1 DEF Init, TypeOK, NodeOrNull, NoNodes
<1>2. PlaceInv
  BY DEF Init, PlaceInv, Place
<1>3. OnStack = << >> /\ ListInv
  <2>1. IsChain(<< >>)
    BY DEF Init, IsChain
  <2>2. Len(<< >>) = LengthOf(head)
    BY DEF Init, LengthOf
  <2>3. OnStack = << >>
    BY <2>1, <2>2, OnStackIs DEF OnlyList
  <2>4. QED
    BY <2>1, <2>3 DEF ListInv
<1>4. OnePlace
  BY <1>3 DEF Init, OnePlace, Listed, Held, Pushing, Retired, NoNodes
<1>5. HazardInv
  BY DEF Init, HazardInv, Using
<1>6. QED
  BY <1>1, <1>2, <1>3, <1>4, <1>5 DEF StackInv

LEMMA StackStutters == StackInv /\ UNCHANGED vars => StackInv'
<1> SUFFICES ASSUME StackInv, UNCHANGED vars PROVE StackInv'
  OBVIOUS
<1> USE DEF vars, heap, hazard, scan, local
<1>1. TypeOK'
  BY DEF StackInv, TypeOK
<1>2. PlaceInv'
  BY DEF StackInv, PlaceInv, Place, LengthOf
<1>3. OnStack' = OnStack /\ ListInv'
  BY ListStays DEF StackInv
<1>4. OnePlace'
  BY <1>3 DEF StackInv, OnePlace, Listed, Held, Pushing, Retired
<1>5. HazardInv'
  BY DEF StackInv, HazardInv, Using, Pushing, Retired
<1>6. QED
  BY <1>1, <1>2, <1>3, <1>4, <1>5 DEF StackInv

LEMMA StackStep == StackInv /\ [Next]_vars => StackInv'
<1> SUFFICES ASSUME StackInv, [Next]_vars PROVE StackInv'
  OBVIOUS
<1>1. CASE UNCHANGED vars
  BY <1>1, StackStutters
<1>2. ASSUME NEW i \in Threads, Step(i) PROVE StackInv'
  BY <1>2, TypeStep, PlaceStep, ListStep, OnePlaceStep, HazardStep DEF StackInv
<1>3. QED
  BY <1>1, <1>2 DEF Next

THEOREM StackInvariance == Spec => []StackInv
BY StackInit, StackStep, PTL DEF Spec

THEOREM TypeCorrect == Spec => []TypeOK
<1>1. StackInv => TypeOK
  BY DEF StackInv
<1>2. QED
  BY <1>1, StackInvariance, PTL

THEOREM NoUseAfterFreeCorrect == Spec => []NoUseAfterFree
<1>1. StackInv => NoUseAfterFree
  BY DEF StackInv, HazardInv, NoUseAfterFree
<1>2. QED
  BY <1>1, StackInvariance, PTL
LEMMA EachPlaced == StackInv => NodesAccounted
<1> SUFFICES ASSUME StackInv, NEW x \in Nodes
             PROVE  IF x \in allocated THEN \E a \in Places(x, OnStack) : Places(x, OnStack) = {a}
                                       ELSE Places(x, OnStack) = {}
  BY DEF NodesAccounted
<1> DEFINE q == OnStack
           Stacked == {<<"stack", 0, k>> : k \in {k \in DOMAIN q : q[k] = x}}
           InHands == {<<"held", i, 1>> : i \in {i \in Threads : Held(i, x)}}
           Old(i) == {<<"retired", i, k>> : k \in 1..retired[i][x]}
           Thrown == UNION {Old(i) : i \in Threads}
<1>1. Places(x, OnStack) = Stacked \cup InHands \cup Thrown
  BY DEF Places
<1>2. q \in Seq(Nodes) /\ DOMAIN q = 1..Len(q)
  BY ListFacts DEF StackInv
<1>3. ~Listed(x) => Stacked = {}
  BY <1>2 DEF Listed
<1>4. (\A i \in Threads : ~Held(i, x)) => InHands = {}
  OBVIOUS
<1>5. \A i \in Threads : Retired(i, x) => Old(i) = {<<"retired", i, 1>>}
  <2> SUFFICES ASSUME NEW i \in Threads, Retired(i, x) PROVE Old(i) = {<<"retired", i, 1>>}
    OBVIOUS
  <2>1. retired[i][x] = 1
    BY DEF StackInv, OnePlace
  <2>2. 1..1 = {1}
    OBVIOUS
  <2>3. QED
    BY <2>1, <2>2
<1>6. \A i \in Threads : ~Retired(i, x) => Old(i) = {}
  <2> SUFFICES ASSUME NEW i \in Threads, ~Retired(i, x) PROVE Old(i) = {}
    OBVIOUS
  <2>1. retired[i][x] = 0
    BY DEF Retired
  <2>2. 1..0 = {}
    OBVIOUS
  <2>3. QED
    BY <2>1, <2>2
<1>7. (\A i \in Threads : ~Retired(i, x)) => Thrown = {}
  BY <1>6
<1> HIDE DEF Old
<1>8. OnePlace
  BY DEF StackInv
<1>9. CASE x \notin allocated
  BY <1>1, <1>3, <1>4, <1>7, <1>8, <1>9 DEF OnePlace
<1>10. CASE Listed(x)
  <2>1. x \in allocated /\ \A i \in Threads : ~Held(i, x) /\ ~Retired(i, x)
    BY <1>8, <1>10 DEF OnePlace
  <2>2. PICK k \in 1..Len(q) : q[k] = x
    BY <1>10 DEF Listed
  <2>3. \A l \in 1..Len(q) : q[l] = x => l = k
    BY <2>2 DEF StackInv, ListInv, IsChain
  <2>4. {l \in DOMAIN q : q[l] = x} = {k}
    BY <1>2, <2>2, <2>3
  <2>5. Stacked = {<<"stack", 0, k>>}
    BY <2>4
  <2>6. QED
    BY <1>1, <1>4, <1>7, <2>1, <2>5
<1>11. ASSUME NEW i \in Threads, Held(i, x)
       PROVE  x \in allocated /\ \E a \in Places(x, OnStack) : Places(x, OnStack) = {a}
  <2>1. /\ x \in allocated /\ ~Listed(x) /\ \A j \in Threads : ~Retired(j, x)
        /\ \A j \in Threads : Held(j, x) => j = i
    BY <1>8, <1>11 DEF OnePlace
  <2>2. {j \in Threads : Held(j, x)} = {i}
    BY <1>11, <2>1
  <2>3. InHands = {<<"held", i, 1>>}
    BY <2>2
  <2>4. QED
    BY <1>1, <1>3, <1>7, <2>1, <2>3
<1>12. ASSUME NEW i \in Threads, Retired(i, x)
       PROVE  x \in allocated /\ \E a \in Places(x, OnStack) : Places(x, OnStack) = {a}
  <2>1. /\ x \in allocated /\ ~Listed(x) /\ \A j \in Threads : ~Held(j, x)
        /\ \A j \in Threads \ {i} : ~Retired(j, x)
    BY <1>8, <1>12 DEF OnePlace
  <2>2. Old(i) = {<<"retired", i, 1>>} /\ \A j \in Threads \ {i} : Old(j) = {}
    BY <1>5, <1>6, <1>12, <2>1
  <2>3. Thrown = {<<"retired", i, 1>>}
    BY <2>2
  <2>4. QED
    BY <1>1, <1>3, <1>4, <2>1, <2>3
<1>13. QED
  BY <1>8, <1>9, <1>10, <1>11, <1>12 DEF OnePlace

THEOREM NodesAccountedCorrect == Spec => []NodesAccounted
BY StackInvariance, EachPlaced, PTL
(* ------------------------- The refinement ------------------------------ *)

LEMMA ItemsAre ==
    ASSUME TypeOK, ListInv
    PROVE  /\ Items \in Seq(Values \cup {Null}) /\ Len(Items) = Len(OnStack)
           /\ \A k \in 1..Len(OnStack) : Items[k] = t[OnStack[k]]
<1>1. OnStack \in Seq(Nodes) /\ Len(OnStack) \in Nat /\ t \in [Nodes -> Values \cup {Null}]
  BY ListFacts DEF TypeOK
<1>2. \A k \in 1..Len(OnStack) : t[OnStack[k]] \in Values \cup {Null}
  BY <1>1
<1>3. Items = [k \in 1..Len(OnStack) |-> t[OnStack[k]]]
  BY <1>1 DEF Items
<1>4. QED
  BY <1>1, <1>2, <1>3

ItemsHold ==
    /\ Items \in Seq(Values \cup {Null}) /\ Len(Items) = Len(OnStack)
    /\ \A k \in 1..Len(OnStack) : Items[k] = t[OnStack[k]]

LEMMA ItemsHeld == StackInv => ItemsHold
BY ItemsAre DEF StackInv, ItemsHold

LEMMA ItemsHeldPrime == StackInv' => ItemsHold'
BY ItemsHeld, PTL

LEMMA ItemsStay ==
    ASSUME StackInv, NEW i \in Threads, Step(i), OnStack' = OnStack
    PROVE  Items' = Items
<1>1. OnStack \in Seq(Nodes) /\ DOMAIN OnStack = 1..Len(OnStack)
  BY ListFacts DEF StackInv
<1>2. ASSUME NEW k \in DOMAIN OnStack PROVE t'[OnStack[k]] = t[OnStack[k]]
  <2>1. OnStack[k] \in Nodes /\ Listed(OnStack[k])
    BY <1>1, <1>2 DEF Listed
  <2>2. QED
    BY <2>1, PlacedStays, NodeWrites
<1>3. QED
  BY <1>2 DEF Items

(* What the others do, or have done, is as it was.                         *)
LEMMA OperationStays ==
    ASSUME StackInv, NEW i \in Threads, Step(i), NEW j \in Threads, j # i
    PROVE  Operation(j)' = Operation(j)
<1>1. /\ pc'[j] = pc[j] /\ call'[j] = call[j] /\ p'[j] = p[j] /\ result'[j] = result[j]
      /\ val'[j] = val[j]
  BY OthersStay DEF StackInv
<1>2. Place(j)
  BY DEF StackInv, PlaceInv
<1>3. ASSUME NEW x \in Nodes, Held(j, x) PROVE t'[x] = t[x]
  BY <1>3, PlacedStays, NodeWrites
<1>4. call[j] = "push" /\ pc[j] # "release" => t'[p[j]] = t[p[j]]
  <2> SUFFICES ASSUME call[j] = "push", pc[j] # "release" PROVE t'[p[j]] = t[p[j]]
    OBVIOUS
  <2>1. p[j] \in Nodes /\ Held(j, p[j])
    BY <1>2 DEF Place, Held, Pushing
  <2>2. QED
    BY <1>3, <2>1
<1>5. call[j] = "pop" /\ pc[j] = "retire" => t'[p[j]] = t[p[j]]
  <2> SUFFICES ASSUME call[j] = "pop", pc[j] = "retire" PROVE t'[p[j]] = t[p[j]]
    OBVIOUS
  <2>1. p[j] \in Nodes /\ Held(j, p[j])
    BY <1>2 DEF Place, Held
  <2>2. QED
    BY <1>3, <2>1
<1>6. pc[j] = "acquired" => LengthOf(result[j])' = LengthOf(result[j])
  <2> SUFFICES ASSUME pc[j] = "acquired" PROVE LengthOf(result[j])' = LengthOf(result[j])
    OBVIOUS
  <2>1. CASE result[j] = Null
    BY <1>1, <2>1 DEF LengthOf
  <2>2. CASE result[j] # Null
    <3>1. result[j] \in Nodes /\ Using(j, result[j])
      BY <2>2 DEF Using, StackInv, TypeOK, NodeOrNull
    <3>2. result[j] \in allocated /\ result[j] \in allocated'
      BY <3>1, UsedStays
    <3>3. ~Pushing(i, result[j])
      BY <3>1 DEF StackInv, HazardInv
    <3>4. length'[result[j]] = length[result[j]]
      BY <3>1, <3>2, <3>3, NodeWrites
    <3>5. QED
      BY <1>1, <2>2, <3>4 DEF LengthOf
  <2>3. QED
    BY <2>1, <2>2
<1>7. Taken(j)' <=> Taken(j)
  BY <1>1 DEF Taken
<1>8. Taken(j) => Result(j)' = Result(j)
  <2> SUFFICES ASSUME Taken(j) PROVE Result(j)' = Result(j)
    OBVIOUS
  <2>1. CASE call[j] = "push"
    BY <1>1, <2>1 DEF Result
  <2>2. CASE call[j] # "push" /\ pc[j] = "acquired"
    BY <1>1, <1>6, <2>2 DEF Result
  <2>3. CASE call[j] # "push" /\ pc[j] = "retire"
    <3>1. call[j] = "pop"
      BY <2>3 DEF Taken
    <3>2. QED
      BY <1>1, <1>5, <2>3, <3>1 DEF Result
  <2>4. CASE call[j] # "push" /\ pc[j] # "acquired" /\ pc[j] # "retire"
    BY <1>1, <2>4 DEF Result
  <2>5. QED
    BY <2>1, <2>2, <2>3, <2>4
<1>9. ~Taken(j) /\ call[j] = "push" => pc[j] # "release"
  BY DEF Taken
<1>10. QED
  BY <1>1, <1>4, <1>7, <1>8, <1>9 DEF Operation

LEMMA OperationsStep ==
    ASSUME StackInv, NEW i \in Threads, Step(i)
    PROVE  Ops' = [Ops EXCEPT ![i] = Operation(i)']
<1>1. \A j \in Threads : j # i => Operation(j)' = Operation(j)
  BY OperationStays
<1>2. QED
  BY <1>1 DEF Ops

LEMMA RefineInit == Init => Stack!Init
<1> SUFFICES ASSUME Init PROVE Stack!Init
  OBVIOUS
<1>1. ItemsHold /\ OnStack = << >>
  <2>1. StackInv
    BY StackInit
  <2>2. head = Null /\ OnStack \in Seq(Nodes) /\ head = IF OnStack = << >> THEN Null ELSE OnStack[1]
    BY <2>1, ListFacts DEF StackInv, Init
  <2>3. OnStack = << >>
    <3>1. OnStack # << >> => OnStack[1] \in Nodes
      BY <2>2
    <3>2. QED
      BY <2>2, <3>1
  <2>4. QED
    BY <2>1, <2>3, ItemsHeld
<1>2. Items = << >>
  BY <1>1 DEF ItemsHold
<1>3. Ops = [i \in Threads |-> [call |-> "none"]]
  BY DEF Ops, Operation, Init
<1>4. QED
  BY <1>2, <1>3 DEF Stack!Init, Stack!Idle
(* A step that changes neither is a stutter.                               *)
LEMMA Stutters ==
    ASSUME StackInv, NEW i \in Threads, Step(i), OnStack' = OnStack, Operation(i)' = Operation(i)
    PROVE  UNCHANGED Stack!vars
<1>1. Items' = Items
  BY ItemsStay
<1>2. Ops' = [Ops EXCEPT ![i] = Ops[i]]
  BY OperationsStep DEF Ops
<1>3. Ops' = Ops
  BY <1>2 DEF Ops
<1>4. QED
  BY <1>1, <1>3 DEF Stack!vars

LEMMA RefineCallPush ==
    ASSUME StackInv, NEW i \in Threads, Step(i), NEW v \in Values, CallPush(i, v)
    PROVE  Stack!Call(i)
<1>1. OnStack' = OnStack
  <2>1. ~Pushes(i) /\ ~Pops(i)
    BY DEF CallPush, Pushes, PushCas, Pops, PopCas, At
  <2>2. QED
    BY <2>1, ListStep
<1>2. Items' = Items
  BY <1>1, ItemsStay
<1>3. Operation(i) = [call |-> "none"]
  BY DEF CallPush, At, Operation
<1>4. pc'[i] = "load" /\ call'[i] = "push" /\ t'[p'[i]] = v
  BY DEF CallPush, Goto, StackInv, TypeOK
<1>5. Operation(i)' = [call |-> "push", arg |-> v]
  BY <1>4 DEF Operation, Taken
<1>6. QED
  BY <1>2, <1>3, <1>5, OperationsStep DEF Stack!Call, Stack!Idle, Stack!Pushing, Ops

LEMMA RefineCallOther ==
    ASSUME StackInv, NEW i \in Threads, Step(i), NEW c \in {"pop", "size"}, CallOther(i, c)
    PROVE  Stack!Call(i)
<1>1. OnStack' = OnStack
  <2>1. ~Pushes(i) /\ ~Pops(i)
    BY DEF CallOther, Pushes, PushCas, Pops, PopCas, At
  <2>2. QED
    BY <2>1, ListStep
<1>2. Items' = Items
  BY <1>1, ItemsStay
<1>3. Operation(i) = [call |-> "none"]
  BY DEF CallOther, At, Operation
<1>4. pc'[i] = "load" /\ call'[i] = c
  BY DEF CallOther, Goto, StackInv, TypeOK
<1>5. Operation(i)' = [call |-> c]
  BY <1>4 DEF Operation, Taken
<1>6. QED
  BY <1>2, <1>3, <1>5, OperationsStep DEF Stack!Call, Stack!Idle, Stack!Popping, Stack!Sizing, Ops

(* size takes effect when acquire has seen head a second time.             *)
LEMMA RefineCheck ==
    ASSUME StackInv, NEW i \in Threads, Step(i), Check(i)
    PROVE  Stack!Size(i) \/ UNCHANGED Stack!vars
<1>1. OnStack' = OnStack
  <2>1. ~Pushes(i) /\ ~Pops(i)
    BY DEF Check, Pushes, PushCas, Pops, PopCas, At
  <2>2. QED
    BY <2>1, ListStep
<1>2. /\ pc[i] = "check" /\ pc'[i] = IF head = result[i] THEN "acquired" ELSE "load"
      /\ call' = call /\ p' = p /\ result' = result /\ t' = t /\ length' = length
  BY DEF Check, At, Goto, heap, local, StackInv, TypeOK
<1>3. CASE call[i] = "size" /\ head = result[i]
  <2>1. Operation(i) = [call |-> "size"]
    BY <1>2, <1>3 DEF Operation, Taken
  <2>2. Operation(i)' = [call |-> "return", result |-> << LengthOf(head) >>]
    BY <1>2, <1>3 DEF Operation, Taken, Result, LengthOf
  <2>3. LengthOf(head) = Len(Items)
    BY ItemsHeld, ListFacts DEF StackInv, ItemsHold
  <2>4. Items' = Items
    BY <1>1, ItemsStay
  <2>5. QED
    BY <2>1, <2>2, <2>3, <2>4, OperationsStep DEF Stack!Size, Stack!Returning, Ops
<1>4. CASE ~(call[i] = "size" /\ head = result[i])
  <2>1. Operation(i)' = Operation(i)
    BY <1>2, <1>4 DEF Operation, Taken
  <2>2. QED
    BY <1>1, <2>1, Stutters
<1>5. QED
  BY <1>3, <1>4

LEMMA RefinePopEmpty ==
    ASSUME StackInv, NEW i \in Threads, Step(i), PopEmpty(i)
    PROVE  Stack!PopNothing(i)
<1>1. OnStack' = OnStack /\ Items' = Items
  <2>1. ~Pushes(i) /\ ~Pops(i)
    BY DEF PopEmpty, Pushes, PushCas, Pops, PopCas, At
  <2>2. QED
    BY <2>1, ListStep, ItemsStay
<1>2. Items = << >>
  <2>1. Len(Items) = 0
    <3>1. LengthOf(head) = 0
      BY DEF PopEmpty, LengthOf
    <3>2. QED
      BY <3>1, ItemsHeld, ListFacts DEF StackInv, ItemsHold
  <2>2. QED
    BY <2>1, ItemsHeld DEF ItemsHold
<1>3. Operation(i) = [call |-> "pop"]
  BY DEF PopEmpty, At, Operation, Taken
<1>4. Operation(i)' = [call |-> "none"]
  BY DEF PopEmpty, Goto, StackInv, TypeOK, Operation
<1>5. QED
  BY <1>1, <1>2, <1>3, <1>4, OperationsStep DEF Stack!PopNothing, Stack!Idle, Ops

LEMMA RefinePush ==
    ASSUME StackInv, NEW i \in Threads, Step(i), Pushes(i), StackInv'
    PROVE  Stack!Push(i)
<1> DEFINE q == OnStack
           x == t[p[i]]
           r == << x >> \o Items
<1>1. p[i] \in Nodes /\ OnStack' = << p[i] >> \o q
  BY PushSucceeds
<1>2. ItemsHold /\ ItemsHold'
  BY ItemsHeld, ItemsHeldPrime
<1>3. q \in Seq(Nodes) /\ Len(q) \in Nat
  BY ListFacts DEF StackInv
<1>4. t' = t /\ x \in Values \cup {Null}
  BY <1>1 DEF Pushes, PushCas, StackInv, TypeOK
<1>5. /\ Len(OnStack') = Len(q) + 1 /\ OnStack'[1] = p[i]
      /\ \A k \in 1..Len(q) : OnStack'[k + 1] = q[k]
  BY <1>1, <1>3
<1>6. /\ r \in Seq(Values \cup {Null}) /\ Len(r) = Len(q) + 1 /\ r[1] = x
      /\ \A k \in 1..Len(q) : r[k + 1] = Items[k]
  BY <1>2, <1>3, <1>4 DEF ItemsHold
<1>7. Items' \in Seq(Values \cup {Null}) /\ Len(Items') = Len(q) + 1
  BY <1>2, <1>5 DEF ItemsHold
<1>8. ASSUME NEW k \in 1..Len(q) + 1 PROVE Items'[k] = r[k]
  <2>1. Items'[k] = t[OnStack'[k]]
    BY <1>2, <1>4, <1>5 DEF ItemsHold
  <2>2. CASE k = 1
    BY <1>5, <1>6, <2>1, <2>2
  <2>3. CASE k # 1
    <3>1. k - 1 \in 1..Len(q) /\ k - 1 + 1 = k
      BY <1>3, <2>3
    <3>2. OnStack'[k] = q[k - 1] /\ r[k] = Items[k - 1]
      BY <1>5, <1>6, <3>1
    <3>3. Items[k - 1] = t[q[k - 1]]
      BY <1>2, <3>1 DEF ItemsHold
    <3>4. QED
      BY <2>1, <3>2, <3>3
  <2>4. QED
    BY <2>2, <2>3
<1>9. Items' = << x >> \o Items
  BY <1>6, <1>7, <1>8, SeqEqual
<1>10. pc[i] = "cas" /\ call[i] = "push" /\ pc'[i] = "release" /\ call' = call
  BY DEF Pushes, PushCas, At, Goto, local, StackInv, TypeOK
<1>11. Operation(i) = [call |-> "push", arg |-> x]
  BY <1>10 DEF Operation, Taken
<1>12. Operation(i)' = [call |-> "return", result |-> << >>]
  BY <1>10 DEF Operation, Taken, Result
<1>13. QED
  BY <1>9, <1>11, <1>12, OperationsStep DEF Stack!Push, Stack!Returning, Stack!Nothing, Ops

LEMMA RefinePop ==
    ASSUME StackInv, NEW i \in Threads, Step(i), Pops(i), StackInv'
    PROVE  Stack!Pop(i)
<1> DEFINE q == OnStack
           r == Tail(Items)
<1>1. q # << >> /\ q[1] = result[i] /\ OnStack' = Tail(q)
  BY PopSucceeds
<1>2. ItemsHold /\ ItemsHold'
  BY ItemsHeld, ItemsHeldPrime
<1>3. q \in Seq(Nodes) /\ Len(q) \in Nat /\ Len(q) # 0
  BY <1>1, ListFacts, EmptySeq DEF StackInv
<1>4. t' = t
  BY DEF Pops, PopCas, heap
<1>5. Len(OnStack') = Len(q) - 1 /\ \A k \in 1..Len(q) - 1 : OnStack'[k] = q[k + 1]
  BY <1>1, <1>3
<1>6. Items # << >> /\ Head(Items) = t[result[i]]
  <2>1. Len(Items) # 0 /\ 1 \in 1..Len(q)
    BY <1>2, <1>3 DEF ItemsHold
  <2>2. Items # << >> /\ Head(Items) = Items[1]
    BY <1>2, <2>1 DEF ItemsHold
  <2>3. QED
    BY <1>1, <1>2, <2>1, <2>2 DEF ItemsHold
<1>7. /\ r \in Seq(Values \cup {Null}) /\ Len(r) = Len(q) - 1
      /\ \A k \in 1..Len(q) - 1 : r[k] = Items[k + 1]
  BY <1>2, <1>3, <1>6 DEF ItemsHold
<1>8. Items' \in Seq(Values \cup {Null}) /\ Len(Items') = Len(q) - 1
  BY <1>2, <1>5 DEF ItemsHold
<1>9. ASSUME NEW k \in 1..Len(q) - 1 PROVE Items'[k] = r[k]
  <2>1. Items'[k] = t[OnStack'[k]]
    BY <1>2, <1>4, <1>5 DEF ItemsHold
  <2>2. k + 1 \in 1..Len(q)
    BY <1>3
  <2>3. Items[k + 1] = t[q[k + 1]]
    BY <1>2, <2>2 DEF ItemsHold
  <2>4. QED
    BY <1>5, <1>7, <2>1, <2>3
<1>10. Items' = Tail(Items)
  BY <1>7, <1>8, <1>9, SeqEqual
<1>11. /\ pc[i] = "cas" /\ call[i] = "pop" /\ pc'[i] = "retire" /\ call' = call
       /\ p'[i] = result[i]
  BY DEF Pops, PopCas, At, Goto, StackInv, TypeOK
<1>12. Operation(i) = [call |-> "pop"]
  BY <1>11 DEF Operation, Taken
<1>13. Operation(i)' = [call |-> "return", result |-> << t[result[i]] >>]
  BY <1>4, <1>11 DEF Operation, Taken, Result
<1>14. QED
  BY <1>6, <1>10, <1>12, <1>13, OperationsStep DEF Stack!Pop, Stack!Returning, Ops

LEMMA RefineRelease ==
    ASSUME StackInv, NEW i \in Threads, Step(i), Release(i)
    PROVE  Stack!Return(i)
<1>1. OnStack' = OnStack /\ Items' = Items
  <2>1. ~Pushes(i) /\ ~Pops(i)
    BY DEF Release, Pushes, PushCas, Pops, PopCas, At
  <2>2. QED
    BY <2>1, ListStep, ItemsStay
<1>2. call[i] \in {"push", "pop", "size"} /\ pc[i] = "release"
  BY DEF Release, At, StackInv, TypeOK, PlaceInv, Place
<1>3. Operation(i).call = "return"
  BY <1>2 DEF Operation, Taken
<1>4. Operation(i)' = [call |-> "none"]
  BY DEF Release, Goto, StackInv, TypeOK, Operation
<1>5. QED
  BY <1>1, <1>3, <1>4, OperationsStep DEF Stack!Return, Stack!Idle, Ops

(* The other steps change nothing that a caller could see.                 *)
LEMMA RefineQuiet ==
    ASSUME StackInv, NEW i \in Threads, Step(i), ~Pushes(i), ~Pops(i),
           \/ Load(i) \/ Announce(i) \/ PushLink(i) \/ PushCas(i) \/ PopNext(i) \/ PopCas(i)
           \/ Retire(i) \/ ScanSlot(i) \/ Eject(i) \/ SizeRead(i)
    PROVE  UNCHANGED Stack!vars
<1>1. OnStack' = OnStack
  BY ListStep
<1>2. /\ pc \in [Threads -> {"idle", "load", "announce", "check", "acquired", "cas", "retire", "scan", "release"}]
      /\ call \in [Threads -> {"none", "push", "pop", "size"}]
      /\ DOMAIN p = Threads /\ DOMAIN val = Threads
  BY DEF StackInv, TypeOK
<1>3. Place(i)
  BY DEF StackInv, PlaceInv
<1>4. CASE Load(i) \/ Announce(i) \/ PushLink(i) \/ PopNext(i)
  <2>1. /\ pc[i] \in {"load", "announce", "acquired"} /\ pc'[i] \in {"announce", "check", "cas"}
        /\ (pc[i] = "acquired" => call[i] # "size") /\ call' = call /\ p' = p /\ t' = t
    BY <1>2, <1>4 DEF Load, Announce, PushLink, PopNext, At, Goto, heap, local
  <2>2. Operation(i)' = Operation(i)
    BY <2>1 DEF Operation, Taken
  <2>3. QED
    BY <1>1, <2>2, Stutters
<1>5. CASE PushCas(i) \/ PopCas(i)
  <2>1. /\ pc[i] = "cas" /\ pc'[i] = "load" /\ call' = call /\ p' = p /\ t' = t
    BY <1>2, <1>5 DEF PushCas, PopCas, Pushes, Pops, At, Goto, heap, local
  <2>2. Operation(i)' = Operation(i)
    BY <2>1 DEF Operation, Taken
  <2>3. QED
    BY <1>1, <2>2, Stutters
<1>6. CASE Retire(i)
  <2>1. /\ pc[i] = "retire" /\ pc'[i] \in {"scan", "release"} /\ call' = call /\ val'[i] = t[p[i]]
    BY <1>2, <1>6 DEF Retire, At, Goto
  <2>2. call[i] = "pop"
    BY <1>2, <1>3, <2>1 DEF Place
  <2>3. Operation(i)' = Operation(i)
    BY <2>1, <2>2 DEF Operation, Taken, Result
  <2>4. QED
    BY <1>1, <2>3, Stutters
<1>7. CASE ScanSlot(i) \/ Eject(i)
  <2>1. pc[i] = "scan" /\ pc'[i] \in {"scan", "release"} /\ call' = call /\ val' = val
    BY <1>2, <1>7 DEF ScanSlot, Eject, At, Goto, local
  <2>2. call[i] = "pop"
    BY <1>2, <1>3, <2>1 DEF Place
  <2>3. Operation(i)' = Operation(i)
    BY <2>1, <2>2 DEF Operation, Taken, Result
  <2>4. QED
    BY <1>1, <2>3, Stutters
<1>8. CASE SizeRead(i)
  <2>1. /\ pc[i] = "acquired" /\ pc'[i] = "release" /\ call[i] = "size" /\ call' = call
        /\ val'[i] = LengthOf(result[i])
    BY <1>2, <1>8 DEF SizeRead, At, Goto
  <2>2. Operation(i)' = Operation(i)
    BY <2>1 DEF Operation, Taken, Result
  <2>3. QED
    BY <1>1, <2>2, Stutters
<1>9. QED
  BY <1>4, <1>5, <1>6, <1>7, <1>8

LEMMA RefineStep == StackInv /\ StackInv' /\ [Next]_vars => [Stack!Next]_(Stack!vars)
<1> SUFFICES ASSUME StackInv, StackInv', [Next]_vars PROVE [Stack!Next]_(Stack!vars)
  OBVIOUS
<1>1. CASE UNCHANGED vars
  <2>1. OnStack' = OnStack /\ t' = t
    BY <1>1, ListStays DEF vars, heap, StackInv
  <2>2. Items' = Items
    BY <2>1 DEF Items
  <2>3. Ops' = Ops
    BY <1>1 DEF vars, heap, local, Ops, Operation, Taken, Result, LengthOf
  <2>4. QED
    BY <2>2, <2>3 DEF Stack!vars
<1>2. ASSUME NEW i \in Threads, Step(i) PROVE [Stack!Next]_(Stack!vars)
  <2>1. \/ Stack!Call(i) \/ Stack!Push(i) \/ Stack!Pop(i) \/ Stack!PopNothing(i)
        \/ Stack!Size(i) \/ Stack!Return(i) \/ UNCHANGED Stack!vars
    BY <1>2, RefineCallPush, RefineCallOther, RefineCheck, RefinePopEmpty, RefinePush, RefinePop,
       RefineRelease, RefineQuiet DEF Step
  <2>2. QED
    BY <2>1 DEF Stack!Next
<1>3. QED
  BY <1>1, <1>2 DEF Next

(* The operations take effect one at a time, as a stack's.                 *)
THEOREM Refinement == Spec => Implements
<1>1. Init => Stack!Init
  BY RefineInit
<1>2. StackInv /\ StackInv' /\ [Next]_vars => [Stack!Next]_(Stack!vars)
  BY RefineStep
<1>3. QED
  BY <1>1, <1>2, StackInvariance, PTL DEF Spec, Implements, Stack!Spec
=============================================================================
