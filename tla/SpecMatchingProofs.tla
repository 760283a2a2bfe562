------------------------- MODULE SpecMatchingProofs -------------------------
(***************************************************************************)
(* The deterministic maximal matching, for every list of edges among the   *)
(* vertices, every round size and interleaving: the edges it ends with are *)
(* those of the serial loop, and no reservation outlives its round.  An    *)
(* edge that still holds both cells when it commits has no earlier edge of *)
(* its round at either end; one of an earlier round would have matched the *)
(* vertex, and one of this round would hold the cell.                      *)
(***************************************************************************)
EXTENDS SpecMatching, SpeculativeForProofs

USE SpeculativeForAssumption

(* ------------------------- The serial loop ----------------------------- *)

(* Does the serial loop take edge i when it has taken those before as f    *)
(* says?                                                                   *)
Taken(g, f, i) ==
    g[i].u # g[i].v /\ \A j \in s..(i - 1) : f[j] => Disjoint(g[i], g[j])

MatchFollows(g, f, n) == \A i \in Iterations : i < n => (f[i] <=> Taken(g, f, i))

LEMMA TakenByEarlier ==
    ASSUME NEW g, NEW f, NEW h, NEW i \in Iterations,
           \A j \in Iterations : j < i => (f[j] <=> h[j])
    PROVE  Taken(g, f, i) <=> Taken(g, h, i)
<1>1. \A j \in s..(i - 1) : j \in Iterations /\ j < i
  BY DEF Iterations
<1>2. \A j \in s..(i - 1) : f[j] <=> h[j]
  BY <1>1
<1>3. QED
  BY <1>2, Zenon DEF Taken

LEMMA MatchFollowedTo ==
    ASSUME NEW g, NEW n \in Nat
    PROVE  \E f \in [Iterations -> BOOLEAN] : MatchFollows(g, f, n)
<1> DEFINE Stuck == {k \in Nat : \A f \in [Iterations -> BOOLEAN] : ~MatchFollows(g, f, k)}
<1>1. SUFFICES ASSUME Stuck # {} PROVE FALSE
  BY <1>1
<1>2. PICK a \in Stuck : \A b \in Stuck : ~(b < a)
  <2>1. Stuck \subseteq Nat
    OBVIOUS
  <2> HIDE DEF Stuck
  <2>2. QED
    BY <1>1, <2>1, SmallestNat
<1>3. a \in Nat /\ a # 0
  <2>1. [i \in Iterations |-> FALSE] \in [Iterations -> BOOLEAN]
    OBVIOUS
  <2>2. \A i \in Iterations : ~(i < 0)
    BY DEF Iterations
  <2>3. MatchFollows(g, [i \in Iterations |-> FALSE], 0)
    BY <2>2 DEF MatchFollows
  <2>4. 0 \notin Stuck
    BY <2>1, <2>3
  <2>5. QED
    BY <2>4
<1>4. a - 1 \in Nat /\ a - 1 < a
  BY <1>3
<1>5. PICK f \in [Iterations -> BOOLEAN] : MatchFollows(g, f, a - 1)
  BY <1>2, <1>4
<1> DEFINE h == [i \in Iterations |-> IF i = a - 1 THEN Taken(g, f, i) ELSE f[i]]
<1>6. h \in [Iterations -> BOOLEAN]
  BY DEF Taken
<1>7. ASSUME NEW i \in Iterations, i < a PROVE h[i] <=> Taken(g, h, i)
  <2>1. i \in Nat
    BY DEF Iterations
  <2>2. \A j \in Iterations : j < i => j # a - 1
    BY <1>3, <1>7, <2>1 DEF Iterations
  <2>3. \A j \in Iterations : j < i => (f[j] <=> h[j])
    BY <2>2
  <2> HIDE DEF h
  <2>4. Taken(g, f, i) <=> Taken(g, h, i)
    BY <2>3, TakenByEarlier
  <2> USE DEF h
  <2>5. CASE i = a - 1
    <3>1. h[i] <=> Taken(g, f, i)
      BY <2>5
    <3>2. QED
      BY <2>4, <3>1
  <2>6. CASE i # a - 1
    <3>1. i < a - 1
      BY <1>3, <1>7, <2>1, <2>6
    <3>2. f[i] <=> Taken(g, f, i)
      BY <1>5, <3>1 DEF MatchFollows
    <3>3. h[i] = f[i]
      BY <2>6
    <3>4. QED
      BY <2>4, <3>2, <3>3
  <2>7. QED
    BY <2>5, <2>6
<1>8. MatchFollows(g, h, a)
  BY <1>7 DEF MatchFollows
<1>9. QED
  BY <1>2, <1>6, <1>8

LEMMA SerialMatchIs ==
    /\ SerialMatch \in [Iterations -> BOOLEAN]
    /\ \A i \in Iterations : SerialMatch[i] <=> Taken(E, SerialMatch, i)
<1>1. PICK f \in [Iterations -> BOOLEAN] : MatchFollows(E, f, e)
  BY MatchFollowedTo
<1>2. \A i \in Iterations : i < e
  BY DEF Iterations
<1>3. \A i \in Iterations : f[i] <=> Taken(E, f, i)
  BY <1>1, <1>2 DEF MatchFollows
<1>4. f = [i \in Iterations |->
             E[i].u # E[i].v /\ \A j \in s..(i - 1) : f[j] => Disjoint(E[i], E[j])]
  BY <1>3, Zenon DEF Taken
<1>5. SerialMatch = [i \in Iterations |->
             E[i].u # E[i].v /\ \A j \in s..(i - 1) : SerialMatch[j] => Disjoint(E[i], E[j])]
  BY <1>4, Zenon DEF SerialMatch
<1>6. SerialMatch = [i \in Iterations |-> Taken(E, SerialMatch, i)]
  BY <1>5, Zenon DEF Taken
<1>7. \A i \in Iterations : Taken(E, SerialMatch, i) \in BOOLEAN
  BY DEF Taken
<1>8. QED
  BY <1>6, <1>7, Zenon

LEMMA SerialMatchStays == ASSUME E' = E PROVE SerialMatch' = SerialMatch
  BY DEF SerialMatch, Disjoint

(* Two edges that the serial loop takes have no vertex in common, and it   *)
(* takes no loop.                                                          *)
LEMMA SerialApart ==
    ASSUME NEW i \in Iterations, NEW j \in Iterations, SerialMatch[i], SerialMatch[j], i # j
    PROVE  Ends(i) \cap Ends(j) = {}
<1>1. i \in Nat /\ j \in Nat /\ s <= i /\ s <= j
  BY DEF Iterations
<1>2. ASSUME NEW k \in Iterations, NEW l \in Iterations, SerialMatch[k], SerialMatch[l], k < l
      PROVE  Ends(k) \cap Ends(l) = {}
  <2>1. k \in s..(l - 1)
    BY <1>2 DEF Iterations
  <2>2. Taken(E, SerialMatch, l)
    BY <1>2, SerialMatchIs
  <2>3. Disjoint(E[l], E[k])
    BY <1>2, <2>1, <2>2 DEF Taken
  <2>4. QED
    BY <2>3 DEF Disjoint, Ends
<1>3. CASE i < j
  BY <1>2, <1>3
<1>4. CASE j < i
  BY <1>2, <1>4
<1>5. QED
  BY <1>1, <1>3, <1>4

LEMMA FirstOfBoth ==
    ASSUME NEW i \in Iterations, E[i].u # E[i].v, First(i, E[i].u), First(i, E[i].v)
    PROVE  SerialMatch[i]
<1>1. ASSUME NEW j \in s..(i - 1), SerialMatch[j] PROVE Disjoint(E[i], E[j])
  <2>1. j \in Iterations /\ j < i
    BY DEF Iterations
  <2>2. E[i].u \notin Ends(j) /\ E[i].v \notin Ends(j)
    BY <1>1, <2>1 DEF First
  <2>3. QED
    BY <2>2 DEF Ends, Disjoint
<1>2. Taken(E, SerialMatch, i)
  BY <1>1, Zenon DEF Taken
<1>3. QED
  BY <1>2, SerialMatchIs

(* ------------------------- What stays ---------------------------------- *)

LEMMA Unmoved ==
    ASSUME E' = E
    PROVE  /\ SerialMatch' = SerialMatch /\ \A i : Ends(i)' = Ends(i)
           /\ \A i, x : First(i, x)' <=> First(i, x)
<1>1. SerialMatch' = SerialMatch /\ \A i : Ends(i)' = Ends(i)
  BY SerialMatchStays DEF Ends
<1>2. \A i, x : First(i, x)' <=> First(i, x)
  BY <1>1 DEF First, Iterations
<1>3. QED
  BY <1>1, <1>2

LEMMA SameRound ==
    ASSUME E' = E, UNCHANGED driver
    PROVE  /\ phase' = phase /\ Running' = Running
           /\ \A k : Iteration(k)' = Iteration(k) /\ Has(k)' = Has(k)
<1>1. /\ phase' = phase /\ Running' = Running
      /\ \A k : Iteration(k)' = Iteration(k)
  BY DEF driver, Running, Iteration
<1>2. \A k : Has(k)' = Has(k)
  BY <1>1 DEF Has, Ends
<1>3. QED
  BY <1>1, <1>2

LEMMA NotBelow == ~(max_idx < max_idx)
  BY DEF max_idx

LEMMA EdgeEnds ==
    ASSUME MatchingInv, NEW i \in Iterations
    PROVE  /\ E[i].u \in Vertices /\ E[i].v \in Vertices
           /\ i \in Nat /\ s <= i /\ i < max_idx
<1>1. E[i] \in [u : Vertices, v : Vertices]
  BY DEF MatchingInv, MatchingTypeOK
<1>2. QED
  BY <1>1 DEF Iterations, max_idx

LEMMA CellsOf ==
    ASSUME MatchingInv, NEW x \in Vertices
    PROVE  /\ R[x] \in Nat /\ s <= R[x] /\ R[x] <= max_idx
           /\ R[x] < max_idx => R[x] \in Iterations
           /\ ~(R[x] < max_idx) => R[x] = max_idx
           /\ matched[x] \in BOOLEAN
<1>1. R[x] \in s..e /\ matched[x] \in BOOLEAN
  BY DEF MatchingInv, MatchingTypeOK
<1>2. QED
  BY <1>1 DEF max_idx, Iterations

(* ------------------------- One slot ------------------------------------ *)

LEMMA TypeStep ==
    ASSUME MatchingInv, NEW k \in Slots, NEW l \in MatchingSteps, at' = [at EXCEPT ![k] = l],
           E' = E, phase' = phase, R' \in [Vertices -> s..e], matched' \in [Vertices -> BOOLEAN],
           l = "reserve v" => phase = "reserve",
           l \in {"commit u", "release u"} => phase = "commit"
    PROVE  MatchingTypeOK'
<1>1. MatchingTypeOK
  BY DEF MatchingInv
<1>2. (E \in [Iterations -> [u : Vertices, v : Vertices]])'
  BY <1>1 DEF MatchingTypeOK, Iterations
<1>3. at' \in [Slots -> MatchingSteps]
  BY <1>1 DEF MatchingTypeOK
<1>4. \A o \in Slots : at'[o] = IF o = k THEN l ELSE at[o]
  BY <1>1 DEF MatchingTypeOK
<1>5. \A o \in Slots :
        /\ at'[o] = "reserve v" => phase = "reserve"
        /\ at'[o] \in {"commit u", "release u"} => phase = "commit"
  BY <1>1, <1>4 DEF MatchingTypeOK
<1>6. QED
  BY <1>2, <1>3, <1>5, SlotsStay DEF MatchingTypeOK, MatchingSteps

LEMMA OtherHolds ==
    ASSUME E' = E, UNCHANGED driver, DOMAIN at = Slots, NEW k \in Slots, NEW o, at' = [at EXCEPT ![k] = o],
           keep \in [Slots -> BOOLEAN], NEW b, keep' = [keep EXCEPT ![k] = b] \/ keep' = keep,
           NEW l \in Slots, l # k, NEW x
    PROVE  Holds(l, x)' <=> Holds(l, x)
<1>1. at'[l] = at[l] /\ keep'[l] = keep[l]
  OBVIOUS
<1>2. phase' = phase /\ Iteration(l)' = Iteration(l) /\ Has(l)' = Has(l)
  BY SameRound
<1>3. QED
  BY <1>1, <1>2 DEF Holds

(* ------------------------- One cell ------------------------------------ *)

(* The edge i reserves the vertex x.                                       *)
LEMMA CellReserved ==
    ASSUME MatchingInv, NEW i \in Iterations, NEW x \in Vertices, ~matched[x],
           R' = Reserved(R, x, i), E' = E
    PROVE  /\ R' \in [Vertices -> s..e]
           /\ R'[x] <= i /\ R'[x] \in {R[x], i}
           /\ \A y \in Vertices : y # x => R'[y] = R[y]
           /\ \A y \in Vertices : matched[y] => R'[y] = R[y]
           /\ \A y \in Vertices : R'[y] <= R[y] /\ R'[y] \in Nat
<1>1. R \in [Vertices -> s..e] /\ i \in s..e /\ i \in Nat
  <2>1. R \in [Vertices -> s..e]
    BY DEF MatchingInv, MatchingTypeOK
  <2>2. i \in s..e /\ i \in Nat
    BY DEF Iterations
  <2>3. QED
    BY <2>1, <2>2
<1>2. R' = [R EXCEPT ![x] = MinOf(R[x], i)]
  BY DEF Reserved
<1>3. /\ MinOf(R[x], i) \in s..e /\ MinOf(R[x], i) <= i /\ MinOf(R[x], i) <= R[x]
      /\ MinOf(R[x], i) \in {R[x], i}
  <2>1. R[x] \in s..e
    BY <1>1
  <2>2. QED
    BY <1>1, <2>1 DEF MinOf
<1>4. R' \in [Vertices -> s..e]
  BY <1>1, <1>2, <1>3
<1>5. /\ R'[x] = MinOf(R[x], i)
      /\ \A y \in Vertices : y # x => R'[y] = R[y]
  BY <1>1, <1>2
<1>6. \A y \in Vertices : R'[y] <= R[y] /\ R'[y] \in Nat
  <2>1. \A y \in Vertices : R[y] \in s..e /\ R'[y] \in s..e
    BY <1>1, <1>4
  <2>2. ASSUME NEW y \in Vertices PROVE R'[y] <= R[y] /\ R'[y] \in Nat
    BY <1>3, <1>5, <2>1
  <2>3. QED
    BY <2>2
<1>7. QED
  BY <1>3, <1>4, <1>5, <1>6

LEMMA MatchedReserved ==
    ASSUME MatchingInv, NEW i \in Iterations, NEW x \in Vertices, ~matched[x],
           R' = Reserved(R, x, i), E' = E, UNCHANGED <<matched, committed>>
    PROVE  MatchedInv'
<1>1. /\ \A y \in Vertices : matched[y] => R'[y] = R[y]
  BY CellReserved
<1>2. SerialMatch' = SerialMatch /\ \A j : Ends(j)' = Ends(j) /\ Done(j)' = Done(j)
  BY Unmoved DEF Done
<1>3. MatchedInv
  BY DEF MatchingInv
<1>4. \A y \in Vertices : matched[y] =>
         \E j \in Iterations : SerialMatch[j] /\ Done(j) /\ y \in Ends(j)
  BY <1>3 DEF MatchedInv
<1>5. ASSUME NEW j \in Iterations, SerialMatch[j], Done(j)
      PROVE  /\ matched[E[j].u] /\ matched[E[j].v]
             /\ R'[E[j].u] = j /\ R'[E[j].v] # j
  <2>1. /\ matched[E[j].u] /\ matched[E[j].v]
        /\ R[E[j].u] = j /\ R[E[j].v] # j
    BY <1>3, <1>5 DEF MatchedInv
  <2>2. E[j].u \in Vertices /\ E[j].v \in Vertices
    BY EdgeEnds
  <2>3. QED
    BY <1>1, <2>1, <2>2
<1>6. ASSUME NEW y \in Vertices, matched[y], R'[y] < max_idx
      PROVE  SerialMatch[R'[y]] /\ Done(R'[y]) /\ E[R'[y]].u = y
  <2>1. R'[y] = R[y]
    BY <1>1, <1>6
  <2>2. QED
    BY <1>3, <1>6, <2>1 DEF MatchedInv
<1>7. QED
  BY <1>2, <1>4, <1>5, <1>6 DEF MatchedInv, Done, Iterations, max_idx

(* The edge i, which is not done, gives the vertex x back.                 *)
LEMMA CellReset ==
    ASSUME MatchingInv, NEW i \in Iterations, NEW x \in Vertices, R[x] = i,
           R' = Reset(R, x), E' = E
    PROVE  /\ R' \in [Vertices -> s..e]
           /\ R'[x] = max_idx
           /\ \A y \in Vertices : y # x => R'[y] = R[y]
<1>1. R \in [Vertices -> s..e]
  BY DEF MatchingInv, MatchingTypeOK
<1>2. max_idx \in s..e
  BY DEF max_idx
<1>3. QED
  BY <1>1, <1>2 DEF Reset

LEMMA MatchedReset ==
    ASSUME MatchingInv, NEW i \in Iterations, NEW x \in Vertices, R[x] = i, ~Done(i),
           R' = Reset(R, x), E' = E, UNCHANGED <<matched, committed>>
    PROVE  MatchedInv'
<1>1. R'[x] = max_idx /\ \A y \in Vertices : y # x => R'[y] = R[y]
  BY CellReset
<1>2. SerialMatch' = SerialMatch /\ \A j : Ends(j)' = Ends(j) /\ Done(j)' = Done(j)
  BY Unmoved DEF Done
<1>3. MatchedInv
  BY DEF MatchingInv
<1>4. \A y \in Vertices : matched[y] =>
         \E j \in Iterations : SerialMatch[j] /\ Done(j) /\ y \in Ends(j)
  BY <1>3 DEF MatchedInv
<1>5. ASSUME NEW j \in Iterations, SerialMatch[j], Done(j)
      PROVE  /\ matched[E[j].u] /\ matched[E[j].v]
             /\ R'[E[j].u] = j /\ R'[E[j].v] # j
  <2>1. /\ matched[E[j].u] /\ matched[E[j].v]
        /\ R[E[j].u] = j /\ R[E[j].v] # j
    BY <1>3, <1>5 DEF MatchedInv
  <2>2. E[j].u \in Vertices /\ E[j].v \in Vertices /\ j # max_idx
    BY EdgeEnds
  <2>3. i # j /\ E[j].u # x
    BY <1>5, <2>1
  <2>4. R'[E[j].u] = j
    BY <1>1, <2>1, <2>2, <2>3
  <2>5. R'[E[j].v] # j
    BY <1>1, <2>1, <2>2
  <2>6. QED
    BY <2>1, <2>4, <2>5
<1>6. ASSUME NEW y \in Vertices, matched[y], R'[y] < max_idx
      PROVE  SerialMatch[R'[y]] /\ Done(R'[y]) /\ E[R'[y]].u = y
  <2>1. y # x
    BY <1>1, <1>6, NotBelow
  <2>2. R'[y] = R[y]
    BY <1>1, <2>1
  <2>3. QED
    BY <1>3, <1>6, <2>2 DEF MatchedInv
<1>7. QED
  BY <1>2, <1>4, <1>5, <1>6 DEF MatchedInv, Done, Iterations, max_idx

(* ------------------------- reserve ------------------------------------- *)

(* An edge with a vertex that is matched, or a loop, is not one of the     *)
(* serial loop.                                                            *)
LEMMA DroppedNotSerial ==
    ASSUME MatchingInv, NEW i \in Iterations, Dropped(i), ~Done(i)
    PROVE  ~SerialMatch[i]
<1>1. SUFFICES ASSUME SerialMatch[i] PROVE FALSE
  OBVIOUS
<1>2. CASE E[i].u = E[i].v
  BY <1>1, <1>2, SerialMatchIs DEF Taken
<1>3. ASSUME NEW x \in Ends(i), matched[x] PROVE FALSE
  <2>1. x \in Vertices
    BY <1>3, EdgeEnds DEF Ends
  <2>2. PICK j \in Iterations : SerialMatch[j] /\ Done(j) /\ x \in Ends(j)
    BY <1>3, <2>1 DEF MatchingInv, MatchedInv
  <2>3. i # j
    BY <2>2
  <2>4. QED
    BY <1>1, <1>3, <2>2, <2>3, SerialApart
<1>4. QED
  BY <1>2, <1>3 DEF Dropped, Ends

LEMMA ReserveFailsStep ==
    ASSUME MatchingInv, SpeculativeInv, NEW k \in Slots, ReserveFails(k)
    PROVE  MatchingInv'
<1> DEFINE i == Iteration(k)
<1>1. /\ phase = "reserve" /\ at[k] = "todo" /\ Dropped(i)
      /\ EndReserve(k, FALSE) /\ UNCHANGED <<E, R, matched>>
  BY DEF ReserveFails
<1>2. InRound
  BY <1>1 DEF InRound
<1>3. k \in Running /\ i \in Iterations /\ committed[i] = 0
  BY <1>1, <1>2, SlotFacts
<1>4. /\ committed' = [committed EXCEPT ![i] = @ + 1] /\ UNCHANGED driver
      /\ keep' = [keep EXCEPT ![k] = FALSE] /\ at' = [at EXCEPT ![k] = "ready"]
  BY <1>1 DEF EndReserve
<1>5. committed \in [Iterations -> Nat] /\ keep \in [Slots -> BOOLEAN] /\ DOMAIN at = Slots
  BY <1>2, RoundFacts
<1>6. ~SerialMatch[i]
  BY <1>1, <1>3, DroppedNotSerial DEF Done
<1>7. SerialMatch' = SerialMatch /\ \A j : Ends(j)' = Ends(j)
  BY <1>1, Unmoved
<1>8. /\ phase' = phase /\ Running' = Running
      /\ \A l : Iteration(l)' = Iteration(l) /\ Has(l)' = Has(l)
  BY <1>1, <1>4, SameRound
<1> HIDE DEF i
<1>9. \A j \in Iterations : j # i => committed'[j] = committed[j]
  BY <1>4, <1>5
<1>10. MatchingTypeOK'
  <2>1. R \in [Vertices -> s..e] /\ matched \in [Vertices -> BOOLEAN]
    BY DEF MatchingInv, MatchingTypeOK
  <2>2. QED
    BY <1>1, <1>4, <1>8, <2>1, TypeStep DEF MatchingSteps
<1>11. MatchedInv'
  <2>1. MatchedInv
    BY DEF MatchingInv
  <2>2. \A j \in Iterations : SerialMatch[j] => (Done(j)' <=> Done(j))
    BY <1>6, <1>9 DEF Done
  <2>3. \A y \in Vertices : R[y] < max_idx => R[y] \in Iterations
    BY CellsOf
  <2>4. \A y \in Vertices : matched[y] =>
         \E j \in Iterations : SerialMatch[j] /\ Done(j)' /\ y \in Ends(j)
    BY <2>1, <2>2 DEF MatchedInv
  <2>5. \A j \in Iterations : SerialMatch[j] /\ Done(j)' =>
         /\ matched[E[j].u] /\ matched[E[j].v]
         /\ R[E[j].u] = j /\ R[E[j].v] # j
    BY <2>1, <2>2 DEF MatchedInv
  <2>6. \A y \in Vertices : matched[y] /\ R[y] < max_idx =>
         SerialMatch[R[y]] /\ committed'[R[y]] # 0 /\ E[R[y]].u = y
    BY <2>1, <2>2, <2>3 DEF MatchedInv, Done
  <2>7. QED
    BY <1>1, <1>7, <2>4, <2>5, <2>6 DEF MatchedInv, Done, Iterations, max_idx
<1>12. \A l \in Running, x \in Vertices : Holds(l, x)' <=> Holds(l, x)
  <2>1. ASSUME NEW l \in Running, NEW x \in Vertices PROVE Holds(l, x)' <=> Holds(l, x)
    <3>1. l \in Slots
      BY <1>2, RoundFacts
    <3>2. CASE l = k
      <4>1. at'[l] = "ready" /\ ~keep'[l] /\ at[l] = "todo"
        BY <1>1, <1>4, <1>5, <3>2
      <4>2. QED
        BY <1>1, <1>8, <4>1 DEF Holds
    <3>3. CASE l # k
      BY <1>1, <1>4, <1>5, <3>1, <3>3, OtherHolds
    <3>4. QED
      BY <3>2, <3>3
  <2>2. QED
    BY <2>1
<1>13. HeldInv'
  <2>1. HeldInv
    BY DEF MatchingInv
  <2>2. \A j : Dropped(j)' <=> Dropped(j)
    BY <1>1 DEF Dropped
  <2>3. QED
    BY <1>1, <1>8, <1>12, <2>1, <2>2 DEF HeldInv, max_idx
<1>14. WinnerInv'
  BY <1>1, <1>8 DEF WinnerInv
<1>15. QED
  BY <1>10, <1>11, <1>13, <1>14 DEF MatchingInv

LEMMA ReserveUStep ==
    ASSUME MatchingInv, SpeculativeInv, NEW k \in Slots, ReserveU(k)
    PROVE  MatchingInv'
<1> DEFINE i == Iteration(k)
           u == E[i].u
<1>1. /\ phase = "reserve" /\ at[k] = "todo" /\ ~Dropped(i) /\ R' = Reserved(R, u, i)
      /\ at' = [at EXCEPT ![k] = "reserve v"] /\ UNCHANGED <<driver, I, keep, committed, E, matched>>
  BY DEF ReserveU
<1>2. InRound
  BY <1>1 DEF InRound
<1>3. k \in Running /\ i \in Iterations
  BY <1>1, <1>2, SlotFacts
<1>4. keep \in [Slots -> BOOLEAN] /\ DOMAIN at = Slots /\ Running \subseteq Slots
  BY <1>2, RoundFacts
<1>5. u \in Vertices /\ ~matched[u]
  BY <1>1, <1>3, EdgeEnds DEF Dropped
<1>6. SerialMatch' = SerialMatch /\ \A j : Ends(j)' = Ends(j)
  BY <1>1, Unmoved
<1>7. /\ phase' = phase /\ Running' = Running
      /\ \A l : Iteration(l)' = Iteration(l) /\ Has(l)' = Has(l)
  BY <1>1, SameRound
<1> HIDE DEF i, u
<1>8. /\ R' \in [Vertices -> s..e]
      /\ R'[u] <= i /\ R'[u] \in {R[u], i}
      /\ \A y \in Vertices : y # u => R'[y] = R[y]
      /\ \A y \in Vertices : R'[y] <= R[y] /\ R'[y] \in Nat
  BY <1>1, <1>3, <1>5, CellReserved
<1>9. MatchingTypeOK'
  <2>1. matched \in [Vertices -> BOOLEAN]
    BY DEF MatchingInv, MatchingTypeOK
  <2>2. QED
    BY <1>1, <1>7, <1>8, <2>1, TypeStep DEF MatchingSteps
<1>10. MatchedInv'
  BY <1>1, <1>3, <1>5, MatchedReserved
<1>11. \A l \in Running, x \in Vertices : l # k => (Holds(l, x)' <=> Holds(l, x))
  BY <1>1, <1>4, OtherHolds
<1>12. \A x \in Vertices : ~Holds(k, x) /\ (Holds(k, x)' <=> x = u)
  <2>1. at'[k] = "reserve v"
    BY <1>1, <1>4
  <2>2. QED
    BY <1>1, <1>7, <2>1 DEF Holds, i, u
<1>13. HeldInv
  BY DEF MatchingInv
<1>14. ASSUME NEW x \in Vertices, ~matched[x], R'[x] < max_idx
       PROVE  \E l \in Running : R'[x] = Iteration(l) /\ Holds(l, x)'
  <2>1. CASE R'[x] = R[x]
    <3>1. PICK l \in Running : R[x] = Iteration(l) /\ Holds(l, x)
      BY <1>13, <1>14, <2>1 DEF HeldInv
    <3>2. l # k
      BY <1>12, <3>1
    <3>3. QED
      BY <1>11, <2>1, <3>1, <3>2
  <2>2. CASE R'[x] # R[x]
    <3>1. x = u /\ R'[x] = i
      BY <1>8, <2>2
    <3>2. QED
      BY <1>3, <1>12, <3>1 DEF i
  <2>3. QED
    BY <2>1, <2>2
<1>15. ASSUME NEW l \in Running, NEW x \in Vertices, Holds(l, x)'
       PROVE  ~Dropped(Iteration(l)) /\ R'[x] <= Iteration(l)
  <2>1. CASE l = k
    BY <1>1, <1>8, <1>12, <1>15, <2>1 DEF i
  <2>2. CASE l # k
    <3>1. ~Dropped(Iteration(l)) /\ R[x] <= Iteration(l)
      BY <1>1, <1>11, <1>13, <1>15, <2>2 DEF HeldInv
    <3>2. /\ R'[x] <= R[x] /\ R'[x] \in Nat /\ R[x] \in Nat /\ Iteration(l) \in Nat
      <4>1. Iteration(l) \in Iterations
        BY <1>2, RoundFacts
      <4>2. Iteration(l) \in Nat
        BY <4>1, EdgeEnds
      <4>3. QED
        BY <1>8, <4>2, CellsOf
    <3>3. R'[x] <= Iteration(l)
      BY <3>1, <3>2
    <3>4. QED
      BY <3>1, <3>3
  <2>3. QED
    BY <2>1, <2>2
<1>16. HeldInv'
  <2>1. \A j : Dropped(j)' <=> Dropped(j)
    BY <1>1 DEF Dropped
  <2>2. QED
    BY <1>1, <1>7, <1>14, <1>15, <2>1 DEF HeldInv, max_idx
<1>17. WinnerInv'
  BY <1>1, <1>7 DEF WinnerInv
<1>18. QED
  BY <1>9, <1>10, <1>16, <1>17 DEF MatchingInv

LEMMA ReserveVStep ==
    ASSUME MatchingInv, SpeculativeInv, NEW k \in Slots, ReserveV(k)
    PROVE  MatchingInv'
<1> DEFINE i == Iteration(k)
           u == E[i].u
           v == E[i].v
<1>1. /\ phase = "reserve" /\ at[k] = "reserve v" /\ R' = Reserved(R, v, i)
      /\ EndReserve(k, TRUE) /\ UNCHANGED <<E, matched>>
  BY DEF ReserveV
<1>2. InRound
  BY <1>1 DEF InRound
<1>3. k \in Running /\ i \in Iterations
  BY <1>1, <1>2, SlotFacts
<1>4. keep \in [Slots -> BOOLEAN] /\ DOMAIN at = Slots /\ Running \subseteq Slots
  BY <1>2, RoundFacts
<1>5. /\ keep' = [keep EXCEPT ![k] = TRUE] /\ at' = [at EXCEPT ![k] = "ready"]
      /\ UNCHANGED <<committed, driver>>
  BY <1>1 DEF EndReserve
<1>6. HeldInv
  BY DEF MatchingInv
<1>7. u \in Vertices /\ v \in Vertices
  BY <1>3, EdgeEnds
<1>8. \A x \in Vertices : Holds(k, x) <=> x = u
  BY <1>1, <1>3 DEF Holds
<1>9. ~Dropped(i) /\ R[u] <= i
  BY <1>1, <1>3, <1>6, <1>7, <1>8 DEF HeldInv
<1>10. u # v /\ ~matched[u] /\ ~matched[v]
  BY <1>9 DEF Dropped
<1>11. SerialMatch' = SerialMatch /\ \A j : Ends(j)' = Ends(j)
  BY <1>1, Unmoved
<1>12. /\ phase' = phase /\ Running' = Running
       /\ \A l : Iteration(l)' = Iteration(l) /\ Has(l)' = Has(l)
  BY <1>1, <1>5, SameRound
<1>13. Has(k) = {u, v}
  BY DEF Has, Ends
<1> HIDE DEF i, u, v
<1>14. /\ R' \in [Vertices -> s..e]
       /\ R'[v] <= i /\ R'[v] \in {R[v], i}
       /\ \A y \in Vertices : y # v => R'[y] = R[y]
       /\ \A y \in Vertices : R'[y] <= R[y] /\ R'[y] \in Nat
  BY <1>1, <1>3, <1>7, <1>10, CellReserved
<1>15. MatchingTypeOK'
  <2>1. matched \in [Vertices -> BOOLEAN]
    BY DEF MatchingInv, MatchingTypeOK
  <2>2. QED
    BY <1>1, <1>5, <1>12, <1>14, <2>1, TypeStep DEF MatchingSteps
<1>16. MatchedInv'
  BY <1>1, <1>3, <1>5, <1>7, <1>10, MatchedReserved
<1>17. \A l \in Running, x \in Vertices : l # k => (Holds(l, x)' <=> Holds(l, x))
  BY <1>1, <1>4, <1>5, OtherHolds
<1>18. \A x \in Vertices : Holds(k, x)' <=> x \in {u, v}
  <2>1. at'[k] = "ready" /\ keep'[k]
    BY <1>4, <1>5
  <2>2. QED
    BY <1>1, <1>12, <1>13, <2>1 DEF Holds
<1>19. ASSUME NEW x \in Vertices, ~matched[x], R'[x] < max_idx
       PROVE  \E l \in Running : R'[x] = Iteration(l) /\ Holds(l, x)'
  <2>1. CASE R'[x] = R[x]
    <3>1. PICK l \in Running : R[x] = Iteration(l) /\ Holds(l, x)
      BY <1>6, <1>19, <2>1 DEF HeldInv
    <3>2. Holds(l, x)'
      BY <1>8, <1>17, <1>18, <3>1
    <3>3. QED
      BY <2>1, <3>1, <3>2
  <2>2. CASE R'[x] # R[x]
    <3>1. x = v /\ R'[x] = i
      BY <1>14, <2>2
    <3>2. QED
      BY <1>3, <1>18, <3>1 DEF i
  <2>3. QED
    BY <2>1, <2>2
<1>20. ASSUME NEW l \in Running, NEW x \in Vertices, Holds(l, x)'
       PROVE  ~Dropped(Iteration(l)) /\ R'[x] <= Iteration(l)
  <2>1. CASE l = k
    <3>1. x \in {u, v}
      BY <1>18, <1>20, <2>1
    <3>2. CASE x = v
      BY <1>9, <1>14, <2>1, <3>2 DEF i
    <3>3. CASE x = u
      BY <1>7, <1>9, <1>10, <1>14, <2>1, <3>3 DEF i
    <3>4. QED
      BY <3>1, <3>2, <3>3
  <2>2. CASE l # k
    <3>1. ~Dropped(Iteration(l)) /\ R[x] <= Iteration(l)
      BY <1>1, <1>6, <1>17, <1>20, <2>2 DEF HeldInv
    <3>2. /\ R'[x] <= R[x] /\ R'[x] \in Nat /\ R[x] \in Nat /\ Iteration(l) \in Nat
      <4>1. Iteration(l) \in Iterations
        BY <1>2, RoundFacts
      <4>2. Iteration(l) \in Nat
        BY <4>1, EdgeEnds
      <4>3. QED
        BY <1>14, <4>2, CellsOf
    <3>3. R'[x] <= Iteration(l)
      BY <3>1, <3>2
    <3>4. QED
      BY <3>1, <3>3
  <2>3. QED
    BY <2>1, <2>2
<1>21. HeldInv'
  <2>1. \A j : Dropped(j)' <=> Dropped(j)
    BY <1>1 DEF Dropped
  <2>2. QED
    BY <1>1, <1>12, <1>19, <1>20, <2>1 DEF HeldInv, max_idx
<1>22. WinnerInv'
  BY <1>1, <1>12 DEF WinnerInv
<1>23. QED
  BY <1>15, <1>16, <1>21, <1>22 DEF MatchingInv

(* ------------------------- commit -------------------------------------- *)

(* In commit cells are only reset, so that a slot that finds its number in *)
(* one has had it there since the round's reservations.                    *)
LEMMA WinnersStay ==
    ASSUME MatchingInv, SpeculativeInv, phase = "commit", E' = E, UNCHANGED driver,
           NEW k \in Slots, NEW o, at' = [at EXCEPT ![k] = o],
           \A x \in Vertices : R'[x] = R[x] \/ R'[x] = max_idx,
           at[k] # "ready",
           o = "commit u" => /\ First(Iteration(k), E[Iteration(k)].v)
                             /\ R'[E[Iteration(k)].v] = max_idx
    PROVE  WinnerInv'
<1>1. InRound
  BY DEF InRound
<1>2. /\ phase' = phase /\ Running' = Running
      /\ \A l : Iteration(l)' = Iteration(l) /\ Has(l)' = Has(l)
  BY SameRound
<1>3. \A j, x : First(j, x)' <=> First(j, x)
  BY Unmoved
<1>4. ASSUME NEW l \in Running, at'[l] # "ready"
      PROVE  /\ E[Iteration(l)].u # E[Iteration(l)].v
             /\ \A x \in Has(l) : R'[x] = Iteration(l) => First(Iteration(l), x)
             /\ at'[l] = "commit u" => /\ First(Iteration(l), E[Iteration(l)].v)
                                       /\ R'[E[Iteration(l)].v] = max_idx
  <2>1. l \in Slots /\ Iteration(l) \in Iterations /\ DOMAIN at = Slots
    BY <1>1, RoundFacts
  <2>2. at'[l] = (IF l = k THEN o ELSE at[l]) /\ at[l] # "ready"
    BY <1>4, <2>1
  <2>3. /\ E[Iteration(l)].u # E[Iteration(l)].v
        /\ \A x \in Has(l) : R[x] = Iteration(l) => First(Iteration(l), x)
        /\ at[l] = "commit u" => /\ First(Iteration(l), E[Iteration(l)].v)
                                 /\ R[E[Iteration(l)].v] = max_idx
    BY <2>2 DEF MatchingInv, WinnerInv
  <2>4. Has(l) \subseteq Vertices /\ E[Iteration(l)].v \in Vertices /\ Iteration(l) # max_idx
    <3>1. \A j \in Iterations : E[j].u \in Vertices /\ E[j].v \in Vertices
      BY EdgeEnds
    <3>2. \A j \in Iterations : j < max_idx
      BY EdgeEnds
    <3>3. QED
      BY <2>1, <3>1, <3>2, NotBelow DEF Has, Ends
  <2>5. \A x \in Has(l) : R'[x] = Iteration(l) => R[x] = Iteration(l)
    BY <2>4
  <2>6. at'[l] = "commit u" => /\ First(Iteration(l), E[Iteration(l)].v)
                               /\ R'[E[Iteration(l)].v] = max_idx
    BY <2>2, <2>3, <2>4
  <2>7. QED
    BY <2>3, <2>5, <2>6
<1>5. QED
  BY <1>2, <1>3, <1>4 DEF WinnerInv, max_idx

LEMMA CommitVStep ==
    ASSUME MatchingInv, SpeculativeInv, NEW k \in Slots, CommitV(k)
    PROVE  MatchingInv'
<1> DEFINE i == Iteration(k)
           u == E[i].u
           v == E[i].v
<1>1. InRound /\ phase = "commit" /\ at[k] = "todo"
  BY DEF CommitV, InRound
<1>2. k \in Running /\ i \in Iterations /\ committed[i] = 0 /\ I[k] = i
  BY <1>1, SlotFacts
<1>3. UNCHANGED <<driver, I, keep, committed, E, matched>>
  BY DEF CommitV
<1>4. \/ R[v] = i /\ R' = Reset(R, v) /\ at' = [at EXCEPT ![k] = "commit u"]
      \/ R[v] # i /\ R' = R /\ at' = [at EXCEPT ![k] = "release u"]
  BY <1>2 DEF CommitV
<1>5. keep \in [Slots -> BOOLEAN] /\ DOMAIN at = Slots /\ Running \subseteq Slots
  BY <1>1, RoundFacts
<1>6. u \in Vertices /\ v \in Vertices /\ i # max_idx
  BY <1>2, EdgeEnds
<1>7. HeldInv /\ MatchedInv /\ WinnerInv /\ R \in [Vertices -> s..e] /\ matched \in [Vertices -> BOOLEAN]
  BY DEF MatchingInv, MatchingTypeOK
<1>8. SerialMatch' = SerialMatch /\ \A j : Ends(j)' = Ends(j)
  BY <1>3, Unmoved
<1>9. /\ phase' = phase /\ Running' = Running
      /\ \A l : Iteration(l)' = Iteration(l) /\ Has(l)' = Has(l)
  BY <1>3, SameRound
<1>10. Has(k) = {u, v}
  BY DEF Has, Ends
<1> HIDE DEF i, u, v
<1>11. PICK o \in {"commit u", "release u"} : at' = [at EXCEPT ![k] = o]
  BY <1>4
<1>12. /\ R' \in [Vertices -> s..e]
       /\ \A y \in Vertices : R'[y] = R[y] \/ (y = v /\ R[v] = i /\ R'[y] = max_idx)
       /\ R'[v] # i
  <2>1. CASE R[v] = i /\ R' = Reset(R, v)
    <3>1. /\ R' \in [Vertices -> s..e]
          /\ R'[v] = max_idx
          /\ \A y \in Vertices : y # v => R'[y] = R[y]
      BY <1>2, <1>3, <1>6, <2>1, CellReset
    <3>2. QED
      BY <1>6, <2>1, <3>1
  <2>2. CASE R[v] # i /\ R' = R
    BY <1>7, <2>2
  <2>3. QED
    BY <1>4, <2>1, <2>2
<1>13. MatchingTypeOK'
  BY <1>1, <1>3, <1>7, <1>9, <1>11, <1>12, TypeStep DEF MatchingSteps
<1>14. MatchedInv'
  <2>1. CASE R[v] = i /\ R' = Reset(R, v)
    BY <1>2, <1>3, <1>6, <2>1, MatchedReset DEF Done
  <2>2. CASE R' = R
    <3>1. \A j : Done(j)' = Done(j)
      BY <1>3 DEF Done
    <3>2. QED
      BY <1>3, <1>7, <1>8, <2>2, <3>1 DEF MatchedInv, Iterations, max_idx, Done
  <2>3. QED
    BY <1>4, <2>1, <2>2
<1>15. \A l \in Running, x \in Vertices : l # k => (Holds(l, x)' <=> Holds(l, x))
  BY <1>3, <1>5, <1>11, OtherHolds
<1>16. \A x \in Vertices : (Holds(k, x) => x \in {u, v}) /\ (Holds(k, x)' <=> x = u)
  <2>1. at'[k] = o
    BY <1>5, <1>11
  <2>2. QED
    BY <1>1, <1>9, <1>10, <1>11, <2>1, <1>3 DEF Holds, u, i
<1>17. ASSUME NEW x \in Vertices, ~matched[x], R'[x] < max_idx
       PROVE  \E l \in Running : R'[x] = Iteration(l) /\ Holds(l, x)'
  <2>1. R'[x] = R[x]
    BY <1>12, <1>17, NotBelow
  <2>2. PICK l \in Running : R[x] = Iteration(l) /\ Holds(l, x)
    BY <1>7, <1>17, <2>1 DEF HeldInv
  <2>3. CASE l = k
    <3>1. x \in {u, v} /\ R'[x] = i
      BY <1>16, <2>1, <2>2, <2>3 DEF i
    <3>2. x = u
      BY <1>12, <3>1
    <3>3. QED
      BY <1>16, <2>1, <2>2, <2>3, <3>2
  <2>4. CASE l # k
    BY <1>15, <2>1, <2>2, <2>4
  <2>5. QED
    BY <2>3, <2>4
<1>18. HeldInv'
  BY <1>1, <1>3, <1>9, <1>17 DEF HeldInv, max_idx
<1>19. WinnerInv'
  <2>1. ASSUME o = "commit u"
        PROVE  First(i, v) /\ R'[v] = max_idx
    <3>1. R[v] = i /\ R' = Reset(R, v)
      <4>1. [at EXCEPT ![k] = "commit u"][k] = "commit u" /\ [at EXCEPT ![k] = "release u"][k] = "release u"
        BY <1>5
      <4>2. at' # [at EXCEPT ![k] = "release u"]
        BY <1>11, <2>1, <4>1
      <4>3. QED
        BY <1>4, <4>2
    <3>2. R'[v] = max_idx
      BY <1>2, <1>3, <1>6, <3>1, CellReset
    <3>3. v \in Has(k)
      BY <1>10
    <3>4. First(i, v)
      BY <1>1, <1>2, <1>7, <3>1, <3>3 DEF WinnerInv, i
    <3>5. QED
      BY <3>2, <3>4
  <2>2. \A x \in Vertices : R'[x] = R[x] \/ R'[x] = max_idx
    BY <1>12
  <2>3. QED
    BY <1>1, <1>3, <1>11, <2>1, <2>2, WinnersStay DEF i, v
<1>20. QED
  BY <1>13, <1>14, <1>18, <1>19 DEF MatchingInv

LEMMA CommitUStep ==
    ASSUME MatchingInv, SpeculativeInv, NEW k \in Slots, CommitU(k)
    PROVE  MatchingInv'
<1> DEFINE i == Iteration(k)
           u == E[i].u
           v == E[i].v
<1>1. InRound /\ phase = "commit" /\ at[k] = "commit u"
  BY DEF CommitU, InRound
<1>2. k \in Running /\ i \in Iterations /\ committed[i] = 0 /\ I[k] = i
  BY <1>1, SlotFacts
<1>3. /\ EndCommit(k, R[u] = i) /\ UNCHANGED <<E, R>>
      /\ matched' = IF R[u] = i THEN [matched EXCEPT ![u] = TRUE, ![v] = TRUE] ELSE matched
  BY <1>2 DEF CommitU
<1>4. /\ UNCHANGED driver /\ at' = [at EXCEPT ![k] = "ready"]
      /\ keep' = [keep EXCEPT ![k] = ~(R[u] = i)]
      /\ committed' = IF R[u] = i THEN [committed EXCEPT ![i] = @ + 1] ELSE committed
  BY <1>2, <1>3 DEF EndCommit
<1>5. /\ keep \in [Slots -> BOOLEAN] /\ DOMAIN at = Slots /\ Running \subseteq Slots
      /\ committed \in [Iterations -> Nat]
  BY <1>1, RoundFacts
<1>6. u \in Vertices /\ v \in Vertices /\ i # max_idx
  BY <1>2, EdgeEnds
<1>7. HeldInv /\ MatchedInv /\ WinnerInv /\ R \in [Vertices -> s..e] /\ matched \in [Vertices -> BOOLEAN]
  BY DEF MatchingInv, MatchingTypeOK
<1>8. SerialMatch' = SerialMatch /\ \A j : Ends(j)' = Ends(j)
  BY <1>3, Unmoved
<1>9. /\ phase' = phase /\ Running' = Running
      /\ \A l : Iteration(l)' = Iteration(l) /\ Has(l)' = Has(l)
  BY <1>3, <1>4, SameRound
<1>10. u # v /\ First(i, v) /\ R[v] = max_idx /\ (R[u] = i => First(i, u))
  BY <1>1, <1>2, <1>7 DEF WinnerInv, Has, Ends
<1>11. R[u] = i => SerialMatch[i]
  BY <1>2, <1>10, FirstOfBoth
<1>12. Ends(i) = {u, v}
  BY DEF Ends
<1>13. \A x \in Vertices : Holds(k, x) <=> x = u
  BY <1>1 DEF Holds
<1> HIDE DEF i, u, v
<1>14. matched' \in [Vertices -> BOOLEAN] /\ \A x \in Vertices : matched'[x] <=> (matched[x] \/ (R[u] = i /\ x \in {u, v}))
  BY <1>3, <1>6, <1>7
<1>15. \A j \in Iterations : committed'[j] # 0 <=> (committed[j] # 0 \/ (R[u] = i /\ j = i))
  BY <1>2, <1>4, <1>5
<1>16. MatchingTypeOK'
  BY <1>3, <1>4, <1>7, <1>9, <1>14, TypeStep DEF MatchingSteps
<1>17. MatchedInv'
  <2>1. ASSUME NEW x \in Vertices, matched'[x]
        PROVE  \E j \in Iterations : SerialMatch[j] /\ committed'[j] # 0 /\ x \in Ends(j)
    <3>1. CASE matched[x]
      BY <1>7, <1>15, <3>1 DEF MatchedInv, Done
    <3>2. CASE ~matched[x]
      <4>1. R[u] = i /\ x \in Ends(i)
        BY <1>12, <1>14, <2>1, <3>2
      <4>2. QED
        BY <1>2, <1>11, <1>15, <4>1
    <3>3. QED
      BY <3>1, <3>2
  <2>2. ASSUME NEW j \in Iterations, SerialMatch[j], committed'[j] # 0
        PROVE  /\ matched'[E[j].u] /\ matched'[E[j].v]
               /\ R[E[j].u] = j /\ R[E[j].v] # j
    <3>1. E[j].u \in Vertices /\ E[j].v \in Vertices
      BY EdgeEnds
    <3>2. CASE committed[j] # 0
      BY <1>7, <1>14, <2>2, <3>1, <3>2 DEF MatchedInv, Done
    <3>3. CASE committed[j] = 0
      <4>1. j = i /\ R[u] = i
        BY <1>15, <2>2, <3>3
      <4>2. matched'[u] /\ matched'[v] /\ R[v] # i
        BY <1>6, <1>10, <1>14, <4>1
      <4>3. QED
        BY <4>1, <4>2 DEF u, v
    <3>4. QED
      BY <3>2, <3>3
  <2>3. ASSUME NEW x \in Vertices, matched'[x], R[x] < max_idx
        PROVE  SerialMatch[R[x]] /\ committed'[R[x]] # 0 /\ E[R[x]].u = x
    <3>1. CASE matched[x]
      <4>1. SerialMatch[R[x]] /\ committed[R[x]] # 0 /\ E[R[x]].u = x
        BY <1>7, <2>3, <3>1 DEF MatchedInv, Done
      <4>2. R[x] \in Iterations
        BY <2>3, CellsOf
      <4>3. QED
        BY <1>15, <4>1, <4>2
    <3>2. CASE ~matched[x]
      <4>1. R[u] = i /\ x \in {u, v}
        BY <1>14, <2>3, <3>2
      <4>2. x = u
        BY <1>10, <2>3, <4>1, NotBelow
      <4>3. QED
        BY <1>2, <1>11, <1>15, <4>1, <4>2 DEF u
    <3>3. QED
      BY <3>1, <3>2
  <2>4. QED
    BY <1>3, <1>8, <2>1, <2>2, <2>3 DEF MatchedInv, Done, Iterations, max_idx
<1>18. \A l \in Running, x \in Vertices : l # k => (Holds(l, x)' <=> Holds(l, x))
  BY <1>3, <1>4, <1>5, OtherHolds
<1>19. ASSUME NEW x \in Vertices, ~matched'[x], R[x] < max_idx
       PROVE  \E l \in Running : R[x] = Iteration(l) /\ Holds(l, x)'
  <2>1. ~matched[x] /\ ~(R[u] = i /\ x = u)
    BY <1>14, <1>19
  <2>2. PICK l \in Running : R[x] = Iteration(l) /\ Holds(l, x)
    BY <1>7, <1>19, <2>1 DEF HeldInv
  <2>3. l # k
    BY <1>13, <2>1, <2>2 DEF i
  <2>4. QED
    BY <1>18, <2>2, <2>3
<1>20. HeldInv'
  BY <1>1, <1>3, <1>9, <1>19 DEF HeldInv, max_idx
<1>21. WinnerInv'
  BY <1>1, <1>3, <1>4, WinnersStay
<1>22. QED
  BY <1>16, <1>17, <1>20, <1>21 DEF MatchingInv

LEMMA ReleaseUStep ==
    ASSUME MatchingInv, SpeculativeInv, NEW k \in Slots, ReleaseU(k)
    PROVE  MatchingInv'
<1> DEFINE i == Iteration(k)
           u == E[i].u
<1>1. InRound /\ phase = "commit" /\ at[k] = "release u"
  BY DEF ReleaseU, InRound
<1>2. k \in Running /\ i \in Iterations /\ committed[i] = 0 /\ I[k] = i
  BY <1>1, SlotFacts
<1>3. /\ EndCommit(k, FALSE) /\ UNCHANGED <<E, matched>>
      /\ R' = IF R[u] = i THEN Reset(R, u) ELSE R
  BY <1>2 DEF ReleaseU
<1>4. /\ UNCHANGED driver /\ at' = [at EXCEPT ![k] = "ready"]
      /\ keep' = [keep EXCEPT ![k] = ~FALSE] /\ committed' = committed
  BY <1>2, <1>3 DEF EndCommit
<1>5. keep \in [Slots -> BOOLEAN] /\ DOMAIN at = Slots /\ Running \subseteq Slots
  BY <1>1, RoundFacts
<1>6. u \in Vertices /\ i # max_idx
  BY <1>2, EdgeEnds
<1>7. HeldInv /\ MatchedInv /\ R \in [Vertices -> s..e] /\ matched \in [Vertices -> BOOLEAN]
  BY DEF MatchingInv, MatchingTypeOK
<1>8. SerialMatch' = SerialMatch /\ \A j : Ends(j)' = Ends(j)
  BY <1>3, Unmoved
<1>9. /\ phase' = phase /\ Running' = Running
      /\ \A l : Iteration(l)' = Iteration(l) /\ Has(l)' = Has(l)
  BY <1>3, <1>4, SameRound
<1>10. \A x \in Vertices : Holds(k, x) <=> x = u
  BY <1>1 DEF Holds
<1> HIDE DEF i, u
<1>11. /\ R' \in [Vertices -> s..e]
       /\ \A y \in Vertices : R'[y] = R[y] \/ R'[y] = max_idx
       /\ R'[u] # i
  <2>1. CASE R[u] = i
    <3>1. /\ R' \in [Vertices -> s..e]
          /\ R'[u] = max_idx
          /\ \A y \in Vertices : y # u => R'[y] = R[y]
      BY <1>2, <1>3, <1>6, <2>1, CellReset
    <3>2. QED
      BY <1>6, <3>1
  <2>2. CASE R[u] # i
    BY <1>3, <1>7, <2>2
  <2>3. QED
    BY <2>1, <2>2
<1>12. MatchingTypeOK'
  BY <1>3, <1>4, <1>7, <1>9, <1>11, TypeStep DEF MatchingSteps
<1>13. MatchedInv'
  <2>1. CASE R[u] = i
    BY <1>2, <1>3, <1>4, <1>6, <2>1, MatchedReset DEF Done
  <2>2. CASE R[u] # i
    <3>1. \A j : Done(j)' = Done(j)
      BY <1>4 DEF Done
    <3>2. R' = R
      BY <1>3, <2>2
    <3>3. QED
      BY <1>3, <1>7, <1>8, <3>1, <3>2 DEF MatchedInv, Iterations, max_idx, Done
  <2>3. QED
    BY <2>1, <2>2
<1>14. \A l \in Running, x \in Vertices : l # k => (Holds(l, x)' <=> Holds(l, x))
  BY <1>3, <1>4, <1>5, OtherHolds
<1>15. ASSUME NEW x \in Vertices, ~matched[x], R'[x] < max_idx
       PROVE  \E l \in Running : R'[x] = Iteration(l) /\ Holds(l, x)'
  <2>1. R'[x] = R[x]
    BY <1>11, <1>15, NotBelow
  <2>2. PICK l \in Running : R[x] = Iteration(l) /\ Holds(l, x)
    BY <1>7, <1>15, <2>1 DEF HeldInv
  <2>3. l # k
    BY <1>10, <1>11, <2>1, <2>2 DEF i
  <2>4. QED
    BY <1>14, <2>1, <2>2, <2>3
<1>16. HeldInv'
  BY <1>1, <1>3, <1>9, <1>15 DEF HeldInv, max_idx
<1>17. WinnerInv'
  BY <1>1, <1>3, <1>4, <1>11, WinnersStay
<1>18. QED
  BY <1>12, <1>13, <1>16, <1>17 DEF MatchingInv

(* ------------------------- The driver ---------------------------------- *)

(* When all bodies have run nobody holds a vertex that is not matched.     *)
LEMMA NobodyHolds ==
    ASSUME MatchingInv, SpeculativeInv, phase # "reserve", phase = "commit" => AllReady
    PROVE  \A x \in Vertices : ~matched[x] => R[x] = max_idx
<1>1. SUFFICES ASSUME NEW x \in Vertices, ~matched[x], R[x] < max_idx PROVE FALSE
  BY CellsOf
<1>2. PICK k \in Running : Holds(k, x)
  BY <1>1 DEF MatchingInv, HeldInv
<1>3. phase = "commit" /\ at[k] # "ready"
  BY <1>2 DEF Holds
<1>4. QED
  BY <1>2, <1>3 DEF AllReady

(* Who holds its vertices when the reservations end is the first of them   *)
(* in the serial loop: an earlier edge of the round would hold them, or    *)
(* was dropped, and one of an earlier round would have matched them.       *)
LEMMA LeastIsFirst ==
    ASSUME MatchingInv, SpeculativeInv, phase = "reserve", AllReady, NEW k \in Running, keep[k],
           NEW x \in Has(k), R[x] = Iteration(k)
    PROVE  First(Iteration(k), x)
<1> DEFINE i == Iteration(k)
<1>1. InRound /\ AllReady
  BY DEF InRound
<1>2. at[k] = "ready" /\ i \in Iterations
  BY <1>1, RoundFacts DEF AllReady
<1>3. x \in Vertices
  <2>1. E[i].u \in Vertices /\ E[i].v \in Vertices
    BY <1>2, EdgeEnds
  <2>2. QED
    BY <2>1 DEF Has, Ends
<1>4. Holds(k, x)
  BY <1>2 DEF Holds
<1>5. ~matched[x]
  <2>1. ~Dropped(i)
    BY <1>3, <1>4 DEF MatchingInv, HeldInv
  <2>2. QED
    BY <2>1 DEF Dropped, Has, Ends
<1>6. SUFFICES ASSUME NEW j \in Iterations, j < i, SerialMatch[j], x \in Ends(j) PROVE FALSE
  BY DEF First
<1>7. committed[j] = 0
  <2>1. SUFFICES ASSUME Done(j) PROVE FALSE
    BY DEF Done
  <2>2. matched[E[j].u] /\ matched[E[j].v]
    BY <1>6, <2>1 DEF MatchingInv, MatchedInv
  <2>3. QED
    BY <1>5, <1>6, <2>2 DEF Ends
<1>8. PICK l \in Running : Iteration(l) = j
  <2>1. SUFFICES ASSUME \A l \in Running : Iteration(l) # j PROVE FALSE
    OBVIOUS
  <2>2. committed[j] = 1
    BY <1>1, <1>6, <2>1, EarlierDone
  <2>3. QED
    BY <1>7, <2>2
<1>9. at[l] = "ready" /\ keep[l]
  <2>1. at[l] = "ready"
    BY <1>1 DEF AllReady
  <2>2. committed[j] = IF keep[l] THEN 0 ELSE 1
    BY <1>1, <1>8, <2>1, RoundFacts
  <2>3. QED
    BY <1>7, <2>1, <2>2
<1>10. Holds(l, x)
  BY <1>6, <1>8, <1>9 DEF Holds, Has
<1>11. i <= j
  BY <1>3, <1>8, <1>10 DEF MatchingInv, HeldInv
<1>12. i \in Nat /\ j \in Nat
  BY <1>2, <1>6, EdgeEnds
<1> HIDE DEF i
<1>13. QED
  BY <1>6, <1>11, <1>12

LEMMA DriverMatching ==
    ASSUME MatchingInv, SpeculativeInv, DriverNext, UNCHANGED <<E, R, matched>>
    PROVE  MatchingInv'
<1>1. /\ committed' = committed /\ keep' = keep
  BY DEF DriverNext, Finish, GiveUp, StartRound, EndOfReserves, EndRound, slots
<1>2. SerialMatch' = SerialMatch /\ (\A j : Ends(j)' = Ends(j) /\ Done(j)' = Done(j))
  BY <1>1, Unmoved DEF Done
<1>3. HeldInv /\ MatchedInv /\ MatchingTypeOK
  BY DEF MatchingInv
<1>4. MatchedInv'
  BY <1>2, <1>3 DEF MatchedInv, Iterations, max_idx, Done
<1>5. \A j : Dropped(j)' <=> Dropped(j)
  BY DEF Dropped
<1>6. SpeculativeInv'
  BY DriverStep
<1>7. MatchingTypeOK'
  <2>1. /\ (E \in [Iterations -> [u : Vertices, v : Vertices]])'
        /\ (R \in [Vertices -> s..e])' /\ (matched \in [Vertices -> BOOLEAN])'
    BY <1>3 DEF MatchingTypeOK, Iterations
  <2>2. at' \in [Slots -> MatchingSteps] /\ \A l \in Slots : at'[l] \in {"todo", "ready"}
    <3>1. CASE Finish \/ GiveUp
      BY <1>3, <3>1 DEF Finish, GiveUp, slots, MatchingTypeOK, MatchingSteps
    <3>2. CASE StartRound
      BY <3>2 DEF StartRound, MatchingSteps
    <3>3. CASE EndOfReserves
      BY <3>3 DEF EndOfReserves, MatchingSteps
    <3>4. CASE EndRound
      <4>1. InRound /\ AllReady /\ at' = at
        BY <3>4 DEF EndRound, InRound, slots
      <4>2. \A l \in Slots : at[l] = "ready"
        BY <4>1, RoundFacts DEF AllReady
      <4>3. QED
        BY <1>3, <4>1, <4>2 DEF MatchingTypeOK
    <3>5. QED
      BY <3>1, <3>2, <3>3, <3>4 DEF DriverNext
  <2>3. QED
    BY <2>1, <2>2, SlotsStay DEF MatchingTypeOK, MatchingSteps
<1>8. CASE Finish \/ GiveUp \/ EndRound
  <2>1. /\ phase # "reserve" /\ (phase = "commit" => AllReady)
        /\ phase' \notin {"reserve", "commit"}
    BY <1>8 DEF Finish, GiveUp, EndRound
  <2>2. \A x \in Vertices : ~matched[x] => R[x] = max_idx
    BY <2>1, NobodyHolds
  <2>3. HeldInv'
    BY <2>1, <2>2, NotBelow DEF HeldInv, max_idx
  <2>4. WinnerInv'
    BY <2>1 DEF WinnerInv
  <2>5. QED
    BY <1>4, <1>7, <2>3, <2>4 DEF MatchingInv
<1>9. CASE StartRound
  <2>1. phase = "start" /\ phase' = "reserve"
    BY <1>9 DEF StartRound
  <2>2. \A x \in Vertices : ~matched[x] => R[x] = max_idx
    BY <2>1, NobodyHolds
  <2>3. ASSUME NEW k \in Running' PROVE at'[k] = "todo"
    <3>1. size' \in Nat /\ Running' \subseteq Slots
      <4>1. TypeOK'
        BY <1>6 DEF SpeculativeInv
      <4>2. size' \in 0..maxRoundSize
        BY <4>1 DEF TypeOK, maxRoundSize
      <4>3. maxRoundSize \in Nat
        BY Sizes
      <4> DEFINE n == size'
                 m == maxRoundSize
      <4>4. n \in 0..m /\ m \in Nat
        BY <4>2, <4>3
      <4> HIDE DEF n, m
      <4>5. n \in Nat /\ 0..(n - 1) \subseteq 0..(m - 1)
        BY <4>4
      <4>6. QED
        BY <4>5 DEF n, m, Running, Slots
    <3>2. k < size'
      <4>1. k \in 0..(size' - 1)
        BY DEF Running
      <4> DEFINE n == size'
      <4>2. n \in Nat /\ k \in 0..(n - 1)
        BY <3>1, <4>1
      <4> HIDE DEF n
      <4>3. k < n
        BY <4>2
      <4>4. QED
        BY <4>3 DEF n
    <3>3. at' = [o \in Slots |-> IF o < size' THEN "todo" ELSE "ready"]
      BY <1>9 DEF StartRound
    <3>4. QED
      BY <3>1, <3>2, <3>3
  <2>4. \A k \in Running' : \A x : ~Holds(k, x)'
    BY <2>1, <2>3 DEF Holds
  <2>5. HeldInv'
    BY <2>2, <2>4, NotBelow DEF HeldInv, max_idx
  <2>6. WinnerInv'
    BY <2>1 DEF WinnerInv
  <2>7. QED
    BY <1>4, <1>7, <2>5, <2>6 DEF MatchingInv
<1>10. CASE EndOfReserves
  <2>1. /\ phase = "reserve" /\ phase' = "commit" /\ AllReady
        /\ at' = [k \in Slots |-> IF k \in Running /\ keep[k] THEN "todo" ELSE "ready"]
        /\ UNCHANGED <<size, numberKeep, Ihold, numberDone>>
    BY <1>10 DEF EndOfReserves
  <2>2. InRound
    BY <2>1 DEF InRound
  <2>3. /\ Running' = Running /\ \A k : Iteration(k)' = Iteration(k)
    BY <2>1 DEF Running, Iteration
  <2>4. \A k : Has(k)' = Has(k)
    BY <2>3, <1>2 DEF Has, Ends
  <2>5. \A k \in Running : k \in Slots /\ at[k] = "ready" /\ Iteration(k) \in Iterations
    BY <2>1, <2>2, RoundFacts DEF AllReady
  <2>6. \A k \in Running : (at'[k] # "ready" <=> keep[k]) /\ (keep[k] <=> at'[k] = "todo")
    BY <2>1, <2>5
  <2>7. \A k \in Running, x \in Vertices : Holds(k, x) => Holds(k, x)'
    BY <2>1, <2>3, <2>4, <2>5, <2>6 DEF Holds
  <2>8. HeldInv'
    BY <1>3, <2>1, <2>3, <2>7 DEF HeldInv, max_idx
  <2>9. ASSUME NEW k \in Running, keep[k]
        PROVE  /\ E[Iteration(k)].u # E[Iteration(k)].v
               /\ \A x \in Has(k) : R[x] = Iteration(k) => First(Iteration(k), x)
    <3>1. E[Iteration(k)].u \in Vertices
      BY <2>5, EdgeEnds
    <3>2. Holds(k, E[Iteration(k)].u)
      BY <2>1, <2>5, <2>9 DEF Holds, Has, Ends
    <3>3. ~Dropped(Iteration(k))
      BY <1>3, <2>1, <3>1, <3>2 DEF HeldInv
    <3>4. QED
      BY <2>1, <2>9, <3>3, LeastIsFirst DEF Dropped
  <2>10. \A i, x : First(i, x)' <=> First(i, x)
    BY Unmoved
  <2>11. WinnerInv'
    BY <2>3, <2>4, <2>6, <2>9, <2>10 DEF WinnerInv
  <2>12. QED
    BY <1>4, <1>7, <2>8, <2>11 DEF MatchingInv
<1>11. QED
  BY <1>8, <1>9, <1>10 DEF DriverNext

(* ------------------------- The invariant ------------------------------- *)

LEMMA MatchingStart == MatchingInit => MatchingInv /\ SpeculativeInv
<1> SUFFICES ASSUME MatchingInit PROVE MatchingInv /\ SpeculativeInv
  OBVIOUS
<1>1. /\ Init /\ E \in [Iterations -> [u : Vertices, v : Vertices]]
      /\ R = [x \in Vertices |-> max_idx] /\ matched = [x \in Vertices |-> FALSE]
  BY DEF MatchingInit, Free
<1>2. SpeculativeInv
  BY <1>1, SpeculativeInit
<1>3. phase = "start" /\ at = [k \in Slots |-> "ready"] /\ committed = [i \in Iterations |-> 0]
  BY <1>1 DEF Init
<1>4. max_idx \in s..e
  BY DEF max_idx
<1>5. MatchingTypeOK
  <2>1. R \in [Vertices -> s..e]
    BY <1>1, <1>4
  <2>2. at \in [Slots -> MatchingSteps] /\ \A k \in Slots : at[k] = "ready"
    BY <1>3 DEF MatchingSteps
  <2>3. QED
    BY <1>1, <2>1, <2>2 DEF MatchingTypeOK
<1>6. MatchedInv
  BY <1>1, <1>3 DEF MatchedInv, Done
<1>7. HeldInv
  BY <1>1, <1>3, NotBelow DEF HeldInv
<1>8. WinnerInv
  BY <1>3 DEF WinnerInv
<1>9. QED
  BY <1>2, <1>5, <1>6, <1>7, <1>8 DEF MatchingInv

LEMMA LoopStep ==
    ASSUME SpeculativeInv, MatchingInv, NEW k \in Slots, Body(k)
    PROVE  SpeculativeInv'
<1>1. CASE ReserveFails(k) \/ ReserveV(k)
  <2>1. phase = "reserve" /\ at[k] # "ready" /\ \E b \in BOOLEAN : EndReserve(k, b)
    BY <1>1 DEF ReserveFails, ReserveV
  <2>2. QED
    BY <2>1, ReserveEnds
<1>2. CASE ReserveU(k) \/ CommitV(k)
  <2>1. /\ InRound /\ at[k] # "ready" /\ UNCHANGED <<driver, I, keep, committed>>
        /\ \E l \in {"reserve v", "commit u", "release u"} : at' = [at EXCEPT ![k] = l]
    BY <1>2 DEF ReserveU, CommitV, InRound
  <2>2. QED
    BY <2>1, BodyGoesOn
<1>3. CASE CommitU(k) \/ ReleaseU(k)
  <2>1. phase = "commit" /\ at[k] # "ready" /\ \E b \in BOOLEAN : EndCommit(k, b)
    <3>1. CASE CommitU(k)
      <4> DEFINE b == R[E[I[k]].u] = I[k]
      <4>1. phase = "commit" /\ at[k] # "ready" /\ EndCommit(k, b)
        BY <3>1 DEF CommitU
      <4>2. b \in BOOLEAN
        OBVIOUS
      <4> HIDE DEF b
      <4>3. QED
        BY <4>1, <4>2
    <3>2. CASE ReleaseU(k)
      BY <3>2 DEF ReleaseU
    <3>3. QED
      BY <1>3, <3>1, <3>2
  <2>2. QED
    BY <2>1, CommitEnds
<1>4. QED
  BY <1>1, <1>2, <1>3 DEF Body

LEMMA MatchingStutters ==
    ASSUME MatchingInv, UNCHANGED matchingVars
    PROVE  MatchingInv'
<1>1. UNCHANGED <<driver, I, keep, at, committed, E, R, matched>>
  BY DEF matchingVars, specVars, slots
<1>2. SerialMatch' = SerialMatch /\ (\A j : Ends(j)' = Ends(j) /\ Done(j)' = Done(j))
  BY <1>1, Unmoved DEF Done
<1>3. /\ phase' = phase /\ Running' = Running
      /\ \A l : Iteration(l)' = Iteration(l) /\ Has(l)' = Has(l)
  BY <1>1, SameRound
<1>4. MatchingTypeOK'
  BY <1>1, <1>3, SlotsStay DEF MatchingInv, MatchingTypeOK, Iterations, MatchingSteps
<1>5. MatchedInv'
  BY <1>1, <1>2 DEF MatchingInv, MatchedInv, Iterations, max_idx, Done
<1>6. HeldInv'
  <2>1. \A k, x : Holds(k, x)' <=> Holds(k, x)
    BY <1>1, <1>3 DEF Holds
  <2>2. \A j : Dropped(j)' <=> Dropped(j)
    BY <1>1 DEF Dropped
  <2>3. QED
    BY <1>1, <1>3, <2>1, <2>2 DEF MatchingInv, HeldInv, max_idx
<1>7. WinnerInv'
  <2>1. \A i, x : First(i, x)' <=> First(i, x)
    BY <1>1, Unmoved
  <2>2. QED
    BY <1>1, <1>3, <2>1 DEF MatchingInv, WinnerInv, max_idx
<1>8. QED
  BY <1>4, <1>5, <1>6, <1>7 DEF MatchingInv

LEMMA MatchingStep ==
    MatchingInv /\ SpeculativeInv /\ [MatchingNext]_matchingVars => MatchingInv' /\ SpeculativeInv'
<1> SUFFICES ASSUME MatchingInv, SpeculativeInv, [MatchingNext]_matchingVars
             PROVE  MatchingInv' /\ SpeculativeInv'
  OBVIOUS
<1>1. CASE UNCHANGED matchingVars
  BY <1>1, MatchingStutters, StoppedStep DEF matchingVars
<1>2. CASE DriverNext /\ UNCHANGED <<E, R, matched>>
  BY <1>2, DriverMatching, DriverStep
<1>3. CASE Stopped /\ UNCHANGED <<E, R, matched>>
  <2>1. UNCHANGED matchingVars
    BY <1>3 DEF Stopped, matchingVars
  <2>2. QED
    BY <1>1, <2>1
<1>4. ASSUME NEW k \in Slots, Body(k) PROVE MatchingInv' /\ SpeculativeInv'
  BY <1>4, LoopStep, ReserveFailsStep, ReserveUStep, ReserveVStep, CommitVStep, CommitUStep,
     ReleaseUStep DEF Body
<1>5. QED
  BY <1>1, <1>2, <1>3, <1>4 DEF MatchingNext

(* ------------------------- The first edge ------------------------------ *)

(* Nobody wrote a smaller number to the cells of the first edge of a       *)
(* round, nor left an older one there.                                     *)
LEMMA MatchFirstReserves ==
    ASSUME MatchingInv, SpeculativeInv, phase = "reserve", 0 \in Running, NEW x \in Vertices, Holds(0, x)
    PROVE  R[x] = Iteration(0)
<1>1. InRound /\ HeldInv
  BY DEF InRound, MatchingInv
<1>2. Iteration(0) \in Iterations
  BY <1>1, FirstIsSmallest
<1>3. Iteration(0) \in Nat /\ Iteration(0) < max_idx /\ max_idx \in Nat
  BY <1>2, EdgeEnds DEF max_idx
<1>4. R[x] \in Nat /\ R[x] <= Iteration(0) /\ ~Dropped(Iteration(0))
  BY <1>1, CellsOf DEF HeldInv
<1>5. ~matched[x]
  BY <1>4 DEF Holds, Has, Ends, Dropped
<1>6. R[x] < max_idx
  BY <1>3, <1>4
<1>7. PICK l \in Running : R[x] = Iteration(l)
  BY <1>1, <1>5, <1>6 DEF HeldInv
<1>8. Iteration(0) <= R[x]
  BY <1>1, <1>7, FirstIsSmallest
<1>9. QED
  BY <1>3, <1>4, <1>8

(* The other slots give back only cells that hold their own numbers.       *)
LEMMA MatchOthersLeaveFirst ==
    ASSUME MatchingInv, SpeculativeInv, FirstHolds, phase = "commit", NEW k \in Running, k # 0,
           E' = E, UNCHANGED driver, NEW o, at' = [at EXCEPT ![k] = o],
           NEW b, keep' = [keep EXCEPT ![k] = b] \/ keep' = keep,
           \A y \in Vertices : R'[y] = R[y] \/ R[y] = Iteration(k)
    PROVE  FirstHolds'
<1>1. InRound
  BY DEF InRound
<1>2. phase' = phase /\ Running' = Running /\ Iteration(0)' = Iteration(0)
  BY SameRound
<1>3. SUFFICES ASSUME 0 \in Running
               PROVE  /\ \A x \in Vertices : Holds(0, x)' => R'[x] = Iteration(0)
                      /\ at'[0] # "release u"
  BY <1>2 DEF FirstHolds
<1>4. /\ keep \in [Slots -> BOOLEAN] /\ DOMAIN at = Slots /\ k \in Slots /\ 0 \in Slots
  BY <1>1, <1>3, RoundFacts
<1>5. \A x : Holds(0, x)' <=> Holds(0, x)
  BY <1>4, OtherHolds
<1>6. Iteration(k) # Iteration(0)
  BY <1>1, FirstIsSmallest
<1>7. \A x \in Vertices : Holds(0, x) => R[x] = Iteration(0)
  BY <1>3 DEF FirstHolds
<1>8. at'[0] # "release u"
  BY <1>3, <1>4 DEF FirstHolds
<1>9. QED
  BY <1>5, <1>6, <1>7, <1>8

LEMMA MatchFirstCommits ==
    ASSUME MatchingInv, SpeculativeInv, FirstEdgeInv, NEW k \in Slots,
           CommitV(k) \/ CommitU(k) \/ ReleaseU(k)
    PROVE  FirstEdgeInv'
<1> DEFINE i == Iteration(k)
           u == E[i].u
           v == E[i].v
<1>1. InRound /\ phase = "commit" /\ at[k] # "ready"
  BY DEF CommitV, CommitU, ReleaseU, InRound
<1>2. k \in Running /\ i \in Iterations /\ I[k] = i
  BY <1>1, SlotFacts
<1>3. /\ keep \in [Slots -> BOOLEAN] /\ DOMAIN at = Slots /\ R \in [Vertices -> s..e]
      /\ u \in Vertices /\ v \in Vertices /\ u # v
  <2>1. R \in [Vertices -> s..e] /\ u # v
    BY <1>1, <1>2 DEF MatchingInv, MatchingTypeOK, WinnerInv
  <2>2. QED
    BY <1>1, <1>2, <2>1, RoundFacts, EdgeEnds
<1>4. FirstDone /\ FirstHolds
  BY DEF FirstEdgeInv
<1>5. /\ Has(k) = {u, v}
      /\ k = 0 => \A x \in Vertices : Holds(0, x) => R[x] = i
      /\ k = 0 => at[k] # "release u"
  BY <1>1, <1>2, <1>4 DEF Has, Ends, FirstHolds
<1> HIDE DEF i, u, v
<1>6. CASE CommitV(k)
  <2>1. /\ at[k] = "todo" /\ E' = E /\ UNCHANGED driver /\ keep' = keep
        /\ \/ R[v] = i /\ R' = Reset(R, v) /\ at' = [at EXCEPT ![k] = "commit u"]
           \/ R[v] # i /\ R' = R /\ at' = [at EXCEPT ![k] = "release u"]
    BY <1>2, <1>6 DEF CommitV, i, v
  <2>2. PICK o \in {"commit u", "release u"} : at' = [at EXCEPT ![k] = o]
    BY <2>1
  <2>3. FirstDone'
    BY <1>4, <2>1, <2>2, BodyKeepsFirst
  <2>4. CASE k # 0
    <3>1. \A y \in Vertices : R'[y] = R[y] \/ R[y] = i
      BY <1>3, <2>1 DEF Reset
    <3>2. FirstHolds'
      BY <1>1, <1>2, <1>4, <2>1, <2>2, <2>4, <3>1, MatchOthersLeaveFirst DEF i
    <3>3. QED
      BY <2>3, <3>2 DEF FirstEdgeInv
  <2>5. CASE k = 0
    <3>1. Holds(0, u) /\ Holds(0, v)
      BY <1>1, <1>5, <2>1, <2>5 DEF Holds
    <3>2. R[u] = i /\ R[v] = i
      BY <1>3, <1>5, <2>5, <3>1
    <3>3. R' = Reset(R, v) /\ at'[0] = "commit u"
      BY <1>3, <2>1, <2>5, <3>2
    <3>4. R'[u] = i
      BY <1>3, <3>2, <3>3 DEF Reset
    <3>5. phase' = phase /\ Iteration(0)' = i /\ \A x : Holds(0, x)' => x = u
      <4>1. phase' = phase /\ Iteration(0)' = i /\ E' = E
        BY <2>1, <2>5, SameRound DEF i
      <4>2. QED
        BY <1>1, <3>3, <4>1 DEF Holds, u
    <3>6. FirstHolds'
      BY <3>3, <3>4, <3>5 DEF FirstHolds
    <3>7. QED
      BY <2>3, <3>6 DEF FirstEdgeInv
  <2>6. QED
    BY <2>4, <2>5
<1>7. CASE CommitU(k) \/ ReleaseU(k)
  <2>1. PICK b \in BOOLEAN : EndCommit(k, b) /\ (k = 0 => b)
    <3>1. CASE CommitU(k)
      <4> DEFINE c == R[u] = i
      <4>1. at[k] = "commit u" /\ EndCommit(k, c)
        BY <1>2, <3>1 DEF CommitU, i, u
      <4>2. k = 0 => Holds(0, u)
        BY <1>1, <4>1 DEF Holds, i, u
      <4>3. k = 0 => c
        BY <1>3, <1>5, <4>2
      <4>4. c \in BOOLEAN
        OBVIOUS
      <4> HIDE DEF c
      <4>5. QED
        BY <4>1, <4>3, <4>4
    <3>2. CASE ReleaseU(k)
      <4>1. at[k] = "release u" /\ EndCommit(k, FALSE)
        BY <3>2 DEF ReleaseU
      <4>2. QED
        BY <1>5, <4>1
    <3>3. QED
      BY <1>7, <3>1, <3>2
  <2>2. FirstDone'
    BY <1>4, <2>1, CommitKeepsFirst
  <2>3. UNCHANGED driver /\ at' = [at EXCEPT ![k] = "ready"] /\ keep' = [keep EXCEPT ![k] = ~b] /\ E' = E
    BY <1>7, <2>1 DEF EndCommit, CommitU, ReleaseU
  <2>4. CASE k # 0
    <3>1. \A y \in Vertices : R'[y] = R[y] \/ R[y] = i
      BY <1>2, <1>3, <1>7 DEF CommitU, ReleaseU, Reset
    <3>2. FirstHolds'
      BY <1>1, <1>2, <1>4, <2>3, <2>4, <3>1, MatchOthersLeaveFirst DEF i
    <3>3. QED
      BY <2>2, <3>2 DEF FirstEdgeInv
  <2>5. CASE k = 0
    <3>1. at'[0] = "ready" /\ phase' = "commit"
      BY <1>1, <1>3, <2>3, <2>5 DEF driver
    <3>2. FirstHolds'
      BY <3>1 DEF FirstHolds, Holds
    <3>3. QED
      BY <2>2, <3>2 DEF FirstEdgeInv
  <2>6. QED
    BY <2>4, <2>5
<1>8. QED
  BY <1>6, <1>7

LEMMA MatchFirstStep ==
    ASSUME MatchingInv, SpeculativeInv, FirstEdgeInv, [MatchingNext]_matchingVars
    PROVE  FirstEdgeInv'
<1>1. CASE UNCHANGED matchingVars
  <2>1. UNCHANGED <<driver, E, R, at, keep>>
    BY <1>1 DEF matchingVars, specVars, slots
  <2>2. /\ phase' = phase /\ Running' = Running /\ Iteration(0)' = Iteration(0) /\ Has(0)' = Has(0)
    BY <2>1, SameRound
  <2>3. FirstDone' /\ \A x : Holds(0, x)' <=> Holds(0, x)
    BY <2>1, <2>2 DEF Holds, FirstDone, FirstEdgeInv
  <2>4. QED
    BY <2>1, <2>2, <2>3 DEF FirstEdgeInv, FirstHolds
<1>2. CASE DriverNext /\ UNCHANGED <<E, R, matched>>
  <2>1. FirstDone'
    BY <1>2, DriverKeepsFirst
  <2>2. CASE EndOfReserves
    <3>1. /\ phase = "reserve" /\ AllReady /\ phase' = "commit" /\ UNCHANGED <<size, numberKeep, Ihold, numberDone, E, R>>
          /\ at' = [k \in Slots |-> IF k \in Running /\ keep[k] THEN "todo" ELSE "ready"]
      BY <1>2, <2>2 DEF EndOfReserves
    <3>2. /\ Running' = Running /\ Iteration(0)' = Iteration(0) /\ Has(0)' = Has(0)
          /\ Running \subseteq Slots
      BY <3>1, Ranges DEF Running, Iteration, Has, Ends, SpeculativeInv
    <3>3. ASSUME 0 \in Running, NEW x \in Vertices, Holds(0, x)' PROVE R[x] = Iteration(0)
      <4>1. at[0] = "ready" /\ keep[0] /\ x \in Has(0)
        BY <3>1, <3>2, <3>3 DEF Holds, AllReady
      <4>2. Holds(0, x)
        BY <3>1, <4>1 DEF Holds
      <4>3. QED
        BY <3>1, <3>3, <4>2, MatchFirstReserves
    <3>4. 0 \in Running => at'[0] # "release u"
      BY <3>1, <3>2
    <3>5. QED
      BY <2>1, <3>1, <3>2, <3>3, <3>4 DEF FirstEdgeInv, FirstHolds
  <2>3. CASE ~EndOfReserves
    <3>1. phase' # "commit"
      BY <1>2, <2>3 DEF DriverNext, Finish, GiveUp, StartRound, EndRound
    <3>2. QED
      BY <2>1, <3>1 DEF FirstEdgeInv, FirstHolds
  <2>4. QED
    BY <2>2, <2>3
<1>3. CASE Stopped /\ UNCHANGED <<E, R, matched>>
  <2>1. UNCHANGED matchingVars
    BY <1>3 DEF Stopped, matchingVars
  <2>2. QED
    BY <1>1, <2>1
<1>4. ASSUME NEW k \in Slots, ReserveFails(k) \/ ReserveU(k) \/ ReserveV(k) PROVE FirstEdgeInv'
  <2>1. phase = "reserve" /\ UNCHANGED driver
    BY <1>4 DEF ReserveFails, ReserveU, ReserveV, EndReserve
  <2>2. FirstDone' /\ phase' = "reserve"
    BY <2>1, ReserveKeepsFirst DEF driver
  <2>3. QED
    BY <2>2 DEF FirstEdgeInv, FirstHolds
<1>5. QED
  BY <1>1, <1>2, <1>3, <1>4, MatchFirstCommits DEF MatchingNext, Body

(* The inductive invariant: what is matched is matched by edges of the     *)
(* serial loop, every reservation of a vertex that is not matched is held  *)
(* by a slot of the round, and whoever holds both its vertices in commit   *)
(* is an edge of the serial loop.                                          *)
THEOREM MatchingInvariance == MatchingSpec => [](MatchingInv /\ SpeculativeInv)
BY MatchingStart, MatchingStep, PTL DEF MatchingSpec

(* No edge is lost or run twice, and no array is overrun.                  *)
THEOREM MatchingRounds == MatchingSpec => []RoundsAreRight
<1>1. SpeculativeInv => RoundsAreRight
  BY EachIsOnce, RoundsFit DEF RoundsAreRight
<1>2. QED
  BY <1>1, MatchingInvariance, PTL

LEMMA MatchedSerially ==
    ASSUME MatchingInv, SpeculativeInv PROVE MatchingResult
<1>1. ASSUME NEW x \in Vertices, matched[x]
      PROVE  \E i \in Iterations : SerialMatch[i] /\ committed[i] # 0 /\ x \in {E[i].u, E[i].v}
  BY <1>1 DEF MatchingInv, MatchedInv, Done, Ends
<1>2. ASSUME phase \in {"start", "end"}, NEW i \in Iterations, committed[i] # 0
      PROVE  committed[i] = 1
  BY <1>2, EachIsOnce DEF EachOnce
<1>3. ASSUME phase = "end" PROVE MatchingIdx = {i \in Iterations : SerialMatch[i]}
  <2>1. \A x \in Vertices : ~matched[x] => R[x] = max_idx
    BY <1>3, NobodyHolds
  <2>2. ASSUME NEW x \in Vertices, R[x] < max_idx
        PROVE  R[x] \in Iterations /\ SerialMatch[R[x]]
    <3>1. matched[x]
      BY <2>1, <2>2, NotBelow
    <3>2. QED
      BY <2>2, <3>1, CellsOf DEF MatchingInv, MatchedInv
  <2>3. ASSUME NEW i \in Iterations, SerialMatch[i]
        PROVE  E[i].u \in Vertices /\ R[E[i].u] = i /\ i < max_idx
    <3>1. committed[i] = 1
      BY <1>3, EachIsOnce DEF EachOnce
    <3>2. R[E[i].u] = i
      BY <2>3, <3>1 DEF MatchingInv, MatchedInv, Done
    <3>3. QED
      BY <3>2, EdgeEnds
  <2>4. QED
    BY <2>2, <2>3 DEF MatchingIdx
<1>4. QED
  BY <1>1, <1>2, <1>3 DEF MatchingResult

(* Between rounds what is matched is part of the serial loop's matching,   *)
(* and in the end the result is that matching, for every graph,            *)
(* granularity, size of rounds and interleaving.                           *)
THEOREM MatchingIsSerial == MatchingSpec => []MatchingResult
BY MatchedSerially, MatchingInvariance, PTL

LEMMA MatchingRests ==
    ASSUME MatchingInv, SpeculativeInv PROVE MatchingReservations
<1>0. SUFFICES ASSUME phase \in {"start", "end"}
               PROVE  /\ \A x \in Vertices : ~matched[x] => R[x] = max_idx
                      /\ \A x \in Vertices : R[x] < max_idx =>
                           /\ E[R[x]].u = x /\ matched[E[R[x]].v]
                           /\ R[E[R[x]].v] # R[x]
  BY DEF MatchingReservations
<1>1. \A x \in Vertices : ~matched[x] => R[x] = max_idx
  BY <1>0, NobodyHolds
<1>2. ASSUME NEW x \in Vertices, R[x] < max_idx
      PROVE  /\ E[R[x]].u = x /\ matched[E[R[x]].v]
             /\ R[E[R[x]].v] # R[x]
  <2>1. matched[x] /\ R[x] \in Iterations
    BY <1>1, <1>2, NotBelow, CellsOf
  <2>2. SerialMatch[R[x]] /\ Done(R[x]) /\ E[R[x]].u = x
    BY <1>2, <2>1 DEF MatchingInv, MatchedInv
  <2>3. QED
    BY <2>1, <2>2 DEF MatchingInv, MatchedInv
<1>3. QED
  BY <1>1, <1>2

(* Between rounds a vertex that is not matched has no reservation, and an  *)
(* edge that was taken is recorded in exactly one of its ends.             *)
THEOREM MatchingAtRest == MatchingSpec => []MatchingReservations
BY MatchingRests, MatchingInvariance, PTL
=============================================================================
