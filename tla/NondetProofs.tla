---------------------------- MODULE NondetProofs ----------------------------
(***************************************************************************)
(* The loops of iterations that race: for every set of vertices and every  *)
(* graph, the maximal independent set is independent at every moment and   *)
(* maximal when all vertices are done, and its locks are neither shared    *)
(* nor leaked; the spanning forest keeps its union-find trees right under  *)
(* all the stale stores of its finds, and spans the graph.                 *)
(***************************************************************************)
EXTENDS NdMIS, NdST, TLAPS

(* --------------------------- The graph --------------------------------- *)

LEMMA Degree ==
    ASSUME TypeOK, NEW z \in VertexSet
    PROVE  G[z] \in Seq(VertexSet) /\ degree(z) = Len(G[z]) /\ degree(z) \in Nat
<1>1. G[z] \in Seq(VertexSet)
  BY DEF TypeOK, IsSimple
<1>2. QED
  BY <1>1 DEF degree

LEMMA Neighbour ==
    ASSUME TypeOK, NEW z \in VertexSet, NEW a \in Nat, a < degree(z)
    PROVE  /\ Ngh(z, a) \in VertexSet /\ Ngh(z, a) # z
           /\ Ngh(z, a) \in Adjacent(z)
<1>1. a + 1 \in 1..Len(G[z]) /\ G[z] \in Seq(VertexSet)
  BY Degree
<1>2. G[z][a + 1] \in VertexSet
  BY <1>1
<1>3. \A b \in 1..Len(G[z]) : G[z][b] # z
  BY DEF TypeOK, IsSimple
<1>4. QED
  BY <1>1, <1>2, <1>3 DEF Ngh, degree, Adjacent

LEMMA NeighboursDiffer ==
    ASSUME TypeOK, NEW z \in VertexSet, NEW a \in Nat, NEW b \in Nat,
           a < degree(z), b < degree(z), Ngh(z, a) = Ngh(z, b)
    PROVE  a = b
<1>1. a + 1 \in 1..Len(G[z]) /\ b + 1 \in 1..Len(G[z])
  BY Degree
<1>2. G[z][a + 1] = G[z][b + 1] => a + 1 = b + 1
  BY <1>1 DEF TypeOK, IsSimple
<1>3. QED
  BY <1>2 DEF Ngh

LEMMA AdjacentIsNeighbour ==
    ASSUME TypeOK, NEW z \in VertexSet, NEW w \in Adjacent(z)
    PROVE  /\ w \in VertexSet /\ w # z
           /\ \E a \in Nat : a < degree(z) /\ w = Ngh(z, a)
<1>1. PICK c \in 1..degree(z) : w = G[z][c]
  BY DEF Adjacent
<1>2. c - 1 \in Nat /\ c - 1 < degree(z) /\ w = Ngh(z, c - 1)
  BY <1>1, Degree DEF Ngh
<1>3. QED
  BY <1>2, Neighbour

LEMMA AdjacentSymmetric ==
    ASSUME TypeOK, NEW z \in VertexSet, NEW w \in Adjacent(z)
    PROVE  z \in Adjacent(w)
<1>1. PICK c \in 1..Len(G[z]) : w = G[z][c]
  BY DEF Adjacent, degree
<1>2. \E d \in 1..Len(G[w]) : G[w][d] = z
  BY <1>1 DEF TypeOK, IsSimple
<1>3. QED
  BY <1>2 DEF Adjacent, degree

(* What a vertex holds are vertices: itself and neighbours.                *)
LEMMA LockedIsNeighbour ==
    ASSUME TypeOK, NEW z \in VertexSet, NEW a \in Nat, NEW b \in Nat, b <= degree(z),
           NEW x
    PROVE  x \in Locked(z, a, b) <=> /\ x \in VertexSet /\ Flags[x] # 2
                                    /\ \E d \in Nat : a <= d /\ d < b /\ x = Ngh(z, d)
<1>1. \A d \in Nat : d < b => Ngh(z, d) \in VertexSet
  BY Neighbour, Degree
<1>2. \A d : d \in a..(b - 1) <=> d \in Nat /\ a <= d /\ d < b
  OBVIOUS
<1>3. QED
  BY <1>1, <1>2 DEF Locked

(* The locals of a vertex, by its place.                                   *)
LEMMA Places ==
    ASSUME TypeOK, PlaceInv, NEW z \in VertexSet
    PROVE  /\ k[z] \in Nat /\ j[z] \in Nat /\ degree(z) \in Nat
           /\ pc[z] \in {"neighbours", "lock neighbour", "unlock", "unlock neighbours"} => k[z] <= degree(z)
           /\ pc[z] \in {"lock neighbour", "unlock", "unlock neighbours"} => k[z] < degree(z)
           /\ pc[z] = "unlock neighbours" => j[z] <= k[z]
           /\ pc[z] = "cover" => j[z] <= degree(z)
<1>1. k[z] \in Nat /\ j[z] \in Nat /\ degree(z) \in Nat
  BY Degree DEF TypeOK
<1>2. k[z] < degree(z) => k[z] <= degree(z)
  BY <1>1
<1>3. /\ pc[z] = "neighbours" => k[z] <= degree(z)
      /\ pc[z] = "lock neighbour" => k[z] < degree(z)
      /\ pc[z] = "unlock" => k[z] < degree(z)
      /\ pc[z] = "unlock neighbours" => k[z] < degree(z) /\ j[z] <= k[z]
      /\ pc[z] = "cover" => j[z] <= degree(z)
  BY DEF PlaceInv, Place
<1>4. QED
  BY <1>1, <1>2, <1>3

(* Holds, case by case.                                                    *)
HoldsAre ==
    \A z \in VertexSet, x \in VertexSet :
      /\ pc[z] \in {"look", "lock", "done"} => x \notin Holds(z)
      /\ pc[z] \in {"neighbours", "lock neighbour", "unlock"} =>
           (x \in Holds(z) <=> x = z \/ (Flags[x] # 2 /\ \E d \in Nat : d < k[z] /\ x = Ngh(z, d)))
      /\ pc[z] = "unlock neighbours" =>
           (x \in Holds(z) <=>
              Flags[x] # 2 /\ \E d \in Nat : j[z] <= d /\ d < k[z] /\ x = Ngh(z, d))
      /\ pc[z] = "cover" => (x \in Holds(z) <=> x = z \/ x \in Adjacent(z))

LEMMA HoldsWhen == TypeOK /\ PlaceInv => HoldsAre
<1> SUFFICES ASSUME TypeOK, PlaceInv, NEW z \in VertexSet, NEW x \in VertexSet
             PROVE  /\ pc[z] \in {"look", "lock", "done"} => x \notin Holds(z)
                    /\ pc[z] \in {"neighbours", "lock neighbour", "unlock"} =>
                         (x \in Holds(z) <=>
                            x = z \/ (Flags[x] # 2 /\ \E d \in Nat : d < k[z] /\ x = Ngh(z, d)))
                    /\ pc[z] = "unlock neighbours" =>
                         (x \in Holds(z) <=>
                            Flags[x] # 2 /\ \E d \in Nat : j[z] <= d /\ d < k[z] /\ x = Ngh(z, d))
                    /\ pc[z] = "cover" => (x \in Holds(z) <=> x = z \/ x \in Adjacent(z))
  BY DEF HoldsAre
<1>1. CASE pc[z] \in {"look", "lock", "done", "cover"}
  BY <1>1 DEF Holds
<1>2. CASE pc[z] \in {"neighbours", "lock neighbour", "unlock"}
  <2>1. k[z] \in Nat /\ k[z] <= degree(z)
    BY <1>2, Places
  <2>2. x \in Locked(z, 0, k[z]) <=> Flags[x] # 2 /\ \E d \in Nat : 0 <= d /\ d < k[z] /\ x = Ngh(z, d)
    BY <2>1, LockedIsNeighbour
  <2>3. \A d \in Nat : 0 <= d
    OBVIOUS
  <2>4. QED
    BY <1>2, <2>2, <2>3 DEF Holds
<1>3. CASE pc[z] = "unlock neighbours"
  <2>1. x \in Locked(z, j[z], k[z]) <=>
          Flags[x] # 2 /\ \E d \in Nat : j[z] <= d /\ d < k[z] /\ x = Ngh(z, d)
    <3>1. k[z] \in Nat /\ j[z] \in Nat /\ k[z] <= degree(z)
      BY <1>3, Places
    <3>2. QED
      BY <3>1, LockedIsNeighbour
  <2>2. QED
    BY <1>3, <2>1 DEF Holds
<1>4. QED
  BY <1>1, <1>2, <1>3 DEF TypeOK

(* The same after a step.                                                  *)
LEMMA HoldsWhenPrime == TypeOK' /\ PlaceInv' => HoldsAre'
BY HoldsWhen, PTL

(* --------------------------- The types --------------------------------- *)

LEMMA VertexTypeStep == ASSUME TypeOK, [Next]_vars PROVE TypeOK'
<1>1. CASE UNCHANGED vars
  BY <1>1 DEF TypeOK, vars
<1>2. ASSUME NEW z \in VertexSet, Vertex(z) PROVE TypeOK'
  <2>1. CASE Look(z)
    BY <2>1 DEF Look, Goto, TypeOK
  <2>2. CASE LockSelf(z)
    <3>1. CASE V[z]
      BY <2>2, <3>1 DEF LockSelf, Goto, TypeOK
    <3>2. CASE ~V[z]
      <4>1. V' \in [VertexSet -> BOOLEAN]
        BY <2>2 DEF LockSelf, TypeOK
      <4>2. k' \in [VertexSet -> Nat]
        <5>1. k \in [VertexSet -> Nat] /\ k' = [k EXCEPT ![z] = 0]
          BY <2>2, <3>2 DEF LockSelf, TypeOK
        <5>2. QED
          BY <5>1
      <4>3. QED
        BY <2>2, <3>2, <4>1, <4>2 DEF LockSelf, Goto, TypeOK
    <3>3. QED
      BY <3>1, <3>2
  <2>3. CASE SkipNeighbour(z)
    <3>1. k' \in [VertexSet -> Nat]
      <4>1. k \in [VertexSet -> Nat] /\ (k' = k \/ k' = [k EXCEPT ![z] = @ + 1])
        BY <2>3 DEF SkipNeighbour, TypeOK
      <4>2. QED
        BY <4>1
    <3>2. pc' = pc \/ pc' = [pc EXCEPT ![z] = "lock neighbour"]
      BY <2>3 DEF SkipNeighbour, Goto
    <3>3. QED
      BY <2>3, <3>1, <3>2 DEF SkipNeighbour, TypeOK
  <2>4. CASE LockNeighbour(z)
    <3>1. k' \in [VertexSet -> Nat]
      <4>1. k \in [VertexSet -> Nat] /\ (k' = k \/ k' = [k EXCEPT ![z] = @ + 1])
        BY <2>4 DEF LockNeighbour, TypeOK
      <4>2. QED
        BY <4>1
    <3>2. V' \in [VertexSet -> BOOLEAN]
      BY <2>4 DEF LockNeighbour, TypeOK
    <3>3. pc' = [pc EXCEPT ![z] = "unlock"] \/ pc' = [pc EXCEPT ![z] = "neighbours"]
      BY <2>4 DEF LockNeighbour, Goto
    <3>4. QED
      BY <2>4, <3>1, <3>2, <3>3 DEF LockNeighbour, TypeOK
  <2>5. CASE Win(z)
    BY <2>5 DEF Win, Goto, TypeOK
  <2>6. CASE Cover(z)
    <3>1. j' \in [VertexSet -> Nat]
      <4>1. j \in [VertexSet -> Nat] /\ (j' = j \/ j' = [j EXCEPT ![z] = @ + 1])
        BY <2>6 DEF Cover, TypeOK
      <4>2. QED
        BY <4>1
    <3>2. Flags' \in [VertexSet -> {0, 1, 2}]
      BY <2>6 DEF Cover, TypeOK
    <3>3. QED
      BY <2>6, <3>1, <3>2 DEF Cover, TypeOK
  <2>7. CASE CoverEnds(z)
    BY <2>7 DEF CoverEnds, Goto, TypeOK
  <2>8. CASE UnlockSelf(z)
    BY <2>8 DEF UnlockSelf, Goto, TypeOK
  <2>9. CASE UnlockNeighbour(z)
    <3>1. j' \in [VertexSet -> Nat]
      <4>1. j \in [VertexSet -> Nat] /\ (j' = j \/ j' = [j EXCEPT ![z] = @ + 1])
        BY <2>9 DEF UnlockNeighbour, TypeOK
      <4>2. QED
        BY <4>1
    <3>2. V' \in [VertexSet -> BOOLEAN]
      BY <2>9 DEF UnlockNeighbour, TypeOK
    <3>3. QED
      BY <2>9, <3>1, <3>2 DEF UnlockNeighbour, TypeOK
  <2>10. CASE UnlockEnds(z)
    BY <2>10 DEF UnlockEnds, Goto, TypeOK
  <2>11. QED
    BY <1>2, <2>1, <2>2, <2>3, <2>4, <2>5, <2>6, <2>7, <2>8, <2>9, <2>10 DEF Vertex
<1>3. QED
  BY <1>1, <1>2 DEF Next, Stopped

(* ------------------------- One step of z ------------------------------- *)

(* It leaves the graph and the places of the others alone.                 *)
LEMMA OtherVerticesStay ==
    ASSUME TypeOK, NEW z \in VertexSet, Vertex(z), NEW w \in VertexSet, w # z
    PROVE  pc'[w] = pc[w] /\ k'[w] = k[w] /\ j'[w] = j[w]
<1>1. pc' = pc \/ \E l : pc' = [pc EXCEPT ![z] = l]
  BY DEF Vertex, Look, LockSelf, SkipNeighbour, LockNeighbour, Win, Cover, CoverEnds,
         UnlockSelf, UnlockNeighbour, UnlockEnds, Goto
<1>2. k' = k \/ \E l : k' = [k EXCEPT ![z] = l]
  BY DEF Vertex, Look, LockSelf, SkipNeighbour, LockNeighbour, Win, Cover, CoverEnds,
         UnlockSelf, UnlockNeighbour, UnlockEnds
<1>3. j' = j \/ \E l : j' = [j EXCEPT ![z] = l]
  BY DEF Vertex, Look, LockSelf, SkipNeighbour, LockNeighbour, Win, Cover, CoverEnds,
         UnlockSelf, UnlockNeighbour, UnlockEnds
<1>4. pc'[w] = pc[w]
  BY <1>1 DEF TypeOK
<1>5. k'[w] = k[w]
  BY <1>2 DEF TypeOK
<1>6. j'[w] = j[w]
  BY <1>3 DEF TypeOK
<1>7. QED
  BY <1>4, <1>5, <1>6

LEMMA GraphStays == ASSUME NEW z \in VertexSet, Vertex(z) PROVE G' = G
BY DEF Vertex, Look, LockSelf, SkipNeighbour, LockNeighbour, Win, Cover, CoverEnds,
       UnlockSelf, UnlockNeighbour, UnlockEnds

(* A vertex on the way to win has itself.                                  *)
LEMMA HoldsItself ==
    ASSUME MISInv, NEW z \in VertexSet, pc[z] \in {"neighbours", "lock neighbour", "unlock"}
    PROVE  z \in Holds(z) /\ Flags[z] = 0 /\ V[z]
<1>1. z \in Holds(z)
  BY DEF Holds
<1>2. QED
  BY <1>1 DEF MISInv, LockInv

(* Flags are written in two places.                                        *)
LEMMA DecidedStep ==
    ASSUME MISInv, NEW z \in VertexSet, Vertex(z), NEW x \in VertexSet, Flags[x] # 0
    PROVE  Flags'[x] = Flags[x]
<1>1. CASE Win(z)
  <2>1. Flags[z] = 0
    BY <1>1, HoldsItself DEF Win
  <2>2. QED
    BY <1>1, <2>1 DEF Win, MISInv, TypeOK
<1>2. CASE Cover(z)
  <2>1. Flags[z] = 1
    BY <1>2 DEF Cover, MISInv, LockInv
  <2>2. j[z] \in Nat /\ j[z] < degree(z)
    BY <1>2 DEF Cover, MISInv, TypeOK
  <2>3. Ngh(z, j[z]) \in Adjacent(z) /\ Ngh(z, j[z]) \in VertexSet
    BY <2>2, Neighbour DEF MISInv
  <2>4. Flags[Ngh(z, j[z])] # 1
    BY <2>1, <2>3 DEF MISInv, Independent
  <2>5. Flags[x] \in {0, 1, 2}
    BY DEF MISInv, TypeOK
  <2>6. CASE x = Ngh(z, j[z])
    BY <1>2, <2>3, <2>4, <2>5, <2>6 DEF Cover, MISInv, TypeOK
  <2>7. CASE x # Ngh(z, j[z])
    BY <1>2, <2>3, <2>7 DEF Cover, MISInv, TypeOK
  <2>8. QED
    BY <2>6, <2>7
<1>3. CASE Flags' = Flags
  BY <1>3
<1>4. QED
  BY <1>1, <1>2, <1>3 DEF Vertex, Look, LockSelf, SkipNeighbour, LockNeighbour, CoverEnds,
         UnlockSelf, UnlockNeighbour, UnlockEnds

LEMMA PlaceStep ==
    ASSUME MISInv, NEW z \in VertexSet, Vertex(z)
    PROVE  PlaceInv'
<1> SUFFICES ASSUME NEW w \in VertexSet PROVE Place(w)'
  BY DEF PlaceInv
<1>1. TypeOK /\ Place(w) /\ G' = G /\ degree(w) \in Nat
  BY GraphStays, Degree DEF MISInv, PlaceInv
<1>2. k[w] \in Nat /\ j[w] \in Nat
  BY <1>1 DEF TypeOK
<1>3. ASSUME NEW d \in Nat, d < degree(w), Flags[Ngh(w, d)] = 2 PROVE Flags'[Ngh(w, d)] = 2
  BY <1>1, <1>3, Neighbour, DecidedStep
<1>4. CASE w # z
  <2>1. pc'[w] = pc[w] /\ k'[w] = k[w] /\ j'[w] = j[w]
    BY <1>1, <1>4, OtherVerticesStay
  <2>2. pc[w] = "done" => Flags'[w] # 0
    BY <1>1, DecidedStep DEF Place
  <2>3. ASSUME pc[w] = "cover" PROVE \A d \in 0..(j[w] - 1) : Flags'[Ngh(w, d)] = 2
    BY <1>1, <1>2, <1>3, <2>3 DEF Place
  <2>4. QED
    BY <1>1, <2>1, <2>2, <2>3 DEF Place, Ngh, degree
<1>5. CASE w = z
  <2>1. CASE Look(z)
    <3>1. pc'[z] = "lock" \/ (pc'[z] = "done" /\ Flags'[z] # 0)
      BY <1>1, <2>1 DEF Look, Goto, TypeOK
    <3>2. QED
      BY <1>5, <3>1 DEF Place
  <2>2. CASE LockSelf(z)
    <3>1. pc'[z] = "look" \/ (pc'[z] = "neighbours" /\ k'[z] = 0)
      BY <1>1, <2>2 DEF LockSelf, Goto, TypeOK
    <3>2. 0 <= degree(z) /\ degree(z)' = degree(z)
      BY <1>1, <1>5 DEF degree
    <3>3. QED
      BY <1>5, <3>1, <3>2 DEF Place
  <2>3. CASE SkipNeighbour(z)
    <3>1. \/ pc'[z] = "neighbours" /\ k'[z] = k[z] + 1
          \/ pc'[z] = "lock neighbour" /\ k'[z] = k[z]
      BY <1>1, <2>3 DEF SkipNeighbour, Goto, TypeOK
    <3>2. k[z] < degree(z)
      BY <2>3 DEF SkipNeighbour
    <3>3. k[z] + 1 <= degree(z)
      BY <1>1, <1>2, <1>5, <3>2
    <3>4. QED
      BY <1>1, <1>5, <3>1, <3>2, <3>3 DEF Place, degree
  <2>4. CASE LockNeighbour(z)
    <3>1. \/ pc'[z] = "neighbours" /\ k'[z] = k[z] + 1
          \/ pc'[z] = "unlock" /\ k'[z] = k[z]
      BY <1>1, <2>4 DEF LockNeighbour, Goto, TypeOK
    <3>2. k[z] < degree(z)
      BY <1>1, <1>5, <2>4 DEF LockNeighbour, Place
    <3>3. k[z] + 1 <= degree(z)
      BY <1>1, <1>2, <1>5, <3>2
    <3>4. QED
      BY <1>1, <1>5, <3>1, <3>2, <3>3 DEF Place, degree
  <2>5. CASE Win(z)
    <3>1. pc'[z] = "cover" /\ j'[z] = 0
      BY <1>1, <2>5 DEF Win, Goto, TypeOK
    <3>2. 0 <= degree(z) /\ 0..(0 - 1) = {}
      BY <1>1, <1>5
    <3>3. QED
      BY <1>1, <1>5, <3>1, <3>2 DEF Place, degree
  <2>6. CASE Cover(z)
    <3>1. pc'[z] = "cover" /\ j'[z] = j[z] + 1 /\ j[z] < degree(z)
      BY <1>1, <2>6 DEF Cover, TypeOK
    <3>2. j[z] + 1 <= degree(z)
      BY <1>1, <1>2, <1>5, <3>1
    <3>3. Ngh(z, j[z]) \in VertexSet
      BY <1>1, <1>2, <1>5, <3>1, Neighbour
    <3>4. Flags'[Ngh(z, j[z])] = 2
      BY <1>1, <2>6, <3>3 DEF Cover, TypeOK
    <3>5. ASSUME NEW d \in 0..(j'[z] - 1) PROVE Flags'[Ngh(z, d)] = 2
      <4>1. d \in Nat /\ d <= j[z] /\ d < degree(z)
        <5>1. j'[z] = j[z] + 1 /\ j[z] < degree(z)
          BY <3>1
        <5>2. QED
          BY <1>1, <1>2, <1>5, <5>1
      <4>2. CASE d = j[z]
        BY <3>4, <4>2
      <4>3. CASE d # j[z]
        <5>1. d \in 0..(j[z] - 1)
          BY <1>2, <1>5, <4>1, <4>3
        <5>2. Flags[Ngh(z, d)] = 2
          BY <1>1, <1>5, <2>6, <5>1 DEF Place, Cover
        <5>3. QED
          BY <1>3, <1>5, <4>1, <5>2
      <4>4. QED
        BY <4>2, <4>3
    <3>6. j'[z] <= degree(z)'
      BY <1>1, <3>1, <3>2 DEF degree
    <3>7. \A d \in 0..(j'[z] - 1) : Flags'[Ngh(z, d)'] = 2
      <4>1. \A d : Ngh(z, d)' = Ngh(z, d)
        BY <1>1 DEF Ngh
      <4>2. QED
        BY <3>5, <4>1
    <3>8. QED
      BY <1>5, <3>1, <3>6, <3>7 DEF Place
  <2>7. CASE CoverEnds(z)
    <3>1. pc'[z] = "look"
      BY <1>1, <2>7 DEF CoverEnds, Goto, TypeOK
    <3>2. QED
      BY <1>5, <3>1 DEF Place
  <2>8. CASE UnlockSelf(z)
    <3>1. pc'[z] = "unlock neighbours" /\ j'[z] = 0 /\ k'[z] = k[z]
      BY <1>1, <2>8 DEF UnlockSelf, Goto, TypeOK
    <3>2. k[z] < degree(z)
      BY <1>1, <1>5, <2>8 DEF UnlockSelf, Place
    <3>3. 0 <= k[z]
      BY <1>2, <1>5
    <3>4. QED
      BY <1>1, <1>5, <3>1, <3>2, <3>3 DEF Place, degree
  <2>9. CASE UnlockNeighbour(z)
    <3>1. pc'[z] = "unlock neighbours" /\ j'[z] = j[z] + 1 /\ k'[z] = k[z] /\ j[z] < k[z]
      BY <1>1, <2>9 DEF UnlockNeighbour, TypeOK
    <3>2. k[z] < degree(z)
      BY <1>1, <1>5, <2>9 DEF UnlockNeighbour, Place
    <3>3. j[z] + 1 <= k[z]
      <4>1. j[z] < k[z]
        BY <3>1
      <4>2. QED
        BY <1>2, <1>5, <4>1
    <3>4. QED
      BY <1>1, <1>5, <3>1, <3>2, <3>3 DEF Place, degree
  <2>10. CASE UnlockEnds(z)
    <3>1. pc'[z] = "look"
      BY <1>1, <2>10 DEF UnlockEnds, Goto, TypeOK
    <3>2. QED
      BY <1>5, <3>1 DEF Place
  <2>11. QED
    BY <2>1, <2>2, <2>3, <2>4, <2>5, <2>6, <2>7, <2>8, <2>9, <2>10 DEF Vertex
<1>6. QED
  BY <1>4, <1>5

(* ------------------------- The locks ----------------------------------- *)

LEMMA HoldsAreSet == \A z \in VertexSet : Holds(z) \subseteq VertexSet
BY DEF Holds

(* Nobody else holds a vertex that is not decided, and it is locked.       *)
LEMMA Exclusive ==
    ASSUME MISInv, NEW z \in VertexSet, NEW w \in VertexSet, z # w,
           NEW x \in Holds(z), Flags[x] # 2
    PROVE  x \notin Holds(w)
BY DEF MISInv, LocksAreOwned

(* Where no flag changes, the others hold what they held.                  *)
LEMMA OthersHold ==
    ASSUME TypeOK, NEW z \in VertexSet, Vertex(z), Flags' = Flags, NEW w \in VertexSet, w # z
    PROVE  Holds(w)' = Holds(w)
<1>1. pc'[w] = pc[w] /\ k'[w] = k[w] /\ j'[w] = j[w] /\ G' = G
  BY OtherVerticesStay, GraphStays
<1>2. QED
  BY <1>1 DEF Holds, Locked, Adjacent, Ngh, degree

(* The three ways to handle a lock.                                        *)
Locks == LockInv /\ LocksAreOwned

LEMMA Keep ==
    ASSUME MISInv, NEW z \in VertexSet, Vertex(z), Flags' = Flags, V' = V,
           Holds(z)' = Holds(z), pc[z] # "cover", pc'[z] # "cover"
    PROVE  Locks'
<1>1. \A w \in VertexSet : Holds(w)' = Holds(w)
  BY OthersHold DEF MISInv
<1>2. \A w \in VertexSet : pc'[w] = "cover" <=> pc[w] = "cover"
  BY OtherVerticesStay DEF MISInv
<1>3. LocksAreOwned'
  BY <1>1 DEF MISInv, LocksAreOwned
<1>4. LockInv'
  BY <1>1, <1>2 DEF MISInv, LockInv
<1>5. QED
  BY <1>3, <1>4 DEF Locks

(* A vertex whose lock is free is undecided and nobody holds it.           *)
LEMMA Take ==
    ASSUME MISInv, NEW z \in VertexSet, Vertex(z), Flags' = Flags,
           NEW x \in VertexSet, ~V[x], V' = [V EXCEPT ![x] = TRUE],
           Holds(z)' = Holds(z) \cup {x}, pc[z] # "cover", pc'[z] # "cover"
    PROVE  Locks'
<1>1. \A w \in VertexSet \ {z} : Holds(w)' = Holds(w)
  BY OthersHold DEF MISInv
<1>2. \A w \in VertexSet : pc'[w] = "cover" <=> pc[w] = "cover"
  BY OtherVerticesStay DEF MISInv
<1>3. Flags[x] = 0 /\ \A w \in VertexSet : x \notin Holds(w)
  BY DEF MISInv, LockInv
<1>4. \A y \in VertexSet : V'[y] <=> V[y] \/ y = x
  BY DEF MISInv, TypeOK
<1>5. LocksAreOwned'
  <2>1. ASSUME NEW a \in VertexSet, NEW b \in VertexSet, a # b
        PROVE  {y \in Holds(a)' \cap Holds(b)' : Flags'[y] # 2} = {}
    BY <1>1, <1>3, <2>1 DEF MISInv, LocksAreOwned
  <2>2. ASSUME NEW y \in VertexSet, V'[y], Flags'[y] = 0
        PROVE  \E a \in VertexSet : y \in Holds(a)'
    BY <1>1, <1>4, <2>2 DEF MISInv, LocksAreOwned
  <2>3. QED
    BY <2>1, <2>2 DEF LocksAreOwned
<1>6. LockInv'
  <2>1. \A w \in VertexSet : \A y \in Holds(w)' : V'[y]
    BY <1>1, <1>4, HoldsAreSet DEF MISInv, LockInv
  <2>2. \A y \in VertexSet : Flags'[y] # 0 => V'[y]
    BY <1>4 DEF MISInv, LockInv
  <2>3. \A w \in VertexSet : IF pc'[w] = "cover" THEN Flags'[w] = 1
                              ELSE \A y \in Holds(w)' : Flags'[y] = 0
    BY <1>1, <1>2, <1>3 DEF MISInv, LockInv
  <2>4. QED
    BY <2>1, <2>2, <2>3 DEF LockInv
<1>7. QED
  BY <1>5, <1>6 DEF Locks

(* A vertex gives back the lock of one that it holds and that is undecided.*)
LEMMA Give ==
    ASSUME MISInv, NEW z \in VertexSet, Vertex(z), Flags' = Flags,
           NEW x \in Holds(z), V' = [V EXCEPT ![x] = FALSE],
           Holds(z)' = Holds(z) \ {x}, pc[z] # "cover", pc'[z] # "cover"
    PROVE  Locks'
<1>1. \A w \in VertexSet \ {z} : Holds(w)' = Holds(w)
  BY OthersHold DEF MISInv
<1>2. \A w \in VertexSet : pc'[w] = "cover" <=> pc[w] = "cover"
  BY OtherVerticesStay DEF MISInv
<1>3. Flags[x] = 0 /\ x \in VertexSet
  BY HoldsAreSet DEF MISInv, LockInv
<1>4. \A w \in VertexSet \ {z} : x \notin Holds(w)
  BY <1>3, Exclusive
<1>5. \A y \in VertexSet : V'[y] <=> V[y] /\ y # x
  BY <1>3 DEF MISInv, TypeOK
<1>6. LocksAreOwned'
  <2>1. ASSUME NEW a \in VertexSet, NEW b \in VertexSet, a # b
        PROVE  {y \in Holds(a)' \cap Holds(b)' : Flags'[y] # 2} = {}
    BY <1>1, <2>1 DEF MISInv, LocksAreOwned
  <2>2. ASSUME NEW y \in VertexSet, V'[y], Flags'[y] = 0
        PROVE  \E a \in VertexSet : y \in Holds(a)'
    BY <1>1, <1>5, <2>2 DEF MISInv, LocksAreOwned
  <2>3. QED
    BY <2>1, <2>2 DEF LocksAreOwned
<1>7. LockInv'
  <2>1. \A w \in VertexSet : \A y \in Holds(w)' : V'[y]
    BY <1>1, <1>4, <1>5, HoldsAreSet DEF MISInv, LockInv
  <2>2. \A y \in VertexSet : Flags'[y] # 0 => V'[y]
    BY <1>3, <1>5 DEF MISInv, LockInv
  <2>3. \A w \in VertexSet : IF pc'[w] = "cover" THEN Flags'[w] = 1
                              ELSE \A y \in Holds(w)' : Flags'[y] = 0
    BY <1>1, <1>2 DEF MISInv, LockInv
  <2>4. QED
    BY <2>1, <2>2, <2>3 DEF LockInv
<1>8. QED
  BY <1>6, <1>7 DEF Locks

LEMMA LookLocks ==
    ASSUME MISInv, NEW z \in VertexSet, Vertex(z),
           Look(z) \/ UnlockEnds(z) \/ (LockSelf(z) /\ V[z])
    PROVE  Locks'
<1>1. Flags' = Flags /\ V' = V /\ pc[z] \in {"look", "unlock neighbours", "lock"}
  BY DEF Look, UnlockEnds, LockSelf
<1>2. pc'[z] \in {"look", "lock", "done"}
  BY DEF Look, UnlockEnds, LockSelf, Goto, MISInv, TypeOK
<1>3. Holds(z)' = {}
  BY <1>2 DEF Holds
<1>4. Holds(z) = {}
  <2>1. CASE pc[z] \in {"look", "lock"}
    BY <2>1 DEF Holds
  <2>2. CASE pc[z] = "unlock neighbours"
    <3>1. j[z] = k[z] /\ k[z] \in Nat
      BY <2>2 DEF Look, LockSelf, UnlockEnds, MISInv, TypeOK
    <3>2. ~ \E d \in Nat : j[z] <= d /\ d < k[z]
      BY <3>1
    <3>3. QED
      BY <2>2, <3>2, HoldsWhen, HoldsAreSet DEF MISInv, HoldsAre
  <2>3. QED
    BY <1>1, <2>1, <2>2
<1>5. QED
  BY <1>1, <1>2, <1>3, <1>4, Keep

LEMMA LockSelfLocks ==
    ASSUME MISInv, NEW z \in VertexSet, Vertex(z), LockSelf(z), ~V[z]
    PROVE  Locks'
<1>1. Flags' = Flags /\ V' = [V EXCEPT ![z] = TRUE] /\ pc[z] = "lock"
  BY DEF LockSelf
<1>2. pc'[z] = "neighbours" /\ k'[z] = 0
  BY DEF LockSelf, Goto, MISInv, TypeOK
<1>3. Holds(z) = {}
  BY <1>1 DEF Holds
<1>4. Locked(z, 0, k[z])' = {}
  BY <1>2 DEF Locked
<1>5. Holds(z)' = {z}
  BY <1>2, <1>4 DEF Holds
<1>6. QED
  BY <1>1, <1>2, <1>3, <1>5, Take

LEMMA LessThanNext == \A a, b \in Nat : a < b + 1 <=> a < b \/ a = b
OBVIOUS

(* What z holds of its neighbours, when it goes on to the next.            *)
LEMMA OneMore ==
    ASSUME MISInv, NEW z \in VertexSet, Vertex(z), PlaceInv', TypeOK', Flags' = Flags,
           pc[z] \in {"neighbours", "lock neighbour"}, k[z] < degree(z),
           pc'[z] = "neighbours", k'[z] = k[z] + 1, NEW x \in VertexSet
    PROVE  x \in Holds(z)' <=> x \in Holds(z) \/ (Flags[x] # 2 /\ x = Ngh(z, k[z]))
<1>1. k[z] \in Nat
  BY DEF MISInv, TypeOK
<1>2. \A d \in Nat : d < k'[z] <=> d < k[z] \/ d = k[z]
  <2>1. k'[z] = k[z] + 1
    OBVIOUS
  <2>2. \A d \in Nat : d < k[z] + 1 <=> d < k[z] \/ d = k[z]
    BY <1>1, LessThanNext
  <2>3. QED
    BY <2>1, <2>2
<1>3. \A d : Ngh(z, d)' = Ngh(z, d)
  BY GraphStays DEF Ngh
<1>4. x \in Holds(z)' <=> x = z \/ (Flags[x] # 2 /\ \E d \in Nat : d < k'[z] /\ x = Ngh(z, d))
  <2>1. x \in Holds(z)' <=> x = z \/ (Flags'[x] # 2 /\ \E d \in Nat : d < k'[z] /\ x = Ngh(z, d)')
    BY HoldsWhenPrime DEF HoldsAre
  <2>2. QED
    BY <1>3, <2>1
<1>5. x \in Holds(z) <=> x = z \/ (Flags[x] # 2 /\ \E d \in Nat : d < k[z] /\ x = Ngh(z, d))
  BY HoldsWhen DEF HoldsAre, MISInv
<1>6. QED
  BY <1>1, <1>2, <1>4, <1>5

LEMMA SkipLocks ==
    ASSUME MISInv, NEW z \in VertexSet, Vertex(z), SkipNeighbour(z), PlaceInv', TypeOK'
    PROVE  Locks'
<1>1. Flags' = Flags /\ V' = V /\ pc[z] = "neighbours" /\ k[z] < degree(z)
  BY DEF SkipNeighbour
<1>2. CASE Flags[Ngh(z, k[z])] = 2
  <2>1. pc'[z] = "neighbours" /\ k'[z] = k[z] + 1
    BY <1>1, <1>2 DEF SkipNeighbour, MISInv, TypeOK
  <2>2. \A x \in VertexSet : x \in Holds(z)' <=> x \in Holds(z)
    BY <1>1, <1>2, <2>1, OneMore
  <2>3. Holds(z)' = Holds(z)
    BY <2>2 DEF Holds
  <2>4. QED
    BY <1>1, <2>1, <2>3, Keep
<1>3. CASE Flags[Ngh(z, k[z])] # 2
  <2>1. pc'[z] = "lock neighbour" /\ k'[z] = k[z] /\ G' = G
    BY <1>1, <1>3 DEF SkipNeighbour, Goto, MISInv, TypeOK
  <2>2. Holds(z)' = Holds(z)
    BY <1>1, <2>1 DEF Holds, Locked, Ngh
  <2>3. QED
    BY <1>1, <2>1, <2>2, Keep
<1>4. QED
  BY <1>2, <1>3

LEMMA LockNeighbourLocks ==
    ASSUME MISInv, NEW z \in VertexSet, Vertex(z), LockNeighbour(z), PlaceInv', TypeOK'
    PROVE  Locks'
<1>1. Flags' = Flags /\ pc[z] = "lock neighbour" /\ k[z] < degree(z) /\ k[z] \in Nat
  BY DEF LockNeighbour, MISInv, PlaceInv, Place, TypeOK
<1>2. Ngh(z, k[z]) \in VertexSet
  BY <1>1, Neighbour DEF MISInv
<1>3. CASE V[Ngh(z, k[z])]
  <2>1. V' = V /\ pc'[z] = "unlock" /\ k'[z] = k[z] /\ G' = G
    BY <1>1, <1>3 DEF LockNeighbour, Goto, MISInv, TypeOK
  <2>2. Holds(z)' = Holds(z)
    BY <1>1, <2>1 DEF Holds, Locked, Ngh
  <2>3. QED
    BY <1>1, <2>1, <2>2, Keep
<1>4. CASE ~V[Ngh(z, k[z])]
  <2>1. V' = [V EXCEPT ![Ngh(z, k[z])] = TRUE] /\ pc'[z] = "neighbours" /\ k'[z] = k[z] + 1
    BY <1>1, <1>4 DEF LockNeighbour, Goto, MISInv, TypeOK
  <2>2. Flags[Ngh(z, k[z])] = 0
    BY <1>2, <1>4 DEF MISInv, LockInv
  <2>3. \A x \in VertexSet : x \in Holds(z)' <=> x \in Holds(z) \/ x = Ngh(z, k[z])
    <3>1. \A x \in VertexSet : x \in Holds(z)' <=>
                              x \in Holds(z) \/ (Flags[x] # 2 /\ x = Ngh(z, k[z]))
      BY <1>1, <2>1, OneMore
    <3>2. Flags[Ngh(z, k[z])] # 2
      BY <2>2
    <3>3. QED
      BY <3>1, <3>2
  <2>4. Holds(z)' = Holds(z) \cup {Ngh(z, k[z])}
    <3>1. Holds(z)' \subseteq VertexSet /\ Holds(z) \subseteq VertexSet
      BY DEF Holds
    <3>2. QED
      BY <1>2, <2>3, <3>1
  <2>5. QED
    BY <1>1, <1>2, <1>4, <2>1, <2>4, Take
<1>5. QED
  BY <1>3, <1>4

LEMMA UnlockSelfLocks ==
    ASSUME MISInv, NEW z \in VertexSet, Vertex(z), UnlockSelf(z), PlaceInv', TypeOK'
    PROVE  Locks'
<1>1. Flags' = Flags /\ V' = [V EXCEPT ![z] = FALSE] /\ pc[z] = "unlock" /\ k' = k
  BY DEF UnlockSelf
<1>2. pc'[z] = "unlock neighbours" /\ j'[z] = 0
  BY DEF UnlockSelf, Goto, MISInv, TypeOK
<1>3. z \in Holds(z)
  BY <1>1, HoldsItself
<1>4. \A d : Ngh(z, d)' = Ngh(z, d)
  BY GraphStays DEF Ngh
<1>5. \A d \in Nat : d < k[z] => Ngh(z, d) # z
  <2>1. k[z] < degree(z) /\ k[z] \in Nat /\ degree(z) \in Nat
    BY <1>1, Places DEF MISInv
  <2>2. QED
    BY <2>1, Neighbour DEF MISInv
<1>6. \A d \in Nat : j'[z] <= d
  <2>1. j'[z] = 0
    BY <1>2
  <2>2. QED
    BY <2>1
<1>7. \A x \in VertexSet : x \in Holds(z) <=>
        x = z \/ (Flags[x] # 2 /\ \E d \in Nat : d < k[z] /\ x = Ngh(z, d))
  BY <1>1, HoldsWhen DEF HoldsAre, MISInv
<1>8. \A x \in VertexSet : x \in Holds(z)' <=>
        Flags'[x] # 2 /\ \E d \in Nat : j'[z] <= d /\ d < k'[z] /\ x = Ngh(z, d)
  BY <1>2, <1>4, HoldsWhenPrime DEF HoldsAre
<1>9. \A x \in VertexSet : x \in Holds(z)' <=> x \in Holds(z) /\ x # z
  BY <1>1, <1>5, <1>6, <1>7, <1>8
<1>10. Holds(z)' = Holds(z) \ {z}
  <2>1. Holds(z)' \subseteq VertexSet /\ Holds(z) \subseteq VertexSet
    BY DEF Holds
  <2>2. QED
    BY <1>9, <2>1
<1>11. QED
  BY <1>1, <1>2, <1>3, <1>10, Give

LEMMA UnlockNeighbourLocks ==
    ASSUME MISInv, NEW z \in VertexSet, Vertex(z), UnlockNeighbour(z), PlaceInv', TypeOK'
    PROVE  Locks'
<1> DEFINE x0 == Ngh(z, j[z])
<1>1. Flags' = Flags /\ pc[z] = "unlock neighbours" /\ pc' = pc /\ k' = k
  BY DEF UnlockNeighbour
<1>2. j[z] < k[z] /\ k[z] \in Nat /\ j[z] \in Nat
  BY DEF UnlockNeighbour, MISInv, TypeOK
<1>3. j'[z] = j[z] + 1
  BY DEF UnlockNeighbour, MISInv, TypeOK
<1>4. \A d \in Nat : d < k[z] => d < degree(z)
  <2>1. k[z] < degree(z) /\ degree(z) \in Nat
    BY <1>1, Places DEF MISInv
  <2>2. QED
    BY <1>2, <2>1
<1>5. \A d \in Nat : j[z] <= d <=> j[z] + 1 <= d \/ d = j[z]
  BY <1>2
<1>6. \A d : Ngh(z, d)' = Ngh(z, d)
  BY GraphStays DEF Ngh
<1>7. x0 \in VertexSet
  BY <1>2, <1>4, Neighbour DEF MISInv
<1>8. \A x \in VertexSet : x \in Holds(z) <=>
        Flags[x] # 2 /\ \E d \in Nat : j[z] <= d /\ d < k[z] /\ x = Ngh(z, d)
  BY <1>1, HoldsWhen DEF HoldsAre, MISInv
<1>9. \A x \in VertexSet : x \in Holds(z)' <=>
        Flags[x] # 2 /\ \E d \in Nat : j[z] + 1 <= d /\ d < k[z] /\ x = Ngh(z, d)
  <2>1. \A x \in VertexSet : x \in Holds(z)' <=>
          Flags'[x] # 2 /\ \E d \in Nat : j'[z] <= d /\ d < k'[z] /\ x = Ngh(z, d)'
    BY <1>1, HoldsWhenPrime DEF HoldsAre
  <2>2. QED
    BY <1>1, <1>3, <1>6, <2>1
<1>10. \A d \in Nat : j[z] + 1 <= d /\ d < k[z] => Ngh(z, d) # x0
  <2>1. \A d \in Nat : j[z] + 1 <= d => d # j[z]
    BY <1>2
  <2>2. QED
    BY <1>2, <1>4, <2>1, NeighboursDiffer DEF MISInv
<1>11. \A x \in VertexSet : x \in Holds(z)' <=> x \in Holds(z) /\ x # x0
  BY <1>2, <1>5, <1>8, <1>9, <1>10
<1>12. Holds(z)' \subseteq VertexSet /\ Holds(z) \subseteq VertexSet
  BY DEF Holds
<1>13. CASE Flags[x0] = 2
  <2>1. V' = V
    BY <1>13 DEF UnlockNeighbour
  <2>2. x0 \notin Holds(z)
    BY <1>7, <1>8, <1>13
  <2>3. Holds(z)' = Holds(z)
    BY <1>11, <1>12, <2>2
  <2>4. QED
    BY <1>1, <2>1, <2>3, Keep
<1>14. CASE Flags[x0] # 2
  <2>1. V' = [V EXCEPT ![x0] = FALSE]
    BY <1>14 DEF UnlockNeighbour
  <2>2. j[z] <= j[z]
    BY <1>2
  <2>3. x0 \in Holds(z)
    BY <1>2, <1>7, <1>8, <1>14, <2>2
  <2>4. Holds(z)' = Holds(z) \ {x0}
    BY <1>11, <1>12
  <2>5. QED
    BY <1>1, <2>1, <2>3, <2>4, Give
<1>15. QED
  BY <1>13, <1>14

LEMMA Unchosen ==
    ASSUME MISInv, NEW z \in VertexSet, Vertex(z), Flags' = Flags
    PROVE  Independent'
<1>1. G' = G
  BY GraphStays
<1>2. QED
  BY <1>1 DEF MISInv, Independent, Adjacent, degree

(* The winner has the locks of all its neighbours that are undecided; no   *)
(* neighbour is in the set.                                                *)
LEMMA WinLocks ==
    ASSUME MISInv, NEW z \in VertexSet, Vertex(z), Win(z), PlaceInv', TypeOK'
    PROVE  Locks' /\ Independent'
<1>1. Flags' = [Flags EXCEPT ![z] = 1] /\ V' = V /\ pc[z] = "neighbours" /\ k[z] = degree(z)
  BY DEF Win
<1>2. pc'[z] = "cover"
  BY DEF Win, Goto, MISInv, TypeOK
<1>3. z \in Holds(z) /\ Flags[z] = 0 /\ V[z]
  BY <1>1, HoldsItself
<1>4. Flags'[z] = 1 /\ \A x \in VertexSet : x # z => Flags'[x] = Flags[x]
  BY <1>1 DEF MISInv, TypeOK
<1>5. G' = G /\ \A x \in VertexSet : Adjacent(x)' = Adjacent(x)
  BY GraphStays DEF Adjacent, degree
<1>6. \A x \in Adjacent(z) : x \in VertexSet /\ x # z /\ (Flags[x] # 2 => x \in Holds(z))
  <2> SUFFICES ASSUME NEW x \in Adjacent(z)
               PROVE  x \in VertexSet /\ x # z /\ (Flags[x] # 2 => x \in Holds(z))
    OBVIOUS
  <2>1. x \in VertexSet /\ x # z /\ \E a \in Nat : a < degree(z) /\ x = Ngh(z, a)
    BY AdjacentIsNeighbour DEF MISInv
  <2>2. QED
    BY <1>1, <2>1, HoldsWhen DEF HoldsAre, MISInv
<1>7. \A x \in Adjacent(z) : Flags[x] # 2 => Flags[x] = 0 /\ V[x]
  BY <1>1, <1>6 DEF MISInv, LockInv
<1>8. \A x \in Adjacent(z) : V[x] /\ Flags[x] # 1
  BY <1>6, <1>7 DEF MISInv, LockInv
<1>9. \A x \in VertexSet : x \in Holds(z)' <=> x = z \/ x \in Adjacent(z)
  <2>1. \A x \in VertexSet : x \in Holds(z)' <=> x = z \/ x \in Adjacent(z)'
    BY <1>2, HoldsWhenPrime DEF HoldsAre
  <2>2. QED
    BY <1>5, <2>1
<1>10. \A x : Flags'[x] # 2 <=> Flags[x] # 2
  BY <1>3, <1>1
<1>11. \A w \in VertexSet \ {z} : Holds(w)' = Holds(w)
  <2> SUFFICES ASSUME NEW w \in VertexSet \ {z} PROVE Holds(w)' = Holds(w)
    OBVIOUS
  <2>1. pc'[w] = pc[w] /\ k'[w] = k[w] /\ j'[w] = j[w]
    BY OtherVerticesStay DEF MISInv
  <2>2. \A a, b : Locked(w, a, b)' = Locked(w, a, b)
    BY <1>5, <1>10 DEF Locked, Ngh
  <2>3. QED
    BY <1>5, <2>1, <2>2 DEF Holds
<1>12. \A w \in VertexSet \ {z} : pc'[w] = pc[w] /\ z \notin Holds(w)
  BY <1>3, OtherVerticesStay, Exclusive DEF MISInv
<1>13. LocksAreOwned'
  <2>1. ASSUME NEW a \in VertexSet, NEW b \in VertexSet, a # b
        PROVE  {y \in Holds(a)' \cap Holds(b)' : Flags'[y] # 2} = {}
    <3>1. \A y \in Holds(z)' : Flags'[y] # 2 => y \in Holds(z)
      <4>1. Holds(z)' \subseteq VertexSet
        BY DEF Holds
      <4>2. QED
        BY <1>3, <1>6, <1>9, <1>10, <4>1
    <3>2. \A y : Flags'[y] # 2 => Flags[y] # 2
      BY <1>10
    <3>3. \A y : ~(y \in Holds(a) /\ y \in Holds(b) /\ Flags[y] # 2)
      BY <2>1, Exclusive
    <3>4. \A y : y \in Holds(a)' /\ Flags'[y] # 2 => y \in Holds(a)
      BY <1>11, <3>1
    <3>5. \A y : y \in Holds(b)' /\ Flags'[y] # 2 => y \in Holds(b)
      BY <1>11, <3>1
    <3>6. QED
      BY <3>2, <3>3, <3>4, <3>5
  <2>2. ASSUME NEW y \in VertexSet, V'[y], Flags'[y] = 0
        PROVE  \E a \in VertexSet : y \in Holds(a)'
    <3>1. y # z /\ Flags[y] = 0 /\ V[y]
      BY <1>1, <1>4, <2>2
    <3>2. PICK a \in VertexSet : y \in Holds(a)
      BY <3>1 DEF MISInv, LocksAreOwned
    <3>3. CASE a = z
      <4>1. y \in Adjacent(z)
        <5>1. \E d \in Nat : d < k[z] /\ y = Ngh(z, d)
          BY <1>1, <3>1, <3>2, <3>3, HoldsWhen DEF HoldsAre, MISInv
        <5>2. QED
          BY <1>1, <5>1, Neighbour DEF MISInv
      <4>2. QED
        BY <1>9, <4>1
    <3>4. CASE a # z
      BY <1>11, <3>2, <3>4
    <3>5. QED
      BY <3>3, <3>4
  <2>3. QED
    BY <2>1, <2>2 DEF LocksAreOwned
<1>14. LockInv'
  <2>1. \A w \in VertexSet : \A y \in Holds(w)' : V'[y]
    <3>1. \A y \in Holds(z)' : V'[y]
      <4>1. Holds(z)' \subseteq VertexSet
        BY DEF Holds
      <4>2. QED
        BY <1>1, <1>3, <1>8, <1>9, <4>1
    <3>2. \A w \in VertexSet \ {z} : \A y \in Holds(w)' : V'[y]
      BY <1>1, <1>11 DEF MISInv, LockInv
    <3>3. QED
      BY <3>1, <3>2
  <2>2. \A y \in VertexSet : Flags'[y] # 0 => V'[y]
    BY <1>1, <1>3, <1>4 DEF MISInv, LockInv
  <2>3. ASSUME NEW w \in VertexSet
        PROVE  IF pc'[w] = "cover" THEN Flags'[w] = 1
                 ELSE \A y \in Holds(w)' : Flags'[y] = 0
    <3>1. CASE w = z
      BY <1>2, <1>4, <3>1
    <3>2. CASE w # z
      <4>1. pc'[w] = pc[w] /\ z \notin Holds(w) /\ Holds(w)' = Holds(w) /\ Flags'[w] = Flags[w]
        BY <1>4, <1>11, <1>12, <3>2
      <4>2. \A y \in Holds(w) : Flags'[y] = Flags[y]
        BY <1>4, <4>1, HoldsAreSet
      <4>3. QED
        BY <4>1, <4>2 DEF MISInv, LockInv
    <3>3. QED
      BY <3>1, <3>2
  <2>4. QED
    BY <2>1, <2>2, <2>3 DEF LockInv
<1>15. Independent'
  <2> SUFFICES ASSUME NEW a \in VertexSet
               PROVE  /\ Flags'[a] = 1 => \A b \in Adjacent(a) : Flags'[b] # 1
                      /\ Flags'[a] = 2 => \E b \in Adjacent(a) : Flags'[b] = 1
    BY <1>5 DEF Independent
  <2>1. \A b \in Adjacent(a) : b \in VertexSet /\ a \in Adjacent(b)
    BY AdjacentIsNeighbour, AdjacentSymmetric DEF MISInv
  <2>2. ASSUME Flags'[a] = 1, NEW b \in Adjacent(a) PROVE Flags'[b] # 1
    <3>1. CASE a = z
      BY <1>4, <1>6, <1>8, <3>1
    <3>2. CASE a # z
      <4>1. Flags[a] = 1 /\ Flags[b] # 1
        BY <1>4, <2>2, <3>2 DEF MISInv, Independent
      <4>2. b # z
        BY <1>8, <2>1, <4>1
      <4>3. QED
        BY <1>4, <2>1, <4>1, <4>2
    <3>3. QED
      BY <3>1, <3>2
  <2>3. ASSUME Flags'[a] = 2 PROVE \E b \in Adjacent(a) : Flags'[b] = 1
    <3>1. Flags[a] = 2
      BY <1>4, <2>3
    <3>2. PICK b \in Adjacent(a) : Flags[b] = 1
      BY <3>1 DEF MISInv, Independent
    <3>3. b # z /\ b \in VertexSet
      BY <1>3, <2>1, <3>2
    <3>4. QED
      BY <1>4, <3>2, <3>3
  <2>4. QED
    BY <2>2, <2>3
<1>16. QED
  BY <1>13, <1>14, <1>15 DEF Locks

(* It covers them one by one.  Those that are not covered yet are locked   *)
(* by nobody else, so that nobody else decides them.                       *)
LEMMA CoverLocks ==
    ASSUME MISInv, NEW z \in VertexSet, Vertex(z), Cover(z), PlaceInv', TypeOK'
    PROVE  Locks' /\ Independent'
<1> DEFINE x0 == Ngh(z, j[z])
<1>1. Flags' = [Flags EXCEPT ![x0] = 2] /\ V' = V /\ pc[z] = "cover" /\ pc' = pc
  BY DEF Cover
<1>2. j[z] \in Nat /\ j[z] < degree(z)
  BY DEF Cover, MISInv, TypeOK
<1>3. x0 \in Adjacent(z) /\ x0 \in VertexSet /\ x0 # z
  BY <1>2, Neighbour DEF MISInv
<1>4. Flags'[x0] = 2 /\ \A x \in VertexSet : x # x0 => Flags'[x] = Flags[x]
  BY <1>1, <1>3 DEF MISInv, TypeOK
<1>5. Flags[z] = 1
  BY <1>1 DEF MISInv, LockInv
<1>6. Flags[x0] # 1
  BY <1>3, <1>5 DEF MISInv, Independent
<1>7. G' = G /\ \A x \in VertexSet : Adjacent(x)' = Adjacent(x)
  BY GraphStays DEF Adjacent, degree
<1>8. x0 \in Holds(z) /\ V[x0]
  <2>1. x0 \in Holds(z)
    BY <1>1, <1>3, HoldsWhen DEF HoldsAre, MISInv
  <2>2. QED
    BY <2>1 DEF MISInv, LockInv
<1>9. Holds(z)' = Holds(z)
  BY <1>1, <1>7 DEF Holds
<1>10. \A w \in VertexSet : Holds(w)' \subseteq Holds(w) /\ Holds(w) \subseteq Holds(w)' \cup {x0}
  <2> SUFFICES ASSUME NEW w \in VertexSet, w # z
               PROVE  Holds(w)' \subseteq Holds(w) /\ Holds(w) \subseteq Holds(w)' \cup {x0}
    BY <1>9
  <2>1. pc'[w] = pc[w] /\ k'[w] = k[w] /\ j'[w] = j[w]
    BY OtherVerticesStay DEF MISInv
  <2>2. ASSUME NEW y \in VertexSet, y # x0
        PROVE  /\ y \in Locked(w, 0, k[w])' <=> y \in Locked(w, 0, k[w])
               /\ y \in Locked(w, j[w], k[w])' <=> y \in Locked(w, j[w], k[w])
    BY <1>4, <1>7, <2>1, <2>2 DEF Locked, Ngh
  <2>3. pc[w] # "cover" => Holds(w)' \subseteq Holds(w) /\ Holds(w) \subseteq Holds(w)' \cup {x0}
    <3>1. x0 \notin Locked(w, 0, k[w])' /\ x0 \notin Locked(w, j[w], k[w])'
      BY <1>4 DEF Locked
    <3>2. ASSUME NEW y \in VertexSet, y # x0, pc[w] # "cover" PROVE y \in Holds(w)' <=> y \in Holds(w)
      BY <2>1, <2>2, <3>2 DEF Holds
    <3>3. pc[w] # "cover" /\ x0 \in Holds(w)' => x0 \in Holds(w)
      BY <2>1, <3>1 DEF Holds
    <3>4. QED
      BY <3>2, <3>3 DEF Holds
  <2>4. pc[w] = "cover" => Holds(w)' = Holds(w)
    BY <1>7, <2>1 DEF Holds
  <2>5. QED
    BY <2>3, <2>4
<1>11. \A w \in VertexSet \ {z} : x0 \in Holds(w) => Flags[x0] = 2
  BY <1>8, Exclusive
<1>12. \A y : Flags'[y] # 2 => Flags[y] # 2
  BY <1>1
<1>13. LocksAreOwned'
  <2>1. ASSUME NEW a \in VertexSet, NEW b \in VertexSet, a # b
        PROVE  {y \in Holds(a)' \cap Holds(b)' : Flags'[y] # 2} = {}
    BY <1>10, <1>12, <2>1, Exclusive
  <2>2. ASSUME NEW y \in VertexSet, V'[y], Flags'[y] = 0
        PROVE  \E a \in VertexSet : y \in Holds(a)'
    <3>1. y # x0 /\ Flags[y] = 0 /\ V[y]
      BY <1>1, <1>4, <2>2
    <3>2. PICK a \in VertexSet : y \in Holds(a)
      BY <3>1 DEF MISInv, LocksAreOwned
    <3>3. QED
      BY <1>10, <3>1, <3>2
  <2>3. QED
    BY <2>1, <2>2 DEF LocksAreOwned
<1>14. LockInv'
  <2>1. \A w \in VertexSet : \A y \in Holds(w)' : V'[y]
    BY <1>1, <1>10 DEF MISInv, LockInv
  <2>2. \A y \in VertexSet : Flags'[y] # 0 => V'[y]
    BY <1>1, <1>4, <1>8 DEF MISInv, LockInv
  <2>3. ASSUME NEW w \in VertexSet
        PROVE  IF pc'[w] = "cover" THEN Flags'[w] = 1
                 ELSE \A y \in Holds(w)' : Flags'[y] = 0
    <3>1. CASE pc[w] = "cover"
      <4>1. Flags[w] = 1
        BY <3>1 DEF MISInv, LockInv
      <4>2. w # x0
        BY <1>6, <4>1
      <4>3. QED
        BY <1>1, <1>4, <3>1, <4>1, <4>2
    <3>2. CASE pc[w] # "cover"
      <4>1. \A y \in Holds(w) : Flags[y] = 0 /\ y \in VertexSet
        BY <3>2, HoldsAreSet DEF MISInv, LockInv
      <4>2. w # z
        BY <1>1, <3>2
      <4>3. x0 \notin Holds(w)
        BY <1>11, <4>1, <4>2
      <4>4. \A y \in Holds(w)' : Flags'[y] = 0
        BY <1>4, <1>10, <4>1, <4>3
      <4>5. QED
        BY <1>1, <3>2, <4>4
    <3>3. QED
      BY <3>1, <3>2
  <2>4. QED
    BY <2>1, <2>2, <2>3 DEF LockInv
<1>15. Independent'
  <2> SUFFICES ASSUME NEW a \in VertexSet
               PROVE  /\ Flags'[a] = 1 => \A b \in Adjacent(a) : Flags'[b] # 1
                      /\ Flags'[a] = 2 => \E b \in Adjacent(a) : Flags'[b] = 1
    BY <1>7 DEF Independent
  <2>1. \A b \in Adjacent(a) : b \in VertexSet
    BY AdjacentIsNeighbour DEF MISInv
  <2>2. ASSUME Flags'[a] = 1, NEW b \in Adjacent(a) PROVE Flags'[b] # 1
    <3>1. Flags[a] = 1
      BY <1>4, <2>2
    <3>2. Flags[b] # 1
      BY <3>1 DEF MISInv, Independent
    <3>3. QED
      BY <1>4, <2>1, <3>2
  <2>3. ASSUME Flags'[a] = 2 PROVE \E b \in Adjacent(a) : Flags'[b] = 1
    <3>1. CASE a = x0
      <4>1. z \in Adjacent(a)
        BY <1>3, <3>1, AdjacentSymmetric DEF MISInv
      <4>2. Flags'[z] = 1
        BY <1>3, <1>4, <1>5
      <4>3. QED
        BY <4>1, <4>2
    <3>2. CASE a # x0
      <4>1. Flags[a] = 2
        BY <1>4, <2>3, <3>2
      <4>2. PICK b \in Adjacent(a) : Flags[b] = 1
        BY <4>1 DEF MISInv, Independent
      <4>3. b # x0 /\ b \in VertexSet
        BY <1>6, <2>1, <4>2
      <4>4. QED
        BY <1>4, <4>2, <4>3
    <3>3. QED
      BY <3>1, <3>2
  <2>4. QED
    BY <2>2, <2>3
<1>16. QED
  BY <1>13, <1>14, <1>15 DEF Locks

(* When all are covered it keeps their locks for ever, and its own.        *)
LEMMA CoverEndsLocks ==
    ASSUME MISInv, NEW z \in VertexSet, Vertex(z), CoverEnds(z), PlaceInv', TypeOK'
    PROVE  Locks'
<1>1. Flags' = Flags /\ V' = V /\ pc[z] = "cover" /\ j[z] = degree(z)
  BY DEF CoverEnds
<1>2. pc'[z] = "look"
  BY DEF CoverEnds, Goto, MISInv, TypeOK
<1>3. Holds(z)' = {}
  BY <1>2 DEF Holds
<1>4. \A w \in VertexSet \ {z} : Holds(w)' = Holds(w) /\ pc'[w] = pc[w]
  BY <1>1, OthersHold, OtherVerticesStay DEF MISInv
<1>5. \A x \in Adjacent(z) : Flags[x] = 2
  <2> SUFFICES ASSUME NEW x \in Adjacent(z) PROVE Flags[x] = 2
    OBVIOUS
  <2>1. PICK a \in Nat : a < degree(z) /\ x = Ngh(z, a)
    BY AdjacentIsNeighbour DEF MISInv
  <2>2. degree(z) \in Nat
    BY Degree DEF MISInv
  <2>3. a \in 0..(j[z] - 1)
    BY <1>1, <2>1, <2>2
  <2>4. QED
    BY <1>1, <2>1, <2>3 DEF MISInv, PlaceInv, Place
<1>6. \A x \in Holds(z) : Flags[x] # 0
  <2>1. Flags[z] = 1
    BY <1>1 DEF MISInv, LockInv
  <2>2. \A x \in Holds(z) : x = z \/ x \in Adjacent(z)
    BY <1>1, HoldsWhen, HoldsAreSet DEF HoldsAre, MISInv
  <2>3. QED
    BY <1>5, <2>1, <2>2
<1>7. LocksAreOwned'
  <2>1. ASSUME NEW a \in VertexSet, NEW b \in VertexSet, a # b
        PROVE  {y \in Holds(a)' \cap Holds(b)' : Flags'[y] # 2} = {}
    BY <1>1, <1>3, <1>4, <2>1 DEF MISInv, LocksAreOwned
  <2>2. ASSUME NEW y \in VertexSet, V'[y], Flags'[y] = 0
        PROVE  \E a \in VertexSet : y \in Holds(a)'
    <3>1. PICK a \in VertexSet : y \in Holds(a)
      BY <1>1, <2>2 DEF MISInv, LocksAreOwned
    <3>2. a # z
      BY <1>1, <1>6, <2>2, <3>1
    <3>3. QED
      BY <1>4, <3>1, <3>2
  <2>3. QED
    BY <2>1, <2>2 DEF LocksAreOwned
<1>8. LockInv'
  <2>1. \A w \in VertexSet : \A y \in Holds(w)' : V'[y]
    BY <1>1, <1>3, <1>4 DEF MISInv, LockInv
  <2>2. \A y \in VertexSet : Flags'[y] # 0 => V'[y]
    BY <1>1 DEF MISInv, LockInv
  <2>3. \A w \in VertexSet : IF pc'[w] = "cover" THEN Flags'[w] = 1
                              ELSE \A y \in Holds(w)' : Flags'[y] = 0
    BY <1>1, <1>2, <1>3, <1>4 DEF MISInv, LockInv
  <2>4. QED
    BY <2>1, <2>2, <2>3 DEF LockInv
<1>9. QED
  BY <1>7, <1>8 DEF Locks

(* ------------------------- The theorems -------------------------------- *)

LEMMA InvStep == MISInv /\ [Next]_vars => MISInv'
<1> SUFFICES ASSUME MISInv, [Next]_vars PROVE MISInv'
  OBVIOUS
<1>1. TypeOK'
  BY VertexTypeStep DEF MISInv
<1>2. CASE UNCHANGED vars
  <2>1. G' = G /\ Flags' = Flags /\ V' = V /\ pc' = pc /\ k' = k /\ j' = j
    BY <1>2 DEF vars
  <2>2. \A w \in VertexSet : Holds(w)' = Holds(w) /\ Adjacent(w)' = Adjacent(w)
    BY <2>1 DEF Holds, Locked, Adjacent, Ngh, degree
  <2>3. LockInv' /\ LocksAreOwned' /\ Independent'
    BY <2>1, <2>2 DEF MISInv, LockInv, LocksAreOwned, Independent
  <2>4. PlaceInv'
    BY <2>1 DEF MISInv, PlaceInv, Place, Ngh, degree
  <2>5. QED
    BY <1>1, <2>3, <2>4 DEF MISInv
<1>3. ASSUME NEW z \in VertexSet, Vertex(z) PROVE MISInv'
  <2>1. PlaceInv'
    BY <1>3, PlaceStep
  <2>2. Locks'
    <3>1. CASE LockSelf(z)
      BY <1>3, <3>1, LookLocks, LockSelfLocks
    <3>2. QED
      BY <1>1, <1>3, <2>1, <3>1, LookLocks, SkipLocks, LockNeighbourLocks, WinLocks, CoverLocks,
         CoverEndsLocks, UnlockSelfLocks, UnlockNeighbourLocks DEF Vertex
  <2>3. Independent'
    <3>1. CASE Flags' = Flags
      BY <1>3, <3>1, Unchosen
    <3>2. CASE Win(z) \/ Cover(z)
      BY <1>1, <1>3, <2>1, <3>2, WinLocks, CoverLocks
    <3>3. QED
      BY <1>3, <3>1, <3>2 DEF Vertex, Look, LockSelf, SkipNeighbour, LockNeighbour, CoverEnds,
         UnlockSelf, UnlockNeighbour, UnlockEnds
  <2>4. QED
    BY <1>1, <2>1, <2>2, <2>3 DEF MISInv, Locks
<1>4. QED
  BY <1>2, <1>3 DEF Next, Stopped

(* The invariant holds in every state: whoever holds a lock holds it       *)
(* alone, and what it holds is undecided until it wins.                    *)
THEOREM MISInvariance == Spec => []MISInv
<1>1. Init => MISInv
  <2> SUFFICES ASSUME Init PROVE MISInv
    OBVIOUS
  <2>1. TypeOK
    BY DEF Init, TypeOK
  <2>2. \A z \in VertexSet : pc[z] = "look" /\ Flags[z] = 0 /\ ~V[z]
    BY DEF Init
  <2>3. \A z \in VertexSet : Holds(z) = {}
    BY <2>2 DEF Holds
  <2>4. PlaceInv
    BY <2>2 DEF PlaceInv, Place
  <2>5. LockInv /\ LocksAreOwned
    BY <2>2, <2>3 DEF LockInv, LocksAreOwned
  <2>6. Independent
    <3>1. 0 # 1 /\ 0 # 2
      OBVIOUS
    <3>2. \A z \in VertexSet : Flags[z] = 0
      BY <2>2
    <3>3. QED
      BY <3>1, <3>2, Zenon DEF Independent
  <2>7. QED
    BY <2>1, <2>4, <2>5, <2>6 DEF MISInv
<1>2. QED
  BY <1>1, InvStep, PTL DEF Spec

(* Every variable has its type.                                            *)
THEOREM MISTypeCorrect == Spec => []TypeOK
<1>1. MISInv => TypeOK
  BY DEF MISInv
<1>2. QED
  BY <1>1, MISInvariance, PTL

(* The lock of a vertex that is not decided has exactly one owner.         *)
THEOREM LocksCorrect == Spec => []LocksAreOwned
<1>1. MISInv => LocksAreOwned
  BY DEF MISInv
<1>2. QED
  BY <1>1, MISInvariance, PTL

(* Chosen vertices are never adjacent, and a vertex that is ruled out has  *)
(* a chosen neighbour: at every moment, whatever the interleaving of the   *)
(* reads and writes of the flags.  When all are done, the set is maximal.  *)
THEOREM MaximalIndependentCorrect == Spec => []MaximalIndependent
<1>1. MISInv => MaximalIndependent
  BY DEF MISInv, PlaceInv, Place, MaximalIndependent, MaximalAtEnd, AllDone
<1>2. QED
  BY <1>1, MISInvariance, PTL

(* No decision is taken back.                                              *)
THEOREM DecidedStaysCorrect == Spec => DecidedStays
<1>1. MISInv /\ [Next]_vars => [KeepsDecisions]_vars
  BY DecidedStep DEF Next, Stopped, KeepsDecisions
<1>2. QED
  BY <1>1, MISInvariance, PTL DEF Spec, DecidedStays

(* ------------------------ Trees and separation ------------------------- *)

(* What the properties say of the present state, said of any forest f of   *)
(* parents, any graph g and any set X of its edges.                        *)
UncutBy(S, f) == \A x \in Vertices : f[x] < 0 \/ (x \in S <=> f[x] \in S)
Side(S, a)    == a.u \in S <=> a.v \in S
Pairs(f)      == {[u |-> x, v |-> f[x]] : x \in {y \in Vertices : ~(f[y] < 0)}}
EndsIn(X, g)  == {g[e] : e \in X}
Joined(f, X, g) == \A S \in SUBSET Vertices : UncutBy(S, f) <=> \A e \in X : Side(S, g[e])
Splits(S, e, X, g) == (\A d \in X \ {e} : Side(S, g[d])) /\ ~Side(S, g[e])
Forest(X, g) == \A e \in X : \E S \in SUBSET Vertices : Splits(S, e, X, g)

LEMMA PairsClosed ==
  ASSUME NEW f, NEW S
  PROVE  Closed(S, Pairs(f)) <=> UncutBy(S, f)
<1>1. ASSUME Closed(S, Pairs(f)), NEW x \in Vertices, ~(f[x] < 0)
      PROVE  x \in S <=> f[x] \in S
  <2>1. [u |-> x, v |-> f[x]] \in Pairs(f)
    BY <1>1 DEF Pairs
  <2>2. QED
    BY <1>1, <2>1 DEF Closed
<1>2. ASSUME UncutBy(S, f), NEW a \in Pairs(f)
      PROVE  a.u \in S <=> a.v \in S
  <2>1. PICK x \in Vertices : ~(f[x] < 0) /\ a = [u |-> x, v |-> f[x]]
    BY DEF Pairs
  <2>2. QED
    BY <1>2, <2>1 DEF UncutBy
<1>3. QED
  BY <1>1, <1>2 DEF Closed, UncutBy

LEMMA EndsClosed ==
  ASSUME NEW X, NEW g, NEW S
  PROVE  Closed(S, EndsIn(X, g)) <=> \A e \in X : Side(S, g[e])
BY DEF Closed, EndsIn, Side

LEMMA JoinedMeans ==
  ASSUME NEW f, NEW X, NEW g
  PROVE  SameComponents(Pairs(f), EndsIn(X, g)) <=> Joined(f, X, g)
BY PairsClosed, EndsClosed DEF SameComponents, Joined

LEMMA ForestMeans ==
  ASSUME NEW X, NEW g
  PROVE  (\A e \in X : ~SameComponents(EndsIn(X, g), EndsIn(X \ {e}, g))) <=> Forest(X, g)
<1> SUFFICES ASSUME NEW e \in X
             PROVE  ~SameComponents(EndsIn(X, g), EndsIn(X \ {e}, g))
                      <=> \E S \in SUBSET Vertices : Splits(S, e, X, g)
  BY DEF Forest
<1>1. ASSUME NEW S \in SUBSET Vertices
      PROVE  (Closed(S, EndsIn(X, g)) <=> Closed(S, EndsIn(X \ {e}, g))) <=> ~Splits(S, e, X, g)
  <2>1. (\A d \in X : Side(S, g[d])) <=> (\A d \in X \ {e} : Side(S, g[d])) /\ Side(S, g[e])
    OBVIOUS
  <2>2. QED
    BY <2>1, EndsClosed DEF Splits
<1>2. QED
  BY <1>1 DEF SameComponents

(* In a forest whose parents are larger there is below every vertex r a    *)
(* set of vertices that is cut off from the rest above r alone.            *)
LEMMA Below ==
  ASSUME NEW f \in [Vertices -> Vertices \cup {-1}],
         \A x \in Vertices : f[x] < 0 \/ f[x] > x,
         NEW r \in Vertices
  PROVE  \E D \in SUBSET Vertices :
           /\ r \in D /\ \A x \in D : x <= r
           /\ \A x \in Vertices \ {r} : f[x] < 0 \/ (x \in D <=> f[x] \in D)
<1> DEFINE Downward(A) == r \in A /\ \A x \in Vertices : f[x] \in A => x \in A
           D == {x \in Vertices : \A A \in SUBSET Vertices : Downward(A) => x \in A}
<1>1. Downward(D)
  OBVIOUS
<1>2. \A x \in D : x <= r
  <2> DEFINE A == {x \in Vertices : x <= r}
  <2>1. r \in A
    BY NdSTAssumption DEF Vertices
  <2>2. ASSUME NEW x \in Vertices, f[x] \in A
        PROVE  x \in A
    <3>1. f[x] \in Vertices /\ f[x] <= r
      BY <2>2
    <3>2. ~(f[x] < 0)
      BY <3>1, NdSTAssumption DEF Vertices
    <3>3. x < f[x]
      BY <3>2
    <3>4. x <= r
      BY <3>1, <3>3, NdSTAssumption DEF Vertices
    <3>5. QED
      BY <3>4
  <2>3. Downward(A)
    BY <2>1, <2>2
  <2>4. A \in SUBSET Vertices
    OBVIOUS
  <2>5. QED
    BY <2>3, <2>4
<1>3. ASSUME NEW x \in Vertices, x # r, ~(f[x] < 0), x \in D, f[x] \notin D
      PROVE  FALSE
  <2>1. Downward(D \ {x})
    <3>1. ASSUME NEW y \in Vertices, f[y] \in D \ {x}
          PROVE  y \in D \ {x}
      <4>1. y \in D
        BY <1>1, <3>1
      <4>2. y # x
        BY <1>3, <3>1
      <4>3. QED
        BY <4>1, <4>2
    <3>2. r \in D \ {x}
      BY <1>1, <1>3
    <3>3. QED
      BY <3>1, <3>2
  <2>2. D \ {x} \in SUBSET Vertices
    OBVIOUS
  <2>3. x \in D \ {x}
    BY <1>3, <2>1, <2>2
  <2>4. QED
    BY <2>3
<1>4. \A x \in Vertices \ {r} : f[x] < 0 \/ (x \in D <=> f[x] \in D)
  BY <1>1, <1>3
<1>5. D \in SUBSET Vertices /\ r \in D
  BY <1>1
<1> HIDE DEF D
<1>6. QED
  BY <1>2, <1>4, <1>5

(* A vertex r that moves below another one of its tree that is larger,     *)
(* moves with all that is below it, and the trees stay what they are.      *)
LEMMA MovesWithinTree ==
  ASSUME NEW f \in [Vertices -> Vertices \cup {-1}],
         \A x \in Vertices : f[x] < 0 \/ f[x] > x,
         NEW r \in Vertices, ~(f[r] < 0),
         NEW b \in Vertices, b > r,
         \A S \in SUBSET Vertices : UncutBy(S, f) => (r \in S <=> b \in S),
         NEW S \in SUBSET Vertices
  PROVE  UncutBy(S, [f EXCEPT ![r] = b]) <=> UncutBy(S, f)
<1> DEFINE h == [f EXCEPT ![r] = b]
<1>1. h[r] = b /\ ~(b < 0) /\ \A x \in Vertices \ {r} : h[x] = f[x]
  BY NdSTAssumption DEF Vertices
<1>2. ASSUME UncutBy(S, f) PROVE UncutBy(S, h)
  BY <1>1, <1>2 DEF UncutBy
<1>3. ASSUME UncutBy(S, h), ~UncutBy(S, f) PROVE FALSE
  <2>1. r \in S <=> b \in S
    BY <1>1, <1>3 DEF UncutBy
  <2>2. ~(r \in S <=> f[r] \in S)
    BY <1>1, <1>3 DEF UncutBy
  <2>3. PICK D \in SUBSET Vertices :
               /\ r \in D /\ \A x \in D : x <= r
               /\ \A x \in Vertices \ {r} : f[x] < 0 \/ (x \in D <=> f[x] \in D)
    BY Below
  <2>4. b \notin D /\ f[r] \notin D
    <3>1. f[r] > r /\ f[r] \in Vertices
      BY NdSTAssumption DEF Vertices
    <3>2. ASSUME NEW y \in Vertices, y > r PROVE y \notin D
      BY <2>3, <3>2, NdSTAssumption DEF Vertices
    <3>3. QED
      BY <3>1, <3>2
  <2> DEFINE T == {x \in Vertices : (x \in S /\ x \notin D) \/ (x \notin S /\ x \in D)}
  <2>5. ASSUME NEW x \in Vertices, ~(f[x] < 0) PROVE x \in T <=> f[x] \in T
    <3>0. f[x] \in Vertices
      BY <2>5, NdSTAssumption DEF Vertices
    <3>1. CASE x = r
      BY <2>2, <2>3, <2>4, <3>0, <3>1
    <3>2. CASE x # r
      <4>1. x \in S <=> f[x] \in S
        BY <1>1, <1>3, <2>5, <3>2 DEF UncutBy
      <4>2. x \in D <=> f[x] \in D
        BY <2>3, <2>5, <3>2
      <4>3. QED
        BY <3>0, <4>1, <4>2
    <3>3. QED
      BY <3>1, <3>2
  <2>6. UncutBy(T, f)
    BY <2>5 DEF UncutBy
  <2>7. r \in T <=> b \in T
    BY <2>6
  <2>8. QED
    BY <2>1, <2>3, <2>4, <2>7
<1>4. QED
  BY <1>2, <1>3

(* A new edge whose ends are separated by a set that separates no others   *)
(* leaves a forest a forest.                                               *)
LEMMA ForestGrows ==
  ASSUME NEW X, NEW g, NEW e, e \notin X, Forest(X, g),
         NEW D \in SUBSET Vertices,
         \A d \in X : Side(D, g[d]), ~Side(D, g[e]),
         \A d \in X \cup {e} : g[d].u \in Vertices /\ g[d].v \in Vertices
  PROVE  Forest(X \cup {e}, g)
<1>1. Splits(D, e, X \cup {e}, g)
  BY DEF Splits
<1>2. ASSUME NEW d \in X PROVE \E S \in SUBSET Vertices : Splits(S, d, X \cup {e}, g)
  <2>1. PICK S \in SUBSET Vertices : Splits(S, d, X, g)
    BY DEF Forest
  <2>2. CASE Side(S, g[e])
    BY <2>1, <2>2 DEF Splits
  <2>3. CASE ~Side(S, g[e])
    <3> DEFINE T == {x \in Vertices : (x \in S /\ x \notin D) \/ (x \notin S /\ x \in D)}
    <3>1. \A c \in X \cup {e} : Side(T, g[c]) <=> (Side(S, g[c]) <=> Side(D, g[c]))
      BY DEF Side
    <3>2. T \in SUBSET Vertices
      OBVIOUS
    <3> HIDE DEF T
    <3>3. Splits(T, d, X \cup {e}, g)
      BY <2>1, <2>3, <3>1 DEF Splits
    <3>4. QED
      BY <3>2, <3>3
  <2>4. QED
    BY <2>2, <2>3
<1>3. QED
  BY <1>1, <1>2 DEF Forest

(* What the properties mean, before and after a step.                      *)
LEMMA Meanings ==
  /\ TreesAreComponents <=> Joined(parents, Linked, E)
  /\ TreesAreComponents' <=> Joined(parents', Linked', E')
  /\ HooksAreForest <=> Forest(stIdx, E)
  /\ HooksAreForest' <=> Forest(stIdx', E')
<1>1. ParentPairs = Pairs(parents) /\ ParentPairs' = Pairs(parents')
  BY DEF ParentPairs, Pairs, is_root
<1>2. ASSUME NEW X PROVE Ends(X) = EndsIn(X, E)
  BY DEF Ends, EndsIn
<1>3. /\ Ends(Linked)' = EndsIn(Linked', E')
      /\ Ends(stIdx)' = EndsIn(stIdx', E')
  BY DEF Ends, EndsIn
<1>4. ASSUME NEW e PROVE Ends(stIdx \ {e})' = EndsIn(stIdx' \ {e}, E')
  BY DEF Ends, EndsIn
<1>5. TreesAreComponents <=> Joined(parents, Linked, E)
  BY <1>1, <1>2, JoinedMeans DEF TreesAreComponents
<1>6. TreesAreComponents' <=> SameComponents(Pairs(parents'), EndsIn(Linked', E'))
  BY <1>1, <1>3 DEF TreesAreComponents, SameComponents, Closed
<1>7. HooksAreForest <=> Forest(stIdx, E)
  BY <1>2, ForestMeans DEF HooksAreForest
<1>8. HooksAreForest' <=>
        \A e \in stIdx' : ~SameComponents(EndsIn(stIdx', E'), EndsIn(stIdx' \ {e}, E'))
  BY <1>3, <1>4 DEF HooksAreForest
<1>9. QED
  BY <1>5, <1>6, <1>7, <1>8, JoinedMeans, ForestMeans

LEMMA UncutMeans ==
  ASSUME NEW S
  PROVE  /\ Uncut(S) <=> UncutBy(S, parents)
         /\ Uncut(S)' <=> UncutBy(S, parents')
BY DEF Uncut, UncutBy, is_root

LEMMA Types ==
  ASSUME STTypeOK, NEW e \in Edges
  PROVE  /\ E[e].u \in Vertices /\ E[e].v \in Vertices
         /\ u[e] \in Vertices /\ v[e] \in Vertices
         /\ i[e] \in Vertices /\ p[e] \in Vertices /\ gp[e] \in Vertices
         /\ \A x \in Vertices : x \in Int /\ (~is_root(x) => parents[x] \in Vertices)
         /\ e # m /\ e \in Int
<1>1. E[e] \in [u : Vertices, v : Vertices]
  BY NdSTAssumption DEF STTypeOK
<1>2. u \in [Edges -> Vertices] /\ v \in [Edges -> Vertices] /\ i \in [Edges -> Vertices]
      /\ p \in [Edges -> Vertices] /\ gp \in [Edges -> Vertices]
  BY DEF STTypeOK
<1>3. \A x \in Vertices : x \in Int /\ (~is_root(x) => parents[x] \in Vertices)
  <2> SUFFICES ASSUME NEW x \in Vertices
               PROVE  x \in Int /\ (~is_root(x) => parents[x] \in Vertices)
    OBVIOUS
  <2>1. parents[x] \in Vertices \cup {-1}
    BY DEF STTypeOK
  <2>2. -1 < 0
    OBVIOUS
  <2>3. QED
    BY <2>1, <2>2, NdSTAssumption DEF Vertices, is_root
<1>4. e # m /\ e \in Int
  BY NdSTAssumption DEF Edges
<1>5. QED
  BY <1>1, <1>2, <1>3, <1>4

(* ---------------------------- The steps -------------------------------- *)

LEMMA TypeInit == STInit => STTypeOK
<1> SUFFICES ASSUME STInit PROVE STTypeOK
  OBVIOUS
<1>1. E \in [Edges -> [u : Vertices, v : Vertices]]
  BY NdSTAssumption DEF STInit
<1>2. u \in [Edges -> Vertices] /\ v \in [Edges -> Vertices]
  BY <1>1 DEF STInit
<1>3. QED
  BY <1>2 DEF STInit, STTypeOK

(* A step of the edge e leaves the locals of the others alone.             *)
Others(e) == \A d \in Edges \ {e} :
    /\ place'[d] = place[d] /\ u'[d] = u[d] /\ v'[d] = v[d]
    /\ i'[d] = i[d] /\ p'[d] = p[d] /\ gp'[d] = gp[d]

LEMMA OtherEdgesStay ==
  ASSUME STTypeOK, NEW e \in Edges, Edge(e)
  PROVE  E' = E /\ Others(e)
<1>1. E' = E
  BY DEF Edge, FindFirst, FindParent, Shortcut, Break, Compare, Hook, link
<1>2. CASE FindFirst(e) \/ FindParent(e)
  BY <1>2 DEF FindFirst, FindParent, Found, STTypeOK, Others
<1>3. CASE Shortcut(e) \/ Break(e) \/ Compare(e)
  BY <1>3 DEF Shortcut, Break, Compare, locals, STTypeOK, Others
<1>4. CASE Hook(e) \/ link(e)
  BY <1>4 DEF Hook, link, locals, STTypeOK, Others
<1>5. QED
  BY <1>1, <1>2, <1>3, <1>4 DEF Edge

EdgePlaces == {"find u", "parent u", "shortcut u", "find v", "parent v",
           "shortcut v", "compare", "hook", "link", "done"}
LocalsTyped == /\ u \in [Edges -> Vertices] /\ v \in [Edges -> Vertices]
               /\ i \in [Edges -> Vertices] /\ p \in [Edges -> Vertices]
               /\ gp \in [Edges -> Vertices]
SharedTyped == /\ E \in STGraphs
               /\ parents \in [Vertices -> Vertices \cup {-1}]
               /\ hooks \in [Vertices -> Edges \cup {m}]

LEMMA TypeParts ==
  /\ STTypeOK <=> SharedTyped /\ place \in [Edges -> EdgePlaces] /\ LocalsTyped
  /\ STTypeOK' <=> SharedTyped' /\ place' \in [Edges -> EdgePlaces] /\ LocalsTyped'
BY DEF STTypeOK, SharedTyped, LocalsTyped, EdgePlaces

LEMMA EdgeTypeStep == STTypeOK /\ [STNext]_stVars => STTypeOK'
<1> SUFFICES ASSUME STTypeOK, [STNext]_stVars PROVE STTypeOK'
  OBVIOUS
<1>1. CASE UNCHANGED stVars
  BY <1>1 DEF stVars, locals, STTypeOK
<1>2. ASSUME NEW e \in Edges, Edge(e) PROVE STTypeOK'
  <2>1. u[e] \in Vertices /\ v[e] \in Vertices /\ i[e] \in Vertices
        /\ p[e] \in Vertices /\ gp[e] \in Vertices
    BY Types
  <2>2. \A x \in Vertices : ~is_root(x) => parents[x] \in Vertices
    BY Types
  <2>3. SharedTyped /\ place \in [Edges -> EdgePlaces] /\ LocalsTyped
    BY TypeParts
  <2>4. E' = E
    BY <1>2, OtherEdgesStay
  <2>5. place' \in [Edges -> EdgePlaces]
    <3>1. PICK l \in EdgePlaces : place' = [place EXCEPT ![e] = l]
      <4>1. \A of : Found(e, i[e], of) \/ Found(e, p[e], of) =>
              \E l \in EdgePlaces : place' = [place EXCEPT ![e] = l]
        BY DEF Found, EdgePlaces
      <4>2. CASE FindFirst(e)
        BY <4>1, <4>2 DEF FindFirst, EdgePlaces
      <4>3. CASE FindParent(e)
        BY <4>1, <4>3 DEF FindParent, EdgePlaces
      <4>4. QED
        BY <1>2, <4>2, <4>3 DEF Edge, Shortcut, Break, Compare, Hook, link, EdgePlaces
    <3>2. QED
      BY <2>3, <3>1
  <2>6. parents' \in [Vertices -> Vertices \cup {-1}]
    <3>1. \/ parents' = parents
          \/ parents' = [parents EXCEPT ![i[e]] = gp[e]]
          \/ parents' = [parents EXCEPT ![u[e]] = v[e]]
      BY <1>2 DEF Edge, FindFirst, FindParent, Shortcut, Break, Compare, Hook, link
    <3>2. QED
      BY <2>1, <2>3, <3>1 DEF SharedTyped
  <2>7. hooks' \in [Vertices -> Edges \cup {m}]
    <3>1. hooks' = hooks \/ hooks' = [hooks EXCEPT ![u[e]] = e]
      BY <1>2 DEF Edge, FindFirst, FindParent, Shortcut, Break, Compare, Hook, link
    <3>2. QED
      BY <2>1, <2>3, <3>1 DEF SharedTyped
  <2> DEFINE Step(f, h) == h = f \/ \E a \in Vertices : h = [f EXCEPT ![e] = a]
  <2>8. LocalsTyped'
    <3>1. \A f, h : f \in [Edges -> Vertices] /\ Step(f, h) => h \in [Edges -> Vertices]
      OBVIOUS
    <3>2. ASSUME NEW r \in Vertices, NEW of, Found(e, r, of)
          PROVE  Step(u, u') /\ Step(v, v') /\ Step(i, i')
      BY <2>1, <3>2 DEF Found
    <3>3. Step(u, u') /\ Step(v, v') /\ Step(i, i') /\ Step(p, p') /\ Step(gp, gp')
      <4>1. CASE FindFirst(e)
        <5>1. CASE is_root(i[e])
          BY <2>1, <3>2, <4>1, <5>1 DEF FindFirst
        <5>2. CASE ~is_root(i[e])
          BY <2>1, <2>2, <4>1, <5>2 DEF FindFirst
        <5>3. QED
          BY <5>1, <5>2
      <4>2. CASE FindParent(e)
        <5>1. CASE is_root(p[e])
          BY <2>1, <3>2, <4>2, <5>1 DEF FindParent
        <5>2. CASE ~is_root(p[e])
          BY <2>1, <2>2, <4>2, <5>2 DEF FindParent
        <5>3. QED
          BY <5>1, <5>2
      <4>3. CASE Shortcut(e)
        BY <2>1, <4>3 DEF Shortcut
      <4>4. CASE Break(e) \/ link(e)
        BY <4>4 DEF Break, link, locals
      <4>5. CASE Compare(e)
        <5>1. CASE u[e] > v[e]
          BY <2>1, <4>5, <5>1 DEF Compare
        <5>2. CASE ~(u[e] > v[e])
          BY <2>1, <4>5, <5>2 DEF Compare
        <5>3. QED
          BY <5>1, <5>2
      <4>6. CASE Hook(e)
        <5>1. CASE hooks[u[e]] = m
          BY <2>1, <4>6, <5>1 DEF Hook
        <5>2. CASE hooks[u[e]] # m
          BY <2>1, <4>6, <5>2 DEF Hook
        <5>3. QED
          BY <5>1, <5>2
      <4>7. QED
        BY <1>2, <4>1, <4>2, <4>3, <4>4, <4>5, <4>6 DEF Edge
    <3> HIDE DEF Step
    <3>4. QED
      BY <2>3, <3>1, <3>3 DEF LocalsTyped
  <2>9. QED
    BY <2>3, <2>4, <2>5, <2>6, <2>7, <2>8, TypeParts DEF SharedTyped
<1>3. QED
  BY <1>1, <1>2 DEF STNext, STStopped

(* What the invariant says of an edge stays true when others step.         *)
LEMMA EdgeStays ==
  ASSUME STTypeOK, NEW e \in Edges, Edge(e), NEW d \in Edges \ {e}
  PROVE  /\ (\A x \in Vertices : is_root(x)' => is_root(x)) /\ Ascends(d) => Ascends(d)'
         /\ \A S : Together(S, d) => Together(S, d)'
<1>1. E' = E /\ place'[d] = place[d] /\ u'[d] = u[d] /\ v'[d] = v[d]
      /\ i'[d] = i[d] /\ p'[d] = p[d] /\ gp'[d] = gp[d]
  BY OtherEdgesStay DEF Others
<1>2. i[d] \in Vertices /\ p[d] \in Vertices
  BY Types
<1>3. ASSUME \A x \in Vertices : is_root(x)' => is_root(x), Ascends(d)
      PROVE  Ascends(d)'
  <2>1. (~is_root(i[d]) => ~is_root(i[d])') /\ (~is_root(p[d]) => ~is_root(p[d])')
    BY <1>1, <1>2, <1>3 DEF is_root
  <2>2. QED
    BY <1>1, <1>3, <2>1 DEF Ascends
<1>4. ASSUME NEW S, Together(S, d)
      PROVE  Together(S, d)'
  BY <1>1, <1>4 DEF Together, SameSide, Start, Which
<1>5. QED
  BY <1>3, <1>4

(* A step that touches nothing that is shared, of an edge e that has not   *)
(* hooked yet, keeps the invariant if it keeps what that says of e.        *)
LEMMA LocalStep ==
  ASSUME STInv, STTypeOK', NEW e \in Edges, Edge(e),
         parents' = parents, hooks' = hooks,
         place[e] \notin {"link", "done"}, place'[e] # "link",
         Ascends(e)',
         \A S \in SUBSET Vertices : Uncut(S) => Together(S, e)'
  PROVE  STInv'
<1>1. E' = E /\ \A d \in Edges \ {e} : place'[d] = place[d] /\ u'[d] = u[d]
  BY OtherEdgesStay DEF STInv, Others
<1>2. \A x : is_root(x)' <=> is_root(x)
  BY DEF is_root
<1>3. \A x \in Vertices : hooks[x] \in Edges \cup {m} /\ hooks[x] # e
  <2>1. e # m
    BY Types DEF STInv
  <2>2. \A x \in Vertices : hooks[x] # m => hooks[x] # e
    BY DEF STInv, HookInv
  <2>3. QED
    BY <2>1, <2>2 DEF STInv, STTypeOK
<1>4. Acyclic'
  BY <1>2 DEF STInv, Acyclic
<1>5. OrderInv'
  BY <1>2, EdgeStays DEF STInv, OrderInv
<1>6. HookInv'
  BY <1>1, <1>2, <1>3 DEF STInv, HookInv
<1>7. TreeInv'
  <2>1. ASSUME NEW S \in SUBSET Vertices, Uncut(S)'
        PROVE  Uncut(S)
    BY <2>1 DEF Uncut, is_root
  <2>2. ASSUME NEW S \in SUBSET Vertices, Uncut(S), NEW d \in Edges
        PROVE  Together(S, d)'
    <3>1. CASE d = e
      BY <2>2, <3>1
    <3>2. CASE d # e
      BY <2>2, <3>2, EdgeStays DEF STInv, TreeInv
    <3>3. QED
      BY <3>1, <3>2
  <2>3. QED
    BY <2>1, <2>2 DEF TreeInv
<1>8. stIdx' = stIdx /\ e \notin stIdx /\ stIdx \subseteq Edges
  BY <1>3 DEF stIdx
<1>9. Linked' = Linked
  BY <1>1, <1>8 DEF Linked
<1>10. TreesAreComponents' /\ HooksAreForest'
  BY <1>1, <1>8, <1>9, Meanings DEF STInv
<1>11. QED
  BY <1>4, <1>5, <1>6, <1>7, <1>10 DEF STInv

(* The call of find returns r, which is in the tree of its argument.       *)
LEMMA FoundRight ==
  ASSUME STInv, STTypeOK', NEW e \in Edges, Edge(e), NEW r \in Vertices,
         parents' = parents, hooks' = hooks,
         place[e] \in {"find u", "parent u", "find v", "parent v"},
         Found(e, r, Which(e)),
         \A S \in SUBSET Vertices : Uncut(S) => (r \in S <=> Start(e) \in S)
  PROVE  STInv'
<1>1. E' = E
  BY OtherEdgesStay DEF STInv
<1>2. ASSUME NEW S \in SUBSET Vertices, Uncut(S) PROVE Together(S, e)
  BY <1>2 DEF STInv, TreeInv
<1>3. LocalsTyped
  BY TypeParts DEF STInv
<1>4. place \in [Edges -> EdgePlaces]
  BY TypeParts DEF STInv
<1>5. CASE place[e] \in {"find u", "parent u"}
  <2>1. Which(e) = "u" /\ Start(e) = u[e]
    BY <1>5 DEF Which, Start
  <2>2. u'[e] = r /\ v'[e] = v[e] /\ i'[e] = v[e] /\ place'[e] = "find v"
    BY <1>3, <1>4, <2>1 DEF Found, LocalsTyped
  <2>3. Start(e)' = v'[e]
    BY <2>2 DEF Which, Start
  <2>4. Ascends(e)'
    BY <2>2 DEF Ascends
  <2>5. ASSUME NEW S \in SUBSET Vertices, Uncut(S) PROVE Together(S, e)'
    <3>1. r \in S <=> u[e] \in S
      BY <2>1, <2>5
    <3>2. (u[e] \in S <=> v[e] \in S) <=> SameSide(S, e)
      BY <1>2, <2>5 DEF Together
    <3>3. SameSide(S, e)' <=> SameSide(S, e)
      BY <1>1 DEF SameSide
    <3>4. QED
      BY <2>2, <2>3, <3>1, <3>2, <3>3 DEF Together
  <2>6. QED
    BY <1>5, <2>2, <2>4, <2>5, LocalStep
<1>6. CASE place[e] \in {"find v", "parent v"}
  <2>1. Which(e) = "v" /\ Start(e) = v[e]
    BY <1>6 DEF Which, Start
  <2>2. u'[e] = u[e] /\ v'[e] = r /\ place'[e] = "compare"
    BY <1>3, <1>4, <2>1 DEF Found, LocalsTyped
  <2>4. Ascends(e)'
    BY <2>2 DEF Ascends
  <2>5. ASSUME NEW S \in SUBSET Vertices, Uncut(S) PROVE Together(S, e)'
    <3>1. r \in S <=> v[e] \in S
      BY <2>1, <2>5
    <3>2. (u[e] \in S <=> v[e] \in S) <=> SameSide(S, e)
      BY <1>2, <2>5 DEF Together
    <3>3. SameSide(S, e)' <=> SameSide(S, e)
      BY <1>1 DEF SameSide
    <3>4. QED
      BY <2>2, <3>1, <3>2, <3>3 DEF Together
  <2>6. QED
    BY <1>6, <2>2, <2>4, <2>5, LocalStep
<1>7. QED
  BY <1>5, <1>6

LEMMA FindFirstInv ==
  ASSUME STInv, STTypeOK', NEW e \in Edges, FindFirst(e)
  PROVE  STInv'
<1>1. Edge(e) /\ parents' = parents /\ hooks' = hooks /\ E' = E
      /\ place[e] \in {"find u", "find v"}
  BY DEF Edge, FindFirst, Finding
<1>2. ASSUME NEW S \in SUBSET Vertices, Uncut(S) PROVE Together(S, e)
  BY <1>2 DEF STInv, TreeInv
<1>3. i[e] \in Vertices
  BY Types DEF STInv
<1>4. \A S \in SUBSET Vertices : Uncut(S) => (i[e] \in S <=> Start(e) \in S)
  BY <1>1, <1>2 DEF Together
<1>5. CASE is_root(i[e])
  BY <1>1, <1>3, <1>4, <1>5, FoundRight DEF FindFirst
<1>6. CASE ~is_root(i[e])
  <2>1. PICK w : w = IF Which(e) = "u" THEN "parent u" ELSE "parent v"
    OBVIOUS
  <2>2. p'[e] = parents[i[e]] /\ place'[e] = w /\ u' = u /\ v' = v /\ i' = i
    <3>1. LocalsTyped /\ place \in [Edges -> EdgePlaces]
      BY TypeParts DEF STInv
    <3>2. QED
      BY <1>6, <2>1, <3>1 DEF FindFirst, LocalsTyped
  <2>3. Start(e)' = Start(e) /\ place'[e] \in {"parent u", "parent v"}
    BY <1>1, <2>1, <2>2 DEF Start, Which
  <2>4. Ascends(e)'
    <3>1. parents[i[e]] > i[e] /\ parents[i[e]] \in Vertices
      BY <1>3, <1>6, Types DEF STInv, Acyclic
    <3>2. i[e] < parents[i[e]]
      BY <3>1, <1>3, NdSTAssumption DEF Vertices
    <3>3. ~is_root(i[e])'
      BY <1>1, <1>6, <2>2 DEF is_root
    <3>4. QED
      BY <2>2, <2>3, <3>2, <3>3 DEF Ascends
  <2>5. ASSUME NEW S \in SUBSET Vertices, Uncut(S) PROVE Together(S, e)'
    <3>1. parents[i[e]] \in S <=> i[e] \in S
      BY <1>3, <1>6, <2>5 DEF Uncut
    <3>2. (u[e] \in S <=> v[e] \in S) <=> SameSide(S, e)
      BY <1>2, <2>5 DEF Together
    <3>3. SameSide(S, e)' <=> SameSide(S, e)
      BY <1>1 DEF SameSide
    <3>4. i[e] \in S <=> Start(e) \in S
      BY <1>4, <2>5
    <3>5. QED
      BY <2>2, <2>3, <3>1, <3>2, <3>3, <3>4 DEF Together
  <2>6. QED
    BY <1>1, <2>3, <2>4, <2>5, LocalStep
<1>7. QED
  BY <1>5, <1>6

LEMMA FindParentInv ==
  ASSUME STInv, STTypeOK', NEW e \in Edges, FindParent(e)
  PROVE  STInv'
<1>1. Edge(e) /\ parents' = parents /\ hooks' = hooks /\ E' = E
      /\ place[e] \in {"parent u", "parent v"}
  BY DEF Edge, FindParent
<1>2. ASSUME NEW S \in SUBSET Vertices, Uncut(S) PROVE Together(S, e)
  BY <1>2 DEF STInv, TreeInv
<1>3. p[e] \in Vertices /\ i[e] \in Vertices
  BY Types DEF STInv
<1>4. \A S \in SUBSET Vertices : Uncut(S) => (i[e] \in S <=> Start(e) \in S)
                                             /\ (p[e] \in S <=> Start(e) \in S)
  BY <1>1, <1>2 DEF Together
<1>5. CASE is_root(p[e])
  BY <1>1, <1>3, <1>4, <1>5, FoundRight DEF FindParent
<1>6. CASE ~is_root(p[e])
  <2>1. PICK w : w = IF Which(e) = "u" THEN "shortcut u" ELSE "shortcut v"
    OBVIOUS
  <2>2. gp'[e] = parents[p[e]] /\ place'[e] = w /\ u' = u /\ v' = v /\ i' = i /\ p' = p
    <3>1. LocalsTyped /\ place \in [Edges -> EdgePlaces]
      BY TypeParts DEF STInv
    <3>2. QED
      BY <1>6, <2>1, <3>1 DEF FindParent, LocalsTyped
  <2>3. Start(e)' = Start(e) /\ place'[e] \in {"shortcut u", "shortcut v"}
    BY <1>1, <2>1, <2>2 DEF Start, Which
  <2>4. Ascends(e)'
    <3>1. parents[p[e]] > p[e] /\ parents[p[e]] \in Vertices
      BY <1>3, <1>6, Types DEF STInv, Acyclic
    <3>2. p[e] < parents[p[e]]
      BY <3>1, <1>3, NdSTAssumption DEF Vertices
    <3>3. ~is_root(i[e]) /\ i[e] < p[e]
      BY <1>1 DEF STInv, OrderInv, Ascends
    <3>4. ~is_root(i[e])' /\ ~is_root(p[e])'
      BY <1>1, <1>6, <2>2, <3>3 DEF is_root
    <3>5. QED
      BY <2>2, <2>3, <3>2, <3>3, <3>4 DEF Ascends
  <2>5. ASSUME NEW S \in SUBSET Vertices, Uncut(S) PROVE Together(S, e)'
    <3>1. parents[p[e]] \in S <=> p[e] \in S
      BY <1>3, <1>6, <2>5 DEF Uncut
    <3>2. (u[e] \in S <=> v[e] \in S) <=> SameSide(S, e)
      BY <1>2, <2>5 DEF Together
    <3>3. SameSide(S, e)' <=> SameSide(S, e)
      BY <1>1 DEF SameSide
    <3>4. (i[e] \in S <=> Start(e) \in S) /\ (p[e] \in S <=> Start(e) \in S)
      BY <1>4, <2>5
    <3>5. QED
      BY <2>2, <2>3, <3>1, <3>2, <3>3, <3>4 DEF Together
  <2>6. QED
    BY <1>1, <2>3, <2>4, <2>5, LocalStep
<1>7. QED
  BY <1>5, <1>6

LEMMA BreakInv ==
  ASSUME STInv, STTypeOK', NEW e \in Edges, Break(e)
  PROVE  STInv'
<1>1. Edge(e) /\ parents' = parents /\ hooks' = hooks /\ E' = E
      /\ place[e] = "compare" /\ u[e] = v[e] /\ u' = u /\ v' = v
  BY DEF Edge, Break, locals
<1>2. place'[e] = "done"
  BY DEF Break, STInv, STTypeOK
<1>3. Ascends(e)'
  BY <1>2 DEF Ascends
<1>4. ASSUME NEW S \in SUBSET Vertices, Uncut(S) PROVE Together(S, e)'
  <2>1. (u[e] \in S <=> v[e] \in S) <=> SameSide(S, e)
    BY <1>4 DEF STInv, TreeInv, Together
  <2>2. SameSide(S, e)' <=> SameSide(S, e)
    BY <1>1 DEF SameSide
  <2>3. QED
    BY <1>1, <1>2, <2>1, <2>2 DEF Together
<1>5. QED
  BY <1>1, <1>2, <1>3, <1>4, LocalStep

LEMMA CompareInv ==
  ASSUME STInv, STTypeOK', NEW e \in Edges, Compare(e)
  PROVE  STInv'
<1>1. Edge(e) /\ parents' = parents /\ hooks' = hooks /\ E' = E
      /\ place[e] = "compare" /\ u[e] # v[e]
  BY DEF Edge, Compare
<1>2. place'[e] = "hook"
  BY DEF Compare, STInv, STTypeOK
<1>3. /\ u[e] > v[e] => u'[e] = v[e] /\ v'[e] = u[e]
      /\ ~(u[e] > v[e]) => u'[e] = u[e] /\ v'[e] = v[e]
  <2>1. LocalsTyped
    BY TypeParts DEF STInv
  <2>2. QED
    BY <2>1 DEF Compare, LocalsTyped
<1>4. Ascends(e)'
  <2>1. u[e] \in Vertices /\ v[e] \in Vertices
    BY Types DEF STInv
  <2>2. u'[e] < v'[e]
    <3>1. ASSUME u[e] > v[e] PROVE v[e] < u[e]
      BY <2>1, <3>1, NdSTAssumption DEF Vertices
    <3>2. ASSUME NEW x \in Vertices, NEW y \in Vertices, ~(x > y), x # y PROVE x < y
      BY <3>2, NdSTAssumption DEF Vertices
    <3>3. QED
      BY <1>1, <1>3, <2>1, <3>1, <3>2
  <2>3. QED
    BY <1>2, <2>2 DEF Ascends
<1>5. ASSUME NEW S \in SUBSET Vertices, Uncut(S) PROVE Together(S, e)'
  <2>1. (u[e] \in S <=> v[e] \in S) <=> SameSide(S, e)
    BY <1>5 DEF STInv, TreeInv, Together
  <2>2. SameSide(S, e)' <=> SameSide(S, e)
    BY <1>1 DEF SameSide
  <2>3. (u'[e] \in S <=> v'[e] \in S) <=> (u[e] \in S <=> v[e] \in S)
    BY <1>3
  <2>4. QED
    BY <1>2, <2>1, <2>2, <2>3 DEF Together
<1>6. QED
  BY <1>1, <1>2, <1>4, <1>5, LocalStep

(* Another edge has hooked u: start over.                                  *)
LEMMA HookLost ==
  ASSUME STInv, STTypeOK', NEW e \in Edges, Hook(e), hooks[u[e]] # m
  PROVE  STInv'
<1>1. Edge(e) /\ parents' = parents /\ hooks' = hooks /\ E' = E
      /\ place[e] = "hook" /\ u' = u /\ v' = v
  BY DEF Edge, Hook
<1>2. place'[e] = "find u" /\ i'[e] = u[e]
  <2>1. LocalsTyped /\ place \in [Edges -> EdgePlaces]
    BY TypeParts DEF STInv
  <2>2. QED
    BY <2>1 DEF Hook, LocalsTyped
<1>3. Ascends(e)'
  BY <1>2 DEF Ascends
<1>4. Start(e)' = u[e]
  BY <1>1, <1>2 DEF Start, Which
<1>5. ASSUME NEW S \in SUBSET Vertices, Uncut(S) PROVE Together(S, e)'
  <2>1. (u[e] \in S <=> v[e] \in S) <=> SameSide(S, e)
    BY <1>5 DEF STInv, TreeInv, Together
  <2>2. SameSide(S, e)' <=> SameSide(S, e)
    BY <1>1 DEF SameSide
  <2>3. QED
    BY <1>1, <1>2, <1>4, <2>1, <2>2 DEF Together
<1>6. QED
  BY <1>1, <1>2, <1>3, <1>5, LocalStep

(* The root u is hooked: what lies below it, counting the links that are   *)
(* promised, is separated from v and by no other hooked edge from the rest.*)
LEMMA HookSeparates ==
  ASSUME STInv, NEW e \in Edges, place[e] = "hook", hooks[u[e]] = m
  PROVE  \E D \in SUBSET Vertices : (\A d \in stIdx : Side(D, E[d])) /\ ~Side(D, E[e])
<1> DEFINE Waits(x) == hooks[x] # m /\ place[hooks[x]] = "link"
           f == [x \in Vertices |-> IF Waits(x) THEN v[hooks[x]] ELSE parents[x]]
<1>1. \A x \in Vertices : hooks[x] \in Edges \cup {m}
  BY DEF STInv, STTypeOK
<1>2. u[e] \in Vertices /\ v[e] \in Vertices
  BY Types DEF STInv
<1>3. f \in [Vertices -> Vertices \cup {-1}]
  <2> SUFFICES ASSUME NEW x \in Vertices PROVE f[x] \in Vertices \cup {-1}
    OBVIOUS
  <2>1. CASE Waits(x)
    BY <1>1, <2>1, Types DEF STInv
  <2>2. CASE ~Waits(x)
    BY <2>2 DEF STInv, STTypeOK
  <2>3. QED
    BY <2>1, <2>2
<1>4. \A x \in Vertices : f[x] < 0 \/ f[x] > x
  <2> SUFFICES ASSUME NEW x \in Vertices PROVE f[x] < 0 \/ f[x] > x
    OBVIOUS
  <2>1. CASE Waits(x)
    <3>1. PICK d \in Edges : d = hooks[x]
      BY <1>1, <2>1
    <3>2. u[d] = x /\ place[d] = "link"
      BY <2>1, <3>1 DEF STInv, HookInv
    <3>3. u[d] < v[d] /\ f[x] = v[d]
      BY <2>1, <3>1, <3>2 DEF STInv, OrderInv, Ascends
    <3>4. v[d] \in Vertices
      BY Types DEF STInv
    <3>5. QED
      BY <3>2, <3>3, <3>4, NdSTAssumption DEF Vertices
  <2>2. CASE ~Waits(x)
    BY <2>2 DEF STInv, Acyclic, is_root
  <2>3. QED
    BY <2>1, <2>2
<1>5. PICK D \in SUBSET Vertices :
             /\ u[e] \in D /\ \A x \in D : x <= u[e]
             /\ \A x \in Vertices \ {u[e]} : f[x] < 0 \/ (x \in D <=> f[x] \in D)
  <2> HIDE DEF f
  <2>1. QED
    BY <1>2, <1>3, <1>4, Below
<1>6. ASSUME NEW x \in Vertices PROVE f[x] < 0 \/ (x \in D <=> f[x] \in D)
  <2>1. CASE x = u[e]
    <3>1. is_root(x)
      BY <2>1, <1>2 DEF STInv, HookInv
    <3>2. QED
      BY <2>1, <3>1 DEF is_root
  <2>2. CASE x # u[e]
    BY <1>5, <2>2
  <2>3. QED
    BY <2>1, <2>2
<1>7. Uncut(D)
  <2> SUFFICES ASSUME NEW x \in Vertices, ~is_root(x) PROVE x \in D <=> parents[x] \in D
    BY DEF Uncut
  <2>1. ~Waits(x)
    BY DEF STInv, HookInv
  <2>2. f[x] = parents[x]
    BY <2>1
  <2>3. ~(f[x] < 0)
    BY <2>2 DEF is_root
  <2>4. QED
    BY <1>6, <2>2, <2>3
<1>8. \A d \in Edges : (u[d] \in D <=> v[d] \in D) <=> SameSide(D, d)
  BY <1>7 DEF STInv, TreeInv, Together
<1>9. ASSUME NEW d \in stIdx PROVE Side(D, E[d])
  <2>1. PICK x \in Vertices : hooks[x] = d /\ d # m
    BY DEF stIdx
  <2>2. d \in Edges /\ place[d] \in {"link", "done"}
    BY <1>1, <2>1 DEF STInv, HookInv
  <2>3. CASE place[d] = "done"
    BY <1>7, <2>2, <2>3 DEF STInv, TreeInv, Together, SameSide, Side
  <2>4. CASE place[d] = "link"
    <3>1. u[d] = x /\ f[x] = v[d]
      BY <2>1, <2>4 DEF STInv, HookInv
    <3>2. v[d] \in Vertices
      BY <2>2, Types DEF STInv
    <3>3. ~(f[x] < 0)
      BY <3>1, <3>2, NdSTAssumption DEF Vertices
    <3>4. u[d] \in D <=> v[d] \in D
      BY <1>6, <3>1, <3>3
    <3>5. QED
      BY <1>8, <2>2, <3>4 DEF SameSide, Side
  <2>5. QED
    BY <2>2, <2>3, <2>4
<1>10. ~Side(D, E[e])
  <2>1. u[e] < v[e]
    BY DEF STInv, OrderInv, Ascends
  <2>2. v[e] \notin D
    BY <1>2, <1>5, <2>1, NdSTAssumption DEF Vertices
  <2>3. QED
    BY <1>5, <1>8, <2>2 DEF SameSide, Side
<1>11. QED
  BY <1>9, <1>10

LEMMA HookWon ==
  ASSUME STInv, STTypeOK', NEW e \in Edges, Hook(e), hooks[u[e]] = m
  PROVE  STInv'
<1>1. Edge(e) /\ parents' = parents /\ E' = E /\ place[e] = "hook"
      /\ u' = u /\ v' = v /\ hooks' = [hooks EXCEPT ![u[e]] = e]
  BY DEF Edge, Hook
<1>2. place'[e] = "link"
  BY DEF Hook, STInv, STTypeOK
<1>3. \A d \in Edges \ {e} : place'[d] = place[d]
  BY <1>1, OtherEdgesStay DEF STInv, Others
<1>4. u[e] \in Vertices /\ e # m
  BY Types DEF STInv
<1>5. /\ hooks'[u[e]] = e /\ \A x \in Vertices \ {u[e]} : hooks'[x] = hooks[x]
      /\ \A x \in Vertices : hooks[x] \in Edges \cup {m} /\ hooks[x] # e
  BY <1>1, <1>4 DEF STInv, STTypeOK, HookInv
<1>6. \A x : is_root(x)' <=> is_root(x)
  BY <1>1 DEF is_root
<1>7. Acyclic'
  BY <1>1, <1>6 DEF STInv, Acyclic
<1>8. Ascends(e)'
  <2>1. u[e] < v[e]
    BY <1>1 DEF STInv, OrderInv, Ascends
  <2>2. QED
    BY <1>1, <1>2, <2>1 DEF Ascends
<1>9. OrderInv'
  BY <1>1, <1>6, <1>8, EdgeStays DEF STInv, OrderInv
<1>10. HookInv'
  <2>1. is_root(u[e])
    BY <1>4 DEF STInv, HookInv
  <2>2. ASSUME NEW x \in Vertices
        PROVE  IF hooks'[x] = m THEN is_root(x)
               ELSE /\ place'[hooks'[x]] \in {"link", "done"}
                    /\ place'[hooks'[x]] = "link" => u[hooks'[x]] = x /\ is_root(x)
    <3>1. CASE x = u[e]
      BY <1>2, <1>4, <1>5, <2>1, <3>1
    <3>2. CASE x # u[e]
      BY <1>3, <1>5, <3>2 DEF STInv, HookInv
    <3>3. QED
      BY <3>1, <3>2
  <2>3. ASSUME NEW d \in Edges, place'[d] = "link" PROVE hooks'[u[d]] = d
    <3>1. CASE d = e
      BY <1>5, <3>1
    <3>2. CASE d # e
      <4>1. place[d] = "link" /\ hooks[u[d]] = d
        BY <1>3, <2>3, <3>2 DEF STInv, HookInv
      <4>2. d # m /\ u[d] \in Vertices
        BY Types DEF STInv
      <4>3. u[d] # u[e]
        BY <4>1, <4>2
      <4>4. QED
        BY <1>5, <4>1, <4>2, <4>3
    <3>3. QED
      BY <3>1, <3>2
  <2>4. QED
    BY <1>1, <1>6, <2>2, <2>3 DEF HookInv
<1>11. TreeInv'
  <2>1. ASSUME NEW S \in SUBSET Vertices, Uncut(S)'
        PROVE  Uncut(S)
    BY <1>1, <2>1 DEF Uncut, is_root
  <2>2. ASSUME NEW S \in SUBSET Vertices, Uncut(S), NEW d \in Edges
        PROVE  Together(S, d)'
    <3>1. CASE d = e
      <4>1. (u[e] \in S <=> v[e] \in S) <=> SameSide(S, e)
        BY <2>2 DEF STInv, TreeInv, Together
      <4>2. SameSide(S, e)' <=> SameSide(S, e)
        BY <1>1 DEF SameSide
      <4>3. QED
        BY <1>1, <1>2, <3>1, <4>1, <4>2 DEF Together
    <3>2. CASE d # e
      BY <1>1, <2>2, <3>2, EdgeStays DEF STInv, TreeInv
    <3>3. QED
      BY <3>1, <3>2
  <2>3. QED
    BY <2>1, <2>2 DEF TreeInv
<1>12. stIdx' = stIdx \cup {e} /\ e \notin stIdx /\ stIdx \subseteq Edges
  <2>1. e \notin stIdx /\ stIdx \subseteq Edges
    BY <1>5 DEF stIdx
  <2>2. ASSUME NEW d PROVE d \in stIdx' <=> d \in stIdx \cup {e}
    <3>1. d \in stIdx' <=> d # m /\ \E x \in Vertices : hooks'[x] = d
      BY DEF stIdx
    <3>2. d \in stIdx <=> d # m /\ \E x \in Vertices : hooks[x] = d
      BY DEF stIdx
    <3>3. QED
      BY <1>4, <1>5, <3>1, <3>2
  <2>3. QED
    BY <2>1, <2>2
<1>13. Linked' = Linked
  BY <1>2, <1>3, <1>12 DEF Linked
<1>14. TreesAreComponents'
  BY <1>1, <1>13, Meanings DEF STInv
<1>15. HooksAreForest'
  <2>1. PICK D \in SUBSET Vertices : (\A d \in stIdx : Side(D, E[d])) /\ ~Side(D, E[e])
    BY <1>1, HookSeparates
  <2>2. \A d \in stIdx \cup {e} : E[d].u \in Vertices /\ E[d].v \in Vertices
    BY <1>12, Types DEF STInv
  <2>3. Forest(stIdx, E)
    BY Meanings DEF STInv
  <2>4. Forest(stIdx \cup {e}, E)
    BY <1>12, <2>1, <2>2, <2>3, ForestGrows
  <2>5. QED
    BY <1>1, <1>12, <2>4, Meanings
<1>16. QED
  BY <1>7, <1>9, <1>10, <1>11, <1>14, <1>15 DEF STInv

(* The parent that a shortcut stores is in the same tree, above the vertex.*)
LEMMA ShortcutInv ==
  ASSUME STInv, STTypeOK', NEW e \in Edges, Shortcut(e)
  PROVE  STInv'
<1>1. Edge(e) /\ hooks' = hooks /\ E' = E /\ u' = u /\ v' = v /\ gp' = gp
      /\ place[e] \in {"shortcut u", "shortcut v"} /\ parents' = [parents EXCEPT ![i[e]] = gp[e]]
  BY DEF Edge, Shortcut
<1>2. \A d \in Edges \ {e} : place'[d] = place[d]
  BY <1>1, OtherEdgesStay DEF STInv, Others
<1>3. PICK w : w = IF Which(e) = "u" THEN "parent u" ELSE "parent v"
  OBVIOUS
<1>4. place'[e] = w /\ i'[e] = p[e] /\ p'[e] = gp[e]
  <2>1. LocalsTyped /\ place \in [Edges -> EdgePlaces]
    BY TypeParts DEF STInv
  <2>2. QED
    BY <1>3, <2>1 DEF Shortcut, LocalsTyped
<1>5. place'[e] \in {"parent u", "parent v"} /\ Start(e)' = Start(e)
  BY <1>1, <1>3, <1>4 DEF Start, Which
<1>6. /\ i[e] \in Vertices /\ p[e] \in Vertices /\ gp[e] \in Vertices
      /\ i[e] < p[e] /\ p[e] < gp[e] /\ ~is_root(i[e]) /\ ~is_root(p[e])
  <2>1. i[e] < p[e] /\ p[e] < gp[e] /\ ~is_root(i[e]) /\ ~is_root(p[e])
    BY <1>1 DEF STInv, OrderInv, Ascends
  <2>2. QED
    BY <2>1, Types DEF STInv
<1>7. gp[e] > i[e] /\ ~(gp[e] < 0)
  BY <1>6, NdSTAssumption DEF Vertices
<1>8. parents \in [Vertices -> Vertices \cup {-1}]
  BY DEF STInv, STTypeOK
<1>9. parents'[i[e]] = gp[e] /\ \A x \in Vertices \ {i[e]} : parents'[x] = parents[x]
  BY <1>1, <1>6, <1>8
<1>10. \A x \in Vertices : is_root(x)' <=> is_root(x)
  <2>1. ~(parents'[i[e]] < 0) /\ ~(parents[i[e]] < 0)
    BY <1>6, <1>7, <1>9 DEF is_root
  <2>2. ASSUME NEW x \in Vertices PROVE parents'[x] < 0 <=> parents[x] < 0
    BY <1>9, <2>1
  <2>3. QED
    BY <2>2 DEF is_root
<1>11. \A S \in SUBSET Vertices : Uncut(S)' <=> Uncut(S)
  <2> SUFFICES ASSUME NEW S \in SUBSET Vertices PROVE Uncut(S)' <=> Uncut(S)
    OBVIOUS
  <2>1. ASSUME NEW T \in SUBSET Vertices, UncutBy(T, parents)
        PROVE  i[e] \in T <=> gp[e] \in T
    <3>1. Together(T, e)
      BY <2>1, UncutMeans DEF STInv, TreeInv
    <3>2. QED
      BY <1>1, <3>1 DEF Together
  <2>2. \A x \in Vertices : parents[x] < 0 \/ parents[x] > x
    BY DEF STInv, Acyclic, is_root
  <2>3. ~(parents[i[e]] < 0)
    BY <1>6 DEF is_root
  <2>4. UncutBy(S, [parents EXCEPT ![i[e]] = gp[e]]) <=> UncutBy(S, parents)
    BY <1>6, <1>7, <1>8, <2>1, <2>2, <2>3, MovesWithinTree
  <2>5. QED
    BY <1>1, <2>4, UncutMeans
<1>12. Acyclic'
  <2>1. ASSUME NEW x \in Vertices PROVE is_root(x)' \/ parents'[x] > x
    BY <1>7, <1>9, <1>10 DEF STInv, Acyclic
  <2>2. QED
    BY <2>1 DEF Acyclic
<1>13. Ascends(e)'
  <2>1. i'[e] < p'[e]
    BY <1>4, <1>6
  <2>2. \A x \in Vertices : ~is_root(x) => ~(parents'[x] < 0)
    BY <1>10 DEF is_root
  <2>3. ~(parents'[i'[e]] < 0)
    BY <1>4, <1>6, <2>2
  <2>4. QED
    BY <1>5, <2>1, <2>3 DEF Ascends, is_root
<1>14. OrderInv'
  BY <1>1, <1>10, <1>13, EdgeStays DEF STInv, OrderInv
<1>15. \A x \in Vertices : hooks[x] \in Edges \cup {m} /\ hooks[x] # e
  <2>1. e # m
    BY Types DEF STInv
  <2>2. \A x \in Vertices : hooks[x] # m => hooks[x] # e
    BY <1>1 DEF STInv, HookInv
  <2>3. QED
    BY <2>1, <2>2 DEF STInv, STTypeOK
<1>16. HookInv'
  <2>1. ASSUME NEW x \in Vertices
        PROVE  IF hooks[x] = m THEN is_root(x)'
               ELSE /\ place'[hooks[x]] \in {"link", "done"}
                    /\ place'[hooks[x]] = "link" => u[hooks[x]] = x /\ is_root(x)'
    BY <1>2, <1>10, <1>15 DEF STInv, HookInv
  <2>2. ASSUME NEW d \in Edges, place'[d] = "link" PROVE hooks[u[d]] = d
    BY <1>2, <1>5, <2>2 DEF STInv, HookInv
  <2>3. QED
    BY <1>1, <2>1, <2>2 DEF HookInv
<1>17. TreeInv'
  <2>1. ASSUME NEW S \in SUBSET Vertices, Uncut(S), NEW d \in Edges
        PROVE  Together(S, d)'
    <3>1. CASE d = e
      <4>1. Together(S, e)
        BY <2>1 DEF STInv, TreeInv
      <4>2. SameSide(S, e)' <=> SameSide(S, e)
        BY <1>1 DEF SameSide
      <4>3. (u[e] \in S <=> v[e] \in S) <=> SameSide(S, e)
        BY <4>1 DEF Together
      <4>4. (p[e] \in S <=> Start(e) \in S) /\ (gp[e] \in S <=> Start(e) \in S)
        BY <1>1, <4>1 DEF Together
      <4>5. QED
        BY <1>1, <1>4, <1>5, <3>1, <4>2, <4>3, <4>4 DEF Together
    <3>2. CASE d # e
      BY <1>1, <2>1, <3>2, EdgeStays DEF STInv, TreeInv
    <3>3. QED
      BY <3>1, <3>2
  <2>2. QED
    BY <1>11, <2>1 DEF TreeInv
<1>18. stIdx' = stIdx /\ e \notin stIdx /\ stIdx \subseteq Edges
  BY <1>1, <1>15 DEF stIdx
<1>19. Linked' = Linked
  BY <1>2, <1>18 DEF Linked
<1>20. TreesAreComponents'
  <2>1. \A S \in SUBSET Vertices : UncutBy(S, parents') <=> UncutBy(S, parents)
    BY <1>11, UncutMeans
  <2>2. Joined(parents, Linked, E)
    BY Meanings DEF STInv
  <2>3. Joined(parents', Linked, E)
    BY <2>1, <2>2 DEF Joined
  <2>4. QED
    BY <1>1, <1>19, <2>3, Meanings
<1>21. HooksAreForest'
  BY <1>1, <1>18, Meanings DEF STInv
<1>22. QED
  BY <1>12, <1>14, <1>16, <1>17, <1>20, <1>21 DEF STInv

(* The link joins the trees of the ends of the edge.                       *)
LEMMA LinkInv ==
  ASSUME STInv, STTypeOK', NEW e \in Edges, link(e)
  PROVE  STInv'
<1>1. Edge(e) /\ hooks' = hooks /\ E' = E /\ u' = u /\ v' = v
      /\ place[e] = "link" /\ parents' = [parents EXCEPT ![u[e]] = v[e]]
  BY DEF Edge, link, locals
<1>2. place'[e] = "done" /\ \A d \in Edges \ {e} : place'[d] = place[d]
  BY <1>1, OtherEdgesStay DEF STInv, STTypeOK, link, Others
<1>3. u[e] \in Vertices /\ v[e] \in Vertices /\ e # m
  BY Types DEF STInv
<1>4. u[e] < v[e]
  BY <1>1 DEF STInv, OrderInv, Ascends
<1>5. v[e] > u[e] /\ ~(v[e] < 0)
  BY <1>3, <1>4, NdSTAssumption DEF Vertices
<1>6. hooks[u[e]] = e
  BY <1>1 DEF STInv, HookInv
<1>7. is_root(u[e])
  BY <1>1, <1>3, <1>6 DEF STInv, HookInv
<1>8. parents \in [Vertices -> Vertices \cup {-1}]
  BY DEF STInv, STTypeOK
<1>9. parents'[u[e]] = v[e] /\ \A x \in Vertices \ {u[e]} : parents'[x] = parents[x]
  BY <1>1, <1>3, <1>8
<1>10. \A x \in Vertices : is_root(x)' <=> is_root(x) /\ x # u[e]
  BY <1>5, <1>9 DEF is_root
<1>11. ASSUME NEW S PROVE Uncut(S)' <=> Uncut(S) /\ (u[e] \in S <=> v[e] \in S)
  <2>1. Uncut(S)' <=> \A x \in Vertices : is_root(x)' \/ (x \in S <=> parents'[x] \in S)
    BY DEF Uncut
  <2>2. Uncut(S) <=> \A x \in Vertices \ {u[e]} : is_root(x) \/ (x \in S <=> parents[x] \in S)
    BY <1>7 DEF Uncut
  <2>3. QED
    BY <1>3, <1>9, <1>10, <2>1, <2>2
<1>12. Acyclic'
  <2>1. ASSUME NEW x \in Vertices PROVE is_root(x)' \/ parents'[x] > x
    BY <1>5, <1>9, <1>10 DEF STInv, Acyclic
  <2>2. QED
    BY <2>1 DEF Acyclic
<1>13. OrderInv'
  <2>1. Ascends(e)'
    BY <1>2 DEF Ascends
  <2>2. QED
    BY <1>1, <1>10, <2>1, EdgeStays DEF STInv, OrderInv
<1>14. HookInv'
  <2>1. ASSUME NEW x \in Vertices
        PROVE  IF hooks[x] = m THEN is_root(x)'
               ELSE /\ place'[hooks[x]] \in {"link", "done"}
                    /\ place'[hooks[x]] = "link" => u[hooks[x]] = x /\ is_root(x)'
    <3>1. CASE x = u[e]
      BY <1>2, <1>3, <1>6, <3>1
    <3>2. CASE x # u[e]
      <4>1. hooks[x] \in Edges \cup {m}
        BY DEF STInv, STTypeOK
      <4>2. hooks[x] # e
        BY <1>1, <1>3, <3>2 DEF STInv, HookInv
      <4>3. QED
        BY <1>2, <1>10, <3>2, <4>1, <4>2 DEF STInv, HookInv
    <3>3. QED
      BY <3>1, <3>2
  <2>2. ASSUME NEW d \in Edges, place'[d] = "link" PROVE hooks[u[d]] = d
    BY <1>2, <2>2 DEF STInv, HookInv
  <2>3. QED
    BY <1>1, <2>1, <2>2 DEF HookInv
<1>15. ASSUME NEW S \in SUBSET Vertices, Uncut(S)
       PROVE  (u[e] \in S <=> v[e] \in S) <=> SameSide(S, e)
  BY <1>15 DEF STInv, TreeInv, Together
<1>16. TreeInv'
  <2>1. ASSUME NEW S \in SUBSET Vertices, Uncut(S)', NEW d \in Edges
        PROVE  Together(S, d)'
    <3>0. Uncut(S) /\ (u[e] \in S <=> v[e] \in S)
      BY <1>11, <2>1
    <3>1. CASE d = e
      <4>1. SameSide(S, e)' /\ SameSide(S, e)
        BY <1>1, <1>15, <3>0 DEF SameSide
      <4>2. QED
        BY <1>1, <1>2, <3>0, <3>1, <4>1 DEF Together
    <3>2. CASE d # e
      BY <1>1, <3>0, <3>2, EdgeStays DEF STInv, TreeInv
    <3>3. QED
      BY <3>1, <3>2
  <2>2. QED
    BY <2>1 DEF TreeInv
<1>17. stIdx' = stIdx
  BY <1>1 DEF stIdx
<1>18. e \in stIdx /\ stIdx \subseteq Edges
  <2>1. \A x \in Vertices : hooks[x] \in Edges \cup {m}
    BY DEF STInv, STTypeOK
  <2>2. QED
    BY <1>3, <1>6, <2>1 DEF stIdx
<1>19. Linked' = Linked \cup {e}
  BY <1>2, <1>17, <1>18 DEF Linked
<1>20. TreesAreComponents'
  <2>1. Joined(parents, Linked, E)
    BY Meanings DEF STInv
  <2>2. ASSUME NEW S \in SUBSET Vertices
        PROVE  UncutBy(S, parents') <=> \A d \in Linked \cup {e} : Side(S, E[d])
    <3>1. UncutBy(S, parents') <=> UncutBy(S, parents) /\ (u[e] \in S <=> v[e] \in S)
      BY <1>11, UncutMeans
    <3>2. UncutBy(S, parents) => ((u[e] \in S <=> v[e] \in S) <=> Side(S, E[e]))
      BY <1>15, UncutMeans DEF SameSide, Side
    <3>3. UncutBy(S, parents) <=> \A d \in Linked : Side(S, E[d])
      BY <2>1 DEF Joined
    <3>4. QED
      BY <3>1, <3>2, <3>3
  <2>3. Joined(parents', Linked \cup {e}, E)
    BY <2>2 DEF Joined
  <2>4. QED
    BY <1>1, <1>19, <2>3, Meanings
<1>21. HooksAreForest'
  BY <1>1, <1>17, Meanings DEF STInv
<1>22. QED
  BY <1>12, <1>13, <1>14, <1>16, <1>20, <1>21 DEF STInv

(* --------------------------- The theorems ------------------------------ *)

LEMMA InitInv == STInit => STInv
<1> SUFFICES ASSUME STInit PROVE STInv
  OBVIOUS
<1>1. STTypeOK
  BY TypeInit
<1>2. \A e \in Edges : place[e] = "find u"
  BY DEF STInit
<1>3. \A x \in Vertices : is_root(x) /\ hooks[x] = m
  <2>1. -1 < 0
    OBVIOUS
  <2>2. \A x \in Vertices : parents[x] = -1 /\ hooks[x] = m
    BY DEF STInit
  <2>3. QED
    BY <2>1, <2>2 DEF is_root
<1>4. Acyclic
  BY <1>3 DEF Acyclic
<1>5. OrderInv
  BY <1>2 DEF OrderInv, Ascends
<1>6. HookInv
  BY <1>2, <1>3 DEF HookInv
<1>7. TreeInv
  BY <1>2 DEF STInit, TreeInv, Together, SameSide, Start, Which
<1>8. stIdx = {} /\ Linked = {}
  BY <1>3 DEF stIdx, Linked
<1>9. Joined(parents, Linked, E) /\ Forest(stIdx, E)
  BY <1>3, <1>8 DEF Joined, Forest, UncutBy, is_root
<1>10. QED
  BY <1>1, <1>4, <1>5, <1>6, <1>7, <1>9, Meanings DEF STInv

LEMMA StepInv == STInv /\ [STNext]_stVars => STInv'
<1> SUFFICES ASSUME STInv, [STNext]_stVars PROVE STInv'
  OBVIOUS
<1>1. STTypeOK'
  BY EdgeTypeStep DEF STInv
<1>2. CASE UNCHANGED stVars
  <2>1. /\ E' = E /\ parents' = parents /\ hooks' = hooks /\ place' = place
        /\ u' = u /\ v' = v /\ i' = i /\ p' = p /\ gp' = gp
    BY <1>2 DEF stVars, locals
  <2>2. Acyclic'
    BY <2>1 DEF STInv, Acyclic, is_root
  <2>3. OrderInv'
    BY <2>1 DEF STInv, OrderInv, Ascends, is_root
  <2>4. HookInv'
    BY <2>1 DEF STInv, HookInv, is_root
  <2>5. TreeInv'
    <3>1. ASSUME NEW S, NEW e \in Edges PROVE Together(S, e)' <=> Together(S, e)
      BY <2>1 DEF Together, SameSide, Start, Which
    <3>2. ASSUME NEW S PROVE Uncut(S)' <=> Uncut(S)
      BY <2>1 DEF Uncut, is_root
    <3>3. QED
      BY <3>1, <3>2 DEF STInv, TreeInv
  <2>6. TreesAreComponents' /\ HooksAreForest'
    BY <2>1, Meanings DEF STInv, Linked, stIdx
  <2>7. QED
    BY <1>1, <2>2, <2>3, <2>4, <2>5, <2>6 DEF STInv
<1>3. ASSUME NEW e \in Edges, Edge(e) PROVE STInv'
  BY <1>1, <1>3, FindFirstInv, FindParentInv, ShortcutInv, BreakInv, CompareInv,
     HookLost, HookWon, LinkInv DEF Edge
<1>4. QED
  BY <1>2, <1>3 DEF STNext, STStopped

(* The inductive invariant.                                                *)
THEOREM ForestInvariance == STSpec => []STInv
BY InitInv, StepInv, PTL DEF STSpec

(* All variables keep their types.                                         *)
THEOREM ForestTypeCorrect == STSpec => []STTypeOK
<1>1. STInv => STTypeOK
  BY DEF STInv
<1>2. QED
  BY <1>1, ForestInvariance, PTL

(* The parents never form a cycle, and their trees are the components of   *)
(* the edges linked so far.                                                *)
THEOREM UnionFindCorrect == STSpec => []UnionFindIsSound
<1>1. STInv => UnionFindIsSound
  BY DEF STInv, UnionFindIsSound
<1>2. QED
  BY <1>1, ForestInvariance, PTL

(* The hooked edges are a forest, and in the end one that spans the graph. *)
THEOREM SpanningForestCorrect == STSpec => []HooksSpan
<1>1. ASSUME STInv, STDone PROVE SpansGraph
  <2>1. \A x \in Vertices : hooks[x] \in Edges \cup {m}
    BY <1>1 DEF STInv, STTypeOK
  <2>2. stIdx \subseteq Edges /\ Linked = stIdx
    BY <1>1, <2>1 DEF stIdx, Linked, STDone
  <2>3. Joined(parents, stIdx, E)
    BY <1>1, <2>2, Meanings DEF STInv
  <2>4. ASSUME NEW S \in SUBSET Vertices
        PROVE  (\A d \in stIdx : Side(S, E[d])) <=> (\A d \in Edges : Side(S, E[d]))
    <3>1. ASSUME \A d \in stIdx : Side(S, E[d]) PROVE \A d \in Edges : Side(S, E[d])
      <4>1. Uncut(S)
        BY <2>3, <3>1, UncutMeans DEF Joined
      <4>2. QED
        BY <1>1, <4>1 DEF STInv, TreeInv, Together, STDone, SameSide, Side
    <3>2. QED
      BY <2>2, <3>1
  <2>5. Ends(stIdx) = EndsIn(stIdx, E) /\ Ends(Edges) = EndsIn(Edges, E)
    BY DEF Ends, EndsIn
  <2>6. SameComponents(Ends(stIdx), Ends(Edges))
    BY <2>4, <2>5, EndsClosed DEF SameComponents
  <2>7. QED
    BY <2>6 DEF SpansGraph
<1>2. STInv => HooksSpan
  BY <1>1 DEF STInv, HooksSpan, SpansGraph
<1>3. QED
  BY <1>2, ForestInvariance, PTL
=============================================================================
