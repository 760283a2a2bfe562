------------------------ MODULE SpeculativeForProofs -------------------------
(***************************************************************************)
(* speculative_for, for every range, granularity and number of tries and   *)
(* whatever the steps do: each iteration is completed exactly once, the    *)
(* rounds fit into their arrays, and what is carried over keeps its order. *)
(***************************************************************************)
EXTENDS SpeculativeFor, FiniteSetTheorems, WellFoundedInduction, TLAPS

USE SpeculativeForAssumption

(* ----------------------------- pack ------------------------------------ *)

LEMMA SmallestNat ==
    ASSUME NEW S, S \subseteq Nat, S # {}
    PROVE  \E a \in S : \A b \in S : ~ (b < a)
<1>1. \E a \in S : \A b \in S : ~ (<<b, a>> \in OpToRel(<, Nat))
  BY NatLessThanWellFounded, WFMin
<1>2. QED
  BY <1>1 DEF OpToRel

(* The elements of K below k, and their number.                            *)
Below(K, k)  == {l \in K : l < k}
Number(K, k) == Cardinality(Below(K, k))

LEMMA NumberType ==
    ASSUME NEW K, IsFiniteSet(K), NEW k
    PROVE  IsFiniteSet(Below(K, k)) /\ Number(K, k) \in Nat /\ Number(K, k) <= Cardinality(K)
<1>1. Below(K, k) \in SUBSET K
  BY DEF Below
<1>2. QED
  BY <1>1, FS_Subset, FS_CardinalityType DEF Number

LEMMA NumberGrows ==
    ASSUME NEW K \in SUBSET Nat, IsFiniteSet(K), NEW k \in K, NEW m \in Nat, k < m
    PROVE  Number(K, k) < Number(K, m)
<1>1. Below(K, k) \cup {k} \in SUBSET Below(K, m) /\ k \notin Below(K, k)
  <2>1. k \in Nat /\ \A l \in K : l \in Nat /\ (l < k => l < m) /\ ~ (k < k)
    OBVIOUS
  <2>2. QED
    BY <2>1 DEF Below
<1>2. Cardinality(Below(K, k) \cup {k}) = Number(K, k) + 1
  BY <1>1, NumberType, FS_AddElement DEF Number
<1>3. Cardinality(Below(K, k) \cup {k}) <= Number(K, m)
  BY <1>1, NumberType, FS_Subset DEF Number
<1>4. Number(K, k) \in Nat /\ Number(K, m) \in Nat
  BY NumberType
<1>5. QED
  BY <1>2, <1>3, <1>4

LEMMA NumberBelow ==
    ASSUME NEW K \in SUBSET Nat, IsFiniteSet(K), NEW k \in K
    PROVE  Number(K, k) < Cardinality(K)
<1>1. Below(K, k) \cup {k} \in SUBSET K /\ k \notin Below(K, k)
  BY DEF Below
<1>2. Cardinality(Below(K, k) \cup {k}) = Number(K, k) + 1
  BY <1>1, NumberType, FS_AddElement DEF Number
<1>3. Cardinality(Below(K, k) \cup {k}) <= Cardinality(K)
  BY <1>1, FS_Subset
<1>4. Number(K, k) \in Nat /\ Cardinality(K) \in Nat
  BY NumberType, FS_CardinalityType
<1>5. QED
  BY <1>2, <1>3, <1>4

(* Each number is that of an element.                                      *)
LEMMA NumberOnto ==
    ASSUME NEW K, NEW n \in Nat, K \in SUBSET (0..n - 1), IsFiniteSet(K),
           NEW j \in Nat, j < Cardinality(K)
    PROVE  \E k \in K : Number(K, k) = j
<1> DEFINE S == {m \in Nat : j < Number(K, m)}
<1>1. n \in S
  <2>1. \A l \in K : l < n
    OBVIOUS
  <2>2. Below(K, n) = K
    BY <2>1 DEF Below
  <2>3. QED
    BY <2>2 DEF Number
<1>2. PICK m \in S : \A b \in S : ~ (b < m)
  BY <1>1, SmallestNat
<1>3. m \in Nat /\ j < Number(K, m)
  BY <1>2
<1>4. m # 0
  <2>1. \A l \in K : ~ (l < 0)
    OBVIOUS
  <2>2. Below(K, 0) = {}
    BY <2>1 DEF Below
  <2>3. Number(K, 0) = 0
    BY <2>2, FS_EmptySet DEF Number
  <2>4. QED
    BY <1>3, <2>3
<1> DEFINE k == m - 1
<1>5. k \in Nat /\ k < m
  BY <1>3, <1>4
<1>6. ~ (j < Number(K, k))
  BY <1>2, <1>5
<1>7. Below(K, m) = IF k \in K THEN Below(K, k) \cup {k} ELSE Below(K, k)
  <2>1. \A l \in K : l < m <=> l < k \/ l = k
    BY <1>3
  <2>2. QED
    BY <2>1 DEF Below
<1>8. Number(K, k) \in Nat /\ Number(K, m) \in Nat
  BY NumberType
<1>9. k \in K
  BY <1>3, <1>6, <1>7 DEF Number
<1>10. Number(K, m) = Number(K, k) + 1
  <2>1. k \notin Below(K, k)
    BY <1>5 DEF Below
  <2>2. Cardinality(Below(K, k) \cup {k}) = Number(K, k) + 1
    BY <2>1, NumberType, FS_AddElement DEF Number
  <2>3. QED
    BY <1>7, <1>9, <2>2 DEF Number
<1>11. Number(K, k) = j
  BY <1>3, <1>6, <1>8, <1>10
<1>12. QED
  BY <1>9, <1>11

(* The slots that are kept.                                                *)
LEMMA KeptFinite ==
    ASSUME size \in Nat
    PROVE  /\ Kept \in SUBSET (0..size - 1) /\ Kept \in SUBSET Nat /\ IsFiniteSet(Kept)
           /\ Cardinality(Kept) \in Nat /\ Cardinality(Kept) <= size
<1>1. Kept \in SUBSET (0..size - 1)
  BY DEF Kept, Running
<1>2. IsFiniteSet(0..size - 1) /\ Cardinality(0..size - 1) = size
  BY FS_Interval
<1>3. IsFiniteSet(Kept) /\ Cardinality(Kept) <= Cardinality(0..size - 1)
  BY <1>1, <1>2, FS_Subset
<1>4. Cardinality(Kept) \in Nat
  BY <1>3, FS_CardinalityType
<1>5. 0..size - 1 \in SUBSET Nat
  OBVIOUS
<1>6. QED
  BY <1>1, <1>2, <1>3, <1>4, <1>5

(* The slot that gives the j-th element of Packed.                         *)
SlotOf(j) == CHOOSE k \in Kept : Rank(k) = j - 1

LEMMA SlotsInOrder ==
    ASSUME size \in Nat
    PROVE  /\ \A j \in 1..Cardinality(Kept) : SlotOf(j) \in Kept
           /\ \A j, l \in 1..Cardinality(Kept) : j < l => SlotOf(j) < SlotOf(l)
           /\ \A k \in Kept : \E j \in 1..Cardinality(Kept) : SlotOf(j) = k
<1>1. /\ Kept \in SUBSET (0..size - 1) /\ Kept \in SUBSET Nat /\ IsFiniteSet(Kept)
      /\ Cardinality(Kept) \in Nat
  BY KeptFinite
<1>2. \A k : Rank(k) = Number(Kept, k)
  BY DEF Rank, Number, Below
<1>3. \A j \in 1..Cardinality(Kept) : SlotOf(j) \in Kept /\ Rank(SlotOf(j)) = j - 1
  <2> SUFFICES ASSUME NEW j \in 1..Cardinality(Kept)
               PROVE  SlotOf(j) \in Kept /\ Rank(SlotOf(j)) = j - 1
    OBVIOUS
  <2>1. j - 1 \in Nat /\ j - 1 < Cardinality(Kept)
    BY <1>1
  <2>2. \E k \in Kept : Number(Kept, k) = j - 1
    BY <1>1, <2>1, NumberOnto
  <2>3. QED
    BY <1>2, <2>2 DEF SlotOf
<1>4. \A k, m \in Kept : k < m => Rank(k) < Rank(m)
  BY <1>1, <1>2, NumberGrows
<1>5. \A k \in Kept : Rank(k) \in Nat /\ Rank(k) < Cardinality(Kept)
  BY <1>1, <1>2, NumberType, NumberBelow
<1>6. ASSUME NEW j \in 1..Cardinality(Kept), NEW l \in 1..Cardinality(Kept), j < l
      PROVE  SlotOf(j) < SlotOf(l)
  <2>1. SlotOf(j) \in Kept /\ SlotOf(l) \in Kept /\ Rank(SlotOf(j)) = j - 1 /\ Rank(SlotOf(l)) = l - 1
    BY <1>3
  <2>2. SlotOf(j) \in Nat /\ SlotOf(l) \in Nat
    BY <1>1, <2>1
  <2>3. CASE SlotOf(l) < SlotOf(j)
    <3>1. l - 1 < j - 1
      BY <1>4, <2>1, <2>3
    <3>2. QED
      BY <1>6, <3>1
  <2>4. CASE SlotOf(l) = SlotOf(j)
    <3>1. l - 1 = j - 1
      BY <2>1, <2>4
    <3>2. QED
      BY <1>6, <3>1
  <2>5. QED
    BY <2>2, <2>3, <2>4
<1>7. ASSUME NEW k \in Kept PROVE \E j \in 1..Cardinality(Kept) : SlotOf(j) = k
  <2> DEFINE j == Rank(k) + 1
  <2>1. j \in 1..Cardinality(Kept) /\ j - 1 = Rank(k)
    BY <1>1, <1>5
  <2>2. SlotOf(j) \in Kept /\ Rank(SlotOf(j)) = Rank(k)
    BY <1>3, <2>1
  <2>3. k \in Nat /\ SlotOf(j) \in Nat
    BY <1>1, <2>2
  <2> Rank(k) \in Nat => ~ (Rank(k) < Rank(k))
    OBVIOUS
  <2>4. ~ (SlotOf(j) < k) /\ ~ (k < SlotOf(j))
    BY <1>4, <1>5, <2>2
  <2>5. QED
    BY <2>1, <2>3, <2>4
<1>8. QED
  BY <1>3, <1>6, <1>7

LEMMA PackedIs ==
    ASSUME size \in Nat, NEW S, \A k \in Kept : I[k] \in S
    PROVE  /\ Packed \in Seq(S) /\ Len(Packed) = Cardinality(Kept) /\ Len(Packed) <= size
           /\ Len(Packed) \in Nat
           /\ \A j \in 1..Len(Packed) : SlotOf(j) \in Kept /\ Packed[j] = I[SlotOf(j)]
<1>1. Cardinality(Kept) \in Nat /\ Cardinality(Kept) <= size
  BY KeptFinite
<1>2. \A j \in 1..Cardinality(Kept) : SlotOf(j) \in Kept
  BY SlotsInOrder
<1>3. Packed = [j \in 1..Cardinality(Kept) |-> I[SlotOf(j)]]
  BY DEF Packed, SlotOf
<1> DEFINE n == Cardinality(Kept)
<1> HIDE DEF n
<1>4. n \in Nat /\ Packed = [j \in 1..n |-> I[SlotOf(j)]] /\ \A j \in 1..n : I[SlotOf(j)] \in S
  BY <1>1, <1>2, <1>3 DEF n
<1>5. Packed \in Seq(S) /\ Len(Packed) = n
  BY <1>4
<1>6. QED
  BY <1>1, <1>2, <1>4, <1>5 DEF n
(* --------------------------- The rounds -------------------------------- *)

LEMMA Sizes ==
    /\ maxRoundSize \in Nat /\ 0 < maxRoundSize
    /\ maxRoundSize \div 4 \in 0..maxRoundSize
    /\ maxRoundSize \div 64 + 1 \in 1..maxRoundSize
    /\ maxTries \in Nat
<1>1. maxRoundSize \in Nat /\ 0 < maxRoundSize
  <2>1. e - s \in Nat /\ Granularity \in Nat /\ 0 < Granularity
    OBVIOUS
  <2>2. (e - s) \div Granularity \in Nat
    BY <2>1
  <2>3. QED
    BY <2>2 DEF maxRoundSize
<1> DEFINE m == maxRoundSize
<1> HIDE DEF m
<1>2. m \in Nat /\ 0 < m
  BY <1>1 DEF m
<1>3. m \div 4 \in 0..m
  BY <1>2
<1>4. m \div 64 + 1 \in 1..m
  BY <1>2
<1>5. maxTries \in Nat
  BY DEF maxTries
<1>6. QED
  BY <1>1, <1>3, <1>4, <1>5 DEF m

LEMMA NextRound ==
    ASSUME size \in Nat, currentRoundSize \in 0..maxRoundSize, size <= currentRoundSize,
           NEW n \in Nat, n <= size
    PROVE  NextRoundSize(n) \in 0..maxRoundSize /\ n <= NextRoundSize(n)
<1> DEFINE m == maxRoundSize
           c == currentRoundSize
<1> HIDE DEF m, c
<1>1. m \in Nat /\ m \div 64 + 1 \in 1..m /\ c \in 0..m /\ size <= c
  BY Sizes DEF m, c
<1>2. c \div 2 \in 0..m
  BY <1>1
<1>3. n <= c /\ n <= m
  BY <1>1
<1>4. MaxOf(c \div 2, MaxOf(m \div 64 + 1, n)) \in 0..m /\ n <= MaxOf(c \div 2, MaxOf(m \div 64 + 1, n))
  BY <1>1, <1>2, <1>3 DEF MaxOf
<1>5. MinOf(c * 2, m) \in 0..m /\ n <= MinOf(c * 2, m)
  BY <1>1, <1>3 DEF MinOf
<1>6. NextRoundSize(n) \in {MaxOf(c \div 2, MaxOf(m \div 64 + 1, n)), MinOf(c * 2, m), c}
  BY DEF NextRoundSize, m, c
<1>7. QED
  BY <1>1, <1>3, <1>4, <1>5, <1>6 DEF m
LEMMA Ranges ==
    ASSUME TypeOK
    PROVE  /\ numberDone \in Nat /\ s <= numberDone /\ numberDone <= e
           /\ numberKeep \in Nat /\ numberKeep <= maxRoundSize
           /\ size \in Nat /\ size <= maxRoundSize /\ currentRoundSize \in 0..maxRoundSize
           /\ Ihold \in Seq(Iterations) /\ Len(Ihold) = numberKeep
           /\ \A j \in 1..numberKeep : Ihold[j] \in Iterations
           /\ Running \subseteq Slots /\ Iterations \subseteq s..e /\ Iterations \subseteq Nat
<1>1. numberDone \in s..e /\ numberKeep \in 0..maxRoundSize /\ size \in 0..maxRoundSize
      /\ currentRoundSize \in 0..maxRoundSize
  BY DEF TypeOK
<1>2. Ihold \in Seq(Iterations) /\ Len(Ihold) = numberKeep
  BY DEF TypeOK
<1>3. \A j \in 1..numberKeep : Ihold[j] \in Iterations
  BY <1>2
<1>4. numberDone \in Nat /\ s <= numberDone /\ numberDone <= e
  BY <1>1
<1>5. numberKeep \in Nat /\ numberKeep <= maxRoundSize /\ size \in Nat /\ size <= maxRoundSize
  BY <1>1, Sizes
<1>6. Running \subseteq Slots
  BY <1>5, Sizes DEF Running, Slots
<1>7. Iterations \subseteq s..e /\ Iterations \subseteq Nat
  BY DEF Iterations
<1>8. QED
  BY <1>1, <1>2, <1>3, <1>4, <1>5, <1>6, <1>7

(* The iterations of a round of n slots are in the range, and in order.    *)
LEMMA RoundIterations ==
    ASSUME TypeOK, DriverInv, NEW n \in Nat, numberKeep <= n, numberDone + n <= e
    PROVE  /\ \A k \in 0..n - 1 :
                /\ Iteration(k) \in Iterations /\ Iteration(k) < numberDone + n
                /\ k < numberKeep => k + 1 \in 1..numberKeep /\ Iteration(k) = Ihold[k + 1]
                /\ ~(k < numberKeep) => Iteration(k) = numberDone + k
           /\ \A k, l \in 0..n - 1 : k < l => Iteration(k) < Iteration(l)
           /\ \A k, l \in 0..n - 1 : Iteration(k) = Iteration(l) => k = l
<1>1. /\ numberDone \in Nat /\ s <= numberDone /\ numberKeep \in Nat
      /\ \A j \in 1..numberKeep : Ihold[j] \in Iterations
  BY Ranges
<1>2. ASSUME NEW k \in 0..n - 1
      PROVE  /\ Iteration(k) \in Iterations /\ Iteration(k) < numberDone + n
             /\ k < numberKeep => /\ k + 1 \in 1..numberKeep /\ Iteration(k) = Ihold[k + 1]
                                  /\ Iteration(k) < numberDone + numberKeep
             /\ ~(k < numberKeep) => Iteration(k) = numberDone + k
  <2>1. k \in Nat /\ k < n
    OBVIOUS
  <2>2. CASE k < numberKeep
    <3>1. k + 1 \in 1..numberKeep
      BY <1>1, <2>1, <2>2
    <3>2. Ihold[k + 1] \in Iterations /\ Ihold[k + 1] < numberDone + numberKeep
      BY <1>1, <3>1 DEF DriverInv
    <3>3. Ihold[k + 1] \in Int
      BY <3>2 DEF Iterations
    <3>4. Ihold[k + 1] < numberDone + n
      BY <1>1, <3>2, <3>3
    <3>5. QED
      BY <2>2, <3>1, <3>2, <3>4 DEF Iteration
  <2>3. CASE ~(k < numberKeep)
    <3>1. Iteration(k) = numberDone + k
      BY <2>3 DEF Iteration
    <3>2. numberDone + k < numberDone + n /\ s <= numberDone + k /\ numberDone + k <= e - 1
      BY <1>1, <2>1
    <3>3. numberDone + k \in Iterations
      BY <1>1, <2>1, <3>2 DEF Iterations
    <3>4. QED
      BY <2>3, <3>1, <3>2, <3>3
  <2>4. QED
    BY <2>2, <2>3
<1>3. ASSUME NEW k \in 0..n - 1, NEW l \in 0..n - 1, k < l PROVE Iteration(k) < Iteration(l)
  <2>1. k \in Nat /\ l \in Nat
    OBVIOUS
  <2>2. Iteration(k) \in Int /\ Iteration(l) \in Int
    BY <1>2 DEF Iterations
  <2>3. CASE l < numberKeep
    <3>1. k + 1 \in 1..numberKeep /\ l + 1 \in 1..numberKeep /\ k + 1 < l + 1
      BY <1>1, <1>3, <2>1, <2>3
    <3>2. Ihold[k + 1] < Ihold[l + 1]
      BY <3>1 DEF DriverInv
    <3>3. k < numberKeep
      BY <1>1, <1>3, <2>1, <2>3
    <3>4. QED
      BY <1>2, <2>3, <3>2, <3>3
  <2>4. CASE ~(l < numberKeep) /\ k < numberKeep
    <3>1. Iteration(k) < numberDone + numberKeep /\ Iteration(l) = numberDone + l
      BY <1>2, <2>4
    <3>2. QED
      BY <1>1, <2>1, <2>2, <2>4, <3>1
  <2>5. CASE ~(l < numberKeep) /\ ~(k < numberKeep)
    <3>1. Iteration(k) = numberDone + k /\ Iteration(l) = numberDone + l
      BY <1>2, <2>5
    <3>2. QED
      BY <1>1, <1>3, <2>1, <3>1
  <2>6. QED
    BY <2>3, <2>4, <2>5
<1>4. ASSUME NEW k \in 0..n - 1, NEW l \in 0..n - 1, Iteration(k) = Iteration(l) PROVE k = l
  <2>1. k \in Nat /\ l \in Nat /\ Iteration(k) \in Int
    BY <1>2 DEF Iterations
  <2>2. ~ (k < l)
    BY <1>3, <1>4, <2>1
  <2>3. ~ (l < k)
    BY <1>3, <1>4, <2>1
  <2>4. QED
    BY <2>1, <2>2, <2>3
<1>5. QED
  BY <1>2, <1>3, <1>4

(* In a round.                                                             *)
LEMMA InRoundIterations ==
    ASSUME TypeOK, DriverInv, InRound
    PROVE  /\ \A k \in Running : Iteration(k) \in Iterations /\ Iteration(k) < numberDone + size
           /\ \A k, l \in Running : k < l => Iteration(k) < Iteration(l)
           /\ \A k, l \in Running : Iteration(k) = Iteration(l) => k = l
<1>1. size \in Nat
  BY Ranges
<1>2. numberKeep <= size /\ numberDone + size <= e
  BY DEF DriverInv
<1>3. QED
  BY <1>1, <1>2, RoundIterations DEF Running

(* ----------------------------- The steps ------------------------------- *)

LEMMA SpeculativeInit == Init => SpeculativeInv
<1> SUFFICES ASSUME Init PROVE SpeculativeInv
  OBVIOUS
<1>1. TypeOK
  <2>1. round \in 0..(maxTries + 1) /\ numberDone \in s..e /\ numberKeep \in 0..maxRoundSize
        /\ numberKeep = 0 /\ currentRoundSize \in 0..maxRoundSize /\ size \in 0..maxRoundSize
    BY Sizes DEF Init
  <2>2. I \in [Slots -> s..e] /\ keep \in [Slots -> BOOLEAN] /\ DOMAIN at = Slots
    <3>1. s \in s..e
      OBVIOUS
    <3>2. QED
      BY <3>1 DEF Init
  <2>3. committed \in [Iterations -> Nat]
    BY DEF Init
  <2>4. Ihold \in Seq(Iterations) /\ Len(Ihold) = 0
    BY DEF Init
  <2>5. phase = "start"
    BY DEF Init
  <2>6. QED
    BY <2>1, <2>2, <2>3, <2>4, <2>5 DEF TypeOK
<1>2. phase = "start" /\ numberKeep = 0 /\ numberDone = s
  BY DEF Init
<1>3. DriverInv
  <2>1. numberKeep <= currentRoundSize /\ numberDone + numberKeep <= e /\ 1..numberKeep = {}
    BY <1>2, Sizes DEF Init
  <2>2. QED
    BY <1>2, <2>1 DEF DriverInv, InRound
<1>4. RestInv
  <2>1. \A i \in Iterations : i >= numberDone + numberKeep
    BY <1>2 DEF Iterations
  <2>2. \A i \in Iterations : committed[i] = 0
    BY DEF Init
  <2>3. QED
    BY <2>1, <2>2 DEF RestInv
<1>5. RoundInv
  BY <1>2 DEF RoundInv, InRound
<1>6. QED
  BY <1>1, <1>3, <1>4, <1>5 DEF SpeculativeInv

LEMMA StoppedStep == SpeculativeInv /\ UNCHANGED specVars => SpeculativeInv'
<1> SUFFICES ASSUME SpeculativeInv, UNCHANGED specVars PROVE SpeculativeInv'
  OBVIOUS
<1>1. UNCHANGED <<phase, round, numberDone, numberKeep, currentRoundSize, size, I, keep, Ihold, at, committed>>
  BY DEF specVars, driver, slots
<1>2. TypeOK'
  BY <1>1 DEF SpeculativeInv, TypeOK
<1>3. DriverInv' /\ RestInv'
  BY <1>1 DEF SpeculativeInv, DriverInv, RestInv, InRound
<1>4. RoundInv'
  BY <1>1 DEF SpeculativeInv, RoundInv, InRound, Running, Iteration
<1>5. QED
  BY <1>2, <1>3, <1>4 DEF SpeculativeInv

LEMMA FinishStep ==
    ASSUME SpeculativeInv, Finish \/ GiveUp
    PROVE  SpeculativeInv'
<1>1. UNCHANGED <<round, numberDone, numberKeep, currentRoundSize, size, I, keep, Ihold, at, committed>>
  BY DEF Finish, GiveUp, slots
<1>2. /\ phase = "start" /\ phase' \in {"end", "too many iterations"}
      /\ phase' = "end" => numberDone = e
  <2>1. numberDone \in Nat /\ numberDone <= e
    BY Ranges DEF SpeculativeInv
  <2>2. Finish => numberDone = e
    <3>1. Finish => numberDone >= e
      BY DEF Finish
    <3>2. QED
      BY <2>1, <3>1
  <2>3. QED
    BY <2>2 DEF Finish, GiveUp
<1>3. TypeOK'
  BY <1>1, <1>2 DEF SpeculativeInv, TypeOK
<1>4. ~InRound /\ ~InRound'
  BY <1>2 DEF InRound
<1>5. DriverInv' /\ RestInv' /\ RoundInv'
  BY <1>1, <1>2, <1>4 DEF SpeculativeInv, DriverInv, RestInv, RoundInv
<1>6. QED
  BY <1>3, <1>5 DEF SpeculativeInv

LEMMA StartRoundStep ==
    ASSUME SpeculativeInv, StartRound
    PROVE  SpeculativeInv'
<1>1. TypeOK /\ DriverInv /\ RestInv
  BY DEF SpeculativeInv
<1>2. /\ numberDone \in Nat /\ numberDone <= e /\ numberKeep \in Nat
      /\ currentRoundSize \in 0..maxRoundSize /\ maxRoundSize \in Nat
  BY <1>1, Ranges, Sizes
<1>3. numberKeep <= currentRoundSize /\ numberDone + numberKeep <= e
  BY <1>1 DEF DriverInv
<1>4. /\ size' \in Nat /\ size' <= maxRoundSize /\ size' <= currentRoundSize
      /\ numberKeep <= size' /\ numberDone + size' <= e
  <2>1. size' = MinOf(currentRoundSize, e - numberDone)
    BY DEF StartRound
  <2>2. QED
    BY <1>2, <1>3, <2>1 DEF MinOf
<1>5. UNCHANGED <<numberDone, numberKeep, currentRoundSize, Ihold, I, keep, committed>>
      /\ phase = "start" /\ phase' = "reserve"
  BY DEF StartRound
<1>6. at' = [k \in Slots |-> IF k < size' THEN "todo" ELSE "ready"]
  BY DEF StartRound
<1>7. TypeOK'
  <2>1. round' \in 0..(maxTries + 1)
    <3>1. round \in 0..(maxTries + 1) /\ round' = MinOf(round + 1, maxTries + 1)
      BY <1>1 DEF TypeOK, StartRound
    <3>2. QED
      BY <3>1, Sizes DEF MinOf
  <2>2. size' \in 0..maxRoundSize
    BY <1>2, <1>4
  <2>3. QED
    BY <1>1, <1>5, <1>6, <2>1, <2>2 DEF TypeOK
<1>8. ~InRound /\ InRound'
  BY <1>5 DEF InRound
<1>9. DriverInv' /\ RestInv'
  BY <1>1, <1>4, <1>5, <1>8 DEF DriverInv, RestInv
<1>10. RoundInv'
  <2>1. PICK n \in Nat : n = size'
    BY <1>4
  <2>2. n <= maxRoundSize /\ numberKeep <= n /\ numberDone + n <= e /\ maxRoundSize \in Nat
    BY <1>2, <1>4, <2>1
  <2>3. numberDone \in Nat /\ numberKeep \in Nat
    BY <1>2
  <2>4. /\ Running' = 0..n - 1
        /\ \A k : Iteration(k)' = Iteration(k)
    BY <1>5, <2>1 DEF Running, Iteration
  <2>5. \A k \in Slots : k \in Running' <=> k < n
    BY <2>2, <2>4 DEF Slots
  <2>6. Running' \subseteq Slots
    BY <2>2, <2>4 DEF Slots
  <2>7. \A k \in Running' : at'[k] # "ready"
    BY <1>6, <2>1, <2>5, <2>6
  <2>8. \A k \in Slots : at'[k] # "ready" => k \in Running'
    BY <1>6, <2>1, <2>5
  <2>9. /\ \A k \in Running' :
             /\ Iteration(k) \in Iterations /\ Iteration(k) < numberDone + n
             /\ k < numberKeep => k + 1 \in 1..numberKeep /\ Iteration(k) = Ihold[k + 1]
             /\ ~(k < numberKeep) => Iteration(k) = numberDone + k
    BY <1>1, <2>2, <2>4, RoundIterations
  <2>10. \A i \in Iterations :
          committed[i] = IF i >= numberDone + numberKeep
                            \/ \E j \in 1..numberKeep : Ihold[j] = i THEN 0 ELSE 1
    BY <1>1, <1>8 DEF RestInv
  <2>11. ASSUME NEW k \in Running' PROVE committed[Iteration(k)] = 0
    <3>1. Iteration(k) \in Iterations
      BY <2>9
    <3>2. CASE k < numberKeep
      BY <2>9, <2>10, <3>1, <3>2
    <3>3. CASE ~(k < numberKeep)
      <4>1. Iteration(k) >= numberDone + numberKeep
        <5>1. Iteration(k) = numberDone + k /\ k \in Nat
          BY <2>4, <2>9, <3>3
        <5>2. QED
          BY <2>3, <3>3, <5>1
      <4>2. QED
        BY <2>10, <3>1, <4>1
    <3>4. QED
      BY <3>2, <3>3
  <2>12. ASSUME NEW i \in Iterations, \A k \in Running' : Iteration(k) # i
        PROVE  committed[i] = IF i >= numberDone + n THEN 0 ELSE 1
    <3>1. i \in Nat
      BY DEF Iterations
    <3>2. CASE i >= numberDone + n
      <4>1. i >= numberDone + numberKeep
        BY <2>3, <2>2, <3>1, <3>2
      <4>2. QED
        BY <2>10, <3>2, <4>1
    <3>3. CASE ~(i >= numberDone + n)
      <4>1. ~(i >= numberDone + numberKeep)
        <5>1. SUFFICES ASSUME i >= numberDone + numberKeep PROVE FALSE
          OBVIOUS
        <5> DEFINE k == i - numberDone
        <5>2. k \in 0..n - 1 /\ ~(k < numberKeep) /\ numberDone + k = i
          BY <2>3, <2>2, <3>1, <3>3, <5>1
        <5>3. Iteration(k) = i
          BY <2>4, <2>9, <5>2
        <5>4. QED
          BY <2>4, <2>12, <5>2, <5>3
      <4>2. ~ \E j \in 1..numberKeep : Ihold[j] = i
        <5>1. SUFFICES ASSUME NEW j \in 1..numberKeep, Ihold[j] = i PROVE FALSE
          OBVIOUS
        <5> DEFINE k == j - 1
        <5>2. k \in 0..n - 1 /\ k < numberKeep /\ k + 1 = j
          BY <2>3, <2>2
        <5>3. Iteration(k) = i
          BY <2>4, <2>9, <5>1, <5>2
        <5>4. QED
          BY <2>4, <2>12, <5>2, <5>3
      <4>3. QED
        BY <2>10, <3>3, <4>1, <4>2
    <3>4. QED
      BY <3>2, <3>3
  <2>13. QED
    BY <1>5, <2>1, <2>4, <2>7, <2>8, <2>11, <2>12 DEF RoundInv
<1>11. QED
  BY <1>7, <1>9, <1>10 DEF SpeculativeInv
(* What a round knows of its slots.                                        *)
LEMMA RoundFacts ==
    ASSUME SpeculativeInv, InRound
    PROVE  /\ \A k \in Running : k \in Slots /\ Iteration(k) \in Iterations
           /\ \A k, l \in Running : Iteration(k) = Iteration(l) => k = l
           /\ I \in [Slots -> s..e] /\ keep \in [Slots -> BOOLEAN] /\ DOMAIN at = Slots
           /\ committed \in [Iterations -> Nat]
           /\ \A i \in Iterations :
                (\A k \in Running : Iteration(k) # i) =>
                   committed[i] = IF i >= numberDone + size THEN 0 ELSE 1
           /\ \A k \in Slots : at[k] # "ready" => k \in Running
           /\ \A k \in Running :
                /\ committed[Iteration(k)] = IF at[k] # "ready" \/ keep[k] THEN 0 ELSE 1
                /\ at[k] = "ready" \/ phase = "commit" => I[k] = Iteration(k)
                /\ phase = "commit" /\ at[k] # "ready" => keep[k]
<1>1. TypeOK /\ DriverInv /\ RoundInv
  BY DEF SpeculativeInv
<1>2. I \in [Slots -> s..e] /\ keep \in [Slots -> BOOLEAN] /\ DOMAIN at = Slots
      /\ committed \in [Iterations -> Nat]
  BY <1>1 DEF TypeOK
<1>3. \A k \in Running : k \in Slots /\ Iteration(k) \in Iterations
  BY <1>1, InRoundIterations, Ranges
<1>4. \A k, l \in Running : Iteration(k) = Iteration(l) => k = l
  BY <1>1, InRoundIterations
<1>5. RoundInv /\ InRound
  BY <1>1
<1>6. QED
  BY <1>2, <1>3, <1>4, <1>5 DEF RoundInv

(* The step of one slot, in either phase, that lets its iteration go iff   *)
(* it does not keep it.                                                    *)
LEMMA SlotStep ==
    ASSUME SpeculativeInv, InRound, NEW k \in Slots, at[k] # "ready", NEW b \in BOOLEAN,
           UNCHANGED driver, I' = [I EXCEPT ![k] = Iteration(k)], keep' = [keep EXCEPT ![k] = b],
           at' = [at EXCEPT ![k] = "ready"],
           committed' = IF b THEN committed ELSE [committed EXCEPT ![Iteration(k)] = @ + 1]
    PROVE  SpeculativeInv'
<1>1. /\ \A l \in Running : l \in Slots /\ Iteration(l) \in Iterations
      /\ \A l, m \in Running : Iteration(l) = Iteration(m) => l = m
      /\ I \in [Slots -> s..e] /\ keep \in [Slots -> BOOLEAN] /\ DOMAIN at = Slots
      /\ committed \in [Iterations -> Nat]
  BY RoundFacts
<1>2. k \in Running
  BY RoundFacts
<1>3. UNCHANGED <<phase, round, numberDone, numberKeep, currentRoundSize, size, Ihold>>
  BY DEF driver
<1>4. /\ Running' = Running
      /\ \A l : Iteration(l)' = Iteration(l)
      /\ InRound' = InRound
  BY <1>3 DEF Running, Iteration, InRound
<1>5. Iteration(k) \in Iterations
  BY <1>1, <1>2
<1>6. I' \in [Slots -> s..e] /\ keep' \in [Slots -> BOOLEAN] /\ DOMAIN at' = Slots
  <2>1. Iteration(k) \in s..e
    BY <1>5 DEF Iterations
  <2>2. QED
    BY <1>1, <2>1
<1>7. /\ committed' \in [Iterations -> Nat]
      /\ \A i \in Iterations : i # Iteration(k) => committed'[i] = committed[i]
      /\ committed'[Iteration(k)] = IF b THEN 0 ELSE 1
  <2>1. committed[Iteration(k)] = 0
    BY <1>2, RoundFacts
  <2>2. CASE b
    BY <1>1, <2>1, <2>2
  <2>3. CASE ~b
    <3>1. committed' = [committed EXCEPT ![Iteration(k)] = 0 + 1]
      BY <2>1, <2>3
    <3>2. QED
      BY <1>1, <1>5, <2>3, <3>1
  <2>4. QED
    BY <2>2, <2>3
<1>8. TypeOK'
  BY <1>3, <1>6, <1>7 DEF SpeculativeInv, TypeOK
<1>9. DriverInv' /\ RestInv'
  BY <1>3, <1>4 DEF SpeculativeInv, DriverInv, RestInv
<1>10. RoundInv'
  <2>1. ASSUME NEW i \in Iterations, \A l \in Running : Iteration(l) # i
        PROVE  committed'[i] = IF i >= numberDone + size THEN 0 ELSE 1
    <3>1. committed'[i] = committed[i]
      BY <1>2, <1>7, <2>1
    <3>2. committed[i] = IF i >= numberDone + size THEN 0 ELSE 1
      BY <2>1, RoundFacts
    <3>3. QED
      BY <3>1, <3>2
  <2>2. \A l \in Slots : at'[l] # "ready" => l \in Running
    <3>1. \A l \in Slots : at'[l] # "ready" => at[l] # "ready"
      BY <1>1
    <3>2. QED
      BY <3>1, RoundFacts
  <2>3. ASSUME NEW l \in Running
        PROVE  /\ committed'[Iteration(l)] = IF at'[l] # "ready" \/ keep'[l] THEN 0 ELSE 1
               /\ at'[l] = "ready" \/ phase = "commit" => I'[l] = Iteration(l)
               /\ phase = "commit" /\ at'[l] # "ready" => keep'[l]
    <3>1. CASE l = k
      <4>1. at'[l] = "ready" /\ keep'[l] = b /\ I'[l] = Iteration(l)
        BY <1>1, <3>1
      <4>2. QED
        BY <1>7, <3>1, <4>1
    <3>2. CASE l # k
      <4>1. Iteration(l) # Iteration(k) /\ Iteration(l) \in Iterations /\ l \in Slots
        BY <1>1, <1>2, <3>2
      <4>2. committed'[Iteration(l)] = committed[Iteration(l)]
        BY <1>7, <4>1
      <4>3. at'[l] = at[l] /\ keep'[l] = keep[l] /\ I'[l] = I[l]
        BY <1>1, <3>2, <4>1
      <4>4. QED
        BY <4>2, <4>3, RoundFacts
    <3>3. QED
      BY <3>1, <3>2
  <2>4. QED
    BY <1>3, <1>4, <2>1, <2>2, <2>3 DEF RoundInv
<1>11. QED
  BY <1>8, <1>9, <1>10 DEF SpeculativeInv

LEMMA ReserveStep == ASSUME SpeculativeInv, NEW k \in Slots, Reserve(k) PROVE SpeculativeInv'
<1>1. InRound /\ at[k] # "ready"
  BY DEF Reserve, InRound
<1>2. PICK b \in BOOLEAN : EndReserve(k, b)
  BY DEF Reserve
<1>3. QED
  BY <1>1, <1>2, SlotStep DEF EndReserve

LEMMA CommitStep == ASSUME SpeculativeInv, NEW k \in Slots, Commit(k) PROVE SpeculativeInv'
<1>1. InRound /\ at[k] # "ready" /\ phase = "commit"
  BY DEF Commit, InRound
<1>2. PICK b \in BOOLEAN : EndCommit(k, b)
  BY DEF Commit
<1>3. I[k] = Iteration(k) /\ I \in [Slots -> s..e]
  BY <1>1, RoundFacts
<1>4. I' = [I EXCEPT ![k] = Iteration(k)]
  BY <1>2, <1>3 DEF EndCommit
<1>5. /\ UNCHANGED driver /\ keep' = [keep EXCEPT ![k] = ~b] /\ at' = [at EXCEPT ![k] = "ready"]
      /\ committed' = IF ~b THEN committed ELSE [committed EXCEPT ![Iteration(k)] = @ + 1]
  BY <1>2, <1>3 DEF EndCommit
<1>6. (~b) \in BOOLEAN
  OBVIOUS
<1>7. QED
  BY <1>1, <1>4, <1>5, <1>6, SlotStep

LEMMA EndOfReservesStep == ASSUME SpeculativeInv, EndOfReserves PROVE SpeculativeInv'
<1>1. UNCHANGED <<round, numberDone, numberKeep, currentRoundSize, size, Ihold, I, keep, committed>>
      /\ phase = "reserve" /\ phase' = "commit"
  BY DEF EndOfReserves
<1>2. at' = [k \in Slots |-> IF k \in Running /\ keep[k] THEN "todo" ELSE "ready"]
  BY DEF EndOfReserves
<1>3. InRound /\ InRound'
  BY <1>1 DEF InRound
<1>4. TypeOK'
  BY <1>1, <1>2 DEF SpeculativeInv, TypeOK
<1>5. DriverInv' /\ RestInv'
  BY <1>1, <1>3 DEF SpeculativeInv, DriverInv, RestInv
<1>6. RoundInv'
  <2>1. Running' = Running /\ \A l : Iteration(l)' = Iteration(l)
    BY <1>1 DEF Running, Iteration
  <2>2. \A i \in Iterations :
          (\A k \in Running : Iteration(k) # i) =>
             committed[i] = IF i >= numberDone + size THEN 0 ELSE 1
    BY <1>3, RoundFacts
  <2>3. \A k \in Slots : at'[k] # "ready" => k \in Running /\ keep[k]
    BY <1>2
  <2>4. ASSUME NEW k \in Running
        PROVE  /\ committed[Iteration(k)] = IF at'[k] # "ready" \/ keep[k] THEN 0 ELSE 1
               /\ I[k] = Iteration(k)
               /\ at'[k] # "ready" => keep[k]
    <3>1. k \in Slots /\ at[k] = "ready"
      BY <1>3, RoundFacts DEF EndOfReserves, AllReady
    <3>2. committed[Iteration(k)] = (IF keep[k] THEN 0 ELSE 1) /\ I[k] = Iteration(k)
      BY <1>3, <3>1, RoundFacts
    <3>3. at'[k] # "ready" => keep[k]
      BY <1>2, <3>1
    <3>4. QED
      BY <3>2, <3>3
  <2>5. QED
    BY <1>1, <2>1, <2>2, <2>3, <2>4 DEF RoundInv
<1>7. QED
  BY <1>4, <1>5, <1>6 DEF SpeculativeInv

LEMMA EndRoundStep == ASSUME SpeculativeInv, EndRound PROVE SpeculativeInv'
<1> DEFINE n == Len(Packed)
<1>1. phase = "commit" /\ InRound /\ phase' = "start" /\ ~InRound'
  BY DEF EndRound, InRound
<1>2. TypeOK /\ DriverInv
  BY DEF SpeculativeInv
<1>3. /\ numberDone \in Nat /\ s <= numberDone /\ numberDone <= e
      /\ size \in Nat /\ size <= maxRoundSize /\ currentRoundSize \in 0..maxRoundSize
      /\ maxRoundSize \in Nat
  BY <1>2, Ranges, Sizes
<1>4. size <= currentRoundSize /\ numberDone + size <= e
  BY <1>1, <1>2 DEF DriverInv
<1>5. \A k \in Running :
        /\ k \in Slots /\ I[k] = Iteration(k) /\ Iteration(k) \in Iterations
        /\ Iteration(k) < numberDone + size
        /\ committed[Iteration(k)] = IF keep[k] THEN 0 ELSE 1
  <2>1. \A k \in Running : at[k] = "ready"
    BY DEF EndRound, AllReady
  <2>2. QED
    BY <1>1, <1>2, <2>1, RoundFacts, InRoundIterations
<1>6. Kept \subseteq Running
  BY DEF Kept
<1>7. \A k \in Kept : I[k] \in Iterations
  BY <1>5, <1>6
<1>8. /\ Packed \in Seq(Iterations) /\ n = Cardinality(Kept) /\ n <= size /\ n \in Nat
      /\ \A j \in 1..n : SlotOf(j) \in Kept /\ Packed[j] = I[SlotOf(j)]
  BY <1>3, <1>7, PackedIs
<1>9. \A j \in 1..n : SlotOf(j) \in Running /\ Packed[j] = Iteration(SlotOf(j))
  BY <1>5, <1>6, <1>8
<1>10. /\ Ihold' = Packed /\ numberKeep' = n /\ numberDone' = numberDone + size - n
       /\ currentRoundSize' = NextRoundSize(n)
       /\ UNCHANGED <<round, size, I, keep, at, committed>>
  BY DEF EndRound, slots
<1> HIDE DEF n
<1>11. currentRoundSize' \in 0..maxRoundSize /\ n <= currentRoundSize'
  BY <1>3, <1>4, <1>8, <1>10, NextRound
<1>12. numberDone' \in s..e /\ numberDone' + n = numberDone + size
  <2>1. numberDone + size - n \in s..e /\ numberDone + size - n + n = numberDone + size
    BY <1>3, <1>4, <1>8
  <2>2. QED
    BY <1>10, <2>1
<1>13. TypeOK'
  <2>1. n \in 0..maxRoundSize
    BY <1>3, <1>8
  <2>2. n = Len(Packed)
    BY DEF n
  <2>3. QED
    BY <1>1, <1>2, <1>8, <1>10, <1>11, <1>12, <2>1, <2>2 DEF TypeOK
<1>14. DriverInv'
  <2>1. \A j \in 1..n : Packed[j] < numberDone' + n
    BY <1>5, <1>9, <1>12
  <2>2. \A j, l \in 1..n : j < l => Packed[j] < Packed[l]
    <3>1. \A j, l \in 1..n : j < l => SlotOf(j) < SlotOf(l)
      BY <1>3, <1>8, SlotsInOrder
    <3>2. QED
      BY <1>1, <1>2, <1>9, <3>1, InRoundIterations
  <2>3. numberDone' + n <= e
    BY <1>4, <1>12
  <2>4. QED
    BY <1>1, <1>10, <1>11, <2>1, <2>2, <2>3 DEF DriverInv
<1>15. RestInv'
  <2>1. ASSUME NEW i \in Iterations
        PROVE  committed[i] = IF i >= numberDone + size \/ \E j \in 1..n : Packed[j] = i THEN 0 ELSE 1
    <3>1. (\A k \in Running : Iteration(k) # i) =>
             committed[i] = IF i >= numberDone + size THEN 0 ELSE 1
      BY <1>1, RoundFacts
    <3>2. CASE \A k \in Running : Iteration(k) # i
      <4>1. ~ \E j \in 1..n : Packed[j] = i
        BY <1>9, <3>2
      <4>2. QED
        BY <3>1, <3>2, <4>1
    <3>3. ASSUME NEW k \in Running, Iteration(k) = i
          PROVE  committed[i] = IF i >= numberDone + size \/ \E j \in 1..n : Packed[j] = i THEN 0 ELSE 1
      <4>1. ~(i >= numberDone + size)
        <5>1. i \in Nat /\ i < numberDone + size
          BY <1>5, <3>3 DEF Iterations
        <5>2. QED
          BY <1>3, <5>1
      <4>2. committed[i] = IF keep[k] THEN 0 ELSE 1
        BY <1>5, <3>3
      <4>3. CASE keep[k]
        <5>1. k \in Kept
          BY <4>3 DEF Kept
        <5>2. PICK j \in 1..n : SlotOf(j) = k
          BY <1>3, <1>8, <5>1, SlotsInOrder
        <5>3. Packed[j] = i
          BY <1>9, <3>3, <5>2
        <5>4. QED
          BY <4>2, <4>3, <5>3
      <4>4. CASE ~keep[k]
        <5>1. ~ \E j \in 1..n : Packed[j] = i
          <6>1. SUFFICES ASSUME NEW j \in 1..n, Packed[j] = i PROVE FALSE
            OBVIOUS
          <6>2. SlotOf(j) = k
            BY <1>1, <1>9, <3>3, <6>1, RoundFacts
          <6>3. k \in Kept
            BY <1>8, <6>2
          <6>4. QED
            BY <4>4, <6>3 DEF Kept
        <5>2. QED
          BY <4>1, <4>2, <4>4, <5>1
      <4>5. QED
        BY <4>3, <4>4
    <3>4. QED
      BY <3>2, <3>3
  <2>2. QED
    BY <1>10, <1>12, <2>1 DEF RestInv
<1>16. RoundInv'
  BY <1>1 DEF RoundInv
<1>17. QED
  BY <1>13, <1>14, <1>15, <1>16 DEF SpeculativeInv

(* ------------------------- The invariant ------------------------------- *)

LEMMA SpeculativeStep == SpeculativeInv /\ [Next]_specVars => SpeculativeInv'
<1> SUFFICES ASSUME SpeculativeInv, [Next]_specVars PROVE SpeculativeInv'
  OBVIOUS
<1>1. CASE UNCHANGED specVars
  BY <1>1, StoppedStep
<1>2. CASE DriverNext
  BY <1>2, FinishStep, StartRoundStep, EndOfReservesStep, EndRoundStep DEF DriverNext
<1>3. CASE Stopped
  BY <1>3, StoppedStep DEF Stopped
<1>4. ASSUME NEW k \in Slots, Reserve(k) \/ Commit(k) PROVE SpeculativeInv'
  BY <1>4, ReserveStep, CommitStep
<1>5. QED
  BY <1>1, <1>2, <1>3, <1>4 DEF Next

(* ------------------------- Clients ------------------------------------- *)

LEMMA SlotsStay == Slots' = Slots
  BY DEF Slots, maxRoundSize

(* For clients whose bodies take several steps.                            *)
LEMMA DriverStep == ASSUME SpeculativeInv, DriverNext PROVE SpeculativeInv'
BY FinishStep, StartRoundStep, EndOfReservesStep, EndRoundStep DEF DriverNext

LEMMA BodyGoesOn ==
    ASSUME SpeculativeInv, InRound, NEW k \in Slots, at[k] # "ready",
           NEW l, l # "ready", at' = [at EXCEPT ![k] = l],
           UNCHANGED <<driver, I, keep, committed>>
    PROVE  SpeculativeInv'
<1>1. UNCHANGED <<phase, round, numberDone, numberKeep, currentRoundSize, size, I, keep, Ihold, committed>>
  BY DEF driver
<1>2. DOMAIN at' = Slots /\ \A o \in Slots : at'[o] = "ready" <=> at[o] = "ready"
  BY RoundFacts
<1>3. TypeOK'
  BY <1>1, <1>2 DEF SpeculativeInv, TypeOK, Slots, maxRoundSize
<1>4. DriverInv' /\ RestInv'
  BY <1>1 DEF SpeculativeInv, DriverInv, RestInv, InRound
<1>5. Running' = Running /\ \A o : Iteration(o)' = Iteration(o)
  BY <1>1 DEF Running, Iteration
<1>6. \A o \in Slots : at'[o] # "ready" => o \in Running
  BY <1>2, RoundFacts
<1>7. ASSUME NEW o \in Running
      PROVE  /\ committed[Iteration(o)] = IF at'[o] # "ready" \/ keep[o] THEN 0 ELSE 1
             /\ at'[o] = "ready" \/ phase = "commit" => I[o] = Iteration(o)
             /\ phase = "commit" /\ at'[o] # "ready" => keep[o]
  <2>1. at'[o] = "ready" <=> at[o] = "ready"
    BY <1>2, RoundFacts
  <2>2. QED
    BY <2>1, RoundFacts
<1>8. \A i \in Iterations :
         (\A o \in Running : Iteration(o) # i) =>
            committed[i] = IF i >= numberDone + size THEN 0 ELSE 1
  BY RoundFacts
<1>9. RoundInv'
  BY <1>1, <1>5, <1>6, <1>7, <1>8, SlotsStay DEF RoundInv
<1>10. QED
  BY <1>3, <1>4, <1>9 DEF SpeculativeInv

LEMMA ReserveEnds ==
    ASSUME SpeculativeInv, phase = "reserve", NEW k \in Slots, at[k] # "ready",
           NEW b \in BOOLEAN, EndReserve(k, b)
    PROVE  SpeculativeInv'
<1>1. InRound
  BY DEF InRound
<1>2. QED
  BY <1>1, SlotStep DEF EndReserve

LEMMA CommitEnds ==
    ASSUME SpeculativeInv, phase = "commit", NEW k \in Slots, at[k] # "ready",
           NEW b \in BOOLEAN, EndCommit(k, b)
    PROVE  SpeculativeInv'
<1>1. InRound
  BY DEF InRound
<1>2. k \in Running
  BY <1>1, RoundFacts
<1>3. I[k] = Iteration(k) /\ I \in [Slots -> s..e]
  BY <1>1, <1>2, RoundFacts
<1>4. I' = [I EXCEPT ![k] = Iteration(k)]
  BY <1>3 DEF EndCommit
<1>5. /\ UNCHANGED driver /\ keep' = [keep EXCEPT ![k] = ~b] /\ at' = [at EXCEPT ![k] = "ready"]
      /\ committed' = IF ~b THEN committed ELSE [committed EXCEPT ![Iteration(k)] = @ + 1]
  BY <1>3 DEF EndCommit
<1>6. (~b) \in BOOLEAN
  OBVIOUS
<1>7. QED
  BY <1>1, <1>4, <1>5, <1>6, SlotStep

(* The slot whose body runs has an iteration of its own to complete.       *)
LEMMA SlotFacts ==
    ASSUME SpeculativeInv, InRound, NEW k \in Slots, at[k] # "ready"
    PROVE  /\ k \in Running /\ Iteration(k) \in Iterations
           /\ committed[Iteration(k)] = 0
           /\ phase = "commit" => I[k] = Iteration(k)
<1>1. k \in Running
  BY RoundFacts
<1>2. QED
  BY <1>1, RoundFacts

(* All iterations before one of the round are in the round or complete.    *)
LEMMA EarlierDone ==
    ASSUME SpeculativeInv, InRound, NEW k \in Running, NEW i \in Iterations, i < Iteration(k),
           \A l \in Running : Iteration(l) # i
    PROVE  committed[i] = 1
<1>1. Iteration(k) < numberDone + size /\ Iteration(k) \in Iterations
  BY InRoundIterations DEF SpeculativeInv
<1>2. numberDone \in Nat /\ size \in Nat /\ Iteration(k) \in Nat /\ i \in Nat
  BY <1>1, Ranges DEF SpeculativeInv, Iterations
<1>3. ~(i >= numberDone + size)
  BY <1>1, <1>2
<1>4. QED
  BY <1>3, RoundFacts

(* A round in which a slot is not kept advances: pack has room to spare.   *)
LEMMA RoundAdvances ==
    ASSUME SpeculativeInv, EndRound, NEW k \in Running, ~keep[k]
    PROVE  numberDone' > numberDone
<1>1. /\ numberDone \in Nat /\ size \in Nat /\ InRound
      /\ numberKeep' = Len(Packed) /\ numberDone' = numberDone + size - numberKeep'
  BY Ranges DEF SpeculativeInv, EndRound, InRound
<1>2. /\ Kept \in SUBSET (0..size - 1) /\ IsFiniteSet(Kept) /\ Cardinality(Kept) \in Nat
  BY <1>1, KeptFinite
<1>3. Len(Packed) = Cardinality(Kept)
  <2>1. \A l \in Kept : I[l] \in s..e
    BY <1>1, RoundFacts DEF Kept
  <2>2. QED
    BY <1>1, <2>1, PackedIs
<1>4. Cardinality(Kept) < size
  <2>1. IsFiniteSet(0..size - 1) /\ Cardinality(0..size - 1) = size
    <3>1. 0 \in Int /\ size - 1 \in Int
      BY <1>1
    <3>2. Cardinality(0..size - 1) = IF 0 > size - 1 THEN 0 ELSE size - 1 - 0 + 1
      BY <3>1, FS_Interval
    <3>3. QED
      BY <1>1, <3>1, <3>2, FS_Interval
  <2>2. k \in (0..size - 1) \ Kept
    BY DEF Running, Kept
  <2>3. /\ Cardinality(Kept) <= Cardinality(0..size - 1)
        /\ Cardinality(0..size - 1) = Cardinality(Kept) => 0..size - 1 = Kept
    BY <1>2, <2>1, FS_Subset
  <2>4. Cardinality(Kept) <= size /\ Cardinality(Kept) # size
    BY <2>1, <2>2, <2>3
  <2>5. QED
    BY <1>1, <1>2, <2>4
<1>5. QED
  BY <1>1, <1>2, <1>3, <1>4

(* Slot 0 has the smallest iteration of a round.                           *)
LEMMA FirstIsSmallest ==
    ASSUME SpeculativeInv, InRound, NEW k \in Running
    PROVE  /\ 0 \in Running
           /\ Iteration(0) \in Iterations /\ Iteration(k) \in Iterations
           /\ Iteration(0) <= Iteration(k)
           /\ (Iteration(0) = Iteration(k) <=> k = 0)
<1>1. k \in Nat /\ 0 \in Running
  <2>1. size \in Nat
    BY Ranges DEF SpeculativeInv
  <2>2. QED
    BY <2>1 DEF Running
<1>2. /\ \A l \in Running : Iteration(l) \in Iterations
      /\ \A l, m \in Running : l < m => Iteration(l) < Iteration(m)
      /\ \A l, m \in Running : Iteration(l) = Iteration(m) => l = m
  BY InRoundIterations DEF SpeculativeInv
<1>3. Iteration(0) \in Int /\ Iteration(k) \in Int
  BY <1>1, <1>2 DEF Iterations
<1>4. CASE k = 0
  BY <1>1, <1>2, <1>3, <1>4
<1>5. CASE k # 0
  <2>1. 0 < k
    BY <1>1, <1>5
  <2>2. Iteration(0) < Iteration(k)
    BY <1>1, <1>2, <2>1
  <2>3. QED
    BY <1>1, <1>2, <1>3, <1>5, <2>2
<1>6. QED
  BY <1>4, <1>5

(* A round starts with slots that exist, all of them to be done.           *)
LEMMA StartedRound ==
    ASSUME SpeculativeInv, StartRound
    PROVE  size' \in Nat /\ Running' \subseteq Slots /\ \A k \in Running' : at'[k] = "todo"
<1>1. SpeculativeInv'
  BY StartRoundStep
<1>2. maxRoundSize \in Nat /\ size' \in 0..maxRoundSize
  BY <1>1, Sizes DEF SpeculativeInv, TypeOK
<1>3. at' = [k \in Slots |-> IF k < size' THEN "todo" ELSE "ready"]
  BY DEF StartRound
<1> DEFINE n == size'
           m == maxRoundSize
<1>4. Running' = 0..(n - 1) /\ Slots = 0..(m - 1) /\ m \in Nat /\ n \in 0..m
  BY <1>2 DEF Running, Slots
<1>5. at' = [k \in Slots |-> IF k < n THEN "todo" ELSE "ready"]
  BY <1>3
<1> HIDE DEF n, m
<1>6. n \in Nat /\ Running' \subseteq Slots /\ \A k \in Running' : at'[k] = "todo"
  BY <1>4, <1>5
<1>7. QED
  BY <1>6 DEF n

(* FirstDone: a slot that is not kept is not asked to commit; else it has  *)
(* to succeed.                                                             *)
LEMMA DriverKeepsFirst == ASSUME SpeculativeInv, DriverNext PROVE FirstDone'
<1>1. CASE EndOfReserves
  <2>1. /\ phase = "reserve" /\ keep' = keep /\ Running' = Running
        /\ at' = [k \in Slots |-> IF k \in Running /\ keep[k] THEN "todo" ELSE "ready"]
    BY <1>1 DEF EndOfReserves, Running
  <2>2. Running \subseteq Slots
    BY Ranges DEF SpeculativeInv
  <2>3. QED
    BY <2>1, <2>2 DEF FirstDone
<1>2. CASE ~EndOfReserves
  <2>1. phase' # "commit"
    BY <1>2 DEF DriverNext, Finish, GiveUp, StartRound, EndRound
  <2>2. QED
    BY <2>1 DEF FirstDone
<1>3. QED
  BY <1>1, <1>2

LEMMA ReserveKeepsFirst == ASSUME phase = "reserve", UNCHANGED driver PROVE FirstDone'
BY DEF driver, FirstDone

LEMMA BodyKeepsFirst ==
    ASSUME SpeculativeInv, FirstDone, NEW k \in Slots, NEW l, l # "ready",
           at' = [at EXCEPT ![k] = l], UNCHANGED <<driver, keep>>
    PROVE  FirstDone'
<1>1. Running' = Running /\ phase' = phase /\ DOMAIN at = Slots /\ Running \subseteq Slots
  BY Ranges DEF driver, Running, SpeculativeInv, TypeOK
<1>2. QED
  BY <1>1 DEF FirstDone

LEMMA CommitKeepsFirst ==
    ASSUME SpeculativeInv, FirstDone, NEW k \in Slots, NEW b \in BOOLEAN, EndCommit(k, b), k = 0 => b
    PROVE  FirstDone'
<1>1. /\ Running' = Running /\ phase' = phase /\ DOMAIN at = Slots /\ Running \subseteq Slots
      /\ at' = [at EXCEPT ![k] = "ready"] /\ keep' = [keep EXCEPT ![k] = ~b]
      /\ keep \in [Slots -> BOOLEAN]
  BY Ranges DEF EndCommit, driver, Running, SpeculativeInv, TypeOK
<1>2. QED
  BY <1>1 DEF FirstDone

(* The inductive invariant of the loop.                                    *)
THEOREM SpeculativeInvariance == Spec => []SpeculativeInv
BY SpeculativeInit, SpeculativeStep, PTL DEF Spec

(* Every variable keeps its type: the sizes stay below maxRoundSize.       *)
THEOREM TypeCorrect == Spec => []TypeOK
<1>1. SpeculativeInv => TypeOK
  BY DEF SpeculativeInv
<1>2. QED
  BY <1>1, SpeculativeInvariance, PTL

LEMMA EachIsOnce == SpeculativeInv => EachOnce
<1> SUFFICES ASSUME SpeculativeInv, phase \in {"start", "end"} PROVE EachOnce
  BY DEF EachOnce
<1>1. TypeOK /\ DriverInv /\ RestInv /\ ~InRound
  BY DEF SpeculativeInv, InRound
<1>2. numberKeep \in Nat /\ numberDone \in Nat
  BY <1>1, Ranges
<1>3. \A i \in Iterations :
        committed[i] = IF i >= numberDone + numberKeep
                          \/ \E j \in 1..numberKeep : Ihold[j] = i THEN 0 ELSE 1
  BY <1>1 DEF RestInv
<1>4. \A j \in 1..(numberKeep - 1) : Ihold[j] < Ihold[j + 1]
  <2>1. SUFFICES ASSUME NEW j \in 1..(numberKeep - 1) PROVE Ihold[j] < Ihold[j + 1]
    OBVIOUS
  <2>2. j \in 1..numberKeep /\ j + 1 \in 1..numberKeep /\ j < j + 1
    BY <1>2
  <2>3. QED
    BY <1>1, <2>2 DEF DriverInv
<1>5. ASSUME phase = "end", NEW i \in Iterations PROVE committed[i] = 1
  <2>1. numberDone = e /\ numberDone + numberKeep <= e
    BY <1>1, <1>5 DEF DriverInv
  <2>2. numberKeep = 0 /\ numberDone + numberKeep = e
    BY <1>2, <2>1
  <2>3. ~ (i >= numberDone + numberKeep)
    BY <2>2 DEF Iterations
  <2>4. ~ \E j \in 1..numberKeep : Ihold[j] = i
    BY <2>2
  <2>5. QED
    BY <1>3, <2>3, <2>4
<1>6. QED
  BY <1>3, <1>4, <1>5 DEF EachOnce

LEMMA RoundsFit == SpeculativeInv => RoundFits
<1> SUFFICES ASSUME SpeculativeInv PROVE RoundFits
  OBVIOUS
<1>1. TypeOK /\ DriverInv
  BY DEF SpeculativeInv
<1>2. /\ numberKeep \in Nat /\ numberDone \in Nat /\ numberDone <= e /\ size \in Nat /\ size <= maxRoundSize
      /\ Len(Ihold) = numberKeep /\ currentRoundSize \in 0..maxRoundSize /\ maxRoundSize \in Nat
  BY <1>1, Ranges, Sizes
<1>3. MinOf(currentRoundSize, e - numberDone) >= numberKeep
  <2>1. numberKeep <= currentRoundSize /\ numberDone + numberKeep <= e
    BY <1>1 DEF DriverInv
  <2>2. QED
    BY <1>2, <2>1 DEF MinOf
<1>4. ASSUME NEW k \in Running, k < numberKeep PROVE k + 1 <= Len(Ihold)
  BY <1>2, <1>4 DEF Running
<1>5. QED
  BY <1>1, <1>2, <1>3, <1>4 DEF RoundFits

(* No iteration is lost or run twice and no array is overrun, whatever     *)
(* the steps decide and however the round sizes move.                      *)
THEOREM RoundsAreRightCorrect == Spec => []RoundsAreRight
<1>1. SpeculativeInv => RoundsAreRight
  BY EachIsOnce, RoundsFit DEF RoundsAreRight
<1>2. QED
  BY <1>1, SpeculativeInvariance, PTL
==============================================================================
