-------------------------- MODULE SharedDataProofs --------------------------
(***************************************************************************)
(* Data that threads share without locks.                                  *)
(*                                                                         *)
(* No key is lost from the hash table, for every number of cells, keys and *)
(* operations, every hash function and every interleaving of a phase. In   *)
(* programs that only insert, the cells and the answers are determined by  *)
(* the set of keys.                                                        *)
(*                                                                         *)
(* Every block of the block allocator is with one caller or once in one    *)
(* list, for every number of workers and blocks and every length of a list. *)
(***************************************************************************)
EXTENDS HashTable, BlockAllocator, FiniteSetTheorems, TLAPS

(* ------------------------------ Cells ---------------------------------- *)

LEMMA EmptyIsNoKey == empty \notin Keys
<1>1. empty \notin Nat
  BY DEF empty
<1>2. QED
  BY <1>1, HashTableAssumption

LEMMA NextCell ==
    ASSUME NEW h \in Cells
    PROVE  incrementIndex(h) \in Cells /\ decrementIndex(h) \in Cells
<1>1. m \in Nat /\ h \in 0..(m - 1)
  BY HashTableAssumption DEF Cells
<1>2. (IF h + 1 = m THEN 0 ELSE h + 1) \in 0..(m - 1)
  BY <1>1
<1>3. (IF h = 0 THEN m - 1 ELSE h - 1) \in 0..(m - 1)
  BY <1>1
<1>4. QED
  BY <1>2, <1>3 DEF incrementIndex, decrementIndex, Cells

LEMMA HashIsCell ==
    ASSUME TableTypeOK, NEW k \in Keys
    PROVE  hash[k] \in Cells
<1>1. hash \in [Keys -> Cells]
  BY HashTableAssumption DEF TableTypeOK
<1>2. QED
  BY <1>1

(* ----------------------------- Counting -------------------------------- *)

LEMMA CopiesFinite ==
    ASSUME NEW k
    PROVE  IsFiniteSet(Copies(k)) /\ Cardinality(Copies(k)) \in Nat
<1>1. m \in Nat
  BY HashTableAssumption
<1>2. 0 \in Int /\ m - 1 \in Int
  BY <1>1
<1>3. IsFiniteSet(Cells)
  BY <1>2, FS_Interval DEF Cells
<1>4. Copies(k) \subseteq Cells
  BY DEF Copies
<1>5. IsFiniteSet(Copies(k))
  BY <1>3, <1>4, FS_Subset
<1>6. QED
  BY <1>5, FS_CardinalityType

LEMMA HoldersFinite ==
    ASSUME NEW k
    PROVE  IsFiniteSet(Holders(k)) /\ Cardinality(Holders(k)) \in Nat
<1>1. Holders(k) \subseteq Procs
  BY DEF Holders
<1>2. IsFiniteSet(Holders(k))
  BY <1>1, HashTableAssumption, FS_Subset
<1>3. QED
  BY <1>2, FS_CardinalityType

LEMMA CopiesFinitePrime ==
    ASSUME NEW k
    PROVE  IsFiniteSet(Copies(k)') /\ Cardinality(Copies(k)') \in Nat
<1>1. m \in Nat
  BY HashTableAssumption
<1>2. 0 \in Int /\ m - 1 \in Int
  BY <1>1
<1>3. IsFiniteSet(Cells)
  BY <1>2, FS_Interval DEF Cells
<1>4. Copies(k)' \subseteq Cells
  BY DEF Copies
<1>5. IsFiniteSet(Copies(k)')
  BY <1>3, <1>4, FS_Subset
<1>6. QED
  BY <1>5, FS_CardinalityType

(* A set that holds something counts for more than nothing.                *)
LEMMA Some ==
    ASSUME NEW S, IsFiniteSet(S), S # {}
    PROVE  0 < Cardinality(S)
<1>1. Cardinality(S) \in Nat /\ Cardinality(S) # 0
  BY FS_CardinalityType, FS_EmptySet
<1>2. QED
  BY <1>1

LEMMA Fewer ==
    ASSUME NEW S, NEW T, IsFiniteSet(T), S \subseteq T, NEW n \in Nat, Cardinality(T) < n
    PROVE  Cardinality(S) < n
<1>1. IsFiniteSet(S) /\ Cardinality(S) <= Cardinality(T)
  BY FS_Subset
<1>2. Cardinality(S) \in Nat /\ Cardinality(T) \in Nat
  BY <1>1, FS_CardinalityType
<1>3. QED
  BY <1>1, <1>2

(* One less, or one more, on both sides.                                   *)
LEMMA BothLess ==
    ASSUME NEW S, NEW T, NEW s \in S, NEW t \in T, IsFiniteSet(S), IsFiniteSet(T),
           Cardinality(S) < Cardinality(T)
    PROVE  Cardinality(S \ {s}) < Cardinality(T \ {t})
<1>1. /\ Cardinality(S \ {s}) = Cardinality(S) - 1
      /\ Cardinality(T \ {t}) = Cardinality(T) - 1
  BY FS_RemoveElement
<1>2. Cardinality(S) \in Nat /\ Cardinality(T) \in Nat
  BY FS_CardinalityType
<1>3. QED
  BY <1>1, <1>2

LEMMA BothMore ==
    ASSUME NEW S, NEW T, NEW s, NEW t, s \notin S, t \notin T, IsFiniteSet(S), IsFiniteSet(T),
           Cardinality(S) < Cardinality(T)
    PROVE  Cardinality(S \cup {s}) < Cardinality(T \cup {t})
<1>1. /\ Cardinality(S \cup {s}) = Cardinality(S) + 1
      /\ Cardinality(T \cup {t}) = Cardinality(T) + 1
  BY FS_AddElement
<1>2. Cardinality(S) \in Nat /\ Cardinality(T) \in Nat
  BY FS_CardinalityType
<1>3. QED
  BY <1>1, <1>2

(* ------------------------------ Barriers ------------------------------- *)

(* Between two phases each key is in a cell.                               *)
LEMMA AllInCells ==
    ASSUME TableInv, Quiet, NEW k \in contents
    PROVE  Copies(k) # {}
<1>1. Holders(k) = {}
  BY DEF Quiet, Holders
<1>2. phase \in {"insert", "delete"}
  BY DEF TableInv, TableTypeOK
<1>3. CASE phase = "insert"
  BY <1>1, <1>3 DEF TableInv, InsertInv
<1>4. CASE phase = "delete"
  <2>1. Cardinality(Holders(k)) < Cardinality(Copies(k))
    BY <1>4 DEF TableInv, DeleteInv
  <2>2. Cardinality(Holders(k)) = 0
    BY <1>1, FS_EmptySet
  <2>3. Cardinality(Copies(k)) # 0
    BY <2>1, <2>2
  <2>4. QED
    BY <2>3, FS_EmptySet
<1>5. QED
  BY <1>2, <1>3, <1>4

LEMMA StartStep == TableInv /\ StartPhase => TableInv'
<1> SUFFICES ASSUME TableInv, StartPhase PROVE TableInv'
  OBVIOUS
<1>1. /\ Quiet /\ phase' \in {"insert", "delete"} /\ key' \in [Procs -> Keys]
      /\ before' = contents
      /\ at' = [q \in Procs |-> phase']
      /\ v' = key' /\ i' = [q \in Procs |-> hash[key'[q]]]
      /\ c' = [q \in Procs |-> empty] /\ j' = i' /\ jj' = i' /\ jjj' = i' /\ x' = c'
      /\ returned' = [q \in Procs |-> FALSE]
      /\ TA' = TA /\ hash' = hash
  BY DEF StartPhase
<1> DEFINE ks == {key'[q] : q \in Procs}
<1>2. contents' = IF phase' = "insert" THEN contents \cup ks ELSE contents \ ks
  BY DEF StartPhase
<1>3. TableTypeOK
  BY DEF TableInv
<1>4. TableTypeOK'
  <2>1. i' \in [Procs -> Cells]
    <3>1. \A q \in Procs : key'[q] \in Keys
      BY <1>1
    <3>2. \A q \in Procs : hash[key'[q]] \in Cells
      BY <1>3, <3>1, HashIsCell
    <3>3. QED
      BY <1>1, <3>2
  <2>2. j' \in [Procs -> Cells] /\ jj' \in [Procs -> Cells] /\ jjj' \in [Procs -> Cells]
    BY <1>1, <2>1
  <2>3. ks \subseteq Keys
    BY <1>1
  <2>4. contents' \subseteq Keys /\ before' \subseteq Keys
    BY <1>1, <1>2, <1>3, <2>3 DEF TableTypeOK
  <2>5. at' \in [Procs -> StepsOf(phase)']
    BY <1>1 DEF StepsOf
  <2>6. c' \in [Procs -> Keys \cup {empty}] /\ x' \in [Procs -> Keys \cup {empty}]
    BY <1>1
  <2>7. returned' \in [Procs -> BOOLEAN]
    BY <1>1
  <2>8. QED
    BY <1>1, <1>3, <2>1, <2>2, <2>4, <2>5, <2>6, <2>7 DEF TableTypeOK
<1>5. HoleInv'
  BY <1>1 DEF HoleInv
<1>6. \A k : Copies(k)' = Copies(k)
  BY <1>1 DEF Copies
<1>7. InsertInv'
  <2> SUFFICES ASSUME phase' = "insert", NEW k \in contents'
               PROVE  Copies(k)' # {} \/ Holders(k)' # {}
    BY DEF InsertInv
  <2>1. CASE k \in contents
    BY <1>1, <1>6, <2>1, AllInCells
  <2>2. CASE k \in ks
    <3>1. PICK q \in Procs : key'[q] = k
      BY <2>2
    <3>2. at'[q] # "idle" /\ v'[q] = k
      BY <1>1, <3>1
    <3>3. QED
      BY <3>2 DEF Holders
  <2>3. QED
    BY <1>2, <2>1, <2>2
<1>8. DeleteInv'
  <2> SUFFICES ASSUME phase' = "delete", NEW k \in contents'
               PROVE  Cardinality(Holders(k)') < Cardinality(Copies(k)')
    BY DEF DeleteInv
  <2>1. k \in contents /\ k \notin ks
    BY <1>2
  <2>2. Holders(k)' = {}
    BY <1>1, <2>1 DEF Holders
  <2>3. Cardinality(Holders(k)') = 0
    BY <2>2, FS_EmptySet
  <2>4. 0 < Cardinality(Copies(k))
    BY <1>1, <2>1, AllInCells, CopiesFinite, Some
  <2>5. QED
    BY <1>6, <2>3, <2>4
<1>9. QED
  BY <1>4, <1>5, <1>7, <1>8 DEF TableInv

(* ----------------------------- Operations ------------------------------ *)

(* Steps in which an operation looks around, or returns.  An insert may do *)
(* so once its key is in a cell.                                           *)
LEMMA LocalStep ==
    ASSUME TableInv, NEW q \in Procs, NEW l \in StepsOf(phase), at[q] # "idle",
           at' = [at EXCEPT ![q] = l], UNCHANGED <<TA, callVars, v>>,
           phase = "insert" /\ l = "idle" => Copies(v[q]) # {}
    PROVE  InsertInv' /\ DeleteInv' /\ at' \in [Procs -> StepsOf(phase)']
<1>1. /\ TA' = TA /\ v' = v /\ contents' = contents /\ phase' = phase
  BY DEF callVars
<1>2. at \in [Procs -> StepsOf(phase)]
  BY DEF TableInv, TableTypeOK
<1>3. \A k : Copies(k)' = Copies(k)
  BY <1>1 DEF Copies
<1>4. \A k : Holders(k)' \subseteq Holders(k)
  BY <1>1, <1>2 DEF Holders
<1>5. ASSUME NEW k, NEW r \in Holders(k), r \notin Holders(k)' PROVE r = q /\ l = "idle" /\ k = v[q]
  BY <1>1, <1>2, <1>5 DEF Holders
<1>6. ASSUME phase' = "insert", NEW k \in contents' PROVE Copies(k)' # {} \/ Holders(k)' # {}
  <2>1. Copies(k) # {} \/ Holders(k) # {}
    BY <1>1, <1>6 DEF TableInv, InsertInv
  <2>2. CASE Copies(k) # {}
    BY <1>3, <2>2
  <2>3. CASE Copies(k) = {}
    <3>1. PICK r \in Holders(k) : TRUE
      BY <2>1, <2>3
    <3>2. r \in Holders(k)'
      BY <1>1, <1>5, <1>6, <2>3, <3>1
    <3>3. QED
      BY <3>2
  <2>4. QED
    BY <2>2, <2>3
<1>7. ASSUME phase' = "delete", NEW k \in contents'
      PROVE  Cardinality(Holders(k)') < Cardinality(Copies(k)')
  <2>1. Cardinality(Holders(k)) < Cardinality(Copies(k))
    BY <1>1, <1>7 DEF TableInv, DeleteInv
  <2>2. IsFiniteSet(Holders(k)) /\ Cardinality(Copies(k)) \in Nat
    BY CopiesFinite, HoldersFinite
  <2>3. Cardinality(Holders(k)') < Cardinality(Copies(k))
    BY <1>4, <2>1, <2>2, Fewer
  <2>4. QED
    BY <1>3, <2>3
<1>8. at' \in [Procs -> StepsOf(phase)']
  <2>1. StepsOf(phase)' = StepsOf(phase)
    BY <1>1 DEF StepsOf
  <2>2. at' \in [Procs -> StepsOf(phase)]
    BY <1>2
  <2>3. QED
    BY <2>1, <2>2
<1>9. QED
  BY <1>6, <1>7, <1>8 DEF InsertInv, DeleteInv

(* The types of the variables that no operation writes.                    *)
LEMMA CallStays ==
    ASSUME TableTypeOK, UNCHANGED callVars
    PROVE  /\ (hash \in Hashes)' /\ (phase \in {"insert", "delete"})'
           /\ (contents \subseteq Keys)' /\ (before \subseteq Keys)'
           /\ (key \in [Procs -> Keys])' /\ hash' = hash /\ phase' = phase
BY DEF TableTypeOK, callVars

(* What a step reads from a cell.                                          *)
LEMMA ReadStep ==
    ASSUME TableTypeOK, NEW q \in Procs, NEW a \in Cells
    PROVE  /\ TA[a] \in Keys \cup {empty}
           /\ [c EXCEPT ![q] = TA[a]] \in [Procs -> Keys \cup {empty}]
           /\ [x EXCEPT ![q] = TA[a]] \in [Procs -> Keys \cup {empty}]
           /\ [i EXCEPT ![q] = a] \in [Procs -> Cells]
           /\ [j EXCEPT ![q] = a] \in [Procs -> Cells]
           /\ [jj EXCEPT ![q] = a] \in [Procs -> Cells]
           /\ [jjj EXCEPT ![q] = a] \in [Procs -> Cells]
BY DEF TableTypeOK

LEMMA OwnCells ==
    ASSUME TableTypeOK, NEW q \in Procs
    PROVE  /\ i[q] \in Cells /\ j[q] \in Cells /\ jj[q] \in Cells /\ jjj[q] \in Cells
           /\ v[q] \in Keys
           /\ c[q] \in Keys \cup {empty} /\ x[q] \in Keys \cup {empty}
BY DEF TableTypeOK

LEMMA Returned ==
    ASSUME TableTypeOK, NEW q \in Procs,
           (\E r \in BOOLEAN : Return(q, r)) \/ (\E l : GoTo(q, l))
    PROVE  (returned \in [Procs -> BOOLEAN])'
BY DEF TableTypeOK, Return, GoTo

LEMMA InsertReadStep ==
    ASSUME TableInv, NEW q \in Procs, InsertRead(q)
    PROVE  TableInv'
<1>1. TableTypeOK
  BY DEF TableInv
<1>2. /\ at[q] = "insert" /\ c' = [c EXCEPT ![q] = TA[i[q]]]
      /\ UNCHANGED <<TA, callVars, v, j, jj, jjj, x>>
  BY DEF InsertRead
<1>3. phase = "insert"
  BY <1>1, <1>2 DEF TableTypeOK, StepsOf
<1>4. i[q] \in Cells /\ incrementIndex(i[q]) \in Cells /\ v[q] \in Keys
  BY <1>1, OwnCells, NextCell
<1>5. c'[q] = TA[i[q]]
  BY <1>1, <1>2 DEF TableTypeOK
<1>6. \/ c'[q] = v[q] /\ Return(q, FALSE) /\ i' = i
      \/ GoTo(q, "insert") /\ i' = [i EXCEPT ![q] = incrementIndex(i[q])]
      \/ GoTo(q, "insert cas") /\ i' = i
      \/ ~(c'[q] = v[q] \/ c'[q] > v[q] \/ c'[q] < v[q])
  BY DEF InsertRead
<1>7. c'[q] = v[q] \/ c'[q] > v[q] \/ c'[q] < v[q]
  <2> DEFINE a == c'[q]
             b == v[q]
  <2>1. a \in Keys \cup {empty} /\ b \in Keys
    BY <1>1, <1>4, <1>5, ReadStep
  <2>2. a \in Int /\ b \in Int
    <3>1. empty \in Int /\ Nat \subseteq Int
      BY DEF empty
    <3>2. Keys \subseteq Int
      BY <3>1, HashTableAssumption
    <3> HIDE DEF a, b
    <3>3. QED
      BY <2>1, <3>1, <3>2
  <2> HIDE DEF a, b
  <2>3. a = b \/ a > b \/ a < b
    BY <2>2
  <2>4. QED
    BY <2>3 DEF a, b
<1>8. i' \in [Procs -> Cells] /\ c' \in [Procs -> Keys \cup {empty}]
  <2>1. i' = i \/ i' = [i EXCEPT ![q] = incrementIndex(i[q])]
    BY <1>6, <1>7
  <2>2. i \in [Procs -> Cells]
    BY <1>1 DEF TableTypeOK
  <2>3. QED
    BY <1>1, <1>2, <1>4, <2>1, <2>2, ReadStep
<1>9. (returned \in [Procs -> BOOLEAN])'
  BY <1>1, <1>6, <1>7, Returned
<1>10. PICK l \in StepsOf(phase) : at' = [at EXCEPT ![q] = l] /\ (l = "idle" => Copies(v[q]) # {})
  <2>1. CASE c'[q] = v[q] /\ Return(q, FALSE)
    <3>1. i[q] \in Copies(v[q])
      BY <1>4, <1>5, <2>1 DEF Copies
    <3>2. QED
      BY <1>3, <2>1, <3>1 DEF Return, StepsOf
  <2>2. CASE GoTo(q, "insert")
    BY <1>3, <2>2 DEF GoTo, StepsOf
  <2>3. CASE GoTo(q, "insert cas")
    BY <1>3, <2>3 DEF GoTo, StepsOf
  <2>4. QED
    BY <1>6, <1>7, <2>1, <2>2, <2>3
<1>11. InsertInv' /\ DeleteInv' /\ at' \in [Procs -> StepsOf(phase)']
  BY <1>2, <1>10, LocalStep
<1>12. TableTypeOK'
  BY <1>1, <1>2, <1>8, <1>9, <1>11, CallStays DEF TableTypeOK
<1>13. HoleInv'
  <2>1. phase' = "insert"
    BY <1>1, <1>2, <1>3, CallStays
  <2>2. \A r \in Procs : at'[r] \in {"idle", "insert", "insert cas"}
    BY <1>11, <2>1 DEF StepsOf
  <2>3. QED
    BY <2>2 DEF HoleInv
<1>14. QED
  BY <1>11, <1>12, <1>13 DEF TableInv

LEMMA HoleStep ==
    ASSUME TableInv, NEW q \in Procs, NEW l, at' = [at EXCEPT ![q] = l],
           \A r \in Procs : r # q => c'[r] = c[r] /\ v'[r] = v[r],
           l \in {"replacement", "recheck"} => c'[q] = v'[q]
    PROVE  HoleInv'
<1>1. at \in [Procs -> StepsOf(phase)] /\ HoleInv
  BY DEF TableInv, TableTypeOK
<1>2. ASSUME NEW r \in Procs, at'[r] \in {"replacement", "recheck"} PROVE c'[r] = v'[r]
  <2>1. CASE r = q
    BY <1>1, <1>2, <2>1
  <2>2. CASE r # q
    BY <1>1, <1>2, <2>2 DEF HoleInv
  <2>3. QED
    BY <2>1, <2>2
<1>3. QED
  BY <1>2 DEF HoleInv

(* A swap in an insert puts one key from hands into a cell, and the key of *)
(* the cell into hands.                                                    *)
LEMMA InsertCasStep ==
    ASSUME TableInv, NEW q \in Procs, InsertCas(q)
    PROVE  TableInv'
<1>1. TableTypeOK
  BY DEF TableInv
<1>2. at[q] = "insert cas" /\ UNCHANGED <<callVars, c, j, jj, jjj, x>>
  BY DEF InsertCas
<1>3. phase = "insert"
  BY <1>1, <1>2 DEF TableTypeOK, StepsOf
<1>4. i[q] \in Cells /\ incrementIndex(i[q]) \in Cells /\ v[q] \in Keys
  BY <1>1, OwnCells, NextCell
<1>5. CASE TA[i[q]] # c[q]
  <2>1. GoTo(q, "insert") /\ UNCHANGED <<TA, v, i>>
    BY <1>5 DEF InsertCas
  <2>2. at' = [at EXCEPT ![q] = "insert"] /\ "insert" \in StepsOf(phase)
    BY <1>3, <2>1 DEF GoTo, StepsOf
  <2>3. InsertInv' /\ DeleteInv' /\ at' \in [Procs -> StepsOf(phase)']
    BY <1>2, <2>1, <2>2, LocalStep
  <2>4. (returned \in [Procs -> BOOLEAN])'
    BY <1>1, <2>1, Returned
  <2>5. TableTypeOK'
    BY <1>1, <1>2, <2>1, <2>3, <2>4, CallStays DEF TableTypeOK
  <2>6. HoleInv'
    BY <1>2, <2>1, <2>2, HoleStep
  <2>7. QED
    BY <2>3, <2>5, <2>6 DEF TableInv
<1>6. CASE TA[i[q]] = c[q]
  <2>1. TA' = [TA EXCEPT ![i[q]] = v[q]]
    BY <1>6 DEF InsertCas
  <2>2. \/ c[q] = empty /\ Return(q, TRUE) /\ UNCHANGED <<v, i>>
        \/ /\ c[q] # empty /\ GoTo(q, "insert")
           /\ v' = [v EXCEPT ![q] = c[q]] /\ i' = [i EXCEPT ![q] = incrementIndex(i[q])]
    BY <1>6 DEF InsertCas
  <2>3. phase' = "insert" /\ contents' = contents
    BY <1>2, <1>3 DEF callVars
  <2>4. PICK l \in {"idle", "insert"} : at' = [at EXCEPT ![q] = l]
    BY <2>2 DEF Return, GoTo
  <2>5. at' \in [Procs -> StepsOf(phase)']
    <3>1. at \in [Procs -> StepsOf(phase)] /\ l \in StepsOf(phase)
      BY <1>1, <1>3, <2>4 DEF TableTypeOK, StepsOf
    <3>2. at' \in [Procs -> StepsOf(phase)]
      BY <2>4, <3>1
    <3>3. QED
      BY <1>3, <2>3, <3>2
  <2>6. TA' \in [Cells -> Keys \cup {empty}]
    BY <1>1, <1>4, <2>1 DEF TableTypeOK
  <2>7. v' \in [Procs -> Keys] /\ i' \in [Procs -> Cells]
    <3>1. v \in [Procs -> Keys] /\ i \in [Procs -> Cells] /\ (c[q] # empty => c[q] \in Keys)
      BY <1>1, OwnCells DEF TableTypeOK
    <3>2. v' = v \/ (c[q] \in Keys /\ v' = [v EXCEPT ![q] = c[q]])
      BY <2>2, <3>1
    <3>3. i' = i \/ i' = [i EXCEPT ![q] = incrementIndex(i[q])]
      BY <2>2
    <3>4. QED
      BY <1>1, <1>4, <3>1, <3>2, <3>3, ReadStep
  <2>8. (returned \in [Procs -> BOOLEAN])'
    BY <1>1, <2>2, Returned
  <2>9. TableTypeOK'
    BY <1>1, <1>2, <2>5, <2>6, <2>7, <2>8, CallStays DEF TableTypeOK
  <2>10. HoleInv'
    <3>1. \A r \in Procs : at'[r] \in {"idle", "insert", "insert cas"}
      BY <2>3, <2>5 DEF StepsOf
    <3>2. QED
      BY <3>1 DEF HoleInv
  <2>11. ASSUME NEW k \in contents PROVE Copies(k)' # {} \/ Holders(k)' # {}
    <3>1. Copies(k) # {} \/ Holders(k) # {}
      BY <1>3 DEF TableInv, InsertInv
    <3>2. TA \in [Cells -> Keys \cup {empty}] /\ at \in [Procs -> StepsOf(phase)]
          /\ v \in [Procs -> Keys] /\ k \in Keys
      BY <1>1 DEF TableTypeOK
    <3>3. CASE k = v[q]
      <4>1. TA'[i[q]] = k
        BY <1>4, <2>1, <3>2, <3>3
      <4>2. QED
        BY <1>4, <4>1 DEF Copies
    <3>4. CASE k # v[q] /\ Holders(k) # {}
      <4>1. PICK r \in Procs : at[r] # "idle" /\ v[r] = k
        BY <3>4 DEF Holders
      <4>2. r # q
        BY <3>4, <4>1
      <4>3. at'[r] # "idle" /\ v'[r] = k
        BY <2>2, <2>4, <3>2, <4>1, <4>2
      <4>4. QED
        BY <4>3 DEF Holders
    <3>5. CASE Copies(k) # {} /\ k # c[q]
      <4>1. PICK a \in Cells : TA[a] = k
        BY <3>5 DEF Copies
      <4>2. a # i[q]
        BY <1>6, <3>5, <4>1
      <4>3. TA'[a] = k
        BY <2>1, <3>2, <4>1, <4>2
      <4>4. QED
        BY <4>3 DEF Copies
    <3>6. CASE k = c[q]
      <4>1. k # empty
        BY <3>2, EmptyIsNoKey
      <4>2. GoTo(q, "insert") /\ v' = [v EXCEPT ![q] = c[q]]
        BY <2>2, <3>6, <4>1
      <4>3. at'[q] = "insert" /\ v'[q] = k
        BY <3>2, <3>6, <4>2 DEF GoTo
      <4>4. QED
        BY <4>3 DEF Holders
    <3>7. QED
      BY <3>1, <3>3, <3>4, <3>5, <3>6
  <2>12. InsertInv' /\ DeleteInv'
    BY <2>3, <2>11 DEF InsertInv, DeleteInv
  <2>13. QED
    BY <2>9, <2>10, <2>12 DEF TableInv
<1>7. QED
  BY <1>5, <1>6

(* The steps of a delete that only look around.                            *)
LEMMA DeleteLocalStep ==
    ASSUME TableInv, NEW q \in Procs, at[q] \in {"delete", "seek", "match", "replacement", "recheck", "reread"},
           UNCHANGED <<TA, callVars, v, i>>,
           NEW l \in {"idle", "delete", "seek", "match", "replacement", "recheck", "reread"},
           at' = [at EXCEPT ![q] = l],
           (\E r \in BOOLEAN : Return(q, r)) \/ (\E k : GoTo(q, k)),
           NEW a \in Cells, c' = c \/ c' = [c EXCEPT ![q] = TA[a]],
           l \in {"replacement", "recheck"} => c'[q] = v[q],
           (j \in [Procs -> Cells])', (jj \in [Procs -> Cells])', (jjj \in [Procs -> Cells])',
           (x \in [Procs -> Keys \cup {empty}])'
    PROVE  TableInv'
<1>1. TableTypeOK
  BY DEF TableInv
<1>2. phase = "delete"
  BY <1>1 DEF TableTypeOK, StepsOf
<1>3. l \in StepsOf(phase) /\ at[q] # "idle"
  BY <1>2 DEF StepsOf
<1>4. InsertInv' /\ DeleteInv' /\ at' \in [Procs -> StepsOf(phase)']
  BY <1>2, <1>3, LocalStep
<1>5. c' \in [Procs -> Keys \cup {empty}]
  BY <1>1, ReadStep DEF TableTypeOK
<1>6. (returned \in [Procs -> BOOLEAN])'
  BY <1>1, Returned
<1>7. TableTypeOK'
  BY <1>1, <1>4, <1>5, <1>6, CallStays DEF TableTypeOK
<1>8. \A r \in Procs : r # q => c'[r] = c[r]
  BY <1>1 DEF TableTypeOK
<1>9. HoleInv'
  BY <1>8, HoleStep
<1>10. QED
  BY <1>4, <1>7, <1>9 DEF TableInv

LEMMA DeleteLookStep ==
    ASSUME TableInv, NEW q \in Procs, DeleteFirst(q) \/ DeleteSeek(q) \/ DeleteReread(q)
    PROVE  TableInv'
<1>1. TableTypeOK
  BY DEF TableInv
<1>2. j[q] \in Cells /\ incrementIndex(j[q]) \in Cells
  BY <1>1, OwnCells, NextCell
<1>3. j \in [Procs -> Cells] /\ jj \in [Procs -> Cells] /\ jjj \in [Procs -> Cells]
      /\ x \in [Procs -> Keys \cup {empty}]
  BY <1>1 DEF TableTypeOK
<1>4. CASE DeleteFirst(q)
  <2>1. /\ at[q] = "delete" /\ c' = [c EXCEPT ![q] = TA[j[q]]]
        /\ UNCHANGED <<TA, callVars, v, i, j, jj, jjj, x>>
        /\ Return(q, TRUE) \/ GoTo(q, "seek") \/ GoTo(q, "match")
    BY <1>4 DEF DeleteFirst
  <2>2. PICK l \in {"idle", "seek", "match"} : at' = [at EXCEPT ![q] = l]
    BY <2>1 DEF Return, GoTo
  <2>3. QED
    BY <1>2, <1>3, <2>1, <2>2, DeleteLocalStep
<1>5. CASE DeleteSeek(q)
  <2>1. /\ at[q] = "seek" /\ j' = [j EXCEPT ![q] = incrementIndex(j[q])]
        /\ c' = [c EXCEPT ![q] = TA[j'[q]]]
        /\ UNCHANGED <<TA, callVars, v, i, jj, jjj, x>>
        /\ GoTo(q, "seek") \/ GoTo(q, "match")
    BY <1>5 DEF DeleteSeek
  <2>2. PICK l \in {"seek", "match"} : at' = [at EXCEPT ![q] = l]
    BY <2>1 DEF GoTo
  <2>3. j' \in [Procs -> Cells] /\ j'[q] \in Cells
    BY <1>2, <1>3, <2>1
  <2>4. QED
    BY <1>3, <2>1, <2>2, <2>3, DeleteLocalStep
<1>6. CASE DeleteReread(q)
  <2>1. /\ at[q] = "reread" /\ c' = [c EXCEPT ![q] = TA[j[q]]]
        /\ UNCHANGED <<TA, callVars, v, i, j, jj, jjj, x>> /\ GoTo(q, "match")
    BY <1>6 DEF DeleteReread
  <2>2. at' = [at EXCEPT ![q] = "match"]
    BY <2>1 DEF GoTo
  <2>3. QED
    BY <1>2, <1>3, <2>1, <2>2, DeleteLocalStep
<1>7. QED
  BY <1>4, <1>5, <1>6

LEMMA DeleteMatchStep ==
    ASSUME TableInv, NEW q \in Procs, DeleteNoMatch(q) \/ DeleteMatch(q)
    PROVE  TableInv'
<1>1. TableTypeOK
  BY DEF TableInv
<1>2. j[q] \in Cells /\ decrementIndex(j[q]) \in Cells
  BY <1>1, OwnCells, NextCell
<1>3. j \in [Procs -> Cells] /\ jj \in [Procs -> Cells] /\ jjj \in [Procs -> Cells]
      /\ x \in [Procs -> Keys \cup {empty}]
  BY <1>1 DEF TableTypeOK
<1>4. CASE DeleteNoMatch(q)
  <2>1. /\ at[q] = "match" /\ UNCHANGED <<TA, callVars, v, i, jj, jjj, x>>
        /\ \/ Return(q, TRUE) /\ UNCHANGED <<j, c>>
           \/ /\ j' = [j EXCEPT ![q] = decrementIndex(j[q])]
              /\ c' = [c EXCEPT ![q] = TA[j'[q]]] /\ GoTo(q, "match")
    BY <1>4 DEF DeleteNoMatch
  <2>2. PICK l \in {"idle", "match"} : at' = [at EXCEPT ![q] = l]
    BY <2>1 DEF Return, GoTo
  <2>3. j' \in [Procs -> Cells] /\ j'[q] \in Cells
    BY <1>2, <1>3, <2>1
  <2>4. c' = c \/ c' = [c EXCEPT ![q] = TA[j'[q]]]
    BY <2>1
  <2>5. QED
    BY <1>3, <2>1, <2>2, <2>3, <2>4, DeleteLocalStep
<1>5. CASE DeleteMatch(q)
  <2>1. /\ at[q] = "match" /\ c[q] = v[q] /\ jj' = [jj EXCEPT ![q] = j[q]]
        /\ UNCHANGED <<TA, callVars, v, i, c, j, jjj, x>> /\ GoTo(q, "replacement")
    BY <1>5 DEF DeleteMatch
  <2>2. at' = [at EXCEPT ![q] = "replacement"]
    BY <2>1 DEF GoTo
  <2>3. jj' \in [Procs -> Cells]
    BY <1>1, <1>2, <2>1, ReadStep
  <2>4. QED
    BY <1>2, <1>3, <2>1, <2>2, <2>3, DeleteLocalStep
<1>6. QED
  BY <1>4, <1>5

LEMMA DeleteSearchStep ==
    ASSUME TableInv, NEW q \in Procs, DeleteReplacement(q) \/ DeleteRecheck(q)
    PROVE  TableInv'
<1>1. TableTypeOK /\ HoleInv
  BY DEF TableInv
<1>2. /\ j[q] \in Cells /\ jj[q] \in Cells /\ jjj[q] \in Cells
      /\ incrementIndex(jj[q]) \in Cells /\ decrementIndex(jjj[q]) \in Cells
  BY <1>1, OwnCells, NextCell
<1>3. j \in [Procs -> Cells] /\ jj \in [Procs -> Cells] /\ jjj \in [Procs -> Cells]
      /\ x \in [Procs -> Keys \cup {empty}]
  BY <1>1 DEF TableTypeOK
<1>4. CASE DeleteReplacement(q)
  <2>1. /\ at[q] = "replacement" /\ jj' = [jj EXCEPT ![q] = incrementIndex(jj[q])]
        /\ x' = [x EXCEPT ![q] = TA[jj'[q]]]
        /\ UNCHANGED <<TA, callVars, v, i, c, j>>
        /\ \/ GoTo(q, "replacement") /\ jjj' = jjj
           \/ GoTo(q, "recheck") /\ jjj' = [jjj EXCEPT ![q] = decrementIndex(jj'[q])]
    BY <1>4 DEF DeleteReplacement
  <2>2. PICK l \in {"replacement", "recheck"} : at' = [at EXCEPT ![q] = l]
    BY <2>1 DEF GoTo
  <2>3. jj' \in [Procs -> Cells] /\ jj'[q] \in Cells
    BY <1>2, <1>3, <2>1
  <2>4. jjj' \in [Procs -> Cells] /\ x' \in [Procs -> Keys \cup {empty}]
    BY <1>1, <1>3, <2>1, <2>3, ReadStep, NextCell
  <2>5. c[q] = v[q]
    BY <1>1, <2>1 DEF HoleInv
  <2>6. QED
    BY <1>2, <1>3, <2>1, <2>2, <2>3, <2>4, <2>5, DeleteLocalStep
<1>5. CASE DeleteRecheck(q)
  <2>1. /\ at[q] = "recheck"
        /\ UNCHANGED <<x, jj>> \/ (x' = [x EXCEPT ![q] = TA[jjj[q]]] /\ jj' = [jj EXCEPT ![q] = jjj[q]])
        /\ jjj' = [jjj EXCEPT ![q] = decrementIndex(jjj[q])]
        /\ GoTo(q, "recheck") /\ UNCHANGED <<TA, callVars, v, i, c, j>>
    BY <1>5 DEF DeleteRecheck
  <2>2. at' = [at EXCEPT ![q] = "recheck"]
    BY <2>1 DEF GoTo
  <2>3. jjj' \in [Procs -> Cells]
    BY <1>1, <1>2, <2>1, ReadStep
  <2>4. jj' \in [Procs -> Cells] /\ x' \in [Procs -> Keys \cup {empty}]
    BY <1>1, <1>2, <1>3, <2>1, ReadStep
  <2>5. c[q] = v[q]
    BY <1>1, <2>1 DEF HoleInv
  <2>6. QED
    BY <1>2, <1>3, <2>1, <2>2, <2>3, <2>4, <2>5, DeleteLocalStep
<1>6. QED
  BY <1>4, <1>5

(* A delete that fills its hole takes one copy of its own key away and is  *)
(* done with it; it makes one copy of the replacement and goes on with it. *)
LEMMA DeleteCasStep ==
    ASSUME TableInv, NEW q \in Procs, DeleteCas(q)
    PROVE  TableInv'
<1>1. TableTypeOK /\ HoleInv
  BY DEF TableInv
<1>2. at[q] = "recheck" /\ UNCHANGED <<callVars, c, jj, jjj, x>>
  BY DEF DeleteCas
<1>3. phase = "delete"
  BY <1>1, <1>2 DEF TableTypeOK, StepsOf
<1>4. /\ j[q] \in Cells /\ jj[q] \in Cells /\ v[q] \in Keys
      /\ x[q] \in Keys \cup {empty} /\ c[q] = v[q]
  BY <1>1, <1>2, OwnCells DEF HoleInv
<1>5. /\ j \in [Procs -> Cells] /\ jj \in [Procs -> Cells] /\ jjj \in [Procs -> Cells]
      /\ i \in [Procs -> Cells] /\ x \in [Procs -> Keys \cup {empty}] /\ v \in [Procs -> Keys]
      /\ at \in [Procs -> StepsOf(phase)] /\ TA \in [Cells -> Keys \cup {empty}]
  BY <1>1 DEF TableTypeOK
<1>6. CASE TA[j[q]] # c[q]
  <2>1. GoTo(q, "reread") /\ UNCHANGED <<TA, v, i, j>>
    BY <1>6 DEF DeleteCas
  <2>2. at' = [at EXCEPT ![q] = "reread"]
    BY <2>1 DEF GoTo
  <2>3. QED
    BY <1>2, <1>4, <1>5, <2>1, <2>2, DeleteLocalStep
<1>7. CASE TA[j[q]] = c[q]
  <2>1. TA' = [TA EXCEPT ![j[q]] = x[q]]
    BY <1>7 DEF DeleteCas
  <2>2. \/ x[q] = empty /\ Return(q, TRUE) /\ UNCHANGED <<v, i, j>>
        \/ /\ x[q] # empty /\ GoTo(q, "reread")
           /\ v' = [v EXCEPT ![q] = x[q]]
           /\ i' = [i EXCEPT ![q] = hash[x[q]]] /\ j' = [j EXCEPT ![q] = jj[q]]
    BY <1>7 DEF DeleteCas
  <2>3. phase' = "delete" /\ contents' = contents
    BY <1>2, <1>3 DEF callVars
  <2>4. PICK l \in {"idle", "reread"} : at' = [at EXCEPT ![q] = l]
    BY <2>2 DEF Return, GoTo
  <2>5. at' \in [Procs -> StepsOf(phase)']
    <3>1. l \in StepsOf(phase)
      BY <1>3, <2>4 DEF StepsOf
    <3>2. at' \in [Procs -> StepsOf(phase)]
      BY <1>5, <2>4, <3>1
    <3>3. QED
      BY <1>3, <2>3, <3>2
  <2>6. TA' \in [Cells -> Keys \cup {empty}]
    BY <1>4, <1>5, <2>1
  <2>7. v' \in [Procs -> Keys] /\ i' \in [Procs -> Cells] /\ j' \in [Procs -> Cells]
    <3>1. x[q] # empty => x[q] \in Keys /\ hash[x[q]] \in Cells
      BY <1>1, <1>4, HashIsCell
    <3>2. QED
      BY <1>4, <1>5, <2>2, <3>1
  <2>8. (returned \in [Procs -> BOOLEAN])'
    BY <1>1, <2>2, Returned
  <2>9. TableTypeOK'
    BY <1>1, <1>2, <2>5, <2>6, <2>7, <2>8, CallStays DEF TableTypeOK
  <2>10. HoleInv'
    <3>1. \A r \in Procs : r # q => c'[r] = c[r] /\ v'[r] = v[r]
      BY <1>2, <1>5, <2>2
    <3>2. QED
      BY <2>4, <3>1, HoleStep
  <2>11. ASSUME NEW k \in contents
         PROVE  Cardinality(Holders(k)') < Cardinality(Copies(k)')
    <3>1. Cardinality(Holders(k)) < Cardinality(Copies(k))
      BY <1>3 DEF TableInv, DeleteInv
    <3>2. IsFiniteSet(Copies(k)) /\ IsFiniteSet(Holders(k))
      BY CopiesFinite, HoldersFinite
    <3>3. k \in Keys /\ k # empty
      BY <1>1, EmptyIsNoKey DEF TableTypeOK
    <3>4. CASE x[q] = v[q]
      <4>1. Copies(k)' = Copies(k)
        <5>1. TA' = TA
          BY <1>4, <1>5, <1>7, <2>1, <3>4
        <5>2. QED
          BY <5>1 DEF Copies
      <4>2. Holders(k)' = Holders(k)
        <5>1. x[q] # empty
          BY <1>4, <3>4, EmptyIsNoKey
        <5>2. v' = v /\ at' = [at EXCEPT ![q] = "reread"]
          <6>1. GoTo(q, "reread") /\ v' = [v EXCEPT ![q] = x[q]]
            BY <2>2, <5>1
          <6>2. v' = v
            BY <1>5, <3>4, <6>1
          <6>3. QED
            BY <6>1, <6>2 DEF GoTo
        <5>3. QED
          BY <1>2, <1>5, <5>2 DEF Holders
      <4>3. QED
        BY <3>1, <4>1, <4>2
    <3>5. CASE x[q] # v[q] /\ k = v[q]
      <4>1. j[q] \in Copies(k) /\ Copies(k)' = Copies(k) \ {j[q]}
        BY <1>4, <1>5, <1>7, <2>1, <3>5 DEF Copies
      <4>2. q \in Holders(k)
        BY <1>2, <3>5 DEF Holders
      <4>3. Holders(k)' = Holders(k) \ {q}
        <5>1. q \notin Holders(k)'
          BY <1>5, <2>2, <3>5 DEF Holders, Return, GoTo
        <5>2. \A r \in Procs : r # q => at'[r] = at[r] /\ v'[r] = v[r]
          BY <1>5, <2>2, <2>4
        <5>3. QED
          BY <5>1, <5>2 DEF Holders
      <4>4. QED
        BY <3>1, <3>2, <4>1, <4>2, <4>3, BothLess
    <3>6. CASE x[q] # v[q] /\ k = x[q]
      <4>1. j[q] \notin Copies(k) /\ Copies(k)' = Copies(k) \cup {j[q]}
        BY <1>4, <1>5, <1>7, <2>1, <3>6 DEF Copies
      <4>2. q \notin Holders(k)
        BY <3>6 DEF Holders
      <4>3. Holders(k)' = Holders(k) \cup {q}
        <5>1. at'[q] = "reread" /\ v'[q] = k
          BY <1>5, <2>2, <3>3, <3>6 DEF GoTo
        <5>2. \A r \in Procs : r # q => at'[r] = at[r] /\ v'[r] = v[r]
          BY <1>5, <2>2, <2>4
        <5>3. QED
          BY <5>1, <5>2 DEF Holders
      <4>4. QED
        BY <3>1, <3>2, <4>1, <4>2, <4>3, BothMore
    <3>7. CASE k # v[q] /\ k # x[q]
      <4>1. Copies(k)' = Copies(k)
        BY <1>4, <1>5, <1>7, <2>1, <3>7 DEF Copies
      <4>2. Holders(k)' = Holders(k)
        <5>1. q \notin Holders(k) /\ q \notin Holders(k)'
          BY <1>5, <2>2, <3>7 DEF Holders
        <5>2. \A r \in Procs : r # q => at'[r] = at[r] /\ v'[r] = v[r]
          BY <1>5, <2>2, <2>4
        <5>3. QED
          BY <5>1, <5>2 DEF Holders
      <4>3. QED
        BY <3>1, <4>1, <4>2
    <3>8. QED
      BY <3>4, <3>5, <3>6, <3>7
  <2>12. InsertInv' /\ DeleteInv'
    BY <2>3, <2>11 DEF InsertInv, DeleteInv
  <2>13. QED
    BY <2>9, <2>10, <2>12 DEF TableInv
<1>8. QED
  BY <1>6, <1>7

(* ------------------------------ Theorems ------------------------------- *)

LEMMA TableInitInv == TableInit => TableInv
<1> SUFFICES ASSUME TableInit PROVE TableInv
  OBVIOUS
<1>1. /\ TA = [a \in Cells |-> empty] /\ hash \in Hashes
      /\ phase = "delete" /\ before = {} /\ contents = {}
      /\ key \in [Procs -> {CHOOSE k \in Keys : TRUE}]
      /\ returned = [q \in Procs |-> FALSE] /\ at = [q \in Procs |-> "idle"]
      /\ v = key /\ i = [q \in Procs |-> 0] /\ c = [q \in Procs |-> empty]
      /\ j = i /\ jj = i /\ jjj = i /\ x = c
  BY DEF TableInit
<1>2. key \in [Procs -> Keys]
  <2>1. (CHOOSE k \in Keys : TRUE) \in Keys
    BY HashTableAssumption
  <2>2. QED
    BY <1>1, <2>1
<1>3. 0 \in Cells
  <2>1. \E k \in Keys : TRUE
    BY HashTableAssumption
  <2>2. m \in Nat /\ Cardinality(Keys) \in Nat /\ Cardinality(Keys) < m
    BY HashTableAssumption, FS_CardinalityType
  <2>3. QED
    BY <2>2 DEF Cells
<1>4. TableTypeOK
  <2>1. at \in [Procs -> StepsOf(phase)]
    BY <1>1 DEF StepsOf
  <2>2. TA \in [Cells -> Keys \cup {empty}] /\ c \in [Procs -> Keys \cup {empty}]
        /\ i \in [Procs -> Cells] /\ returned \in [Procs -> BOOLEAN]
    BY <1>1, <1>3
  <2>3. QED
    BY <1>1, <1>2, <2>1, <2>2 DEF TableTypeOK
<1>5. HoleInv
  BY <1>1 DEF HoleInv
<1>6. InsertInv /\ DeleteInv
  BY <1>1 DEF InsertInv, DeleteInv
<1>7. QED
  BY <1>4, <1>5, <1>6 DEF TableInv

LEMMA TableInvStep == TableInv /\ [TableNext]_tableVars => TableInv'
<1> SUFFICES ASSUME TableInv, [TableNext]_tableVars PROVE TableInv'
  OBVIOUS
<1>1. CASE UNCHANGED tableVars
  <2>1. /\ UNCHANGED <<TA, hash, phase, before, contents, key, returned, at>>
        /\ UNCHANGED <<v, i, c, j, jj, jjj, x>>
    BY <1>1 DEF tableVars, callVars, localVars
  <2>2. TableTypeOK'
    <3>1. TableTypeOK
      BY DEF TableInv
    <3>2. StepsOf(phase)' = StepsOf(phase)
      BY <2>1 DEF StepsOf
    <3>3. QED
      BY <2>1, <3>1, <3>2 DEF TableTypeOK
  <2>3. HoleInv'
    BY <2>1 DEF TableInv, HoleInv
  <2>4. \A k : Copies(k)' = Copies(k) /\ Holders(k)' = Holders(k)
    BY <2>1 DEF Copies, Holders
  <2>5. InsertInv' /\ DeleteInv'
    BY <2>1, <2>4 DEF TableInv, InsertInv, DeleteInv
  <2>6. QED
    BY <2>2, <2>3, <2>5 DEF TableInv
<1>2. CASE StartPhase
  BY <1>2, StartStep
<1>3. ASSUME NEW q \in Procs, TableOperation(q) PROVE TableInv'
  BY <1>3, InsertReadStep, InsertCasStep, DeleteLookStep, DeleteMatchStep, DeleteSearchStep,
     DeleteCasStep DEF TableOperation
<1>4. QED
  BY <1>1, <1>2, <1>3 DEF TableNext

(* The inductive invariant: inserts hold what they have bumped, and of a   *)
(* key that is to stay there are more copies than deletes on their way.    *)
THEOREM TableInvariance == TableSpec => []TableInv
BY TableInitInv, TableInvStep, PTL DEF TableSpec

(* Every variable keeps its type: no index leaves the table.               *)
THEOREM TypeCorrect == TableSpec => []TableTypeOK
<1>1. TableInv => TableTypeOK
  BY DEF TableInv
<1>2. QED
  BY <1>1, TableInvariance, PTL

(* At every moment of a phase, a key that is to be in the table after it   *)
(* is in a cell, or an insert has it in hands.                             *)
THEOREM NothingLostCorrect == TableSpec => []NothingLost
<1>1. ASSUME TableInv PROVE NothingLost
  <2> SUFFICES ASSUME NEW k \in contents
               PROVE  \/ \E a \in Cells : TA[a] = k
                      \/ phase = "insert" /\ \E q \in Procs : at[q] # "idle" /\ v[q] = k
    BY DEF NothingLost
  <2>1. phase \in {"insert", "delete"}
    BY <1>1 DEF TableInv, TableTypeOK
  <2>2. CASE phase = "insert"
    BY <1>1, <2>2 DEF TableInv, InsertInv, Copies, Holders
  <2>3. CASE phase = "delete"
    <3>1. Cardinality(Holders(k)) < Cardinality(Copies(k))
      BY <1>1, <2>3 DEF TableInv, DeleteInv
    <3>2. Copies(k) # {}
      <4>1. Cardinality(Holders(k)) \in Nat
        BY HoldersFinite
      <4>2. Cardinality(Copies(k)) # 0
        BY <3>1, <4>1
      <4>3. QED
        BY <4>2, FS_EmptySet
    <3>3. QED
      BY <3>2 DEF Copies
  <2>4. QED
    BY <2>1, <2>2, <2>3
<1>2. QED
  BY <1>1, TableInvariance, PTL

(* Between phases every key that was inserted and not deleted since is in  *)
(* a cell.                                                                 *)
THEOREM AllThereAtBarriers == TableSpec => [](Quiet => \A k \in contents : \E a \in Cells : TA[a] = k)
<1>1. ASSUME TableInv PROVE Quiet => \A k \in contents : \E a \in Cells : TA[a] = k
  BY <1>1, AllInCells DEF Copies
<1>2. QED
  BY <1>1, TableInvariance, PTL

(* ---------------------- Programs that never delete --------------------- *)

LEMMA DistanceFacts ==
    ASSUME NEW h \in Cells, NEW a \in Cells, NEW b \in Cells
    PROVE  /\ Distance(h, a) \in Cells
           /\ Distance(h, a) = Distance(h, b) => a = b
           /\ Distance(h, b) < Distance(h, incrementIndex(a)) => b = a \/ Distance(h, b) < Distance(h, a)
<1>1. m \in Nat /\ h \in 0..(m - 1) /\ a \in 0..(m - 1) /\ b \in 0..(m - 1)
  BY HashTableAssumption DEF Cells
<1>2. Distance(h, a) \in 0..(m - 1)
  BY <1>1 DEF Distance
<1>3. Distance(h, a) = Distance(h, b) => a = b
  BY <1>1 DEF Distance
<1>4. Distance(h, b) < Distance(h, incrementIndex(a)) => b = a \/ Distance(h, b) < Distance(h, a)
  BY <1>1 DEF Distance, incrementIndex
<1>5. QED
  BY <1>2, <1>3, <1>4 DEF Cells

(* The d-th cell of the search for k is the one at distance d.             *)
LEMMA NthFacts ==
    ASSUME TableTypeOK, NEW k \in Keys, NEW d \in Cells, NEW a \in Cells
    PROVE  /\ Nth(k, d) \in Cells
           /\ Distance(hash[k], Nth(k, d)) = d
           /\ Nth(k, Distance(hash[k], a)) = a
<1> DEFINE h == hash[k]
<1>1. h \in Cells
  BY HashIsCell
<1> HIDE DEF h
<1>2. m \in Nat /\ h \in 0..(m - 1) /\ d \in 0..(m - 1) /\ a \in 0..(m - 1)
  BY <1>1, HashTableAssumption DEF Cells
<1>3. \A z \in 0..(m - 1) : z % m = z /\ (z + m) % m = z
  BY <1>2
<1>4. (h + d) % m = IF h + d < m THEN h + d ELSE h + d - m
  <2>1. CASE h + d < m
    <3>1. h + d \in 0..(m - 1)
      BY <1>2, <2>1
    <3>2. QED
      BY <1>3, <2>1, <3>1
  <2>2. CASE ~(h + d < m)
    <3> DEFINE z == h + d - m
    <3>1. z \in 0..(m - 1) /\ h + d = z + m
      BY <1>2, <2>2
    <3> HIDE DEF z
    <3>2. (h + d) % m = z
      BY <1>3, <3>1
    <3>3. QED
      BY <2>2, <3>2 DEF z
  <2>3. QED
    BY <2>1, <2>2
<1>5. (h + d) % m \in 0..(m - 1)
  BY <1>2, <1>4
<1>6. Distance(h, (h + d) % m) = d
  BY <1>2, <1>4 DEF Distance
<1>7. (h + Distance(h, a)) % m = a
  <2>1. CASE h <= a
    <3>1. h + Distance(h, a) = a
      BY <1>2, <2>1 DEF Distance
    <3>2. QED
      BY <1>2, <1>3, <3>1
  <2>2. CASE ~(h <= a)
    <3>1. h + Distance(h, a) = a + m
      BY <1>2, <2>2 DEF Distance
    <3>2. QED
      BY <1>2, <1>3, <3>1
  <2>3. QED
    BY <2>1, <2>2
<1>8. QED
  BY <1>5, <1>6, <1>7 DEF h, Nth, Cells

LEMMA Numbers == Keys \cup {empty} \subseteq Int /\ \A k \in Keys : empty < k
<1>1. Keys \subseteq Nat
  BY HashTableAssumption
<1>2. empty \in Int /\ \A k \in Nat : empty < k
  BY DEF empty
<1>3. QED
  BY <1>1, <1>2

(* Two copies of a key would each be on the way to the other.              *)
LEMMA OneCell ==
    ASSUME TableTypeOK, OrderInv, NEW a \in Cells, NEW b \in Cells, TA[a] # empty, TA[a] = TA[b]
    PROVE  a = b
<1> DEFINE h == hash[TA[a]]
<1>1. TA[a] \in Keys /\ h \in Cells
  BY HashIsCell DEF TableTypeOK
<1>2. /\ \A z \in Cells : Distance(h, z) < Distance(h, a) => TA[z] > TA[a]
      /\ \A z \in Cells : Distance(h, z) < Distance(h, b) => TA[z] > TA[a]
  BY DEF OrderInv, Reaches
<1>3. ~(TA[a] > TA[a])
  BY <1>1, Numbers
<1> HIDE DEF h
<1>4. ~(Distance(h, b) < Distance(h, a)) /\ ~(Distance(h, a) < Distance(h, b))
  BY <1>2, <1>3
<1>5. Distance(h, a) \in Int /\ Distance(h, b) \in Int
  BY <1>1, DistanceFacts, HashTableAssumption DEF Cells
<1>6. Distance(h, a) = Distance(h, b)
  BY <1>4, <1>5
<1>7. QED
  BY <1>1, <1>6, DistanceFacts

(* What only grows does not get in the way of a search.                    *)
LEMMA GrowingReaches ==
    ASSUME TableTypeOK, TA' \in [Cells -> Keys \cup {empty}],
           \A b \in Cells : TA'[b] >= TA[b],
           NEW k \in Keys, NEW a \in Cells, Reaches(k, a)
    PROVE  /\ \A b \in Cells : Distance(hash[k], b) < Distance(hash[k], a) => TA'[b] > k
           /\ TA'[a] > k =>
                \A b \in Cells :
                  Distance(hash[k], b) < Distance(hash[k], incrementIndex(a)) => TA'[b] > k
<1>1. \A b \in Cells : TA[b] \in Int /\ TA'[b] \in Int /\ k \in Int
  BY Numbers DEF TableTypeOK
<1>2. ASSUME NEW b \in Cells, TA[b] > k PROVE TA'[b] > k
  <2>1. TA[b] \in Int /\ TA'[b] \in Int /\ k \in Int /\ TA'[b] >= TA[b]
    BY <1>1
  <2>2. QED
    BY <1>2, <2>1
<1>3. \A b \in Cells : Distance(hash[k], b) < Distance(hash[k], a) => TA'[b] > k
  BY <1>2 DEF Reaches
<1>4. hash[k] \in Cells
  BY HashIsCell
<1>5. QED
  BY <1>3, <1>4, DistanceFacts

(* The same of the search that an operation has made so far.               *)
LEMMA ReachedAfter ==
    ASSUME NEW q \in Procs, hash' = hash,
           \A b \in Cells : Distance(hash[v'[q]], b) < Distance(hash[v'[q]], i'[q]) => TA'[b] > v'[q]
    PROVE  Reaches(v[q], i[q])'
BY DEF Reaches, Distance

LEMMA KeyReachedAfter ==
    ASSUME NEW a \in Cells, hash' = hash,
           \A b \in Cells : Distance(hash[TA'[a]], b) < Distance(hash[TA'[a]], a) => TA'[b] > TA'[a]
    PROVE  Reaches(TA[a], a)'
BY DEF Reaches, Distance

LEMMA OrderReadStep ==
    ASSUME TableInv, OrderInv, NEW q \in Procs, InsertRead(q)
    PROVE  OrderInv'
<1>1. TableTypeOK
  BY DEF TableInv
<1>2. /\ at[q] = "insert" /\ c' = [c EXCEPT ![q] = TA[i[q]]]
      /\ TA' = TA /\ v' = v /\ hash' = hash /\ contents' = contents
  BY DEF InsertRead, callVars
<1>3. i[q] \in Cells /\ v[q] \in Keys /\ c \in [Procs -> Keys \cup {empty}]
      /\ at \in [Procs -> StepsOf(phase)] /\ i \in [Procs -> Cells]
      /\ TA \in [Cells -> Keys \cup {empty}] /\ v \in [Procs -> Keys]
  BY <1>1 DEF TableTypeOK
<1>4. c'[q] = TA[i[q]] /\ \A r \in Procs : r # q => c'[r] = c[r]
  BY <1>2, <1>3
<1>5. c'[q] \in Int /\ v[q] \in Int
  BY <1>3, <1>4, Numbers
<1>6. \/ c'[q] = v[q] /\ Return(q, FALSE) /\ i' = i
      \/ c'[q] > v[q] /\ GoTo(q, "insert") /\ i' = [i EXCEPT ![q] = incrementIndex(i[q])]
      \/ c'[q] < v[q] /\ GoTo(q, "insert cas") /\ i' = i
  <2>1. c'[q] = v[q] \/ c'[q] > v[q] \/ c'[q] < v[q]
    BY <1>5
  <2>2. c'[q] < v[q] => c'[q] # v[q] /\ ~(c'[q] > v[q])
    BY <1>5
  <2>3. c'[q] > v[q] => c'[q] # v[q] /\ ~(c'[q] < v[q])
    BY <1>5
  <2>4. c'[q] = v[q] => ~(c'[q] > v[q]) /\ ~(c'[q] < v[q])
    BY <1>5
  <2>5. QED
    BY <2>1, <2>2, <2>3, <2>4 DEF InsertRead
<1>7. \A b \in Cells : TA'[b] >= TA[b]
  <2>1. \A b \in Cells : TA[b] \in Int
    BY <1>3, Numbers
  <2>2. \A b \in Cells : TA[b] >= TA[b]
    BY <2>1
  <2>3. QED
    BY <1>2, <2>2
<1>8. \A r \in Procs : r # q => at'[r] = at[r] /\ i'[r] = i[r]
  BY <1>3, <1>6 DEF Return, GoTo
<1>9. ASSUME NEW a \in Cells, TA'[a] # empty
      PROVE  TA'[a] \in contents' /\ Reaches(TA[a], a)'
  <2>1. TA[a] \in contents /\ Reaches(TA[a], a)
    BY <1>2, <1>9 DEF OrderInv
  <2>2. QED
    BY <1>2, <2>1 DEF Reaches, Distance
<1>10. ASSUME NEW r \in Procs, at'[r] # "idle"
       PROVE  v'[r] \in contents' /\ Reaches(v[r], i[r])'
  <2>1. at[r] # "idle"
    BY <1>2, <1>8, <1>10
  <2>2. v[r] \in contents /\ Reaches(v[r], i[r]) /\ v[r] \in Keys /\ i[r] \in Cells
    BY <1>3, <2>1 DEF OrderInv
  <2>3. i'[r] = i[r] \/ (i'[r] = incrementIndex(i[r]) /\ TA'[i[r]] > v[r])
    <3>1. CASE r # q
      BY <1>8, <3>1
    <3>2. CASE r = q
      BY <1>2, <1>3, <1>4, <1>6, <3>2
    <3>3. QED
      BY <3>1, <3>2
  <2>4. \A b \in Cells : Distance(hash[v[r]], b) < Distance(hash[v[r]], i'[r]) => TA'[b] > v[r]
    BY <1>1, <1>2, <1>3, <1>7, <2>2, <2>3, GrowingReaches
  <2>5. Reaches(v[r], i[r])'
    BY <1>2, <2>4, ReachedAfter
  <2>6. QED
    BY <1>2, <2>2, <2>5
<1>11. ASSUME NEW r \in Procs, at'[r] = "insert cas" PROVE c'[r] < v'[r]
  <2>1. CASE r # q
    BY <1>2, <1>4, <1>8, <1>11, <2>1 DEF OrderInv
  <2>2. CASE r = q
    BY <1>2, <1>3, <1>6, <1>11, <2>2 DEF Return, GoTo
  <2>3. QED
    BY <2>1, <2>2
<1>12. QED
  BY <1>9, <1>10, <1>11 DEF OrderInv

(* The key that a swap brings in is larger than the one it takes away, so  *)
(* that no search is cut short; the one taken away may go on from there.   *)
LEMMA OrderCasStep ==
    ASSUME TableInv, OrderInv, TableInv', NEW q \in Procs, InsertCas(q)
    PROVE  OrderInv'
<1>1. TableTypeOK /\ TableTypeOK'
  BY DEF TableInv
<1>2. /\ at[q] = "insert cas" /\ c' = c /\ hash' = hash /\ contents' = contents
  BY DEF InsertCas, callVars
<1>3. i[q] \in Cells /\ v[q] \in Keys /\ c \in [Procs -> Keys \cup {empty}]
      /\ at \in [Procs -> StepsOf(phase)] /\ i \in [Procs -> Cells]
      /\ TA \in [Cells -> Keys \cup {empty}] /\ v \in [Procs -> Keys]
  BY <1>1 DEF TableTypeOK
<1>4. TA' \in [Cells -> Keys \cup {empty}]
  BY <1>1 DEF TableTypeOK
<1>5. \/ /\ GoTo(q, "insert") /\ TA' = TA /\ v' = v /\ i' = i
      \/ /\ TA[i[q]] = c[q] /\ TA' = [TA EXCEPT ![i[q]] = v[q]]
         /\ \/ Return(q, TRUE) /\ v' = v /\ i' = i
            \/ /\ c[q] # empty /\ GoTo(q, "insert")
               /\ v' = [v EXCEPT ![q] = c[q]] /\ i' = [i EXCEPT ![q] = incrementIndex(i[q])]
  BY DEF InsertCas
<1>6. PICK l \in {"idle", "insert"} : at' = [at EXCEPT ![q] = l]
  BY <1>5 DEF Return, GoTo
<1>7. \A r \in Procs : r # q => at'[r] = at[r] /\ i'[r] = i[r] /\ v'[r] = v[r]
  BY <1>3, <1>5, <1>6
<1>8. c[q] < v[q] /\ v[q] \in contents /\ Reaches(v[q], i[q])
  BY <1>2 DEF OrderInv
<1>9. \A b \in Cells : TA'[b] >= TA[b]
  <2>1. \A b \in Cells : TA[b] \in Int
    BY <1>3, Numbers
  <2>2. \A b \in Cells : TA[b] >= TA[b]
    BY <2>1
  <2>3. TA[i[q]] = c[q] => v[q] >= TA[i[q]]
    <3>1. v[q] \in Int /\ c[q] \in Int
      BY <1>3, Numbers
    <3>2. QED
      BY <1>8, <3>1
  <2>4. \A b \in Cells : TA'[b] = TA[b] \/ (b = i[q] /\ TA[b] = c[q] /\ TA'[b] = v[q])
    BY <1>3, <1>5
  <2>5. QED
    BY <2>2, <2>3, <2>4
<1>10. ASSUME NEW k \in Keys, NEW a \in Cells, Reaches(k, a)
       PROVE  /\ \A b \in Cells : Distance(hash[k], b) < Distance(hash[k], a) => TA'[b] > k
              /\ TA'[a] > k =>
                   \A b \in Cells :
                     Distance(hash[k], b) < Distance(hash[k], incrementIndex(a)) => TA'[b] > k
  BY <1>1, <1>4, <1>9, <1>10, GrowingReaches
<1>11. ASSUME NEW a \in Cells, TA'[a] # empty
       PROVE  TA'[a] \in contents' /\ Reaches(TA[a], a)'
  <2>1. TA'[a] \in contents /\ TA'[a] \in Keys /\ Reaches(TA'[a], a)
    <3>1. TA'[a] = TA[a] \/ (a = i[q] /\ TA'[a] = v[q])
      BY <1>3, <1>5
    <3>2. CASE TA'[a] = TA[a]
      BY <1>3, <1>11, <3>2 DEF OrderInv
    <3>3. CASE a = i[q] /\ TA'[a] = v[q]
      BY <1>3, <1>8, <3>3
    <3>4. QED
      BY <3>1, <3>2, <3>3
  <2>2. \A b \in Cells : Distance(hash[TA'[a]], b) < Distance(hash[TA'[a]], a) => TA'[b] > TA'[a]
    BY <1>10, <2>1
  <2>3. QED
    BY <1>2, <2>1, <2>2, KeyReachedAfter
<1>12. ASSUME NEW r \in Procs, at'[r] # "idle"
       PROVE  v'[r] \in contents' /\ Reaches(v[r], i[r])'
  <2>1. v'[r] \in contents /\
        \A b \in Cells : Distance(hash[v'[r]], b) < Distance(hash[v'[r]], i'[r]) => TA'[b] > v'[r]
    <3>1. CASE r # q \/ (v' = v /\ i' = i)
      <4>1. at[r] # "idle" /\ v'[r] = v[r] /\ i'[r] = i[r]
        BY <1>2, <1>7, <1>12, <3>1
      <4>2. v[r] \in contents /\ Reaches(v[r], i[r]) /\ v[r] \in Keys /\ i[r] \in Cells
        BY <1>3, <4>1 DEF OrderInv
      <4>3. QED
        BY <1>10, <4>1, <4>2
    <3>2. CASE r = q /\ ~(v' = v /\ i' = i)
      <4>1. /\ TA[i[q]] = c[q] /\ TA' = [TA EXCEPT ![i[q]] = v[q]] /\ c[q] # empty
            /\ v' = [v EXCEPT ![q] = c[q]] /\ i' = [i EXCEPT ![q] = incrementIndex(i[q])]
        BY <1>5, <3>2
      <4>2. v'[q] = c[q] /\ i'[q] = incrementIndex(i[q]) /\ TA'[i[q]] = v[q]
        BY <1>3, <4>1
      <4>3. c[q] \in contents /\ c[q] \in Keys /\ Reaches(c[q], i[q])
        BY <1>3, <4>1 DEF OrderInv
      <4>4. TA'[i[q]] > c[q]
        <5>1. v[q] \in Int /\ c[q] \in Int
          BY <1>3, Numbers
        <5>2. QED
          BY <1>8, <4>2, <5>1
      <4>5. QED
        BY <1>3, <1>10, <3>2, <4>2, <4>3, <4>4
    <3>3. QED
      BY <3>1, <3>2
  <2>2. QED
    BY <1>2, <2>1, ReachedAfter
<1>13. ASSUME NEW r \in Procs, at'[r] = "insert cas" PROVE c'[r] < v'[r]
  <2>1. r # q
    BY <1>3, <1>6, <1>13
  <2>2. QED
    BY <1>2, <1>7, <1>13, <2>1 DEF OrderInv
<1>14. QED
  BY <1>11, <1>12, <1>13 DEF OrderInv

LEMMA FilledFinite == IsFiniteSet(Filled) /\ IsFiniteSet(Filled') /\ Cardinality(Filled) \in Nat
<1>1. m \in Nat
  BY HashTableAssumption
<1>2. 0 \in Int /\ m - 1 \in Int
  BY <1>1
<1>3. IsFiniteSet(Cells)
  BY <1>2, FS_Interval DEF Cells
<1>4. Filled \subseteq Cells /\ Filled' \subseteq Cells
  BY DEF Filled
<1>5. IsFiniteSet(Filled) /\ IsFiniteSet(Filled')
  BY <1>3, <1>4, FS_Subset
<1>6. QED
  BY <1>5, FS_CardinalityType

LEMMA KeysFinite ==
    ASSUME TableTypeOK
    PROVE  IsFiniteSet(contents) /\ Cardinality(contents) \in Nat /\ Cardinality(contents) < m
<1>1. contents \subseteq Keys /\ IsFiniteSet(Keys) /\ m \in Nat /\ Cardinality(Keys) < m
  BY HashTableAssumption DEF TableTypeOK
<1>2. IsFiniteSet(contents) /\ Cardinality(contents) <= Cardinality(Keys)
  BY <1>1, FS_Subset
<1>3. Cardinality(contents) \in Nat /\ Cardinality(Keys) \in Nat
  BY <1>1, <1>2, FS_CardinalityType
<1>4. QED
  BY <1>1, <1>2, <1>3

(* At a barrier the cells hold the keys, each once, and there is room.     *)
LEMMA AtBarrier ==
    ASSUME InsertOnlyInv, Quiet
    PROVE  /\ \A k \in contents : Copies(k) # {}
           /\ Cardinality(Filled) = Cardinality(contents)
           /\ \E a \in Cells : TA[a] = empty
<1>1. TableTypeOK /\ TableInv /\ OrderInv
  BY DEF InsertOnlyInv, TableInv
<1>2. \A k \in contents : Copies(k) # {}
  BY <1>1, AllInCells
<1> DEFINE f == [a \in Filled |-> TA[a]]
<1>3. f \in [Filled -> contents]
  BY <1>1 DEF OrderInv, Filled
<1>4. \A a, b \in Filled : f[a] = f[b] => a = b
  BY <1>1, OneCell DEF Filled
<1>5. \A k \in contents : \E a \in Filled : f[a] = k
  <2> SUFFICES ASSUME NEW k \in contents PROVE \E a \in Filled : f[a] = k
    OBVIOUS
  <2>1. PICK a \in Cells : TA[a] = k
    BY <1>2 DEF Copies
  <2>2. k # empty
    BY <1>1, EmptyIsNoKey DEF TableTypeOK
  <2>3. QED
    BY <2>1, <2>2 DEF Filled
<1>6. f \in Bijection(Filled, contents)
  BY <1>3, <1>4, <1>5 DEF Bijection, Injection, IsInjective, Surjection
<1>7. Cardinality(Filled) = Cardinality(contents)
  BY <1>6, FilledFinite, FS_Bijection DEF ExistsBijection
<1>8. \E a \in Cells : TA[a] = empty
  <2> SUFFICES ASSUME \A a \in Cells : TA[a] # empty PROVE FALSE
    OBVIOUS
  <2>1. Filled = Cells
    BY DEF Filled
  <2>2. m \in Nat
    BY HashTableAssumption
  <2>3. Cardinality(Cells) = m
    <3>1. 0 \in Int /\ m - 1 \in Int /\ (0 > m - 1 => m = 0) /\ (m - 1) - 0 + 1 = m
      BY <2>2
    <3>2. Cardinality(0..(m - 1)) = IF 0 > m - 1 THEN 0 ELSE (m - 1) - 0 + 1
      BY <3>1, FS_Interval
    <3>3. QED
      BY <3>1, <3>2 DEF Cells
  <2>4. QED
    BY <1>1, <1>7, <2>1, <2>2, <2>3, KeysFinite
<1>9. QED
  BY <1>2, <1>7, <1>8

LEMMA InsertOnlyInit == TableInit => InsertOnlyInv
<1> SUFFICES ASSUME TableInit PROVE InsertOnlyInv
  OBVIOUS
<1>1. TableInv
  BY TableInitInv
<1>2. /\ TA = [a \in Cells |-> empty] /\ phase = "delete" /\ before = {} /\ contents = {}
      /\ returned = [q \in Procs |-> FALSE] /\ at = [q \in Procs |-> "idle"]
  BY DEF TableInit
<1>3. OrderInv
  BY <1>2 DEF OrderInv
<1>4. CountInv
  BY <1>2 DEF CountInv, Successes
<1>5. QED
  BY <1>1, <1>2, <1>3, <1>4 DEF InsertOnlyInv

LEMMA InsertOnlyStart ==
    ASSUME InsertOnlyInv, StartPhase, phase' = "insert"
    PROVE  InsertOnlyInv'
<1>1. TableTypeOK /\ TableInv /\ OrderInv
  BY DEF InsertOnlyInv, TableInv
<1>2. TableInv'
  BY <1>1, StartStep
<1> DEFINE ks == {key'[q] : q \in Procs}
<1>3. /\ Quiet /\ key' \in [Procs -> Keys] /\ before' = contents
      /\ at' = [q \in Procs |-> "insert"]
      /\ v' = key' /\ i' = [q \in Procs |-> hash[key'[q]]]
      /\ returned' = [q \in Procs |-> FALSE]
      /\ TA' = TA /\ hash' = hash
      /\ contents' = contents \cup ks
  BY DEF StartPhase
<1>4. ASSUME NEW a \in Cells, TA'[a] # empty
      PROVE  TA'[a] \in contents' /\ Reaches(TA[a], a)'
  <2>1. TA[a] \in contents /\ Reaches(TA[a], a)
    BY <1>1, <1>3, <1>4 DEF OrderInv
  <2>2. Reaches(TA[a], a)'
    BY <1>3, <2>1 DEF Reaches, Distance
  <2>3. QED
    BY <1>3, <2>1, <2>2
<1>5. ASSUME NEW q \in Procs
      PROVE  v'[q] \in contents' /\ Reaches(v[q], i[q])'
  <2>1. v'[q] = key'[q] /\ v'[q] \in Keys /\ i'[q] = hash[v'[q]]
    BY <1>3
  <2>2. hash[v'[q]] \in Cells
    BY <1>1, <2>1, HashIsCell
  <2> DEFINE h == hash[v'[q]]
  <2>3. ASSUME NEW b \in Cells PROVE ~(Distance(h, b) < Distance(h, h))
    <3> HIDE DEF h
    <3>1. h \in Cells /\ Distance(h, b) \in Cells
      BY <2>2, <2>3, DistanceFacts DEF h
    <3>2. m \in Nat /\ h \in Int /\ Distance(h, b) \in 0..(m - 1)
      BY <3>1, HashTableAssumption DEF Cells
    <3>3. Distance(h, h) = 0
      BY <3>2 DEF Distance
    <3>4. QED
      BY <3>2, <3>3
  <2>4. Reaches(v[q], i[q])'
    BY <1>3, <2>1, <2>3, ReachedAfter
  <2>5. QED
    BY <1>3, <2>1, <2>4
<1>6. OrderInv'
  BY <1>3, <1>4, <1>5 DEF OrderInv
<1>7. CountInv'
  <2>1. Successes' = {}
    BY <1>3 DEF Successes
  <2>2. Filled' = Filled
    BY <1>3 DEF Filled
  <2>3. Cardinality(Filled) = Cardinality(contents) /\ Cardinality(contents) \in Nat
    BY <1>1, <1>3, AtBarrier, KeysFinite
  <2>4. Cardinality(Successes') = 0
    BY <2>1, FS_EmptySet
  <2>5. Cardinality(Filled') = Cardinality(before') + Cardinality(Successes')
    BY <1>3, <2>2, <2>3, <2>4
  <2>6. QED
    BY <1>3, <2>1, <2>5 DEF CountInv
<1>8. QED
  BY <1>2, <1>6, <1>7 DEF InsertOnlyInv

(* An insert returns true if and only if it has filled a cell.             *)
LEMMA CountReadStep ==
    ASSUME TableInv, CountInv, NEW q \in Procs, InsertRead(q)
    PROVE  CountInv'
<1>1. at \in [Procs -> StepsOf(phase)] /\ returned \in [Procs -> BOOLEAN]
  BY DEF TableInv, TableTypeOK
<1>2. /\ at[q] = "insert" /\ TA' = TA /\ contents' = contents /\ before' = before
      /\ phase' = phase
  BY DEF InsertRead, callVars
<1>3. q \notin Successes
  BY <1>2 DEF CountInv
<1>4. /\ returned' = returned \/ returned' = [returned EXCEPT ![q] = FALSE]
      /\ \E l : at' = [at EXCEPT ![q] = l]
  <2>1. c'[q] = v[q] \/ c'[q] > v[q] \/ c'[q] < v[q]
    <3>1. i[q] \in Cells /\ v[q] \in Keys /\ c'[q] = TA[i[q]] /\ TA[i[q]] \in Keys \cup {empty}
      BY DEF TableInv, TableTypeOK, InsertRead
    <3> DEFINE n == c'[q]
               k == v[q]
    <3>2. n \in Int /\ k \in Int
      BY <3>1, Numbers
    <3> HIDE DEF n, k
    <3>3. n = k \/ n > k \/ n < k
      BY <3>2
    <3>4. QED
      BY <3>3 DEF n, k
  <2>2. QED
    BY <2>1 DEF InsertRead, Return, GoTo
<1>5. Successes' = Successes
  BY <1>1, <1>3, <1>4 DEF Successes
<1>6. \A r \in Procs : r # q => at'[r] = at[r]
  BY <1>1, <1>4
<1>7. Filled' = Filled
  BY <1>2 DEF Filled
<1>8. \A r \in Successes' : at'[r] = "idle"
  BY <1>3, <1>5, <1>6 DEF CountInv, Successes
<1>9. QED
  BY <1>2, <1>5, <1>7, <1>8 DEF CountInv

LEMMA CountCasStep ==
    ASSUME TableInv, CountInv, NEW q \in Procs, InsertCas(q)
    PROVE  CountInv'
<1>1. /\ at \in [Procs -> StepsOf(phase)] /\ returned \in [Procs -> BOOLEAN]
      /\ i[q] \in Cells /\ v[q] \in Keys /\ TA \in [Cells -> Keys \cup {empty}]
  BY DEF TableInv, TableTypeOK
<1>2. /\ at[q] = "insert cas" /\ contents' = contents /\ before' = before /\ phase' = phase
  BY DEF InsertCas, callVars
<1>3. q \notin Successes /\ v[q] # empty
  BY <1>1, <1>2, EmptyIsNoKey DEF CountInv
<1>4. \/ /\ returned' = returned /\ Filled' = Filled
         /\ at' = [at EXCEPT ![q] = "insert"]
      \/ /\ returned' = [returned EXCEPT ![q] = TRUE] /\ Filled' = Filled \cup {i[q]}
         /\ i[q] \notin Filled /\ at' = [at EXCEPT ![q] = "idle"]
  <2>1. CASE TA[i[q]] # c[q]
    BY <2>1 DEF InsertCas, GoTo, Filled
  <2>2. CASE TA[i[q]] = c[q] /\ c[q] # empty
    <3>1. TA' = [TA EXCEPT ![i[q]] = v[q]] /\ GoTo(q, "insert")
      BY <2>2 DEF InsertCas
    <3>2. Filled' = Filled
      BY <1>1, <1>3, <2>2, <3>1 DEF Filled
    <3>3. QED
      BY <3>1, <3>2 DEF GoTo
  <2>3. CASE TA[i[q]] = c[q] /\ c[q] = empty
    <3>1. TA' = [TA EXCEPT ![i[q]] = v[q]] /\ Return(q, TRUE)
      BY <2>3 DEF InsertCas
    <3>2. Filled' = Filled \cup {i[q]} /\ i[q] \notin Filled
      BY <1>1, <1>3, <2>3, <3>1 DEF Filled
    <3>3. QED
      BY <3>1, <3>2 DEF Return
  <2>4. QED
    BY <2>1, <2>2, <2>3
<1>5. CASE returned' = returned /\ Filled' = Filled /\ at' = [at EXCEPT ![q] = "insert"]
  <2>1. Successes' = Successes
    BY <1>5 DEF Successes
  <2>2. \A r \in Successes' : at'[r] = "idle"
    BY <1>1, <1>3, <1>5, <2>1 DEF CountInv, Successes
  <2>3. QED
    BY <1>2, <1>5, <2>1, <2>2 DEF CountInv
<1>6. CASE /\ returned' = [returned EXCEPT ![q] = TRUE] /\ Filled' = Filled \cup {i[q]}
           /\ i[q] \notin Filled /\ at' = [at EXCEPT ![q] = "idle"]
  <2>1. Successes' = Successes \cup {q}
    BY <1>1, <1>6 DEF Successes
  <2>2. \A r \in Successes' : at'[r] = "idle"
    BY <1>1, <1>6, <2>1 DEF CountInv, Successes
  <2>3. IsFiniteSet(Successes)
    <3>1. Successes \subseteq Procs
      BY DEF Successes
    <3>2. QED
      BY <3>1, HashTableAssumption, FS_Subset
  <2>4. Cardinality(Successes') = Cardinality(Successes) + 1
    BY <1>3, <2>1, <2>3, FS_AddElement
  <2>5. Cardinality(Filled') = Cardinality(Filled) + 1
    BY <1>6, FilledFinite, FS_AddElement
  <2>6. ASSUME phase' = "insert"
        PROVE  Cardinality(Filled') = Cardinality(before') + Cardinality(Successes')
    <3>1. Cardinality(Filled) = Cardinality(before) + Cardinality(Successes)
      BY <1>2, <2>6 DEF CountInv
    <3>2. Cardinality(before) \in Nat /\ Cardinality(Successes) \in Nat
      <4>1. before \subseteq Keys
        BY DEF TableInv, TableTypeOK
      <4>2. IsFiniteSet(before)
        BY <4>1, HashTableAssumption, FS_Subset
      <4>3. QED
        BY <2>3, <4>2, FS_CardinalityType
    <3>3. Cardinality(before') = Cardinality(before)
      BY <1>2
    <3>4. QED
      BY <2>4, <2>5, <3>1, <3>2, <3>3
  <2>7. QED
    BY <1>2, <2>2, <2>6 DEF CountInv
<1>7. QED
  BY <1>4, <1>5, <1>6

LEMMA InsertOnlyStep == InsertOnlyInv /\ [TableNext /\ phase' = "insert"]_tableVars => InsertOnlyInv'
<1> SUFFICES ASSUME InsertOnlyInv, [TableNext /\ phase' = "insert"]_tableVars PROVE InsertOnlyInv'
  OBVIOUS
<1>1. TableInv /\ OrderInv /\ CountInv /\ (phase = "delete" => contents = {})
  BY DEF InsertOnlyInv
<1>2. TableInv'
  BY <1>1, TableInvStep
<1>3. CASE UNCHANGED tableVars
  <2>1. /\ UNCHANGED <<TA, hash, phase, before, contents, returned, at>>
        /\ UNCHANGED <<v, i, c>>
    BY <1>3 DEF tableVars, callVars, localVars
  <2>2. OrderInv'
    BY <1>1, <2>1 DEF OrderInv, Reaches, Distance
  <2>3. Filled' = Filled /\ Successes' = Successes
    BY <2>1 DEF Filled, Successes
  <2>4. CountInv'
    BY <1>1, <2>1, <2>3 DEF CountInv
  <2>5. QED
    BY <1>1, <1>2, <2>1, <2>2, <2>4 DEF InsertOnlyInv
<1>4. CASE StartPhase /\ phase' = "insert"
  BY <1>4, InsertOnlyStart
<1>5. ASSUME NEW q \in Procs, TableOperation(q), phase' = "insert" PROVE InsertOnlyInv'
  <2>1. UNCHANGED callVars
    BY <1>5 DEF TableOperation, InsertRead, InsertCas, DeleteFirst, DeleteSeek, DeleteNoMatch,
       DeleteMatch, DeleteReplacement, DeleteRecheck, DeleteCas, DeleteReread
  <2>2. phase = "insert"
    BY <1>5, <2>1 DEF callVars
  <2>3. at[q] \in {"idle", "insert", "insert cas"}
    BY <1>1, <2>2 DEF TableInv, TableTypeOK, StepsOf
  <2>4. InsertRead(q) \/ InsertCas(q)
    BY <1>5, <2>3 DEF TableOperation, DeleteFirst, DeleteSeek, DeleteNoMatch,
       DeleteMatch, DeleteReplacement, DeleteRecheck, DeleteCas, DeleteReread
  <2>5. OrderInv' /\ CountInv'
    BY <1>1, <1>2, <2>4, OrderReadStep, OrderCasStep, CountReadStep, CountCasStep
  <2>6. QED
    BY <1>2, <1>5, <2>5 DEF InsertOnlyInv
<1>6. QED
  BY <1>3, <1>4, <1>5 DEF TableNext

LEMMA SmallestNat ==
    ASSUME NEW S, S \subseteq Nat, S # {}
    PROVE  \E a \in S : \A b \in S : ~ (b < a)
<1>1. \E a \in S : \A b \in S : ~ (<<b, a>> \in OpToRel(<, Nat))
  BY NatLessThanWellFounded, WFMin
<1>2. QED
  BY <1>1 DEF OpToRel

(* What is largest has the fewest elements above it.                       *)
LEMMA LargestNat ==
    ASSUME NEW S, S \subseteq Nat, IsFiniteSet(S), S # {}
    PROVE  \E a \in S : \A b \in S : ~ (a < b)
<1> DEFINE Above1(a) == {b \in S : a < b}
           N == {Cardinality(Above1(a)) : a \in S}
<1>1. \A a \in S : IsFiniteSet(Above1(a)) /\ Cardinality(Above1(a)) \in Nat
  <2>1. \A a \in S : Above1(a) \subseteq S
    OBVIOUS
  <2>2. \A a \in S : IsFiniteSet(Above1(a))
    BY <2>1, FS_Subset
  <2>3. QED
    BY <2>2, FS_CardinalityType
<1>2. N \subseteq Nat /\ N # {}
  BY <1>1
<1>3. PICK n \in N : \A o \in N : ~ (o < n)
  BY <1>2, SmallestNat
<1>4. PICK a \in S : n = Cardinality(Above1(a))
  BY <1>3
<1>5. ASSUME NEW b \in S, a < b PROVE FALSE
  <2>1. Above1(b) \subseteq Above1(a) \ {b}
    <3>1. \A o \in Above1(b) : o \in S /\ a < o /\ o # b
      BY <1>5
    <3>2. QED
      BY <3>1
  <2>2. b \in Above1(a)
    BY <1>5
  <2>3. IsFiniteSet(Above1(a) \ {b}) /\ Cardinality(Above1(a) \ {b}) = Cardinality(Above1(a)) - 1
    BY <1>1, <2>2, FS_RemoveElement
  <2>4. Cardinality(Above1(b)) <= Cardinality(Above1(a) \ {b})
    BY <2>1, <2>3, FS_Subset
  <2>5. Cardinality(Above1(b)) \in N /\ ~(Cardinality(Above1(b)) < n)
    BY <1>3, <1>5
  <2>6. Cardinality(Above1(a)) \in Nat /\ Cardinality(Above1(b)) \in Nat
    BY <1>1, <1>5
  <2> HIDE DEF Above1, N
  <2>7. QED
    BY <1>4, <2>3, <2>4, <2>5, <2>6
<1>6. QED
  BY <1>5

(* ------------------------------ The search ----------------------------- *)

(* Where the search for a key that is there ends: all before are larger.   *)
LEMMA SearchEnds ==
    ASSUME TableTypeOK, OrderInv, NEW a \in Cells, TA[a] # empty, NEW f \in Cells,
           f < Distance(hash[TA[a]], a)
    PROVE  TA[Nth(TA[a], f)] > TA[a] /\ TA[Nth(TA[a], f)] # empty
<1> DEFINE k == TA[a]
<1>1. k \in Keys /\ hash[k] \in Cells
  BY HashIsCell DEF TableTypeOK
<1>2. Nth(k, f) \in Cells /\ Distance(hash[k], Nth(k, f)) = f
  BY <1>1, NthFacts
<1>3. TA[Nth(k, f)] > k
  BY <1>2 DEF OrderInv, Reaches
<1>4. TA[Nth(k, f)] # empty
  <2>1. empty < k /\ k \in Int /\ empty \in Int
    BY <1>1, Numbers
  <2> DEFINE t == TA[Nth(k, f)]
  <2> HIDE DEF k
  <2>2. t = empty => ~(t > k)
    BY <2>1
  <2>3. QED
    BY <1>3, <2>2
<1>5. QED
  BY <1>3, <1>4

LEMMA FindRight ==
    ASSUME InsertOnlyInv, Quiet, NEW k \in Keys
    PROVE  find(k) = IF k \in contents THEN k ELSE empty
<1>1. TableTypeOK /\ OrderInv
  BY DEF InsertOnlyInv, TableInv
<1>2. m \in Nat /\ Cells = 0..(m - 1) /\ hash[k] \in Cells
  BY <1>1, HashTableAssumption, HashIsCell DEF Cells
<1> DEFINE First(d) == Stops(k, d) /\ \A f \in 0..(d - 1) : ~Stops(k, f)
           S == {d \in Cells : Stops(k, d)}
<1>3. \E d \in Cells : First(d)
  <2>1. PICK a \in Cells : TA[a] = empty
    BY AtBarrier
  <2>2. Distance(hash[k], a) \in S
    BY <1>1, <1>2, <2>1, DistanceFacts, NthFacts DEF Stops
  <2>3. S \subseteq Nat
    BY <1>2
  <2>4. PICK d \in S : \A f \in S : ~(f < d)
    BY <2>2, <2>3, SmallestNat
  <2>5. \A f \in 0..(d - 1) : f \in Cells /\ f < d
    BY <1>2
  <2>6. QED
    BY <2>4, <2>5
<1> DEFINE d == CHOOSE d \in Cells : First(d)
<1>4. d \in Cells /\ First(d)
  BY <1>3
<1>5. find(k) = IF TA[Nth(k, d)] = k THEN k ELSE empty
  BY DEF find
<1> HIDE DEF d
<1>6. CASE k \in contents
  <2>1. PICK a \in Cells : TA[a] = k
    BY <1>6, AtBarrier DEF Copies
  <2>2. k # empty /\ k \in Int
    BY EmptyIsNoKey, Numbers
  <2> DEFINE o == Distance(hash[k], a)
  <2>3. o \in Cells /\ Nth(k, o) = a
    BY <1>1, <1>2, <2>1, DistanceFacts, NthFacts
  <2>4. ~(d < o)
    <3> SUFFICES ASSUME d < o PROVE FALSE
      OBVIOUS
    <3>1. TA[Nth(k, d)] > k /\ TA[Nth(k, d)] # empty
      BY <1>1, <1>4, <2>1, <2>2, SearchEnds
    <3>2. TA[Nth(k, d)] \in Int
      BY <1>1, <1>4, Numbers, NthFacts DEF TableTypeOK
    <3>3. ~(TA[Nth(k, d)] <= k)
      BY <2>2, <3>1, <3>2
    <3>4. QED
      BY <1>4, <3>1, <3>3 DEF Stops
  <2>5. ~(o < d)
    <3> SUFFICES ASSUME o < d PROVE FALSE
      OBVIOUS
    <3>1. o \in 0..(d - 1)
      <4> HIDE DEF o
      <4>1. QED
        BY <1>2, <1>4, <2>3
    <3>2. TA[Nth(k, o)] <= k
      BY <2>1, <2>2, <2>3
    <3>3. QED
      BY <1>4, <3>1, <3>2 DEF Stops
  <2>6. d = o
    <3> HIDE DEF o
    <3>1. QED
      BY <1>2, <1>4, <2>3, <2>4, <2>5
  <2>7. QED
    BY <1>5, <1>6, <2>1, <2>3, <2>6
<1>7. CASE k \notin contents
  <2>1. Nth(k, d) \in Cells
    BY <1>1, <1>4, NthFacts
  <2>2. TA[Nth(k, d)] # k
    <3>1. k # empty
      BY EmptyIsNoKey
    <3>2. QED
      BY <1>1, <1>7, <2>1, <3>1 DEF OrderInv
  <2>3. QED
    BY <1>5, <1>7, <2>2
<1>8. QED
  BY <1>6, <1>7

(* ----------------------------- The layout ------------------------------ *)

CellOf(k) == CHOOSE a \in Cells : TA[a] = k

LEMMA CellOfKey ==
    ASSUME InsertOnlyInv, Quiet, NEW k \in contents
    PROVE  /\ CellOf(k) \in Cells /\ TA[CellOf(k)] = k /\ k \in Keys /\ k # empty
           /\ \A a \in Cells : TA[a] = k => a = CellOf(k)
<1>1. TableTypeOK /\ OrderInv
  BY DEF InsertOnlyInv, TableInv
<1>2. k \in Keys /\ k # empty
  BY <1>1, EmptyIsNoKey DEF TableTypeOK
<1>3. \E a \in Cells : TA[a] = k
  BY AtBarrier DEF Copies
<1>4. CellOf(k) \in Cells /\ TA[CellOf(k)] = k
  BY <1>3 DEF CellOf
<1>5. QED
  BY <1>1, <1>2, <1>4, OneCell

(* The cells of the keys that are larger than k.                           *)
Taken(k) == {CellOf(l) : l \in {l \in contents : l > k}}

(* The first cell from that of k on that is not in T.                      *)
FirstFree(T, k) ==
    Nth(k, CHOOSE d \in Cells : Nth(k, d) \notin T /\ \A f \in 0..(d - 1) : Nth(k, f) \in T)

LEMMA CellIsFirstFree ==
    ASSUME InsertOnlyInv, Quiet, NEW k \in contents
    PROVE  FirstFree(Taken(k), k) = CellOf(k)
<1>1. TableTypeOK /\ OrderInv
  BY DEF InsertOnlyInv, TableInv
<1>2. /\ CellOf(k) \in Cells /\ TA[CellOf(k)] = k /\ k \in Keys /\ k # empty
      /\ hash[k] \in Cells /\ k \in Int
  BY <1>1, CellOfKey, HashIsCell, Numbers
<1>3. m \in Nat /\ Cells = 0..(m - 1)
  BY HashTableAssumption DEF Cells
<1> DEFINE o == Distance(hash[k], CellOf(k))
           Free(d) == Nth(k, d) \notin Taken(k) /\ \A f \in 0..(d - 1) : Nth(k, f) \in Taken(k)
           d == CHOOSE d \in Cells : Free(d)
<1>4. o \in Cells /\ Nth(k, o) = CellOf(k)
  BY <1>1, <1>2, DistanceFacts, NthFacts
<1>5. Nth(k, o) \notin Taken(k)
  <2> SUFFICES ASSUME CellOf(k) \in Taken(k) PROVE FALSE
    BY <1>4
  <2>1. PICK l \in contents : l > k /\ CellOf(k) = CellOf(l)
    BY DEF Taken
  <2>2. l = k
    BY <1>2, <2>1, CellOfKey
  <2>3. QED
    BY <1>2, <2>1, <2>2
<1>6. \A f \in Cells : f < o => Nth(k, f) \in Taken(k)
  <2> SUFFICES ASSUME NEW f \in Cells, f < o PROVE Nth(k, f) \in Taken(k)
    OBVIOUS
  <2>1. TA[Nth(k, f)] > k /\ TA[Nth(k, f)] # empty
    BY <1>1, <1>2, SearchEnds
  <2>2. Nth(k, f) \in Cells
    BY <1>1, <1>2, NthFacts
  <2>3. TA[Nth(k, f)] \in contents
    BY <1>1, <2>1, <2>2 DEF OrderInv
  <2>4. Nth(k, f) = CellOf(TA[Nth(k, f)])
    BY <2>2, <2>3, CellOfKey
  <2>5. QED
    BY <2>1, <2>3, <2>4 DEF Taken
<1>7. Free(o)
  <2>1. \A f \in 0..(o - 1) : f \in Cells /\ f < o
    <3> HIDE DEF o
    <3>1. QED
      BY <1>3, <1>4
  <2>2. QED
    BY <1>5, <1>6, <2>1
<1>8. d \in Cells /\ Free(d)
  BY <1>4, <1>7
<1>9. FirstFree(Taken(k), k) = Nth(k, d)
  BY DEF FirstFree
<1> HIDE DEF d
<1>10. ~(d < o)
  BY <1>6, <1>8
<1>11. ~(o < d)
  <2> SUFFICES ASSUME o < d PROVE FALSE
    OBVIOUS
  <2>1. o \in 0..(d - 1)
    <3> HIDE DEF o
    <3>1. QED
      BY <1>3, <1>4, <1>8
  <2>2. QED
    BY <1>5, <1>8, <2>1
<1>12. d = o
  <2> HIDE DEF o
  <2>1. QED
    BY <1>3, <1>4, <1>8, <1>10, <1>11
<1>13. QED
  BY <1>4, <1>9, <1>12

(* The recursion of Position has a solution, as the cells themselves are.  *)
LEMMA PositionEquation ==
    ASSUME InsertOnlyInv, Quiet
    PROVE  Position = [k \in Keys |-> FirstFree({Position[l] : l \in {l \in contents : l > k}}, k)]
<1> DEFINE g == [k \in Keys |-> FirstFree(Taken(k), k)]
           IsSolution(f) == f = [k \in Keys |-> FirstFree({f[l] : l \in {l \in contents : l > k}}, k)]
<1>1. ASSUME NEW k \in contents PROVE g[k] = CellOf(k)
  BY <1>1, CellIsFirstFree, CellOfKey
<1>2. ASSUME NEW k \in Keys PROVE {g[l] : l \in {l \in contents : l > k}} = Taken(k)
  <2> HIDE DEF g
  <2>1. QED
    BY <1>1 DEF Taken
<1>3. IsSolution(g)
  <2>1. \A k \in Keys : g[k] = FirstFree({g[l] : l \in {l \in contents : l > k}}, k)
    BY <1>2
  <2>2. g = [k \in Keys |-> g[k]]
    OBVIOUS
  <2> HIDE DEF g
  <2>3. QED
    BY <2>1, <2>2
<1>4. Position = CHOOSE f : IsSolution(f)
  BY DEF Position, FirstFree
<1> HIDE DEF g
<1>5. IsSolution(Position)
  <2> HIDE DEF IsSolution
  <2>1. QED
    BY <1>3, <1>4
<1>6. QED
  BY <1>5

LEMMA PositionIsCell ==
    ASSUME InsertOnlyInv, Quiet
    PROVE  \A k \in contents : Position[k] = CellOf(k)
<1> DEFINE Bad == {k \in contents : Position[k] # CellOf(k)}
<1> SUFFICES ASSUME Bad # {} PROVE FALSE
  OBVIOUS
<1>1. TableTypeOK
  BY DEF InsertOnlyInv, TableInv
<1>2. Bad \subseteq Nat /\ IsFiniteSet(Bad)
  <2>1. Bad \subseteq contents /\ contents \subseteq Keys /\ Keys \subseteq Nat
    BY <1>1, HashTableAssumption DEF TableTypeOK
  <2>2. QED
    BY <1>1, <2>1, KeysFinite, FS_Subset
<1>3. PICK k \in Bad : \A l \in Bad : ~(k < l)
  BY <1>2, LargestNat
<1>4. \A l \in contents : l > k => Position[l] = CellOf(l)
  <2> SUFFICES ASSUME NEW l \in contents, l > k, l \in Bad PROVE FALSE
    OBVIOUS
  <2>1. ~(k < l) /\ k \in Int /\ l \in Int
    BY <1>2, <1>3
  <2>2. QED
    BY <2>1
<1>5. {Position[l] : l \in {l \in contents : l > k}} = Taken(k)
  BY <1>4 DEF Taken
<1>6. Position[k] = FirstFree(Taken(k), k)
  <2>1. k \in Keys
    BY <1>1 DEF TableTypeOK
  <2>2. QED
    BY <1>5, <2>1, PositionEquation
<1>7. QED
  BY <1>6, CellIsFirstFree

LEMMA LayoutFollows ==
    ASSUME InsertOnlyInv, Quiet, NEW a \in Cells
    PROVE  TA[a] = IF \E k \in contents : Position[k] = a
                   THEN CHOOSE k \in contents : Position[k] = a ELSE empty
<1>1. TableTypeOK /\ OrderInv
  BY DEF InsertOnlyInv, TableInv
<1>2. ASSUME NEW k \in contents, Position[k] = a PROVE k = TA[a]
  BY <1>2, PositionIsCell, CellOfKey
<1>3. CASE \E k \in contents : Position[k] = a
  BY <1>2, <1>3
<1>4. CASE ~ \E k \in contents : Position[k] = a
  <2> SUFFICES ASSUME TA[a] # empty PROVE FALSE
    BY <1>4
  <2>1. TA[a] \in contents
    BY <1>1 DEF OrderInv
  <2>2. Position[TA[a]] = a
    BY <2>1, PositionIsCell, CellOfKey
  <2>3. QED
    BY <1>4, <2>1, <2>2
<1>5. QED
  BY <1>3, <1>4

(* The inductive invariant of programs that never delete: a search comes   *)
(* as far as each key, and inserts that succeed count the cells they fill. *)
THEOREM InsertOnlyInvariance == InsertSpec => []InsertOnlyInv
BY InsertOnlyInit, InsertOnlyStep, PTL DEF InsertSpec

(* At a barrier the cells are a function of the set of keys, whatever the  *)
(* inserts bumped on the way there and in which order they came.           *)
THEOREM LayoutIsRight == InsertSpec => []HistoryIndependent
<1>1. InsertOnlyInv => HistoryIndependent
  BY LayoutFollows DEF HistoryIndependent
<1>2. QED
  BY <1>1, InsertOnlyInvariance, PTL

(* Between phases find gives the keys that are there, and no others; and   *)
(* as many inserts of the phase returned true as there are new keys.       *)
THEOREM AnswersCorrect == InsertSpec => []AnswersAreRight
<1>1. InsertOnlyInv => FindIsRight
  BY FindRight DEF FindIsRight
<1>2. ASSUME InsertOnlyInv PROVE CountsAgree
  <2> SUFFICES ASSUME Quiet, phase = "insert"
               PROVE  Cardinality(Successes) = Cardinality(contents \ before)
    BY DEF CountsAgree, Successes
  <2>1. Cardinality(Filled) = Cardinality(contents)
    BY <1>2, AtBarrier
  <2>2. before \subseteq contents /\ Cardinality(Filled) = Cardinality(before) + Cardinality(Successes)
    BY <1>2 DEF InsertOnlyInv, CountInv
  <2>3. IsFiniteSet(contents) /\ Cardinality(contents) \in Nat
    BY <1>2, KeysFinite DEF InsertOnlyInv, TableInv
  <2>4. contents \cap before = before
    BY <2>2
  <2>5. Cardinality(contents \ before) = Cardinality(contents) - Cardinality(before)
    BY <2>3, <2>4, FS_Difference
  <2>6. Cardinality(before) \in Nat /\ Cardinality(Successes) \in Nat
    <3>1. Successes \subseteq Procs
      BY DEF Successes
    <3>2. IsFiniteSet(Successes) /\ IsFiniteSet(before)
      BY <2>2, <2>3, <3>1, HashTableAssumption, FS_Subset
    <3>3. QED
      BY <3>2, FS_CardinalityType
  <2>7. QED
    BY <2>1, <2>2, <2>3, <2>5, <2>6
<1>3. InsertOnlyInv => AnswersAreRight
  BY <1>1, <1>2 DEF AnswersAreRight
<1>4. QED
  BY <1>3, InsertOnlyInvariance, PTL

-----------------------------------------------------------------------------
(* The block allocator.                                                    *)

(* --------------------- Blocks move between lists ----------------------- *)

LEMMA ListNames ==
    /\ \A u, w : OfWorker(u) = OfWorker(w) => u = w
    /\ \A g, h : InList(g) = InList(h) => g = h
    /\ \A w, h : OfWorker(w) # InList(h)
BY DEF OfWorker, InList

(* A worker whose list is empty gets one of the others.                    *)
LEMMA Adopt ==
    ASSUME list_length \in Nat \ {0},
           NEW list, NEW rank, NEW n \in Nat, NEW lk, NEW used, NEW loc, NEW heads,
           Placed(list, rank, n, lk, used, loc, heads),
           NEW w \in Workers, loc[w].sz = 0, NEW h \in heads,
           NEW loc2, loc2[w].sz = list_length, loc2[w].head = h,
           \A u \in Workers : u # w => loc2[u] = loc[u]
    PROVE  \E list2 : Placed(list2, rank, n, lk, used, loc2, heads \ {h})
<1> DEFINE list2 == [a \in 1..n |-> IF list[a] = InList(h) THEN OfWorker(w) ELSE list[a]]
<1>1. /\ list \in [1..n -> {OfWorker(u) : u \in Workers} \cup {InList(g) : g \in heads}]
      /\ rank \in [1..n -> Nat]
      /\ Ranked(list, rank, n, lk, used, heads)
  BY DEF Placed, Ranked
<1>2. \A u \in Workers : WorkerList(list, rank, n, loc[u], u)
  BY DEF Placed
<1>3. \A g \in heads : HeadList(list, rank, n, g)
  BY DEF Placed
<1>4. \A a \in 1..n : list2[a] = IF list[a] = InList(h) THEN OfWorker(w) ELSE list[a]
  OBVIOUS
<1>5. \A a \in 1..n : list[a] = OfWorker(w) => rank[a] = 0
  BY <1>1, <1>2 DEF WorkerList
<1>6. list2 \in [1..n -> {OfWorker(u) : u \in Workers} \cup {InList(g) : g \in heads \ {h}}]
  BY <1>1
<1> HIDE DEF list2
<1>7. Ranked(list2, rank, n, lk, used, heads \ {h})
  BY <1>1, <1>4, <1>5, <1>6 DEF Ranked
<1>8. ASSUME NEW u \in Workers PROVE WorkerList(list2, rank, n, loc2[u], u)
  <2>1. CASE u = w
    <3>1. \A a \in 1..n : list2[a] = OfWorker(w) => rank[a] <= list_length
      <4>1. \A a \in 1..n : list2[a] = OfWorker(w) => list[a] = InList(h) \/ rank[a] = 0
        BY <1>4, <1>5
      <4>2. QED
        BY <4>1, <1>3 DEF HeadList
    <3>2. h \in 1..n /\ list2[h] = OfWorker(w) /\ rank[h] = list_length
      BY <1>3, <1>4 DEF HeadList
    <3>3. ~ (list_length > list_length + 1)
      OBVIOUS
    <3>4. QED
      BY <2>1, <3>1, <3>2, <3>3 DEF WorkerList
  <2>2. CASE u # w
    <3>1. \A a \in 1..n : list2[a] = OfWorker(u) <=> list[a] = OfWorker(u)
      BY <2>2, <1>4, ListNames
    <3>2. loc2[u] = loc[u]
      BY <2>2
    <3>3. QED
      BY <1>2, <3>1, <3>2 DEF WorkerList
  <2>3. QED
    BY <2>1, <2>2
<1>9. ASSUME NEW g \in heads \ {h} PROVE HeadList(list2, rank, n, g)
  <2>1. \A a \in 1..n : list2[a] = InList(g) <=> list[a] = InList(g)
    BY <1>4, ListNames
  <2>2. QED
    BY <1>3, <2>1 DEF HeadList
<1>10. Placed(list2, rank, n, lk, used, loc2, heads \ {h})
  BY <1>7, <1>8, <1>9 DEF Placed
<1>11. QED
  BY <1>10

(* A worker hands out the first block of its list.                         *)
HeadTaken(loc, loc2, lk, w, b) ==
    /\ loc[w].sz \in Nat /\ loc[w].sz > 0 /\ loc[w].head = b
    /\ loc2[w].sz = loc[w].sz - 1 /\ loc2[w].head = lk[b] /\ loc2[w].mid = loc[w].mid
    /\ \A u \in Workers : u # w => loc2[u] = loc[u]

(* The block b goes to a caller; all others stay where they are.           *)
NowUsed(b, list, n, lk, used, loc, heads) ==
    /\ b \in (1..n) \ used
    /\ \E rank : Placed(list, rank, n, lk, used \cup {b}, loc, heads)

LEMMA TakeFirst ==
    ASSUME list_length \in Nat \ {0},
           NEW list, NEW rank, NEW n \in Nat, NEW lk, NEW used, NEW loc, NEW heads,
           Placed(list, rank, n, lk, used, loc, heads),
           NEW w \in Workers, NEW loc2, NEW b, HeadTaken(loc, loc2, lk, w, b)
    PROVE  NowUsed(b, list, n, lk, used, loc2, heads)
<1> DEFINE s == loc[w].sz
           rank2 == [a \in 1..n |-> IF a = b THEN 0 ELSE rank[a]]
<1>1. /\ list \in [1..n -> {OfWorker(u) : u \in Workers} \cup {InList(g) : g \in heads}]
      /\ rank \in [1..n -> Nat]
      /\ Ranked(list, rank, n, lk, used, heads)
  BY DEF Placed, Ranked
<1>2. \A u \in Workers : WorkerList(list, rank, n, loc[u], u)
  BY DEF Placed
<1>3. \A g \in heads : HeadList(list, rank, n, g)
  BY DEF Placed
<1>4. b \in 1..n /\ list[b] = OfWorker(w) /\ rank[b] = s /\ s \in Nat \ {0}
  BY <1>2 DEF WorkerList, HeadTaken
<1>5. b \notin used
  BY <1>1, <1>4 DEF Ranked
<1>6. rank2 \in [1..n -> Nat] /\ \A a \in 1..n : rank2[a] = IF a = b THEN 0 ELSE rank[a]
  BY <1>1
<1>7. /\ loc2[w].sz = s - 1 /\ loc2[w].head = lk[b] /\ loc2[w].mid = loc[w].mid
      /\ \A u \in Workers : u # w => loc2[u] = loc[u]
  BY DEF HeadTaken
<1>8. \A a \in 1..n : list[a] = OfWorker(w) => rank[a] <= s
  BY <1>2 DEF WorkerList
<1>9. s > list_length + 1 =>
         /\ loc[w].mid \in 1..n /\ list[loc[w].mid] = OfWorker(w)
         /\ rank[loc[w].mid] = list_length + 1
  BY <1>2 DEF WorkerList
<1> HIDE DEF rank2, s
<1>10. Ranked(list, rank2, n, lk, used \cup {b}, heads)
  <2>1. \A a \in 1..n : rank2[a] = 0 <=> a \in used \cup {b}
    BY <1>1, <1>6 DEF Ranked
  <2>2. \A a, d \in 1..n : list[a] = list[d] /\ rank2[a] = rank2[d] /\ rank2[a] # 0 => a = d
    BY <1>1, <1>6 DEF Ranked
  <2>3. ASSUME NEW a \in 1..n, rank2[a] > 1
        PROVE  lk[a] \in 1..n /\ list[lk[a]] = list[a] /\ rank2[lk[a]] = rank2[a] - 1
    <3>1. a # b /\ rank2[a] = rank[a] /\ rank[a] > 1
      BY <1>6, <2>3
    <3>2. lk[a] \in 1..n /\ list[lk[a]] = list[a] /\ rank[lk[a]] = rank[a] - 1
      BY <1>1, <3>1 DEF Ranked
    <3>3. lk[a] # b
      <4>1. SUFFICES ASSUME lk[a] = b PROVE FALSE
        OBVIOUS
      <4>2. list[a] = OfWorker(w) /\ rank[a] - 1 = s
        BY <1>4, <3>2, <4>1
      <4>3. rank[a] <= s
        BY <1>8, <4>2
      <4>4. QED
        BY <1>1, <1>4, <4>2, <4>3
    <3>4. QED
      BY <1>6, <3>1, <3>2, <3>3
  <2>4. QED
    BY <1>1, <1>6, <2>1, <2>2, <2>3 DEF Ranked
<1>11. ASSUME NEW u \in Workers PROVE WorkerList(list, rank2, n, loc2[u], u)
  <2>1. CASE u = w
    <3>1. ASSUME NEW a \in 1..n, list[a] = OfWorker(w) PROVE rank2[a] <= s - 1
      <4>1. a # b => rank[a] # s
        BY <1>1, <1>4, <3>1 DEF Ranked
      <4>2. rank[a] <= s /\ rank[a] \in Nat
        BY <1>1, <1>8, <3>1
      <4>3. QED
        BY <1>4, <1>6, <4>1, <4>2
    <3>2. ASSUME s - 1 > 0
          PROVE  lk[b] \in 1..n /\ list[lk[b]] = OfWorker(w) /\ rank2[lk[b]] = s - 1
      <4>1. rank[b] > 1
        BY <1>4, <3>2
      <4>2. lk[b] \in 1..n /\ list[lk[b]] = list[b] /\ rank[lk[b]] = rank[b] - 1
        BY <1>1, <1>4, <4>1 DEF Ranked
      <4>3. lk[b] # b
        BY <1>4, <4>2
      <4>4. QED
        BY <1>4, <1>6, <4>2, <4>3
    <3>3. ASSUME s - 1 > list_length + 1
          PROVE  /\ loc[w].mid \in 1..n /\ list[loc[w].mid] = OfWorker(w)
                 /\ rank2[loc[w].mid] = list_length + 1
      <4>1. s > list_length + 1 /\ s # list_length + 1
        BY <1>4, <3>3
      <4>2. QED
        BY <1>4, <1>6, <1>9, <4>1
    <3>4. QED
      BY <2>1, <1>7, <3>1, <3>2, <3>3 DEF WorkerList
  <2>2. CASE u # w
    <3>1. list[b] # OfWorker(u)
      BY <1>4, <2>2, ListNames
    <3>2. loc2[u] = loc[u]
      BY <1>7, <2>2
    <3>3. \A a \in 1..n : list[a] = OfWorker(u) => rank2[a] = rank[a]
      BY <1>6, <3>1
    <3>4. QED
      BY <1>2, <3>2, <3>3 DEF WorkerList
  <2>3. QED
    BY <2>1, <2>2
<1>12. ASSUME NEW h \in heads PROVE HeadList(list, rank2, n, h)
  <2>1. list[b] # InList(h)
    BY <1>4, ListNames
  <2>2. \A a \in 1..n : list[a] = InList(h) => rank2[a] = rank[a]
    BY <1>6, <2>1
  <2>3. QED
    BY <1>3, <2>2 DEF HeadList
<1>13. Placed(list, rank2, n, lk, used \cup {b}, loc2, heads)
  BY <1>10, <1>11, <1>12 DEF Placed
<1>14. QED
  BY <1>4, <1>5, <1>13 DEF NowUsed

(* A worker puts a block that is given back in front of its list.          *)
HeadPut(loc, loc2, lk, lk2, n, w, b) ==
    /\ loc[w].sz \in Nat
    /\ lk2[b] = loc[w].head /\ \A a \in 1..n : a # b => lk2[a] = lk[a]
    /\ loc2[w].sz = loc[w].sz + 1 /\ loc2[w].head = b
    /\ loc[w].sz > list_length =>
         loc2[w].mid = IF loc[w].sz = list_length + 1 THEN loc[w].head ELSE loc[w].mid
    /\ \A u \in Workers : u # w => loc2[u] = loc[u]

LEMMA Put ==
    ASSUME list_length \in Nat \ {0},
           NEW list, NEW rank, NEW n \in Nat, NEW lk, NEW used, NEW loc, NEW heads,
           Placed(list, rank, n, lk, used, loc, heads),
           NEW w \in Workers, NEW b \in 1..n, b \in used,
           NEW loc2, NEW lk2, HeadPut(loc, loc2, lk, lk2, n, w, b)
    PROVE  \E list2, rank2 : Placed(list2, rank2, n, lk2, used \ {b}, loc2, heads)
<1> DEFINE s == loc[w].sz
           list2 == [a \in 1..n |-> IF a = b THEN OfWorker(w) ELSE list[a]]
           rank2 == [a \in 1..n |-> IF a = b THEN s + 1 ELSE rank[a]]
<1>1. /\ list \in [1..n -> {OfWorker(u) : u \in Workers} \cup {InList(g) : g \in heads}]
      /\ rank \in [1..n -> Nat]
      /\ Ranked(list, rank, n, lk, used, heads)
  BY DEF Placed, Ranked
<1>2. \A u \in Workers : WorkerList(list, rank, n, loc[u], u)
  BY DEF Placed
<1>3. \A g \in heads : HeadList(list, rank, n, g)
  BY DEF Placed
<1>4. rank[b] = 0 /\ s \in Nat
  BY <1>1 DEF Ranked, HeadPut
<1>5. /\ list2 \in [1..n -> {OfWorker(u) : u \in Workers} \cup {InList(g) : g \in heads}]
      /\ rank2 \in [1..n -> Nat]
  <2>1. s + 1 \in Nat
    BY <1>4
  <2>2. \A a \in 1..n : rank[a] \in Nat
    BY <1>1
  <2> HIDE DEF s
  <2>3. QED
    BY <1>1, <2>1, <2>2
<1>6. \A a \in 1..n : /\ rank2[a] = IF a = b THEN s + 1 ELSE rank[a]
                      /\ list2[a] = IF a = b THEN OfWorker(w) ELSE list[a]
  OBVIOUS
<1>7. /\ loc2[w].sz = s + 1 /\ loc2[w].head = b
      /\ lk2[b] = loc[w].head /\ \A a \in 1..n : a # b => lk2[a] = lk[a]
      /\ \A u \in Workers : u # w => loc2[u] = loc[u]
  BY DEF HeadPut
<1>8. \A a \in 1..n : list[a] = OfWorker(w) => rank[a] <= s
  BY <1>2 DEF WorkerList
<1>9. s > 0 => /\ loc[w].head \in 1..n /\ list[loc[w].head] = OfWorker(w)
               /\ rank[loc[w].head] = s
  BY <1>2 DEF WorkerList
<1>10. s > list_length + 1 =>
         /\ loc[w].mid \in 1..n /\ list[loc[w].mid] = OfWorker(w)
         /\ rank[loc[w].mid] = list_length + 1
  BY <1>2 DEF WorkerList
<1>11. s > list_length =>
         loc2[w].mid = IF s = list_length + 1 THEN loc[w].head ELSE loc[w].mid
  BY DEF HeadPut
<1> HIDE DEF list2, rank2, s
<1>12. Ranked(list2, rank2, n, lk2, used \ {b}, heads)
  <2>1. \A a \in 1..n : rank2[a] = 0 <=> a \in used \ {b}
    BY <1>1, <1>4, <1>6 DEF Ranked
  <2>2. \A a \in 1..n : a # b /\ list2[a] = OfWorker(w) => rank2[a] # s + 1
    <3>1. \A a \in 1..n : a # b /\ list2[a] = OfWorker(w) => rank2[a] <= s /\ rank2[a] \in Nat
      BY <1>1, <1>6, <1>8
    <3>2. QED
      BY <1>4, <3>1
  <2>3. \A a, d \in 1..n : list2[a] = list2[d] /\ rank2[a] = rank2[d] /\ rank2[a] # 0 => a = d
    <3>1. ASSUME NEW a \in 1..n, NEW d \in 1..n, a # b, d # b,
                 list2[a] = list2[d], rank2[a] = rank2[d], rank2[a] # 0
          PROVE  a = d
      BY <1>1, <1>6, <3>1 DEF Ranked
    <3>2. rank2[b] = s + 1 /\ list2[b] = OfWorker(w)
      BY <1>6
    <3>3. QED
      BY <2>2, <3>1, <3>2
  <2>4. ASSUME NEW a \in 1..n, rank2[a] > 1
        PROVE  lk2[a] \in 1..n /\ list2[lk2[a]] = list2[a] /\ rank2[lk2[a]] = rank2[a] - 1
    <3>1. CASE a = b
      <4>1. s > 0
        BY <1>4, <1>6, <2>4, <3>1
      <4>2. loc[w].head # b
        BY <1>4, <1>9, <4>1
      <4>3. lk2[b] = loc[w].head /\ rank2[b] - 1 = s /\ list2[b] = OfWorker(w)
        BY <1>4, <1>6, <1>7
      <4>4. rank2[lk2[b]] = s /\ list2[lk2[b]] = OfWorker(w) /\ lk2[b] \in 1..n
        BY <1>6, <1>9, <4>1, <4>2, <4>3
      <4>5. QED
        BY <3>1, <4>3, <4>4
    <3>2. CASE a # b
      <4>1. rank2[a] = rank[a] /\ rank[a] > 1 /\ lk2[a] = lk[a]
        BY <1>6, <1>7, <2>4, <3>2
      <4>2. lk[a] \in 1..n /\ list[lk[a]] = list[a] /\ rank[lk[a]] = rank[a] - 1
        BY <1>1, <4>1 DEF Ranked
      <4>3. lk[a] # b
        BY <1>1, <1>4, <4>1, <4>2
      <4>4. QED
        BY <1>6, <3>2, <4>1, <4>2, <4>3
    <3>3. QED
      BY <3>1, <3>2
  <2>5. QED
    BY <1>5, <2>1, <2>3, <2>4 DEF Ranked
<1>13. ASSUME NEW u \in Workers PROVE WorkerList(list2, rank2, n, loc2[u], u)
  <2>1. CASE u = w
    <3>1. \A a \in 1..n : list2[a] = OfWorker(w) => rank2[a] <= s + 1
      <4>1. \A a \in 1..n : list2[a] = OfWorker(w) => a = b \/ (rank2[a] = rank[a] /\ rank[a] <= s)
        BY <1>6, <1>8
      <4>2. QED
        BY <1>1, <1>4, <1>6, <4>1
    <3>2. rank2[b] = s + 1 /\ list2[b] = OfWorker(w)
      BY <1>6
    <3>3. ASSUME s + 1 > list_length + 1
          PROVE  /\ loc2[w].mid \in 1..n /\ list2[loc2[w].mid] = OfWorker(w)
                 /\ rank2[loc2[w].mid] = list_length + 1
      <4>1. s > list_length /\ s > 0
        BY <1>4, <3>3
      <4>2. CASE s = list_length + 1
        <5>1. loc2[w].mid = loc[w].head /\ loc[w].head # b
          BY <1>4, <1>9, <1>11, <4>1, <4>2
        <5>2. QED
          BY <1>6, <1>9, <4>1, <4>2, <5>1
      <4>3. CASE s # list_length + 1
        <5>1. s > list_length + 1
          BY <1>4, <4>1, <4>3
        <5>2. loc2[w].mid = loc[w].mid /\ loc[w].mid # b
          BY <1>4, <1>10, <1>11, <4>1, <4>3, <5>1
        <5>3. QED
          BY <1>6, <1>10, <5>1, <5>2
      <4>4. QED
        BY <4>2, <4>3
    <3>4. QED
      BY <2>1, <1>7, <3>1, <3>2, <3>3 DEF WorkerList
  <2>2. CASE u # w
    <3>1. loc2[u] = loc[u]
      BY <1>7, <2>2
    <3>2. \A a \in 1..n : list2[a] = OfWorker(u) =>
            a # b /\ list[a] = OfWorker(u) /\ rank2[a] = rank[a]
      BY <1>6, <2>2, ListNames
    <3>3. \A a \in 1..n : list[a] = OfWorker(u) /\ rank[a] # 0 =>
            list2[a] = OfWorker(u) /\ rank2[a] = rank[a]
      BY <1>4, <1>6
    <3>4. loc[u].sz > 0 => /\ loc[u].head \in 1..n /\ list2[loc[u].head] = OfWorker(u)
                          /\ rank2[loc[u].head] = loc[u].sz
      BY <1>2, <3>3 DEF WorkerList
    <3>5. loc[u].sz > list_length + 1 =>
            /\ loc[u].mid \in 1..n /\ list2[loc[u].mid] = OfWorker(u)
            /\ rank2[loc[u].mid] = list_length + 1
      BY <1>2, <3>3 DEF WorkerList
    <3>6. QED
      BY <1>2, <3>1, <3>2, <3>4, <3>5 DEF WorkerList
  <2>3. QED
    BY <2>1, <2>2
<1>14. ASSUME NEW h \in heads PROVE HeadList(list2, rank2, n, h)
  <2>1. \A a \in 1..n : list2[a] = InList(h) => list[a] = InList(h) /\ rank2[a] = rank[a]
    BY <1>6, ListNames
  <2>2. \A a \in 1..n : rank[a] # 0 => list2[a] = list[a] /\ rank2[a] = rank[a]
    BY <1>4, <1>6
  <2>3. h \in 1..n /\ list[h] = InList(h) /\ rank[h] = list_length
    BY <1>3 DEF HeadList
  <2>4. QED
    BY <1>3, <2>1, <2>2, <2>3 DEF HeadList
<1>15. Placed(list2, rank2, n, lk2, used \ {b}, loc2, heads)
  BY <1>12, <1>13, <1>14 DEF Placed
<1>16. QED
  BY <1>15

(* The last list_length blocks of a full list become a list of their own.  *)
LastGiven(loc, loc2, lk, lk2, n, w, z, h) ==
    /\ loc[w].sz = 2 * list_length /\ loc[w].sz # list_length + 1
    /\ loc[w].mid = z /\ lk[z] = h /\ \A a \in 1..n : a # z => lk2[a] = lk[a]
    /\ loc2[w].sz = list_length /\ loc2[w].head = loc[w].head
    /\ \A u \in Workers : u # w => loc2[u] = loc[u]

(* The list from h on is given away; z, with what is before, stays.        *)
NowShared(z, h, n, lk, used, loc, heads) ==
    /\ z \in (1..n) \ used /\ h \in (1..n) \ heads
    /\ \E list, rank : Placed(list, rank, n, lk, used, loc, heads \cup {h})

LEMMA Give ==
    ASSUME list_length \in Nat \ {0},
           NEW list, NEW rank, NEW n \in Nat, NEW lk, NEW used, NEW loc, NEW heads,
           Placed(list, rank, n, lk, used, loc, heads),
           NEW w \in Workers, NEW loc2, NEW lk2, NEW z, NEW h,
           LastGiven(loc, loc2, lk, lk2, n, w, z, h)
    PROVE  NowShared(z, h, n, lk2, used, loc2, heads)
<1> DEFINE L == list_length
           list2 == [a \in 1..n |-> IF list[a] = OfWorker(w) /\ rank[a] \in 1..L
                                      THEN InList(h) ELSE list[a]]
           rank2 == [a \in 1..n |-> IF list[a] = OfWorker(w) /\ rank[a] > L
                                      THEN rank[a] - L ELSE rank[a]]
<1>1. /\ list \in [1..n -> {OfWorker(u) : u \in Workers} \cup {InList(g) : g \in heads}]
      /\ rank \in [1..n -> Nat]
      /\ Ranked(list, rank, n, lk, used, heads)
  BY DEF Placed, Ranked
<1>2. \A u \in Workers : WorkerList(list, rank, n, loc[u], u)
  BY DEF Placed
<1>3. \A g \in heads : HeadList(list, rank, n, g)
  BY DEF Placed
<1>4. L \in Nat \ {0} /\ loc[w].sz = 2 * L /\ 2 * L > L + 1
  BY DEF LastGiven
<1>5. /\ \A a \in 1..n : list[a] = OfWorker(w) => rank[a] <= 2 * L
      /\ loc[w].head \in 1..n /\ list[loc[w].head] = OfWorker(w) /\ rank[loc[w].head] = 2 * L
      /\ z \in 1..n /\ list[z] = OfWorker(w) /\ rank[z] = L + 1
  <2>1. loc[w].sz > 0 /\ loc[w].sz > list_length + 1
    BY <1>4
  <2>2. QED
    BY <1>2, <1>4, <2>1 DEF WorkerList, LastGiven
<1>6. h \in 1..n /\ list[h] = OfWorker(w) /\ rank[h] = L
  BY <1>1, <1>4, <1>5 DEF Ranked, LastGiven
<1>7. h \notin heads
  BY <1>3, <1>6, ListNames DEF HeadList
<1>8. z \notin used
  BY <1>1, <1>4, <1>5 DEF Ranked
<1>9. \A a \in 1..n : list[a] # InList(h)
  BY <1>1, <1>7, ListNames
<1>10. \A a \in 1..n : /\ list[a] = OfWorker(w) /\ rank[a] \in 1..L =>
                            list2[a] = InList(h) /\ rank2[a] = rank[a]
                       /\ list[a] = OfWorker(w) /\ rank[a] > L =>
                            list2[a] = list[a] /\ rank2[a] = rank[a] - L
                       /\ list[a] # OfWorker(w) \/ rank[a] = 0 =>
                            list2[a] = list[a] /\ rank2[a] = rank[a]
  BY <1>1, <1>4
<1>11. \A a \in 1..n : \/ list[a] = OfWorker(w) /\ rank[a] \in 1..L
                       \/ list[a] = OfWorker(w) /\ rank[a] > L
                       \/ list[a] # OfWorker(w) \/ rank[a] = 0
  BY <1>1, <1>4
<1>12. /\ list2 \in [1..n -> {OfWorker(u) : u \in Workers} \cup {InList(g) : g \in heads \cup {h}}]
       /\ rank2 \in [1..n -> Nat]
  BY <1>1, <1>4
<1>13. /\ \A a \in 1..n : a # z => lk2[a] = lk[a]
       /\ loc2[w].sz = L /\ loc2[w].head = loc[w].head
       /\ \A u \in Workers : u # w => loc2[u] = loc[u]
  BY DEF LastGiven
<1> HIDE DEF list2, rank2, L
<1>14. Ranked(list2, rank2, n, lk2, used, heads \cup {h})
  <2>1. \A a \in 1..n : rank2[a] = 0 <=> rank[a] = 0
    BY <1>1, <1>4, <1>10, <1>11
  <2>2. \A a \in 1..n : rank2[a] = 0 <=> a \in used
    BY <1>1, <2>1 DEF Ranked
  <2>3. ASSUME NEW a \in 1..n, NEW d \in 1..n,
               list2[a] = list2[d], rank2[a] = rank2[d], rank2[a] # 0
        PROVE  a = d
    <3>1. rank[a] # 0 /\ rank[d] # 0
      BY <2>1, <2>3
    <3>2. list[a] = list[d] /\ rank[a] = rank[d]
      <4>1. CASE list[a] = OfWorker(w) /\ rank[a] \in 1..L
        BY <1>1, <1>4, <1>9, <1>10, <1>11, <2>3, <3>1, <4>1, ListNames
      <4>2. CASE list[a] = OfWorker(w) /\ rank[a] > L
        BY <1>1, <1>4, <1>9, <1>10, <1>11, <2>3, <3>1, <4>2, ListNames
      <4>3. CASE list[a] # OfWorker(w)
        BY <1>1, <1>4, <1>9, <1>10, <1>11, <2>3, <3>1, <4>3, ListNames
      <4>4. QED
        BY <1>11, <3>1, <4>1, <4>2, <4>3
    <3>3. QED
      BY <1>1, <3>1, <3>2 DEF Ranked
  <2>4. ASSUME NEW a \in 1..n, rank2[a] > 1
        PROVE  lk2[a] \in 1..n /\ list2[lk2[a]] = list2[a] /\ rank2[lk2[a]] = rank2[a] - 1
    <3>1. rank2[z] = 1
      BY <1>4, <1>5, <1>10
    <3>2. a # z /\ lk2[a] = lk[a] /\ rank[a] # 0
      BY <1>13, <2>1, <2>4, <3>1
    <3>3. rank[a] > 1
      BY <1>1, <1>4, <1>10, <1>11, <2>4, <3>2
    <3>4. lk[a] \in 1..n /\ list[lk[a]] = list[a] /\ rank[lk[a]] = rank[a] - 1
      BY <1>1, <3>3 DEF Ranked
    <3>5. CASE list[a] = OfWorker(w) /\ rank[a] \in 1..L
      <4>1. rank[lk[a]] \in 1..L
        BY <1>4, <3>3, <3>4, <3>5
      <4>2. QED
        BY <1>10, <3>2, <3>4, <3>5, <4>1
    <3>6. CASE list[a] = OfWorker(w) /\ rank[a] > L
      <4>1. rank[a] # L + 1
        BY <1>1, <1>4, <1>5, <3>2, <3>6 DEF Ranked
      <4>2. rank[lk[a]] > L /\ rank[a] \in Nat
        BY <1>1, <1>4, <3>4, <3>6, <4>1
      <4>3. list2[lk[a]] = list[lk[a]] /\ rank2[lk[a]] = rank[lk[a]] - L
        BY <1>10, <3>4, <3>6, <4>2
      <4>4. list2[a] = list[a] /\ rank2[a] = rank[a] - L
        BY <1>10, <3>6
      <4>5. QED
        BY <1>4, <3>2, <3>4, <4>2, <4>3, <4>4
    <3>7. CASE list[a] # OfWorker(w)
      BY <1>10, <3>2, <3>4, <3>7
    <3>8. QED
      BY <1>11, <3>2, <3>5, <3>6, <3>7
  <2>5. QED
    BY <1>12, <2>2, <2>3, <2>4 DEF Ranked
<1>15. ASSUME NEW u \in Workers PROVE WorkerList(list2, rank2, n, loc2[u], u)
  <2>1. CASE u = w
    <3>1. \A a \in 1..n : list2[a] = OfWorker(w) => rank2[a] <= L
      <4>1. \A a \in 1..n : list2[a] = OfWorker(w) =>
              \/ rank[a] = 0 /\ rank2[a] = 0
              \/ list[a] = OfWorker(w) /\ rank[a] > L
        BY <1>10, <1>11, ListNames
      <4>2. \A a \in 1..n : list[a] = OfWorker(w) /\ rank[a] > L =>
              rank2[a] = rank[a] - L /\ rank[a] <= 2 * L /\ rank[a] \in Nat
        BY <1>1, <1>5, <1>10
      <4>3. QED
        BY <1>4, <4>1, <4>2
    <3>2. list2[loc[w].head] = OfWorker(w) /\ rank2[loc[w].head] = L
      <4>1. rank[loc[w].head] > L /\ 2 * L - L = L
        BY <1>4, <1>5
      <4>2. QED
        BY <1>5, <1>10, <4>1
    <3>3. loc2[w].sz = L /\ loc2[w].head = loc[w].head /\ ~(L > list_length + 1)
      BY <1>4, <1>13 DEF L
    <3>4. QED
      BY <2>1, <1>5, <3>1, <3>2, <3>3 DEF WorkerList
  <2>2. CASE u # w
    <3>1. loc2[u] = loc[u]
      BY <1>13, <2>2
    <3>2. \A a \in 1..n : list2[a] = OfWorker(u) => list[a] = OfWorker(u)
      BY <1>10, <1>11, <2>2, ListNames
    <3>3. \A a \in 1..n : list[a] = OfWorker(u) => list2[a] = OfWorker(u) /\ rank2[a] = rank[a]
      BY <1>10, <2>2, ListNames
    <3>4. QED
      BY <1>2, <3>1, <3>2, <3>3 DEF WorkerList
  <2>3. QED
    BY <2>1, <2>2
<1>16. ASSUME NEW g \in heads \cup {h} PROVE HeadList(list2, rank2, n, g)
  <2>1. CASE g = h
    <3>1. \A a \in 1..n : list2[a] = InList(h) => rank2[a] <= L
      <4>1. \A a \in 1..n : list2[a] = InList(h) => rank[a] \in 1..L /\ rank2[a] = rank[a]
        BY <1>9, <1>10, <1>11, ListNames
      <4>2. QED
        BY <1>4, <4>1
    <3>2. list2[h] = InList(h) /\ rank2[h] = L
      <4>1. rank[h] \in 1..L
        BY <1>4, <1>6
      <4>2. QED
        BY <1>6, <1>10, <4>1
    <3>3. QED
      BY <1>6, <2>1, <3>1, <3>2 DEF HeadList, L
  <2>2. CASE g # h
    <3>1. g \in heads
      BY <2>2
    <3>2. \A a \in 1..n : list2[a] = InList(g) => list[a] = InList(g) /\ rank2[a] = rank[a]
      BY <1>10, <1>11, <2>2, ListNames
    <3>3. \A a \in 1..n : list[a] = InList(g) => list2[a] = InList(g) /\ rank2[a] = rank[a]
      BY <1>10, ListNames
    <3>4. QED
      BY <1>3, <3>1, <3>2, <3>3 DEF HeadList
  <2>3. QED
    BY <2>1, <2>2
<1>17. Placed(list2, rank2, n, lk2, used, loc2, heads \cup {h})
  BY <1>14, <1>15, <1>16 DEF Placed
<1>18. QED
  BY <1>5, <1>6, <1>7, <1>8, <1>17 DEF NowShared

(* ------------------------- New lists ----------------------------------- *)

LEMMA DivMod ==
    ASSUME NEW L \in Nat \ {0}, NEW t \in Nat
    PROVE  t \div L \in Nat /\ t % L \in 0..(L - 1) /\ t = (t \div L) * L + (t % L)
<1>1. t \div L \in Int /\ t \div L >= 0 /\ t % L \in 0..(L - 1)
  OBVIOUS
<1>2. t = L * (t \div L) + (t % L)
  OBVIOUS
<1>3. QED
  BY <1>1, <1>2

LEMMA Multiples ==
    ASSUME NEW L \in Nat \ {0}, NEW p \in Int, NEW q \in Int, p < q
    PROVE  p * L + L <= q * L
<1>1. (q - p - 1) * L >= 0
  <2>1. q - p - 1 \in Nat
    OBVIOUS
  <2>2. \A a \in Nat : a * L >= 0
    OBVIOUS
  <2>3. QED
    BY <2>1, <2>2
<1>2. (q - p - 1) * L = q * L - p * L - L
  OBVIOUS
<1>3. p * L \in Int /\ q * L \in Int
  OBVIOUS
<1>4. QED
  BY <1>1, <1>2, <1>3

LEMMA DivUnique ==
    ASSUME NEW L \in Nat \ {0}, NEW p \in Int, NEW q \in Int,
           NEW r \in 0..(L - 1), NEW s \in 0..(L - 1), p * L + r = q * L + s
    PROVE  p = q /\ r = s
<1>1. ~ (p < q)
  BY Multiples
<1>2. ~ (q < p)
  BY Multiples
<1>3. p = q
  BY <1>1, <1>2
<1>4. p * L \in Int
  OBVIOUS
<1>5. QED
  BY <1>3, <1>4

LEMMA MultipleMod ==
    ASSUME NEW L \in Nat \ {0}, NEW q \in Nat
    PROVE  (q * L) % L = 0
<1> DEFINE z == q * L
           t == z \div L
           r == z % L
           o == 0
<1>1. z \in Nat
  OBVIOUS
<1>2. o \in 0..(L - 1) /\ q * L + o = z
  OBVIOUS
<1> HIDE DEF z
<1>3. t \in Nat /\ r \in 0..(L - 1) /\ z = t * L + r
  BY <1>1, DivMod
<1> HIDE DEF t, r, o
<1>4. q * L + o = t * L + r /\ q \in Int /\ t \in Int
  BY <1>2, <1>3
<1>5. o = r
  BY <1>2, <1>3, <1>4, DivUnique
<1>6. QED
  BY <1>5 DEF o, r, z

(* The list of a new block, and its place in it: n blocks were there       *)
(* before.  HeadNo is the first block of list p.                           *)
ListNo(n, a)  == (a - n - 1) \div list_length
PlaceNo(n, a) == (a - n - 1) % list_length
HeadNo(n, p)  == n + 1 + p * list_length

LEMMA NewBlock ==
    ASSUME list_length \in Nat \ {0}, NEW n \in Nat, NEW q \in Nat,
           NEW a \in (n + 1)..(n + q * list_length)
    PROVE  /\ ListNo(n, a) \in 0..(q - 1) /\ PlaceNo(n, a) \in 0..(list_length - 1)
           /\ a = HeadNo(n, ListNo(n, a)) + PlaceNo(n, a)
<1> DEFINE L == list_length
           p == ListNo(n, a)
           r == PlaceNo(n, a)
<1>1. L \in Nat \ {0} /\ q * L \in Nat
  OBVIOUS
<1>2. a - n - 1 \in Nat /\ a - n - 1 < q * L
  <2> DEFINE z == q * L
  <2>1. z \in Nat /\ a \in (n + 1)..(n + z)
    BY <1>1
  <2> HIDE DEF z
  <2>2. a - n - 1 \in Nat /\ a - n - 1 < z
    BY <2>1
  <2>3. QED
    BY <2>2 DEF z
<1>3. p \in Nat /\ r \in 0..(L - 1) /\ a - n - 1 = p * L + r
  BY <1>1, <1>2, DivMod DEF ListNo, PlaceNo
<1> HIDE DEF p, r, L
<1>4. p * L \in Nat /\ a \in Nat
  BY <1>1, <1>3
<1>5. p < q
  <2>1. SUFFICES ASSUME ~ (p < q) PROVE FALSE
    OBVIOUS
  <2>2. q = p \/ q < p
    BY <1>3, <2>1
  <2>3. q * L <= p * L
    <3>1. CASE q < p
      <4>1. q * L + L <= p * L
        BY <1>1, <1>3, <3>1, Multiples
      <4>2. QED
        BY <1>1, <1>4, <4>1
    <3>2. QED
      BY <2>2, <3>1, <1>4
  <2>4. QED
    BY <1>1, <1>2, <1>3, <1>4, <2>3
<1>6. p \in 0..(q - 1)
  BY <1>3, <1>5
<1>7. a = n + 1 + p * L + r
  BY <1>3, <1>4
<1>8. QED
  BY <1>3, <1>6, <1>7 DEF HeadNo, L, p, r

LEMMA BlockAt ==
    ASSUME list_length \in Nat \ {0}, NEW n \in Nat, NEW q \in Nat,
           NEW p \in 0..(q - 1), NEW r \in 0..(list_length - 1),
           NEW a, a = HeadNo(n, p) + r
    PROVE  /\ a \in (n + 1)..(n + q * list_length)
           /\ ListNo(n, a) = p /\ PlaceNo(n, a) = r
<1> DEFINE L == list_length
<1>1. L \in Nat \ {0} /\ p * L \in Nat /\ q * L \in Nat /\ r \in 0..(L - 1)
  OBVIOUS
<1>2. a = n + 1 + p * L + r
  BY DEF HeadNo
<1>3. p * L + L <= q * L
  BY <1>1, Multiples
<1> DEFINE y == p * L
           z == q * L
<1>4. y \in Nat /\ z \in Nat /\ y + L <= z /\ a = n + 1 + y + r
  BY <1>1, <1>2, <1>3
<1>5. a \in (n + 1)..(n + z) /\ a - n - 1 = y + r
  <2> HIDE DEF y, z, L
  <2>1. QED
    BY <1>1, <1>4
<1>6. a - n - 1 \in Nat
  <2> HIDE DEF y, z
  <2>1. QED
    BY <1>4, <1>5
<1>7. /\ ListNo(n, a) \in Nat /\ PlaceNo(n, a) \in 0..(L - 1)
      /\ a - n - 1 = ListNo(n, a) * L + PlaceNo(n, a)
  BY <1>1, <1>6, DivMod DEF ListNo, PlaceNo
<1>8. ListNo(n, a) = p /\ PlaceNo(n, a) = r
  <2> DEFINE g == ListNo(n, a)
             s == PlaceNo(n, a)
  <2>1. g \in Int /\ s \in 0..(L - 1) /\ g * L + s = p * L + r
    BY <1>5, <1>7
  <2> HIDE DEF g, s, L
  <2>2. g = p /\ s = r
    BY <1>1, <2>1, DivUnique
  <2>3. QED
    BY <2>2 DEF g, s
<1>9. QED
  BY <1>5, <1>8

(* The end of a list is where initialize_list stops.                       *)
LEMMA EndOfList ==
    ASSUME list_length \in Nat \ {0}, NEW n \in Nat, NEW q \in Nat,
           NEW a \in (n + 1)..(n + q * list_length), PlaceNo(n, a) # list_length - 1
    PROVE  /\ (a - n) % list_length # 0
           /\ a + 1 \in (n + 1)..(n + q * list_length)
           /\ ListNo(n, a + 1) = ListNo(n, a) /\ PlaceNo(n, a + 1) = PlaceNo(n, a) + 1
<1> DEFINE L == list_length
           p == ListNo(n, a)
           r == PlaceNo(n, a)
<1>1. p \in 0..(q - 1) /\ r \in 0..(L - 1) /\ a = HeadNo(n, p) + r /\ r # L - 1
  BY NewBlock
<1>2. p * L \in Nat /\ p \in Int /\ HeadNo(n, p) = n + 1 + p * L
  BY <1>1 DEF HeadNo
<1>3. r + 1 \in 0..(L - 1) /\ a + 1 = HeadNo(n, p) + (r + 1)
  <2> DEFINE y == p * L
  <2> HIDE DEF p, r, L
  <2>1. L \in Nat
    BY DEF L
  <2> HIDE DEF y
  <2>2. QED
    BY <1>1, <1>2, <2>1 DEF y
<1>4. /\ a + 1 \in (n + 1)..(n + q * L)
      /\ ListNo(n, a + 1) = p /\ PlaceNo(n, a + 1) = r + 1
  <2> DEFINE b == a + 1
             s == r + 1
  <2>1. p \in 0..(q - 1) /\ s \in 0..(list_length - 1) /\ b = HeadNo(n, p) + s
    BY <1>1, <1>3
  <2> HIDE DEF b, s, p, r
  <2>2. /\ b \in (n + 1)..(n + q * list_length)
        /\ ListNo(n, b) = p /\ PlaceNo(n, b) = s
    BY <2>1, BlockAt
  <2>3. QED
    BY <2>2 DEF b, s
<1>5. (a + 1) - n - 1 = a - n
  BY <1>1, <1>2
<1>6. (a - n) % L # 0
  <2>1. PlaceNo(n, a + 1) # 0
    <3> HIDE DEF p, r
    <3>1. QED
      BY <1>1, <1>4
  <2>2. QED
    BY <1>5, <2>1 DEF PlaceNo
<1>7. QED
  BY <1>4, <1>6

(* The heads of q lists behind n blocks.                                   *)
NewHeads(n, q) == {HeadNo(n, p) : p \in 0..(q - 1)}

(* New blocks are linked to lists behind the blocks that there are.        *)
LEMMA Grow ==
    ASSUME list_length \in Nat \ {0},
           NEW list, NEW rank, NEW n \in Nat, NEW lk, NEW used, NEW loc, NEW heads,
           Placed(list, rank, n, lk, used, loc, heads), used \subseteq 1..n,
           NEW q \in Nat, NEW lk2, \A a \in 1..n : lk2[a] = lk[a],
           \A a \in (n + 1)..(n + q * list_length) :
             lk2[a] = IF (a - n) % list_length = 0 THEN nullptr ELSE a + 1
    PROVE  \E list2, rank2 :
             Placed(list2, rank2, n + q * list_length, lk2, used, loc, heads \cup NewHeads(n, q))
<1> DEFINE L == list_length
           n2 == n + q * L
           H(a) == HeadNo(n, ListNo(n, a))
           list2 == [a \in 1..n2 |-> IF a \in 1..n THEN list[a] ELSE InList(H(a))]
           rank2 == [a \in 1..n2 |-> IF a \in 1..n THEN rank[a] ELSE L - PlaceNo(n, a)]
           heads2 == heads \cup NewHeads(n, q)
<1>1. /\ list \in [1..n -> {OfWorker(u) : u \in Workers} \cup {InList(g) : g \in heads}]
      /\ rank \in [1..n -> Nat]
      /\ Ranked(list, rank, n, lk, used, heads)
  BY DEF Placed, Ranked
<1>2. \A u \in Workers : WorkerList(list, rank, n, loc[u], u)
  BY DEF Placed
<1>3. \A g \in heads : HeadList(list, rank, n, g)
  BY DEF Placed
<1>4. L \in Nat \ {0} /\ n2 \in Nat /\ n <= n2
  <2>1. q * L \in Nat
    OBVIOUS
  <2> DEFINE z == q * L
  <2>2. z \in Nat
    BY <2>1
  <2> HIDE DEF z
  <2>3. n + z \in Nat /\ n <= n + z
    BY <2>2
  <2>4. QED
    BY <2>3 DEF z
<1>5. ASSUME NEW a \in (n + 1)..n2
      PROVE  /\ ListNo(n, a) \in 0..(q - 1) /\ PlaceNo(n, a) \in 0..(L - 1)
             /\ a = H(a) + PlaceNo(n, a) /\ H(a) \in NewHeads(n, q)
  BY NewBlock DEF NewHeads
<1>6. ASSUME NEW p \in 0..(q - 1)
      PROVE  /\ HeadNo(n, p) \in (n + 1)..n2
             /\ ListNo(n, HeadNo(n, p)) = p /\ PlaceNo(n, HeadNo(n, p)) = 0
  <2>1. 0 \in 0..(L - 1) /\ HeadNo(n, p) = HeadNo(n, p) + 0
    <3>1. p * L \in Int
      OBVIOUS
    <3>2. QED
      BY <1>4, <3>1 DEF HeadNo
  <2> DEFINE b == HeadNo(n, p)
  <2>2. b = HeadNo(n, p) + 0
    BY <2>1
  <2> HIDE DEF b
  <2>3. b \in (n + 1)..(n + q * list_length) /\ ListNo(n, b) = p /\ PlaceNo(n, b) = 0
    BY <2>1, <2>2, BlockAt
  <2>4. QED
    BY <2>3 DEF b
<1>7. ASSUME NEW a \in (n + 1)..n2, PlaceNo(n, a) # L - 1
      PROVE  /\ lk2[a] = a + 1 /\ a + 1 \in (n + 1)..n2
             /\ ListNo(n, a + 1) = ListNo(n, a) /\ PlaceNo(n, a + 1) = PlaceNo(n, a) + 1
  BY <1>7, EndOfList
<1>8. \A a \in 1..n : a \in 1..n2 /\ a \notin (n + 1)..n2 /\ lk2[a] = lk[a]
  <2> HIDE DEF n2
  <2>1. QED
    BY <1>4
<1>9. \A a \in 1..n2 : a \in 1..n \/ a \in (n + 1)..n2
  <2> HIDE DEF n2
  <2>1. QED
    BY <1>4
<1>10. \A a \in (n + 1)..n2 : a \in 1..n2 /\ a \notin 1..n
  <2> HIDE DEF n2
  <2>1. QED
    BY <1>4
<1>11. \A a \in (n + 1)..n2 : L - PlaceNo(n, a) \in 1..L
  BY <1>4, <1>5
<1>12. /\ \A a \in 1..n : list2[a] = list[a] /\ rank2[a] = rank[a]
       /\ \A a \in (n + 1)..n2 : list2[a] = InList(H(a)) /\ rank2[a] = L - PlaceNo(n, a)
  BY <1>8, <1>10
<1>13. \A g \in NewHeads(n, q) : g \in (n + 1)..n2 /\ H(g) = g /\ PlaceNo(n, g) = 0
  BY <1>6 DEF NewHeads
<1>14. NewHeads(n, q) \cap heads = {}
  BY <1>3, <1>10, <1>13 DEF HeadList
<1>15. /\ list2 \in [1..n2 -> {OfWorker(u) : u \in Workers} \cup {InList(g) : g \in heads2}]
       /\ rank2 \in [1..n2 -> Nat]
  <2>1. ASSUME NEW a \in 1..n2
        PROVE  /\ list2[a] \in {OfWorker(u) : u \in Workers} \cup {InList(g) : g \in heads2}
               /\ rank2[a] \in Nat
    <3>1. CASE a \in 1..n
      BY <1>1, <1>12, <3>1
    <3>2. CASE a \in (n + 1)..n2
      BY <1>4, <1>5, <1>11, <1>12, <3>2
    <3>3. QED
      BY <1>9, <3>1, <3>2
  <2> DEFINE Y == {OfWorker(u) : u \in Workers} \cup {InList(g) : g \in heads2}
  <2>2. list2 = [a \in 1..n2 |-> list2[a]] /\ rank2 = [a \in 1..n2 |-> rank2[a]]
    OBVIOUS
  <2> HIDE DEF list2, rank2, n2, Y
  <2>3. QED
    BY <2>1, <2>2 DEF Y
<1>16. \A a \in 1..n, b \in (n + 1)..n2 : list2[a] # list2[b]
  <2>1. \A a \in 1..n, g \in NewHeads(n, q) : list[a] # InList(g)
    BY <1>1, <1>14, ListNames
  <2>2. QED
    BY <1>5, <1>12, <2>1
<1> HIDE DEF list2, rank2, n2, heads2, L, H
<1>17. Ranked(list2, rank2, n2, lk2, used, heads2)
  <2>1. \A a \in 1..n2 : rank2[a] = 0 <=> a \in used
    <3>1. \A a \in 1..n : rank2[a] = 0 <=> a \in used
      BY <1>1, <1>12 DEF Ranked
    <3>2. \A a \in (n + 1)..n2 : rank2[a] # 0 /\ a \notin used
      BY <1>4, <1>10, <1>11, <1>12
    <3>3. QED
      BY <1>9, <3>1, <3>2
  <2>2. ASSUME NEW a \in 1..n2, NEW b \in 1..n2,
               list2[a] = list2[b], rank2[a] = rank2[b], rank2[a] # 0
        PROVE  a = b
    <3>1. CASE a \in 1..n /\ b \in 1..n
      BY <1>1, <1>12, <2>2, <3>1 DEF Ranked
    <3>2. CASE a \in (n + 1)..n2 /\ b \in (n + 1)..n2
      <4>1. H(a) = H(b)
        BY <1>12, <2>2, <3>2, ListNames
      <4>2. L - PlaceNo(n, a) = L - PlaceNo(n, b)
        BY <1>12, <2>2, <3>2
      <4>3. PlaceNo(n, a) = PlaceNo(n, b)
        <5> DEFINE f == PlaceNo(n, a)
                   g == PlaceNo(n, b)
        <5>1. f \in Int /\ g \in Int /\ L - f = L - g
          BY <1>4, <1>5, <3>2, <4>2
        <5> HIDE DEF f, g
        <5>2. f = g
          BY <1>4, <5>1
        <5>3. QED
          BY <5>2 DEF f, g
      <4>4. a = H(a) + PlaceNo(n, a) /\ b = H(b) + PlaceNo(n, b)
        BY <1>5, <3>2
      <4>5. QED
        BY <4>1, <4>3, <4>4
    <3>3. QED
      BY <1>9, <1>16, <2>2, <3>1, <3>2
  <2>3. ASSUME NEW a \in 1..n2, rank2[a] > 1
        PROVE  lk2[a] \in 1..n2 /\ list2[lk2[a]] = list2[a] /\ rank2[lk2[a]] = rank2[a] - 1
    <3>1. CASE a \in 1..n
      <4>1. rank[a] > 1 /\ lk2[a] = lk[a]
        BY <1>8, <1>12, <2>3, <3>1
      <4>2. lk[a] \in 1..n /\ list[lk[a]] = list[a] /\ rank[lk[a]] = rank[a] - 1
        BY <1>1, <3>1, <4>1 DEF Ranked
      <4>3. QED
        BY <1>8, <1>12, <3>1, <4>1, <4>2
    <3>2. CASE a \in (n + 1)..n2
      <4>1. PlaceNo(n, a) # L - 1 /\ PlaceNo(n, a) \in Int
        BY <1>4, <1>5, <1>12, <2>3, <3>2
      <4>2. /\ lk2[a] = a + 1 /\ a + 1 \in (n + 1)..n2
            /\ ListNo(n, a + 1) = ListNo(n, a) /\ PlaceNo(n, a + 1) = PlaceNo(n, a) + 1
        BY <1>7, <3>2, <4>1
      <4>3. H(a + 1) = H(a)
        BY <4>2 DEF H
      <4>4. L - (PlaceNo(n, a) + 1) = L - PlaceNo(n, a) - 1
        BY <1>4, <4>1
      <4>5. list2[a + 1] = list2[a] /\ rank2[a + 1] = rank2[a] - 1
        BY <1>12, <3>2, <4>2, <4>3, <4>4
      <4>6. QED
        BY <1>10, <4>2, <4>5
    <3>3. QED
      BY <1>9, <3>1, <3>2
  <2>4. QED
    BY <1>15, <2>1, <2>2, <2>3 DEF Ranked, heads2
<1>18. ASSUME NEW u \in Workers PROVE WorkerList(list2, rank2, n2, loc[u], u)
  <2>1. \A a \in 1..n2 : list2[a] = OfWorker(u) => a \in 1..n
    BY <1>9, <1>12, ListNames
  <2>2. QED
    BY <1>2, <1>8, <1>12, <2>1 DEF WorkerList
<1>19. ASSUME NEW g \in heads2 PROVE HeadList(list2, rank2, n2, g)
  <2>1. CASE g \in heads
    <3>1. \A a \in (n + 1)..n2 : list2[a] # InList(g)
      BY <1>5, <1>12, <1>14, <2>1, ListNames DEF H
    <3>2. \A a \in 1..n2 : list2[a] = InList(g) => a \in 1..n
      BY <1>9, <3>1
    <3>3. QED
      BY <1>3, <1>8, <1>12, <2>1, <3>2 DEF HeadList
  <2>2. CASE g \in NewHeads(n, q)
    <3>1. g \in (n + 1)..n2 /\ H(g) = g /\ PlaceNo(n, g) = 0
      BY <1>13, <2>2 DEF H
    <3>2. g \in 1..n2 /\ list2[g] = InList(g) /\ rank2[g] = L
      <4>1. rank2[g] = L - 0 /\ L - 0 = L
        BY <1>4, <1>12, <3>1
      <4>2. QED
        BY <1>10, <1>12, <3>1, <4>1
    <3>3. \A a \in 1..n2 : list2[a] = InList(g) => rank2[a] <= L
      <4>1. \A a \in 1..n2 : list2[a] = InList(g) => a \in (n + 1)..n2
        BY <1>9, <1>16, <3>1, <3>2
      <4>2. \A a \in (n + 1)..n2 : rank2[a] <= L
        BY <1>4, <1>11, <1>12
      <4>3. QED
        BY <4>1, <4>2
    <3>4. QED
      BY <3>2, <3>3 DEF HeadList, L
  <2>3. QED
    BY <2>1, <2>2 DEF heads2
<1>20. Placed(list2, rank2, n2, lk2, used, loc, heads2)
  BY <1>17, <1>18, <1>19 DEF Placed
<1>21. QED
  BY <1>20 DEF n2, heads2, L

(* ------------------------- The global pool ----------------------------- *)

LEMMA PushFacts ==
    ASSUME NEW g \in Seq(Blocks), NEW h \in Blocks
    PROVE  /\ <<h>> \o g \in Seq(Blocks)
           /\ ToSet(<<h>> \o g) = ToSet(g) \cup {h}
           /\ IsInjective(g) /\ h \notin ToSet(g) => IsInjective(<<h>> \o g)
<1> DEFINE f == <<h>> \o g
<1>1. /\ f \in Seq(Blocks) /\ Len(f) = Len(g) + 1 /\ Len(g) \in Nat
      /\ DOMAIN f = 1..(Len(g) + 1) /\ DOMAIN g = 1..Len(g)
      /\ f[1] = h /\ \A k \in 1..Len(g) : f[k + 1] = g[k]
  OBVIOUS
<1> HIDE DEF f
<1>2. \A k \in 1..(Len(g) + 1) : k = 1 \/ (k - 1 \in 1..Len(g) /\ f[k] = g[k - 1])
  <2>1. ASSUME NEW k \in 1..(Len(g) + 1), k # 1 PROVE k - 1 \in 1..Len(g) /\ f[k] = g[k - 1]
    <3>1. k - 1 \in 1..Len(g) /\ (k - 1) + 1 = k
      BY <1>1, <2>1
    <3>2. f[(k - 1) + 1] = g[k - 1]
      BY <1>1, <3>1
    <3>3. QED
      BY <3>1, <3>2
  <2>2. QED
    BY <2>1
<1>3. ToSet(f) = ToSet(g) \cup {h}
  <2>1. \A k \in 1..Len(g) : k + 1 \in 1..(Len(g) + 1) /\ 1 \in 1..(Len(g) + 1)
    BY <1>1
  <2>2. 1 \in 1..(Len(g) + 1)
    BY <1>1
  <2>3. ToSet(g) \cup {h} \subseteq ToSet(f)
    BY <1>1, <2>1, <2>2 DEF ToSet
  <2>4. ToSet(f) \subseteq ToSet(g) \cup {h}
    <3>1. SUFFICES ASSUME NEW e \in ToSet(f) PROVE e \in ToSet(g) \cup {h}
      OBVIOUS
    <3>2. PICK k \in 1..(Len(g) + 1) : e = f[k]
      BY <1>1 DEF ToSet
    <3>3. k = 1 \/ (k - 1 \in 1..Len(g) /\ e = g[k - 1])
      BY <1>2, <3>2
    <3>4. k - 1 \in 1..Len(g) => g[k - 1] \in ToSet(g)
      BY <1>1 DEF ToSet
    <3>5. QED
      BY <1>1, <3>2, <3>3, <3>4
  <2>5. QED
    BY <2>3, <2>4
<1>4. ASSUME IsInjective(g), h \notin ToSet(g) PROVE IsInjective(f)
  <2>1. ASSUME NEW k \in 1..(Len(g) + 1), NEW d \in 1..(Len(g) + 1), f[k] = f[d] PROVE k = d
    <3>1. \A e \in 1..Len(g) : g[e] # h
      BY <1>1, <1>4 DEF ToSet
    <3>2. CASE k = 1 \/ d = 1
      BY <1>1, <1>2, <2>1, <3>1, <3>2
    <3>3. CASE k # 1 /\ d # 1
      <4>1. /\ k - 1 \in 1..Len(g) /\ f[k] = g[k - 1]
            /\ d - 1 \in 1..Len(g) /\ f[d] = g[d - 1]
        BY <1>2, <3>3
      <4>2. k - 1 = d - 1
        BY <1>1, <1>4, <2>1, <4>1 DEF IsInjective
      <4>3. QED
        BY <1>1, <4>2
    <3>4. QED
      BY <3>2, <3>3
  <2>2. QED
    BY <1>1, <2>1 DEF IsInjective
<1>5. QED
  BY <1>1, <1>3, <1>4 DEF f

LEMMA PopFacts ==
    ASSUME NEW g \in Seq(Blocks), g # <<>>
    PROVE  /\ Tail(g) \in Seq(Blocks) /\ Head(g) \in ToSet(g)
           /\ ToSet(Tail(g)) \subseteq ToSet(g)
           /\ IsInjective(g) =>
                IsInjective(Tail(g)) /\ ToSet(Tail(g)) = ToSet(g) \ {Head(g)}
<1> DEFINE f == Tail(g)
<1>1. /\ f \in Seq(Blocks) /\ Len(g) \in Nat \ {0}
      /\ DOMAIN f = 1..(Len(g) - 1) /\ DOMAIN g = 1..Len(g)
      /\ Head(g) = g[1] /\ \A k \in 1..(Len(g) - 1) : f[k] = g[k + 1]
  OBVIOUS
<1> HIDE DEF f
<1>2. \A k \in 1..(Len(g) - 1) : k + 1 \in 1..Len(g) /\ k + 1 # 1
  BY <1>1
<1>3. 1 \in 1..Len(g)
  BY <1>1
<1>4. \A k \in 1..Len(g) : k = 1 \/ (k - 1 \in 1..(Len(g) - 1) /\ f[k - 1] = g[k])
  <2>1. ASSUME NEW k \in 1..Len(g), k # 1 PROVE k - 1 \in 1..(Len(g) - 1) /\ f[k - 1] = g[k]
    <3>1. k - 1 \in 1..(Len(g) - 1) /\ (k - 1) + 1 = k
      BY <1>1, <2>1
    <3>2. f[k - 1] = g[(k - 1) + 1]
      BY <1>1, <3>1
    <3>3. QED
      BY <3>1, <3>2
  <2>2. QED
    BY <2>1
<1>5. Head(g) \in ToSet(g) /\ ToSet(f) \subseteq ToSet(g)
  BY <1>1, <1>2, <1>3 DEF ToSet
<1>6. ASSUME IsInjective(g) PROVE IsInjective(f) /\ ToSet(f) = ToSet(g) \ {Head(g)}
  <2>1. ASSUME NEW k \in 1..(Len(g) - 1), NEW d \in 1..(Len(g) - 1), f[k] = f[d] PROVE k = d
    <3>1. /\ k + 1 \in 1..Len(g) /\ f[k] = g[k + 1]
          /\ d + 1 \in 1..Len(g) /\ f[d] = g[d + 1]
      BY <1>1, <1>2
    <3>2. k + 1 = d + 1
      BY <1>1, <1>6, <2>1, <3>1 DEF IsInjective
    <3>3. QED
      BY <1>1, <3>2
  <2>2. IsInjective(f)
    BY <1>1, <2>1 DEF IsInjective
  <2>3. \A k \in 1..(Len(g) - 1) : f[k] # g[1]
    BY <1>1, <1>2, <1>3, <1>6 DEF IsInjective
  <2>4. ToSet(f) \subseteq ToSet(g) \ {Head(g)}
    BY <1>1, <1>5, <2>3 DEF ToSet
  <2>5. ToSet(g) \ {Head(g)} \subseteq ToSet(f)
    <3>1. SUFFICES ASSUME NEW e \in ToSet(g), e # Head(g) PROVE e \in ToSet(f)
      OBVIOUS
    <3>2. PICK k \in 1..Len(g) : e = g[k]
      BY <1>1 DEF ToSet
    <3>3. k - 1 \in 1..(Len(g) - 1) /\ f[k - 1] = e
      BY <1>1, <1>4, <3>1, <3>2
    <3>4. QED
      BY <1>1, <3>3 DEF ToSet
  <2>6. QED
    BY <2>2, <2>4, <2>5
<1>7. QED
  BY <1>1, <1>5, <1>6 DEF f

(* ------------------------- The calls ----------------------------------- *)

ListType == [sz : Nat, head : 0..MaxBlocks, mid : 0..MaxBlocks]

(* The end of alloc, with the list l that the worker has or has got.       *)
LEMMA TakeStep ==
    ASSUME BlockAllocatorAssumption, BlockTypeOK,
           NEW w \in Workers, NEW l \in ListType, NEW pool, l.sz > 0, Take(w, l, pool),
           NEW list, NEW rank, NEW heads,
           Placed(list, rank, allocated, link, held, [local EXCEPT ![w] = l], heads)
    PROVE  /\ local' \in [Workers -> ListType] /\ held' \subseteq 1..allocated
           /\ global' = pool
           /\ \E rank2 : Placed(list, rank2, allocated, link, held', local', heads)
<1> DEFINE loc == [local EXCEPT ![w] = l]
<1>1. /\ list_length \in Nat \ {0} /\ MaxBlocks \in Nat /\ allocated \in 0..MaxBlocks
      /\ link \in [Blocks -> 0..MaxBlocks] /\ local \in [Workers -> ListType]
      /\ held \subseteq 1..allocated
  BY DEF BlockAllocatorAssumption, BlockTypeOK, ListType
<1>2. /\ held' = held \cup {l.head} /\ global' = pool
      /\ local' = [local EXCEPT ![w] = [l EXCEPT !.head = link[l.head], !.sz = @ - 1]]
  BY DEF Take
<1>3. /\ loc[w] = l /\ \A u \in Workers : u # w => loc[u] = local[u]
      /\ l.sz \in Nat
  BY <1>1 DEF ListType
<1>4. /\ local'[w].sz = l.sz - 1 /\ local'[w].head = link[l.head] /\ local'[w].mid = l.mid
      /\ \A u \in Workers : u # w => local'[u] = local[u]
  BY <1>1, <1>2 DEF ListType
<1>5. allocated \in Nat /\ 1..allocated \subseteq Blocks
  BY <1>1 DEF Blocks
<1>6. /\ l.head \in (1..allocated) \ held
      /\ \E rank2 : Placed(list, rank2, allocated, link, held \cup {l.head}, local', heads)
  <2>1. Placed(list, rank, allocated, link, held, loc, heads)
    OBVIOUS
  <2> DEFINE loc2 == local'
  <2> HIDE DEF loc
  <2>2. HeadTaken(loc, loc2, link, w, l.head)
    BY <1>3, <1>4 DEF HeadTaken
  <2> HIDE DEF loc2
  <2>3. list_length \in Nat \ {0} /\ allocated \in Nat
    BY <1>1, <1>5
  <2>4. NowUsed(l.head, list, allocated, link, held, loc2, heads)
    BY <2>1, <2>2, <2>3, TakeFirst
  <2>5. QED
    BY <2>4 DEF loc2, NowUsed
<1>7. local' \in [Workers -> ListType]
  <2>1. link[l.head] \in 0..MaxBlocks /\ l.sz - 1 \in Nat /\ l.mid \in 0..MaxBlocks
    BY <1>1, <1>3, <1>5, <1>6 DEF ListType
  <2>2. [l EXCEPT !.head = link[l.head], !.sz = @ - 1] \in ListType
    BY <2>1 DEF ListType
  <2>3. QED
    BY <1>1, <1>2, <2>2
<1>8. QED
  BY <1>1, <1>2, <1>6, <1>7

LEMMA AllocLocalStep ==
    ASSUME BlockAllocatorAssumption, BlockInv, NEW w \in Workers, AllocLocal(w)
    PROVE  BlockInv'
<1>1. /\ local[w].sz > 0 /\ Take(w, local[w], global)
      /\ UNCHANGED <<allocated, link, fresh, reserved>>
  BY DEF AllocLocal
<1>2. PICK list, rank : Placed(list, rank, allocated, link, held, local, Shared)
  BY DEF BlockInv
<1>3. BlockTypeOK /\ SharedOnce
  BY DEF BlockInv
<1>4. local \in [Workers -> ListType]
  BY <1>3 DEF BlockTypeOK, ListType
<1>5. [local EXCEPT ![w] = local[w]] = local /\ local[w] \in ListType
  BY <1>4
<1>6. /\ local' \in [Workers -> ListType] /\ held' \subseteq 1..allocated
      /\ global' = global
      /\ \E rank2 : Placed(list, rank2, allocated, link, held', local', Shared)
  BY <1>1, <1>2, <1>3, <1>5, TakeStep
<1>7. Shared' = Shared
  BY <1>1, <1>6 DEF Shared
<1>8. BlockTypeOK' /\ SharedOnce'
  BY <1>1, <1>3, <1>6, <1>7 DEF BlockTypeOK, SharedOnce, ListType
<1>9. QED
  BY <1>1, <1>6, <1>7, <1>8 DEF BlockInv

(* A worker gets a list, and takes its first block.                        *)
LEMMA GetStep ==
    ASSUME BlockAllocatorAssumption, BlockTypeOK,
           NEW list, NEW rank, Placed(list, rank, allocated, link, held, local, Shared),
           NEW w \in Workers, local[w].sz = 0, NEW h \in Shared, NEW pool,
           Take(w, WithList(local[w], h), pool)
    PROVE  /\ local' \in [Workers -> ListType] /\ held' \subseteq 1..allocated
           /\ global' = pool
           /\ \E list2, rank2 :
                Placed(list2, rank2, allocated, link, held', local', Shared \ {h})
<1> DEFINE l == WithList(local[w], h)
           loc == [local EXCEPT ![w] = l]
<1>1. /\ list_length \in Nat \ {0} /\ MaxBlocks \in Nat /\ allocated \in Nat
      /\ local \in [Workers -> ListType] /\ h \in Blocks
  BY DEF BlockAllocatorAssumption, BlockTypeOK, ListType
<1>2. h \in 0..MaxBlocks
  BY <1>1 DEF Blocks
<1>3. l \in ListType /\ l.sz = list_length /\ l.head = h
  BY <1>1, <1>2 DEF WithList, ListType
<1>4. l.sz > 0
  BY <1>1, <1>3
<1>5. loc[w] = l /\ \A u \in Workers : u # w => loc[u] = local[u]
  BY <1>1
<1>6. PICK list2 : Placed(list2, rank, allocated, link, held, loc, Shared \ {h})
  <2> HIDE DEF loc, l
  <2>1. loc[w].sz = list_length /\ loc[w].head = h
    BY <1>3, <1>5
  <2>2. QED
    BY <1>1, <1>5, <2>1, Adopt
<1>7. QED
  BY <1>3, <1>4, <1>6, TakeStep

LEMMA AllocGlobalStep ==
    ASSUME BlockAllocatorAssumption, BlockInv, NEW w \in Workers, AllocGlobal(w)
    PROVE  BlockInv'
<1> DEFINE h == Head(global)
<1>1. /\ local[w].sz = 0 /\ global # <<>>
      /\ Take(w, WithList(local[w], h), Tail(global))
      /\ UNCHANGED <<allocated, link, fresh, reserved>>
  BY DEF AllocGlobal
<1>2. PICK list, rank : Placed(list, rank, allocated, link, held, local, Shared)
  BY DEF BlockInv
<1>3. BlockTypeOK /\ SharedOnce
  BY DEF BlockInv
<1>4. global \in Seq(Blocks) /\ IsInjective(global)
  BY <1>3 DEF BlockTypeOK, SharedOnce
<1>5. /\ Tail(global) \in Seq(Blocks) /\ h \in ToSet(global) /\ IsInjective(Tail(global))
      /\ ToSet(Tail(global)) = ToSet(global) \ {h}
  BY <1>1, <1>4, PopFacts
<1>6. h \in Shared
  BY <1>5 DEF Shared
<1>7. /\ local' \in [Workers -> ListType] /\ held' \subseteq 1..allocated
      /\ global' = Tail(global)
      /\ \E list2, rank2 :
           Placed(list2, rank2, allocated, link, held', local', Shared \ {h})
  BY <1>1, <1>2, <1>3, <1>6, GetStep
<1>8. Shared' = Shared \ {h}
  BY <1>1, <1>3, <1>5, <1>7 DEF Shared, SharedOnce
<1>9. BlockTypeOK' /\ SharedOnce'
  BY <1>1, <1>3, <1>5, <1>7, <1>8 DEF BlockTypeOK, SharedOnce, ListType
<1>10. QED
  BY <1>1, <1>7, <1>8, <1>9 DEF BlockInv

LEMMA ResumeStep ==
    ASSUME BlockAllocatorAssumption, BlockInv, NEW w \in Workers, NEW h \in fresh,
           Resume(w, h)
    PROVE  BlockInv'
<1>1. /\ fresh' = fresh \ {h}
      /\ UNCHANGED <<allocated, link, reserved>>
      /\ local[w].sz = 0 => Take(w, WithList(local[w], h), global)
      /\ local[w].sz # 0 => Take(w, local[w], <<h>> \o global)
  BY DEF Resume
<1>2. PICK list, rank : Placed(list, rank, allocated, link, held, local, Shared)
  BY DEF BlockInv
<1>3. BlockTypeOK /\ SharedOnce
  BY DEF BlockInv
<1>4. /\ global \in Seq(Blocks) /\ IsInjective(global) /\ h \in Blocks /\ h \in Shared
      /\ h \notin ToSet(global) /\ h \notin reserved
      /\ local \in [Workers -> ListType]
  BY <1>3 DEF BlockTypeOK, SharedOnce, Shared, ListType
<1>5. CASE local[w].sz = 0
  <2>1. /\ local' \in [Workers -> ListType] /\ held' \subseteq 1..allocated
        /\ global' = global
        /\ \E list2, rank2 :
             Placed(list2, rank2, allocated, link, held', local', Shared \ {h})
    BY <1>1, <1>2, <1>3, <1>4, <1>5, GetStep
  <2>2. Shared' = Shared \ {h}
    BY <1>1, <1>4, <2>1 DEF Shared
  <2>3. BlockTypeOK' /\ SharedOnce'
    BY <1>1, <1>3, <2>1, <2>2 DEF BlockTypeOK, SharedOnce, ListType
  <2>4. QED
    BY <1>1, <2>1, <2>2, <2>3 DEF BlockInv
<1>6. CASE local[w].sz # 0
  <2>1. [local EXCEPT ![w] = local[w]] = local /\ local[w] \in ListType
    BY <1>4
  <2>2. local[w].sz > 0
    BY <1>6, <2>1 DEF ListType
  <2>3. /\ local' \in [Workers -> ListType] /\ held' \subseteq 1..allocated
        /\ global' = <<h>> \o global
        /\ \E rank2 : Placed(list, rank2, allocated, link, held', local', Shared)
    BY <1>1, <1>2, <1>3, <1>6, <2>1, <2>2, TakeStep
  <2>4. /\ <<h>> \o global \in Seq(Blocks) /\ IsInjective(<<h>> \o global)
        /\ ToSet(<<h>> \o global) = ToSet(global) \cup {h}
    BY <1>4, PushFacts
  <2>5. Shared' = Shared
    BY <1>1, <2>3, <2>4 DEF Shared
  <2>6. BlockTypeOK' /\ SharedOnce'
    BY <1>1, <1>3, <1>4, <2>3, <2>4, <2>5 DEF BlockTypeOK, SharedOnce, ListType
  <2>7. QED
    BY <1>1, <2>3, <2>5, <2>6 DEF BlockInv
<1>7. QED
  BY <1>5, <1>6

LEMMA PushReservedStep ==
    ASSUME BlockAllocatorAssumption, BlockInv, NEW h \in reserved, PushReserved(h)
    PROVE  BlockInv'
<1>1. /\ reserved' = reserved \ {h} /\ global' = <<h>> \o global
      /\ UNCHANGED <<allocated, link, local, fresh, held>>
  BY DEF PushReserved
<1>2. PICK list, rank : Placed(list, rank, allocated, link, held, local, Shared)
  BY DEF BlockInv
<1>3. BlockTypeOK /\ SharedOnce
  BY DEF BlockInv
<1>4. /\ global \in Seq(Blocks) /\ IsInjective(global) /\ h \in Blocks
      /\ h \notin ToSet(global) /\ h \notin fresh
  BY <1>3 DEF BlockTypeOK, SharedOnce, Shared
<1>5. /\ <<h>> \o global \in Seq(Blocks) /\ IsInjective(<<h>> \o global)
      /\ ToSet(<<h>> \o global) = ToSet(global) \cup {h}
  BY <1>4, PushFacts
<1>6. Shared' = Shared
  BY <1>1, <1>5 DEF Shared
<1>7. BlockTypeOK' /\ SharedOnce'
  BY <1>1, <1>3, <1>4, <1>5, <1>6 DEF BlockTypeOK, SharedOnce
<1>8. QED
  BY <1>1, <1>2, <1>6, <1>7 DEF BlockInv

(* ------------------------- New memory ---------------------------------- *)

LEMMA NumListsNat ==
    ASSUME BlockAllocatorAssumption
    PROVE  NumLists(0) \in Nat /\ list_length \in Nat \ {0}
<1>1. list_length \in Nat \ {0} /\ Cardinality(Workers) \in Nat
  BY FS_CardinalityType DEF BlockAllocatorAssumption
<1>2. 0 + list_length - 1 \in Nat
  BY <1>1
<1>3. (0 + list_length - 1) \div list_length \in Nat
  BY <1>1, <1>2, DivMod
<1>4. QED
  BY <1>1, <1>3 DEF NumLists

(* The blocks behind the first n become q lists.                           *)
LEMMA NewMemory ==
    ASSUME BlockAllocatorAssumption, BlockTypeOK,
           NEW list, NEW rank, Placed(list, rank, allocated, link, held, local, Shared),
           NEW q \in Nat, AllocateBlocks(q)
    PROVE  /\ allocated' \in 0..MaxBlocks /\ link' \in [Blocks -> 0..MaxBlocks]
           /\ allocated <= allocated'
           /\ HeadsOf(allocated, q) \subseteq Blocks
           /\ HeadsOf(allocated, q) \cap Shared = {}
           /\ \E list2, rank2 : Placed(list2, rank2, allocated', link', held, local,
                                       Shared \cup HeadsOf(allocated, q))
<1> DEFINE n == allocated
           L == list_length
           z == q * L
<1>1. /\ L \in Nat \ {0} /\ MaxBlocks \in Nat /\ n \in 0..MaxBlocks
      /\ link \in [Blocks -> 0..MaxBlocks] /\ held \subseteq 1..n /\ Shared \subseteq Blocks
  BY DEF BlockAllocatorAssumption, BlockTypeOK
<1>2. z \in Nat /\ n + z <= MaxBlocks /\ n' = n + z
  BY <1>1 DEF AllocateBlocks
<1>3. link' = [a \in Blocks |-> IF a > n /\ a <= n + z
                                  THEN IF (a - n) % L = 0 THEN nullptr ELSE a + 1
                                  ELSE link[a]]
  BY DEF AllocateBlocks, Initialized
<1>4. HeadsOf(n, q) = NewHeads(n, q)
  BY DEF HeadsOf, NewHeads, HeadNo
<1>5. ASSUME NEW a \in (n + 1)..(n + z) PROVE (a - n) % L = 0 \/ a + 1 <= n + z
  <2>1. PlaceNo(n, a) # L - 1 => a + 1 \in (n + 1)..(n + z)
    BY <1>1, EndOfList
  <2>2. a - n = z => (a - n) % L = 0
    <3>3. z % L = 0
      BY <1>1, MultipleMod
    <3>4. QED
      BY <3>3
  <2> HIDE DEF z
  <2>3. a + 1 <= n + z \/ a - n = z
    BY <1>1, <1>2
  <2>4. QED
    BY <2>2, <2>3
<1> HIDE DEF z
<1>6. ASSUME NEW a \in Blocks PROVE link'[a] \in 0..MaxBlocks
  <2>1. CASE a > n /\ a <= n + z
    <3>1. a \in (n + 1)..(n + z)
      BY <1>1, <1>2, <2>1 DEF Blocks
    <3>2. (a - n) % L = 0 \/ a + 1 <= n + z
      BY <1>5, <3>1
    <3>3. link'[a] = IF (a - n) % L = 0 THEN nullptr ELSE a + 1
      BY <1>3, <2>1
    <3>4. 0 \in 0..MaxBlocks /\ (a + 1 <= n + z => a + 1 \in 0..MaxBlocks)
      BY <1>1, <1>2 DEF Blocks
    <3>5. QED
      BY <3>2, <3>3, <3>4 DEF nullptr
  <2>2. CASE ~ (a > n /\ a <= n + z)
    BY <1>1, <1>3, <2>2
  <2>3. QED
    BY <2>1, <2>2
<1>7. link' \in [Blocks -> 0..MaxBlocks]
  <2>1. link' = [a \in Blocks |-> link'[a]]
    BY <1>3
  <2>2. QED
    BY <1>6, <2>1
<1>8. \A a \in 1..n : link'[a] = link[a]
  BY <1>1, <1>3 DEF Blocks
<1>9. ASSUME NEW a \in (n + 1)..(n + z)
      PROVE  link'[a] = IF (a - n) % L = 0 THEN nullptr ELSE a + 1
  <2>1. a \in Blocks /\ a > n /\ a <= n + z
    BY <1>1, <1>2 DEF Blocks
  <2>2. QED
    BY <1>3, <2>1
<1>10. PICK list2, rank2 :
         Placed(list2, rank2, n + z, link', held, local, Shared \cup NewHeads(n, q))
  <2>1. /\ list_length \in Nat \ {0} /\ allocated \in Nat /\ held \subseteq 1..allocated
        /\ \A a \in 1..allocated : link'[a] = link[a]
    BY <1>1, <1>8
  <2>2. \A a \in (allocated + 1)..(allocated + q * list_length) :
          link'[a] = IF (a - allocated) % list_length = 0 THEN nullptr ELSE a + 1
    BY <1>9 DEF z
  <2>3. \E list2, rank2 :
          Placed(list2, rank2, allocated + q * list_length, link', held, local,
                 Shared \cup NewHeads(allocated, q))
    BY <2>1, <2>2, Grow
  <2>4. QED
    BY <2>3 DEF z
<1>11. ASSUME NEW h \in NewHeads(n, q) PROVE h \in Blocks /\ h > n
  <2>1. PICK p \in 0..(q - 1) : h = HeadNo(n, p)
    BY DEF NewHeads
  <2>2. 0 \in 0..(L - 1) /\ h = HeadNo(n, p) + 0
    <3>1. p * L \in Int
      BY <1>1
    <3>2. QED
      BY <1>1, <2>1, <3>1 DEF HeadNo
  <2>3. h \in (n + 1)..(n + q * list_length)
    BY <1>1, <2>2, BlockAt
  <2>4. h \in (n + 1)..(n + z)
    BY <2>3 DEF z
  <2>5. QED
    BY <1>1, <1>2, <2>4 DEF Blocks
<1>12. \A h \in Shared : h \in 1..n
  BY DEF Placed, HeadList
<1>13. HeadsOf(n, q) \cap Shared = {}
  BY <1>1, <1>4, <1>11, <1>12
<1>14. n' \in 0..MaxBlocks /\ n <= n'
  BY <1>1, <1>2
<1>15. QED
  BY <1>2, <1>4, <1>7, <1>10, <1>11, <1>13, <1>14

LEMMA AllocFreshStep ==
    ASSUME BlockAllocatorAssumption, BlockInv, NEW w \in Workers, AllocFresh(w)
    PROVE  BlockInv'
<1>1. /\ AllocateBlocks(1) /\ fresh' = fresh \cup {allocated + 1}
      /\ UNCHANGED <<local, global, reserved, held>>
  BY DEF AllocFresh
<1>2. PICK list, rank : Placed(list, rank, allocated, link, held, local, Shared)
  BY DEF BlockInv
<1>3. BlockTypeOK /\ SharedOnce
  BY DEF BlockInv
<1> DEFINE new == HeadsOf(allocated, 1)
<1>4. /\ allocated' \in 0..MaxBlocks /\ link' \in [Blocks -> 0..MaxBlocks]
      /\ allocated <= allocated'
      /\ new \subseteq Blocks /\ new \cap Shared = {}
      /\ \E list2, rank2 : Placed(list2, rank2, allocated', link', held, local, Shared \cup new)
  BY <1>1, <1>2, <1>3, NewMemory
<1>5. new = {allocated + 1}
  <2>1. 0..(1 - 1) = {0}
    OBVIOUS
  <2>2. allocated \in Nat /\ list_length \in Nat
    BY <1>3 DEF BlockAllocatorAssumption, BlockTypeOK
  <2>3. allocated + 1 + 0 * list_length = allocated + 1
    BY <2>2
  <2>4. QED
    BY <2>1, <2>3 DEF HeadsOf
<1> HIDE DEF new
<1>6. Shared' = Shared \cup new
  BY <1>1, <1>5 DEF Shared
<1>7. held \subseteq 1..allocated'
  BY <1>3, <1>4 DEF BlockTypeOK
<1>8. BlockTypeOK' /\ SharedOnce'
  BY <1>1, <1>3, <1>4, <1>5, <1>6, <1>7 DEF BlockTypeOK, SharedOnce, Shared
<1>9. QED
  BY <1>1, <1>4, <1>6, <1>8 DEF BlockInv

LEMMA ReserveStep ==
    ASSUME BlockAllocatorAssumption, BlockInv, reserve(0)
    PROVE  BlockInv'
<1> DEFINE new == HeadsOf(allocated, NumLists(0))
<1>1. /\ AllocateBlocks(NumLists(0)) /\ reserved = {} /\ reserved' = new
      /\ UNCHANGED <<local, global, fresh, held>>
  BY DEF reserve
<1>2. PICK list, rank : Placed(list, rank, allocated, link, held, local, Shared)
  BY DEF BlockInv
<1>3. BlockTypeOK /\ SharedOnce
  BY DEF BlockInv
<1>4. /\ allocated' \in 0..MaxBlocks /\ link' \in [Blocks -> 0..MaxBlocks]
      /\ allocated <= allocated'
      /\ new \subseteq Blocks /\ new \cap Shared = {}
      /\ \E list2, rank2 : Placed(list2, rank2, allocated', link', held, local, Shared \cup new)
  BY <1>1, <1>2, <1>3, NumListsNat, NewMemory
<1> HIDE DEF new
<1>6. Shared' = Shared \cup new
  BY <1>1 DEF Shared
<1>7. held \subseteq 1..allocated'
  BY <1>3, <1>4 DEF BlockTypeOK
<1>8. BlockTypeOK' /\ SharedOnce'
  BY <1>1, <1>3, <1>4, <1>6, <1>7 DEF BlockTypeOK, SharedOnce, Shared
<1>9. QED
  BY <1>1, <1>4, <1>6, <1>8 DEF BlockInv

LEMMA FreeStep ==
    ASSUME BlockAllocatorAssumption, BlockInv, NEW w \in Workers, NEW b \in held, free(w, b)
    PROVE  BlockInv'
<1> DEFINE l == local[w]
           L == list_length
           give == l.sz # L + 1 /\ l.sz = 2 * L
<1>1. BlockTypeOK /\ SharedOnce
  BY DEF BlockInv
<1>2. PICK list, rank : Placed(list, rank, allocated, link, held, local, Shared)
  BY DEF BlockInv
<1>3. /\ L \in Nat \ {0} /\ MaxBlocks \in Nat /\ allocated \in 0..MaxBlocks
      /\ link \in [Blocks -> 0..MaxBlocks] /\ local \in [Workers -> ListType]
      /\ l \in ListType /\ l.sz \in Nat /\ l.head \in 0..MaxBlocks /\ l.mid \in 0..MaxBlocks
      /\ held \subseteq 1..allocated /\ b \in 1..allocated /\ b \in Blocks
      /\ global \in Seq(Blocks) /\ IsInjective(global) /\ Shared \subseteq Blocks
  BY <1>1 DEF BlockAllocatorAssumption, BlockTypeOK, SharedOnce, ListType, Blocks
<1>4. /\ held' = held \ {b}
      /\ UNCHANGED <<allocated, fresh, reserved>>
  BY DEF free
<1>5. global' = IF give THEN <<link[l.mid]>> \o global ELSE global
  BY DEF free, Full
<1>6. local' = [local EXCEPT ![w] =
                [sz   |-> IF give THEN L + 1 ELSE l.sz + 1,
                 head |-> b,
                 mid  |-> IF l.sz = L + 1 THEN l.head ELSE l.mid]]
  BY DEF free, Full
<1>7. link' = [a \in Blocks |-> CASE a = b              -> l.head
                                  [] give /\ a = l.mid  -> nullptr
                                  [] OTHER              -> link[a]]
  BY DEF free, Full
<1>8. \A a \in 1..allocated : a \in Blocks
  BY <1>3 DEF Blocks
<1> HIDE DEF give, L
<1>9. /\ local'[w].sz = IF give THEN L + 1 ELSE l.sz + 1
      /\ local'[w].head = b
      /\ local'[w].mid = IF l.sz = L + 1 THEN l.head ELSE l.mid
      /\ \A u \in Workers : u # w => local'[u] = local[u]
  BY <1>3, <1>6
<1>10. local' \in [Workers -> ListType]
  <2> DEFINE m2 == [sz   |-> IF give THEN L + 1 ELSE l.sz + 1,
                    head |-> b,
                    mid  |-> IF l.sz = L + 1 THEN l.head ELSE l.mid]
  <2>1. b \in 0..MaxBlocks /\ (IF give THEN L + 1 ELSE l.sz + 1) \in Nat
    BY <1>3
  <2>2. m2 \in ListType
    BY <1>3, <2>1 DEF ListType
  <2> HIDE DEF m2
  <2>3. [local EXCEPT ![w] = m2] \in [Workers -> ListType]
    BY <1>3, <2>2
  <2>4. QED
    BY <1>6, <2>3 DEF m2
<1>11. link'[b] = l.head
  <2>1. ASSUME give PROVE b # l.mid
    <3>1. l.sz > list_length + 1
      BY <1>3, <2>1 DEF give, L
    <3>2. WorkerList(list, rank, allocated, l, w) /\ Ranked(list, rank, allocated, link, held, Shared)
      BY <1>2 DEF Placed
    <3>3. l.mid \in 1..allocated /\ rank[l.mid] = list_length + 1
      BY <3>1, <3>2 DEF WorkerList
    <3>4. l.mid \notin held
      BY <1>3, <3>2, <3>3 DEF Ranked, L
    <3>5. QED
      BY <3>4
  <2>2. ~ (give /\ b = l.mid)
    BY <2>1
  <2>3. link'[b] = CASE b = b              -> l.head
                     [] give /\ b = l.mid  -> nullptr
                     [] OTHER              -> link[b]
    BY <1>3, <1>7
  <2>4. QED
    BY <2>2, <2>3
<1>12. \A a \in Blocks : a # b =>
          link'[a] = IF give /\ a = l.mid THEN nullptr ELSE link[a]
  BY <1>7
<1>13. link' \in [Blocks -> 0..MaxBlocks]
  <2>1. nullptr \in 0..MaxBlocks
    BY <1>3 DEF nullptr
  <2>2. \A a \in Blocks : link'[a] \in 0..MaxBlocks
    BY <1>3, <1>11, <1>12, <2>1
  <2>3. link' = [a \in Blocks |-> link'[a]]
    BY <1>7
  <2>4. QED
    BY <2>2, <2>3
<1>14. held' \subseteq 1..allocated' /\ allocated' = allocated
  BY <1>3, <1>4
<1>15. CASE ~ give
  <2>1. \A a \in 1..allocated : a # b => link'[a] = link[a]
    BY <1>8, <1>12, <1>15
  <2>2. local'[w].sz = l.sz + 1
    BY <1>9, <1>15
  <2>3. l.sz > list_length =>
          local'[w].mid = IF l.sz = list_length + 1 THEN l.head ELSE l.mid
    BY <1>9 DEF L
  <2>4. list_length \in Nat \ {0} /\ allocated \in Nat
    BY <1>3 DEF L
  <2> DEFINE loc2 == local'
             lk2 == link'
  <2>5. HeadPut(local, loc2, link, lk2, allocated, w, b)
    BY <1>3, <1>9, <1>11, <2>1, <2>2, <2>3 DEF HeadPut
  <2> HIDE DEF loc2, lk2
  <2>6. \E list2, rank2 : Placed(list2, rank2, allocated, lk2, held \ {b}, loc2, Shared)
    BY <1>2, <1>3, <2>4, <2>5, Put
  <2>7. Shared' = Shared /\ global' = global
    BY <1>4, <1>5, <1>15 DEF Shared
  <2>8. BlockTypeOK' /\ SharedOnce'
    BY <1>1, <1>4, <1>10, <1>13, <1>14, <2>7 DEF BlockTypeOK, SharedOnce, ListType
  <2>9. \E list2, rank2 : Placed(list2, rank2, allocated', link', held', local', Shared')
    BY <1>4, <2>6, <2>7 DEF loc2, lk2
  <2>10. QED
    BY <2>8, <2>9 DEF BlockInv
<1>16. CASE give
  <2>1. l.sz = 2 * L /\ l.sz # L + 1
    BY <1>16 DEF give
  <2> DEFINE loc1 == [local EXCEPT ![w] = [sz |-> L, head |-> l.head, mid |-> l.mid]]
             lk1  == [a \in Blocks |-> IF a = l.mid THEN nullptr ELSE link[a]]
             loc2 == local'
             lk2  == link'
  <2>2. /\ loc1[w].sz = L /\ loc1[w].head = l.head /\ loc1[w].mid = l.mid
        /\ \A u \in Workers : u # w => loc1[u] = local[u]
    BY <1>3
  <2>3. \A a \in 1..allocated : lk1[a] = IF a = l.mid THEN nullptr ELSE link[a]
    BY <1>8
  <2> HIDE DEF loc1, lk1
  <2> DEFINE h == link[l.mid]
  <2>4. list_length \in Nat \ {0} /\ allocated \in Nat /\ L = list_length
    BY <1>3 DEF L
  <2>5. NowShared(l.mid, h, allocated, lk1, held, loc1, Shared)
    <3>1. LastGiven(local, loc1, link, lk1, allocated, w, l.mid, h)
      BY <2>1, <2>2, <2>3, <2>4 DEF LastGiven
    <3>2. QED
      BY <1>2, <2>4, <3>1, Give
  <2>6. PICK list1, rank1 : Placed(list1, rank1, allocated, lk1, held, loc1, Shared \cup {h})
    BY <2>5 DEF NowShared
  <2>7. \A a \in 1..allocated : a # b => link'[a] = lk1[a]
    BY <1>8, <1>12, <1>16, <2>3
  <2>8. loc1[w].sz \in Nat /\ ~ (loc1[w].sz > list_length)
    BY <2>2, <2>4
  <2>9. HeadPut(loc1, loc2, lk1, lk2, allocated, w, b)
    BY <1>9, <1>11, <1>16, <2>2, <2>7, <2>8 DEF HeadPut
  <2> HIDE DEF loc2, lk2, h
  <2>10. \E list2, rank2 :
           Placed(list2, rank2, allocated, lk2, held \ {b}, loc2, Shared \cup {h})
    BY <1>3, <2>4, <2>6, <2>9, Put
  <2>11. h \in Blocks /\ h \notin ToSet(global) /\ h \notin fresh /\ h \notin reserved
    BY <1>8, <2>5 DEF Shared, NowShared
  <2>12. /\ <<h>> \o global \in Seq(Blocks) /\ IsInjective(<<h>> \o global)
         /\ ToSet(<<h>> \o global) = ToSet(global) \cup {h}
    BY <1>3, <2>11, PushFacts
  <2>13. global' = <<h>> \o global
    BY <1>5, <1>16 DEF h
  <2>14. Shared' = Shared \cup {h}
    BY <1>4, <2>12, <2>13 DEF Shared
  <2>15. BlockTypeOK' /\ SharedOnce'
    BY <1>1, <1>4, <1>10, <1>13, <1>14, <2>11, <2>12, <2>13, <2>14
       DEF BlockTypeOK, SharedOnce, ListType
  <2>16. \E list2, rank2 : Placed(list2, rank2, allocated', link', held', local', Shared')
    BY <1>4, <2>10, <2>14 DEF loc2, lk2
  <2>17. QED
    BY <2>15, <2>16 DEF BlockInv
<1>17. QED
  BY <1>15, <1>16

(* ------------------------- Counting ------------------------------------ *)

(* Below a block of a list there is one at every rank.                     *)
HasRanks(list, rank, n, name, t) == \A k \in 1..t : \E a \in 1..n : list[a] = name /\ rank[a] = k

LEMMA RanksDown ==
    ASSUME NEW list, NEW rank, NEW n \in Nat, NEW lk, NEW used, NEW heads,
           Ranked(list, rank, n, lk, used, heads),
           NEW t \in Nat, NEW name, NEW top \in 1..n, list[top] = name, rank[top] = t
    PROVE  HasRanks(list, rank, n, name, t)
<1>15. SUFFICES ASSUME NEW k \in 1..t PROVE \E a \in 1..n : list[a] = name /\ rank[a] = k
  BY DEF HasRanks
<1> DEFINE At(d) == \E a \in 1..n : list[a] = name /\ rank[a] = t - d
           S == {d \in Nat : d < t /\ ~ At(d)}
<1>0. t - 0 = t
  OBVIOUS
<1>1. SUFFICES S = {}
  <2>1. t - k \in Nat /\ t - k < t /\ t - (t - k) = k
    OBVIOUS
  <2>2. At(t - k)
    BY <2>1
  <2>3. QED
    BY <2>1, <2>2
<1>2. SUFFICES ASSUME S # {} PROVE FALSE
  OBVIOUS
<1>3. S \subseteq Nat
  OBVIOUS
<1> HIDE DEF S
<1>4. PICK d \in S : \A e \in S : ~ (e < d)
  BY <1>2, <1>3, SmallestNat
<1>5. d \in Nat /\ d < t /\ ~ At(d)
  BY <1>4 DEF S
<1>6. d # 0
  <2>1. At(0)
    BY <1>0
  <2>2. QED
    BY <1>5, <2>1
<1>7. d - 1 \in Nat /\ d - 1 < t /\ d - 1 < d
  BY <1>5, <1>6
<1>8. d - 1 \notin S
  BY <1>4, <1>7
<1>9. At(d - 1)
  BY <1>7, <1>8 DEF S
<1>10. PICK a \in 1..n : list[a] = name /\ rank[a] = t - (d - 1)
  BY <1>9
<1>11. rank[a] > 1 /\ rank[a] - 1 = t - d
  BY <1>5, <1>7, <1>10
<1>12. lk[a] \in 1..n /\ list[lk[a]] = list[a] /\ rank[lk[a]] = rank[a] - 1
  BY <1>11 DEF Ranked
<1>13. At(d)
  BY <1>10, <1>11, <1>12
<1>14. QED
  BY <1>5, <1>13

(* The places in the lists of the workers.                                 *)
Places(loc) == UNION {{w} \X (1..loc[w].sz) : w \in Workers}

(* Every block is used, or at one of the places of one of the lists.       *)
Counted(n, used, places, heads) ==
    /\ Cardinality(used) \in Nat /\ Cardinality(places) \in Nat /\ Cardinality(heads) \in Nat
    /\ n = Cardinality(used) + Cardinality(places) + Cardinality(heads) * list_length

LEMMA PlacesCounted ==
    ASSUME list_length \in Nat \ {0},
           NEW list, NEW rank, NEW n \in Nat, NEW lk, NEW used, NEW loc, NEW heads,
           Placed(list, rank, n, lk, used, loc, heads),
           loc \in [Workers -> ListType], used \subseteq 1..n, IsFiniteSet(heads)
    PROVE  Counted(n, used, Places(loc), heads)
<1> DEFINE L == list_length
           A == {a \in 1..n : rank[a] # 0 /\ \E w \in Workers : list[a] = OfWorker(w)}
           B == {a \in 1..n : rank[a] # 0 /\ \E h \in heads : list[a] = InList(h)}
           f == [a \in A |-> <<list[a][2], rank[a]>>]
           g == [a \in B |-> <<list[a][2], rank[a]>>]
           P == Places(loc)
           Q == heads \X (1..L)
<1>0. Ranked(list, rank, n, lk, used, heads)
  BY DEF Placed
<1>1. /\ list \in [1..n -> {OfWorker(u) : u \in Workers} \cup {InList(h) : h \in heads}]
      /\ rank \in [1..n -> Nat]
      /\ Ranked(list, rank, n, lk, used, heads)
  BY DEF Placed, Ranked
<1>2. \A u \in Workers : WorkerList(list, rank, n, loc[u], u) /\ loc[u].sz \in Nat
  BY DEF Placed, ListType
<1>3. \A h \in heads : HeadList(list, rank, n, h)
  BY DEF Placed
<1>4. /\ \A a, b \in 1..n : list[a] = list[b] /\ rank[a] = rank[b] /\ rank[a] # 0 => a = b
      /\ \A a \in 1..n : rank[a] = 0 <=> a \in used
  BY <1>1 DEF Ranked
<1>5. (\A w : OfWorker(w)[2] = w) /\ (\A h : InList(h)[2] = h)
  BY DEF OfWorker, InList
<1>6. ASSUME NEW a \in A
      PROVE  /\ f[a] = <<list[a][2], rank[a]>> /\ list[a] = OfWorker(list[a][2])
             /\ f[a] \in P
  <2>1. PICK w \in Workers : list[a] = OfWorker(w)
    OBVIOUS
  <2>2. list[a][2] = w
    BY <1>5, <2>1
  <2>3. rank[a] \in 1..loc[w].sz
    BY <1>1, <1>2, <2>1 DEF WorkerList
  <2>4. f[a] = <<w, rank[a]>>
    BY <2>2
  <2>5. <<w, rank[a]>> \in P
    BY <2>3 DEF Places
  <2>6. QED
    BY <2>1, <2>2, <2>4, <2>5
<1>7. ASSUME NEW a \in B
      PROVE  /\ g[a] = <<list[a][2], rank[a]>> /\ list[a] = InList(list[a][2])
             /\ g[a] \in Q
  <2>1. PICK h \in heads : list[a] = InList(h)
    OBVIOUS
  <2>2. list[a][2] = h
    BY <1>5, <2>1
  <2>3. rank[a] \in 1..L
    BY <1>1, <1>3, <2>1 DEF HeadList
  <2>4. g[a] = <<h, rank[a]>>
    BY <2>2
  <2>5. QED
    BY <2>1, <2>2, <2>3, <2>4
<1>8. ASSUME NEW p \in P PROVE \E a \in A : f[a] = p
  <2>0. PICK w \in Workers : p \in {w} \X (1..loc[w].sz)
    BY DEF Places
  <2>1. PICK k \in 1..loc[w].sz : p = <<w, k>>
    BY <2>0
  <2>2. loc[w].sz \in Nat /\ loc[w].sz > 0
    BY <1>2, <2>1
  <2>3. loc[w].head \in 1..n /\ list[loc[w].head] = OfWorker(w) /\ rank[loc[w].head] = loc[w].sz
    BY <1>2, <2>2 DEF WorkerList
  <2>4. PICK a \in 1..n : list[a] = OfWorker(w) /\ rank[a] = k
    <3>1. HasRanks(list, rank, n, OfWorker(w), loc[w].sz)
      BY <1>0, <2>2, <2>3, RanksDown
    <3>2. QED
      BY <3>1 DEF HasRanks
  <2>5. a \in A
    BY <2>1, <2>2, <2>4
  <2>6. f[a] = <<w, k>>
    BY <1>5, <2>4, <2>5
  <2>7. QED
    BY <2>1, <2>5, <2>6
<1>9. ASSUME NEW p \in Q PROVE \E a \in B : g[a] = p
  <2>1. PICK h \in heads, k \in 1..L : p = <<h, k>>
    OBVIOUS
  <2>2. h \in 1..n /\ list[h] = InList(h) /\ rank[h] = L
    BY <1>3 DEF HeadList
  <2>3. PICK a \in 1..n : list[a] = InList(h) /\ rank[a] = k
    <3>1. HasRanks(list, rank, n, InList(h), L)
      BY <1>0, <2>2, RanksDown
    <3>2. QED
      BY <3>1 DEF HasRanks
  <2>4. a \in B
    BY <2>1, <2>3
  <2>5. g[a] = <<h, k>>
    BY <1>5, <2>3, <2>4
  <2>6. QED
    BY <2>1, <2>4, <2>5
<1>10. A \subseteq 1..n /\ B \subseteq 1..n /\ \A a \in A \cup B : rank[a] # 0
  OBVIOUS
<1>11. A \cap B = {} /\ used \cap (A \cup B) = {} /\ used \cup (A \cup B) = 1..n
  <2>1. A \cap B = {}
    BY ListNames
  <2>2. \A a \in 1..n : a \in used \/ a \in A \/ a \in B
    BY <1>1, <1>4
  <2>3. used \cap (A \cup B) = {}
    BY <1>4, <1>10
  <2>4. QED
    BY <1>10, <2>1, <2>2, <2>3
<1>12. DOMAIN f = A /\ DOMAIN g = B /\ f = [a \in A |-> f[a]] /\ g = [a \in B |-> g[a]]
  OBVIOUS
<1> HIDE DEF A, B, f, g, P, Q, L
<1>13. f \in Bijection(A, P)
  <2>1. f \in [A -> P]
    BY <1>6, <1>12
  <2>2. ASSUME NEW a \in A, NEW b \in A, f[a] = f[b] PROVE a = b
    <3>1. list[a][2] = list[b][2] /\ rank[a] = rank[b]
      BY <1>6, <2>2
    <3>2. list[a] = list[b]
      BY <1>6, <3>1
    <3>3. QED
      BY <1>4, <1>10, <3>1, <3>2
  <2>3. IsInjective(f)
    BY <1>12, <2>2 DEF IsInjective
  <2>4. QED
    BY <1>8, <2>1, <2>3 DEF Bijection, Injection, Surjection
<1>14. g \in Bijection(B, Q)
  <2>1. g \in [B -> Q]
    BY <1>7, <1>12
  <2>2. ASSUME NEW a \in B, NEW b \in B, g[a] = g[b] PROVE a = b
    <3>1. list[a][2] = list[b][2] /\ rank[a] = rank[b]
      BY <1>7, <2>2
    <3>2. list[a] = list[b]
      BY <1>7, <3>1
    <3>3. QED
      BY <1>4, <1>10, <3>1, <3>2
  <2>3. IsInjective(g)
    BY <1>12, <2>2 DEF IsInjective
  <2>4. QED
    BY <1>9, <2>1, <2>3 DEF Bijection, Injection, Surjection
<1>15. IsFiniteSet(1..n) /\ Cardinality(1..n) = n
  <2>1. IsFiniteSet(1..n) /\ Cardinality(1..n) = IF 1 > n THEN 0 ELSE n - 1 + 1
    BY FS_Interval
  <2>2. QED
    BY <2>1
<1>16. /\ IsFiniteSet(used) /\ IsFiniteSet(A) /\ IsFiniteSet(B) /\ IsFiniteSet(A \cup B)
  BY <1>10, <1>15, FS_Subset
<1>17. Cardinality(P) = Cardinality(A) /\ Cardinality(Q) = Cardinality(B)
  BY <1>13, <1>14, <1>16, FS_Bijection DEF ExistsBijection
<1>18. Cardinality(Q) = Cardinality(heads) * L
  <2>1. IsFiniteSet(1..L) /\ Cardinality(1..L) = IF 1 > L THEN 0 ELSE L - 1 + 1
    BY FS_Interval DEF L
  <2>2. Cardinality(1..L) = L
    BY <2>1 DEF L
  <2>3. QED
    BY <2>1, <2>2, FS_Product DEF Q
<1>19. /\ Cardinality(A \cup B) = Cardinality(A) + Cardinality(B) - Cardinality({})
       /\ Cardinality(1..n) = Cardinality(used) + Cardinality(A \cup B) - Cardinality({})
  <2> DEFINE D == A \cup B
  <2>1. IsFiniteSet(D) /\ A \cap B = {} /\ used \cap D = {} /\ used \cup D = 1..n
    BY <1>11, <1>16
  <2>2. Cardinality(D) = Cardinality(A) + Cardinality(B) - Cardinality({})
    BY <1>16, <2>1, FS_Union
  <2> HIDE DEF D
  <2>3. Cardinality(1..n) = Cardinality(used) + Cardinality(D) - Cardinality({})
    <3>1. IsFiniteSet(used) /\ IsFiniteSet(D)
      BY <1>16, <2>1
    <3>2. Cardinality(used \cup D) = Cardinality(used) + Cardinality(D) - Cardinality(used \cap D)
      BY <3>1, FS_Union
    <3>3. QED
      BY <2>1, <3>2
  <2>4. QED
    BY <2>2, <2>3 DEF D
<1>20. /\ Cardinality({}) = 0 /\ Cardinality(A) \in Nat /\ Cardinality(B) \in Nat
       /\ Cardinality(used) \in Nat /\ Cardinality(heads) \in Nat
  BY <1>16, FS_EmptySet, FS_CardinalityType
<1>21. Cardinality(1..n) = Cardinality(used) + Cardinality(A) + Cardinality(B)
  BY <1>19, <1>20
<1>22. n = Cardinality(used) + Cardinality(P) + Cardinality(heads) * L
  BY <1>15, <1>17, <1>18, <1>21
<1>23. QED
  BY <1>17, <1>20, <1>22 DEF P, L, Counted

(* The lists on their way, each counted where it is.                       *)
LEMMA SharedCounted ==
    ASSUME BlockTypeOK, SharedOnce, MaxBlocks \in Nat
    PROVE  /\ IsFiniteSet(Shared) /\ Cardinality(fresh \cup reserved) \in Nat
           /\ Cardinality(fresh \cup reserved) = Cardinality(fresh) + Cardinality(reserved)
           /\ Cardinality(Shared) = Len(global) + Cardinality(fresh \cup reserved)
<1> DEFINE G == ToSet(global)
           F == fresh \cup reserved
<1>1. Shared \subseteq 1..MaxBlocks /\ Shared = G \cup F /\ G \cap F = {} /\ fresh \cap reserved = {}
  BY DEF BlockTypeOK, SharedOnce, Shared, Blocks
<1>2. IsFiniteSet(1..MaxBlocks)
  BY FS_Interval
<1>3. IsFiniteSet(Shared)
  BY <1>1, <1>2, FS_Subset
<1>4. IsFiniteSet(F) /\ IsFiniteSet(fresh) /\ IsFiniteSet(reserved)
  BY <1>1, <1>3, FS_Subset
<1>5. global \in Seq(Blocks) /\ Len(global) \in Nat /\ DOMAIN global = 1..Len(global)
  BY DEF BlockTypeOK
<1>6. global \in Bijection(1..Len(global), G)
  <2>1. global = [i0 \in 1..Len(global) |-> global[i0]]
    BY <1>5
  <2>2. \A i0 \in 1..Len(global) : global[i0] \in G
    BY <1>5 DEF ToSet
  <2>3. global \in [1..Len(global) -> G]
    BY <2>1, <2>2
  <2>4. \A p \in G : \E i0 \in 1..Len(global) : global[i0] = p
    BY <1>5 DEF ToSet
  <2>5. QED
    BY <2>3, <2>4 DEF SharedOnce, Bijection, Injection, Surjection
<1>7. /\ IsFiniteSet(1..Len(global)) /\ Cardinality(1..Len(global)) = Len(global)
  <2>1. /\ IsFiniteSet(1..Len(global))
        /\ Cardinality(1..Len(global)) = IF 1 > Len(global) THEN 0 ELSE Len(global) - 1 + 1
    BY <1>5, FS_Interval
  <2>2. QED
    BY <1>5, <2>1
<1>8. IsFiniteSet(G) /\ Cardinality(G) = Len(global)
  BY <1>6, <1>7, FS_Bijection DEF ExistsBijection
<1> HIDE DEF G, F
<1>9. /\ Cardinality(Shared) = Cardinality(G) + Cardinality(F) - Cardinality({})
  BY <1>1, <1>4, <1>8, FS_Union
<1>10. Cardinality(F) = Cardinality(fresh) + Cardinality(reserved) - Cardinality({})
  BY <1>1, <1>4, FS_Union DEF F
<1>11. /\ Cardinality({}) = 0 /\ Cardinality(F) \in Nat /\ Cardinality(fresh) \in Nat
       /\ Cardinality(reserved) \in Nat
  BY <1>4, FS_EmptySet, FS_CardinalityType
<1>12. /\ Cardinality(Shared) = Len(global) + Cardinality(F)
       /\ Cardinality(F) = Cardinality(fresh) + Cardinality(reserved)
  BY <1>5, <1>8, <1>9, <1>10, <1>11
<1>13. QED
  BY <1>3, <1>11, <1>12 DEF F

(* num_used_blocks is right, whoever looks.                                *)
LEMMA UsedCounted ==
    ASSUME BlockAllocatorAssumption, BlockInv
    PROVE  UsedIsHeld
<1>1. BlockTypeOK /\ SharedOnce
  BY DEF BlockInv
<1>2. PICK list, rank : Placed(list, rank, allocated, link, held, local, Shared)
  BY DEF BlockInv
<1>3. /\ list_length \in Nat \ {0} /\ MaxBlocks \in Nat /\ allocated \in Nat
      /\ local \in [Workers -> ListType] /\ held \subseteq 1..allocated
  BY <1>1 DEF BlockAllocatorAssumption, BlockTypeOK, ListType
<1> DEFINE L == list_length
           G == Len(global)
           F == Cardinality(fresh \cup reserved)
           H == Cardinality(held)
           P == Cardinality(Places(local))
           C == Cardinality(Shared)
<1>4. IsFiniteSet(Shared) /\ F \in Nat /\ C = G + F
  BY <1>1, <1>3, SharedCounted
<1>5. /\ H \in Nat /\ P \in Nat /\ C \in Nat
      /\ allocated = H + P + C * L
  <2>1. Counted(allocated, held, Places(local), Shared)
    BY <1>2, <1>3, <1>4, PlacesCounted
  <2>2. QED
    BY <2>1 DEF Counted
<1>6. G \in Nat /\ SizesSum = P
  BY <1>1 DEF BlockTypeOK, SizesSum, Places
<1> HIDE DEF L, G, F, H, P, C
<1>7. L \in Nat
  BY <1>3 DEF L
<1>8. (G + F) * L = G * L + L * F
  BY <1>4, <1>6, <1>7
<1>9. G * L \in Nat /\ L * F \in Nat
  BY <1>4, <1>6, <1>7
<1>10. allocated = H + P + (G * L + L * F)
  BY <1>4, <1>5, <1>8
<1>11. allocated - (G * L + P) = H + L * F
  BY <1>5, <1>9, <1>10
<1>12. allocated - (G * L + SizesSum) = H + L * F
  BY <1>6, <1>11
<1>13. QED
  BY <1>12 DEF UsedIsHeld, num_used_blocks, L, G, F, H

(* Without blocks there are no lists.                                      *)
LEMMA NoBlocks ==
    ASSUME list_length \in Nat \ {0}, NEW lk, NEW loc, \A w \in Workers : loc[w].sz = 0
    PROVE  Placed(<<>>, <<>>, 0, lk, {}, loc, {})
<1>1. 1..0 = {} /\ DOMAIN <<>> = {}
  OBVIOUS
<1>2. <<>> \in [1..0 -> {OfWorker(w) : w \in Workers} \cup {InList(h) : h \in {}}]
  OBVIOUS
<1>3. <<>> \in [1..0 -> Nat]
  OBVIOUS
<1>4. Ranked(<<>>, <<>>, 0, lk, {}, {})
  BY <1>1, <1>2, <1>3 DEF Ranked
<1>5. \A w \in Workers : WorkerList(<<>>, <<>>, 0, loc[w], w)
  BY <1>1 DEF WorkerList
<1>6. QED
  BY <1>4, <1>5 DEF Placed

LEMMA ClearStep ==
    ASSUME BlockAllocatorAssumption, BlockInv, clear
    PROVE  BlockInv'
<1>1. /\ fresh = {} /\ reserved = {} /\ num_used_blocks = 0
      /\ local' = [w \in Workers |-> [local[w] EXCEPT !.sz = 0]]
      /\ allocated' = 0 /\ global' = <<>>
      /\ UNCHANGED <<link, fresh, reserved, held>>
  BY DEF clear
<1>2. BlockTypeOK /\ SharedOnce
  BY DEF BlockInv
<1>3. /\ list_length \in Nat \ {0} /\ MaxBlocks \in Nat /\ allocated \in Nat
      /\ local \in [Workers -> ListType] /\ held \subseteq 1..allocated
  BY <1>2 DEF BlockAllocatorAssumption, BlockTypeOK, ListType
<1>4. held = {}
  <2>1. 0 = Cardinality(held) + list_length * Cardinality(fresh \cup reserved)
    BY <1>1, UsedCounted DEF UsedIsHeld
  <2>2. fresh \cup reserved = {} /\ Cardinality({}) = 0
    BY <1>1, FS_EmptySet
  <2>3. IsFiniteSet(1..allocated)
    BY <1>3, FS_Interval
  <2>4. IsFiniteSet(held)
    BY <1>3, <2>3, FS_Subset
  <2>5. Cardinality(held) \in Nat
    BY <2>4, FS_CardinalityType
  <2>6. Cardinality(held) = 0
    <3>1. list_length * Cardinality(fresh \cup reserved) = 0
      <4>1. Cardinality(fresh \cup reserved) = 0
        BY <2>2
      <4>2. QED
        BY <1>3, <4>1
    <3>2. QED
      BY <2>1, <2>5, <3>1
  <2>7. QED
    BY <2>4, <2>6, FS_EmptySet
<1>5. Shared' = {} /\ ToSet(global') = {}
  BY <1>1 DEF Shared, ToSet
<1>6. local' \in [Workers -> ListType] /\ \A w \in Workers : local'[w].sz = 0
  BY <1>1, <1>3 DEF ListType
<1>7. BlockTypeOK' /\ SharedOnce'
  <2>1. <<>> \in Seq(Blocks) /\ IsInjective(<<>>) /\ 0 \in 0..MaxBlocks
    BY <1>3 DEF IsInjective
  <2>2. QED
    BY <1>1, <1>2, <1>4, <1>5, <1>6, <2>1 DEF BlockTypeOK, SharedOnce, ListType
<1>8. Placed(<<>>, <<>>, allocated', link', held', local', Shared')
  BY <1>1, <1>3, <1>4, <1>5, <1>6, NoBlocks
<1>9. QED
  BY <1>7, <1>8 DEF BlockInv

LEMMA InitHolds ==
    ASSUME BlockAllocatorAssumption, BlockInit
    PROVE  BlockInv
<1> DEFINE q == NumLists(0)
           L == list_length
           S == {1 + i0 * list_length : i0 \in 0..(q - 1)}
<1>1. /\ q \in Nat /\ L \in Nat \ {0} /\ MaxBlocks \in Nat /\ q * L <= MaxBlocks
  BY NumListsNat DEF BlockAllocatorAssumption
<1>2. /\ allocated = q * L
      /\ link = [a \in Blocks |-> IF a > allocated \/ a % L = 0 THEN nullptr ELSE a + 1]
      /\ local = [w \in Workers |-> [sz |-> 0, head |-> nullptr, mid |-> nullptr]]
      /\ global \in SetToSeqs(S)
      /\ fresh = {} /\ reserved = {} /\ held = {}
  BY DEF BlockInit
<1>3. S = NewHeads(0, q)
  BY <1>1 DEF NewHeads, HeadNo
<1> DEFINE z == q * L
<1>4. z \in Nat /\ z <= MaxBlocks /\ allocated = z
  BY <1>1, <1>2
<1>5. 0 \in 0..MaxBlocks /\ nullptr = 0
  BY <1>1 DEF nullptr
<1>6. local \in [Workers -> ListType] /\ \A w \in Workers : local[w].sz = 0
  BY <1>2, <1>5 DEF ListType
<1>7. Placed(<<>>, <<>>, 0, link, {}, local, {})
  BY <1>1, <1>6, NoBlocks
<1>8. ASSUME NEW a \in (0 + 1)..(0 + q * list_length)
      PROVE  link[a] = IF (a - 0) % list_length = 0 THEN nullptr ELSE a + 1
  <2> HIDE DEF q
  <2>1. a \in Nat /\ a <= z /\ a >= 1
    BY <1>4
  <2> HIDE DEF z
  <2>2. a \in Blocks /\ ~ (a > allocated) /\ a - 0 = a
    BY <1>1, <1>4, <2>1 DEF Blocks
  <2>3. QED
    BY <1>2, <2>2
<1>9. PICK list, rank : Placed(list, rank, z, link, {}, local, S)
  <2> HIDE DEF q
  <2>1. {} \subseteq 1..0 /\ 0 \in Nat /\ \A a \in 1..0 : link[a] = link[a]
    OBVIOUS
  <2>2. \E list2, rank2 :
           Placed(list2, rank2, 0 + q * list_length, link, {}, local, {} \cup NewHeads(0, q))
    BY <1>1, <1>7, <1>8, <2>1, Grow
  <2>3. 0 + q * list_length = z /\ {} \cup NewHeads(0, q) = S
    BY <1>3, <1>4
  <2>4. QED
    BY <2>2, <2>3
<1> HIDE DEF q, z, S
<1>10. \A h \in S : h \in 1..z
  BY <1>9 DEF Placed, HeadList
<1>11. S \subseteq Blocks
  BY <1>1, <1>4, <1>10 DEF Blocks
<1>12. IsFiniteSet(S)
  <2>1. IsFiniteSet(1..z)
    BY <1>4, FS_Interval
  <2>2. QED
    BY <1>10, <2>1, FS_Subset
<1> DEFINE size == Cardinality(S)
           D == 1..size
<1>13. size \in Nat
  BY <1>12, FS_CardinalityType
<1>14. /\ global \in [D -> S]
       /\ \A a, b \in D : a # b => global[a] # global[b]
  BY <1>2 DEF SetToSeqs
<1> HIDE DEF size
<1>15. global \in Seq(Blocks) /\ DOMAIN global = D
  BY <1>11, <1>13, <1>14
<1>16. IsInjective(global)
  BY <1>14, <1>15 DEF IsInjective
<1>17. ToSet(global) = S
  <2>1. global \in Injection(D, S)
    BY <1>14, <1>16 DEF Injection
  <2>2. Cardinality(D) = Cardinality(S)
    <3>1. Cardinality(D) = IF 1 > size THEN 0 ELSE size - 1 + 1
      BY <1>13, FS_Interval
    <3>2. QED
      BY <1>13, <3>1 DEF size
  <2>3. global \in Surjection(D, S)
    BY <1>12, <2>1, <2>2, FS_Injection
  <2>4. QED
    BY <1>14, <1>15, <2>3 DEF Surjection, ToSet
<1>18. Shared = S
  BY <1>2, <1>17 DEF Shared
<1>19. link \in [Blocks -> 0..MaxBlocks]
  <2>1. ASSUME NEW a \in Blocks PROVE link[a] \in 0..MaxBlocks
    <3>1. a \in 1..MaxBlocks
      BY DEF Blocks
    <3>2. CASE a > allocated \/ a % L = 0
      BY <1>2, <1>5, <3>2
    <3>3. CASE ~ (a > allocated \/ a % L = 0)
      <4>1. a # MaxBlocks
        <5>1. SUFFICES ASSUME a = MaxBlocks PROVE FALSE
          OBVIOUS
        <5>2. a = z
          BY <1>4, <3>1, <3>3, <5>1
        <5>3. z % L = 0
          BY <1>1, MultipleMod DEF z
        <5>4. QED
          BY <3>3, <5>2, <5>3
      <4>2. a + 1 \in 0..MaxBlocks
        BY <1>1, <3>1, <4>1
      <4>3. QED
        BY <1>2, <3>3, <4>2
    <3>4. QED
      BY <3>2, <3>3
  <2>2. link = [a \in Blocks |-> link[a]]
    BY <1>2
  <2>3. QED
    BY <2>1, <2>2
<1>20. BlockTypeOK
  <2>1. allocated \in 0..MaxBlocks /\ held \subseteq 1..allocated
    BY <1>1, <1>2, <1>4
  <2>2. QED
    BY <1>6, <1>11, <1>15, <1>18, <1>19, <2>1 DEF BlockTypeOK, ListType
<1>21. SharedOnce
  BY <1>2, <1>16 DEF SharedOnce
<1>22. QED
  BY <1>2, <1>4, <1>9, <1>18, <1>20, <1>21 DEF BlockInv

LEMMA NextStep ==
    ASSUME BlockAllocatorAssumption, BlockInv, [BlockNext]_blockVars
    PROVE  BlockInv'
<1>1. ASSUME NEW w \in Workers, Alloc(w) PROVE BlockInv'
  BY <1>1, AllocLocalStep, AllocGlobalStep, AllocFreshStep DEF Alloc
<1>2. ASSUME NEW w \in Workers, NEW h \in fresh, Resume(w, h) PROVE BlockInv'
  BY <1>2, ResumeStep
<1>3. ASSUME NEW w \in Workers, NEW b \in held, free(w, b) PROVE BlockInv'
  BY <1>3, FreeStep
<1>4. CASE reserve(0)
  BY <1>4, ReserveStep
<1>5. ASSUME NEW h \in reserved, PushReserved(h) PROVE BlockInv'
  BY <1>5, PushReservedStep
<1>6. CASE clear
  BY <1>6, ClearStep
<1>7. CASE UNCHANGED blockVars
  BY <1>7 DEF blockVars, BlockInv, BlockTypeOK, SharedOnce, Shared
<1>8. QED
  BY <1>1, <1>2, <1>3, <1>4, <1>5, <1>6, <1>7 DEF BlockNext

(* ------------------------- Chains -------------------------------------- *)

(* f follows the links from head on.                                       *)
ChainOf(f, head, k) == f = [p \in 1..k |-> IF p = 1 THEN head ELSE After(f[p - 1])]

(* If any function follows the links, the chain does.                      *)
LEMMA ChainIs ==
    ASSUME NEW head, NEW k, NEW f, ChainOf(f, head, k)
    PROVE  ChainOf(Chain(head, k), head, k)
<1>1. f = [p \in 1..k |-> IF p = 1 THEN head ELSE After(f[p - 1])]
  BY DEF ChainOf
<1>2. Chain(head, k) = [p \in 1..k |-> IF p = 1 THEN head ELSE After(Chain(head, k)[p - 1])]
  BY <1>1, Zenon DEF Chain
<1>3. QED
  BY <1>2, Zenon DEF ChainOf

(* The blocks of the list of that name.                                    *)
Members(list, rank, n, name) == {a \in 1..n : list[a] = name /\ rank[a] # 0}

(* l are the blocks of the list of that name, each once.                   *)
Runs(l, list, rank, n, name) == IsInjective(l) /\ ToSet(l) = Members(list, rank, n, name)

(* The chain from the first block of a list on is that list: ranks count   *)
(* down by one along the links, and no two blocks of a list have the same. *)
LEMMA ChainRuns ==
    ASSUME NEW list, NEW rank, NEW n \in Nat, NEW used, NEW heads,
           Ranked(list, rank, n, link, used, heads),
           NEW name, NEW head, NEW k \in Nat,
           \A a \in 1..n : list[a] = name => rank[a] <= k,
           k > 0 => head \in 1..n /\ list[head] = name /\ rank[head] = k
    PROVE  Runs(Chain(head, k), list, rank, n, name)
<1> DEFINE C == Chain(head, k)
           f == [p \in 1..k |-> CHOOSE a \in 1..n : list[a] = name /\ rank[a] = k + 1 - p]
<1>1. rank \in [1..n -> Nat] /\ Ranked(list, rank, n, link, used, heads)
  BY DEF Ranked
<1>2. \A a, b \in 1..n : list[a] = name /\ list[b] = name /\ rank[a] = rank[b] /\ rank[a] # 0 => a = b
  BY <1>1 DEF Ranked
<1>3. ASSUME NEW p \in 1..k
      PROVE  f[p] \in 1..n /\ list[f[p]] = name /\ rank[f[p]] = k + 1 - p
  <2>1. HasRanks(list, rank, n, name, k)
    <3>1. head \in 1..n /\ list[head] = name /\ rank[head] = k
      BY <1>3
    <3>2. QED
      BY <1>1, <3>1, RanksDown
  <2>2. k + 1 - p \in 1..k
    BY <1>3
  <2>3. \E a \in 1..n : list[a] = name /\ rank[a] = k + 1 - p
    BY <2>1, <2>2 DEF HasRanks
  <2>4. f[p] = CHOOSE a \in 1..n : list[a] = name /\ rank[a] = k + 1 - p
    OBVIOUS
  <2> HIDE DEF f
  <2>5. QED
    BY <2>3, <2>4
<1>4. DOMAIN f = 1..k /\ f = [p \in 1..k |-> f[p]]
  OBVIOUS
<1> HIDE DEF f
<1>5. ASSUME NEW p \in 1..k PROVE f[p] = IF p = 1 THEN head ELSE After(f[p - 1])
  <2>1. CASE p = 1
    <3>1. rank[f[p]] = k /\ k > 0 /\ list[f[p]] = name /\ f[p] \in 1..n
      BY <1>3, <2>1
    <3>2. head \in 1..n /\ list[head] = name /\ rank[head] = k
      BY <3>1
    <3>3. f[p] = head
      BY <1>2, <3>1, <3>2
    <3>4. QED
      BY <2>1, <3>3
  <2>2. CASE p # 1
    <3>1. p - 1 \in 1..k
      BY <2>2
    <3> DEFINE a == f[p - 1]
    <3>2. a \in 1..n /\ list[a] = name /\ rank[a] = k + 1 - (p - 1)
      BY <1>3, <3>1
    <3>3. f[p] \in 1..n /\ list[f[p]] = name /\ rank[f[p]] = k + 1 - p
      BY <1>3
    <3> HIDE DEF a
    <3>4. rank[a] > 1 /\ rank[a] - 1 = k + 1 - p /\ k + 1 - p # 0
      BY <3>2
    <3>5. link[a] \in 1..n /\ list[link[a]] = list[a] /\ rank[link[a]] = rank[a] - 1
      BY <1>1, <3>2, <3>4 DEF Ranked
    <3>6. link[a] = f[p]
      BY <1>2, <3>2, <3>3, <3>4, <3>5
    <3>7. a # nullptr
      BY <3>2 DEF nullptr
    <3>8. After(a) = f[p]
      BY <3>6, <3>7 DEF After
    <3>9. QED
      BY <2>2, <3>8 DEF a
  <2>3. QED
    BY <2>1, <2>2
<1>6. ChainOf(f, head, k)
  BY <1>4, <1>5 DEF ChainOf
<1>7. ChainOf(C, head, k)
  BY <1>6, ChainIs
<1> HIDE DEF C
<1>8. /\ DOMAIN C = 1..k
      /\ \A p \in 1..k : C[p] = IF p = 1 THEN head ELSE After(C[p - 1])
  BY <1>7 DEF ChainOf
<1>9. \A p \in 1..k : C[p] = f[p]
  <2> DEFINE S == {p \in 1..k : C[p] # f[p]}
  <2>1. SUFFICES ASSUME S # {} PROVE FALSE
    OBVIOUS
  <2>2. S \subseteq Nat
    OBVIOUS
  <2> HIDE DEF S
  <2>3. PICK p \in S : \A q \in S : ~ (q < p)
    BY <2>1, <2>2, SmallestNat
  <2>4. p \in 1..k /\ C[p] # f[p]
    BY <2>3 DEF S
  <2>5. p # 1
    BY <1>5, <1>8, <2>4
  <2>6. p - 1 \in 1..k /\ p - 1 < p
    BY <2>4, <2>5
  <2>7. p - 1 \notin S
    BY <2>3, <2>6
  <2>8. C[p - 1] = f[p - 1]
    BY <2>6, <2>7 DEF S
  <2>9. C[p] = After(C[p - 1]) /\ f[p] = After(f[p - 1])
    BY <1>5, <1>8, <2>4, <2>5
  <2>10. QED
    BY <2>4, <2>8, <2>9
<1>10. IsInjective(C)
  <2>1. ASSUME NEW p \in 1..k, NEW q \in 1..k, C[p] = C[q] PROVE p = q
    <3>1. k + 1 - p = k + 1 - q
      BY <1>3, <1>9, <2>1
    <3>2. QED
      BY <3>1
  <2>2. QED
    BY <1>8, <2>1 DEF IsInjective
<1>11. ToSet(C) \subseteq Members(list, rank, n, name)
  <2>1. ASSUME NEW p \in 1..k PROVE C[p] \in Members(list, rank, n, name)
    <3>1. C[p] \in 1..n /\ list[C[p]] = name /\ rank[C[p]] = k + 1 - p
      BY <1>3, <1>9
    <3>2. k + 1 - p # 0
      OBVIOUS
    <3>3. QED
      BY <3>1, <3>2 DEF Members
  <2>2. QED
    BY <1>8, <2>1 DEF ToSet
<1>12. Members(list, rank, n, name) \subseteq ToSet(C)
  <2>1. ASSUME NEW a \in 1..n, list[a] = name, rank[a] # 0 PROVE \E p \in 1..k : C[p] = a
    <3>1. rank[a] \in 1..k
      BY <1>1, <2>1
    <3>2. k + 1 - rank[a] \in 1..k /\ k + 1 - (k + 1 - rank[a]) = rank[a]
      BY <3>1
    <3> DEFINE p == k + 1 - rank[a]
    <3>3. f[p] \in 1..n /\ list[f[p]] = name /\ rank[f[p]] = rank[a]
      BY <1>3, <3>2
    <3>4. f[p] = a
      BY <1>2, <2>1, <3>3
    <3>5. QED
      BY <1>9, <3>2, <3>4
  <2>2. QED
    BY <1>8, <2>1 DEF ToSet, Members
<1>13. QED
  BY <1>10, <1>11, <1>12 DEF Runs, C

LEMMA AllAccounted ==
    ASSUME BlockAllocatorAssumption, BlockInv
    PROVE  BlocksAccounted
<1>1. BlockTypeOK /\ SharedOnce
  BY DEF BlockInv
<1>2. PICK list, rank : Placed(list, rank, allocated, link, held, local, Shared)
  BY DEF BlockInv
<1>3. /\ list_length \in Nat \ {0} /\ MaxBlocks \in Nat /\ allocated \in Nat
      /\ local \in [Workers -> ListType] /\ held \subseteq 1..allocated
  BY <1>1 DEF BlockAllocatorAssumption, BlockTypeOK, ListType
<1> DEFINE n == allocated
           M(name) == Members(list, rank, n, name)
           GlobalList(h) == Chain(h, list_length)
           LocalList(w) == Chain(local[w].head, local[w].sz)
<1>4. /\ list \in [1..n -> {OfWorker(u) : u \in Workers} \cup {InList(h) : h \in Shared}]
      /\ rank \in [1..n -> Nat]
      /\ \A a \in 1..n : rank[a] = 0 <=> a \in held
      /\ Ranked(list, rank, n, link, held, Shared)
  BY <1>2 DEF Placed, Ranked
<1>5. ASSUME NEW h \in Shared
      PROVE  Runs(GlobalList(h), list, rank, n, InList(h))
  <2>1. /\ \A a \in 1..n : list[a] = InList(h) => rank[a] <= list_length
        /\ h \in 1..n /\ list[h] = InList(h) /\ rank[h] = list_length
    BY <1>2 DEF Placed, HeadList
  <2>2. QED
    BY <1>3, <1>4, <2>1, ChainRuns
<1>6. ASSUME NEW w \in Workers
      PROVE  Runs(LocalList(w), list, rank, n, OfWorker(w))
  <2>1. local[w].sz \in Nat
    BY <1>3 DEF ListType
  <2>2. /\ \A a \in 1..n : list[a] = OfWorker(w) => rank[a] <= local[w].sz
        /\ local[w].sz > 0 => /\ local[w].head \in 1..n /\ list[local[w].head] = OfWorker(w)
                              /\ rank[local[w].head] = local[w].sz
    BY <1>2 DEF Placed, WorkerList
  <2> DEFINE k == local[w].sz
             b == local[w].head
  <2>3. /\ k \in Nat /\ \A a \in 1..n : list[a] = OfWorker(w) => rank[a] <= k
        /\ k > 0 => b \in 1..n /\ list[b] = OfWorker(w) /\ rank[b] = k
    BY <2>1, <2>2
  <2> HIDE DEF k, b
  <2>4. Runs(Chain(b, k), list, rank, n, OfWorker(w))
    BY <1>3, <1>4, <2>3, ChainRuns
  <2>5. QED
    BY <2>4 DEF k, b
<1>7. FreeLists = {GlobalList(h) : h \in Shared} \cup {LocalList(w) : w \in Workers}
  BY DEF FreeLists, Shared
<1>8. \A name : M(name) \cap held = {}
  BY <1>4 DEF Members
<1>9. \A name, y : name # y => M(name) \cap M(y) = {}
  BY DEF Members
<1> HIDE DEF M, GlobalList, LocalList
<1>10. /\ \A h \in Shared : IsInjective(GlobalList(h)) /\ ToSet(GlobalList(h)) = M(InList(h))
       /\ \A w \in Workers : IsInjective(LocalList(w)) /\ ToSet(LocalList(w)) = M(OfWorker(w))
  BY <1>5, <1>6 DEF Runs, M
<1>11. \A l \in FreeLists : IsInjective(l) /\ ToSet(l) \cap held = {}
  BY <1>7, <1>8, <1>10
<1>12. ASSUME NEW l1 \in FreeLists, NEW l2 \in FreeLists, l1 # l2
       PROVE  ToSet(l1) \cap ToSet(l2) = {}
  <2>1. ASSUME NEW g \in Shared, l1 = GlobalList(g), NEW h \in Shared, l2 = GlobalList(h)
        PROVE  ToSet(l1) \cap ToSet(l2) = {}
    <3>1. InList(g) # InList(h)
      BY <1>12, <2>1, ListNames
    <3>2. QED
      BY <1>9, <1>10, <2>1, <3>1
  <2>2. ASSUME NEW u \in Workers, l1 = LocalList(u), NEW w \in Workers, l2 = LocalList(w)
        PROVE  ToSet(l1) \cap ToSet(l2) = {}
    <3>1. OfWorker(u) # OfWorker(w)
      BY <1>12, <2>2, ListNames
    <3>2. QED
      BY <1>9, <1>10, <2>2, <3>1
  <2>3. ASSUME NEW h \in Shared, NEW w \in Workers
        PROVE  ToSet(GlobalList(h)) \cap ToSet(LocalList(w)) = {}
    <3>1. M(InList(h)) \cap M(OfWorker(w)) = {}
      BY <1>9, ListNames
    <3>2. QED
      BY <1>10, <3>1
  <2>4. QED
    BY <1>7, <2>1, <2>2, <2>3
<1>13. held \cup UNION {ToSet(l) : l \in FreeLists} = 1..allocated
  <2>1. ASSUME NEW l \in FreeLists PROVE ToSet(l) \subseteq 1..allocated
    <3>1. \A name : M(name) \subseteq 1..allocated
      BY DEF M, Members
    <3>2. QED
      BY <1>7, <1>10, <3>1
  <2>2. ASSUME NEW a \in 1..allocated, a \notin held
        PROVE  \E l \in FreeLists : a \in ToSet(l)
    <3>1. rank[a] # 0
      BY <1>4, <2>2
    <3>2. a \in M(list[a])
      BY <3>1 DEF M, Members
    <3>3. CASE \E w \in Workers : list[a] = OfWorker(w)
      BY <1>7, <1>10, <3>2, <3>3
    <3>4. CASE \E h \in Shared : list[a] = InList(h)
      BY <1>7, <1>10, <3>2, <3>4
    <3>5. QED
      BY <1>4, <3>3, <3>4
  <2>3. QED
    BY <1>3, <2>1, <2>2
<1>14. Cardinality(ToSet(global) \cup fresh \cup reserved)
         = Len(global) + Cardinality(fresh) + Cardinality(reserved)
  <2>1. /\ Cardinality(fresh \cup reserved) = Cardinality(fresh) + Cardinality(reserved)
        /\ Cardinality(Shared) = Len(global) + Cardinality(fresh \cup reserved)
        /\ Cardinality(fresh \cup reserved) \in Nat
    BY <1>1, <1>3, SharedCounted
  <2>2. Shared = ToSet(global) \cup fresh \cup reserved
    BY DEF Shared
  <2>3. Len(global) \in Nat
    BY <1>1 DEF BlockTypeOK
  <2>4. IsFiniteSet(fresh) /\ IsFiniteSet(reserved)
    <3>1. fresh \subseteq Shared /\ reserved \subseteq Shared /\ IsFiniteSet(Shared)
      BY <1>1, <1>3, SharedCounted DEF Shared
    <3>2. QED
      BY <3>1, FS_Subset
  <2>5. Cardinality(fresh) \in Nat /\ Cardinality(reserved) \in Nat
    BY <2>4, FS_CardinalityType
  <2>6. QED
    BY <2>1, <2>2, <2>3, <2>5
<1>15. QED
  BY <1>11, <1>12, <1>13, <1>14 DEF BlocksAccounted

(* For every number of workers and blocks and every list_length, whatever  *)
(* alloc, free, reserve and clear are called in whatever order, each block *)
(* is held or at one place of one list, and links lead to the next place.  *)
THEOREM BlockInvariance == ASSUME BlockAllocatorAssumption PROVE BlockSpec => []BlockInv
<1>1. BlockInit => BlockInv
  BY InitHolds
<1>2. BlockInv /\ [BlockNext]_blockVars => BlockInv'
  BY NextStep
<1>3. QED
  BY <1>1, <1>2, PTL DEF BlockSpec

(* So no block is handed out twice, lost, or in two lists; a list from the *)
(* global pool has list_length blocks; and num_used_blocks counts what     *)
(* callers have, so that clear gives back no memory that is in use.        *)
THEOREM BlocksAlwaysAccounted ==
    ASSUME BlockAllocatorAssumption PROVE BlockSpec => [](BlocksAccounted /\ UsedIsHeld)
<1>1. BlockInv => BlocksAccounted /\ UsedIsHeld
  BY AllAccounted, UsedCounted
<1>2. QED
  BY <1>1, BlockInvariance, PTL
=============================================================================
