------------------------------ MODULE HashTable ------------------------------
(***************************************************************************)
(* The phase-concurrent hash table of parlay/hash_table.h, with the keys   *)
(* of hash_numeric.  Linear probing in which a larger key bumps a smaller  *)
(* one; in a phase either inserts or deletes run in parallel, and finds    *)
(* run between phases.                                                     *)
(*                                                                         *)
(* Each step is one read of a cell or one CAS.                             *)
(***************************************************************************)
EXTENDS Integers, FiniteSets

CONSTANTS
    m,              \* the number of cells
    Keys,           \* the keys, numbers that are also their priorities
    Hashes,         \* the hash functions to look at, modulo m
    Procs           \* the operations that run in parallel in a phase

Cells == 0..(m - 1)
empty == -1

(* The constructor: the cells of a table that is to hold size values, with *)
(* the default load of 1.5.                                                *)
CellsFor(size) == 100 + (3 * size) \div 2

(* The table is not overfilled, which its users see to, and a phase is a   *)
(* loop over finitely many operations.                                     *)
ASSUME HashTableAssumption ==
    /\ m \in Nat /\ Keys \subseteq Nat /\ Keys # {} /\ IsFiniteSet(Keys)
    /\ Cardinality(Keys) < m
    /\ Hashes \subseteq [Keys -> Cells]
    /\ IsFiniteSet(Procs)

VARIABLES
    TA, hash,
    phase,              \* "insert" or "delete"
    before, contents,   \* history: the keys at the last barrier and at the next
    key, returned,      \* the arguments and the results of the operations
    at,
    v, i, c,            \* locals of insert, and of deleteVal
    j, jj, jjj, x       \* more locals of deleteVal

callVars  == <<phase, before, contents, key, hash>>
localVars == <<v, i, c, j, jj, jjj, x>>
tableVars == <<TA, callVars, returned, at, localVars>>

incrementIndex(h) == IF h + 1 = m THEN 0 ELSE h + 1
decrementIndex(h) == IF h = 0 THEN m - 1 ELSE h - 1
lessIndexNoWrap(a, b) == a < b         \* mutant: forgets the wrap-around
lessIndex(a, b) == IF a < b THEN 2 * (b - a) < m ELSE 2 * (a - b) > m

TableInit ==
    /\ TA = [a \in Cells |-> empty]
    /\ hash \in Hashes
    /\ phase = "delete" /\ before = {} /\ contents = {}
    /\ key \in [Procs -> {CHOOSE k \in Keys : TRUE}]
    /\ returned = [q \in Procs |-> FALSE]
    /\ at = [q \in Procs |-> "idle"]
    /\ v = key
    /\ i = [q \in Procs |-> 0] /\ c = [q \in Procs |-> empty]
    /\ j = i /\ jj = i /\ jjj = i /\ x = c

(* The barrier between two phases.                                         *)
Quiet == \A q \in Procs : at[q] = "idle"

StartPhase ==
    /\ Quiet
    /\ phase' \in {"insert", "delete"}
    /\ key' \in [Procs -> Keys]
    /\ before' = contents
    /\ LET ks == {key'[q] : q \in Procs} IN
       contents' = IF phase' = "insert" THEN contents \cup ks ELSE contents \ ks
    /\ at' = [q \in Procs |-> phase']
    /\ v' = key' /\ i' = [q \in Procs |-> hash[key'[q]]]
    /\ c' = [q \in Procs |-> empty] /\ j' = i' /\ jj' = i' /\ jjj' = i' /\ x' = c'
    /\ returned' = [q \in Procs |-> FALSE]
    /\ UNCHANGED <<TA, hash>>

Return(q, r) ==
    /\ at' = [at EXCEPT ![q] = "idle"]
    /\ returned' = [returned EXCEPT ![q] = r]

GoTo(q, l) == at' = [at EXCEPT ![q] = l] /\ UNCHANGED returned

-----------------------------------------------------------------------------
(* insert, lines 78-99.                                                    *)

InsertRead(q) ==
    /\ at[q] = "insert"
    /\ c' = [c EXCEPT ![q] = TA[i[q]]]
    /\ CASE c'[q] = v[q] -> Return(q, FALSE) /\ i' = i
         [] c'[q] > v[q] -> GoTo(q, "insert") /\ i' = [i EXCEPT ![q] = incrementIndex(@)]
         [] c'[q] < v[q] -> GoTo(q, "insert cas") /\ i' = i
    /\ UNCHANGED <<TA, callVars, v, j, jj, jjj, x>>

InsertStore(q) ==                      \* mutant: a store in place of the CAS
    /\ at[q] = "insert cas"
    /\ TA' = [TA EXCEPT ![i[q]] = v[q]]
    /\ IF c[q] = empty
         THEN Return(q, TRUE) /\ UNCHANGED <<v, i>>
         ELSE /\ v' = [v EXCEPT ![q] = c[q]]
              /\ i' = [i EXCEPT ![q] = incrementIndex(@)]
              /\ GoTo(q, "insert")
    /\ UNCHANGED <<callVars, c, j, jj, jjj, x>>

InsertCasSpins(q) ==                   \* mutant: tries the same CAS again
    /\ at[q] = "insert cas"
    /\ IF TA[i[q]] # c[q]
         THEN GoTo(q, "insert cas") /\ UNCHANGED <<TA, v, i>>
         ELSE /\ TA' = [TA EXCEPT ![i[q]] = v[q]]
              /\ IF c[q] = empty
                   THEN Return(q, TRUE) /\ UNCHANGED <<v, i>>
                   ELSE /\ v' = [v EXCEPT ![q] = c[q]]
                        /\ i' = [i EXCEPT ![q] = incrementIndex(@)]
                        /\ GoTo(q, "insert")
    /\ UNCHANGED <<callVars, c, j, jj, jjj, x>>

InsertCas(q) ==
    /\ at[q] = "insert cas"
    /\ IF TA[i[q]] # c[q]
         THEN GoTo(q, "insert") /\ UNCHANGED <<TA, v, i>>
         ELSE /\ TA' = [TA EXCEPT ![i[q]] = v[q]]
              /\ IF c[q] = empty
                   THEN Return(q, TRUE) /\ UNCHANGED <<v, i>>
                   ELSE /\ v' = [v EXCEPT ![q] = c[q]]
                        /\ i' = [i EXCEPT ![q] = incrementIndex(@)]
                        /\ GoTo(q, "insert")
    /\ UNCHANGED <<callVars, c, j, jj, jjj, x>>

-----------------------------------------------------------------------------
(* deleteVal, lines 130-204.                                               *)

(* Where the comparison of v with an element el sends the search upwards.  *)
Above(q, el) == el # empty /\ v[q] < el

DeleteFirst(q) ==
    /\ at[q] = "delete"
    /\ c' = [c EXCEPT ![q] = TA[j[q]]]
    /\ IF c'[q] = empty THEN Return(q, TRUE)
                        ELSE GoTo(q, IF Above(q, c'[q]) THEN "seek" ELSE "match")
    /\ UNCHANGED <<TA, callVars, v, i, j, jj, jjj, x>>

DeleteSeek(q) ==
    /\ at[q] = "seek"
    /\ j' = [j EXCEPT ![q] = incrementIndex(@)]
    /\ c' = [c EXCEPT ![q] = TA[j'[q]]]
    /\ GoTo(q, IF Above(q, c'[q]) THEN "seek" ELSE "match")
    /\ UNCHANGED <<TA, callVars, v, i, jj, jjj, x>>

DeleteNoMatch(q) ==
    /\ at[q] = "match" /\ c[q] # v[q]
    /\ IF j[q] = i[q]
         THEN Return(q, TRUE) /\ UNCHANGED <<j, c>>
         ELSE /\ j' = [j EXCEPT ![q] = decrementIndex(@)]
              /\ c' = [c EXCEPT ![q] = TA[j'[q]]]
              /\ GoTo(q, "match")
    /\ UNCHANGED <<TA, callVars, v, i, jj, jjj, x>>

DeleteMatch(q) ==
    /\ at[q] = "match" /\ c[q] = v[q]
    /\ jj' = [jj EXCEPT ![q] = j[q]]
    /\ GoTo(q, "replacement")
    /\ UNCHANGED <<TA, callVars, v, i, c, j, jjj, x>>

(* May the element el of a later cell not be moved to cell j?              *)
Skipped(q, el) == el # empty /\ lessIndex(j[q], hash[el])

DeleteReplacement(q) ==
    /\ at[q] = "replacement"
    /\ jj' = [jj EXCEPT ![q] = incrementIndex(@)]
    /\ x' = [x EXCEPT ![q] = TA[jj'[q]]]
    /\ IF Skipped(q, x'[q])
         THEN GoTo(q, "replacement") /\ jjj' = jjj
         ELSE GoTo(q, "recheck") /\ jjj' = [jjj EXCEPT ![q] = decrementIndex(jj'[q])]
    /\ UNCHANGED <<TA, callVars, v, i, c, j>>

DeleteNoRecheck(q) ==                  \* mutant: a single pass
    /\ at[q] = "recheck" /\ jjj[q] # j[q]
    /\ jjj' = [jjj EXCEPT ![q] = j[q]]
    /\ GoTo(q, "recheck")
    /\ UNCHANGED <<TA, callVars, v, i, c, j, jj, x>>

(* The loop back to j, which looks for elements moved here meanwhile.      *)
DeleteRecheck(q) ==
    /\ at[q] = "recheck" /\ jjj[q] # j[q]
    /\ LET y == TA[jjj[q]] IN
       IF Skipped(q, y) THEN UNCHANGED <<x, jj>>
                        ELSE /\ x' = [x EXCEPT ![q] = y]
                             /\ jj' = [jj EXCEPT ![q] = jjj[q]]
    /\ jjj' = [jjj EXCEPT ![q] = decrementIndex(@)]
    /\ GoTo(q, "recheck")
    /\ UNCHANGED <<TA, callVars, v, i, c, j>>

DeleteCas(q) ==
    /\ at[q] = "recheck" /\ jjj[q] = j[q]
    /\ IF TA[j[q]] # c[q]
         THEN GoTo(q, "reread") /\ UNCHANGED <<TA, v, i, j>>
         ELSE /\ TA' = [TA EXCEPT ![j[q]] = x[q]]
              /\ IF x[q] = empty
                   THEN Return(q, TRUE) /\ UNCHANGED <<v, i, j>>
                   ELSE /\ v' = [v EXCEPT ![q] = x[q]]
                        /\ i' = [i EXCEPT ![q] = hash[x[q]]]
                        /\ j' = [j EXCEPT ![q] = jj[q]]
                        /\ GoTo(q, "reread")
    /\ UNCHANGED <<callVars, c, jj, jjj, x>>

DeleteReread(q) ==
    /\ at[q] = "reread"
    /\ c' = [c EXCEPT ![q] = TA[j[q]]]
    /\ GoTo(q, "match")
    /\ UNCHANGED <<TA, callVars, v, i, j, jj, jjj, x>>

TableOperation(q) ==
    \/ InsertRead(q) \/ InsertCas(q)
    \/ DeleteFirst(q) \/ DeleteSeek(q) \/ DeleteNoMatch(q) \/ DeleteMatch(q)
    \/ DeleteReplacement(q) \/ DeleteRecheck(q) \/ DeleteCas(q) \/ DeleteReread(q)

TableNext == StartPhase \/ \E q \in Procs : TableOperation(q)

TableSpec == TableInit /\ [][TableNext]_tableVars

(* A program that never deletes, as those that use the table in this       *)
(* library.                                                                *)
InsertSpec == TableInit /\ [][TableNext /\ phase' = "insert"]_tableVars

(* Every iteration of the parallel loop over operations is run.            *)
FairSpec == TableSpec /\ \A q \in Procs : WF_tableVars(TableOperation(q))

-----------------------------------------------------------------------------
(* find, lines 209-224, which runs alone or with other finds: it stops at  *)
(* the first cell that is empty or holds a key that is not larger.         *)

Nth(k, d) == (hash[k] + d) % m
Stops(k, d) == TA[Nth(k, d)] = empty \/ TA[Nth(k, d)] <= k
find(k) ==
    LET d == CHOOSE d \in Cells : Stops(k, d) /\ \A f \in 0..(d - 1) : ~Stops(k, f)
    IN  IF TA[Nth(k, d)] = k THEN k ELSE empty

-----------------------------------------------------------------------------
(* Properties.                                                             *)

(* The layout of a set of keys: each, from the largest to the smallest,    *)
(* takes the first cell from its own on that no larger one has taken.      *)
Position[k \in Keys] ==
    LET taken == {Position[l] : l \in {l \in contents : l > k}}
        d == CHOOSE d \in Cells : /\ Nth(k, d) \notin taken
                                  /\ \A f \in 0..(d - 1) : Nth(k, f) \in taken
    IN  Nth(k, d)

(* History independence: at a barrier the cells depend on the set of keys  *)
(* alone, however inserts and deletes interleaved in all phases before.    *)
HistoryIndependent ==
    Quiet => \A a \in Cells :
      TA[a] = IF \E k \in contents : Position[k] = a
              THEN CHOOSE k \in contents : Position[k] = a ELSE empty

(* find gives the key if and only if it is in the table.                   *)
FindIsRight ==
    Quiet => \A k \in Keys : find(k) = IF k \in contents THEN k ELSE empty

(* The keys that are to be in the table after the phase, the new ones with *)
(* the old, are somewhere all the time: in a cell, or in the hands of the  *)
(* insert that has not stored them yet or has bumped them.                 *)
NothingLost ==
    \A k \in contents :
      \/ \E a \in Cells : TA[a] = k
      \/ phase = "insert" /\ \E q \in Procs : at[q] # "idle" /\ v[q] = k

(* The inserts that return true are as many as the keys that were new.     *)
CountsAgree ==
    Quiet /\ phase = "insert" =>
      Cardinality({q \in Procs : returned[q]}) = Cardinality(contents \ before)

(* What is reported of the table is right: finds between phases, and the   *)
(* number of inserts of a phase that return true.                          *)
AnswersAreRight == FindIsRight /\ CountsAgree

(* insert "returns 0 if not inserted (i.e. equal and replaceQ false) and 1 *)
(* otherwise", lines 77 and 104: some insert of each new key returns true, *)
(* and none of a key that was there.                                       *)
ResultsAreRight ==
    Quiet /\ phase = "insert" =>
      \A q \in Procs :
        IF key[q] \in before THEN ~returned[q]
        ELSE \E r \in Procs : key[r] = key[q] /\ returned[r]

(* Every operation returns.                                                *)
Terminates == \A q \in Procs : (at[q] # "idle") ~> (at[q] = "idle")

-----------------------------------------------------------------------------
(* The inductive invariant of NothingLost.                                 *)

Copies(k)  == {a \in Cells : TA[a] = k}
Holders(k) == {q \in Procs : at[q] # "idle" /\ v[q] = k}

StepsOf(ph) == IF ph = "insert" THEN {"idle", "insert", "insert cas"}
              ELSE {"idle", "delete", "seek", "match", "replacement", "recheck", "reread"}

TableTypeOK ==
    /\ hash \in Hashes /\ phase \in {"insert", "delete"}
    /\ TA \in [Cells -> Keys \cup {empty}]
    /\ contents \subseteq Keys /\ before \subseteq Keys
    /\ key \in [Procs -> Keys] /\ v \in [Procs -> Keys]
    /\ returned \in [Procs -> BOOLEAN] /\ at \in [Procs -> StepsOf(phase)]
    /\ c \in [Procs -> Keys \cup {empty}] /\ x \in [Procs -> Keys \cup {empty}]
    /\ i \in [Procs -> Cells] /\ j \in [Procs -> Cells]
    /\ jj \in [Procs -> Cells] /\ jjj \in [Procs -> Cells]

(* What a delete puts into its hole takes the place of its own key.        *)
HoleInv == \A q \in Procs : at[q] \in {"replacement", "recheck"} => c[q] = v[q]

(* In a phase of inserts each key is in a cell or in hands.                *)
InsertInv == phase = "insert" => \A k \in contents : Copies(k) # {} \/ Holders(k) # {}

(* In a phase of deletes there are more copies of a key that is to stay    *)
(* than deletes that will each take one away.                              *)
DeleteInv == phase = "delete" =>
    \A k \in contents : Cardinality(Holders(k)) < Cardinality(Copies(k))

TableInv == TableTypeOK /\ HoleInv /\ InsertInv /\ DeleteInv

-----------------------------------------------------------------------------
(* The inductive invariant of HistoryIndependent and AnswersAreRight, of   *)
(* programs that never delete.                                             *)

(* How far it is from cell h on to cell a.                                 *)
Distance(h, a) == IF h <= a THEN a - h ELSE m - h + a

(* A search for k comes as far as cell a: all before it are larger.        *)
Reaches(k, a) ==
    \A b \in Cells : Distance(hash[k], b) < Distance(hash[k], a) => TA[b] > k

(* Every key is where a search gets to, also one that was bumped.          *)
OrderInv ==
    /\ \A a \in Cells : TA[a] # empty => TA[a] \in contents /\ Reaches(TA[a], a)
    /\ \A q \in Procs : at[q] # "idle" => v[q] \in contents /\ Reaches(v[q], i[q])
    /\ \A q \in Procs : at[q] = "insert cas" => c[q] < v[q]

(* Each insert that returns true has filled one cell.                      *)
Filled    == {a \in Cells : TA[a] # empty}
Successes == {q \in Procs : returned[q]}

CountInv ==
    /\ before \subseteq contents
    /\ \A q \in Successes : at[q] = "idle"
    /\ phase = "insert" => Cardinality(Filled) = Cardinality(before) + Cardinality(Successes)

(* Before the first phase, which is called one of deletes, there is none.  *)
InsertOnlyInv ==
    /\ TableInv /\ OrderInv /\ CountInv
    /\ phase = "delete" => contents = {}
=============================================================================
