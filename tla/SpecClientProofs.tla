--------------------------- MODULE SpecClientProofs ---------------------------
(***************************************************************************)
(* The clients of deterministic reservations, for every graph,             *)
(* granularity and interleaving.  The maximal independent set is that of   *)
(* the serial loop, and independent at every moment; Kruskal's forest has  *)
(* the edges that his serial algorithm takes, without a cycle at any       *)
(* moment; and the deterministic spanning forest spans what is completed,  *)
(* with no edge too many.  Matching is in SpecMatchingProofs.  At the end  *)
(* all of them together: in each the first iteration of a round completes, *)
(* so that every round advances, and each implements speculative_for.      *)
(***************************************************************************)
EXTENDS MCSpecClients, SpecMatchingProofs

USE SpeculativeForAssumption

-----------------------------------------------------------------------------
(* The maximal independent set.                                            *)

(* ------------------------- The serial loop ----------------------------- *)

(* What the serial loop gives vertex i when it has given f to those before.*)
Given(g, f, i) == IF \E j \in g[i] : j < i /\ f[j] = 1 THEN 2 ELSE 1

Follows(g, f, n) == \A i \in Iterations : i < n => f[i] = Given(g, f, i)

LEMMA GivenByEarlier ==
    ASSUME NEW g \in Graphs, NEW f, NEW h, NEW i \in Iterations,
           \A j \in Iterations : j < i => f[j] = h[j]
    PROVE  Given(g, f, i) = Given(g, h, i)
<1>1. \A j \in g[i] : j \in Iterations
  BY SpecMISAssumption
<1>2. (\E j \in g[i] : j < i /\ f[j] = 1) <=> (\E j \in g[i] : j < i /\ h[j] = 1)
  BY <1>1
<1>3. QED
  BY <1>2 DEF Given

(* The loop can be followed up to any vertex: otherwise there is a first   *)
(* one that it cannot reach.                                               *)
LEMMA FollowedTo ==
    ASSUME NEW g \in Graphs, NEW n \in Nat
    PROVE  \E f \in [Iterations -> {1, 2}] : Follows(g, f, n)
<1> DEFINE Stuck == {k \in Nat : \A f \in [Iterations -> {1, 2}] : ~Follows(g, f, k)}
<1>1. SUFFICES ASSUME Stuck # {} PROVE FALSE
  BY <1>1
<1>2. PICK a \in Stuck : \A b \in Stuck : ~(b < a)
  <2>1. Stuck \subseteq Nat
    OBVIOUS
  <2> HIDE DEF Stuck
  <2>2. QED
    BY <1>1, <2>1, SmallestNat
<1>3. a \in Nat /\ a # 0
  <2>1. [i \in Iterations |-> 1] \in [Iterations -> {1, 2}]
    OBVIOUS
  <2>2. Follows(g, [i \in Iterations |-> 1], 0)
    BY DEF Follows, Iterations
  <2>3. 0 \notin Stuck
    BY <2>1, <2>2
  <2>4. QED
    BY <2>3
<1>4. a - 1 \in Nat /\ a - 1 < a
  BY <1>3
<1>5. PICK f \in [Iterations -> {1, 2}] : Follows(g, f, a - 1)
  BY <1>2, <1>4
<1> DEFINE h == [i \in Iterations |-> IF i = a - 1 THEN Given(g, f, i) ELSE f[i]]
<1>6. h \in [Iterations -> {1, 2}]
  BY DEF Given
<1>7. ASSUME NEW i \in Iterations, i < a PROVE h[i] = Given(g, h, i)
  <2>1. i \in Nat
    BY DEF Iterations
  <2>2. \A j \in Iterations : j < i => j # a - 1
    BY <1>3, <1>7, <2>1 DEF Iterations
  <2>3. \A j \in Iterations : j < i => f[j] = h[j]
    BY <2>2
  <2>4. Given(g, f, i) = Given(g, h, i)
    BY <2>3, GivenByEarlier
  <2>5. CASE i = a - 1
    BY <2>4, <2>5
  <2>6. CASE i # a - 1
    <3>1. i < a - 1
      BY <1>3, <1>7, <2>1, <2>6
    <3>2. f[i] = Given(g, f, i)
      BY <1>5, <3>1 DEF Follows
    <3>3. QED
      BY <2>4, <2>6, <3>2
  <2>7. QED
    BY <2>5, <2>6
<1>8. Follows(g, h, a)
  BY <1>7 DEF Follows
<1>9. QED
  BY <1>2, <1>6, <1>8

(* Serial is what its definition says.                                     *)
LEMMA SerialIs ==
    ASSUME GS \in Graphs
    PROVE  /\ Serial \in [Iterations -> {1, 2}]
           /\ \A i \in Iterations : Serial[i] = Given(GS, Serial, i)
<1>1. PICK f \in [Iterations -> {1, 2}] : Follows(GS, f, e)
  BY FollowedTo
<1>2. \A i \in Iterations : f[i] = Given(GS, f, i)
  BY <1>1 DEF Follows, Iterations
<1>3. f = [i \in Iterations |-> IF \E j \in GS[i] : j < i /\ f[j] = 1 THEN 2 ELSE 1]
  BY <1>2 DEF Given
<1>4. Serial = [i \in Iterations |-> IF \E j \in GS[i] : j < i /\ Serial[j] = 1 THEN 2 ELSE 1]
  BY <1>3 DEF Serial
<1>5. QED
  BY <1>4 DEF Given

LEMMA SerialStays == ASSUME GS' = GS PROVE Serial' = Serial
  BY DEF Serial

(* Of two neighbours the later one sees the earlier.                       *)
LEMMA SerialIndependent ==
    ASSUME GS \in Graphs, NEW i \in Iterations, NEW j \in GS[i], Serial[i] = 1
    PROVE  Serial[j] # 1
<1>1. j \in Iterations /\ i # j /\ i \in GS[j]
  BY SpecMISAssumption
<1>2. i \in Nat /\ j \in Nat
  BY <1>1 DEF Iterations
<1>3. CASE j < i
  BY <1>3, SerialIs DEF Given
<1>4. CASE i < j
  BY <1>1, <1>4, SerialIs DEF Given
<1>5. QED
  BY <1>1, <1>2, <1>3, <1>4

(* ------------------------- The driver ---------------------------------- *)

(* Each step is one of speculative_for.                                    *)
LEMMA StepIsDriver == [MISNext]_misVars => [Next]_specVars
<1> SUFFICES ASSUME [MISNext]_misVars PROVE [Next]_specVars
  OBVIOUS
<1>1. CASE UNCHANGED misVars
  BY <1>1 DEF misVars
<1>2. CASE DriverNext \/ Stopped
  BY <1>2 DEF Next
<1>3. ASSUME NEW k \in Slots, MISReserve(k) PROVE Next
  BY <1>3 DEF MISReserve, Reserve, Next
<1>4. ASSUME NEW k \in Slots, MISCommit(k) PROVE Next
  <2> DEFINE b == flag[State(k)] > 0
  <2>1. phase = "commit" /\ at[k] = "todo" /\ EndCommit(k, b)
    BY <1>4 DEF MISCommit
  <2>2. b \in BOOLEAN
    OBVIOUS
  <2> HIDE DEF b
  <2>3. QED
    BY <2>1, <2>2 DEF Commit, Next
<1>5. QED
  BY <1>1, <1>2, <1>3, <1>4 DEF MISNext

(* speculative_for with the steps of MIS is speculative_for.               *)
LEMMA MISIsDriver == MISSpec => Spec
<1>1. MISInit => Init
  BY DEF MISInit
<1>2. QED
  BY <1>1, StepIsDriver, PTL DEF MISSpec, Spec

(* So what is known of speculative_for is known here.                      *)
LEMMA MISRounds == MISSpec => []SpeculativeInv
BY MISIsDriver, SpeculativeInvariance, PTL

(* ------------------------- The flags ----------------------------------- *)

(* What reserve finds is what the serial loop gives, or not known yet.     *)
LEMMA FlagIsRight ==
    ASSUME FlagsInv, NEW i \in Iterations
    PROVE  FlagOf(i) \in {0, 1, 2} /\ FlagOf(i) \in {0, Serial[i]}
<1>1. /\ GS \in Graphs /\ Flags \in [Iterations -> {0, 1, 2}]
      /\ \A j \in Iterations : Flags[j] \in {0, Serial[j]}
  BY DEF FlagsInv
<1>2. \A j \in GS[i] : j \in Iterations
  BY <1>1, SpecMISAssumption
<1>3. Serial[i] = Given(GS, Serial, i)
  BY <1>1, SerialIs
<1>4. CASE Earlier(i, 1)
  <2>1. PICK j \in GS[i] : j < i /\ Flags[j] = 1
    BY <1>4 DEF Earlier
  <2>2. Serial[j] = 1
    BY <1>1, <1>2, <2>1
  <2>3. Serial[i] = 2
    BY <1>3, <2>1, <2>2 DEF Given
  <2>4. QED
    BY <1>4, <2>3 DEF FlagOf
<1>5. CASE ~Earlier(i, 1) /\ Earlier(i, 0)
  BY <1>5 DEF FlagOf
<1>6. CASE ~Earlier(i, 1) /\ ~Earlier(i, 0)
  <2>1. ASSUME NEW j \in GS[i], j < i PROVE Serial[j] # 1
    <3>1. Flags[j] # 0 /\ Flags[j] # 1
      BY <1>6, <2>1 DEF Earlier
    <3>2. QED
      BY <1>1, <1>2, <3>1
  <2>2. Serial[i] = 1
    BY <1>3, <2>1 DEF Given
  <2>3. QED
    BY <1>6, <2>2 DEF FlagOf
<1>7. QED
  BY <1>4, <1>5, <1>6

LEMMA FlagsInit == MISInit => FlagsInv
<1> SUFFICES ASSUME MISInit PROVE FlagsInv
  OBVIOUS
<1>1. phase = "start" /\ committed = [i \in Iterations |-> 0]
  BY DEF MISInit, Init
<1>2. GS \in Graphs /\ Flags = [i \in Iterations |-> 0] /\ flag = [k \in Slots |-> 0]
  BY DEF MISInit
<1>3. QED
  BY <1>1, <1>2 DEF FlagsInv

(* The driver's own steps touch no flag.                                   *)
LEMMA DriverFlags ==
    ASSUME FlagsInv, SpeculativeInv, UNCHANGED <<GS, Flags, flag>>,
           DriverNext \/ UNCHANGED specVars
    PROVE  FlagsInv'
<1>1. committed' = committed
  BY DEF DriverNext, Finish, GiveUp, StartRound, EndOfReserves, EndRound, specVars
<1>2. Serial' = Serial
  BY SerialStays
<1>3. ASSUME NEW k \in Running', (phase = "commit" \/ (phase = "reserve" /\ at[k] = "ready"))'
      PROVE  flag[k] \in {0, Serial[Iteration(k)']}
  <2>1. CASE Finish \/ GiveUp \/ EndRound
    BY <1>3, <2>1 DEF Finish, GiveUp, EndRound
  <2>2. CASE StartRound
    <3>1. phase' = "reserve" /\ at' = [l \in Slots |-> IF l < size' THEN "todo" ELSE "ready"]
      BY <2>2 DEF StartRound
    <3>2. SpeculativeInv'
      BY <2>2, StartRoundStep
    <3>3. size' \in 0..maxRoundSize
      BY <3>2 DEF SpeculativeInv, TypeOK
    <3>4. k \in 0..(size' - 1)
      BY <1>3 DEF Running
    <3>5. k \in 0..(maxRoundSize - 1) /\ k < size'
      <4>1. maxRoundSize \in Nat
        BY Sizes
      <4> DEFINE n == size'
                 m == maxRoundSize
      <4>2. m \in Nat /\ n \in 0..m /\ k \in 0..(n - 1)
        BY <3>3, <3>4, <4>1
      <4> HIDE DEF n, m
      <4>3. k \in 0..(m - 1) /\ k < n
        BY <4>2
      <4>4. QED
        BY <4>3 DEF n, m
    <3>6. k \in Slots
      BY <3>5 DEF Slots
    <3>7. QED
      BY <1>3, <3>1, <3>5, <3>6
  <2>3. CASE EndOfReserves
    <3>1. /\ phase = "reserve" /\ \A l \in Running : at[l] = "ready"
          /\ UNCHANGED <<size, numberKeep, Ihold, numberDone>>
      BY <2>3 DEF EndOfReserves, AllReady
    <3>2. k \in Running /\ Iteration(k)' = Iteration(k)
      BY <1>3, <3>1 DEF Running, Iteration
    <3>3. QED
      BY <3>1, <3>2 DEF FlagsInv
  <2>4. CASE UNCHANGED specVars
    <3>1. UNCHANGED <<phase, at, size, numberKeep, Ihold, numberDone>>
      BY <2>4 DEF specVars, driver, slots
    <3>2. k \in Running /\ Iteration(k)' = Iteration(k)
      BY <1>3, <3>1 DEF Running, Iteration
    <3>3. QED
      BY <1>3, <3>1, <3>2 DEF FlagsInv
  <2>5. QED
    BY <2>1, <2>2, <2>3, <2>4 DEF DriverNext
<1>4. QED
  BY <1>1, <1>2, <1>3 DEF FlagsInv

LEMMA ReserveFlags ==
    ASSUME FlagsInv, SpeculativeInv, NEW k \in Slots, MISReserve(k)
    PROVE  FlagsInv'
<1>1. /\ phase = "reserve" /\ at[k] = "todo" /\ UNCHANGED <<GS, Flags>>
      /\ flag' = [flag EXCEPT ![k] = FlagOf(Iteration(k))]
      /\ EndReserve(k, TRUE)
  BY DEF MISReserve, State
<1>2. /\ committed' = committed /\ UNCHANGED <<phase, size, numberKeep, Ihold, numberDone>>
      /\ at' = [at EXCEPT ![k] = "ready"]
  BY <1>1 DEF EndReserve, driver
<1>3. Serial' = Serial
  BY <1>1, SerialStays
<1>4. InRound
  BY <1>1 DEF InRound
<1>5. k \in Running
  BY <1>1, <1>4 DEF SpeculativeInv, RoundInv
<1>6. Iteration(k) \in Iterations /\ DOMAIN at = Slots
  BY <1>4, <1>5, RoundFacts
<1>7. FlagOf(Iteration(k)) \in {0, 1, 2} /\ FlagOf(Iteration(k)) \in {0, Serial[Iteration(k)]}
  BY <1>6, FlagIsRight
<1>8. flag' \in [Slots -> {0, 1, 2}]
  BY <1>1, <1>7 DEF FlagsInv
<1>9. ASSUME NEW l \in Running, at'[l] = "ready" PROVE flag'[l] \in {0, Serial[Iteration(l)]}
  <2>1. l \in Slots
    BY <1>4, RoundFacts
  <2>2. CASE l = k
    BY <1>1, <1>7, <2>2 DEF FlagsInv
  <2>3. CASE l # k
    <3>1. at[l] = "ready" /\ flag'[l] = flag[l]
      BY <1>1, <1>2, <1>6, <1>9, <2>1, <2>3 DEF FlagsInv
    <3>2. QED
      BY <1>1, <3>1 DEF FlagsInv
  <2>4. QED
    BY <2>2, <2>3
<1>10. Running' = Running /\ \A l : Iteration(l)' = Iteration(l)
  BY <1>2 DEF Running, Iteration
<1>11. QED
  BY <1>1, <1>2, <1>3, <1>8, <1>9, <1>10 DEF FlagsInv

(* What commit records it records of a vertex that has no flag.            *)
LEMMA CommitRecords ==
    ASSUME FlagsInv, SpeculativeInv, NEW k \in Slots, MISCommit(k)
    PROVE  /\ k \in Running /\ I[k] = Iteration(k) /\ I[k] \in Iterations
           /\ Flags[I[k]] = 0 /\ committed[I[k]] = 0
           /\ flag[k] \in {0, Serial[I[k]]} /\ flag[k] \in {0, 1, 2}
           /\ Flags' = [Flags EXCEPT ![I[k]] = flag[k]]
<1>1. /\ phase = "commit" /\ at[k] = "todo"
      /\ Flags' = [Flags EXCEPT ![I[k]] = flag[k]]
  BY DEF MISCommit, State
<1>2. InRound
  BY <1>1 DEF InRound
<1>3. k \in Running
  BY <1>1, <1>2 DEF SpeculativeInv, RoundInv
<1>4. I[k] = Iteration(k) /\ committed[Iteration(k)] = 0
  BY <1>1, <1>2, <1>3 DEF SpeculativeInv, RoundInv
<1>5. Iteration(k) \in Iterations
  BY <1>2, <1>3, RoundFacts
<1>6. Flags[I[k]] = 0
  BY <1>4, <1>5 DEF FlagsInv
<1>7. flag[k] \in {0, Serial[I[k]]} /\ flag[k] \in {0, 1, 2}
  BY <1>1, <1>3, <1>4 DEF FlagsInv
<1>8. QED
  BY <1>1, <1>3, <1>4, <1>5, <1>6, <1>7

LEMMA CommitFlags ==
    ASSUME FlagsInv, SpeculativeInv, NEW k \in Slots, MISCommit(k)
    PROVE  FlagsInv'
<1> DEFINE i == I[k]
<1>1. /\ k \in Running /\ i \in Iterations /\ Flags[i] = 0 /\ committed[i] = 0
      /\ flag[k] \in {0, Serial[i]} /\ flag[k] \in {0, 1, 2}
      /\ Flags' = [Flags EXCEPT ![i] = flag[k]]
  BY CommitRecords
<1>2. phase = "commit" /\ EndCommit(k, flag[k] > 0) /\ UNCHANGED <<GS, flag>>
  BY DEF MISCommit, State
<1>3. /\ committed' = IF flag[k] > 0 THEN [committed EXCEPT ![i] = @ + 1] ELSE committed
      /\ UNCHANGED <<phase, size, numberKeep, Ihold, numberDone>>
  BY <1>2 DEF EndCommit, driver
<1>4. Serial' = Serial
  BY <1>2, SerialStays
<1>5. GS \in Graphs /\ Flags \in [Iterations -> {0, 1, 2}] /\ flag \in [Slots -> {0, 1, 2}]
  BY DEF FlagsInv
<1>6. Flags' \in [Iterations -> {0, 1, 2}]
  BY <1>1, <1>5
<1>7. committed \in [Iterations -> Nat]
  BY DEF SpeculativeInv, TypeOK
<1> HIDE DEF i
<1>8. ASSUME NEW j \in Iterations
      PROVE  Flags'[j] = IF committed'[j] = 0 THEN 0 ELSE Serial[j]
  <2>1. Flags[j] = IF committed[j] = 0 THEN 0 ELSE Serial[j]
    BY DEF FlagsInv
  <2>2. CASE j # i
    <3>1. Flags'[j] = Flags[j]
      BY <1>1, <1>5, <2>2
    <3>2. committed'[j] = committed[j]
      BY <1>3, <1>7, <2>2
    <3>3. QED
      BY <2>1, <3>1, <3>2
  <2>3. CASE j = i
    <3>1. Flags'[j] = flag[k]
      BY <1>1, <1>5, <2>3
    <3>2. CASE flag[k] = 0
      <4>1. committed' = committed
        BY <1>3, <3>2
      <4>2. QED
        BY <1>1, <2>3, <3>1, <3>2, <4>1
    <3>3. CASE flag[k] # 0
      <4>1. flag[k] > 0
        BY <1>1, <3>3
      <4>2. committed' = [committed EXCEPT ![i] = @ + 1]
        BY <1>3, <4>1
      <4>3. committed'[i] = committed[i] + 1
        BY <1>1, <1>7, <4>2
      <4>4. committed'[j] # 0
        BY <1>1, <2>3, <4>3
      <4>5. QED
        BY <1>1, <2>3, <3>1, <3>3, <4>4
    <3>4. QED
      BY <3>2, <3>3
  <2>4. QED
    BY <2>2, <2>3
<1>9. Running' = Running /\ \A l : Iteration(l)' = Iteration(l)
  BY <1>3 DEF Running, Iteration
<1>10. \A l \in Running : flag[l] \in {0, Serial[Iteration(l)]}
  BY <1>2 DEF FlagsInv
<1>11. QED
  BY <1>2, <1>4, <1>5, <1>6, <1>8, <1>9, <1>10 DEF FlagsInv

LEMMA FlagsStep == FlagsInv /\ SpeculativeInv /\ [MISNext]_misVars => FlagsInv'
<1> SUFFICES ASSUME FlagsInv, SpeculativeInv, [MISNext]_misVars PROVE FlagsInv'
  OBVIOUS
<1>1. CASE UNCHANGED misVars
  BY <1>1, DriverFlags DEF misVars
<1>2. CASE (DriverNext \/ Stopped) /\ UNCHANGED <<GS, Flags, flag>>
  BY <1>2, DriverFlags DEF Stopped
<1>3. CASE \E k \in Slots : MISReserve(k) \/ MISCommit(k)
  BY <1>3, ReserveFlags, CommitFlags
<1>4. QED
  BY <1>1, <1>2, <1>3 DEF MISNext

(* ------------------------- The first vertex ---------------------------- *)

(* All vertices before the first of a round are decided, so it is too.     *)
LEMMA FirstFlagKnown ==
    ASSUME FlagsInv, SpeculativeInv, InRound, 0 \in Running
    PROVE  FlagOf(Iteration(0)) # 0
<1> SUFFICES ASSUME NEW ngh \in GS[Iteration(0)], ngh < Iteration(0) PROVE Flags[ngh] # 0
  BY DEF FlagOf, Earlier
<1>1. Iteration(0) \in Iterations
  BY FirstIsSmallest
<1>2. GS \in Graphs
  BY DEF FlagsInv
<1>3. ngh \in Iterations
  BY <1>1, <1>2, SpecMISAssumption
<1>4. ASSUME NEW l \in Running PROVE Iteration(l) # ngh
  <2>1. Iteration(0) <= Iteration(l) /\ Iteration(l) \in Iterations
    BY FirstIsSmallest
  <2>2. QED
    BY <1>1, <1>3, <2>1 DEF Iterations
<1>5. committed[ngh] = 1
  BY <1>3, <1>4, EarlierDone
<1>6. Serial[ngh] # 0
  BY <1>2, <1>3, SerialIs DEF Given
<1>7. QED
  BY <1>3, <1>5, <1>6 DEF FlagsInv

LEMMA FirstVertexStep ==
    FlagsInv /\ SpeculativeInv /\ FirstVertexInv /\ [MISNext]_misVars => FirstVertexInv'
<1> SUFFICES ASSUME FlagsInv, SpeculativeInv, FirstVertexInv, [MISNext]_misVars PROVE FirstVertexInv'
  OBVIOUS
<1>1. CASE UNCHANGED misVars
  BY <1>1 DEF misVars, specVars, driver, slots, FirstVertexInv, FirstDone, FirstFlag, Running
<1>2. CASE Stopped /\ UNCHANGED <<GS, Flags, flag>>
  BY <1>2 DEF Stopped, specVars, driver, slots, FirstVertexInv, FirstDone, FirstFlag, Running
<1>3. CASE DriverNext /\ UNCHANGED <<GS, Flags, flag>>
  <2>1. FirstDone'
    BY <1>3, DriverKeepsFirst
  <2>2. CASE EndOfReserves
    <3>1. phase = "reserve" /\ Running' = Running /\ \A l \in Running : at[l] = "ready"
      BY <2>2 DEF EndOfReserves, AllReady, Running
    <3>2. QED
      BY <1>3, <2>1, <3>1 DEF FirstVertexInv, FirstFlag
  <2>3. CASE StartRound
    <3>1. phase' = "reserve" /\ \A l \in Running' : at'[l] = "todo"
      BY <2>3, StartedRound DEF StartRound
    <3>2. QED
      BY <2>1, <3>1 DEF FirstVertexInv, FirstFlag
  <2>4. CASE Finish \/ GiveUp \/ EndRound
    <3>1. phase' \notin {"reserve", "commit"}
      BY <2>4 DEF Finish, GiveUp, EndRound
    <3>2. QED
      BY <2>1, <3>1 DEF FirstVertexInv, FirstFlag
  <2>5. QED
    BY <1>3, <2>2, <2>3, <2>4 DEF DriverNext
<1>4. ASSUME NEW k \in Slots, MISReserve(k) PROVE FirstVertexInv'
  <2>1. /\ phase = "reserve" /\ phase' = phase /\ Running' = Running
        /\ flag' = [flag EXCEPT ![k] = FlagOf(Iteration(k))]
        /\ at' = [at EXCEPT ![k] = "ready"] /\ UNCHANGED driver
    BY <1>4 DEF MISReserve, State, EndReserve, driver, Running
  <2>2. FirstDone'
    BY <2>1, ReserveKeepsFirst
  <2>3. InRound /\ flag \in [Slots -> {0, 1, 2}] /\ DOMAIN at = Slots /\ Running \subseteq Slots
    BY <2>1, Ranges DEF InRound, FlagsInv, SpeculativeInv, TypeOK
  <2>4. 0 \in Running /\ k = 0 => flag'[0] # 0
    BY <2>1, <2>3, FirstFlagKnown
  <2>5. 0 \in Running /\ k # 0 /\ at'[0] = "ready" => flag'[0] # 0
    BY <2>1, <2>3 DEF FirstVertexInv, FirstFlag
  <2>6. QED
    BY <2>1, <2>2, <2>4, <2>5 DEF FirstVertexInv, FirstFlag
<1>5. ASSUME NEW k \in Slots, MISCommit(k) PROVE FirstVertexInv'
  <2> DEFINE b == flag[k] > 0
  <2>1. phase = "commit" /\ at[k] = "todo" /\ EndCommit(k, b) /\ flag' = flag
    BY <1>5 DEF MISCommit, State
  <2>2. Running' = Running /\ phase' = phase
    BY <2>1 DEF EndCommit, driver, Running
  <2>3. k = 0 => b
    <3>1. k \in Running
      BY <1>5, CommitRecords
    <3>2. flag \in [Slots -> {0, 1, 2}]
      BY DEF FlagsInv
    <3>3. QED
      BY <2>1, <3>1, <3>2 DEF FirstVertexInv, FirstFlag
  <2>4. b \in BOOLEAN
    OBVIOUS
  <2> HIDE DEF b
  <2>5. FirstDone'
    BY <2>1, <2>3, <2>4, CommitKeepsFirst DEF FirstVertexInv
  <2>6. QED
    BY <2>1, <2>2, <2>5 DEF FirstVertexInv, FirstFlag
<1>6. QED
  BY <1>1, <1>2, <1>3, <1>4, <1>5 DEF MISNext

(* The inductive invariant: a flag that is set is the serial one, and is   *)
(* set when the iteration is completed.                                    *)
THEOREM FlagsInvariance == MISSpec => []FlagsInv
BY FlagsInit, FlagsStep, MISRounds, PTL DEF MISSpec

LEMMA FlagsAreSerial ==
    ASSUME FlagsInv PROVE SerialResult
BY DEF FlagsInv, SerialResult

(* Between rounds every completed vertex has the flag that the serial loop *)
(* gives it, for every graph, size of rounds and interleaving; no other    *)
(* vertex has one.                                                         *)
THEOREM SerialResultCorrect == MISSpec => []SerialResult
BY FlagsAreSerial, FlagsInvariance, PTL

(* In the end all vertices have the flags of the serial loop.              *)
THEOREM DeterministicResult == MISSpec => [](phase = "end" => Flags = Serial)
<1>1. ASSUME FlagsInv, SpeculativeInv, phase = "end" PROVE Flags = Serial
  <2>1. \A i \in Iterations : committed[i] = 1
    BY <1>1, EachIsOnce DEF EachOnce
  <2>2. \A i \in Iterations : Flags[i] = Serial[i]
    BY <1>1, <2>1 DEF FlagsInv
  <2>3. Flags \in [Iterations -> {0, 1, 2}] /\ Serial \in [Iterations -> {1, 2}]
    BY <1>1, SerialIs DEF FlagsInv
  <2>4. QED
    BY <2>2, <2>3
<1>2. QED
  BY <1>1, FlagsInvariance, MISRounds, PTL

LEMMA IndependentStep ==
    FlagsInv /\ FlagsInv' /\ SpeculativeInv /\ [MISNext]_misVars
      => [\A i \in Iterations :
            /\ Flags[i] # 0 => Flags'[i] = Flags[i]
            /\ Flags'[i] = 1 => \A j \in GS[i] : Flags'[j] # 1]_misVars
<1> SUFFICES ASSUME FlagsInv, FlagsInv', SpeculativeInv, MISNext, NEW i \in Iterations
             PROVE  /\ Flags[i] # 0 => Flags'[i] = Flags[i]
                    /\ Flags'[i] = 1 => \A j \in GS[i] : Flags'[j] # 1
  OBVIOUS
<1>1. GS' = GS
  BY DEF MISNext, MISReserve, MISCommit
<1>2. Serial' = Serial
  BY <1>1, SerialStays
<1>3. \A j \in Iterations : Flags'[j] \in {0, Serial[j]}
  BY <1>2 DEF FlagsInv
<1>4. ASSUME Flags'[i] = 1, NEW j \in GS[i] PROVE Flags'[j] # 1
  <2>1. j \in Iterations /\ GS \in Graphs
    BY SpecMISAssumption DEF FlagsInv
  <2>2. Serial[i] = 1
    BY <1>3, <1>4
  <2>3. Serial[j] # 1
    BY <2>1, <2>2, SerialIndependent
  <2>4. QED
    BY <1>3, <2>1, <2>3
<1>5. ASSUME Flags[i] # 0 PROVE Flags'[i] = Flags[i]
  <2>1. CASE UNCHANGED Flags
    BY <2>1
  <2>2. ASSUME NEW k \in Slots, MISCommit(k) PROVE Flags'[i] = Flags[i]
    <3>1. Flags[I[k]] = 0 /\ Flags' = [Flags EXCEPT ![I[k]] = flag[k]]
      BY <2>2, CommitRecords
    <3>2. QED
      BY <1>5, <3>1 DEF FlagsInv
  <2>3. QED
    BY <2>1, <2>2 DEF MISNext, MISReserve
<1>6. QED
  BY <1>4, <1>5

(* No decision is taken back, and no two neighbours are ever chosen.       *)
THEOREM StaysIndependentCorrect == MISSpec => StaysIndependent
BY IndependentStep, FlagsInvariance, MISRounds, PTL DEF MISSpec, StaysIndependent

-----------------------------------------------------------------------------
(* The two forests: union-find, and Kruskal's algorithm.                   *)

(* ----------------------- Cuts and trees -------------------------------- *)

(* The edges of F before n.                                                *)
Before(F, n) == {j \in F : j < n}

(* Every set that none of the edges of F cuts has both or none of a and b. *)
Linked(F, a, b) == \A S \in SUBSET Vertices : Uncut(F, S) => (a \in S <=> b \in S)

(* If every edge of F joins what the edges before it leave apart, and F    *)
(* connects the ends of i without it, so do the edges before i: the last   *)
(* edge on the way, if it came after i, could not join what i does not.    *)
LEMMA NotApart ==
    ASSUME ForestTypeOK, NEW F \in SUBSET Iterations, \A n \in F : Apart(n),
           NEW i \in Iterations, i \notin F, Linked(F, G[i].u, G[i].v)
    PROVE  ~Apart(i)
<1>1. SUFFICES ASSUME Apart(i) PROVE FALSE
  OBVIOUS
<1> DEFINE a == G[i].u
           b == G[i].v
           N == {n \in Nat : Linked(Before(F, n), a, b)}
<1>2. PICK D \in SUBSET Vertices :
         a \in D /\ b \notin D /\ \A j \in s..(i - 1) : G[j].u \in D <=> G[j].v \in D
  BY <1>1, Zenon DEF Apart
<1>3. i \in Nat /\ \A j \in F : j \in Nat /\ s <= j /\ j < e /\ j \in Iterations
  BY DEF Iterations
<1>4. ASSUME NEW n \in N PROVE n > i
  <2>1. SUFFICES ASSUME ~(n > i) PROVE FALSE
    OBVIOUS
  <2>2. n \in Nat /\ n <= i
    BY <1>3, <2>1
  <2>3. \A j \in Before(F, n) : j \in s..(i - 1)
    BY <1>3, <2>2 DEF Before
  <2>4. Uncut(Before(F, n), D)
    BY <1>2, <2>3 DEF Uncut
  <2>5. QED
    BY <1>2, <2>4 DEF Linked
<1>5. e \in N
  <2>1. Before(F, e) = F
    BY <1>3 DEF Before
  <2>2. QED
    BY <2>1
<1>6. PICK n \in N : \A o \in N : ~(o < n)
  <2>1. N \subseteq Nat /\ N # {}
    BY <1>5
  <2> HIDE DEF N
  <2>2. QED
    BY <2>1, SmallestNat
<1> DEFINE m == n - 1
<1>7. n \in Nat /\ m \in Nat /\ m < n /\ i <= m
  <2>1. n > i /\ n \in Nat
    BY <1>4
  <2>2. QED
    BY <1>3, <2>1
<1>8. ~Linked(Before(F, m), a, b)
  <2>1. m \notin N
    BY <1>6, <1>7
  <2>2. QED
    BY <1>7, <2>1
<1>9. PICK S \in SUBSET Vertices : Uncut(Before(F, m), S) /\ ~(a \in S <=> b \in S)
  BY <1>8, Zenon DEF Linked
<1>10. Linked(Before(F, n), a, b)
  BY <1>6
<1>11. m \in F /\ m # i
  <2>1. SUFFICES ASSUME m \notin F PROVE FALSE
    OBVIOUS
  <2>2. \A j \in F : j < n <=> j < m
    <3>1. SUFFICES ASSUME NEW j \in F PROVE j < n <=> j < m
      OBVIOUS
    <3>2. j # m /\ j \in Nat /\ n \in Nat /\ m = n - 1
      BY <1>3, <1>7, <2>1
    <3> HIDE DEF m, N
    <3>3. QED
      BY <3>2
  <2>4. Before(F, n) = Before(F, m)
    BY <2>2 DEF Before
  <2>5. QED
    BY <1>8, <1>10, <2>4
<1>12. \A j \in Before(F, n) : j = m \/ j \in Before(F, m)
  BY <1>3, <1>7 DEF Before
<1> HIDE DEF m, N
<1>13. \A C \in SUBSET Vertices :
         Uncut(Before(F, m), C) /\ (G[m].u \in C <=> G[m].v \in C) => (a \in C <=> b \in C)
  <2>1. \A C : Uncut(Before(F, m), C) /\ (G[m].u \in C <=> G[m].v \in C) => Uncut(Before(F, n), C)
    BY <1>12, Zenon DEF Uncut
  <2>2. QED
    BY <1>10, <2>1, Zenon DEF Linked
<1>14. PICK B \in SUBSET Vertices :
         G[m].u \in B /\ G[m].v \notin B /\ \A j \in s..(m - 1) : G[j].u \in B <=> G[j].v \in B
  BY <1>11, Zenon DEF Apart
<1>15. a \in B <=> b \in B
  <2>1. i \in s..(m - 1)
    BY <1>3, <1>7, <1>11 DEF Iterations
  <2>2. QED
    BY <1>14, <2>1
<1>16. Uncut(Before(F, m), B)
  <2>1. \A j \in Before(F, m) : j \in s..(m - 1)
    BY <1>3, <1>7 DEF Before
  <2>2. QED
    BY <1>14, <2>1 DEF Uncut
<1>17. G[m].u \in Vertices /\ G[m].v \in Vertices /\ a \in Vertices /\ b \in Vertices
  BY <1>3, <1>11 DEF ForestTypeOK
<1> HIDE DEF a, b
<1>18. ASSUME NEW C \in SUBSET Vertices, \E P, Q \in {S, Vertices \ S, B, Vertices \ B} : C = P \cup Q \/ C = P \cap Q
       PROVE  Uncut(Before(F, m), C)
  <2>1. SUFFICES ASSUME NEW j \in Before(F, m) PROVE G[j].u \in C <=> G[j].v \in C
    BY DEF Uncut
  <2>2. G[j].u \in Vertices /\ G[j].v \in Vertices
    BY <1>3 DEF Before, ForestTypeOK
  <2>3. (G[j].u \in S <=> G[j].v \in S) /\ (G[j].u \in B <=> G[j].v \in B)
    BY <1>9, <1>16 DEF Uncut
  <2>4. QED
    BY <1>18, <2>2, <2>3
<1> DEFINE C1 == S \cap B
           C2 == S \cup B
           C3 == S \cap (Vertices \ B)
           C4 == S \cup (Vertices \ B)
<1>19. \A C \in {C1, C2, C3, C4} :
          (G[m].u \in C <=> G[m].v \in C) => (a \in C <=> b \in C)
  <2>1. \A C \in {C1, C2, C3, C4} : C \in SUBSET Vertices /\ Uncut(Before(F, m), C)
    BY <1>18
  <2> HIDE DEF C1, C2, C3, C4
  <2>2. QED
    BY <1>13, <2>1
<1>20. QED
  BY <1>9, <1>14, <1>15, <1>17, <1>19

(* The recursive definition of find has a solution: the roots that are in  *)
(* every set that contains x and, with a vertex, its parent.               *)
Followed(S) == \A x \in Vertices : ~is_root(x) /\ x \in S => parents[x] \in S
RootsAbove(x) == {r \in Vertices : is_root(r) /\ \A S \in SUBSET Vertices : Followed(S) /\ x \in S => r \in S}

LEMMA FindIs ==
    ASSUME ForestAssumption, ForestTypeOK
    PROVE  \A x \in Vertices : find[x] = IF is_root(x) THEN x ELSE find[parents[x]]
<1> DEFINE h == [x \in Vertices |-> CHOOSE r : r \in RootsAbove(x)]
<1>1. ASSUME NEW x \in Vertices, is_root(x) PROVE h[x] = x
  <2>1. Followed({x})
    BY <1>1 DEF Followed
  <2>2. RootsAbove(x) = {x}
    BY <1>1, <2>1 DEF RootsAbove
  <2>3. QED
    BY <2>2
<1>2. ASSUME NEW x \in Vertices, ~is_root(x) PROVE h[x] = h[parents[x]]
  <2>1. parents[x] \in Vertices
    BY <1>2 DEF ForestTypeOK, is_root, NoParent
  <2>2. RootsAbove(x) \subseteq RootsAbove(parents[x])
    <3>1. SUFFICES ASSUME NEW r \in RootsAbove(x), NEW S \in SUBSET Vertices, Followed(S), parents[x] \in S
                   PROVE  r \in S
      BY DEF RootsAbove
    <3>2. S \cup {x} \in SUBSET Vertices /\ Followed(S \cup {x})
      BY <3>1 DEF Followed
    <3>3. r \in S \cup {x} /\ r # x
      BY <1>2, <3>2 DEF RootsAbove
    <3>4. QED
      BY <3>3
  <2>3. RootsAbove(parents[x]) \subseteq RootsAbove(x)
    BY <1>2 DEF RootsAbove, Followed
  <2>4. RootsAbove(x) = RootsAbove(parents[x])
    BY <2>2, <2>3
  <2>5. QED
    BY <2>1, <2>4
<1>3. h = [x \in Vertices |-> IF is_root(x) THEN x ELSE h[parents[x]]]
  <2>1. \A x \in Vertices : h[x] = IF is_root(x) THEN x ELSE h[parents[x]]
    BY <1>1, <1>2
  <2>2. h = [x \in Vertices |-> h[x]]
    OBVIOUS
  <2> HIDE DEF h
  <2>3. QED
    BY <2>1, <2>2
<1> HIDE DEF h
<1>4. find = [x \in Vertices |-> IF is_root(x) THEN x ELSE find[parents[x]]]
  BY <1>3, Zenon DEF find
<1>5. QED
  BY <1>4, Zenon

(* It ends at the root of the tree if some number shrinks along the links.  *)
LEMMA FindEnds ==
    ASSUME ForestAssumption, ForestTypeOK, NEW h \in [Vertices -> Nat],
           \A y \in Vertices : ~is_root(y) => h[parents[y]] < h[y],
           NEW x \in Vertices
    PROVE  find[x] \in Vertices /\ is_root(find[x]) /\ SameTree(x, find[x]) /\ h[find[x]] <= h[x]
<1> DEFINE Good(y) == /\ find[y] \in Vertices /\ is_root(find[y]) /\ SameTree(y, find[y])
                      /\ h[find[y]] <= h[y]
           Bad == {h[y] : y \in {z \in Vertices : ~Good(z)}}
<1>1. SUFFICES ASSUME Bad # {} PROVE FALSE
  OBVIOUS
<1>2. PICK o \in Bad : \A p \in Bad : ~(p < o)
  <2>1. Bad \subseteq Nat
    OBVIOUS
  <2> HIDE DEF Bad
  <2>2. QED
    BY <1>1, <2>1, SmallestNat
<1>3. PICK y \in Vertices : ~Good(y) /\ o = h[y]
  BY <1>2
<1>4. find[y] = IF is_root(y) THEN y ELSE find[parents[y]]
  BY FindIs
<1>5. CASE is_root(y)
  <2>1. find[y] = y
    BY <1>4, <1>5
  <2>2. SameTree(y, y)
    BY DEF SameTree
  <2>3. QED
    BY <1>3, <1>5, <2>1, <2>2
<1>6. CASE ~is_root(y)
  <2> DEFINE z == parents[y]
  <2>1. z \in Vertices
    BY <1>6 DEF ForestTypeOK, is_root, NoParent
  <2>2. h[z] < h[y]
    BY <1>6
  <2>3. Good(z)
    BY <1>2, <1>3, <2>1, <2>2
  <2>4. find[y] = find[z]
    BY <1>4, <1>6
  <2>5. \A S \in SUBSET Vertices : Trees(S) => (y \in S <=> z \in S)
    BY <1>6 DEF Trees
  <2>6. SameTree(y, find[y])
    BY <2>3, <2>4, <2>5 DEF SameTree
  <2>7. h[find[y]] <= h[y]
    <3>1. h[find[z]] \in Nat /\ h[z] \in Nat /\ h[y] \in Nat /\ h[find[z]] <= h[z]
      BY <2>1, <2>3
    <3>2. QED
      BY <2>2, <2>4, <3>1
  <2>8. QED
    BY <1>3, <2>3, <2>4, <2>6, <2>7
<1>7. QED
  BY <1>5, <1>6

LEMMA FindRoot ==
    ASSUME ForestAssumption, ForestTypeOK, OrderInv, NEW x \in Vertices
    PROVE  find[x] \in Vertices /\ is_root(find[x]) /\ SameTree(x, find[x])
<1>1. PICK rank \in [Vertices -> Int] : Ordered(rank)
  BY DEF OrderInv
<1> DEFINE h == [y \in Vertices |-> max_idx + 1 - rank[y]]
<1>2. h \in [Vertices -> Nat]
  <2>1. SUFFICES ASSUME NEW y \in Vertices PROVE max_idx + 1 - rank[y] \in Nat
    OBVIOUS
  <2>2. rank[y] <= 0 \/ rank[y] = Level(y)
    BY <1>1 DEF Ordered
  <2>3. rank[y] \in Int /\ max_idx \in Nat /\ R[y] \in Nat
    BY DEF max_idx, ForestTypeOK
  <2>4. QED
    BY <2>2, <2>3 DEF Level
<1>3. ASSUME NEW y \in Vertices, ~is_root(y) PROVE h[parents[y]] < h[y]
  <2>1. parents[y] \in Vertices /\ rank[y] < rank[parents[y]]
    BY <1>1, <1>3 DEF Ordered, ForestTypeOK, is_root, NoParent
  <2>2. rank[y] \in Int /\ rank[parents[y]] \in Int /\ max_idx \in Nat
    BY <2>1 DEF max_idx
  <2>3. QED
    BY <2>1, <2>2
<1> HIDE DEF h
<1>4. QED
  BY <1>2, <1>3, FindEnds

(* A vertex is in the tree of root r if find says so.                      *)
TreeOf(r) == {y \in Vertices : find[y] = r}

LEMMA FoundTree ==
    ASSUME ForestAssumption, ForestTypeOK, NEW r
    PROVE  Trees(TreeOf(r)) /\ Trees(Vertices \ TreeOf(r))
<1>1. SUFFICES ASSUME NEW x \in Vertices, ~is_root(x)
               PROVE  parents[x] \in Vertices /\ find[x] = find[parents[x]]
  BY DEF Trees, TreeOf
<1>2. parents[x] \in Vertices
  BY <1>1 DEF ForestTypeOK, is_root, NoParent
<1>3. QED
  BY <1>1, <1>2, FindIs

(* ------------------------- What stays ---------------------------------- *)

LEMMA SameForest ==
    ASSUME G' = G, parents' = parents
    PROVE  /\ \A x : is_root(x)' <=> is_root(x)
           /\ \A S : Trees(S)' <=> Trees(S)
           /\ \A x, y : SameTree(x, y)' <=> SameTree(x, y)
<1>1. \A x : is_root(x)' <=> is_root(x)
  BY DEF is_root
<1>2. \A S : Trees(S)' <=> Trees(S)
  BY <1>1 DEF Trees
<1>3. \A x, y : SameTree(x, y)' <=> SameTree(x, y)
  BY <1>2 DEF SameTree
<1>4. QED
  BY <1>1, <1>2, <1>3

LEMMA SameGraph ==
    ASSUME G' = G
    PROVE  /\ \A i : Apart(i)' <=> Apart(i)
           /\ \A F, S : Uncut(F, S)' <=> Uncut(F, S)
BY DEF Apart, Uncut

LEMMA SameSlots ==
    ASSUME UNCHANGED driver
    PROVE  /\ phase' = phase /\ Running' = Running
           /\ \A k : Iteration(k)' = Iteration(k)
BY DEF driver, Running, Iteration

LEMMA VerticesOf ==
    ASSUME ForestTypeOK, NEW i \in Iterations
    PROVE  /\ G[i].u \in Vertices /\ G[i].v \in Vertices /\ E[i].u \in Vertices /\ E[i].v \in Vertices
           /\ i \in Nat /\ s <= i /\ i < max_idx
<1>1. G[i] \in [u : Vertices, v : Vertices] /\ E[i] \in [u : Vertices, v : Vertices]
  BY DEF ForestTypeOK
<1>2. QED
  BY <1>1 DEF Iterations, max_idx

LEMMA LevelOf ==
    ASSUME ForestTypeOK, NEW x \in Vertices
    PROVE  /\ R[x] \in Nat /\ R[x] <= max_idx /\ max_idx \in Nat
           /\ Level(x) \in 1..(max_idx + 1)
           /\ R[x] # max_idx => Level(x) = max_idx - R[x]
           /\ R[x] = max_idx => Level(x) = max_idx + 1
<1>1. R[x] \in s..max_idx /\ max_idx \in Nat
  BY DEF ForestTypeOK, max_idx
<1>2. R[x] \in Nat /\ R[x] <= max_idx
  BY <1>1
<1>3. QED
  BY <1>1, <1>2 DEF Level

(* --------------------------- Reserve ----------------------------------- *)

LEMMA TreesAreTaken ==
    ASSUME KruskalInv, NEW a, NEW b, SameTree(a, b)
    PROVE  Linked(inST, a, b)
BY DEF KruskalInv, EdgesInv, SameTree, Linked

LEMMA SameTreeSteps ==
    ASSUME NEW a, NEW b, NEW c, SameTree(a, b), SameTree(b, c)
    PROVE  SameTree(a, c) /\ SameTree(b, a)
BY DEF SameTree

LEMMA ReserveKeepsInv ==
    ASSUME ForestAssumption, KruskalInv, SpeculativeInv, NEW k \in Slots, KruskalReserve(k)
    PROVE  KruskalInv'
<1> DEFINE i == Iteration(k)
           u == find[E[i].u]
           v == find[E[i].v]
<1>1. /\ phase = "reserve" /\ at[k] = "todo" /\ E' = [E EXCEPT ![i] = [u |-> u, v |-> v]]
      /\ R' = IF u # v THEN Reserved(Reserved(R, v, i), u, i) ELSE R
      /\ EndReserve(k, u # v) /\ UNCHANGED <<G, parents, inST, roots>>
  BY DEF KruskalReserve
<1>2. /\ UNCHANGED driver /\ keep' = [keep EXCEPT ![k] = (u # v)] /\ at' = [at EXCEPT ![k] = "ready"]
      /\ committed' = IF u # v THEN committed ELSE [committed EXCEPT ![i] = @ + 1]
  BY <1>1 DEF EndReserve
<1>3. InRound /\ k \in Running /\ i \in Iterations /\ committed[i] = 0
  <2>1. InRound /\ at[k] # "ready"
    BY <1>1 DEF InRound
  <2>2. QED
    BY <2>1, SlotFacts
<1>4. /\ ForestTypeOK /\ OrderInv /\ ReservedInv /\ HolderInv /\ EdgesInv
      /\ keep \in [Slots -> BOOLEAN] /\ DOMAIN at = Slots /\ committed \in [Iterations -> Nat]
      /\ \A l \in Running : l \in Slots /\ Iteration(l) \in Iterations /\ (Iteration(l) = i => l = k)
  BY <1>3, RoundFacts DEF KruskalInv
<1>5. /\ u \in Vertices /\ is_root(u) /\ SameTree(E[i].u, u)
      /\ v \in Vertices /\ is_root(v) /\ SameTree(E[i].v, v)
  BY <1>3, <1>4, VerticesOf, FindRoot
<1>6. i \in Nat /\ s <= i /\ i < max_idx /\ i \in s..max_idx
  BY <1>3, <1>4, VerticesOf DEF max_idx
<1> HIDE DEF i, u, v
<1>7. \A x \in Vertices : R'[x] = IF u # v /\ x \in {u, v} THEN MinOf(R[x], i) ELSE R[x]
  BY <1>1, <1>4, <1>5 DEF Reserved, ForestTypeOK
<1>8. \A x \in Vertices : R'[x] \in s..max_idx /\ R'[x] <= R[x] /\ (u # v /\ x \in {u, v} => R'[x] <= i)
                            /\ (R'[x] # R[x] => u # v /\ x \in {u, v} /\ R'[x] = i)
  <2>1. SUFFICES ASSUME NEW x \in Vertices
                 PROVE  /\ R'[x] \in s..max_idx /\ R'[x] <= R[x] /\ (u # v /\ x \in {u, v} => R'[x] <= i)
                        /\ (R'[x] # R[x] => u # v /\ x \in {u, v} /\ R'[x] = i)
    OBVIOUS
  <2>2. R[x] \in s..max_idx /\ s \in Nat /\ max_idx \in Nat
    BY <1>4 DEF ForestTypeOK, max_idx
  <2>3. R'[x] = R[x] \/ (u # v /\ x \in {u, v} /\ R'[x] = MinOf(R[x], i))
    BY <1>7
  <2>4. MinOf(R[x], i) \in s..max_idx /\ MinOf(R[x], i) <= R[x] /\ MinOf(R[x], i) <= i
        /\ MinOf(R[x], i) \in {R[x], i}
    BY <1>6, <2>2 DEF MinOf
  <2>5. u # v /\ x \in {u, v} => R'[x] = MinOf(R[x], i)
    BY <1>7
  <2>6. QED
    BY <2>2, <2>3, <2>4, <2>5
<1>9. ForestTypeOK'
  <2>1. R' \in [Vertices -> s..max_idx]
    <3>1. R' = [x \in Vertices |-> R'[x]]
      BY <1>1, <1>4 DEF Reserved, ForestTypeOK
    <3>2. QED
      BY <1>8, <3>1
  <2>2. E' \in [Iterations -> [u : Vertices, v : Vertices]]
    BY <1>1, <1>4, <1>5 DEF ForestTypeOK
  <2>3. QED
    BY <1>1, <1>4, <2>1, <2>2, SlotsStay DEF ForestTypeOK, max_idx
<1>10. /\ \A x : is_root(x)' <=> is_root(x)
       /\ \A S : Trees(S)' <=> Trees(S)
       /\ \A x, y : SameTree(x, y)' <=> SameTree(x, y)
       /\ \A j : Apart(j)' <=> Apart(j)
       /\ \A F, S : Uncut(F, S)' <=> Uncut(F, S)
  BY <1>1, SameForest, SameGraph
<1>11. /\ phase' = "reserve" /\ Running' = Running
       /\ \A l : Iteration(l)' = Iteration(l)
  BY <1>1, <1>2, SameSlots
<1>12. OrderInv'
  <2>1. PICK rank \in [Vertices -> Int] : Ordered(rank)
    BY <1>4 DEF OrderInv
  <2> DEFINE f == [x \in Vertices |-> IF is_root(x) THEN Level(x)' ELSE rank[x]]
  <2>2. \A x \in Vertices : Level(x)' \in Int /\ Level(x)' > 0
    <3>1. ASSUME NEW x \in Vertices PROVE Level(x)' \in Int /\ Level(x)' > 0
      <4>1. R'[x] \in s..max_idx /\ max_idx \in Nat /\ s \in Nat
        BY <1>8 DEF max_idx
      <4>2. Level(x)' = IF R'[x] = max_idx THEN max_idx + 1 ELSE max_idx - R'[x]
        BY DEF Level, max_idx
      <4>3. QED
        BY <4>1, <4>2
    <3>2. QED
      BY <3>1
  <2>3. f \in [Vertices -> Int]
    BY <2>2
  <2>4. \A x \in Vertices :
          /\ f[x] <= 0 \/ f[x] = Level(x)'
          /\ is_root(x) => f[x] = Level(x)'
          /\ ~is_root(x) => f[x] < f[parents[x]] /\ f[x] <= 0
    <3>1. SUFFICES ASSUME NEW x \in Vertices, ~is_root(x) PROVE f[x] < f[parents[x]] /\ f[x] <= 0
      OBVIOUS
    <3>2. f[x] = rank[x] /\ rank[x] <= 0 /\ rank[x] < rank[parents[x]] /\ parents[x] \in Vertices
      BY <1>1, <1>4, <2>1, <3>1 DEF Ordered, ForestTypeOK, is_root, NoParent
    <3>3. f[parents[x]] = rank[parents[x]] \/ f[parents[x]] > 0
      BY <2>2, <3>2
    <3>4. QED
      BY <2>3, <3>2, <3>3
  <2>5. PICK g \in [Vertices -> Int] : g = f
    BY <2>3
  <2> HIDE DEF f
  <2>6. Ordered(g)'
    BY <1>1, <1>10, <1>11, <2>4, <2>5 DEF Ordered
  <2>7. QED
    BY <2>6 DEF OrderInv
<1>13. EndsOf(k)' = {u, v} /\ \A l \in Running : l # k => EndsOf(l)' = EndsOf(l)
  <2>1. Iteration(k) = i /\ \A l \in Running : l # k => Iteration(l) # i
    BY <1>4 DEF i
  <2>2. E'[i].u = u /\ E'[i].v = v /\ \A j \in Iterations : j # i => E'[j] = E[j]
    BY <1>1, <1>3, <1>4 DEF ForestTypeOK
  <2>3. QED
    BY <1>3, <1>4, <1>11, <2>1, <2>2 DEF EndsOf
<1>14. (Active(k)' <=> u # v) /\ \A l \in Running : l # k => (Active(l)' <=> Active(l))
  BY <1>1, <1>2, <1>4, <1>11 DEF Active
<1>15. ReservedInv'
  <2>1. SUFFICES ASSUME NEW l \in Running, Active(l)'
                 PROVE  /\ E'[Iteration(l)].u # E'[Iteration(l)].v
                        /\ \A x \in EndsOf(l)' : R'[x] <= Iteration(l) /\ is_root(x)
    BY <1>10, <1>11 DEF ReservedInv
  <2>2. CASE l = k
    <3>1. u # v /\ EndsOf(l)' = {u, v} /\ E'[i].u = u /\ E'[i].v = v
      BY <1>1, <1>3, <1>4, <1>13, <1>14, <2>1, <2>2 DEF ForestTypeOK
    <3>2. QED
      BY <1>5, <1>8, <2>2, <3>1 DEF i
  <2>3. CASE l # k
    <3>1. Active(l) /\ EndsOf(l)' = EndsOf(l) /\ E'[Iteration(l)] = E[Iteration(l)]
      BY <1>1, <1>4, <1>13, <1>14, <2>1, <2>3 DEF ForestTypeOK
    <3>2. E[Iteration(l)].u # E[Iteration(l)].v
          /\ \A x \in EndsOf(l) : x \in Vertices /\ R[x] <= Iteration(l) /\ is_root(x)
      <4>1. \A x \in EndsOf(l) : x \in Vertices
        BY <1>4, VerticesOf DEF EndsOf
      <4>2. QED
        BY <1>1, <1>4, <3>1, <4>1 DEF ReservedInv
    <3>3. \A x \in EndsOf(l) : R'[x] <= Iteration(l)
      <4>1. SUFFICES ASSUME NEW x \in EndsOf(l) PROVE R'[x] <= Iteration(l)
        OBVIOUS
      <4>2. R'[x] <= R[x] /\ R[x] <= Iteration(l) /\ R'[x] \in s..max_idx
        BY <1>8, <3>2
      <4>3. R[x] \in Nat /\ Iteration(l) \in Nat
        BY <1>4, <3>2, LevelOf, VerticesOf
      <4>4. s \in Nat /\ max_idx \in Nat
        BY DEF max_idx
      <4>5. QED
        BY <4>2, <4>3, <4>4
    <3>4. QED
      BY <3>1, <3>2, <3>3
  <2>4. QED
    BY <2>2, <2>3
<1>16. HolderInv'
  <2>1. SUFFICES ASSUME NEW x \in Vertices, is_root(x), R'[x] # max_idx
                 PROVE  \E l \in Running : Active(l)' /\ R'[x] = Iteration(l) /\ x \in EndsOf(l)'
    BY <1>10, <1>11 DEF HolderInv, max_idx
  <2>2. CASE R'[x] = R[x]
    <3>1. PICK l \in Running : Active(l) /\ R[x] = Iteration(l) /\ x \in EndsOf(l)
      BY <1>4, <2>1, <2>2 DEF HolderInv
    <3>2. l # k
      BY <1>1, <3>1 DEF Active
    <3>3. QED
      BY <1>13, <1>14, <2>2, <3>1, <3>2
  <2>3. CASE R'[x] # R[x]
    BY <1>3, <1>8, <1>13, <1>14, <2>3 DEF i
  <2>4. QED
    BY <2>2, <2>3
<1>17. EdgesInv'
  <2>1. \A j \in Iterations : SameTree(G[j].u, E'[j].u) /\ SameTree(G[j].v, E'[j].v)
    <3>1. SUFFICES ASSUME NEW j \in Iterations PROVE SameTree(G[j].u, E'[j].u) /\ SameTree(G[j].v, E'[j].v)
      OBVIOUS
    <3>2. SameTree(G[j].u, E[j].u) /\ SameTree(G[j].v, E[j].v)
      BY <1>4 DEF EdgesInv
    <3>3. CASE j = i
      BY <1>1, <1>3, <1>4, <1>5, <3>2, <3>3, SameTreeSteps DEF ForestTypeOK
    <3>4. CASE j # i
      BY <1>1, <1>4, <3>2, <3>4 DEF ForestTypeOK
    <3>5. QED
      BY <3>3, <3>4
  <2>2. ASSUME u = v PROVE SameTree(G[i].u, G[i].v) /\ ~Apart(i)
    <3>1. SameTree(G[i].u, u) /\ SameTree(G[i].v, u)
      BY <1>1, <1>3, <1>4, <2>1, <2>2 DEF ForestTypeOK
    <3>2. SameTree(G[i].u, G[i].v)
      BY <3>1 DEF SameTree
    <3>3. Linked(inST, G[i].u, G[i].v)
      BY <3>2, TreesAreTaken
    <3>4. i \notin inST /\ (\A n \in inST : Apart(n)) /\ inST \in SUBSET Iterations
      BY <1>3, <1>4 DEF EdgesInv, ForestTypeOK
    <3>5. ~Apart(i)
      BY <1>3, <1>4, <3>3, <3>4, NotApart
    <3>6. QED
      BY <3>2, <3>5
  <2>3. \A j \in Iterations : committed'[j] # 0 => committed[j] # 0 \/ (j = i /\ u = v)
    BY <1>2, <1>4
  <2>4. \A j \in Iterations : committed[j] # 0 => committed'[j] # 0
    BY <1>2, <1>3, <1>4
  <2>5. \A j \in inST : committed'[j] # 0 /\ Apart(j)
    BY <1>4, <2>4 DEF EdgesInv, ForestTypeOK
  <2>6. \A j \in Iterations : committed'[j] # 0 => SameTree(G[j].u, G[j].v) /\ (j \in inST \/ ~Apart(j))
    BY <1>4, <2>2, <2>3 DEF EdgesInv
  <2>7. \A S \in SUBSET Vertices : Uncut(inST, S) => Trees(S)
    BY <1>4 DEF EdgesInv
  <2>8. QED
    BY <1>1, <1>10, <2>1, <2>5, <2>6, <2>7 DEF EdgesInv
<1>18. QED
  BY <1>9, <1>12, <1>15, <1>16, <1>17 DEF KruskalInv

(* ---------------------------- Commit ----------------------------------- *)

(* Root x is ours and hangs below y, which is given back if it is ours too. *)
LinksTo(k, x, y) ==
    /\ k \in Slots /\ phase = "commit" /\ at[k] = "todo"
    /\ EndsOf(k) = {x, y} /\ R[x] = Iteration(k)
    /\ R' = IF R[y] = Iteration(k) THEN Reset(R, y) ELSE R
    /\ parents' = [parents EXCEPT ![x] = y]
    /\ inST' = inST \cup {Iteration(k)}
    /\ EndCommit(k, TRUE)
    /\ UNCHANGED <<G, E, roots>>

(* What a slot knows when it commits.                                      *)
CommitKnows(k) ==
    /\ InRound /\ k \in Running /\ Active(k)
    /\ Iteration(k) \in Iterations /\ committed[Iteration(k)] = 0 /\ I[k] = Iteration(k)

LEMMA AtCommit ==
    ASSUME SpeculativeInv, NEW k \in Slots, phase = "commit", at[k] = "todo"
    PROVE  CommitKnows(k)
<1>1. InRound /\ at[k] # "ready"
  BY DEF InRound
<1>2. QED
  BY <1>1, SlotFacts DEF CommitKnows, Active

LEMMA LinkKeepsInv ==
    ASSUME ForestAssumption, KruskalInv, SpeculativeInv, NEW k, NEW x, NEW y, LinksTo(k, x, y)
    PROVE  KruskalInv'
<1> DEFINE i == Iteration(k)
<1>1. /\ k \in Slots /\ phase = "commit" /\ at[k] = "todo"
      /\ EndsOf(k) = {x, y} /\ R[x] = i
      /\ R' = IF R[y] = i THEN Reset(R, y) ELSE R
      /\ parents' = [parents EXCEPT ![x] = y] /\ inST' = inST \cup {i}
      /\ EndCommit(k, TRUE) /\ UNCHANGED <<G, E, roots>>
  BY DEF LinksTo
<1>2. InRound /\ k \in Running /\ Active(k) /\ i \in Iterations /\ committed[i] = 0 /\ I[k] = i
  BY <1>1, AtCommit DEF CommitKnows
<1>3. /\ ForestTypeOK /\ OrderInv /\ ReservedInv /\ HolderInv /\ EdgesInv
      /\ DOMAIN at = Slots /\ committed \in [Iterations -> Nat]
      /\ \A l \in Running : l \in Slots /\ Iteration(l) \in Iterations /\ (Iteration(l) = i => l = k)
  BY <1>2, RoundFacts DEF KruskalInv
<1>4. /\ UNCHANGED driver /\ at' = [at EXCEPT ![k] = "ready"]
      /\ committed' = [committed EXCEPT ![i] = @ + 1]
  BY <1>1, <1>2 DEF EndCommit
<1>5. x \in Vertices /\ y \in Vertices /\ x # y
  <2>1. E[i].u \in Vertices /\ E[i].v \in Vertices /\ E[i].u # E[i].v
    BY <1>2, <1>3, VerticesOf DEF ReservedInv
  <2>2. {x, y} = {E[i].u, E[i].v}
    BY <1>1 DEF EndsOf
  <2>3. QED
    BY <2>1, <2>2
<1>6. /\ is_root(x) /\ Apart(i)
      /\ R[y] <= i \/ R[y] = max_idx
      /\ R[y] = i => is_root(y)
  <2>1. x \in EndsOf(k) /\ y \in EndsOf(k)
    BY <1>1
  <2>2. QED
    BY <1>1, <1>2, <1>3, <2>1 DEF ReservedInv
<1>7. i \in Nat /\ i < max_idx /\ max_idx \in Nat
  BY <1>2, <1>3, VerticesOf, LevelOf, <1>5
<1> HIDE DEF i
<1>8. \A z \in Vertices : R'[z] = IF z = y /\ R[y] = i THEN max_idx ELSE R[z]
  BY <1>1, <1>3, <1>5 DEF Reset, ForestTypeOK
<1>9. ForestTypeOK'
  <2>1. R' \in [Vertices -> s..max_idx]
    <3>1. max_idx \in s..max_idx
      BY DEF max_idx
    <3>2. QED
      BY <1>1, <1>3, <3>1 DEF Reset, ForestTypeOK
  <2>2. QED
    BY <1>1, <1>2, <1>3, <1>5, <2>1, SlotsStay DEF ForestTypeOK, max_idx
<1>10. /\ \A j : Apart(j)' <=> Apart(j)
       /\ \A F, S : Uncut(F, S)' <=> Uncut(F, S)
       /\ phase' = "commit" /\ Running' = Running
       /\ \A l : Iteration(l)' = Iteration(l) /\ EndsOf(l)' = EndsOf(l)
  BY <1>1, <1>4, SameGraph, SameSlots DEF EndsOf
<1>11. /\ ~is_root(x)' /\ parents'[x] = y
       /\ \A z \in Vertices : z # x => (is_root(z)' <=> is_root(z)) /\ parents'[z] = parents[z]
  <2>1. parents'[x] = y /\ \A z \in Vertices : z # x => parents'[z] = parents[z]
    BY <1>1, <1>3, <1>5 DEF ForestTypeOK
  <2>2. ~(y < 0)
    BY <1>5 DEF ForestAssumption
  <2>3. QED
    BY <2>1, <2>2 DEF is_root
<1>12. \A l \in Running : Active(l)' <=> (l # k /\ Active(l))
  BY <1>1, <1>3, <1>4, <1>10 DEF Active
<1>13. OrderInv'
  <2>1. PICK rank \in [Vertices -> Int] : Ordered(rank)
    BY <1>3 DEF OrderInv
  <2> DEFINE top == IF R[y] = i THEN max_idx + 1 ELSE rank[y]
  <2>2. PICK f \in [Vertices -> Int] : f = [rank EXCEPT ![y] = top]
    <3>1. top \in Int
      BY <1>5, <1>7
    <3>2. [rank EXCEPT ![y] = top] \in [Vertices -> Int]
      BY <3>1
    <3>3. QED
      BY <3>2
  <2>3. f[y] = top /\ \A z \in Vertices : z # y => f[z] = rank[z]
    BY <1>5, <2>2
  <2>4. /\ rank[x] = Level(x) /\ rank[y] > 0 /\ rank[y] = Level(y)
    <3>1. rank[y] > 0
      BY <1>1, <1>2, <2>1 DEF Ordered
    <3>2. rank[y] <= 0 \/ rank[y] = Level(y)
      BY <1>5, <2>1 DEF Ordered
    <3>3. QED
      BY <1>5, <1>6, <2>1, <3>1, <3>2 DEF Ordered
  <2>5. top = Level(y)' /\ top >= rank[y] /\ top > rank[x]
    <3>1. Level(y)' = IF R'[y] = max_idx THEN max_idx + 1 ELSE max_idx - R'[y]
      BY DEF Level, max_idx
    <3>2. /\ R[y] \in Nat /\ R[y] <= max_idx /\ Level(y) \in 1..(max_idx + 1)
          /\ (R[y] # max_idx => Level(y) = max_idx - R[y]) /\ (R[y] = max_idx => Level(y) = max_idx + 1)
      BY <1>3, <1>5, LevelOf
    <3>3. Level(x) = max_idx - i
      BY <1>1, <1>3, <1>5, <1>7, LevelOf
    <3>4. CASE R[y] = i
      <4>1. R'[y] = max_idx
        BY <1>5, <1>8, <3>4
      <4>2. QED
        BY <1>7, <2>4, <3>1, <3>2, <3>3, <3>4, <4>1
    <3>5. CASE R[y] # i
      <4>1. R'[y] = R[y]
        BY <1>5, <1>8, <3>5
      <4>2. Level(y)' = Level(y)
        BY <3>1, <3>2, <4>1
      <4>3. top = Level(y)
        BY <2>4, <3>5
      <4>4. Level(y) > Level(x)
        BY <1>6, <1>7, <3>2, <3>3, <3>5
      <4> HIDE DEF top
      <4>5. QED
        BY <2>4, <4>2, <4>3, <4>4, <3>2
    <3>6. QED
      BY <3>4, <3>5
  <2> HIDE DEF top
  <2>6. \A z \in Vertices : f[z] >= rank[z] /\ f[z] \in Int /\ rank[z] \in Int
    BY <2>3, <2>5
  <2>7. \A z \in Vertices : z # y => Level(z)' = Level(z)
    BY <1>8 DEF Level, max_idx
  <2>8. ASSUME NEW z \in Vertices
        PROVE  /\ f[z] <= 0 \/ f[z] = Level(z)'
               /\ is_root(z)' => f[z] = Level(z)'
               /\ ~is_root(z)' => f[z] < f[parents'[z]]
    <3>1. /\ rank[z] <= 0 \/ rank[z] = Level(z)
          /\ is_root(z) => rank[z] = Level(z)
          /\ ~is_root(z) => rank[z] < rank[parents[z]]
      BY <2>1 DEF Ordered
    <3>2. /\ f[z] <= 0 \/ f[z] = Level(z)'
          /\ is_root(z)' => f[z] = Level(z)'
      BY <1>11, <2>3, <2>5, <2>7, <3>1
    <3>3. ASSUME z # x, ~is_root(z) PROVE f[z] < f[parents'[z]]
      <4>1. parents'[z] = parents[z] /\ parents[z] \in Vertices
        BY <1>3, <1>11, <3>3 DEF ForestTypeOK, is_root, NoParent
      <4>2. f[z] = rank[z]
        <5>1. z = y => R[y] # i
          BY <1>6, <3>3
        <5>2. QED
          BY <2>3, <5>1 DEF top
      <4>3. rank[z] < rank[parents[z]]
        BY <3>1, <3>3
      <4>4. QED
        BY <2>6, <4>1, <4>2, <4>3
    <3>4. f[x] < f[parents'[x]]
      BY <1>5, <1>11, <2>3, <2>5
    <3>5. QED
      BY <1>11, <3>2, <3>3, <3>4
  <2>9. \A l \in Running : Active(l)' => \A z \in EndsOf(l)' : f[z] > 0
    <3>1. SUFFICES ASSUME NEW l \in Running, Active(l), NEW z \in EndsOf(l) PROVE f[z] > 0
      BY <1>10, <1>12
    <3>2. rank[z] > 0
      BY <1>1, <2>1, <3>1 DEF Ordered
    <3>3. z \in Vertices
      BY <1>3, VerticesOf DEF EndsOf
    <3>4. QED
      BY <2>6, <3>2, <3>3
  <2>10. Ordered(f)'
    BY <1>10, <2>8, <2>9 DEF Ordered
  <2>11. QED
    BY <2>10 DEF OrderInv
<1>14. ReservedInv'
  <2>1. SUFFICES ASSUME NEW l \in Running, l # k, Active(l)
                 PROVE  /\ E[Iteration(l)].u # E[Iteration(l)].v
                        /\ \A z \in EndsOf(l) :
                             /\ R'[z] <= Iteration(l) \/ R'[z] = max_idx
                             /\ R'[z] = Iteration(l) => is_root(z)' /\ Apart(Iteration(l))
    BY <1>1, <1>10, <1>12 DEF ReservedInv, max_idx
  <2>2. ASSUME NEW z \in EndsOf(l)
        PROVE  /\ R'[z] <= Iteration(l) \/ R'[z] = max_idx
               /\ R'[z] = Iteration(l) => is_root(z)' /\ Apart(Iteration(l))
    <3>1. z \in Vertices /\ Iteration(l) # max_idx /\ Iteration(l) # i
      BY <1>3, <2>1, VerticesOf DEF EndsOf
    <3>2. /\ R[z] <= Iteration(l) \/ R[z] = max_idx
          /\ R[z] = Iteration(l) => is_root(z) /\ Apart(Iteration(l))
      BY <1>1, <1>3, <2>1 DEF ReservedInv
    <3>3. R'[z] = max_idx \/ R'[z] = R[z]
      BY <1>8, <3>1
    <3>4. R[z] = Iteration(l) => z # x
      BY <1>1, <3>1
    <3>5. QED
      BY <1>11, <3>1, <3>2, <3>3, <3>4
  <2>3. QED
    BY <1>3, <2>1, <2>2 DEF ReservedInv
<1>15. HolderInv'
  <2>1. SUFFICES ASSUME NEW z \in Vertices, is_root(z)', R'[z] # max_idx
                 PROVE  \E l \in Running : l # k /\ Active(l) /\ R'[z] = Iteration(l) /\ z \in EndsOf(l)
    BY <1>10, <1>12 DEF HolderInv, max_idx
  <2>2. z # x /\ is_root(z) /\ R'[z] = R[z] /\ (z = y => R[z] # i)
    BY <1>8, <1>11, <2>1
  <2>3. PICK l \in Running : Active(l) /\ R[z] = Iteration(l) /\ z \in EndsOf(l)
    BY <1>3, <2>1, <2>2 DEF HolderInv
  <2>4. l # k
    BY <1>1, <2>2, <2>3 DEF i
  <2>5. QED
    BY <2>2, <2>3, <2>4
<1>16. EdgesInv'
  <2>1. ASSUME NEW S \in SUBSET Vertices, Trees(S)' PROVE Trees(S) /\ (x \in S <=> y \in S)
    BY <1>5, <1>6, <1>11, <2>1 DEF Trees
  <2>2. \A a, b : SameTree(a, b) => SameTree(a, b)'
    BY <2>1 DEF SameTree
  <2>3. \A j \in Iterations : SameTree(G[j].u, E[j].u) /\ SameTree(G[j].v, E[j].v)
    BY <1>3 DEF EdgesInv
  <2>4. \A S : (x \in S <=> y \in S) <=> (E[i].u \in S <=> E[i].v \in S)
    <3>1. {x, y} = {E[i].u, E[i].v} /\ E[i].u # E[i].v
      BY <1>1, <1>2, <1>3 DEF EndsOf, ReservedInv, i
    <3>2. (x = E[i].u /\ y = E[i].v) \/ (x = E[i].v /\ y = E[i].u)
      BY <3>1
    <3>3. QED
      BY <3>2
  <2>5. ASSUME NEW S \in SUBSET Vertices, Uncut(inST', S) PROVE Trees(S)'
    <3>1. Uncut(inST, S) /\ (G[i].u \in S <=> G[i].v \in S)
      BY <1>1, <2>5 DEF Uncut
    <3>2. Trees(S)
      BY <1>3, <3>1 DEF EdgesInv
    <3>3. (G[i].u \in S <=> E[i].u \in S) /\ (G[i].v \in S <=> E[i].v \in S)
      BY <1>2, <2>3, <3>2 DEF SameTree
    <3>4. x \in S <=> y \in S
      BY <2>4, <3>1, <3>3
    <3>5. QED
      BY <1>11, <3>2, <3>4 DEF Trees
  <2>6. ASSUME NEW j \in Iterations, j = i PROVE SameTree(G[j].u, G[j].v)'
    <3>1. SUFFICES ASSUME NEW S \in SUBSET Vertices, Trees(S)' PROVE G[j].u \in S <=> G[j].v \in S
      BY <1>1 DEF SameTree
    <3>2. Trees(S) /\ (E[j].u \in S <=> E[j].v \in S)
      BY <2>1, <2>4, <2>6, <3>1
    <3>3. QED
      BY <2>3, <3>2 DEF SameTree
  <2>7. committed'[i] # 0 /\ \A j \in Iterations : j # i => committed'[j] = committed[j]
    BY <1>2, <1>3, <1>4
  <2>8. \A j \in inST' : committed'[j] # 0 /\ Apart(j)
    BY <1>1, <1>3, <1>6, <2>7 DEF EdgesInv, ForestTypeOK
  <2>9. ASSUME NEW j \in Iterations, committed'[j] # 0
        PROVE  SameTree(G[j].u, G[j].v)' /\ (j \in inST' \/ ~Apart(j))
    <3>1. CASE j = i
      BY <1>1, <2>6, <3>1
    <3>2. CASE j # i
      <4>1. SameTree(G[j].u, G[j].v) /\ (j \in inST \/ ~Apart(j))
        BY <1>3, <2>7, <2>9, <3>2 DEF EdgesInv
      <4>2. SameTree(G[j].u, G[j].v)'
        BY <1>1, <2>2, <4>1
      <4>3. QED
        BY <1>1, <4>1, <4>2
    <3>3. QED
      BY <3>1, <3>2
  <2>10. \A j \in Iterations : SameTree(G[j].u, E[j].u)' /\ SameTree(G[j].v, E[j].v)'
    BY <1>1, <2>2, <2>3
  <2>11. QED
    BY <1>1, <1>10, <2>5, <2>8, <2>9, <2>10 DEF EdgesInv
<1>17. QED
  BY <1>9, <1>13, <1>14, <1>15, <1>16 DEF KruskalInv

LEMMA FailKeepsInv ==
    ASSUME KruskalInv, SpeculativeInv, NEW k \in Slots, phase = "commit", at[k] = "todo",
           CommitFails(k), UNCHANGED <<G, E, roots>>
    PROVE  KruskalInv'
<1> DEFINE i == Iteration(k)
<1>1. /\ InRound /\ k \in Running /\ Active(k) /\ I[k] = i
      /\ ForestTypeOK /\ OrderInv /\ ReservedInv /\ HolderInv /\ EdgesInv
      /\ DOMAIN at = Slots
      /\ \A l \in Running : l \in Slots /\ (Iteration(l) = i => l = k)
  <2>1. CommitKnows(k)
    BY AtCommit
  <2>2. QED
    BY <2>1, RoundFacts DEF KruskalInv, CommitKnows
<1>2. /\ R[E[i].v] # i /\ R[E[i].u] # i /\ UNCHANGED <<R, parents, inST, roots, G, E, driver, committed>>
      /\ at' = [at EXCEPT ![k] = "ready"]
  BY <1>1 DEF CommitFails, EndCommit
<1>3. /\ \A x : is_root(x)' <=> is_root(x)
      /\ \A S : Trees(S)' <=> Trees(S)
      /\ \A x, y : SameTree(x, y)' <=> SameTree(x, y)
      /\ \A j : Apart(j)' <=> Apart(j)
      /\ \A F, S : Uncut(F, S)' <=> Uncut(F, S)
      /\ phase' = "commit" /\ Running' = Running
      /\ \A l : Iteration(l)' = Iteration(l)
  BY <1>2, SameForest, SameGraph, SameSlots
<1>4. /\ \A l : EndsOf(l)' = EndsOf(l)
      /\ \A x : Level(x)' = Level(x)
      /\ \A l \in Running : Active(l)' <=> l # k /\ Active(l)
  BY <1>1, <1>2, <1>3 DEF EndsOf, Level, max_idx, Active
<1>5. ForestTypeOK' /\ EdgesInv'
  BY <1>1, <1>2, <1>3, SlotsStay DEF ForestTypeOK, EdgesInv, max_idx
<1>6. ReservedInv'
  BY <1>1, <1>2, <1>3, <1>4 DEF ReservedInv, max_idx
<1>7. HolderInv'
  <2>1. SUFFICES ASSUME NEW x \in Vertices, is_root(x), R[x] # max_idx
                 PROVE  \E l \in Running : l # k /\ Active(l) /\ R[x] = Iteration(l) /\ x \in EndsOf(l)
    BY <1>2, <1>3, <1>4 DEF HolderInv, max_idx
  <2>2. PICK l \in Running : Active(l) /\ R[x] = Iteration(l) /\ x \in EndsOf(l)
    BY <1>1, <2>1 DEF HolderInv
  <2>3. l # k
    BY <1>2, <2>2 DEF EndsOf
  <2>4. QED
    BY <2>2, <2>3
<1>8. OrderInv'
  <2>1. PICK rank \in [Vertices -> Int] : Ordered(rank)
    BY <1>1 DEF OrderInv
  <2>2. Ordered(rank)'
    BY <1>2, <1>3, <1>4, <2>1 DEF Ordered
  <2>3. QED
    BY <2>2 DEF OrderInv
<1>9. QED
  BY <1>5, <1>6, <1>7, <1>8 DEF KruskalInv

LEMMA CommitKeepsInv ==
    ASSUME ForestAssumption, KruskalInv, SpeculativeInv, NEW k \in Slots, KruskalCommit(k)
    PROVE  KruskalInv'
<1> DEFINE u == E[Iteration(k)].u
           v == E[Iteration(k)].v
<1>1. phase = "commit" /\ at[k] = "todo" /\ UNCHANGED <<G, E, roots>> /\ (TakeV(k) \/ TakeU(k) \/ CommitFails(k))
  BY DEF KruskalCommit
<1>2. I[k] = Iteration(k) /\ EndsOf(k) = {u, v}
  BY <1>1, AtCommit DEF CommitKnows, EndsOf
<1>3. CASE TakeV(k)
  <2>1. LinksTo(k, v, u)
    BY <1>1, <1>2, <1>3 DEF TakeV, LinksTo
  <2>2. QED
    BY <2>1, LinkKeepsInv
<1>4. CASE TakeU(k)
  <2>1. LinksTo(k, u, v)
    BY <1>1, <1>2, <1>4 DEF TakeU, LinksTo
  <2>2. QED
    BY <2>1, LinkKeepsInv
<1>5. CASE CommitFails(k)
  BY <1>1, <1>5, FailKeepsInv
<1>6. QED
  BY <1>1, <1>3, <1>4, <1>5

(* --------------------------- The driver -------------------------------- *)

(* Whoever holds a root has no earlier edge of the round at it, and those  *)
(* of earlier rounds are within a tree: the tree of the root is a cut that *)
(* no earlier edge crosses.                                                *)
LEMMA HoldersMayLink ==
    ASSUME ForestAssumption, KruskalInv, SpeculativeInv, phase = "reserve", AllReady,
           NEW k \in Running, Active(k), NEW x \in EndsOf(k), R[x] = Iteration(k)
    PROVE  Apart(Iteration(k))
<1> DEFINE i == Iteration(k)
           S == TreeOf(x)
<1>1. /\ InRound /\ ForestTypeOK /\ ReservedInv /\ EdgesInv
      /\ \A l \in Running : l \in Slots /\ Iteration(l) \in Iterations
      /\ \A l \in Running : committed[Iteration(l)] = IF at[l] # "ready" \/ keep[l] THEN 0 ELSE 1
  <2>1. InRound
    BY DEF InRound
  <2>2. QED
    BY <2>1, RoundFacts DEF KruskalInv
<1>2. i \in Iterations /\ i \in Nat /\ s <= i /\ i < max_idx
  BY <1>1, VerticesOf
<1>3. x \in Vertices /\ is_root(x) /\ E[i].u # E[i].v
  BY <1>1, <1>2, VerticesOf DEF ReservedInv, EndsOf
<1>4. S \in SUBSET Vertices /\ Trees(S) /\ Trees(Vertices \ S)
  BY <1>1, FoundTree DEF TreeOf
<1>5. \A l \in Running : Active(l) =>
         \A y \in EndsOf(l) : y \in Vertices /\ is_root(y) /\ (y \in S <=> y = x) /\ R[y] <= Iteration(l)
  <2>1. SUFFICES ASSUME NEW l \in Running, Active(l), NEW y \in EndsOf(l)
                 PROVE  y \in Vertices /\ is_root(y) /\ (y \in S <=> y = x) /\ R[y] <= Iteration(l)
    OBVIOUS
  <2>2. y \in Vertices
    BY <1>1, VerticesOf DEF EndsOf
  <2>3. is_root(y) /\ R[y] <= Iteration(l)
    BY <1>1, <2>1 DEF ReservedInv
  <2>4. find[y] = y
    BY <1>1, <2>2, <2>3, FindIs
  <2>5. QED
    BY <2>2, <2>3, <2>4 DEF TreeOf
<1>6. \A j \in Iterations : (G[j].u \in S <=> E[j].u \in S) /\ (G[j].v \in S <=> E[j].v \in S)
  BY <1>1, <1>4 DEF EdgesInv, SameTree
<1>7. ASSUME NEW j \in s..(i - 1) PROVE G[j].u \in S <=> G[j].v \in S
  <2>1. j \in Iterations /\ j < i /\ j \in Nat
    BY <1>2 DEF Iterations, max_idx
  <2>2. CASE committed[j] # 0
    BY <1>1, <1>4, <2>1, <2>2 DEF EdgesInv, SameTree
  <2>3. CASE committed[j] = 0
    <3>1. PICK l \in Running : Iteration(l) = j
      BY <1>1, <2>1, <2>3, EarlierDone
    <3>2. keep[l] /\ at[l] = "ready"
      BY <1>1, <2>3, <3>1 DEF AllReady
    <3>3. Active(l)
      BY <3>2 DEF Active
    <3>4. \A y \in EndsOf(l) : y # x
      <4>1. SUFFICES ASSUME x \in EndsOf(l) PROVE FALSE
        OBVIOUS
      <4>2. R[x] <= j /\ R[x] = i
        BY <1>5, <3>1, <3>3, <4>1
      <4>3. QED
        BY <1>2, <2>1, <4>2
    <3>5. E[j].u \in EndsOf(l) /\ E[j].v \in EndsOf(l)
      BY <3>1 DEF EndsOf
    <3>6. E[j].u \notin S /\ E[j].v \notin S
      BY <1>5, <3>3, <3>4, <3>5
    <3>7. QED
      BY <1>6, <2>1, <3>6
  <2>4. QED
    BY <2>2, <2>3
<1>8. E[i].u \in EndsOf(k) /\ E[i].v \in EndsOf(k) /\ (x = E[i].u \/ x = E[i].v)
  BY DEF EndsOf
<1>9. \A j \in Iterations : G[j].u \in Vertices /\ G[j].v \in Vertices
  BY <1>1, VerticesOf
<1> HIDE DEF S
<1>10. CASE x = E[i].u
  <2>1. G[i].u \in S /\ G[i].v \notin S
    BY <1>2, <1>3, <1>5, <1>6, <1>8, <1>10
  <2>2. QED
    BY <1>4, <1>7, <2>1 DEF Apart
<1>11. CASE x = E[i].v
  <2> DEFINE C == Vertices \ S
  <2>1. G[i].u \in C /\ G[i].v \notin C
    BY <1>2, <1>3, <1>5, <1>6, <1>8, <1>9, <1>11
  <2>2. \A j \in s..(i - 1) : G[j].u \in C <=> G[j].v \in C
    <3>1. \A j \in s..(i - 1) : j \in Iterations
      BY <1>2 DEF Iterations, max_idx
    <3>2. QED
      BY <1>7, <1>9, <3>1
  <2>3. C \in SUBSET Vertices
    OBVIOUS
  <2> HIDE DEF C
  <2>4. QED
    BY <2>1, <2>2, <2>3 DEF Apart
<1>12. QED
  BY <1>8, <1>10, <1>11

NoneActive == \A k \in Running : ~Active(k)

(* Iterations that have reserved go on to commit; at all other steps of    *)
(* the driver no slot holds anything, before or after.                     *)
LEMMA DriverSlots ==
    ASSUME SpeculativeInv, DriverNext, UNCHANGED forest
    PROVE  /\ EndOfReserves =>
                /\ phase = "reserve" /\ phase' = "commit" /\ Running' = Running
                /\ \A k : Iteration(k)' = Iteration(k) /\ EndsOf(k)' = EndsOf(k)
                /\ \A k \in Running : k \in Slots /\ Iteration(k) \in Iterations
                /\ \A k \in Running : Active(k)' <=> Active(k)
           /\ ~EndOfReserves =>
                /\ phase # "reserve" /\ phase' # "commit"
                /\ NoneActive /\ NoneActive'
<1>1. CASE EndOfReserves
  <2>1. /\ phase = "reserve" /\ phase' = "commit" /\ AllReady
        /\ at' = [k \in Slots |-> IF k \in Running /\ keep[k] THEN "todo" ELSE "ready"]
        /\ UNCHANGED <<size, numberKeep, Ihold, numberDone, E>>
    BY <1>1 DEF EndOfReserves, forest
  <2>2. Running' = Running /\ \A k : Iteration(k)' = Iteration(k) /\ EndsOf(k)' = EndsOf(k)
    BY <2>1 DEF Running, Iteration, EndsOf
  <2>3. InRound /\ \A k \in Running : k \in Slots /\ Iteration(k) \in Iterations
    <3>1. InRound
      BY <2>1 DEF InRound
    <3>2. QED
      BY <3>1, RoundFacts
  <2>4. \A k \in Running : Active(k)' <=> Active(k)
    BY <2>1, <2>3 DEF Active, AllReady
  <2>5. QED
    BY <1>1, <2>1, <2>2, <2>3, <2>4
<1>2. CASE ~EndOfReserves
  <2>1. /\ phase # "reserve" /\ phase' # "commit"
        /\ phase = "commit" => AllReady
        /\ phase' = "reserve" => at' = [k \in Slots |-> IF k < size' THEN "todo" ELSE "ready"]
    BY <1>2 DEF DriverNext, Finish, GiveUp, StartRound, EndRound
  <2>2. \A k \in Running : ~Active(k)
    BY <2>1 DEF Active, AllReady
  <2>3. \A k \in Running' : ~Active(k)'
    <3>1. SUFFICES ASSUME phase' = "reserve", NEW k \in Running' PROVE at'[k] # "ready"
      BY <2>1 DEF Active
    <3>2. TypeOK'
      <4>1. SpeculativeInv'
        BY DriverStep
      <4>2. QED
        BY <4>1 DEF SpeculativeInv
    <3>3. size' \in 0..maxRoundSize /\ maxRoundSize \in Nat /\ k \in 0..(size' - 1)
      <4>1. size' \in 0..maxRoundSize
        BY <3>2 DEF TypeOK, maxRoundSize
      <4>2. QED
        BY <4>1, Sizes DEF Running
    <3> DEFINE n == size'
               z == maxRoundSize
    <3>4. n \in 0..z /\ z \in Nat /\ k \in 0..(n - 1)
      BY <3>3
    <3> HIDE DEF n, z
    <3>5. k < n /\ k \in 0..(z - 1)
      BY <3>4
    <3>6. k < size' /\ k \in Slots
      BY <3>5 DEF n, z, Slots
    <3>7. QED
      BY <2>1, <3>1, <3>6
  <2>4. QED
    BY <1>2, <2>1, <2>2, <2>3 DEF NoneActive
<1>3. QED
  BY <1>1, <1>2

LEMMA DriverKeepsInv ==
    ASSUME ForestAssumption, KruskalInv, SpeculativeInv, DriverNext, UNCHANGED forest
    PROVE  KruskalInv'
<1>1. /\ UNCHANGED forest /\ UNCHANGED <<G, E, R, parents, inST, roots>> /\ committed' = committed /\ keep' = keep
      /\ ForestTypeOK /\ OrderInv /\ ReservedInv /\ HolderInv /\ EdgesInv
  BY DEF DriverNext, Finish, GiveUp, StartRound, EndOfReserves, EndRound, slots, forest, KruskalInv
<1>2. /\ \A x : is_root(x)' <=> is_root(x)
      /\ \A S : Trees(S)' <=> Trees(S)
      /\ \A x, y : SameTree(x, y)' <=> SameTree(x, y)
      /\ \A j : Apart(j)' <=> Apart(j)
      /\ \A F, S : Uncut(F, S)' <=> Uncut(F, S)
      /\ \A x : Level(x)' = Level(x)
  BY <1>1, SameForest, SameGraph DEF Level, max_idx
<1>3. ForestTypeOK' /\ EdgesInv'
  BY <1>1, <1>2, SlotsStay DEF ForestTypeOK, EdgesInv, max_idx
<1>4. PICK rank \in [Vertices -> Int] : Ordered(rank)
  BY <1>1 DEF OrderInv
<1>5. CASE EndOfReserves
  <2>1. phase = "reserve" /\ phase' = "commit" /\ AllReady
    BY <1>5, DriverSlots DEF EndOfReserves
  <2>2. Running' = Running /\ \A k : Iteration(k)' = Iteration(k) /\ EndsOf(k)' = EndsOf(k)
    BY <1>5, DriverSlots
  <2>3. \A k \in Running : k \in Slots /\ Iteration(k) \in Iterations
    BY <1>5, DriverSlots
  <2>4. \A k \in Running : Active(k)' <=> Active(k)
    BY <1>5, DriverSlots
  <2>5. HolderInv'
    BY <1>1, <1>2, <2>2, <2>4 DEF HolderInv, max_idx
  <2>6. ReservedInv'
    <3>1. \A k \in Running : Active(k) => \A x \in EndsOf(k) : R[x] = Iteration(k) => Apart(Iteration(k))
      BY <2>1, HoldersMayLink
    <3>2. QED
      BY <1>1, <1>2, <2>1, <2>2, <2>4, <3>1 DEF ReservedInv
  <2>7. OrderInv'
    <3>1. \A k \in Running : Active(k) => \A x \in EndsOf(k) : rank[x] > 0
      <4>1. SUFFICES ASSUME NEW k \in Running, Active(k), NEW x \in EndsOf(k) PROVE rank[x] > 0
        OBVIOUS
      <4>2. x \in Vertices /\ is_root(x)
        BY <1>1, <2>1, <2>3, <4>1, VerticesOf DEF ReservedInv, EndsOf
      <4>3. rank[x] = Level(x) /\ Level(x) \in 1..(max_idx + 1) /\ max_idx \in Nat
        BY <1>1, <1>4, <4>2, LevelOf DEF Ordered
      <4>4. QED
        BY <4>3
    <3>2. Ordered(rank)'
      BY <1>1, <1>2, <1>4, <2>1, <2>2, <2>4, <3>1 DEF Ordered
    <3>3. QED
      BY <3>2 DEF OrderInv
  <2>8. QED
    BY <1>3, <2>5, <2>6, <2>7 DEF KruskalInv
<1>6. CASE ~EndOfReserves
  <2>1. phase' # "commit"
    BY <1>6, DriverSlots
  <2>2. NoneActive
    BY <1>6, DriverSlots
  <2>3. \A x \in Vertices : is_root(x) => R[x] = max_idx
    BY <1>1, <2>2 DEF HolderInv, NoneActive
  <2>4. NoneActive'
    BY <1>6, DriverSlots
  <2>5. ReservedInv'
    BY <2>4 DEF ReservedInv, NoneActive
  <2>6. HolderInv'
    BY <1>1, <1>2, <2>3 DEF HolderInv, max_idx
  <2>7. OrderInv'
    <3> DEFINE f == [x \in Vertices |-> IF is_root(x) THEN rank[x] ELSE rank[x] - (max_idx + 1)]
    <3>1. max_idx \in Nat
      BY DEF max_idx
    <3>2. f \in [Vertices -> Int]
      BY <3>1
    <3>3. ASSUME NEW x \in Vertices
          PROVE  /\ is_root(x) => f[x] = Level(x)
                 /\ ~is_root(x) => f[x] < f[parents[x]] /\ f[x] <= 0
      <4>1. is_root(x) => f[x] = Level(x)
        BY <1>4 DEF Ordered
      <4>2. ASSUME ~is_root(x) PROVE f[x] < f[parents[x]] /\ f[x] <= 0
        <5>1. /\ parents[x] \in Vertices /\ rank[x] < rank[parents[x]]
              /\ rank[x] <= 0 \/ rank[x] = Level(x)
              /\ f[x] = rank[x] - (max_idx + 1)
          BY <1>1, <1>4, <4>2 DEF Ordered, ForestTypeOK, is_root, NoParent
        <5>2. Level(x) \in 1..(max_idx + 1)
          BY <1>1, LevelOf
        <5>3. rank[x] \in Int /\ rank[parents[x]] \in Int
          BY <5>1
        <5>4. f[x] <= 0
          BY <3>1, <5>1, <5>2, <5>3
        <5>5. f[parents[x]] = rank[parents[x]] \/ f[parents[x]] = rank[parents[x]] - (max_idx + 1)
          BY <5>1
        <5>6. f[x] < f[parents[x]]
          <6> DEFINE a == f[x]
                     b == f[parents[x]]
          <6>1. a = rank[x] - (max_idx + 1) /\ (b = rank[parents[x]] \/ b = rank[parents[x]] - (max_idx + 1))
            BY <5>1, <5>5
          <6> HIDE DEF a, b, f
          <6>2. a < b
            BY <3>1, <5>1, <5>3, <6>1
          <6>3. QED
            BY <6>2 DEF a, b
        <5>7. QED
          BY <5>4, <5>6
      <4>3. QED
        BY <4>1, <4>2
    <3>4. PICK g \in [Vertices -> Int] : g = f
      BY <3>2
    <3> HIDE DEF f
    <3>5. Ordered(g)'
      BY <1>1, <1>2, <2>1, <3>3, <3>4 DEF Ordered
    <3>6. QED
      BY <3>5 DEF OrderInv
  <2>8. QED
    BY <1>3, <2>5, <2>6, <2>7 DEF KruskalInv
<1>7. QED
  BY <1>5, <1>6

(* ------------------------- The invariant ------------------------------- *)

LEMMA KruskalStart ==
    ASSUME ForestAssumption, KruskalInit PROVE KruskalInv /\ SpeculativeInv
<1>1. /\ Init /\ G \in [Iterations -> [u : Vertices, v : Vertices]] /\ E = G
      /\ R = [x \in Vertices |-> max_idx] /\ parents = [x \in Vertices |-> NoParent] /\ inST = {}
      /\ DOMAIN roots = Slots
  BY DEF KruskalInit, ForestInit, Free, ForestAssumption
<1>2. SpeculativeInv
  BY <1>1, SpeculativeInit
<1>3. phase = "start" /\ committed = [i \in Iterations |-> 0]
  BY <1>1 DEF Init
<1>4. max_idx \in s..max_idx /\ max_idx \in Nat
  BY DEF max_idx
<1>5. ForestTypeOK
  BY <1>1, <1>4 DEF ForestTypeOK
<1>6. \A x \in Vertices : is_root(x) /\ R[x] = max_idx /\ Level(x) = max_idx + 1
  BY <1>1 DEF is_root, NoParent, Level
<1>7. OrderInv
  <2> DEFINE f == [x \in Vertices |-> max_idx + 1]
  <2>1. f \in [Vertices -> Int]
    BY <1>4
  <2>2. Ordered(f)
    BY <1>3, <1>6 DEF Ordered
  <2>3. QED
    BY <2>1, <2>2 DEF OrderInv
<1>8. ReservedInv /\ HolderInv
  BY <1>3, <1>6 DEF ReservedInv, HolderInv, Active
<1>9. EdgesInv
  BY <1>1, <1>3, <1>6 DEF EdgesInv, SameTree, Trees
<1>10. QED
  BY <1>2, <1>5, <1>7, <1>8, <1>9 DEF KruskalInv

LEMMA KruskalStutters ==
    ASSUME KruskalInv, UNCHANGED forestVars
    PROVE  KruskalInv'
<1>1. UNCHANGED <<driver, I, keep, at, committed, G, E, R, parents, inST, roots>>
  BY DEF forestVars, specVars, slots, forest
<1>2. /\ \A x : is_root(x)' <=> is_root(x)
      /\ \A S : Trees(S)' <=> Trees(S)
      /\ \A x, y : SameTree(x, y)' <=> SameTree(x, y)
      /\ \A j : Apart(j)' <=> Apart(j)
      /\ \A F, S : Uncut(F, S)' <=> Uncut(F, S)
      /\ phase' = phase /\ Running' = Running
      /\ \A l : Iteration(l)' = Iteration(l)
  BY <1>1, SameForest, SameGraph, SameSlots
<1>3. /\ \A x : Level(x)' = Level(x)
      /\ \A l : EndsOf(l)' = EndsOf(l) /\ (Active(l)' <=> Active(l))
  BY <1>1, <1>2 DEF Level, EndsOf, Active, max_idx
<1>4. ForestTypeOK' /\ EdgesInv'
  BY <1>1, <1>2, SlotsStay DEF KruskalInv, ForestTypeOK, EdgesInv, max_idx
<1>5. ReservedInv' /\ HolderInv'
  BY <1>1, <1>2, <1>3 DEF KruskalInv, ReservedInv, HolderInv, max_idx
<1>6. \A rank : Ordered(rank) => Ordered(rank)'
  BY <1>1, <1>2, <1>3 DEF Ordered
<1>7. OrderInv'
  BY <1>6 DEF KruskalInv, OrderInv
<1>8. QED
  BY <1>4, <1>5, <1>7 DEF KruskalInv

LEMMA KruskalStep ==
    ASSUME ForestAssumption, KruskalInv, SpeculativeInv, [KruskalNext]_forestVars
    PROVE  KruskalInv' /\ SpeculativeInv'
<1>1. CASE UNCHANGED forestVars
  BY <1>1, KruskalStutters, StoppedStep DEF forestVars
<1>2. CASE DriverNext /\ UNCHANGED forest
  BY <1>2, DriverKeepsInv, DriverStep
<1>3. CASE Stopped /\ UNCHANGED forest
  <2>1. UNCHANGED forestVars
    BY <1>3 DEF Stopped, forestVars
  <2>2. QED
    BY <1>1, <2>1
<1>4. ASSUME NEW k \in Slots, KruskalReserve(k) PROVE KruskalInv' /\ SpeculativeInv'
  <2>1. phase = "reserve" /\ at[k] # "ready" /\ \E b \in BOOLEAN : EndReserve(k, b)
    BY <1>4 DEF KruskalReserve
  <2>2. SpeculativeInv'
    BY <2>1, ReserveEnds
  <2>3. QED
    BY <1>4, <2>2, ReserveKeepsInv
<1>5. ASSUME NEW k \in Slots, KruskalCommit(k) PROVE KruskalInv' /\ SpeculativeInv'
  <2>1. phase = "commit" /\ at[k] # "ready" /\ \E b \in BOOLEAN : EndCommit(k, b)
    BY <1>5 DEF KruskalCommit, TakeV, TakeU, CommitFails
  <2>2. SpeculativeInv'
    BY <2>1, CommitEnds
  <2>3. QED
    BY <1>5, <2>2, CommitKeepsInv
<1>6. QED
  BY <1>1, <1>2, <1>3, <1>4, <1>5 DEF KruskalNext

(* ------------------------- The first edge ------------------------------ *)

(* The first edge of a round gets the roots of both its ends: nobody wrote *)
(* a smaller number there.                                                 *)
LEMMA KruskalFirstReserved ==
    ASSUME KruskalInv, SpeculativeInv, phase = "reserve", 0 \in Running, Active(0), NEW x \in EndsOf(0)
    PROVE  R[x] = Iteration(0)
<1>1. InRound /\ ForestTypeOK /\ ReservedInv /\ HolderInv
  BY DEF InRound, KruskalInv
<1>2. Iteration(0) \in Iterations
  BY <1>1, FirstIsSmallest
<1>3. x \in Vertices /\ Iteration(0) \in Nat /\ Iteration(0) < max_idx /\ max_idx \in Nat
  BY <1>1, <1>2, VerticesOf DEF EndsOf, max_idx
<1>4. R[x] <= Iteration(0) /\ is_root(x)
  BY <1>1 DEF ReservedInv
<1>5. R[x] \in Nat /\ R[x] # max_idx
  BY <1>1, <1>3, <1>4, LevelOf
<1>6. PICK l \in Running : R[x] = Iteration(l)
  BY <1>1, <1>3, <1>4, <1>5 DEF HolderInv
<1>7. Iteration(0) <= R[x]
  BY <1>1, <1>6, FirstIsSmallest
<1>8. QED
  BY <1>3, <1>4, <1>5, <1>7

LEMMA KruskalFirstCommits ==
    ASSUME KruskalInv, SpeculativeInv, FirstHasRoots, NEW k \in Slots, KruskalCommit(k)
    PROVE  FirstHasRoots'
<1>1. /\ phase = "commit" /\ at[k] = "todo" /\ UNCHANGED <<G, E, roots>>
      /\ TakeV(k) \/ TakeU(k) \/ CommitFails(k)
  BY DEF KruskalCommit
<1>2. /\ InRound /\ k \in Running /\ Active(k) /\ I[k] = Iteration(k) /\ Iteration(k) \in Iterations
      /\ E[I[k]].u \in EndsOf(k) /\ E[I[k]].v \in EndsOf(k)
  BY <1>1, AtCommit DEF CommitKnows, EndsOf
<1>3. PICK b \in BOOLEAN : EndCommit(k, b) /\ (k = 0 => b)
  <2>1. k = 0 => R[E[I[k]].v] = I[k]
    BY <1>1, <1>2 DEF FirstHasRoots
  <2>2. CASE TakeV(k)
    BY <2>2 DEF TakeV
  <2>3. CASE TakeU(k)
    BY <2>3 DEF TakeU
  <2>4. CASE CommitFails(k)
    BY <2>1, <2>4 DEF CommitFails
  <2>5. QED
    BY <1>1, <2>2, <2>3, <2>4
<1>4. FirstDone'
  BY <1>3, CommitKeepsFirst DEF FirstHasRoots
<1>5. UNCHANGED driver /\ at' = [at EXCEPT ![k] = "ready"]
  BY <1>3 DEF EndCommit
<1>6. /\ phase' = phase /\ Running' = Running /\ \A l : Iteration(l)' = Iteration(l)
  BY <1>5, SameSlots
<1>7. SUFFICES ASSUME 0 \in Running, Active(0)', NEW x \in EndsOf(0) PROVE R'[x] = Iteration(0)
  BY <1>1, <1>4, <1>6 DEF FirstHasRoots, EndsOf
<1>8. k # 0 /\ Active(0)
  <2>1. 0 \in Slots /\ DOMAIN at = Slots
    BY <1>2, <1>7, RoundFacts
  <2>2. at'[0] = "todo"
    BY <1>1, <1>6, <1>7 DEF Active
  <2>3. QED
    BY <1>1, <1>5, <2>1, <2>2 DEF Active
<1>9. R[x] = Iteration(0) /\ Iteration(k) # Iteration(0)
  BY <1>1, <1>2, <1>7, <1>8, FirstIsSmallest DEF FirstHasRoots
<1>10. x \in Vertices /\ R \in [Vertices -> s..max_idx]
  BY <1>2, <1>7, FirstIsSmallest, VerticesOf DEF EndsOf, KruskalInv, ForestTypeOK
<1>11. R' = R \/ \E y \in Vertices : R[y] = Iteration(k) /\ R' = Reset(R, y)
  <2>1. E[I[k]].u \in Vertices
    BY <1>2, VerticesOf DEF KruskalInv
  <2>2. QED
    BY <1>1, <1>2, <2>1 DEF TakeV, TakeU, CommitFails
<1>12. QED
  BY <1>9, <1>10, <1>11 DEF Reset

LEMMA KruskalFirstStep ==
    ASSUME KruskalInv, SpeculativeInv, FirstHasRoots, [KruskalNext]_forestVars
    PROVE  FirstHasRoots'
<1>1. CASE UNCHANGED forestVars
  <2>1. UNCHANGED <<driver, E, R, at, keep>>
    BY <1>1 DEF forestVars, specVars, slots, forest
  <2>2. /\ phase' = phase /\ Running' = Running /\ \A l : Iteration(l)' = Iteration(l)
    BY <2>1, SameSlots
  <2>3. EndsOf(0)' = EndsOf(0) /\ (Active(0)' <=> Active(0)) /\ FirstDone'
    BY <2>1, <2>2 DEF EndsOf, Active, FirstDone, FirstHasRoots
  <2>4. QED
    BY <2>1, <2>2, <2>3 DEF FirstHasRoots
<1>2. CASE DriverNext /\ UNCHANGED forest
  <2>1. FirstDone'
    BY <1>2, DriverKeepsFirst
  <2>2. CASE EndOfReserves
    <3>1. /\ phase = "reserve" /\ Running' = Running /\ R' = R
          /\ Iteration(0)' = Iteration(0) /\ EndsOf(0)' = EndsOf(0)
          /\ \A k \in Running : Active(k)' <=> Active(k)
      BY <1>2, <2>2, DriverSlots DEF forest
    <3>2. QED
      BY <2>1, <3>1, KruskalFirstReserved DEF FirstHasRoots
  <2>3. CASE ~EndOfReserves
    <3>1. phase' # "commit"
      BY <1>2, <2>3, DriverSlots
    <3>2. QED
      BY <2>1, <3>1 DEF FirstHasRoots
  <2>4. QED
    BY <2>2, <2>3
<1>3. CASE Stopped /\ UNCHANGED forest
  <2>1. UNCHANGED forestVars
    BY <1>3 DEF Stopped, forestVars
  <2>2. QED
    BY <1>1, <2>1
<1>4. ASSUME NEW k \in Slots, KruskalReserve(k) PROVE FirstHasRoots'
  <2>1. phase = "reserve" /\ UNCHANGED driver
    BY <1>4 DEF KruskalReserve, EndReserve
  <2>2. FirstDone' /\ phase' = "reserve"
    BY <2>1, ReserveKeepsFirst DEF driver
  <2>3. QED
    BY <2>2 DEF FirstHasRoots
<1>5. ASSUME NEW k \in Slots, KruskalCommit(k) PROVE FirstHasRoots'
  BY <1>5, KruskalFirstCommits
<1>6. QED
  BY <1>1, <1>2, <1>3, <1>4, <1>5 DEF KruskalNext

(* The inductive invariant: the vertices have ranks that grow along links, *)
(* roots are held by slots that are going to use them, and trees, edges    *)
(* taken and edges completed belong together.                              *)
THEOREM KruskalInvariance ==
    ASSUME ForestAssumption PROVE KruskalSpec => [](KruskalInv /\ SpeculativeInv)
<1>1. KruskalInit => KruskalInv /\ SpeculativeInv
  BY KruskalStart
<1>2. KruskalInv /\ SpeculativeInv /\ [KruskalNext]_forestVars => KruskalInv' /\ SpeculativeInv'
  BY KruskalStep
<1>3. QED
  BY <1>1, <1>2, PTL DEF KruskalSpec

LEMMA RanksForbidCycles ==
    ASSUME KruskalInv PROVE Acyclic
<1>1. SUFFICES ASSUME KruskalInv, NEW S \in (SUBSET Vertices) \ {{}},
                      \A x \in S : ~is_root(x) /\ parents[x] \in S
               PROVE  FALSE
  BY DEF Acyclic
<1>2. PICK rank \in [Vertices -> Int] : Ordered(rank)
  BY <1>1 DEF KruskalInv, OrderInv
<1> DEFINE h(x) == max_idx + 1 - rank[x]
           H == {h(x) : x \in S}
<1>3. \A x \in S : h(x) \in Nat
  <2>1. SUFFICES ASSUME NEW x \in S PROVE h(x) \in Nat
    OBVIOUS
  <2>2. Level(x) \in 1..(max_idx + 1) /\ max_idx \in Nat /\ (rank[x] <= 0 \/ rank[x] = Level(x))
    BY <1>1, <1>2, LevelOf DEF KruskalInv, Ordered
  <2>3. rank[x] \in Int
    OBVIOUS
  <2>4. QED
    BY <2>2, <2>3
<1>4. PICK o \in H : \A p \in H : ~(p < o)
  <2>1. H \subseteq Nat /\ H # {}
    BY <1>3
  <2> HIDE DEF H
  <2>2. QED
    BY <2>1, SmallestNat
<1>5. PICK x \in S : o = h(x)
  OBVIOUS
<1>6. parents[x] \in S /\ rank[x] < rank[parents[x]]
  BY <1>1, <1>2 DEF Ordered
<1>7. h(parents[x]) \in H /\ h(parents[x]) < h(x)
  <2>1. rank[x] \in Int /\ rank[parents[x]] \in Int /\ max_idx \in Nat
    BY <1>6 DEF max_idx
  <2>2. QED
    BY <1>6, <2>1
<1>8. QED
  BY <1>4, <1>5, <1>7

(* The links of one round never close a cycle, so find always returns: a   *)
(* vertex of greatest rank in a set cannot have its parent there too.      *)
THEOREM ForestIsAcyclic ==
    ASSUME ForestAssumption PROVE KruskalSpec => []Acyclic
BY RanksForbidCycles, KruskalInvariance, PTL

LEMMA RootsRest ==
    ASSUME KruskalInv PROVE RootsAreFree
BY DEF KruskalInv, HolderInv, RootsAreFree, Active

(* Between rounds no root is reserved.                                     *)
THEOREM RootsAreFreeCorrect ==
    ASSUME ForestAssumption PROVE KruskalSpec => []RootsAreFree
BY RootsRest, KruskalInvariance, PTL

LEMMA TakenSerially ==
    ASSUME KruskalInv, SpeculativeInv PROVE KruskalIsSerial
<1>1. ASSUME phase = "end", NEW i \in Iterations PROVE committed[i] # 0
  BY <1>1, EachIsOnce DEF EachOnce
<1>2. QED
  BY <1>1 DEF KruskalInv, EdgesInv, KruskalIsSerial

(* Only edges of the serial loop's forest are ever taken, and in the end   *)
(* all of them are, for every graph, granularity and interleaving.         *)
THEOREM ForestIsSerial ==
    ASSUME ForestAssumption PROVE KruskalSpec => []KruskalIsSerial
BY TakenSerially, KruskalInvariance, PTL

-----------------------------------------------------------------------------
(* The spanning forest.                                                    *)

LEMMA SmallerRoot ==
    ASSUME ForestAssumption, STInv, NEW x \in Vertices
    PROVE  find[x] \in Vertices /\ is_root(find[x]) /\ SameTree(x, find[x]) /\ find[x] <= x
<1> DEFINE h == [y \in Vertices |-> y]
<1>1. h \in [Vertices -> Nat] /\ \A y \in Vertices : h[y] = y
  BY DEF ForestAssumption
<1>2. ForestTypeOK
  BY DEF STInv
<1>3. ASSUME NEW y \in Vertices, ~is_root(y) PROVE h[parents[y]] < h[y]
  <2>1. parents[y] \in Vertices
    BY <1>2, <1>3 DEF ForestTypeOK, is_root, NoParent
  <2>2. parents[y] < y
    BY <1>3 DEF STInv, LinksInv
  <2>3. QED
    BY <1>1, <2>1, <2>2
<1> HIDE DEF h
<1>4. find[x] \in Vertices /\ is_root(find[x]) /\ SameTree(x, find[x]) /\ h[find[x]] <= h[x]
  BY <1>1, <1>2, <1>3, FindEnds
<1>5. QED
  BY <1>1, <1>4

LEMMA RootsOfEdge ==
    ASSUME ForestAssumption, STInv, NEW i \in Iterations, NEW r, r = RootsOf(i)
    PROVE  /\ r.u \in Vertices /\ r.v \in Vertices /\ is_root(r.u) /\ is_root(r.v)
           /\ r.u # r.v => r.u < r.v
           /\ \A S \in SUBSET Vertices : Trees(S) =>
                ((r.u \in S <=> r.v \in S) <=> Uncut({i}, S))
<1> DEFINE a == find[E[i].u]
           b == find[E[i].v]
<1>1. r.u = MinOf(a, b) /\ r.v = MaxOf(a, b)
  BY DEF RootsOf
<1>2. E[i].u \in Vertices /\ E[i].v \in Vertices /\ E = G /\ Vertices \subseteq Nat
  BY VerticesOf DEF STInv, ForestAssumption
<1>3. /\ a \in Vertices /\ is_root(a) /\ SameTree(E[i].u, a)
      /\ b \in Vertices /\ is_root(b) /\ SameTree(E[i].v, b)
  BY <1>2, SmallerRoot
<1> HIDE DEF a, b
<1>4. a \in Nat /\ b \in Nat
  BY <1>2, <1>3
<1>5. (r.u = a /\ r.v = b) \/ (r.u = b /\ r.v = a)
  BY <1>1, <1>4 DEF MinOf, MaxOf
<1>6. r.u # r.v => r.u < r.v
  <2>1. MinOf(a, b) <= MaxOf(a, b) /\ MinOf(a, b) \in Nat /\ MaxOf(a, b) \in Nat
    BY <1>4 DEF MinOf, MaxOf
  <2> DEFINE p == MinOf(a, b)
             q == MaxOf(a, b)
  <2>2. p \in Nat /\ q \in Nat /\ p <= q /\ r.u = p /\ r.v = q
    BY <1>1, <2>1
  <2> HIDE DEF p, q
  <2>3. p # q => p < q
    BY <2>2
  <2>4. QED
    BY <2>2, <2>3
<1>7. ASSUME NEW S \in SUBSET Vertices, Trees(S)
      PROVE  (r.u \in S <=> r.v \in S) <=> Uncut({i}, S)
  <2>1. (E[i].u \in S <=> a \in S) /\ (E[i].v \in S <=> b \in S)
    BY <1>3, <1>7 DEF SameTree
  <2>2. Uncut({i}, S) <=> (E[i].u \in S <=> E[i].v \in S)
    BY <1>2 DEF Uncut
  <2>3. QED
    BY <1>5, <2>1, <2>2
<1>8. QED
  BY <1>3, <1>5, <1>6, <1>7

LEMMA STReserveKeepsInv ==
    ASSUME ForestAssumption, STInv, SpeculativeInv, NEW k \in Slots, STReserve(k)
    PROVE  STInv'
<1>1. PICK i : i = Iteration(k)
  OBVIOUS
<1>2. PICK r : r = RootsOf(i)
  OBVIOUS
<1>3. /\ phase = "reserve" /\ at[k] = "todo" /\ roots' = [roots EXCEPT ![k] = r]
      /\ R' = IF r.u # r.v THEN Reserved(R, r.v, i) ELSE R
      /\ EndReserve(k, r.u # r.v) /\ UNCHANGED <<G, E, parents, inST>>
  BY <1>1, <1>2 DEF STReserve
<1>4. /\ UNCHANGED driver /\ keep' = [keep EXCEPT ![k] = (r.u # r.v)] /\ at' = [at EXCEPT ![k] = "ready"]
      /\ committed' = IF r.u # r.v THEN committed ELSE [committed EXCEPT ![i] = @ + 1]
  BY <1>1, <1>3 DEF EndReserve
<1>5. InRound /\ k \in Running /\ i \in Iterations /\ committed[i] = 0
  <2>1. InRound /\ at[k] # "ready"
    BY <1>3 DEF InRound
  <2>2. QED
    BY <1>1, <2>1, SlotFacts
<1>6. /\ ForestTypeOK /\ E = G /\ LargerInv /\ LargerHolderInv /\ LinksInv
      /\ keep \in [Slots -> BOOLEAN] /\ DOMAIN at = Slots /\ committed \in [Iterations -> Nat]
      /\ \A l \in Running : l \in Slots /\ Iteration(l) \in Iterations /\ (Iteration(l) = i => l = k)
  BY <1>1, <1>5, RoundFacts DEF STInv
<1>7. /\ r.u \in Vertices /\ r.v \in Vertices /\ is_root(r.u) /\ is_root(r.v)
      /\ r.u # r.v => r.u < r.v
      /\ \A S \in SUBSET Vertices : Trees(S) =>
           ((r.u \in S <=> r.v \in S) <=> Uncut({i}, S))
  BY <1>2, <1>5, RootsOfEdge
<1>8. i \in Nat /\ s <= i /\ i < max_idx
  BY <1>5, <1>6, VerticesOf
<1>9. \A x \in Vertices : /\ R'[x] \in s..max_idx /\ R'[x] <= R[x] /\ (r.u # r.v /\ x = r.v => R'[x] <= i)
                          /\ (R'[x] # R[x] => r.u # r.v /\ x = r.v /\ R'[x] = i)
  <2>1. SUFFICES ASSUME NEW x \in Vertices
                 PROVE  /\ R'[x] \in s..max_idx /\ R'[x] <= R[x] /\ (r.u # r.v /\ x = r.v => R'[x] <= i)
                        /\ (R'[x] # R[x] => r.u # r.v /\ x = r.v /\ R'[x] = i)
    OBVIOUS
  <2>2. R[x] \in s..max_idx /\ s \in Nat /\ max_idx \in Nat
    BY <1>6 DEF ForestTypeOK, max_idx
  <2>3. R'[x] = IF r.u # r.v /\ x = r.v THEN MinOf(R[x], i) ELSE R[x]
    BY <1>3, <1>6, <1>7 DEF Reserved, ForestTypeOK
  <2>4. MinOf(R[x], i) \in s..max_idx /\ MinOf(R[x], i) <= R[x] /\ MinOf(R[x], i) <= i
        /\ MinOf(R[x], i) \in {R[x], i}
    BY <1>8, <2>2 DEF MinOf
  <2>5. QED
    BY <2>2, <2>3, <2>4
<1>10. ForestTypeOK'
  <2>1. R' \in [Vertices -> s..max_idx]
    <3>1. R' = [x \in Vertices |-> R'[x]]
      BY <1>3, <1>6 DEF Reserved, ForestTypeOK
    <3>2. QED
      BY <1>9, <3>1
  <2>2. QED
    BY <1>3, <1>6, <2>1, SlotsStay DEF ForestTypeOK, max_idx
<1>11. /\ \A x : is_root(x)' <=> is_root(x)
       /\ \A S : Trees(S)' <=> Trees(S)
       /\ \A x, y : SameTree(x, y)' <=> SameTree(x, y)
       /\ \A F, S : Uncut(F, S)' <=> Uncut(F, S)
       /\ phase' = "reserve" /\ Running' = Running
       /\ \A l : Iteration(l)' = Iteration(l)
  BY <1>3, <1>4, SameForest, SameGraph, SameSlots
<1>12. /\ (Active(k)' <=> r.u # r.v) /\ roots'[k] = r
       /\ \A l \in Running : l # k => (Active(l)' <=> Active(l)) /\ roots'[l] = roots[l]
  BY <1>3, <1>4, <1>6, <1>11 DEF Active, ForestTypeOK
<1>13. LargerInv'
  <2>1. SUFFICES ASSUME NEW l \in Running, Active(l)'
                 PROVE  /\ roots'[l].u \in Vertices /\ roots'[l].v \in Vertices /\ roots'[l].u < roots'[l].v
                        /\ \A S \in SUBSET Vertices : Trees(S) =>
                             ((roots'[l].u \in S <=> roots'[l].v \in S) <=> Uncut({Iteration(l)}, S))
                        /\ R'[roots'[l].v] <= Iteration(l) /\ is_root(roots'[l].v)
    BY <1>11 DEF LargerInv
  <2>2. CASE l = k
    BY <1>1, <1>7, <1>9, <1>12, <2>1, <2>2
  <2>3. CASE l # k
    <3>1. Active(l) /\ roots'[l] = roots[l]
      BY <1>12, <2>1, <2>3
    <3>2. /\ roots[l].u \in Vertices /\ roots[l].v \in Vertices /\ roots[l].u < roots[l].v
          /\ \A S \in SUBSET Vertices : Trees(S) =>
               ((roots[l].u \in S <=> roots[l].v \in S) <=> Uncut({Iteration(l)}, S))
          /\ R[roots[l].v] <= Iteration(l) /\ is_root(roots[l].v)
      BY <1>3, <1>6, <3>1 DEF LargerInv
    <3>3. R'[roots[l].v] <= Iteration(l)
      <4> DEFINE x == roots[l].v
      <4>1. x \in Vertices /\ R'[x] <= R[x] /\ R[x] <= Iteration(l) /\ R'[x] \in s..max_idx
        BY <1>9, <3>2
      <4>2. R[x] \in Nat /\ Iteration(l) \in Nat
        BY <1>6, <4>1, LevelOf, VerticesOf
      <4> HIDE DEF x
      <4>3. s \in Nat /\ max_idx \in Nat
        BY DEF max_idx
      <4>4. R'[x] <= Iteration(l)
        BY <4>1, <4>2, <4>3
      <4>5. QED
        BY <4>4 DEF x
    <3>4. QED
      BY <3>1, <3>2, <3>3
  <2>4. QED
    BY <2>2, <2>3
<1>14. LargerHolderInv'
  <2>1. SUFFICES ASSUME NEW x \in Vertices, is_root(x), R'[x] # max_idx
                 PROVE  \E l \in Running : Active(l)' /\ R'[x] = Iteration(l) /\ x = roots'[l].v
    BY <1>11 DEF LargerHolderInv, max_idx
  <2>2. CASE R'[x] = R[x]
    <3>1. PICK l \in Running : Active(l) /\ R[x] = Iteration(l) /\ x = roots[l].v
      BY <1>6, <2>1, <2>2 DEF LargerHolderInv
    <3>2. l # k
      BY <1>3, <3>1 DEF Active
    <3>3. QED
      BY <1>12, <2>2, <3>1, <3>2
  <2>3. CASE R'[x] # R[x]
    BY <1>1, <1>5, <1>9, <1>12, <2>3
  <2>4. QED
    BY <2>2, <2>3
<1>15. LinksInv'
  <2>1. \A x \in Vertices : ~is_root(x) => R'[x] = R[x]
    BY <1>7, <1>9
  <2>2. Links' = Links
    <3>1. Links' = {R'[x] : x \in {y \in Vertices : ~is_root(y)}}
      BY <1>11 DEF Links
    <3>2. QED
      BY <2>1, <3>1 DEF Links
  <2>3. \A j \in Iterations : /\ committed[j] # 0 => committed'[j] # 0
                              /\ committed'[j] # 0 => committed[j] # 0 \/ (j = i /\ r.u = r.v)
    BY <1>4, <1>5, <1>6
  <2>4. r.u = r.v => SameTree(G[i].u, G[i].v)
    <3>1. SUFFICES ASSUME r.u = r.v, NEW S \in SUBSET Vertices, Trees(S) PROVE G[i].u \in S <=> G[i].v \in S
      BY DEF SameTree
    <3>2. Uncut({i}, S)
      BY <1>7, <3>1
    <3>3. QED
      BY <3>2 DEF Uncut
  <2>5. \A j \in Iterations : committed'[j] # 0 => SameTree(G[j].u, G[j].v)
    BY <1>6, <2>3, <2>4 DEF LinksInv
  <2>6. ASSUME NEW x \in Vertices, ~is_root(x)
        PROVE  parents[x] < x /\ R'[x] # max_idx /\ committed'[R'[x]] # 0
    <3>1. parents[x] < x /\ R[x] # max_idx /\ committed[R[x]] # 0 /\ R'[x] = R[x]
      BY <1>6, <2>1, <2>6 DEF LinksInv
    <3>2. R[x] \in Iterations
      BY <1>6, <3>1 DEF ForestTypeOK, Iterations, max_idx
    <3>3. QED
      BY <2>3, <3>1, <3>2
  <2>7. /\ \A S \in SUBSET Vertices : Uncut(Links, S) <=> Trees(S)
        /\ \A j \in Links : \E S \in SUBSET Vertices : Uncut(Links \ {j}, S) /\ ~Uncut({j}, S)
    BY <1>6 DEF LinksInv
  <2>8. /\ (\A x \in Vertices : ~is_root(x) => parents[x] < x /\ R[x] # max_idx /\ committed[R[x]] # 0)'
        /\ (\A S \in SUBSET Vertices : Uncut(Links, S) <=> Trees(S))'
    BY <1>3, <1>11, <2>2, <2>6, <2>7 DEF max_idx
  <2>9. (\A j \in Links : \E S \in SUBSET Vertices : Uncut(Links \ {j}, S) /\ ~Uncut({j}, S))'
    BY <1>11, <2>2, <2>7
  <2>10. (\A j \in Iterations : committed[j] # 0 => SameTree(G[j].u, G[j].v))'
    BY <1>3, <1>11, <2>5 DEF Iterations
  <2>11. QED
    BY <2>8, <2>9, <2>10 DEF LinksInv
<1>16. QED
  BY <1>3, <1>6, <1>10, <1>13, <1>14, <1>15 DEF STInv

(* The edge that links v joins two trees, so it does not depend on the     *)
(* others, and neither does any of them on the rest: where it would cut a  *)
(* set that shows so, the set changes sides within the tree of v.          *)
LEMMA LinksStayApart ==
    ASSUME ForestAssumption, ForestTypeOK, LinksInv, NEW i \in Iterations, i \notin Links,
           NEW T \in SUBSET Vertices, Trees(T), ~Uncut({i}, T), NEW j \in Links \cup {i}
    PROVE  \E S \in SUBSET Vertices : Uncut((Links \cup {i}) \ {j}, S) /\ ~Uncut({j}, S)
<1>1. Uncut(Links, T)
  BY DEF LinksInv
<1>2. CASE j = i
  <2>1. (Links \cup {i}) \ {j} = Links
    BY <1>2
  <2>2. QED
    BY <1>1, <1>2, <2>1
<1>3. CASE j # i
  <2>1. PICK S \in SUBSET Vertices : Uncut(Links \ {j}, S) /\ ~Uncut({j}, S)
    BY <1>3 DEF LinksInv
  <2>2. CASE Uncut({i}, S)
    <3>1. Uncut((Links \cup {i}) \ {j}, S)
      BY <2>1, <2>2 DEF Uncut
    <3>2. QED
      BY <2>1, <3>1
  <2>3. CASE ~Uncut({i}, S)
    <3> DEFINE C == (S \ T) \cup (T \ S)
    <3>1. \A n \in Links \cup {i} : n \in Iterations
      BY DEF Links, LinksInv, ForestTypeOK, Iterations, max_idx
    <3>2. \A n \in Links \cup {i} : G[n].u \in Vertices /\ G[n].v \in Vertices
      BY <3>1, VerticesOf
    <3>3. \A x \in Vertices : x \in C <=> ~(x \in S <=> x \in T)
      OBVIOUS
    <3>4. C \in SUBSET Vertices
      OBVIOUS
    <3> HIDE DEF C
    <3>5. ASSUME NEW n \in (Links \cup {i}) \ {j} PROVE G[n].u \in C <=> G[n].v \in C
      <4>1. CASE n = i
        <5>1. ~(G[i].u \in S <=> G[i].v \in S) /\ ~(G[i].u \in T <=> G[i].v \in T)
          BY <2>3 DEF Uncut
        <5>2. QED
          BY <3>2, <3>3, <4>1, <5>1
      <4>2. CASE n # i
        <5>1. (G[n].u \in S <=> G[n].v \in S) /\ (G[n].u \in T <=> G[n].v \in T)
          BY <1>1, <2>1, <4>2 DEF Uncut
        <5>2. QED
          BY <3>2, <3>3, <3>5, <5>1
      <4>3. QED
        BY <4>1, <4>2
    <3>6. ~(G[j].u \in C <=> G[j].v \in C)
      <4>1. ~(G[j].u \in S <=> G[j].v \in S) /\ (G[j].u \in T <=> G[j].v \in T)
        BY <1>1, <1>3, <2>1 DEF Uncut
      <4>2. QED
        BY <3>2, <3>3, <4>1
    <3>7. Uncut((Links \cup {i}) \ {j}, C) /\ ~Uncut({j}, C)
      BY <3>5, <3>6 DEF Uncut
    <3>8. QED
      BY <3>4, <3>7
  <2>4. QED
    BY <2>2, <2>3
<1>4. QED
  BY <1>2, <1>3

LEMMA STCommitKeepsInv ==
    ASSUME ForestAssumption, STInv, SpeculativeInv, NEW k \in Slots, STCommit(k)
    PROVE  STInv'
<1>1. PICK i : i = Iteration(k)
  OBVIOUS
<1>2. PICK u : u = roots[k].u
  OBVIOUS
<1>3. PICK v : v = roots[k].v
  OBVIOUS
<1>4. /\ phase = "commit" /\ at[k] = "todo" /\ UNCHANGED <<G, E, R, inST, roots>>
  BY DEF STCommit
<1>5. InRound /\ k \in Running /\ Active(k) /\ i \in Iterations /\ committed[i] = 0 /\ I[k] = i
  BY <1>1, <1>4, AtCommit DEF CommitKnows
<1>6. /\ parents' = IF R[v] = i THEN [parents EXCEPT ![v] = u] ELSE parents
      /\ EndCommit(k, R[v] = i)
  BY <1>2, <1>3, <1>5 DEF STCommit
<1>7. /\ UNCHANGED driver /\ at' = [at EXCEPT ![k] = "ready"]
      /\ committed' = IF R[v] = i THEN [committed EXCEPT ![i] = @ + 1] ELSE committed
  BY <1>5, <1>6 DEF EndCommit
<1>8. /\ ForestTypeOK /\ E = G /\ LargerInv /\ LargerHolderInv /\ LinksInv
      /\ DOMAIN at = Slots /\ committed \in [Iterations -> Nat]
      /\ \A l \in Running : l \in Slots /\ Iteration(l) \in Iterations /\ (Iteration(l) = i => l = k)
  BY <1>1, <1>5, RoundFacts DEF STInv
<1>9. /\ u \in Vertices /\ v \in Vertices /\ u < v
      /\ \A S \in SUBSET Vertices : Trees(S) => ((u \in S <=> v \in S) <=> Uncut({i}, S))
      /\ R[v] = i => is_root(v)
  BY <1>1, <1>2, <1>3, <1>4, <1>5, <1>8 DEF LargerInv
<1>10. u \in Nat /\ v \in Nat /\ i # max_idx
  BY <1>5, <1>8, <1>9, VerticesOf DEF ForestAssumption
<1>11. /\ \A F, S : Uncut(F, S)' <=> Uncut(F, S)
       /\ phase' = "commit" /\ Running' = Running
       /\ \A l : Iteration(l)' = Iteration(l)
       /\ \A l \in Running : Active(l)' <=> (l # k /\ Active(l))
  <2>1. /\ \A F, S : Uncut(F, S)' <=> Uncut(F, S)
        /\ phase' = "commit" /\ Running' = Running
        /\ \A l : Iteration(l)' = Iteration(l)
    BY <1>4, <1>7, SameGraph, SameSlots
  <2>2. \A l \in Running : Active(l)' <=> (l # k /\ Active(l))
    BY <1>4, <1>7, <1>8, <2>1 DEF Active
  <2>3. QED
    BY <2>1, <2>2
<1>12. ForestTypeOK'
  BY <1>4, <1>6, <1>8, <1>9, SlotsStay DEF ForestTypeOK, max_idx
<1>13. ASSUME NEW x \in Vertices
       PROVE  /\ ~(R[v] = i /\ x = v) => parents'[x] = parents[x] /\ (is_root(x)' <=> is_root(x))
              /\ R[v] = i /\ x = v => parents'[x] = u /\ ~is_root(x)'
  <2>1. ~(u < 0)
    BY <1>10
  <2>2. (~(R[v] = i /\ x = v) => parents'[x] = parents[x]) /\ (R[v] = i /\ x = v => parents'[x] = u)
    BY <1>6, <1>8, <1>9 DEF ForestTypeOK
  <2>3. QED
    BY <2>1, <2>2 DEF is_root
<1>14. \A S \in SUBSET Vertices : Trees(S)' <=> Trees(S) /\ (R[v] = i => (u \in S <=> v \in S))
  <2>1. SUFFICES ASSUME NEW S \in SUBSET Vertices
                 PROVE  Trees(S)' <=> Trees(S) /\ (R[v] = i => (u \in S <=> v \in S))
    OBVIOUS
  <2>2. CASE R[v] = i
    <3>1. \A x \in Vertices : x # v => parents'[x] = parents[x] /\ (is_root(x)' <=> is_root(x))
      BY <1>13
    <3>2. parents'[v] = u /\ ~is_root(v)' /\ is_root(v)
      BY <1>9, <1>13, <2>2
    <3>3. QED
      BY <1>9, <2>2, <3>1, <3>2 DEF Trees
  <2>3. CASE R[v] # i
    BY <1>13, <2>3 DEF Trees
  <2>4. QED
    BY <2>2, <2>3
<1>15. LargerInv'
  <2>1. SUFFICES ASSUME NEW l \in Running, l # k, Active(l)
                 PROVE  /\ roots[l].u \in Vertices /\ roots[l].v \in Vertices /\ roots[l].u < roots[l].v
                        /\ \A S \in SUBSET Vertices : Trees(S)' =>
                             ((roots[l].u \in S <=> roots[l].v \in S) <=> Uncut({Iteration(l)}, S))
                        /\ R[roots[l].v] <= Iteration(l)
                        /\ R[roots[l].v] = Iteration(l) => is_root(roots[l].v)'
    BY <1>4, <1>11 DEF LargerInv
  <2>2. /\ roots[l].u \in Vertices /\ roots[l].v \in Vertices /\ roots[l].u < roots[l].v
        /\ \A S \in SUBSET Vertices : Trees(S) =>
             ((roots[l].u \in S <=> roots[l].v \in S) <=> Uncut({Iteration(l)}, S))
        /\ R[roots[l].v] <= Iteration(l)
        /\ R[roots[l].v] = Iteration(l) => is_root(roots[l].v)
    BY <1>4, <1>8, <2>1 DEF LargerInv
  <2>3. R[roots[l].v] = Iteration(l) => ~(R[v] = i /\ roots[l].v = v)
    BY <1>8, <2>1
  <2>4. R[roots[l].v] = Iteration(l) => is_root(roots[l].v)'
    <3>1. PICK x \in Vertices : x = roots[l].v
      BY <2>2
    <3>2. R[x] = Iteration(l) => is_root(x)'
      BY <1>13, <2>2, <2>3, <3>1
    <3>3. roots'[l].v = x
      BY <1>4, <3>1
    <3>4. is_root(x)' <=> is_root(roots[l].v)'
      BY <3>3 DEF is_root
    <3>5. QED
      BY <3>1, <3>2, <3>4
  <2>5. QED
    BY <1>14, <2>2, <2>4
<1>16. LargerHolderInv'
  <2>1. SUFFICES ASSUME NEW x \in Vertices, is_root(x)', R[x] # max_idx
                 PROVE  \E l \in Running : l # k /\ Active(l) /\ R[x] = Iteration(l) /\ x = roots[l].v
    BY <1>4, <1>11 DEF LargerHolderInv, max_idx
  <2>2. ~(R[v] = i /\ x = v) /\ is_root(x)
    BY <1>13, <2>1
  <2>3. PICK l \in Running : Active(l) /\ R[x] = Iteration(l) /\ x = roots[l].v
    BY <1>8, <2>1, <2>2 DEF LargerHolderInv
  <2>4. QED
    BY <1>1, <1>3, <2>2, <2>3
<1>17. LinksInv'
  <2>1. CASE R[v] # i
    <3>1. /\ \A x \in Vertices : parents'[x] = parents[x] /\ (is_root(x)' <=> is_root(x))
          /\ \A S \in SUBSET Vertices : Trees(S)' <=> Trees(S)
          /\ committed' = committed
      BY <1>7, <1>13, <1>14, <2>1
    <3>2. Links' = Links
      BY <1>4, <3>1 DEF Links
    <3>3. \A x, y : SameTree(x, y)' <=> SameTree(x, y)
      BY <3>1 DEF SameTree
    <3>4. QED
      BY <1>4, <1>8, <1>11, <3>1, <3>2, <3>3 DEF LinksInv, max_idx, Iterations
  <2>2. CASE R[v] = i
    <3>1. is_root(v)
      BY <1>9, <2>2
    <3>2. Links' = Links \cup {i}
      <4>1. Links' = {R[x] : x \in {y \in Vertices : ~is_root(y)'}}
        BY <1>4 DEF Links
      <4>2. {y \in Vertices : ~is_root(y)'} = {y \in Vertices : ~is_root(y)} \cup {v}
        BY <1>9, <1>13, <2>2
      <4>3. QED
        BY <2>2, <4>1, <4>2 DEF Links
    <3>3. i \notin Links
      BY <1>5, <1>8 DEF Links, LinksInv
    <3>4. committed'[i] # 0 /\ \A j \in Iterations : j # i => committed'[j] = committed[j]
      BY <1>5, <1>7, <1>8, <2>2
    <3>5. ASSUME NEW x \in Vertices, ~is_root(x)'
          PROVE  parents'[x] < x /\ R[x] # max_idx /\ committed'[R[x]] # 0
      <4>1. CASE x = v
        BY <1>9, <1>10, <1>13, <2>2, <3>4, <4>1
      <4>2. CASE x # v
        <5>1. ~is_root(x) /\ parents'[x] = parents[x]
          BY <1>13, <3>5, <4>2
        <5>2. parents[x] < x /\ R[x] # max_idx /\ committed[R[x]] # 0 /\ R[x] \in Iterations
          BY <1>8, <5>1 DEF LinksInv, ForestTypeOK, Iterations, max_idx
        <5>3. QED
          BY <3>4, <5>1, <5>2
      <4>3. QED
        BY <4>1, <4>2
    <3>6. ASSUME NEW S \in SUBSET Vertices
          PROVE  Uncut(Links \cup {i}, S) <=> Trees(S)'
      <4>1. Uncut(Links \cup {i}, S) <=> Uncut(Links, S) /\ Uncut({i}, S)
        BY DEF Uncut
      <4>2. Uncut(Links, S) <=> Trees(S)
        BY <1>8 DEF LinksInv
      <4>3. QED
        BY <1>9, <1>14, <2>2, <4>1, <4>2
    <3>7. \A j \in Links \cup {i} : \E S \in SUBSET Vertices :
            Uncut((Links \cup {i}) \ {j}, S) /\ ~Uncut({j}, S)
      <4> DEFINE T == TreeOf(v)
      <4>1. T \in SUBSET Vertices /\ Trees(T)
        BY <1>8, FoundTree DEF TreeOf
      <4>2. v \in T
        BY <1>8, <1>9, <3>1, FindIs DEF TreeOf
      <4>3. u \notin T
        <5>1. find[u] \in Vertices /\ find[u] <= u
          BY <1>9, SmallerRoot
        <5>2. find[u] # v
          <6>1. find[u] \in Nat
            BY <5>1 DEF ForestAssumption
          <6>2. QED
            BY <1>9, <1>10, <5>1, <6>1
        <5>3. QED
          BY <5>2 DEF TreeOf
      <4>4. ~Uncut({i}, T)
        BY <1>9, <4>1, <4>2, <4>3
      <4> HIDE DEF T
      <4>5. QED
        BY <1>5, <1>8, <3>3, <4>1, <4>4, LinksStayApart
    <3>8. ASSUME NEW j \in Iterations, committed'[j] # 0 PROVE SameTree(G[j].u, G[j].v)'
      <4>1. SUFFICES ASSUME NEW S \in SUBSET Vertices, Trees(S)' PROVE G[j].u \in S <=> G[j].v \in S
        BY <1>4 DEF SameTree
      <4>2. Trees(S) /\ (u \in S <=> v \in S)
        BY <1>14, <2>2, <4>1
      <4>3. CASE j = i
        BY <1>9, <4>2, <4>3 DEF Uncut
      <4>4. CASE j # i
        <5>1. SameTree(G[j].u, G[j].v)
          BY <1>8, <3>4, <3>8, <4>4 DEF LinksInv
        <5>2. QED
          BY <4>2, <5>1 DEF SameTree
      <4>5. QED
        BY <4>3, <4>4
    <3>9. /\ (\A x \in Vertices : ~is_root(x) => parents[x] < x /\ R[x] # max_idx /\ committed[R[x]] # 0)'
          /\ (\A S \in SUBSET Vertices : Uncut(Links, S) <=> Trees(S))'
      BY <1>4, <1>11, <3>2, <3>5, <3>6 DEF max_idx
    <3>10. (\A j \in Links : \E S \in SUBSET Vertices : Uncut(Links \ {j}, S) /\ ~Uncut({j}, S))'
      BY <1>11, <3>2, <3>7
    <3>11. (\A j \in Iterations : committed[j] # 0 => SameTree(G[j].u, G[j].v))'
      BY <3>8 DEF Iterations
    <3>12. QED
      BY <3>9, <3>10, <3>11 DEF LinksInv
  <2>3. QED
    BY <2>1, <2>2
<1>18. QED
  BY <1>4, <1>8, <1>12, <1>15, <1>16, <1>17 DEF STInv

LEMMA STDriverKeepsInv ==
    ASSUME ForestAssumption, STInv, SpeculativeInv, DriverNext, UNCHANGED forest
    PROVE  STInv'
<1>1. /\ UNCHANGED <<G, E, R, parents, inST, roots>> /\ committed' = committed
      /\ ForestTypeOK /\ E = G /\ LargerInv /\ LargerHolderInv /\ LinksInv
  BY DEF DriverNext, Finish, GiveUp, StartRound, EndOfReserves, EndRound, slots, forest, STInv
<1>2. /\ \A x : is_root(x)' <=> is_root(x)
      /\ \A S : Trees(S)' <=> Trees(S)
      /\ \A x, y : SameTree(x, y)' <=> SameTree(x, y)
      /\ \A F, S : Uncut(F, S)' <=> Uncut(F, S)
  BY <1>1, SameForest, SameGraph
<1>3. Links' = Links
  BY <1>1, <1>2 DEF Links
<1>4. ForestTypeOK' /\ E' = G' /\ LinksInv'
  BY <1>1, <1>2, <1>3, SlotsStay DEF ForestTypeOK, LinksInv, max_idx, Iterations
<1>5. CASE EndOfReserves
  <2>1. /\ phase = "reserve" /\ phase' = "commit" /\ Running' = Running
        /\ \A k : Iteration(k)' = Iteration(k)
        /\ \A k \in Running : Active(k)' <=> Active(k)
    BY <1>5, DriverSlots
  <2>2. LargerInv'
    BY <1>1, <1>2, <2>1 DEF LargerInv
  <2>3. LargerHolderInv'
    BY <1>1, <1>2, <2>1 DEF LargerHolderInv, max_idx
  <2>4. QED
    BY <1>4, <2>2, <2>3 DEF STInv
<1>6. CASE ~EndOfReserves
  <2>1. NoneActive /\ NoneActive'
    BY <1>6, DriverSlots
  <2>2. \A x \in Vertices : is_root(x) => R[x] = max_idx
    BY <1>1, <2>1 DEF LargerHolderInv, NoneActive
  <2>3. LargerInv'
    BY <2>1 DEF LargerInv, NoneActive
  <2>4. LargerHolderInv'
    BY <1>1, <1>2, <2>2 DEF LargerHolderInv, max_idx
  <2>5. QED
    BY <1>4, <2>3, <2>4 DEF STInv
<1>7. QED
  BY <1>5, <1>6

LEMMA STStart ==
    ASSUME ForestAssumption, STInit PROVE STInv /\ SpeculativeInv
<1>1. /\ Init /\ G \in [Iterations -> [u : Vertices, v : Vertices]] /\ E = G
      /\ R = [x \in Vertices |-> max_idx] /\ parents = [x \in Vertices |-> NoParent] /\ inST = {}
      /\ DOMAIN roots = Slots
  BY DEF STInit, ForestInit, Free, ForestAssumption
<1>2. SpeculativeInv
  BY <1>1, SpeculativeInit
<1>3. phase = "start" /\ committed = [i \in Iterations |-> 0]
  BY <1>1 DEF Init
<1>4. max_idx \in s..max_idx
  BY DEF max_idx
<1>5. ForestTypeOK
  BY <1>1, <1>4 DEF ForestTypeOK
<1>6. \A x \in Vertices : is_root(x) /\ R[x] = max_idx
  BY <1>1 DEF is_root, NoParent
<1>7. LargerInv /\ LargerHolderInv
  BY <1>3, <1>6 DEF LargerInv, LargerHolderInv, Active
<1>8. Links = {}
  BY <1>6 DEF Links
<1>9. LinksInv
  BY <1>3, <1>6, <1>8 DEF LinksInv, Uncut, Trees
<1>10. QED
  BY <1>1, <1>2, <1>5, <1>7, <1>9 DEF STInv

LEMMA STStutters ==
    ASSUME STInv, UNCHANGED forestVars
    PROVE  STInv'
<1>1. UNCHANGED <<driver, I, keep, at, committed, G, E, R, parents, inST, roots>>
  BY DEF forestVars, specVars, slots, forest
<1>2. /\ \A x : is_root(x)' <=> is_root(x)
      /\ \A S : Trees(S)' <=> Trees(S)
      /\ \A x, y : SameTree(x, y)' <=> SameTree(x, y)
      /\ \A F, S : Uncut(F, S)' <=> Uncut(F, S)
      /\ phase' = phase /\ Running' = Running
      /\ \A l : Iteration(l)' = Iteration(l)
  BY <1>1, SameForest, SameGraph, SameSlots
<1>3. Links' = Links /\ \A l : Active(l)' <=> Active(l)
  BY <1>1, <1>2 DEF Links, Active
<1>4. ForestTypeOK' /\ LinksInv'
  BY <1>1, <1>2, <1>3, SlotsStay DEF STInv, ForestTypeOK, LinksInv, max_idx, Iterations
<1>5. LargerInv' /\ LargerHolderInv'
  BY <1>1, <1>2, <1>3 DEF STInv, LargerInv, LargerHolderInv, max_idx
<1>6. QED
  BY <1>1, <1>4, <1>5 DEF STInv

LEMMA STStep ==
    ASSUME ForestAssumption, STInv, SpeculativeInv, [STNext]_forestVars
    PROVE  STInv' /\ SpeculativeInv'
<1>1. CASE UNCHANGED forestVars
  BY <1>1, STStutters, StoppedStep DEF forestVars
<1>2. CASE DriverNext /\ UNCHANGED forest
  BY <1>2, STDriverKeepsInv, DriverStep
<1>3. CASE Stopped /\ UNCHANGED forest
  <2>1. UNCHANGED forestVars
    BY <1>3 DEF Stopped, forestVars
  <2>2. QED
    BY <1>1, <2>1
<1>4. ASSUME NEW k \in Slots, STReserve(k) PROVE STInv' /\ SpeculativeInv'
  <2>1. phase = "reserve" /\ at[k] # "ready" /\ \E b \in BOOLEAN : EndReserve(k, b)
    BY <1>4 DEF STReserve
  <2>2. SpeculativeInv'
    BY <2>1, ReserveEnds
  <2>3. QED
    BY <1>4, <2>2, STReserveKeepsInv
<1>5. ASSUME NEW k \in Slots, STCommit(k) PROVE STInv' /\ SpeculativeInv'
  <2>1. phase = "commit" /\ at[k] # "ready" /\ \E b \in BOOLEAN : EndCommit(k, b)
    BY <1>5 DEF STCommit
  <2>2. SpeculativeInv'
    BY <2>1, CommitEnds
  <2>3. QED
    BY <1>5, <2>2, STCommitKeepsInv
<1>6. QED
  BY <1>1, <1>2, <1>3, <1>4, <1>5 DEF STNext

(* ------------------------- The first edge ------------------------------ *)

(* Nobody wrote a smaller number to the root that the first edge reserved. *)
LEMMA STFirstReserved ==
    ASSUME STInv, SpeculativeInv, phase = "reserve", 0 \in Running, Active(0)
    PROVE  R[roots[0].v] = Iteration(0)
<1> DEFINE x == roots[0].v
<1>1. InRound /\ ForestTypeOK /\ LargerInv /\ LargerHolderInv
  BY DEF InRound, STInv
<1>2. Iteration(0) \in Iterations
  BY <1>1, FirstIsSmallest
<1>3. Iteration(0) \in Nat /\ Iteration(0) < max_idx /\ max_idx \in Nat
  BY <1>1, <1>2, VerticesOf DEF max_idx
<1>4. x \in Vertices /\ R[x] <= Iteration(0) /\ is_root(x)
  BY <1>1 DEF LargerInv
<1> HIDE DEF x
<1>5. R[x] \in Nat /\ R[x] # max_idx
  BY <1>1, <1>3, <1>4, LevelOf
<1>6. PICK l \in Running : R[x] = Iteration(l)
  BY <1>1, <1>4, <1>5 DEF LargerHolderInv
<1>7. Iteration(0) <= R[x]
  BY <1>1, <1>6, FirstIsSmallest
<1>8. R[x] = Iteration(0)
  BY <1>3, <1>4, <1>5, <1>7
<1>9. QED
  BY <1>8 DEF x

LEMMA STFirstStep ==
    ASSUME STInv, SpeculativeInv, FirstHasLarger, [STNext]_forestVars
    PROVE  FirstHasLarger'
<1>1. CASE UNCHANGED forestVars
  <2>1. UNCHANGED <<driver, R, roots, at, keep>>
    BY <1>1 DEF forestVars, specVars, slots, forest
  <2>2. /\ phase' = phase /\ Running' = Running /\ \A l : Iteration(l)' = Iteration(l)
    BY <2>1, SameSlots
  <2>3. (Active(0)' <=> Active(0)) /\ FirstDone'
    BY <2>1, <2>2 DEF Active, FirstDone, FirstHasLarger
  <2>4. QED
    BY <2>1, <2>2, <2>3 DEF FirstHasLarger
<1>2. CASE DriverNext /\ UNCHANGED forest
  <2>1. FirstDone'
    BY <1>2, DriverKeepsFirst
  <2>2. CASE EndOfReserves
    <3>1. /\ phase = "reserve" /\ Running' = Running /\ R' = R /\ roots' = roots
          /\ Iteration(0)' = Iteration(0)
          /\ \A k \in Running : Active(k)' <=> Active(k)
      BY <1>2, <2>2, DriverSlots DEF forest
    <3>2. QED
      BY <2>1, <3>1, STFirstReserved DEF FirstHasLarger
  <2>3. CASE ~EndOfReserves
    <3>1. phase' # "commit"
      BY <1>2, <2>3, DriverSlots
    <3>2. QED
      BY <2>1, <3>1 DEF FirstHasLarger
  <2>4. QED
    BY <2>2, <2>3
<1>3. CASE Stopped /\ UNCHANGED forest
  <2>1. UNCHANGED forestVars
    BY <1>3 DEF Stopped, forestVars
  <2>2. QED
    BY <1>1, <2>1
<1>4. ASSUME NEW k \in Slots, STReserve(k) PROVE FirstHasLarger'
  <2>1. phase = "reserve" /\ UNCHANGED driver
    BY <1>4 DEF STReserve, EndReserve
  <2>2. FirstDone' /\ phase' = "reserve"
    BY <2>1, ReserveKeepsFirst DEF driver
  <2>3. QED
    BY <2>2 DEF FirstHasLarger
<1>5. ASSUME NEW k \in Slots, STCommit(k) PROVE FirstHasLarger'
  <2> DEFINE b == R[roots[k].v] = I[k]
  <2>1. /\ phase = "commit" /\ at[k] = "todo" /\ EndCommit(k, b) /\ UNCHANGED <<R, roots>>
        /\ b \in BOOLEAN
    BY <1>5 DEF STCommit
  <2>2. InRound /\ k \in Running /\ Active(k) /\ I[k] = Iteration(k)
    BY <2>1, AtCommit DEF CommitKnows
  <2>3. k = 0 => b
    BY <2>1, <2>2 DEF FirstHasLarger
  <2> HIDE DEF b
  <2>4. FirstDone'
    BY <2>1, <2>3, CommitKeepsFirst DEF FirstHasLarger
  <2>5. UNCHANGED driver /\ at' = [at EXCEPT ![k] = "ready"]
    BY <2>1 DEF EndCommit
  <2>6. /\ phase' = phase /\ Running' = Running /\ \A l : Iteration(l)' = Iteration(l)
    BY <2>5, SameSlots
  <2>7. DOMAIN at = Slots /\ Running \subseteq Slots
    BY <2>2, RoundFacts
  <2>8. 0 \in Running /\ Active(0)' => Active(0)
    BY <2>1, <2>5, <2>6, <2>7 DEF Active
  <2>9. QED
    BY <2>1, <2>4, <2>6, <2>8 DEF FirstHasLarger
<1>6. QED
  BY <1>1, <1>2, <1>3, <1>4, <1>5 DEF STNext

(* The inductive invariant: vertices hang below smaller ones, roots are    *)
(* held by the slots that are going to link them, and the edges by which   *)
(* vertices were linked are a forest with the trees of union-find.         *)
THEOREM STInvariance ==
    ASSUME ForestAssumption PROVE STSpec => [](STInv /\ SpeculativeInv)
<1>1. STInit => STInv /\ SpeculativeInv
  BY STStart
<1>2. STInv /\ SpeculativeInv /\ [STNext]_forestVars => STInv' /\ SpeculativeInv'
  BY STStep
<1>3. QED
  BY <1>1, <1>2, PTL DEF STSpec

LEMMA ParentsSmaller ==
    ASSUME STInv PROVE ParentsAreSmaller
BY DEF STInv, LinksInv, ParentsAreSmaller

(* A vertex is only ever hung below a smaller one.                         *)
THEOREM ParentsAreSmallerCorrect ==
    ASSUME ForestAssumption PROVE STSpec => []ParentsAreSmaller
BY ParentsSmaller, STInvariance, PTL

LEMMA RestingForest ==
    ASSUME ForestAssumption, STInv, phase \in {"start", "end"}
    PROVE  /\ \A x \in Vertices : is_root(x) <=> R[x] = max_idx
           /\ Result = Links
<1>1. \A x \in Vertices : is_root(x) <=> R[x] = max_idx
  BY DEF STInv, LargerHolderInv, LinksInv, Active
<1>2. \A x \in Vertices : R[x] < max_idx <=> R[x] # max_idx
  <2>1. SUFFICES ASSUME NEW x \in Vertices PROVE R[x] < max_idx <=> R[x] # max_idx
    OBVIOUS
  <2>2. R[x] \in s..max_idx /\ s \in Nat /\ max_idx \in Nat
    BY DEF STInv, ForestTypeOK, max_idx
  <2>3. QED
    BY <2>2
<1>3. {y \in Vertices : R[y] < max_idx} = {y \in Vertices : ~is_root(y)}
  BY <1>1, <1>2
<1>4. QED
  BY <1>1, <1>3 DEF Result, Links

LEMMA LinkedRest ==
    ASSUME ForestAssumption, STInv PROVE ReservedAreLinked
BY RestingForest DEF ReservedAreLinked

(* Between rounds the reservations are on exactly the linked vertices.     *)
THEOREM ReservedAreLinkedCorrect ==
    ASSUME ForestAssumption PROVE STSpec => []ReservedAreLinked
BY LinkedRest, STInvariance, PTL

LEMMA ClosedIsUncut ==
    ASSUME ForestAssumption, STInv, NEW F \in SUBSET Iterations, NEW S
    PROVE  Closed(S, Pairs(F)) <=> Uncut(F, S)
BY DEF Closed, Pairs, Uncut, STInv

LEMMA LinksSpan ==
    ASSUME ForestAssumption, STInv, SpeculativeInv PROVE ResultSpans
<1>1. SUFFICES ASSUME phase \in {"start", "end"}
               PROVE  /\ SameComponents(Pairs(Links), Pairs({i \in Iterations : committed[i] = 1}))
                      /\ \A i \in Links : ~SameComponents(Pairs(Links), Pairs(Links \ {i}))
                      /\ phase = "end" => SameComponents(Pairs(Links), Pairs(Iterations))
  BY RestingForest DEF ResultSpans
<1>2. LinksInv /\ E = G /\ ForestTypeOK
  BY DEF STInv
<1>3. \A i \in Iterations : committed[i] \in {0, 1} /\ (phase = "end" => committed[i] = 1)
  BY <1>1, EachIsOnce DEF EachOnce
<1>4. Links \subseteq {i \in Iterations : committed[i] = 1}
  BY <1>2, <1>3 DEF Links, LinksInv, ForestTypeOK, Iterations, max_idx
<1>5. ASSUME NEW S \in SUBSET Vertices
      PROVE  Uncut(Links, S) <=> Uncut({i \in Iterations : committed[i] = 1}, S)
  <2>1. ASSUME Uncut(Links, S), NEW i \in Iterations, committed[i] = 1
        PROVE  G[i].u \in S <=> G[i].v \in S
    <3>1. SameTree(G[i].u, G[i].v) /\ Trees(S)
      BY <1>2, <2>1 DEF LinksInv
    <3>2. QED
      BY <3>1 DEF SameTree
  <2>2. QED
    BY <1>4, <2>1 DEF Uncut
<1>6. SameComponents(Pairs(Links), Pairs({i \in Iterations : committed[i] = 1}))
  BY <1>4, <1>5, ClosedIsUncut DEF SameComponents
<1>7. ASSUME NEW i \in Links PROVE ~SameComponents(Pairs(Links), Pairs(Links \ {i}))
  <2>1. PICK S \in SUBSET Vertices : Uncut(Links \ {i}, S) /\ ~Uncut({i}, S)
    BY <1>2 DEF LinksInv
  <2>2. ~Uncut(Links, S)
    BY <2>1 DEF Uncut
  <2>3. Links \in SUBSET Iterations /\ Links \ {i} \in SUBSET Iterations
    BY <1>4
  <2>4. Closed(S, Pairs(Links \ {i})) /\ ~Closed(S, Pairs(Links))
    BY <2>1, <2>2, <2>3, ClosedIsUncut
  <2>5. QED
    BY <2>4 DEF SameComponents
<1>8. ASSUME phase = "end" PROVE {i \in Iterations : committed[i] = 1} = Iterations
  BY <1>3, <1>8
<1>9. QED
  BY <1>6, <1>7, <1>8

(* Between rounds the result is a forest without a redundant edge that     *)
(* spans the edges completed so far, and at the end it spans the graph.    *)
THEOREM ResultSpansCorrect ==
    ASSUME ForestAssumption PROVE STSpec => []ResultSpans
BY LinksSpan, STInvariance, PTL

-----------------------------------------------------------------------------
(* The four clients in one state machine.                                  *)

(* What is known of the client that runs, and of speculative_for below it. *)
ClientsInv ==
    /\ SpeculativeInv
    /\ client = "mis" => FlagsInv /\ FirstVertexInv
    /\ client = "matching" => MatchingInv /\ FirstEdgeInv
    /\ client = "kruskal" => KruskalInv /\ FirstHasRoots
    /\ client = "st" => STInv /\ FirstHasLarger
    /\ client # "mis" => Flags = [i \in Iterations |-> 0]

LEMMA ClientsStart == MCInit => ClientsInv
<1> SUFFICES ASSUME MCInit PROVE ClientsInv
  OBVIOUS
<1>1. ASSUME Init PROVE /\ SpeculativeInv /\ FirstDone /\ phase = "start"
  BY <1>1, SpeculativeInit DEF Init, FirstDone
<1>2. CASE client = "any" /\ Init /\ NoMIS
  BY <1>1, <1>2 DEF ClientsInv, NoMIS
<1>3. CASE client = "mis" /\ MISInit
  <2>1. Init /\ FlagsInv
    BY <1>3, FlagsInit DEF MISInit
  <2>2. QED
    BY <1>1, <1>3, <2>1 DEF ClientsInv, FirstVertexInv, FirstFlag
<1>4. CASE client = "matching" /\ MatchingInit /\ NoMIS
  <2>1. Init /\ MatchingInv
    BY <1>4, MatchingStart DEF MatchingInit
  <2>2. QED
    BY <1>1, <1>4, <2>1 DEF ClientsInv, FirstEdgeInv, FirstHolds, NoMIS
<1>5. CASE client = "kruskal" /\ KruskalInit /\ NoMIS
  <2>1. Init /\ KruskalInv
    BY <1>5, EdgesAssumption, KruskalStart DEF KruskalInit, ForestInit
  <2>2. QED
    BY <1>1, <1>5, <2>1 DEF ClientsInv, FirstHasRoots, NoMIS
<1>6. CASE client = "st" /\ STInit /\ NoMIS
  <2>1. Init /\ STInv
    BY <1>6, EdgesAssumption, STStart DEF STInit, ForestInit
  <2>2. QED
    BY <1>1, <1>6, <2>1 DEF ClientsInv, FirstHasLarger, NoMIS
<1>7. QED
  BY <1>2, <1>3, <1>4, <1>5, <1>6 DEF MCInit

(* A step is one of the client that runs, and leaves the others alone.     *)
LEMMA ClientsSteps ==
    ASSUME [MCNext]_vars
    PROVE  /\ client' = client
           /\ client = "any" => [Next]_specVars
           /\ client = "mis" => [MISNext]_misVars
           /\ client = "matching" => [MatchingNext]_matchingVars
           /\ client = "kruskal" => [KruskalNext]_forestVars
           /\ client = "st" => [STNext]_forestVars
           /\ client \notin {"any", "mis", "matching", "kruskal", "st"} => UNCHANGED specVars
           /\ client # "mis" => Flags' = Flags
<1>1. CASE UNCHANGED vars
  BY <1>1 DEF vars, misVars, matchingVars, forestVars, forest
<1>2. CASE MCNext
  BY <1>2 DEF MCNext, AnyRuns, MISRuns, MatchingRuns, KruskalRuns, STRuns
<1>3. QED
  BY <1>1, <1>2

LEMMA ClientsStep ==
    ASSUME ClientsInv, [MCNext]_vars PROVE ClientsInv'
<1>1. client' = client /\ SpeculativeInv
  BY ClientsSteps DEF ClientsInv
<1>2. client # "mis" => (Flags = [i \in Iterations |-> 0])'
  BY <1>1, ClientsSteps DEF ClientsInv, Iterations
<1>3. CASE client = "any"
  <2>1. SpeculativeInv'
    BY <1>1, <1>3, ClientsSteps, SpeculativeStep
  <2>2. QED
    BY <1>1, <1>2, <1>3, <2>1 DEF ClientsInv
<1>4. CASE client = "mis"
  <2>1. FlagsInv /\ FirstVertexInv /\ [MISNext]_misVars
    BY <1>4, ClientsSteps DEF ClientsInv
  <2>2. SpeculativeInv' /\ FlagsInv' /\ FirstVertexInv'
    BY <1>1, <2>1, StepIsDriver, SpeculativeStep, FlagsStep, FirstVertexStep
  <2>3. QED
    BY <1>1, <1>4, <2>2 DEF ClientsInv
<1>5. CASE client = "matching"
  <2>1. MatchingInv /\ FirstEdgeInv /\ [MatchingNext]_matchingVars
    BY <1>5, ClientsSteps DEF ClientsInv
  <2>2. SpeculativeInv' /\ MatchingInv' /\ FirstEdgeInv'
    BY <1>1, <2>1, MatchingStep, MatchFirstStep
  <2>3. QED
    BY <1>1, <1>2, <1>5, <2>2 DEF ClientsInv
<1>6. CASE client = "kruskal"
  <2>1. KruskalInv /\ FirstHasRoots /\ [KruskalNext]_forestVars
    BY <1>6, ClientsSteps DEF ClientsInv
  <2>2. SpeculativeInv' /\ KruskalInv' /\ FirstHasRoots'
    BY <1>1, <2>1, EdgesAssumption, KruskalStep, KruskalFirstStep
  <2>3. QED
    BY <1>1, <1>2, <1>6, <2>2 DEF ClientsInv
<1>7. CASE client = "st"
  <2>1. STInv /\ FirstHasLarger /\ [STNext]_forestVars
    BY <1>7, ClientsSteps DEF ClientsInv
  <2>2. SpeculativeInv' /\ STInv' /\ FirstHasLarger'
    BY <1>1, <2>1, EdgesAssumption, STStep, STFirstStep
  <2>3. QED
    BY <1>1, <1>2, <1>7, <2>2 DEF ClientsInv
<1>8. CASE client \notin {"any", "mis", "matching", "kruskal", "st"}
  <2>1. SpeculativeInv'
    BY <1>1, <1>8, ClientsSteps, StoppedStep
  <2>2. QED
    BY <1>1, <1>2, <1>8, <2>1 DEF ClientsInv
<1>9. QED
  BY <1>3, <1>4, <1>5, <1>6, <1>7, <1>8

(* The inductive invariant of the four clients and of free steps together. *)
THEOREM ClientsInvariance == MCSpec => []ClientsInv
BY ClientsStart, ClientsStep, PTL DEF MCSpec

(* No iteration is lost or run twice, and no array is overrun.             *)
THEOREM RoundsOfClients == MCSpec => []RoundsAreRight
<1>1. ClientsInv => RoundsAreRight
  BY EachIsOnce, RoundsFit DEF RoundsAreRight, ClientsInv
<1>2. QED
  BY <1>1, ClientsInvariance, PTL

(* Each client computes what its serial loop computes, the spanning forest *)
(* a forest that spans, for every graph, granularity and interleaving.     *)
THEOREM ResultsOfClients == MCSpec => []ResultsAreRight
<1>1. ASSUME ClientsInv PROVE ResultsAreRight
  <2>1. client = "matching" => MatchingResult /\ MatchingInv /\ FirstEdgeInv
    BY <1>1, MatchedSerially DEF ClientsInv
  <2>2. client = "mis" => SerialResult /\ FlagsInv /\ FirstVertexInv
    BY <1>1, FlagsAreSerial DEF ClientsInv
  <2>3. client = "kruskal" =>
         /\ KruskalIsSerial /\ FirstHasRoots
         /\ ForestTypeOK /\ ReservedInv /\ HolderInv /\ EdgesInv
    BY <1>1, TakenSerially DEF ClientsInv, KruskalInv
  <2>4. client = "st" => ResultSpans /\ STInv /\ FirstHasLarger
    BY <1>1, EdgesAssumption, LinksSpan DEF ClientsInv
  <2>5. QED
    BY <2>1, <2>2, <2>3, <2>4 DEF ResultsAreRight
<1>2. QED
  BY <1>1, ClientsInvariance, PTL

(* No reservation but those of edges that were taken outlives a round.     *)
THEOREM ReservationsOfClients == MCSpec => []ReservationsAtRest
<1>1. ClientsInv => ReservationsAtRest
  BY EdgesAssumption, MatchingRests, RootsRest, LinkedRest DEF ClientsInv, ReservationsAtRest
<1>2. QED
  BY <1>1, ClientsInvariance, PTL

(* No links of one round ever close a cycle.                               *)
THEOREM LinksOfClients == MCSpec => []LinksAreAcyclic
<1>1. ClientsInv => LinksAreAcyclic
  BY RanksForbidCycles, ParentsSmaller DEF ClientsInv, LinksAreAcyclic
<1>2. QED
  BY <1>1, ClientsInvariance, PTL

(* A round ends in one way only, and no body of a client changes the phase. *)
LEMMA RoundEnds ==
    ASSUME ClientsInv, MCNext, client # "any", phase = "commit", phase' = "start"
    PROVE  EndRound /\ FirstDone
<1>1. FirstDone
  BY DEF ClientsInv, MCNext, AnyRuns, MISRuns, MatchingRuns, KruskalRuns, STRuns,
         FirstVertexInv, FirstEdgeInv, FirstHasRoots, FirstHasLarger
<1>2. DriverNext \/ phase' = phase
  <2>1. Stopped => phase' = phase
    BY DEF Stopped, specVars, driver
  <2>2. ASSUME NEW k, NEW b, EndReserve(k, b) \/ EndCommit(k, b) PROVE phase' = phase
    BY <2>2 DEF EndReserve, EndCommit, driver
  <2>3. CASE MISNext
    BY <2>1, <2>2, <2>3 DEF MISNext, MISReserve, MISCommit
  <2>4. CASE MatchingNext
    <3>1. ASSUME NEW k \in Slots, ReserveU(k) \/ CommitV(k) PROVE phase' = phase
      BY <3>1 DEF ReserveU, CommitV, driver
    <3>2. ASSUME NEW k \in Slots, ReserveFails(k) \/ ReserveV(k) \/ CommitU(k) \/ ReleaseU(k)
          PROVE  phase' = phase
      BY <2>2, <3>2 DEF ReserveFails, ReserveV, CommitU, ReleaseU
    <3>3. QED
      BY <2>1, <2>4, <3>1, <3>2 DEF MatchingNext, Body
  <2>5. CASE KruskalNext
    BY <2>1, <2>2, <2>5 DEF KruskalNext, KruskalReserve, KruskalCommit, TakeV, TakeU, CommitFails
  <2>6. CASE STNext
    BY <2>1, <2>2, <2>6 DEF STNext, STReserve, STCommit
  <2>7. QED
    BY <2>3, <2>4, <2>5, <2>6 DEF MCNext, AnyRuns, MISRuns, MatchingRuns, KruskalRuns, STRuns
<1>3. EndRound
  BY <1>2 DEF DriverNext, Finish, GiveUp, StartRound, EndOfReserves, EndRound
<1>4. QED
  BY <1>1, <1>3

(* Every round that has a slot completes an iteration: its first.          *)
THEOREM RoundsAdvance == MCSpec => EveryRoundAdvances
<1>1. ASSUME ClientsInv, MCNext, client # "any", phase = "commit", phase' = "start", size > 0
      PROVE  numberDone' > numberDone
  <2>1. EndRound /\ FirstDone
    BY <1>1, RoundEnds
  <2>2. SpeculativeInv /\ 0 \in Running
    <3>1. size \in Nat
      BY <1>1, Ranges DEF ClientsInv, SpeculativeInv
    <3>2. QED
      BY <1>1, <3>1 DEF ClientsInv, Running
  <2>3. ~keep[0]
    BY <1>1, <2>1, <2>2 DEF EndRound, AllReady, FirstDone
  <2>4. QED
    BY <2>1, <2>2, <2>3, RoundAdvances
<1>2. ClientsInv /\ [MCNext]_vars =>
        [client # "any" /\ phase = "commit" /\ phase' = "start" /\ size > 0 =>
           numberDone' > numberDone]_vars
  BY <1>1
<1>3. QED
  BY <1>2, ClientsInvariance, PTL DEF MCSpec, EveryRoundAdvances

(* ------------------------- The refinement ------------------------------ *)

(* How a slot stands for speculative_for with whole steps: a body that is  *)
(* not done has not begun.                                                 *)
Whole == [k \in Slots |-> IF at[k] = "ready" THEN "ready" ELSE "todo"]

LEMMA SameDriver ==
    /\ Step!Slots = Slots /\ Step!Running = Running /\ Step!Iterations = Iterations
    /\ Step!maxTries = maxTries /\ Step!maxRoundSize = maxRoundSize
    /\ Step!driver = driver /\ Step!slots = <<I, keep, Whole>>
    /\ Step!specVars = <<driver, <<I, keep, Whole>>, committed>>
    /\ \A k : Step!Iteration(k) = Iteration(k)
    /\ \A a, b : Step!MinOf(a, b) = MinOf(a, b) /\ Step!MaxOf(a, b) = MaxOf(a, b)
<1>1. /\ Step!maxTries = maxTries /\ Step!maxRoundSize = maxRoundSize
      /\ \A a, b : Step!MinOf(a, b) = MinOf(a, b) /\ Step!MaxOf(a, b) = MaxOf(a, b)
  BY DEF Step!maxTries, maxTries, Step!maxRoundSize, maxRoundSize, Step!MinOf, MinOf, Step!MaxOf, MaxOf
<1>2. /\ Step!Slots = Slots /\ Step!Running = Running /\ Step!Iterations = Iterations
      /\ \A k : Step!Iteration(k) = Iteration(k)
  BY <1>1 DEF Step!Slots, Slots, Step!Running, Running, Step!Iterations, Iterations, Step!Iteration, Iteration
<1>3. /\ Step!driver = driver /\ Step!slots = <<I, keep, Whole>>
      /\ Step!specVars = <<driver, <<I, keep, Whole>>, committed>>
  BY DEF Step!driver, driver, Step!slots, Step!specVars, Whole
<1>4. QED
  BY <1>1, <1>2, <1>3

LEMMA SamePack ==
    /\ Step!Packed = Packed
    /\ \A n : Step!NextRoundSize(n) = NextRoundSize(n)
<1>2. Step!Packed = Packed
  BY DEF Step!Packed, Packed, Step!Rank, Rank, Step!Kept, Kept, Step!Running, Running,
         Step!Cardinality, Cardinality
<1>3. \A n : Step!NextRoundSize(n) = NextRoundSize(n)
  BY SameDriver DEF Step!NextRoundSize, NextRoundSize
<1>4. QED
  BY <1>2, <1>3

LEMMA DriverInStep ==
    ASSUME SpeculativeInv, DriverNext
    PROVE  Step!Next
<1>1. Running \subseteq Slots /\ Slots' = Slots
  BY Ranges, SlotsStay DEF SpeculativeInv
<1>2. at' = at => Whole' = Whole
  BY <1>1 DEF Whole
<1>3. AllReady => Step!AllReady
  BY <1>1, SameDriver DEF AllReady, Step!AllReady, Whole
<1>4. CASE Finish
  <2>1. Step!Finish
    BY <1>2, <1>4, SameDriver DEF Finish, Step!Finish, slots, Step!slots, Whole
  <2>2. QED
    BY <2>1 DEF Step!Next, Step!DriverNext
<1>5. CASE GiveUp
  <2>1. Step!GiveUp
    BY <1>2, <1>5, SameDriver DEF GiveUp, Step!GiveUp, slots, Step!slots, Whole
  <2>2. QED
    BY <2>1 DEF Step!Next, Step!DriverNext
<1>6. CASE StartRound
  <2>1. Whole' = [k \in Slots |-> IF k < size' THEN "todo" ELSE "ready"]
    BY <1>1, <1>6 DEF StartRound, Whole
  <2>2. Step!StartRound
    BY <1>6, <2>1, SameDriver DEF StartRound, Step!StartRound, Whole
  <2>3. QED
    BY <2>2 DEF Step!Next, Step!DriverNext
<1>7. CASE EndOfReserves
  <2>1. Whole' = [k \in Slots |-> IF k \in Running /\ keep[k] THEN "todo" ELSE "ready"]
    BY <1>1, <1>7 DEF EndOfReserves, Whole
  <2>2. Step!EndOfReserves
    BY <1>3, <1>7, <2>1, SameDriver DEF EndOfReserves, Step!EndOfReserves, Whole
  <2>3. QED
    BY <2>2 DEF Step!Next, Step!DriverNext
<1>8. CASE EndRound
  <2>1. Step!EndRound
    BY <1>2, <1>3, <1>8, SameDriver, SamePack DEF EndRound, Step!EndRound, slots, Step!slots, Whole
  <2>2. QED
    BY <2>1 DEF Step!Next, Step!DriverNext
<1>9. QED
  BY <1>4, <1>5, <1>6, <1>7, <1>8 DEF DriverNext

LEMMA ReserveInStep ==
    ASSUME SpeculativeInv, phase = "reserve", NEW k \in Slots, at[k] # "ready",
           NEW b \in BOOLEAN, EndReserve(k, b)
    PROVE  Step!Next
<1>1. DOMAIN at = Slots /\ Slots' = Slots
  BY SlotsStay DEF SpeculativeInv, TypeOK
<1>2. Whole[k] = "todo" /\ Whole' = [Whole EXCEPT ![k] = "ready"]
  BY <1>1 DEF Whole, EndReserve
<1>3. Step!EndReserve(k, b)
  BY <1>2, SameDriver DEF EndReserve, Step!EndReserve, Whole, Step!driver, driver
<1>4. Step!Reserve(k)
  BY <1>2, <1>3 DEF Step!Reserve, Whole
<1>5. QED
  BY <1>4, SameDriver DEF Step!Next

LEMMA CommitInStep ==
    ASSUME SpeculativeInv, phase = "commit", NEW k \in Slots, at[k] # "ready",
           NEW b \in BOOLEAN, EndCommit(k, b)
    PROVE  Step!Next
<1>1. DOMAIN at = Slots /\ Slots' = Slots
  BY SlotsStay DEF SpeculativeInv, TypeOK
<1>2. Whole[k] = "todo" /\ Whole' = [Whole EXCEPT ![k] = "ready"]
  BY <1>1 DEF Whole, EndCommit
<1>3. Step!EndCommit(k, b)
  BY <1>2, SameDriver DEF EndCommit, Step!EndCommit, Whole, Step!driver, driver
<1>4. Step!Commit(k)
  BY <1>2, <1>3 DEF Step!Commit, Whole
<1>5. QED
  BY <1>4, SameDriver DEF Step!Next

LEMMA StutterInStep == ASSUME UNCHANGED specVars PROVE UNCHANGED Step!specVars
BY SlotsStay DEF specVars, slots, Step!specVars, Step!slots, Step!driver, driver

LEMMA BodyInStep ==
    ASSUME SpeculativeInv, NEW k \in Slots, at[k] # "ready", NEW l, l # "ready",
           at' = [at EXCEPT ![k] = l], UNCHANGED <<driver, I, keep, committed>>
    PROVE  UNCHANGED Step!specVars
<1>1. DOMAIN at = Slots /\ Slots' = Slots
  BY SlotsStay DEF SpeculativeInv, TypeOK
<1>2. Whole' = Whole
  BY <1>1 DEF Whole
<1>3. QED
  BY <1>2 DEF Whole, Step!specVars, Step!slots, Step!driver, driver

LEMMA AnyInStep ==
    ASSUME SpeculativeInv, [Next]_specVars PROVE [Step!Next]_(Step!specVars)
<1>1. CASE UNCHANGED specVars \/ Stopped
  BY <1>1, StutterInStep DEF Stopped
<1>2. CASE DriverNext
  BY <1>2, DriverInStep
<1>3. ASSUME NEW k \in Slots, Reserve(k) PROVE Step!Next
  BY <1>3, ReserveInStep DEF Reserve
<1>4. ASSUME NEW k \in Slots, Commit(k) PROVE Step!Next
  BY <1>4, CommitInStep DEF Commit
<1>5. QED
  BY <1>1, <1>2, <1>3, <1>4 DEF Next

(* The steps of matching within a body do nothing to whole steps.          *)
LEMMA MatchingInStep ==
    ASSUME SpeculativeInv, [MatchingNext]_matchingVars PROVE [Step!Next]_(Step!specVars)
<1>1. CASE UNCHANGED matchingVars \/ Stopped
  BY <1>1, StutterInStep DEF Stopped, matchingVars
<1>2. CASE DriverNext
  BY <1>2, DriverInStep
<1>3. ASSUME NEW k \in Slots, ReserveFails(k) \/ ReserveV(k) PROVE Step!Next
  <2>1. phase = "reserve" /\ at[k] # "ready" /\ \E b \in BOOLEAN : EndReserve(k, b)
    BY <1>3 DEF ReserveFails, ReserveV
  <2>2. QED
    BY <2>1, ReserveInStep
<1>4. ASSUME NEW k \in Slots, ReserveU(k) \/ CommitV(k) PROVE UNCHANGED Step!specVars
  <2>1. /\ at[k] # "ready" /\ UNCHANGED <<driver, I, keep, committed>>
        /\ \E l \in {"reserve v", "commit u", "release u"} : at' = [at EXCEPT ![k] = l]
    BY <1>4 DEF ReserveU, CommitV
  <2>2. QED
    BY <2>1, BodyInStep
<1>5. ASSUME NEW k \in Slots, CommitU(k) PROVE Step!Next
  <2> DEFINE b == R[E[I[k]].u] = I[k]
  <2>1. phase = "commit" /\ at[k] # "ready" /\ EndCommit(k, b)
    BY <1>5 DEF CommitU
  <2>2. b \in BOOLEAN
    OBVIOUS
  <2> HIDE DEF b
  <2>3. QED
    BY <2>1, <2>2, CommitInStep
<1>6. ASSUME NEW k \in Slots, ReleaseU(k) PROVE Step!Next
  <2>1. phase = "commit" /\ at[k] # "ready" /\ EndCommit(k, FALSE)
    BY <1>6 DEF ReleaseU
  <2>2. QED
    BY <2>1, CommitInStep
<1>7. QED
  BY <1>1, <1>2, <1>3, <1>4, <1>5, <1>6 DEF MatchingNext, Body

LEMMA ForestInStep ==
    ASSUME [KruskalNext]_forestVars \/ [STNext]_forestVars PROVE [Next]_specVars
<1>1. CASE UNCHANGED forestVars \/ DriverNext \/ Stopped
  BY <1>1 DEF forestVars, Next
<1>2. ASSUME NEW k \in Slots, KruskalReserve(k) \/ STReserve(k) PROVE Reserve(k)
  <2>1. phase = "reserve" /\ at[k] = "todo" /\ \E b \in BOOLEAN : EndReserve(k, b)
    BY <1>2 DEF KruskalReserve, STReserve
  <2>2. QED
    BY <2>1 DEF Reserve
<1>3. ASSUME NEW k \in Slots, KruskalCommit(k) \/ STCommit(k) PROVE Commit(k)
  <2>1. phase = "commit" /\ at[k] = "todo" /\ \E b \in BOOLEAN : EndCommit(k, b)
    BY <1>3 DEF KruskalCommit, TakeV, TakeU, CommitFails, STCommit
  <2>2. QED
    BY <2>1 DEF Commit
<1>4. QED
  BY <1>1, <1>2, <1>3 DEF KruskalNext, STNext, Next

(* Every client is speculative_for with some step: what the rounds of free *)
(* steps guarantee, those of any client do.                                *)
THEOREM ClientsImplement == MCSpec => Implements
<1>1. ASSUME MCInit PROVE Step!Init
  <2>1. Init
    BY <1>1 DEF MCInit, MISInit, MatchingInit, KruskalInit, STInit, ForestInit
  <2>2. Whole = [k \in Slots |-> "ready"]
    BY <2>1 DEF Init, Whole
  <2>3. QED
    BY <2>1, <2>2, SameDriver DEF Init, Step!Init, Whole
<1>2. ASSUME ClientsInv, [MCNext]_vars PROVE [Step!Next]_(Step!specVars)
  <2>1. SpeculativeInv
    BY <1>2 DEF ClientsInv
  <2>2. CASE client = "any"
    BY <1>2, <2>1, <2>2, ClientsSteps, AnyInStep
  <2>3. CASE client = "mis"
    BY <1>2, <2>1, <2>3, ClientsSteps, StepIsDriver, AnyInStep
  <2>4. CASE client = "matching"
    BY <1>2, <2>1, <2>4, ClientsSteps, MatchingInStep
  <2>5. CASE client \in {"kruskal", "st"}
    BY <1>2, <2>1, <2>5, ClientsSteps, ForestInStep, AnyInStep
  <2>6. CASE client \notin {"any", "mis", "matching", "kruskal", "st"}
    BY <1>2, <2>1, <2>6, ClientsSteps, AnyInStep
  <2>7. QED
    BY <2>2, <2>3, <2>4, <2>5, <2>6
<1>3. QED
  BY <1>1, <1>2, ClientsInvariance, PTL DEF MCSpec, Implements, Step!Spec

(* No decision of the independent set is taken back, and it never gets two *)
(* neighbours.                                                             *)
THEOREM ClientsStayIndependent == MCSpec => StaysIndependent
<1>1. ASSUME ClientsInv, ClientsInv', [MCNext]_vars
      PROVE  [\A i \in Iterations :
                /\ Flags[i] # 0 => Flags'[i] = Flags[i]
                /\ Flags'[i] = 1 => \A j \in GS[i] : Flags'[j] # 1]_misVars
  <2>1. client' = client
    BY <1>1, ClientsSteps
  <2>2. CASE client = "mis"
    <3>1. FlagsInv /\ FlagsInv' /\ SpeculativeInv /\ [MISNext]_misVars
      BY <1>1, <2>1, <2>2, ClientsSteps DEF ClientsInv
    <3>2. QED
      BY <3>1, IndependentStep
  <2>3. CASE client # "mis"
    <3>1. Flags = [i \in Iterations |-> 0] /\ Flags' = Flags
      BY <1>1, <2>3, ClientsSteps DEF ClientsInv
    <3>2. ASSUME NEW i \in Iterations, NEW g
          PROVE  /\ Flags[i] # 0 => Flags'[i] = Flags[i]
                 /\ Flags'[i] = 1 => \A j \in g : Flags'[j] # 1
      BY <3>1
    <3>3. QED
      BY <3>2
  <2>4. QED
    BY <2>2, <2>3
<1>2. QED
  BY <1>1, ClientsInvariance, PTL DEF MCSpec, StaysIndependent
===============================================================================
