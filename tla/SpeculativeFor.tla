--------------------------- MODULE SpeculativeFor ---------------------------
(***************************************************************************)
(* speculative_for of common/speculative_for.h, the loop of deterministic  *)
(* reservations.  Iterations s .. e-1 run in rounds over a prefix of those *)
(* not done yet: all reserve in parallel, then all commit in parallel, and *)
(* those that fail to commit are kept for the next round.                  *)
(*                                                                         *)
(* This module is the driver with any step at all: whether an iteration    *)
(* reserves and commits is a free choice.  SpecMatching, SpecMIS and       *)
(* SpecForests put a real step in its place and are shown to implement it. *)
(***************************************************************************)
EXTENDS Integers, Sequences, FiniteSets

CONSTANTS
    s, e,           \* the range of the loop
    Granularity,    \* the parameter granularity
    MaxTries,       \* the parameter maxTries, negative for the default
    NDEBUG          \* is assert compiled out, as in common/parallelDefs

ASSUME SpeculativeForAssumption ==
    /\ s \in Nat /\ e \in Nat /\ s <= e
    /\ Granularity \in Nat \ {0} /\ MaxTries \in Int
    /\ NDEBUG \in BOOLEAN

maxTries     == IF MaxTries < 0 THEN 100 + 200 * Granularity ELSE MaxTries
maxRoundSize == ((e - s) \div Granularity) + 1

VARIABLES
    phase,             \* where the driver is
    round, numberDone, numberKeep, currentRoundSize, size,
    I, keep, Ihold,    \* the arrays of those names
    at,                \* [slot -> "todo" or "ready": has its body run]
    committed          \* history: [iteration -> how often it was completed]

driver == <<phase, round, numberDone, numberKeep, currentRoundSize, size, Ihold>>
slots  == <<I, keep, at>>
specVars == <<driver, slots, committed>>

Slots      == 0..(maxRoundSize - 1)
Running    == 0..(size - 1)            \* the slots of this round
Iterations == s..(e - 1)

MinOf(a, b) == IF a <= b THEN a ELSE b
MaxOf(a, b) == IF a >= b THEN a ELSE b

Init ==
    /\ phase = "start" /\ round = 0
    /\ numberDone = s /\ numberKeep = 0
    /\ currentRoundSize = maxRoundSize \div 4 /\ size = 0
    /\ Ihold = << >>
    /\ I = [k \in Slots |-> s] /\ keep = [k \in Slots |-> FALSE]
    /\ at = [k \in Slots |-> "ready"]
    /\ committed = [i \in Iterations |-> 0]

-----------------------------------------------------------------------------
(* The reservations that steps use, lines 34-48: the iterations that want  *)
(* x write the minimum of their numbers into R[x].                         *)

max_idx       == e                     \* above every iteration
Free(X)       == [x \in X |-> max_idx]
Reserved(R, x, i) == [R EXCEPT ![x] = MinOf(@, i)]
Reset(R, x)   == [R EXCEPT ![x] = max_idx]

-----------------------------------------------------------------------------
(* The loop test and the head of its body, lines 69-75.                    *)

Finish ==
    /\ phase = "start" /\ numberDone >= e
    /\ phase' = "end"
    /\ UNCHANGED <<round, numberDone, numberKeep, currentRoundSize, size, Ihold,
                   slots, committed>>

(* The assertion of line 72 fails.                                         *)
GiveUp ==
    /\ phase = "start" /\ numberDone < e /\ round > maxTries /\ ~NDEBUG
    /\ phase' = "too many iterations"
    /\ UNCHANGED <<round, numberDone, numberKeep, currentRoundSize, size, Ihold,
                   slots, committed>>

IterationAgain(k) == IF k < numberKeep THEN Ihold[k + 1]   \* mutant: an off-by-one
                                         ELSE numberDone + k + 1

(* The iteration that slot k works on in this round, lines 80 and 85.      *)
Iteration(k) == IF k < numberKeep THEN Ihold[k + 1] ELSE numberDone + k

StartRound ==
    /\ phase = "start" /\ numberDone < e /\ (round <= maxTries \/ NDEBUG)
    /\ round' = MinOf(round + 1, maxTries + 1)     \* bound: stays there
    /\ size' = MinOf(currentRoundSize, e - numberDone)
    /\ phase' = "reserve"
    /\ at' = [k \in Slots |-> IF k < size' THEN "todo" ELSE "ready"]
    /\ UNCHANGED <<numberDone, numberKeep, currentRoundSize, Ihold, I, keep, committed>>

-----------------------------------------------------------------------------
(* The bodies of the two parallel loops, as their effect on the driver.    *)

(* reserve of slot k returns b, lines 79-87.                               *)
EndReserve(k, b) ==
    /\ I' = [I EXCEPT ![k] = Iteration(k)]
    /\ keep' = [keep EXCEPT ![k] = b]
    /\ at' = [at EXCEPT ![k] = "ready"]
    /\ committed' = IF b THEN committed ELSE [committed EXCEPT ![Iteration(k)] = @ + 1]
    /\ UNCHANGED driver

(* commit of slot k returns b, lines 90-96.                                *)
EndCommit(k, b) ==
    /\ keep' = [keep EXCEPT ![k] = ~b]
    /\ at' = [at EXCEPT ![k] = "ready"]
    /\ committed' = IF b THEN [committed EXCEPT ![I[k]] = @ + 1] ELSE committed
    /\ UNCHANGED <<driver, I>>

Reserve(k) == phase = "reserve" /\ at[k] = "todo" /\ \E b \in BOOLEAN : EndReserve(k, b)
Commit(k)  == phase = "commit" /\ at[k] = "todo" /\ \E b \in BOOLEAN : EndCommit(k, b)

AllStarted == \A k \in Running : at[k] # "todo"   \* mutant: does not join

(* parallel_for returns when all its iterations have run.                  *)
AllReady == \A k \in Running : at[k] = "ready"

EndOfReserves ==
    /\ phase = "reserve" /\ AllReady
    /\ phase' = "commit"
    /\ at' = [k \in Slots |-> IF k \in Running /\ keep[k] THEN "todo" ELSE "ready"]
    /\ UNCHANGED <<round, numberDone, numberKeep, currentRoundSize, size, Ihold,
                   I, keep, committed>>

-----------------------------------------------------------------------------
(* The end of a round, lines 99-111.                                       *)

(* pack: the iterations of the slots that are kept, in the order of slots. *)
Kept    == {k \in Running : keep[k]}
Rank(k) == Cardinality({l \in Kept : l < k})
Packed  == [j \in 1..Cardinality(Kept) |-> I[CHOOSE k \in Kept : Rank(k) = j - 1]]

(* The quotients are computed in float and compared with doubles: a fifth  *)
(* in float is above .2, a tenth is not below .1.  When size is 0 the      *)
(* quotient is not a number and both comparisons are false.                *)
NextRoundSize(n) ==
    IF size # 0 /\ 5 * n >= size
      THEN MaxOf(currentRoundSize \div 2, MaxOf((maxRoundSize \div 64) + 1, n))
    ELSE IF size # 0 /\ 10 * n < size
      THEN MinOf(currentRoundSize * 2, maxRoundSize)
    ELSE currentRoundSize

EndRound ==
    /\ phase = "commit" /\ AllReady
    /\ phase' = "start"
    /\ Ihold' = Packed
    /\ numberKeep' = Len(Ihold')
    /\ numberDone' = numberDone + size - numberKeep'
    /\ currentRoundSize' = NextRoundSize(numberKeep')
    /\ UNCHANGED <<round, size, slots, committed>>

-----------------------------------------------------------------------------
(* The loop has returned or the assertion has stopped the program.         *)
Stopped == phase \in {"end", "too many iterations"} /\ UNCHANGED specVars

DriverNext == Finish \/ GiveUp \/ StartRound \/ EndOfReserves \/ EndRound

Next == DriverNext \/ Stopped \/ \E k \in Slots : Reserve(k) \/ Commit(k)

Spec == Init /\ [][Next]_specVars

-----------------------------------------------------------------------------
(* Properties.                                                             *)

TypeOK ==
    /\ phase \in {"start", "reserve", "commit", "end", "too many iterations"}
    /\ round \in 0..(maxTries + 1)
    /\ numberDone \in s..e
    /\ numberKeep \in 0..maxRoundSize /\ numberKeep = Len(Ihold)
    /\ currentRoundSize \in 0..maxRoundSize
    /\ size \in 0..maxRoundSize
    /\ I \in [Slots -> s..e] /\ keep \in [Slots -> BOOLEAN]
    /\ Ihold \in Seq(Iterations)
    /\ DOMAIN at = Slots
    /\ committed \in [Iterations -> Nat]

(* Between rounds: the iterations handed out so far are the first ones, up *)
(* to numberDone + numberKeep; those in Ihold are still to do and are in   *)
(* order, all others have been completed exactly once.  None is lost or    *)
(* run again, whatever the round sizes do.                                 *)
EachOnce ==
    phase \in {"start", "end"} =>
      /\ \A i \in Iterations :
           committed[i] = IF i >= numberDone + numberKeep
                             \/ \E j \in 1..numberKeep : Ihold[j] = i THEN 0 ELSE 1
      /\ \A j \in 1..(numberKeep - 1) : Ihold[j] < Ihold[j + 1]
      /\ phase = "end" => \A i \in Iterations : committed[i] = 1

(* A round has room for everything that was kept, and never more slots     *)
(* than the arrays have.                                                   *)
RoundFits ==
    /\ TypeOK
    /\ phase = "start" /\ numberDone < e /\ currentRoundSize > 0 =>
         MinOf(currentRoundSize, e - numberDone) >= numberKeep
    /\ size <= maxRoundSize
    /\ \A k \in Running : phase = "reserve" /\ k < numberKeep => k + 1 <= Len(Ihold)

(* Iterations that were kept, and the rounds that hold them: none is lost, *)
(* none run twice, and no array overrun (pack and the copies of lines      *)
(* 99-104).                                                                *)
RoundsAreRight == EachOnce /\ RoundFits

-----------------------------------------------------------------------------
(* The inductive invariant.                                                *)

InRound == phase \in {"reserve", "commit"}

(* What is carried over is in order, was handed out before, and fits into  *)
(* the next round.                                                         *)
DriverInv ==
    /\ numberKeep <= currentRoundSize /\ numberDone + numberKeep <= e
    /\ InRound => numberKeep <= size /\ size <= currentRoundSize /\ numberDone + size <= e
    /\ phase = "end" => numberDone = e
    /\ \A j \in 1..numberKeep : Ihold[j] < numberDone + numberKeep
    /\ \A j, l \in 1..numberKeep : j < l => Ihold[j] < Ihold[l]

(* Between rounds.                                                         *)
RestInv ==
    ~InRound =>
      \A i \in Iterations :
        committed[i] = IF i >= numberDone + numberKeep
                          \/ \E j \in 1..numberKeep : Ihold[j] = i THEN 0 ELSE 1

(* Within a round: an iteration that no slot has is as it was, the others  *)
(* are completed when their slot has let them go.                          *)
RoundInv ==
    InRound =>
      /\ \A i \in Iterations :
           (\A k \in Running : Iteration(k) # i) =>
              committed[i] = IF i >= numberDone + size THEN 0 ELSE 1
      /\ \A k \in Slots : at[k] # "ready" => k \in Running
      /\ \A k \in Running :
           /\ committed[Iteration(k)] = IF at[k] # "ready" \/ keep[k] THEN 0 ELSE 1
           /\ at[k] = "ready" \/ phase = "commit" => I[k] = Iteration(k)
           /\ phase = "commit" /\ at[k] # "ready" => keep[k]

SpeculativeInv == TypeOK /\ DriverInv /\ RestInv /\ RoundInv

(* Of the clients, not of free steps: slot 0, which has the first of the   *)
(* iterations that are left, is done when it has committed.                *)
FirstDone == phase = "commit" /\ 0 \in Running /\ at[0] = "ready" => ~keep[0]
=============================================================================
