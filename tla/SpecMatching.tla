---------------------------- MODULE SpecMatching ----------------------------
(***************************************************************************)
(* Maximal matching by deterministic reservations:                         *)
(* benchmarks/maximalMatching/incrementalMatching/matching.C on top of     *)
(* speculative_for.  Iteration i is edge i.  In reserve it writes its      *)
(* number into both endpoints, in commit it wins if it still holds both.   *)
(* The accesses of concurrent iterations to shared cells interleave.       *)
(***************************************************************************)
EXTENDS SpecEdges

VARIABLE matched

matchingVars == <<specVars, E, R, matched>>

MatchingInit ==
    /\ Init
    /\ E \in EdgeGraphs /\ E \in [Iterations -> [u : Vertices, v : Vertices]]
    /\ R = Free(Vertices)
    /\ matched = [x \in Vertices |-> FALSE]

-----------------------------------------------------------------------------
(* reserve.  No one writes matched while iterations reserve.               *)

Dropped(i) == matched[E[i].u] \/ matched[E[i].v] \/ E[i].u = E[i].v

ReserveFails(k) ==
    /\ phase = "reserve" /\ at[k] = "todo" /\ Dropped(Iteration(k))
    /\ EndReserve(k, FALSE)
    /\ UNCHANGED <<E, R, matched>>

ReserveU(k) ==
    /\ phase = "reserve" /\ at[k] = "todo" /\ ~Dropped(Iteration(k))
    /\ R' = Reserved(R, E[Iteration(k)].u, Iteration(k))
    /\ at' = [at EXCEPT ![k] = "reserve v"]
    /\ UNCHANGED <<driver, I, keep, committed, E, matched>>

ReserveV(k) ==
    /\ phase = "reserve" /\ at[k] = "reserve v"
    /\ R' = Reserved(R, E[Iteration(k)].v, Iteration(k))
    /\ EndReserve(k, TRUE)
    /\ UNCHANGED <<E, matched>>

-----------------------------------------------------------------------------
(* commit.  A cell that holds i is written by iteration i only, so a check *)
(* and the reset that follows it are one step.                             *)

CommitV(k) ==
    /\ phase = "commit" /\ at[k] = "todo"
    /\ LET v == E[I[k]].v IN
       IF R[v] = I[k] THEN R' = Reset(R, v) /\ at' = [at EXCEPT ![k] = "commit u"]
                      ELSE R' = R           /\ at' = [at EXCEPT ![k] = "release u"]
    /\ UNCHANGED <<driver, I, keep, committed, E, matched>>

CommitU(k) ==
    /\ phase = "commit" /\ at[k] = "commit u"
    /\ LET u == E[I[k]].u  v == E[I[k]].v IN
       /\ EndCommit(k, R[u] = I[k])
       /\ matched' = IF R[u] = I[k] THEN [matched EXCEPT ![u] = TRUE, ![v] = TRUE]
                                    ELSE matched
    /\ UNCHANGED <<E, R>>

ReleaseUNever(k) ==                    \* mutant: a loser keeps what it holds
    /\ phase = "commit" /\ at[k] = "release u"
    /\ EndCommit(k, FALSE)
    /\ UNCHANGED <<E, R, matched>>

ReleaseU(k) ==
    /\ phase = "commit" /\ at[k] = "release u"
    /\ LET u == E[I[k]].u IN R' = IF R[u] = I[k] THEN Reset(R, u) ELSE R
    /\ EndCommit(k, FALSE)
    /\ UNCHANGED <<E, matched>>

Body(k) ==
    \/ ReserveFails(k) \/ ReserveU(k) \/ ReserveV(k)
    \/ CommitV(k) \/ CommitU(k) \/ ReleaseU(k)

MatchingNext ==
    \/ (DriverNext \/ Stopped) /\ UNCHANGED <<E, R, matched>>
    \/ \E k \in Slots : Body(k)

MatchingSpec == MatchingInit /\ [][MatchingNext]_matchingVars

-----------------------------------------------------------------------------
(* The result, and what it should be.                                      *)

(* pack of lines 79-81: the reservations that are still there.             *)
MatchingIdx == {R[x] : x \in {y \in Vertices : R[y] < max_idx}}

(* serialMatching/matching.C lines 39-47, without the self-loops: an edge  *)
(* is taken if no earlier edge that is taken shares a vertex with it.      *)
Disjoint(a, b) == {a.u, a.v} \cap {b.u, b.v} = {}
SerialMatch[i \in Iterations] ==
    E[i].u # E[i].v /\ \A j \in s..(i - 1) : SerialMatch[j] => Disjoint(E[i], E[j])

(* The loop computes the matching of the serial loop, however iterations   *)
(* interleave and whatever the rounds are; before that, what is matched is *)
(* part of it.                                                             *)
MatchingResult ==
    /\ phase = "start" =>
         \A x \in Vertices : matched[x] =>
           \E i \in Iterations : SerialMatch[i] /\ committed[i] = 1 /\ x \in {E[i].u, E[i].v}
    /\ phase = "end" => MatchingIdx = {i \in Iterations : SerialMatch[i]}

(* Between rounds a vertex that is not matched holds no reservation, so    *)
(* that a later edge can get it, and an edge that was taken is recorded in *)
(* exactly one of its endpoints.                                           *)
MatchingReservations ==
    phase \in {"start", "end"} =>
      /\ \A x \in Vertices : ~matched[x] => R[x] = max_idx
      /\ \A x \in Vertices : R[x] < max_idx =>
           /\ E[R[x]].u = x /\ matched[E[R[x]].v]
           /\ R[E[R[x]].v] # R[x]

-----------------------------------------------------------------------------
(* The inductive invariant.                                                *)

Ends(i)     == {E[i].u, E[i].v}
Done(i)     == committed[i] # 0
Has(k)      == Ends(Iteration(k))
MatchingSteps == {"todo", "ready", "reserve v", "commit u", "release u"}

MatchingTypeOK ==
    /\ E \in [Iterations -> [u : Vertices, v : Vertices]]
    /\ R \in [Vertices -> s..e] /\ matched \in [Vertices -> BOOLEAN]
    /\ at \in [Slots -> MatchingSteps]
    /\ \A k \in Slots :
         /\ at[k] = "reserve v" => phase = "reserve"
         /\ at[k] \in {"commit u", "release u"} => phase = "commit"

(* What is matched is matched by the edges of the serial loop that are     *)
(* done, and each of them is recorded in one of its ends.                  *)
MatchedInv ==
    /\ \A x \in Vertices : matched[x] =>
         \E i \in Iterations : SerialMatch[i] /\ Done(i) /\ x \in Ends(i)
    /\ \A i \in Iterations : SerialMatch[i] /\ Done(i) =>
         /\ matched[E[i].u] /\ matched[E[i].v]
         /\ R[E[i].u] = i /\ R[E[i].v] # i
    /\ \A x \in Vertices : matched[x] /\ R[x] < max_idx =>
         SerialMatch[R[x]] /\ Done(R[x]) /\ E[R[x]].u = x

(* The slot k has reserved x, and has not given it back.                   *)
Holds(k, x) ==
    \/ phase = "reserve" /\ at[k] = "reserve v" /\ x = E[Iteration(k)].u
    \/ phase = "reserve" /\ at[k] = "ready" /\ keep[k] /\ x \in Has(k)
    \/ phase = "commit" /\ at[k] = "todo" /\ x \in Has(k)
    \/ phase = "commit" /\ at[k] \in {"commit u", "release u"} /\ x = E[Iteration(k)].u

(* A reservation of a vertex that is not matched is that of a slot that    *)
(* will use it or give it back; slots that reserve find the least number.  *)
HeldInv ==
    /\ \A x \in Vertices : ~matched[x] /\ R[x] < max_idx =>
         \E k \in Running : R[x] = Iteration(k) /\ Holds(k, x)
    /\ \A k \in Running, x \in Vertices :
         phase = "reserve" /\ Holds(k, x) => ~Dropped(Iteration(k)) /\ R[x] <= Iteration(k)

(* No edge of the serial loop before i has the vertex x.                   *)
First(i, x) == \A j \in Iterations : j < i /\ SerialMatch[j] => x \notin Ends(j)

(* Which edge holds a vertex in commit is the first in the serial loop.    *)
WinnerInv ==
    phase = "commit" => \A k \in Running :
      /\ at[k] # "ready" => E[Iteration(k)].u # E[Iteration(k)].v
      /\ at[k] # "ready" => \A x \in Has(k) : R[x] = Iteration(k) => First(Iteration(k), x)
      /\ at[k] = "commit u" => /\ First(Iteration(k), E[Iteration(k)].v)
                               /\ R[E[Iteration(k)].v] = max_idx

MatchingInv == MatchingTypeOK /\ MatchedInv /\ HeldInv /\ WinnerInv

(* The first edge of a round gets both its cells.                          *)
FirstHolds ==
    phase = "commit" /\ 0 \in Running =>
      /\ \A x \in Vertices : Holds(0, x) => R[x] = Iteration(0)
      /\ at[0] # "release u"

FirstEdgeInv == FirstDone /\ FirstHolds
=============================================================================
