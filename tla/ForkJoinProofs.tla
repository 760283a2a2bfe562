--------------------------- MODULE ForkJoinProofs ---------------------------
(***************************************************************************)
(* The fork-join scheduler, for every number of workers and every          *)
(* fork-join program: no job is used after its pardo is over, a worker     *)
(* pops the job that it has spawned, and thunks run as the program says.   *)
(***************************************************************************)
EXTENDS ForkJoin, SequenceTheorems, TLAPS

Frames == ThunkFrames \cup LoopFrames

(* ------------------------- The program --------------------------------- *)

LEMMA ChildFacts ==
    ASSUME NEW p \in Tasks, NEW i \in DOMAIN Pardos[p]
    PROVE  /\ Pardos[p][i][1] \in Tasks /\ Pardos[p][i][2] \in Tasks
           /\ Pardos[p][i][1] # Root /\ Pardos[p][i][2] # Root
           /\ Pardos[p][i][1] # Pardos[p][i][2]
           /\ Dag!Children(p, i) = {Pardos[p][i][1], Pardos[p][i][2]}
<1>1. Pardos[p] \in Seq(Tasks \X Tasks)
  BY ForkJoinAssumption
<1>2. Pardos[p][i] \in Tasks \X Tasks
  BY <1>1, LenProperties, ElementOfSeq
<1>3. 1 \in {1, 2} /\ 2 \in {1, 2} /\ 1 # 2
  OBVIOUS
<1>4. QED
  BY <1>2, <1>3, ForkJoinAssumption DEF OneParent, Dag!Children

(* A task is a child in one place.                                         *)
LEMMA ParentUnique ==
    ASSUME NEW p \in Tasks, NEW q \in Tasks, NEW i \in DOMAIN Pardos[p], NEW j \in DOMAIN Pardos[q],
           NEW t, t \in Dag!Children(p, i), t \in Dag!Children(q, j)
    PROVE  p = q /\ i = j
<1>1. PICK a \in {1, 2} : t = Pardos[p][i][a]
  BY DEF Dag!Children
<1>2. PICK b \in {1, 2} : t = Pardos[q][j][b]
  BY DEF Dag!Children
<1>3. Pardos[p][i][a] = Pardos[q][j][b]
  BY <1>1, <1>2
<1>4. OneParent
  BY ForkJoinAssumption
<1>5. QED
  BY <1>1, <1>2, <1>3, <1>4 DEF OneParent

(* ... and on one side.                                                    *)
LEMMA SidesDiffer ==
    ASSUME NEW p \in Tasks, NEW q \in Tasks, NEW i \in DOMAIN Pardos[p], NEW j \in DOMAIN Pardos[q]
    PROVE  /\ Pardos[p][i][1] # Pardos[q][j][2]
           /\ Pardos[p][i][2] = Pardos[q][j][2] => p = q /\ i = j
<1>1. 1 \in {1, 2} /\ 2 \in {1, 2} /\ 1 # 2
  OBVIOUS
<1>2. QED
  BY <1>1, ForkJoinAssumption DEF OneParent

(* ------------------------- Frames -------------------------------------- *)

LEMMA ThunkFields ==
    ASSUME NEW f \in ThunkFrames
    PROVE  /\ f.kind = "thunk" /\ f.task \in Tasks /\ f.job \in BOOLEAN
           /\ f.at \in Nat \ {0} /\ f.pc \in ThunkPcs
  BY DEF ThunkFrames

LEMMA LoopFields ==
    ASSUME NEW f \in LoopFrames
    PROVE  /\ f.kind = "loop" /\ f.until \in Tasks \cup {Shutdown} /\ f.pc \in LoopPcs
  BY DEF LoopFrames

LEMMA ThunkAt ==
    ASSUME NEW f \in ThunkFrames, NEW p \in ThunkPcs
    PROVE  /\ [f EXCEPT !.pc = p] \in ThunkFrames
           /\ [f EXCEPT !.pc = p].kind = "thunk" /\ [f EXCEPT !.pc = p].pc = p
           /\ [f EXCEPT !.pc = p].task = f.task /\ [f EXCEPT !.pc = p].at = f.at
           /\ [f EXCEPT !.pc = p].job = f.job
  BY DEF ThunkFrames

LEMMA LoopAt ==
    ASSUME NEW f \in LoopFrames, NEW p \in LoopPcs
    PROVE  /\ [f EXCEPT !.pc = p] \in LoopFrames
           /\ [f EXCEPT !.pc = p].kind = "loop" /\ [f EXCEPT !.pc = p].pc = p
           /\ [f EXCEPT !.pc = p].until = f.until
  BY DEF LoopFrames

LEMMA NextPardoFields ==
    ASSUME NEW f \in ThunkFrames
    PROVE  /\ NextPardo(f) \in ThunkFrames
           /\ NextPardo(f).kind = "thunk" /\ NextPardo(f).pc = "body"
           /\ NextPardo(f).task = f.task /\ NextPardo(f).at = f.at + 1
           /\ NextPardo(f).job = f.job
<1>1. f.at \in Nat \ {0}
  BY ThunkFields
<1>2. f.at + 1 \in Nat \ {0}
  BY <1>1
<1>3. QED
  BY <1>2 DEF ThunkFrames, NextPardo, ThunkPcs

LEMMA NewThunk ==
    ASSUME NEW t \in Tasks, NEW j \in BOOLEAN
    PROVE  /\ ThunkFrame(t, j) \in ThunkFrames
           /\ ThunkFrame(t, j).kind = "thunk" /\ ThunkFrame(t, j).task = t
           /\ ThunkFrame(t, j).job = j /\ ThunkFrame(t, j).at = 1
           /\ ThunkFrame(t, j).pc \in {"lock", "body"}
  BY DEF ThunkFrames, ThunkFrame, ThunkPcs

LEMMA NewLoop ==
    ASSUME NEW u \in Tasks \cup {Shutdown}
    PROVE  /\ LoopFrame(u) \in LoopFrames
           /\ LoopFrame(u).kind = "loop" /\ LoopFrame(u).until = u /\ LoopFrame(u).pc = "check"
  BY DEF LoopFrames, LoopFrame, LoopPcs

LEMMA FrameKinds ==
    ASSUME NEW f \in Frames
    PROVE  /\ f.kind = "thunk" <=> f \in ThunkFrames
           /\ f.kind = "loop" <=> f \in LoopFrames
           /\ f.kind \in {"thunk", "loop"}
  BY DEF Frames, ThunkFrames, LoopFrames

(* ------------------------- Stacks -------------------------------------- *)

LEMMA UnderFacts ==
    ASSUME NEW S, NEW s \in Seq(S), s # << >>
    PROVE  /\ SubSeq(s, 1, Len(s) - 1) \in Seq(S)
           /\ Len(SubSeq(s, 1, Len(s) - 1)) = Len(s) - 1
           /\ \A k \in 1..(Len(s) - 1) : SubSeq(s, 1, Len(s) - 1)[k] = s[k]
           /\ Len(s) \in Nat \ {0}
<1>1. Len(s) \in Nat \ {0}
  BY EmptySeq
<1>2. \A k \in 1..(Len(s) - 1) : s[k] \in S
  BY <1>1, ElementOfSeq
<1>3. /\ SubSeq(s, 1, Len(s) - 1) \in Seq(S)
      /\ Len(SubSeq(s, 1, Len(s) - 1)) = IF 1 <= Len(s) - 1 THEN Len(s) - 1 - 1 + 1 ELSE 0
      /\ \A k \in 1..(Len(s) - 1 - 1 + 1) : SubSeq(s, 1, Len(s) - 1)[k] = s[1 + k - 1]
  BY <1>1, <1>2, SubSeqProperties
<1>4. (IF 1 <= Len(s) - 1 THEN Len(s) - 1 - 1 + 1 ELSE 0) = Len(s) - 1
  <2>1. \A n \in Nat : n # 0 => (IF 1 <= n - 1 THEN n - 1 - 1 + 1 ELSE 0) = n - 1
    OBVIOUS
  <2>2. QED
    BY <1>1, <2>1
<1>5. ASSUME NEW k \in 1..(Len(s) - 1) PROVE SubSeq(s, 1, Len(s) - 1)[k] = s[k]
  <2>1. k \in 1..(Len(s) - 1 - 1 + 1) /\ 1 + k - 1 = k
    BY <1>1
  <2>2. QED
    BY <2>1, <1>3
<1>6. QED
  BY <1>1, <1>3, <1>4, <1>5

(* The innermost frame of s becomes x, or calls y; or it returns, and the  *)
(* one below it becomes x.                                                 *)
OnTop(s, x) == Append(SubSeq(s, 1, Len(s) - 1), x)
OnCall(s, x, y) == Append(OnTop(s, x), y)
OnReturn(s, x) == [SubSeq(s, 1, Len(s) - 1) EXCEPT ![Len(s) - 1] = x]

LEMMA TopReplaced ==
    ASSUME NEW S, NEW s \in Seq(S), s # << >>, NEW x \in S
    PROVE  /\ OnTop(s, x) \in Seq(S) /\ Len(OnTop(s, x)) = Len(s) /\ OnTop(s, x)[Len(s)] = x
           /\ \A k \in 1..(Len(s) - 1) : OnTop(s, x)[k] = s[k]
<1> DEFINE u == SubSeq(s, 1, Len(s) - 1)
<1>1. /\ u \in Seq(S) /\ Len(u) = Len(s) - 1 /\ Len(s) \in Nat \ {0}
      /\ \A k \in 1..(Len(s) - 1) : u[k] = s[k]
  BY UnderFacts
<1>2. OnTop(s, x) = Append(u, x)
  BY DEF OnTop
<1> HIDE DEF u
<1>3. /\ Append(u, x) \in Seq(S) /\ Len(Append(u, x)) = Len(u) + 1 /\ Append(u, x)[Len(u) + 1] = x
      /\ \A k \in 1..Len(u) : Append(u, x)[k] = u[k]
  BY <1>1, AppendProperties
<1>4. Len(u) + 1 = Len(s)
  BY <1>1
<1>5. QED
  BY <1>1, <1>2, <1>3, <1>4

LEMMA Pushed ==
    ASSUME NEW S, NEW s \in Seq(S), s # << >>, NEW x \in S, NEW y \in S
    PROVE  /\ OnCall(s, x, y) \in Seq(S) /\ Len(OnCall(s, x, y)) = Len(s) + 1
           /\ OnCall(s, x, y)[Len(s)] = x /\ OnCall(s, x, y)[Len(s) + 1] = y
           /\ \A k \in 1..(Len(s) - 1) : OnCall(s, x, y)[k] = s[k]
<1> DEFINE r == OnTop(s, x)
<1>1. /\ r \in Seq(S) /\ Len(r) = Len(s) /\ r[Len(s)] = x
      /\ \A k \in 1..(Len(s) - 1) : r[k] = s[k]
  BY TopReplaced
<1>2. Len(s) \in Nat \ {0}
  BY EmptySeq
<1> HIDE DEF r
<1>3. /\ Append(r, y) \in Seq(S) /\ Len(Append(r, y)) = Len(r) + 1 /\ Append(r, y)[Len(r) + 1] = y
      /\ \A k \in 1..Len(r) : Append(r, y)[k] = r[k]
  BY <1>1, AppendProperties
<1>4. Len(s) \in 1..Len(r) /\ \A k \in 1..(Len(s) - 1) : k \in 1..Len(r)
  BY <1>1, <1>2
<1>5. QED
  BY <1>1, <1>3, <1>4 DEF r, OnCall

LEMMA Popped ==
    ASSUME NEW S, NEW s \in Seq(S), Len(s) > 1, NEW x \in S
    PROVE  /\ OnReturn(s, x) \in Seq(S) /\ Len(OnReturn(s, x)) = Len(s) - 1
           /\ OnReturn(s, x)[Len(s) - 1] = x
           /\ \A k \in 1..(Len(s) - 2) : OnReturn(s, x)[k] = s[k]
<1> DEFINE u == SubSeq(s, 1, Len(s) - 1)
<1>1. s # << >>
  BY EmptySeq
<1>2. /\ u \in Seq(S) /\ Len(u) = Len(s) - 1 /\ Len(s) \in Nat
      /\ \A k \in 1..(Len(s) - 1) : u[k] = s[k]
  BY <1>1, UnderFacts
<1>3. OnReturn(s, x) = [u EXCEPT ![Len(s) - 1] = x]
  BY DEF OnReturn
<1> HIDE DEF u
<1>4. Len(s) - 1 \in 1..Len(u)
  BY <1>2
<1>5. LET t == [u EXCEPT ![Len(s) - 1] = x] IN
      /\ t \in Seq(S) /\ Len(t) = Len(u)
      /\ \A k \in 1..Len(u) : t[k] = IF k = Len(s) - 1 THEN x ELSE u[k]
  BY <1>2, <1>4, ExceptSeq
<1>6. \A k \in 1..(Len(s) - 2) : k \in 1..Len(u) /\ k \in 1..(Len(s) - 1) /\ k # Len(s) - 1
  BY <1>2
<1>7. QED
  BY <1>2, <1>3, <1>4, <1>5, <1>6

(* The stack s becomes r: below place m nothing changes, at m the frame is *)
(* now x, and y is above it if there are n = m + 1 frames.                 *)
Moved(s, r, m, n, x, y) ==
    /\ s \in Seq(Frames) /\ r \in Seq(Frames)
    /\ Len(s) \in {m, m + 1} /\ n \in {m, m + 1} /\ Len(r) = n
    /\ \A k \in 1..(m - 1) : r[k] = s[k]
    /\ m > 0 => r[m] = x
    /\ n = m + 1 => r[n] = y

Moves(w, m, n, x, y) ==
    /\ stack' \in [Workers -> Seq(Frames)]
    /\ \A v \in Workers \ {w} : stack'[v] = stack[v]
    /\ Moved(stack[w], stack'[w], m, n, x, y)

LEMMA StackType ==
    ASSUME TypeOK, NEW w \in Workers
    PROVE  /\ stack[w] \in Seq(Frames) /\ Len(stack[w]) \in Nat /\ Depth(w) = 1..Len(stack[w])
           /\ \A k \in Depth(w) : stack[w][k] \in Frames
           /\ stack[w] # << >> => Len(stack[w]) \in Nat \ {0} /\ Len(stack[w]) \in Depth(w)
                                  /\ Top(w) \in Frames
<1>1. stack[w] \in Seq(Frames)
  BY DEF TypeOK, Frames
<1>2. Len(stack[w]) \in Nat /\ Depth(w) = 1..Len(stack[w])
  BY <1>1 DEF Depth
<1>3. \A k \in 1..Len(stack[w]) : stack[w][k] \in Frames
  BY <1>1, ElementOfSeq
<1>4. ASSUME stack[w] # << >> PROVE Len(stack[w]) \in Nat \ {0} /\ Len(stack[w]) \in Depth(w)
  <2>1. Len(stack[w]) \in Nat \ {0}
    BY <1>1, <1>4, EmptySeq
  <2>2. Len(stack[w]) \in 1..Len(stack[w])
    BY <2>1
  <2>3. QED
    BY <2>1, <2>2, <1>2
<1>5. QED
  BY <1>1, <1>2, <1>3, <1>4 DEF Top

LEMMA GotoMoves ==
    ASSUME TypeOK, NEW w \in Workers, stack[w] # << >>, NEW x \in Frames,
           stack' = [stack EXCEPT ![w] = Append(Under(w), x)]
    PROVE  Moves(w, Len(stack[w]), Len(stack[w]), x, x)
<1>1. PICK s : s = stack[w]
  OBVIOUS
<1>2. s \in Seq(Frames) /\ s # << >> /\ Len(s) \in Nat \ {0}
  BY <1>1, StackType
<1>3. stack \in [Workers -> Seq(Frames)]
  BY DEF TypeOK, Frames
<1>4. stack'[w] = OnTop(s, x)
  BY <1>1, <1>3 DEF Under, OnTop
<1>5. /\ OnTop(s, x) \in Seq(Frames) /\ Len(OnTop(s, x)) = Len(s) /\ OnTop(s, x)[Len(s)] = x
      /\ \A k \in 1..(Len(s) - 1) : OnTop(s, x)[k] = s[k]
  BY <1>2, TopReplaced
<1>6. stack' \in [Workers -> Seq(Frames)] /\ \A v \in Workers \ {w} : stack'[v] = stack[v]
  BY <1>3, <1>4, <1>5
<1>7. Len(s) # Len(s) + 1
  BY <1>2
<1>8. QED
  BY <1>1, <1>2, <1>4, <1>5, <1>6, <1>7 DEF Moves, Moved

LEMMA CallMoves ==
    ASSUME TypeOK, NEW w \in Workers, stack[w] # << >>, NEW x \in Frames, NEW y \in Frames,
           stack' = [stack EXCEPT ![w] = Append(Append(Under(w), x), y)]
    PROVE  Moves(w, Len(stack[w]), Len(stack[w]) + 1, x, y)
<1>1. PICK s : s = stack[w]
  OBVIOUS
<1>2. s \in Seq(Frames) /\ s # << >> /\ Len(s) \in Nat \ {0}
  BY <1>1, StackType
<1>3. stack \in [Workers -> Seq(Frames)]
  BY DEF TypeOK, Frames
<1>4. stack'[w] = OnCall(s, x, y)
  BY <1>1, <1>3 DEF Under, OnTop, OnCall
<1>5. /\ OnCall(s, x, y) \in Seq(Frames) /\ Len(OnCall(s, x, y)) = Len(s) + 1
      /\ OnCall(s, x, y)[Len(s)] = x /\ OnCall(s, x, y)[Len(s) + 1] = y
      /\ \A k \in 1..(Len(s) - 1) : OnCall(s, x, y)[k] = s[k]
  BY <1>2, Pushed
<1>6. stack' \in [Workers -> Seq(Frames)] /\ \A v \in Workers \ {w} : stack'[v] = stack[v]
  BY <1>3, <1>4, <1>5
<1>7. QED
  BY <1>1, <1>2, <1>4, <1>5, <1>6 DEF Moves, Moved

(* What Return does, if the frame below goes on as x.                      *)
LEMMA ReturnMoves ==
    ASSUME TypeOK, NEW w \in Workers, stack[w] # << >>, Return(w),
           NEW x, Len(stack[w]) > 1 => x \in Frames /\ x = Resumed(stack[w][Len(stack[w]) - 1])
    PROVE  Moves(w, Len(stack[w]) - 1, Len(stack[w]) - 1, x, x)
<1>0. PICK s : s = stack[w]
  OBVIOUS
<1> DEFINE u == SubSeq(s, 1, Len(s) - 1)
<1>1. s \in Seq(Frames) /\ s # << >> /\ Len(s) \in Nat \ {0}
  BY <1>0, StackType
<1>2. stack \in [Workers -> Seq(Frames)]
  BY DEF TypeOK, Frames
<1>3. u \in Seq(Frames) /\ Len(u) = Len(s) - 1 /\ \A k \in 1..(Len(s) - 1) : u[k] = s[k]
  BY <1>1, UnderFacts
<1>4. CASE u = << >>
  <2>1. Len(s) - 1 = 0
    BY <1>3, <1>4, EmptySeq
  <2>2. stack' = [stack EXCEPT ![w] = << >>]
    BY <1>0, <1>4 DEF Return, Under
  <2>3. stack'[w] = << >> /\ \A v \in Workers \ {w} : stack'[v] = stack[v]
    BY <1>2, <2>2
  <2>4. stack' \in [Workers -> Seq(Frames)] /\ Len(stack'[w]) = 0
    BY <1>2, <2>2, <2>3, EmptySeq
  <2>5. Len(s) \in {0, 1} /\ 0 \in {0, 1} /\ 0 # 0 + 1 /\ ~(0 > 0) /\ 0 + 1 = 1
    BY <1>1, <2>1
  <2>6. \A k \in 1..(0 - 1) : FALSE
    OBVIOUS
  <2>7. QED
    BY <1>0, <1>1, <2>1, <2>3, <2>4, <2>5, <2>6 DEF Moves, Moved
<1>5. CASE u # << >>
  <2>1. Len(s) - 1 \in Nat \ {0}
    BY <1>3, <1>5, EmptySeq
  <2>2. Len(s) > 1 /\ Len(s) - 1 \in 1..(Len(s) - 1)
    <3>1. \A n \in Nat : n - 1 \in Nat \ {0} => n > 1 /\ n - 1 \in 1..(n - 1)
      OBVIOUS
    <3>2. QED
      BY <1>1, <2>1, <3>1
  <2>3. x \in Frames /\ x = Resumed(u[Len(s) - 1])
    BY <1>0, <1>3, <2>2
  <2>4. stack' = [stack EXCEPT ![w] = [u EXCEPT ![Len(u)] = Resumed(u[Len(u)])]]
    BY <1>0, <1>5 DEF Return, Under
  <2>5. stack'[w] = OnReturn(s, x) /\ \A v \in Workers \ {w} : stack'[v] = stack[v]
    BY <1>2, <1>3, <2>3, <2>4 DEF OnReturn
  <2>6. /\ stack'[w] \in Seq(Frames) /\ Len(stack'[w]) = Len(s) - 1 /\ stack'[w][Len(s) - 1] = x
        /\ \A k \in 1..(Len(s) - 2) : stack'[w][k] = s[k]
    <3>0. x \in Frames
      BY <2>3
    <3>1. /\ OnReturn(s, x) \in Seq(Frames) /\ Len(OnReturn(s, x)) = Len(s) - 1
          /\ OnReturn(s, x)[Len(s) - 1] = x
          /\ \A k \in 1..(Len(s) - 2) : OnReturn(s, x)[k] = s[k]
      BY <1>1, <2>2, <3>0, Popped
    <3>2. QED
      BY <2>5, <3>1
  <2>7. stack' \in [Workers -> Seq(Frames)]
    BY <1>2, <2>4, <2>6
  <2>8. /\ Len(s) \in {Len(s) - 1, Len(s) - 1 + 1} /\ Len(s) - 1 # Len(s) - 1 + 1
        /\ Len(s) - 1 - 1 = Len(s) - 2
    BY <1>1
  <2>9. QED
    BY <1>0, <1>1, <2>5, <2>6, <2>7, <2>8 DEF Moves, Moved
<1>6. QED
  BY <1>4, <1>5

(* ------------------------- Deques and stacks --------------------------- *)

LEMMA DequeType ==
    ASSUME TypeOK, NEW w \in Workers
    PROVE  /\ deque[w] \in Seq(Tasks) /\ Len(deque[w]) \in Nat
           /\ \A i \in 1..Len(deque[w]) : deque[w][i] \in Tasks
           /\ deque[w] # << >> => Len(deque[w]) \in Nat \ {0} /\ 1 \in 1..Len(deque[w])
                                  /\ Len(deque[w]) \in 1..Len(deque[w])
<1>1. PICK d : d = deque[w]
  OBVIOUS
<1>2. d \in Seq(Tasks)
  BY <1>1 DEF TypeOK
<1>3. Len(d) \in Nat /\ \A i \in 1..Len(d) : d[i] \in Tasks
  BY <1>2, ElementOfSeq
<1>4. d # << >> => Len(d) \in Nat \ {0}
  BY <1>2, EmptySeq
<1>5. Len(d) \in Nat \ {0} => 1 \in 1..Len(d) /\ Len(d) \in 1..Len(d)
  OBVIOUS
<1>6. QED
  BY <1>1, <1>2, <1>3, <1>4, <1>5

LEMMA MatchesEmpty == ASSUME NEW s, NEW d, Len(d) = 0 PROVE Matches(s, d)
<1>1. \A i \in 1..Len(d) : FALSE
  OBVIOUS
<1>2. QED
  BY <1>1 DEF Matches

(* A thief takes the oldest job.                                           *)
LEMMA MatchesTail ==
    ASSUME NEW s, NEW d \in Seq(Tasks), d # << >>, Matches(s, d)
    PROVE  Matches(s, Tail(d))
<1>1. PICK e : e = Tail(d)
  OBVIOUS
<1>2. e \in Seq(Tasks) /\ Len(e) = Len(d) - 1 /\ \A i \in 1..Len(e) : e[i] = d[i + 1]
  BY <1>1, HeadTailProperties
<1>3. Len(d) \in Nat \ {0}
  BY EmptySeq
<1>4. \A i \in 1..Len(e) : i + 1 \in 1..Len(d)
  BY <1>2, <1>3
<1> SUFFICES ASSUME NEW i \in 1..Len(e)
             PROVE  \E k \in 1..Len(s) :
      /\ SpawnedBy(s, e, i, k)
      /\ \A j \in 1..Len(e) : j > i => \E l \in 1..Len(s) : l > k /\ SpawnedBy(s, e, j, l)
      /\ \A l \in 1..Len(s) : l > k /\ Spawning(s[l]) =>
            \E j \in 1..Len(e) : j > i /\ SpawnedBy(s, e, j, l)
      /\ \A l \in 1..Len(s) : l > k => s[l].kind = "thunk"
  BY <1>1 DEF Matches
<1>5. PICK k \in 1..Len(s) :
      /\ SpawnedBy(s, d, i + 1, k)
      /\ \A j \in 1..Len(d) : j > i + 1 => \E l \in 1..Len(s) : l > k /\ SpawnedBy(s, d, j, l)
      /\ \A l \in 1..Len(s) : l > k /\ Spawning(s[l]) =>
            \E j \in 1..Len(d) : j > i + 1 /\ SpawnedBy(s, d, j, l)
      /\ \A l \in 1..Len(s) : l > k => s[l].kind = "thunk"
  BY <1>4 DEF Matches
<1>6. \A j \in 1..Len(e) : \A l : SpawnedBy(s, e, j, l) <=> SpawnedBy(s, d, j + 1, l)
  BY <1>2 DEF SpawnedBy
<1>7. ASSUME NEW j \in 1..Len(e), j > i PROVE \E l \in 1..Len(s) : l > k /\ SpawnedBy(s, e, j, l)
  <2>1. j + 1 \in 1..Len(d) /\ j + 1 > i + 1
    BY <1>2, <1>3, <1>7
  <2>2. QED
    BY <1>5, <1>6, <2>1
<1>8. ASSUME NEW l \in 1..Len(s), l > k, Spawning(s[l])
      PROVE  \E j \in 1..Len(e) : j > i /\ SpawnedBy(s, e, j, l)
  <2>1. PICK j \in 1..Len(d) : j > i + 1 /\ SpawnedBy(s, d, j, l)
    BY <1>5, <1>8
  <2>2. j - 1 \in 1..Len(e) /\ j - 1 > i /\ j - 1 + 1 = j
    BY <1>2, <1>3, <2>1
  <2>3. QED
    BY <1>6, <2>1, <2>2
<1>9. QED
  BY <1>5, <1>6, <1>7, <1>8

(* The frames that change have spawned what they had, and none is a loop   *)
(* above a job of the deque.                                               *)
LEMMA MatchesMoved ==
    ASSUME NEW s, NEW r, NEW d \in Seq(Tasks), NEW m \in Nat, NEW n \in Nat, NEW x, NEW y,
           Moved(s, r, m, n, x, y), Matches(s, d),
           m > 0 => /\ Spawning(x) <=> Spawning(s[m])
                    /\ Spawning(x) => Right(x) = Right(s[m])
                    /\ s[m].kind = "thunk" => x.kind = "thunk",
           Len(s) = m + 1 => ~Spawning(s[m + 1]),
           n = m + 1 => ~Spawning(y) /\ y.kind = "thunk"
    PROVE  Matches(r, d)
<1>1. /\ Len(s) \in Nat /\ Len(s) \in {m, m + 1} /\ Len(r) = n /\ n \in {m, m + 1}
      /\ \A k \in 1..(m - 1) : r[k] = s[k]
      /\ m > 0 => r[m] = x
      /\ n = m + 1 => r[m + 1] = y
  BY DEF Moved
<1>2. ASSUME NEW k \in 1..Len(s), Spawning(s[k])
      PROVE  k \in 1..Len(r) /\ Spawning(r[k]) /\ Right(r[k]) = Right(s[k]) /\ k <= m
  <2>1. k # m + 1
    BY <1>1, <1>2
  <2>2. k \in 1..m /\ k <= m /\ m > 0
    BY <1>1, <2>1
  <2>3. k \in 1..Len(r)
    BY <1>1, <2>2
  <2>4. CASE k = m
    BY <1>1, <1>2, <2>2, <2>3, <2>4
  <2>5. CASE k # m
    <3>1. k \in 1..(m - 1)
      BY <2>2, <2>5
    <3>2. QED
      BY <1>1, <1>2, <2>2, <2>3, <3>1
  <2>6. QED
    BY <2>4, <2>5
<1>3. ASSUME NEW k \in 1..Len(r), Spawning(r[k])
      PROVE  k \in 1..Len(s) /\ Spawning(s[k]) /\ Right(r[k]) = Right(s[k])
  <2>1. k # m + 1
    BY <1>1, <1>3
  <2>2. k \in 1..m /\ k <= m /\ m > 0
    BY <1>1, <2>1
  <2>3. k \in 1..Len(s)
    BY <1>1, <2>2
  <2>4. CASE k = m
    BY <1>1, <1>3, <2>2, <2>3, <2>4
  <2>5. CASE k # m
    <3>1. k \in 1..(m - 1)
      BY <2>2, <2>5
    <3>2. QED
      BY <1>1, <1>3, <2>2, <2>3, <3>1
  <2>6. QED
    BY <2>4, <2>5
<1>4. ASSUME NEW k \in 1..Len(s), k <= m, \A l \in 1..Len(s) : l > k => s[l].kind = "thunk",
             NEW l \in 1..Len(r), l > k
      PROVE  r[l].kind = "thunk"
  <2>1. CASE l = m + 1
    BY <1>1, <2>1
  <2>2. CASE l # m + 1
    <3>1. l \in 1..m /\ m > 0 /\ l \in 1..Len(s)
      BY <1>1, <2>2
    <3>2. s[l].kind = "thunk"
      BY <1>4, <3>1
    <3>3. CASE l = m
      BY <1>1, <3>1, <3>2, <3>3
    <3>4. CASE l # m
      <4>1. l \in 1..(m - 1)
        BY <3>1, <3>4
      <4>2. QED
        BY <1>1, <3>2, <4>1
    <3>5. QED
      BY <3>3, <3>4
  <2>3. QED
    BY <2>1, <2>2
<1>5. \A i \in 1..Len(d) : \A k \in 1..Len(s) :
        SpawnedBy(s, d, i, k) => k \in 1..Len(r) /\ SpawnedBy(r, d, i, k) /\ k <= m
  BY <1>2 DEF SpawnedBy
<1>6. \A i \in 1..Len(d) : \A k \in 1..Len(s) : Spawning(r[k]) /\ k \in 1..Len(r)
        => (SpawnedBy(s, d, i, k) => SpawnedBy(r, d, i, k))
  BY <1>5
<1> SUFFICES ASSUME NEW i \in 1..Len(d)
             PROVE  \E k \in 1..Len(r) :
      /\ SpawnedBy(r, d, i, k)
      /\ \A j \in 1..Len(d) : j > i => \E l \in 1..Len(r) : l > k /\ SpawnedBy(r, d, j, l)
      /\ \A l \in 1..Len(r) : l > k /\ Spawning(r[l]) =>
            \E j \in 1..Len(d) : j > i /\ SpawnedBy(r, d, j, l)
      /\ \A l \in 1..Len(r) : l > k => r[l].kind = "thunk"
  BY DEF Matches
<1>7. PICK k \in 1..Len(s) :
      /\ SpawnedBy(s, d, i, k)
      /\ \A j \in 1..Len(d) : j > i => \E l \in 1..Len(s) : l > k /\ SpawnedBy(s, d, j, l)
      /\ \A l \in 1..Len(s) : l > k /\ Spawning(s[l]) =>
            \E j \in 1..Len(d) : j > i /\ SpawnedBy(s, d, j, l)
      /\ \A l \in 1..Len(s) : l > k => s[l].kind = "thunk"
  BY DEF Matches
<1>8. k \in 1..Len(r) /\ SpawnedBy(r, d, i, k) /\ k <= m
  BY <1>5, <1>7
<1>9. \A j \in 1..Len(d) : j > i => \E l \in 1..Len(r) : l > k /\ SpawnedBy(r, d, j, l)
  BY <1>5, <1>7
<1>10. ASSUME NEW l \in 1..Len(r), l > k, Spawning(r[l])
       PROVE  \E j \in 1..Len(d) : j > i /\ SpawnedBy(r, d, j, l)
  <2>1. l \in 1..Len(s) /\ Spawning(s[l])
    BY <1>3, <1>10
  <2>2. QED
    BY <1>5, <1>7, <1>10, <2>1
<1>11. \A l \in 1..Len(r) : l > k => r[l].kind = "thunk"
  BY <1>4, <1>7, <1>8
<1>12. QED
  BY <1>8, <1>9, <1>10, <1>11

(* The job that a pardo finds is its own.                                  *)
LEMMA LastJob ==
    ASSUME NEW s, NEW d, Matches(s, d), Len(d) \in Nat \ {0}, Len(s) \in Nat \ {0},
           Spawning(s[Len(s)])
    PROVE  d[Len(d)] = Right(s[Len(s)])
<1>1. Len(d) \in 1..Len(d) /\ Len(s) \in 1..Len(s)
  OBVIOUS
<1>2. PICK k \in 1..Len(s) :
      /\ SpawnedBy(s, d, Len(d), k)
      /\ \A l \in 1..Len(s) : l > k /\ Spawning(s[l]) =>
            \E j \in 1..Len(d) : j > Len(d) /\ SpawnedBy(s, d, j, l)
  BY <1>1 DEF Matches
<1>3. \A j \in 1..Len(d) : ~(j > Len(d))
  OBVIOUS
<1>4. ~(Len(s) > k)
  BY <1>1, <1>2, <1>3
<1>5. k = Len(s)
  BY <1>4
<1>6. QED
  BY <1>2, <1>5 DEF SpawnedBy

(* A worker in a loop has no job.                                          *)
LEMMA LoopHasNone ==
    ASSUME NEW s, NEW d, Matches(s, d), Len(d) \in Nat, Len(s) \in Nat \ {0},
           s[Len(s)].kind = "loop"
    PROVE  Len(d) = 0
<1> SUFFICES ASSUME Len(d) # 0 PROVE FALSE
  OBVIOUS
<1>1. 1 \in 1..Len(d) /\ Len(s) \in 1..Len(s)
  OBVIOUS
<1>2. PICK k \in 1..Len(s) : SpawnedBy(s, d, 1, k) /\ \A l \in 1..Len(s) : l > k => s[l].kind = "thunk"
  BY <1>1 DEF Matches
<1>3. s[k].kind = "thunk"
  BY <1>2 DEF SpawnedBy, Spawning
<1>4. k # Len(s)
  BY <1>3
<1>5. Len(s) > k
  BY <1>4
<1>6. s[Len(s)].kind = "thunk"
  BY <1>1, <1>2, <1>5
<1>7. QED
  BY <1>6

(* The innermost frame spawns a job and calls left.                        *)
LEMMA MatchesFork ==
    ASSUME NEW s, NEW r, NEW d \in Seq(Tasks), NEW m \in Nat, NEW x, NEW y, NEW t \in Tasks,
           Moved(s, r, m, m + 1, x, y), m > 0, Len(s) = m, Matches(s, d), t = Right(x),
           ~Spawning(s[m]), Spawning(x), ~Spawning(y), y.kind = "thunk",
           \A k \in 1..(m - 1) : Spawning(s[k]) => Right(s[k]) # t
    PROVE  Matches(r, Append(d, t))
<1>1. /\ Len(r) = m + 1 /\ r[m] = x /\ r[m + 1] = y
      /\ \A k \in 1..(m - 1) : r[k] = s[k]
  BY DEF Moved
<1>2. PICK e : e = Append(d, t)
  OBVIOUS
<1>3. /\ Len(d) \in Nat /\ e \in Seq(Tasks) /\ Len(e) = Len(d) + 1 /\ e[Len(d) + 1] = t
      /\ \A i \in 1..Len(d) : e[i] = d[i]
  BY <1>2, AppendProperties, LenProperties
<1>4. \A k \in 1..Len(s) : Spawning(s[k]) => k \in 1..(m - 1)
  <2>1. \A k \in 1..m : k # m => k \in 1..(m - 1)
    OBVIOUS
  <2>2. QED
    BY <2>1
<1>5. \A k \in 1..Len(r) : Spawning(r[k]) => k = m \/ (k \in 1..(m - 1) /\ Spawning(s[k]))
  <2>1. \A k \in 1..(m + 1) : k = m \/ k = m + 1 \/ k \in 1..(m - 1)
    OBVIOUS
  <2>2. QED
    BY <1>1, <2>1
<1>6. /\ m \in 1..Len(r) /\ m \in 1..Len(s)
      /\ \A k \in 1..(m - 1) : k \in 1..Len(r) /\ k \in 1..Len(s) /\ m > k
  BY <1>1
<1>7. \A k \in 1..(m - 1) : \A i \in 1..Len(d) : SpawnedBy(r, e, i, k) <=> SpawnedBy(s, d, i, k)
  BY <1>1, <1>3 DEF SpawnedBy
<1>8. SpawnedBy(r, e, Len(d) + 1, m)
  BY <1>1, <1>3 DEF SpawnedBy
<1>9. /\ Len(d) + 1 \in 1..Len(e)
      /\ \A i \in 1..Len(d) : i \in 1..Len(e) /\ Len(d) + 1 > i
      /\ \A i \in 1..Len(e) : i = Len(d) + 1 \/ i \in 1..Len(d)
      /\ \A i \in 1..Len(e) : ~(i > Len(d) + 1)
  BY <1>3
<1>10. \A l \in 1..Len(r) : l > m => l = m + 1
  BY <1>1
<1>11. \A l \in 1..Len(r) : l > m => ~Spawning(r[l]) /\ r[l].kind = "thunk"
  BY <1>1, <1>10
<1>12. r[m].kind = "thunk" /\ r[m + 1].kind = "thunk"
  BY <1>1 DEF Spawning
<1> SUFFICES ASSUME NEW i \in 1..Len(e)
             PROVE  \E k \in 1..Len(r) :
      /\ SpawnedBy(r, e, i, k)
      /\ \A j \in 1..Len(e) : j > i => \E l \in 1..Len(r) : l > k /\ SpawnedBy(r, e, j, l)
      /\ \A l \in 1..Len(r) : l > k /\ Spawning(r[l]) =>
            \E j \in 1..Len(e) : j > i /\ SpawnedBy(r, e, j, l)
      /\ \A l \in 1..Len(r) : l > k => r[l].kind = "thunk"
  BY <1>2 DEF Matches
<1>13. CASE i = Len(d) + 1
  <2>1. \A j \in 1..Len(e) : ~(j > i)
    BY <1>9, <1>13
  <2>2. SpawnedBy(r, e, i, m)
    BY <1>8, <1>13
  <2>3. QED
    BY <1>6, <1>11, <2>1, <2>2
<1>14. CASE i \in 1..Len(d)
  <2>1. PICK k \in 1..Len(s) :
      /\ SpawnedBy(s, d, i, k)
      /\ \A j \in 1..Len(d) : j > i => \E l \in 1..Len(s) : l > k /\ SpawnedBy(s, d, j, l)
      /\ \A l \in 1..Len(s) : l > k /\ Spawning(s[l]) =>
            \E j \in 1..Len(d) : j > i /\ SpawnedBy(s, d, j, l)
      /\ \A l \in 1..Len(s) : l > k => s[l].kind = "thunk"
    BY <1>14 DEF Matches
  <2>2. k \in 1..(m - 1)
    BY <1>4, <2>1 DEF SpawnedBy
  <2>3. SpawnedBy(r, e, i, k)
    BY <1>7, <1>14, <2>1, <2>2
  <2>4. ASSUME NEW j \in 1..Len(e), j > i PROVE \E l \in 1..Len(r) : l > k /\ SpawnedBy(r, e, j, l)
    <3>1. CASE j = Len(d) + 1
      BY <1>6, <1>8, <2>2, <3>1
    <3>2. CASE j \in 1..Len(d)
      <4>1. PICK l \in 1..Len(s) : l > k /\ SpawnedBy(s, d, j, l)
        BY <2>1, <2>4, <3>2
      <4>2. l \in 1..(m - 1)
        BY <1>4, <4>1 DEF SpawnedBy
      <4>3. QED
        BY <1>6, <1>7, <3>2, <4>1, <4>2
    <3>3. QED
      BY <1>9, <3>1, <3>2
  <2>5. ASSUME NEW l \in 1..Len(r), l > k, Spawning(r[l])
        PROVE  \E j \in 1..Len(e) : j > i /\ SpawnedBy(r, e, j, l)
    <3>1. CASE l = m
      BY <1>8, <1>9, <1>14, <3>1
    <3>2. CASE l \in 1..(m - 1) /\ Spawning(s[l])
      <4>1. PICK j \in 1..Len(d) : j > i /\ SpawnedBy(s, d, j, l)
        BY <1>6, <2>1, <2>5, <3>2
      <4>2. QED
        BY <1>7, <1>9, <3>2, <4>1
    <3>3. QED
      BY <1>5, <2>5, <3>1, <3>2
  <2>6. ASSUME NEW l \in 1..Len(r), l > k PROVE r[l].kind = "thunk"
    <3>1. l = m \/ l = m + 1 \/ l \in 1..(m - 1)
      BY <1>1
    <3>2. l \in 1..(m - 1) => r[l] = s[l] /\ s[l].kind = "thunk"
      BY <1>1, <1>6, <2>1, <2>6
    <3>3. QED
      BY <1>12, <3>1, <3>2
  <2>7. QED
    BY <1>6, <2>2, <2>3, <2>4, <2>5, <2>6
<1>15. QED
  BY <1>9, <1>13, <1>14

(* The innermost frame pops its job and calls right.                       *)
LEMMA MatchesPop ==
    ASSUME NEW s, NEW r, NEW d \in Seq(Tasks), NEW m \in Nat, NEW x, NEW y,
           Moved(s, r, m, m + 1, x, y), m > 0, Len(s) = m, Matches(s, d), d # << >>,
           Spawning(s[m]), ~Spawning(x), x.kind = "thunk", ~Spawning(y), y.kind = "thunk",
           \A k \in 1..(m - 1) : Spawning(s[k]) => Right(s[k]) # Right(s[m])
    PROVE  Matches(r, SubSeq(d, 1, Len(d) - 1))
<1>1. /\ Len(r) = m + 1 /\ r[m] = x /\ r[m + 1] = y
      /\ \A k \in 1..(m - 1) : r[k] = s[k]
  BY DEF Moved
<1>2. PICK e : e = SubSeq(d, 1, Len(d) - 1)
  OBVIOUS
<1>3. /\ Len(d) \in Nat \ {0} /\ e \in Seq(Tasks) /\ Len(e) = Len(d) - 1
      /\ \A i \in 1..(Len(d) - 1) : e[i] = d[i]
  BY <1>2, UnderFacts
<1>4. d[Len(d)] = Right(s[m])
  BY <1>3, LastJob
<1>5. \A k \in 1..Len(r) : k = m \/ k = m + 1 \/ k \in 1..(m - 1)
  BY <1>1
<1>6. \A k \in 1..Len(r) : Spawning(r[k]) => k \in 1..(m - 1) /\ Spawning(s[k])
  BY <1>1, <1>5
<1>7. /\ m \in 1..Len(s) /\ \A k \in 1..(m - 1) : k \in 1..Len(r) /\ k \in 1..Len(s) /\ m > k
      /\ \A k \in 1..Len(s) : k = m \/ k \in 1..(m - 1)
      /\ \A k \in 1..Len(s) : ~(k > m)
  BY <1>1
<1>8. \A k \in 1..(m - 1) : \A i \in 1..Len(e) : SpawnedBy(r, e, i, k) <=> SpawnedBy(s, d, i, k)
  BY <1>1, <1>3 DEF SpawnedBy
<1>9. /\ Len(d) \in 1..Len(d)
      /\ \A i \in 1..Len(e) : i \in 1..Len(d) /\ Len(d) > i
      /\ \A i \in 1..Len(d) : i = Len(d) \/ i \in 1..Len(e)
  BY <1>3
<1> DEFINE Good(i, k) ==
      /\ SpawnedBy(s, d, i, k)
      /\ \A j \in 1..Len(d) : j > i => \E l \in 1..Len(s) : l > k /\ SpawnedBy(s, d, j, l)
      /\ \A l \in 1..Len(s) : l > k /\ Spawning(s[l]) =>
            \E j \in 1..Len(d) : j > i /\ SpawnedBy(s, d, j, l)
      /\ \A l \in 1..Len(s) : l > k => s[l].kind = "thunk"
<1>10. \A i \in 1..Len(d) : \E k \in 1..Len(s) : Good(i, k)
  BY DEF Matches
(* Only the last job is that of the innermost frame.                       *)
<1>11. ASSUME NEW i \in 1..Len(e), NEW l \in 1..Len(s), SpawnedBy(s, d, i, l) PROVE l \in 1..(m - 1)
  <2>1. PICK k \in 1..Len(s) : Good(i, k)
    BY <1>9, <1>10
  <2>2. k \in 1..(m - 1)
    <3>1. \E u \in 1..Len(s) : u > k
      BY <1>9, <2>1
    <3>2. k # m
      BY <1>7, <3>1
    <3>3. QED
      BY <1>7, <3>2
  <2>3. d[i] = Right(s[k]) /\ d[i] = Right(s[l]) /\ Spawning(s[k])
    BY <1>11, <2>1 DEF SpawnedBy
  <2>4. l # m
    BY <2>2, <2>3
  <2>5. QED
    BY <1>7, <2>4
<1> SUFFICES ASSUME NEW i \in 1..Len(e)
             PROVE  \E k \in 1..Len(r) :
      /\ SpawnedBy(r, e, i, k)
      /\ \A j \in 1..Len(e) : j > i => \E l \in 1..Len(r) : l > k /\ SpawnedBy(r, e, j, l)
      /\ \A l \in 1..Len(r) : l > k /\ Spawning(r[l]) =>
            \E j \in 1..Len(e) : j > i /\ SpawnedBy(r, e, j, l)
      /\ \A l \in 1..Len(r) : l > k => r[l].kind = "thunk"
  BY <1>2 DEF Matches
<1>12. PICK k \in 1..Len(s) : Good(i, k)
  BY <1>9, <1>10
<1>13. k \in 1..(m - 1)
  BY <1>11, <1>12
<1>14. SpawnedBy(r, e, i, k)
  BY <1>8, <1>12, <1>13
<1>15. ASSUME NEW j \in 1..Len(e), j > i PROVE \E l \in 1..Len(r) : l > k /\ SpawnedBy(r, e, j, l)
  <2>1. PICK l \in 1..Len(s) : l > k /\ SpawnedBy(s, d, j, l)
    BY <1>9, <1>12, <1>15
  <2>2. l \in 1..(m - 1)
    BY <1>11, <2>1
  <2>3. QED
    BY <1>7, <1>8, <2>1, <2>2
<1>16. ASSUME NEW l \in 1..Len(r), l > k, Spawning(r[l])
       PROVE  \E j \in 1..Len(e) : j > i /\ SpawnedBy(r, e, j, l)
  <2>1. l \in 1..(m - 1) /\ Spawning(s[l])
    BY <1>6, <1>16
  <2>2. PICK j \in 1..Len(d) : j > i /\ SpawnedBy(s, d, j, l)
    BY <1>7, <1>12, <1>16, <2>1
  <2>3. j # Len(d)
    <3>1. d[j] = Right(s[l])
      BY <2>2 DEF SpawnedBy
    <3>2. QED
      BY <1>4, <2>1, <3>1
  <2>4. j \in 1..Len(e)
    BY <1>9, <2>2, <2>3
  <2>5. QED
    BY <1>8, <2>1, <2>2, <2>4
<1>17. ASSUME NEW l \in 1..Len(r), l > k PROVE r[l].kind = "thunk"
  <2>1. l \in 1..(m - 1) => r[l] = s[l] /\ s[l].kind = "thunk"
    BY <1>1, <1>7, <1>12, <1>17
  <2>2. QED
    BY <1>1, <1>5, <2>1
<1>18. QED
  BY <1>7, <1>13, <1>14, <1>15, <1>16, <1>17

(* ------------------------- What moves preserve ------------------------- *)

LEMMA MovedPlaces ==
    ASSUME NEW s, NEW r, NEW m \in Nat, NEW n \in Nat, NEW x, NEW y, Moved(s, r, m, n, x, y)
    PROVE  /\ Len(s) \in Nat /\ n \in {m, m + 1} /\ Len(r) = n
           /\ \A k \in 1..Len(r) : \/ k < m /\ k \in 1..Len(s) /\ r[k] = s[k]
                                   \/ k = m /\ m > 0 /\ k \in 1..Len(s) /\ r[k] = x
                                   \/ k = m + 1 /\ n = m + 1 /\ r[k] = y
           /\ \A k \in 1..Len(s) : \/ k < m /\ k \in 1..Len(r) /\ r[k] = s[k]
                                   \/ k = m /\ m > 0 /\ k \in 1..Len(r) /\ r[k] = x
                                   \/ k = m + 1 /\ Len(s) = m + 1
<1>1. /\ Len(s) \in Nat /\ Len(s) \in {m, m + 1} /\ Len(r) = n /\ n \in {m, m + 1}
      /\ \A k \in 1..(m - 1) : r[k] = s[k]
      /\ m > 0 => r[m] = x
      /\ n = m + 1 => r[m + 1] = y
  BY DEF Moved
<1>2. ASSUME NEW a \in Nat, a \in {m, m + 1}, NEW b \in Nat, b \in {m, m + 1}, NEW k \in 1..a
      PROVE  \/ k < m /\ k \in 1..b /\ k \in 1..(m - 1)
             \/ k = m /\ m > 0 /\ k \in 1..b
             \/ k = m + 1 /\ a = m + 1
  BY <1>2
<1>3. \A k \in 1..Len(r) : \/ k < m /\ k \in 1..Len(s) /\ r[k] = s[k]
                           \/ k = m /\ m > 0 /\ k \in 1..Len(s) /\ r[k] = x
                           \/ k = m + 1 /\ n = m + 1 /\ r[k] = y
  BY <1>1, <1>2
<1>4. \A k \in 1..Len(s) : \/ k < m /\ k \in 1..Len(r) /\ r[k] = s[k]
                           \/ k = m /\ m > 0 /\ k \in 1..Len(r) /\ r[k] = x
                           \/ k = m + 1 /\ Len(s) = m + 1
  BY <1>1, <1>2
<1>5. QED
  BY <1>1, <1>3, <1>4

LEMMA MovesPlaces ==
    ASSUME NEW w \in Workers, NEW m \in Nat, NEW n \in Nat, NEW x, NEW y, Moves(w, m, n, x, y)
    PROVE  /\ n \in {m, m + 1} /\ Len(stack'[w]) = n
           /\ \A k \in 1..Len(stack'[w]) :
                \/ k < m /\ k \in 1..Len(stack[w]) /\ stack'[w][k] = stack[w][k]
                \/ k = m /\ m > 0 /\ k \in 1..Len(stack[w]) /\ stack'[w][k] = x
                \/ k = m + 1 /\ n = m + 1 /\ stack'[w][k] = y
           /\ \A k \in 1..Len(stack[w]) :
                \/ k < m /\ k \in 1..Len(stack'[w]) /\ stack'[w][k] = stack[w][k]
                \/ k = m /\ m > 0 /\ k \in 1..Len(stack'[w]) /\ stack'[w][k] = x
                \/ k = m + 1 /\ Len(stack[w]) = m + 1
<1>1. PICK s : s = stack[w]
  OBVIOUS
<1>2. PICK r : r = stack'[w]
  OBVIOUS
<1>3. Moved(s, r, m, n, x, y)
  BY <1>1, <1>2 DEF Moves
<1>4. /\ n \in {m, m + 1} /\ Len(r) = n
      /\ \A k \in 1..Len(r) : \/ k < m /\ k \in 1..Len(s) /\ r[k] = s[k]
                              \/ k = m /\ m > 0 /\ k \in 1..Len(s) /\ r[k] = x
                              \/ k = m + 1 /\ n = m + 1 /\ r[k] = y
  BY <1>3, MovedPlaces
<1>5. \A k \in 1..Len(s) : \/ k < m /\ k \in 1..Len(r) /\ r[k] = s[k]
                           \/ k = m /\ m > 0 /\ k \in 1..Len(r) /\ r[k] = x
                           \/ k = m + 1 /\ Len(s) = m + 1
  BY <1>3, MovedPlaces
<1>6. QED
  BY <1>1, <1>2, <1>4, <1>5

(* x goes on with the call that f was in.                                  *)
SameCall(f, x) ==
    /\ x.kind = f.kind
    /\ f.kind = "thunk" => x.task = f.task /\ x.job = f.job
    /\ f.kind = "loop" => x.until = f.until

Callers == {"left", "right", "wait", "run"}

LEMMA MovedCalls ==
    ASSUME NEW s, NEW r, NEW m \in Nat, NEW n \in Nat, NEW x, NEW y, Moved(s, r, m, n, x, y),
           \A k \in 1..Len(s) :
             /\ k = 1 /\ s[k].kind = "loop" => s[k].until = Shutdown
             /\ k < Len(s) => Calls(s[k], s[k + 1]),
           m > 0 => SameCall(s[m], x),
           m > 0 /\ n = m => x.pc \notin Callers,
           n = m + 1 => m > 0 /\ Calls(x, y) /\ y.pc \notin Callers,
           NEW k \in 1..Len(r)
    PROVE  /\ k = 1 /\ r[k].kind = "loop" => r[k].until = Shutdown
           /\ k < Len(r) => Calls(r[k], r[k + 1])
           /\ k = Len(r) => r[k].pc \notin Callers
<1>1. /\ Len(s) \in Nat /\ Len(s) \in {m, m + 1} /\ Len(r) = n /\ n \in {m, m + 1}
      /\ \A l \in 1..(m - 1) : r[l] = s[l]
      /\ m > 0 => r[m] = x
      /\ n = m + 1 => r[m + 1] = y
  BY DEF Moved
<1>2. CASE k = m + 1
  <2>1. n = m + 1 /\ m > 0 /\ k # 1 /\ ~(k < Len(r)) /\ r[k] = y
    BY <1>1, <1>2
  <2>2. QED
    BY <2>1
<1>3. CASE k = m
  <2>1. m > 0 /\ m \in 1..Len(s) /\ r[k] = x /\ r[k].kind = s[m].kind
    BY <1>1, <1>3 DEF SameCall
  <2>2. k = 1 /\ r[k].kind = "loop" => r[k].until = Shutdown
    BY <1>3, <2>1 DEF SameCall
  <2>3. k < Len(r) => n = m + 1 /\ r[k + 1] = y
    BY <1>1, <1>3
  <2>4. k = Len(r) => n = m
    BY <1>1, <1>3
  <2>5. QED
    BY <2>1, <2>2, <2>3, <2>4
<1>4. CASE k # m /\ k # m + 1
  <2>1. k \in 1..(m - 1) /\ k \in 1..Len(s) /\ k < Len(s) /\ k # Len(r) /\ r[k] = s[k]
    <3>1. \A a, b \in Nat : a \in {m, m + 1} /\ b \in {m, m + 1} /\ k \in 1..b =>
            k \in 1..(m - 1) /\ k \in 1..a /\ k < a /\ k # b
      BY <1>4
    <3>2. Len(r) \in Nat
      BY <1>1
    <3>3. k \in 1..(m - 1) /\ k \in 1..Len(s) /\ k < Len(s) /\ k # Len(r)
      BY <1>1, <3>1, <3>2
    <3>4. QED
      BY <1>1, <3>3
  <2>2. Calls(s[k], s[k + 1])
    BY <2>1
  <2>3. CASE k + 1 = m
    <3>1. m > 0 /\ r[k + 1] = x /\ SameCall(s[k + 1], x)
      BY <1>1, <2>1, <2>3
    <3>2. Calls(s[k], x)
      BY <2>2, <3>1 DEF SameCall, Calls
    <3>3. QED
      BY <2>1, <3>1, <3>2
  <2>4. CASE k + 1 # m
    <3>1. k + 1 \in 1..(m - 1)
      BY <2>1, <2>4
    <3>2. r[k + 1] = s[k + 1]
      BY <1>1, <3>1
    <3>3. QED
      BY <2>1, <2>2, <3>2
  <2>5. QED
    BY <2>3, <2>4
<1>5. QED
  BY <1>2, <1>3, <1>4

(* A step that moves the stack of w keeps the invariant, if what it does   *)
(* to the frames x and y and to the jobs is right.                         *)
LEMMA MovesInv ==
    ASSUME ForkJoinInv, NEW w \in Workers, NEW m \in Nat, NEW n \in Nat, NEW x, NEW y,
           Moves(w, m, n, x, y),
           TypeOK', QueueInv', ParentsFirst', DoneInv', DequeMatchesStack',
           m > 0 => SameCall(stack[w][m], x) /\ (x.kind = "thunk" => Progress(x)'),
           m > 0 /\ n = m => x.pc \notin Callers,
           n = m + 1 => /\ m > 0 /\ Calls(x, y) /\ y.pc \notin Callers
                        /\ y.kind = "thunk" => /\ starts[y.task] = 0 /\ Progress(y)'
                                               /\ y.job => IsLive(y.task)',
           \A v \in Workers : \A k \in Depth(v) : \A g \in ThunkFrames :
             (v # w \/ k < m) /\ stack[v][k] = g => Progress(g)',
           \A t \in Tasks : IsLive(t) => IsLive(t)' \/ ends'[t] # 0
    PROVE  ForkJoinInv'
<1> DEFINE s == stack[w]
           r == stack'[w]
<1>1. Moved(s, r, m, n, x, y) /\ \A v \in Workers \ {w} : stack'[v] = stack[v]
  BY DEF Moves
<1>2. /\ n \in {m, m + 1} /\ Len(r) = n
      /\ \A k \in 1..Len(r) : \/ k < m /\ k \in 1..Len(s) /\ r[k] = s[k]
                              \/ k = m /\ m > 0 /\ k \in 1..Len(s) /\ r[k] = x
                              \/ k = m + 1 /\ n = m + 1 /\ r[k] = y
  BY MovesPlaces
<1>3. TypeOK /\ CallInv /\ FrameInv /\ OneFrame /\ RunInv
  BY DEF ForkJoinInv
(* Where the frames come from.                                             *)
<1>4. ASSUME NEW v \in Workers, NEW k \in Depth(v)'
      PROVE  \/ k \in Depth(v) /\ (v # w \/ k < m) /\ stack'[v][k] = stack[v][k]
             \/ v = w /\ k = m /\ m > 0 /\ k \in Depth(v) /\ stack'[v][k] = x
             \/ v = w /\ k = m + 1 /\ n = m + 1 /\ stack'[v][k] = y
  <2>1. CASE v # w
    BY <1>1, <1>4, <2>1 DEF Depth
  <2>2. CASE v = w
    BY <1>2, <1>4, <2>2 DEF Depth
  <2>3. QED
    BY <2>1, <2>2
<1>5. ASSUME NEW v \in Workers, NEW k \in Depth(v)', stack'[v][k].kind = "thunk"
      PROVE  \/ /\ k \in Depth(v) /\ stack[v][k].kind = "thunk"
                /\ stack'[v][k].task = stack[v][k].task /\ stack'[v][k].job = stack[v][k].job
             \/ v = w /\ k = m + 1 /\ n = m + 1 /\ stack'[v][k] = y
  BY <1>4, <1>5 DEF SameCall
<1>6. CallInv'
  <2>1. ASSUME NEW k \in 1..Len(s)
        PROVE  /\ k = 1 /\ s[k].kind = "loop" => s[k].until = Shutdown
               /\ k < Len(s) => Calls(s[k], s[k + 1])
    BY <1>3 DEF CallInv, Depth
  <2>2. ASSUME NEW k \in 1..Len(r)
        PROVE  /\ k = 1 /\ r[k].kind = "loop" => r[k].until = Shutdown
               /\ k < Len(r) => Calls(r[k], r[k + 1])
               /\ k = Len(r) => r[k].pc \notin Callers
    <3> HIDE DEF s, r
    <3>1. m > 0 => SameCall(s[m], x)
      BY DEF s
    <3>2. QED
      BY <1>1, <2>1, <3>1, MovedCalls
  <2>3. ASSUME NEW v \in Workers, v # w, NEW k \in Depth(v)'
        PROVE  /\ k = 1 /\ stack'[v][k].kind = "loop" => stack'[v][k].until = Shutdown
               /\ k < Len(stack'[v]) => Calls(stack'[v][k], stack'[v][k + 1])
               /\ k = Len(stack'[v]) => stack'[v][k].pc \notin Callers
    <3>1. stack'[v] = stack[v] /\ k \in Depth(v)
      BY <1>1, <2>3 DEF Depth
    <3>2. QED
      BY <1>3, <3>1 DEF CallInv, Callers
  <2>4. ASSUME NEW v \in Workers, NEW k \in Depth(v)'
        PROVE  /\ k = 1 /\ stack'[v][k].kind = "loop" => stack'[v][k].until = Shutdown
               /\ k < Len(stack'[v]) => Calls(stack[v][k], stack[v][k + 1])'
               /\ k = Len(stack'[v]) => stack'[v][k].pc \notin Callers
    <3>1. PICK f : f = stack'[v][k]
      OBVIOUS
    <3>2. PICK g : g = stack'[v][k + 1]
      OBVIOUS
    <3>3. k = 1 /\ f.kind = "loop" => f.until = Shutdown
      BY <2>2, <2>3, <2>4, <3>1 DEF Depth
    <3>4. k < Len(stack'[v]) => Calls(f, g)
      BY <2>2, <2>3, <2>4, <3>1, <3>2 DEF Depth
    <3>5. k = Len(stack'[v]) => f.pc \notin Callers
      BY <2>2, <2>3, <2>4, <3>1 DEF Depth
    <3>6. Calls(f, g) => Calls(stack[v][k], stack[v][k + 1])'
      BY <3>1, <3>2 DEF Calls, Left, Right
    <3>7. QED
      BY <3>1, <3>3, <3>4, <3>5, <3>6
  <2>5. QED
    BY <2>4 DEF CallInv, Callers
<1>7. FrameInv'
  <2>1. ASSUME NEW v \in Workers, NEW k \in Depth(v)', NEW g, g = stack'[v][k], g.kind = "thunk"
        PROVE  Progress(g)'
    <3>1. CASE v # w \/ k < m
      <4>1. k \in Depth(v) /\ g = stack[v][k]
        BY <1>4, <2>1, <3>1
      <4>2. g \in ThunkFrames
        BY <1>3, <2>1, <4>1, StackType, FrameKinds
      <4>3. QED
        BY <3>1, <4>1, <4>2
    <3>2. CASE v = w /\ ~(k < m)
      <4>1. (g = x /\ m > 0) \/ (g = y /\ n = m + 1)
        BY <1>4, <2>1, <3>2
      <4>2. QED
        BY <2>1, <4>1
    <3>3. QED
      BY <3>1, <3>2
  <2>2. ASSUME NEW v \in Workers, NEW k \in Depth(v)', stack'[v][k].kind = "thunk"
        PROVE  Progress(stack[v][k])'
    <3>1. PICK g : g = stack'[v][k]
      OBVIOUS
    <3>2. Progress(g)'
      BY <2>1, <2>2, <3>1
    <3>3. QED
      BY <3>1, <3>2 DEF Progress, InPardo, Left
  <2>3. QED
    BY <2>2 DEF FrameInv
<1>8. OneFrame'
  <2>1. n = m + 1 /\ y.kind = "thunk" => starts[y.task] = 0
    OBVIOUS
  <2>2. \A z \in Workers : \A i \in Depth(z) : stack[z][i].kind = "thunk" => starts[stack[z][i].task] # 0
    BY <1>3 DEF FrameInv, Progress
  <2> DEFINE Old(v, k, t) == k \in Depth(v) /\ stack[v][k].kind = "thunk" /\ t = stack[v][k].task
             New(v, k, t) == v = w /\ k = m + 1 /\ starts[t] = 0
  <2>3. ASSUME NEW v \in Workers, NEW k \in Depth(v)', NEW t, t = stack'[v][k].task,
               stack'[v][k].kind = "thunk"
        PROVE  Old(v, k, t) \/ New(v, k, t)
    BY <1>5, <2>1, <2>3
  <2>4. \A v \in Workers : \A k, t : Old(v, k, t) => ~New(v, k, t)
    BY <2>2
  <2>5. ASSUME NEW v \in Workers, NEW u \in Workers, NEW k, NEW l, NEW t, Old(v, k, t), Old(u, l, t)
        PROVE  v = u /\ k = l
    BY <1>3, <2>5 DEF OneFrame
  <2>6. ASSUME NEW v \in Workers, NEW u \in Workers, NEW k, NEW l, NEW t, Old(v, k, t)
        PROVE  ~New(u, l, t)
    BY <2>2, <2>6
  <2>7. ASSUME NEW v \in Workers, NEW u \in Workers, NEW k \in Depth(v)', NEW l \in Depth(u)',
               stack'[v][k].kind = "thunk", stack'[u][l].kind = "thunk",
               stack'[v][k].task = stack'[u][l].task
        PROVE  v = u /\ k = l
    <3>1. PICK t : t = stack'[v][k].task
      OBVIOUS
    <3>2. Old(v, k, t) \/ New(v, k, t)
      BY <2>3, <2>7, <3>1
    <3>3. Old(u, l, t) \/ New(u, l, t)
      BY <2>3, <2>7, <3>1
    <3> HIDE DEF Old
    <3>4. QED
      BY <2>5, <2>6, <3>2, <3>3
  <2>8. QED
    BY <2>7 DEF OneFrame
<1>9. RunInv'
  <2>1. ASSUME NEW v \in Workers, NEW k \in Depth(v)', NEW t, t = stack'[v][k].task,
               stack'[v][k].kind = "thunk", stack'[v][k].job
        PROVE  IsLive(t)'
    <3>1. CASE k \in Depth(v) /\ stack[v][k].kind = "thunk" /\ t = stack[v][k].task /\ stack[v][k].job
      <4>1. IsLive(t)
        BY <1>3, <3>1 DEF RunInv
      <4>2. t \in Tasks
        BY <1>3, <3>1, StackType, FrameKinds, ThunkFields
      <4>3. ends'[t] = 0
        BY <1>7, <2>1 DEF FrameInv, Progress
      <4>4. QED
        BY <4>1, <4>2, <4>3
    <3>2. CASE n = m + 1 /\ stack'[v][k] = y
      <4>1. y.kind = "thunk" /\ y.job /\ t = y.task
        BY <2>1, <3>2
      <4>2. PICK u : u = y.task
        OBVIOUS
      <4>3. IsLive(u)'
        BY <3>2, <4>1, <4>2
      <4>4. QED
        BY <4>1, <4>2, <4>3
    <3>3. QED
      BY <1>5, <2>1, <3>1, <3>2
  <2>2. ASSUME NEW v \in Workers, NEW k \in Depth(v)', stack'[v][k].kind = "thunk", stack'[v][k].job
        PROVE  IsLive(stack[v][k].task)'
    <3>1. PICK t : t = stack'[v][k].task
      OBVIOUS
    <3>2. IsLive(t)'
      BY <2>1, <2>2, <3>1
    <3>3. QED
      BY <3>1, <3>2 DEF IsLive
  <2>3. QED
    BY <2>2 DEF RunInv
<1>10. QED
  BY <1>6, <1>7, <1>8, <1>9 DEF ForkJoinInv

(* ------------------------- Progress ------------------------------------ *)

(* Progress, of the histories st and en.                                   *)
ProgressOf(st, en, f) ==
    /\ st[f.task] = 1 /\ en[f.task] = 0
    /\ InPardo(f) => f.at \in DOMAIN Pardos[f.task]
    /\ \A i \in DOMAIN Pardos[f.task] : \A c \in Dag!Children(f.task, i) :
         /\ i < f.at => en[c] = 1
         /\ i > f.at \/ (i = f.at /\ ~InPardo(f)) => st[c] = 0
    /\ InPardo(f) /\ f.pc # "left" => en[Left(f)] = 1

LEMMA ProgressIs ==
    ASSUME NEW f
    PROVE  /\ Progress(f) <=> ProgressOf(starts, ends, f)
           /\ Progress(f)' <=> ProgressOf(starts', ends', f)
  BY DEF Progress, ProgressOf

LEMMA PardoDomain ==
    ASSUME NEW p \in Tasks
    PROVE  /\ Len(Pardos[p]) \in Nat /\ DOMAIN Pardos[p] = 1..Len(Pardos[p])
           /\ DOMAIN Pardos[p] \subseteq Nat \ {0}
<1>1. Pardos[p] \in Seq(Tasks \X Tasks)
  BY ForkJoinAssumption
<1>2. PICK n : n = Len(Pardos[p])
  OBVIOUS
<1>3. n \in Nat /\ DOMAIN Pardos[p] = 1..n
  BY <1>1, <1>2, LenProperties
<1>4. 1..n \subseteq Nat \ {0}
  BY <1>3
<1>5. QED
  BY <1>2, <1>3, <1>4

(* The children of a pardo under way.                                      *)
LEMMA PardoFacts ==
    ASSUME NEW f \in ThunkFrames, f.at \in DOMAIN Pardos[f.task]
    PROVE  /\ f.task \in Tasks /\ f.at \in Nat
           /\ Left(f) \in Tasks /\ Right(f) \in Tasks /\ Left(f) # Right(f)
           /\ Left(f) = Pardos[f.task][f.at][1] /\ Right(f) = Pardos[f.task][f.at][2]
           /\ Dag!Children(f.task, f.at) = {Left(f), Right(f)}
<1>1. f.task \in Tasks /\ f.at \in Nat
  BY ThunkFields
<1>2. QED
  BY <1>1, ChildFacts DEF Left, Right

(* The thunk goes on within its pardo, or begins it.                       *)
LEMMA ProgressWithin ==
    ASSUME NEW st, NEW en, NEW f \in ThunkFrames, NEW x \in ThunkFrames, ProgressOf(st, en, f),
           x.task = f.task, x.at = f.at, f.at \in DOMAIN Pardos[f.task],
           x.pc # "left" => en[Left(f)] = 1, InPardo(x)
    PROVE  ProgressOf(st, en, x)
<1>1. x.at \in DOMAIN Pardos[x.task] /\ Left(x) = Left(f)
  BY DEF Left
<1>2. ASSUME NEW i \in DOMAIN Pardos[x.task], NEW c \in Dag!Children(x.task, i)
      PROVE  /\ i < x.at => en[c] = 1
             /\ i > x.at \/ (i = x.at /\ ~InPardo(x)) => st[c] = 0
  <2>1. i \in DOMAIN Pardos[f.task] /\ c \in Dag!Children(f.task, i)
    BY <1>2
  <2>2. QED
    BY <2>1 DEF ProgressOf
<1>3. QED
  BY <1>1, <1>2 DEF ProgressOf

(* The mutex is taken.                                                     *)
LEMMA ProgressOutside ==
    ASSUME NEW st, NEW en, NEW f \in ThunkFrames, NEW x \in ThunkFrames, ProgressOf(st, en, f),
           x.task = f.task, x.at = f.at, ~InPardo(f), ~InPardo(x)
    PROVE  ProgressOf(st, en, x)
<1>1. ASSUME NEW i \in DOMAIN Pardos[x.task], NEW c \in Dag!Children(x.task, i)
      PROVE  /\ i < x.at => en[c] = 1
             /\ i > x.at \/ (i = x.at /\ ~InPardo(x)) => st[c] = 0
  <2>1. i \in DOMAIN Pardos[f.task] /\ c \in Dag!Children(f.task, i)
    BY <1>1
  <2>2. QED
    BY <2>1 DEF ProgressOf
<1>2. QED
  BY <1>1 DEF ProgressOf

(* The pardo is over.                                                      *)
LEMMA ProgressNext ==
    ASSUME NEW st, NEW en, NEW f \in ThunkFrames, ProgressOf(st, en, f), InPardo(f),
           en[Left(f)] = 1, en[Right(f)] = 1
    PROVE  ProgressOf(st, en, NextPardo(f))
<1>1. PICK x : x = NextPardo(f)
  OBVIOUS
<1>2. /\ x \in ThunkFrames /\ x.pc = "body" /\ x.task = f.task /\ x.at = f.at + 1
      /\ ~InPardo(x)
  BY <1>1, NextPardoFields DEF InPardo
<1>3. f.at \in DOMAIN Pardos[f.task]
  BY DEF ProgressOf
<1>4. f.task \in Tasks /\ f.at \in Nat /\ Dag!Children(f.task, f.at) = {Left(f), Right(f)}
  BY <1>3, PardoFacts
<1>5. DOMAIN Pardos[f.task] \subseteq Nat \ {0}
  BY <1>4, PardoDomain
<1>6. \A i, a \in Nat : /\ i < a + 1 => i < a \/ i = a
                        /\ i > a + 1 \/ i = a + 1 => i > a
  OBVIOUS
<1>7. ASSUME NEW i \in DOMAIN Pardos[x.task], NEW c \in Dag!Children(x.task, i)
      PROVE  /\ i < x.at => en[c] = 1
             /\ i > x.at \/ (i = x.at /\ ~InPardo(x)) => st[c] = 0
  <2>1. i \in DOMAIN Pardos[f.task] /\ i \in Nat /\ c \in Dag!Children(f.task, i)
    BY <1>2, <1>5, <1>7
  <2>2. /\ i < f.at => en[c] = 1
        /\ i > f.at => st[c] = 0
    BY <2>1 DEF ProgressOf
  <2>3. i = f.at => en[c] = 1
    BY <1>4, <2>1
  <2>4. /\ i < x.at => i < f.at \/ i = f.at
        /\ i > x.at \/ i = x.at => i > f.at
    BY <1>2, <1>4, <1>6, <2>1
  <2>5. QED
    BY <2>2, <2>3, <2>4
<1>8. st[x.task] = 1 /\ en[x.task] = 0
  BY <1>2 DEF ProgressOf
<1>9. QED
  BY <1>1, <1>2, <1>7, <1>8 DEF ProgressOf

(* A child of the i-th pardo of p starts.                                  *)
LEMMA StartInv ==
    ASSUME ForkJoinInv, NEW p \in Tasks, NEW i \in DOMAIN Pardos[p], NEW t \in Tasks,
           t \in Dag!Children(p, i), starts[p] = 1, starts[t] = 0,
           starts' = [starts EXCEPT ![t] = @ + 1], ends' = ends,
           \A u \in Tasks : done'[u] => done[u]
    PROVE  /\ starts' \in [Tasks -> Nat] /\ ParentsFirst' /\ DoneInv'
           /\ \A j \in BOOLEAN : Progress(ThunkFrame(t, j))'
           /\ \A g \in ThunkFrames : Progress(g) /\ (g.task = p => g.at = i /\ InPardo(g))
                                       => Progress(g)'
<1>1. PICK st : st = starts'
  OBVIOUS
<1>2. starts \in [Tasks -> Nat] /\ ParentsFirst /\ DoneInv
  BY DEF ForkJoinInv, TypeOK
<1>3. starts[t] + 1 = 1
  OBVIOUS
<1>4. st \in [Tasks -> Nat] /\ st[t] = 1 /\ \A u \in Tasks : u # t => st[u] = starts[u]
  BY <1>1, <1>2, <1>3
<1>5. \A q \in Tasks : \A k \in DOMAIN Pardos[q] : t \in Dag!Children(q, k) => q = p /\ k = i
  BY ParentUnique
<1>6. p # t
  OBVIOUS
<1>7. ParentsFirst'
  <2>1. ASSUME NEW q \in Tasks, st[q] = 0, NEW k \in DOMAIN Pardos[q], NEW c \in Dag!Children(q, k)
        PROVE  st[c] = 0
    <3>1. q # t /\ starts[q] = 0
      BY <1>4, <2>1
    <3>2. starts[c] = 0
      BY <1>2, <2>1, <3>1 DEF ParentsFirst
    <3>3. c # t
      BY <1>5, <2>1, <3>1
    <3>4. c \in Tasks
      BY <2>1, ChildFacts
    <3>5. QED
      BY <1>4, <3>2, <3>3, <3>4
  <2>2. QED
    BY <1>1, <2>1 DEF ParentsFirst
<1>8. DoneInv'
  <2>1. ASSUME NEW u \in Tasks, st[u] = 0 PROVE ends[u] = 0
    <3>1. starts[u] = 0
      BY <1>4, <2>1
    <3>2. QED
      BY <1>2, <3>1 DEF DoneInv
  <2>2. QED
    BY <1>1, <1>2, <2>1 DEF DoneInv
<1>9. ASSUME NEW j \in BOOLEAN PROVE Progress(ThunkFrame(t, j))'
  <2>1. PICK y : y = ThunkFrame(t, j)
    OBVIOUS
  <2>2. y.task = t /\ y.at = 1 /\ ~InPardo(y)
    BY <2>1, NewThunk DEF InPardo
  <2>3. ends[t] = 0
    BY <1>2 DEF DoneInv
  <2>4. ASSUME NEW k \in DOMAIN Pardos[t], NEW c \in Dag!Children(t, k)
        PROVE  ~(k < 1) /\ st[c] = 0
    <3>1. k \in Nat \ {0}
      BY <2>4, PardoDomain
    <3>2. c # t
      BY <1>5, <1>6, <2>4
    <3>3. c \in Tasks
      BY <2>4, ChildFacts
    <3>4. starts[c] = 0
      BY <1>2, <2>4 DEF ParentsFirst
    <3>5. st[c] = 0
      BY <1>4, <3>2, <3>3, <3>4
    <3>6. ~(k < 1)
      BY <3>1
    <3>7. QED
      BY <3>5, <3>6
  <2>5. ProgressOf(st, ends, y)
    BY <1>4, <2>2, <2>3, <2>4 DEF ProgressOf
  <2>6. QED
    BY <1>1, <2>1, <2>5, ProgressIs
<1>10. ASSUME NEW g \in ThunkFrames, Progress(g), g.task = p => g.at = i /\ InPardo(g)
       PROVE  Progress(g)'
  <2>1. ProgressOf(starts, ends, g)
    BY <1>10, ProgressIs
  <2>2. g.task \in Tasks /\ g.at \in Nat
    BY ThunkFields
  <2>3. g.task # t
    BY <2>1 DEF ProgressOf
  <2>4. st[g.task] = 1
    BY <1>4, <2>1, <2>2, <2>3 DEF ProgressOf
  <2>5. ASSUME NEW k \in DOMAIN Pardos[g.task], NEW c \in Dag!Children(g.task, k),
               k > g.at \/ (k = g.at /\ ~InPardo(g))
        PROVE  st[c] = 0
    <3>1. starts[c] = 0
      BY <2>1, <2>5 DEF ProgressOf
    <3>2. c # t
      <4>1. SUFFICES ASSUME c = t PROVE FALSE
        OBVIOUS
      <4>2. g.task = p /\ k = i
        BY <1>5, <2>2, <2>5, <4>1
      <4>3. k = g.at /\ InPardo(g)
        BY <1>10, <4>2
      <4>4. ~(k > g.at)
        BY <2>2, <4>3
      <4>5. QED
        BY <2>5, <4>3, <4>4
    <3>3. c \in Tasks
      BY <2>2, <2>5, ChildFacts
    <3>4. QED
      BY <1>4, <3>1, <3>2, <3>3
  <2>6. ProgressOf(st, ends, g)
    BY <2>1, <2>4, <2>5 DEF ProgressOf
  <2>7. QED
    BY <1>1, <2>6, ProgressIs
<1>11. QED
  BY <1>1, <1>4, <1>7, <1>8, <1>9, <1>10

(* The task t ends.                                                        *)
LEMMA EndInv ==
    ASSUME ForkJoinInv, NEW t \in Tasks, starts[t] = 1, ends[t] = 0,
           starts' = starts, ends' = [ends EXCEPT ![t] = @ + 1], deque' = deque,
           \A u \in Tasks : done'[u] => done[u] \/ u = t
    PROVE  /\ ends' \in [Tasks -> Nat] /\ QueueInv' /\ ParentsFirst' /\ DoneInv' /\ ends'[t] = 1
           /\ \A g \in ThunkFrames : Progress(g) /\ g.task # t => Progress(g)'
<1>1. PICK en : en = ends'
  OBVIOUS
<1>2. ends \in [Tasks -> Nat] /\ ParentsFirst /\ DoneInv /\ QueueInv
  BY DEF ForkJoinInv, TypeOK
<1>3. ends[t] + 1 = 1
  OBVIOUS
<1>4. en \in [Tasks -> Nat] /\ en[t] = 1 /\ \A u \in Tasks : u # t => en[u] = ends[u]
  BY <1>1, <1>2, <1>3
<1>5. QueueInv' /\ ParentsFirst'
  BY <1>2 DEF QueueInv, ParentsFirst
<1>6. DoneInv'
  <2>1. ASSUME NEW u \in Tasks PROVE (starts[u] = 0 => en[u] = 0) /\ (done'[u] => en[u] = 1)
    <3>1. CASE u = t
      BY <1>4, <3>1
    <3>2. CASE u # t
      <4>1. (starts[u] = 0 => ends[u] = 0) /\ (done[u] => ends[u] = 1)
        BY <1>2 DEF DoneInv
      <4>2. QED
        BY <1>4, <3>2, <4>1
    <3>3. QED
      BY <3>1, <3>2
  <2>2. QED
    BY <1>1, <2>1 DEF DoneInv
<1>7. ASSUME NEW g \in ThunkFrames, Progress(g), g.task # t PROVE Progress(g)'
  <2>1. ProgressOf(starts, ends, g)
    BY <1>7, ProgressIs
  <2>2. g.task \in Tasks
    BY ThunkFields
  <2>3. en[g.task] = 0
    BY <1>4, <1>7, <2>1, <2>2 DEF ProgressOf
  <2>4. \A c \in Tasks : ends[c] = 1 => en[c] = 1
    BY <1>4
  <2>5. ASSUME NEW k \in DOMAIN Pardos[g.task], NEW c \in Dag!Children(g.task, k), k < g.at
        PROVE  en[c] = 1
    <3>1. c \in Tasks
      BY <2>2, <2>5, ChildFacts
    <3>2. QED
      BY <2>1, <2>4, <2>5, <3>1 DEF ProgressOf
  <2>6. InPardo(g) /\ g.pc # "left" => en[Left(g)] = 1
    <3>1. InPardo(g) => Left(g) \in Tasks
      BY <2>1, PardoFacts DEF ProgressOf
    <3>2. QED
      BY <2>1, <2>4, <3>1 DEF ProgressOf
  <2>7. ProgressOf(starts, en, g)
    BY <2>1, <2>3, <2>5, <2>6 DEF ProgressOf
  <2>8. QED
    BY <1>1, <2>7, ProgressIs
<1>8. QED
  BY <1>1, <1>4, <1>5, <1>6, <1>7

(* Nothing starts and nothing ends.                                        *)
LEMMA StillInv ==
    ASSUME ForkJoinInv, starts' = starts, ends' = ends, deque' = deque, done' = done
    PROVE  /\ QueueInv' /\ ParentsFirst' /\ DoneInv'
           /\ \A g : Progress(g)' <=> Progress(g)
<1>1. QueueInv /\ ParentsFirst /\ DoneInv
  BY DEF ForkJoinInv
<1>2. QueueInv' /\ ParentsFirst' /\ DoneInv'
  BY <1>1 DEF QueueInv, ParentsFirst, DoneInv
<1>3. \A g : Progress(g)' <=> Progress(g)
  BY ProgressIs
<1>4. QED
  BY <1>2, <1>3

(* ------------------------- Frames of the state ------------------------- *)

(* A frame of a thunk, and where it is.                                    *)
At(w, k, f) == k \in Depth(w) /\ stack[w][k] = f /\ f \in ThunkFrames

LEMMA FrameFacts ==
    ASSUME ForkJoinInv, NEW w \in Workers, NEW k, NEW f, At(w, k, f)
    PROVE  /\ Progress(f) /\ f.task \in Tasks /\ starts[f.task] = 1 /\ ends[f.task] = 0
           /\ InPardo(f) => f.at \in DOMAIN Pardos[f.task]
           /\ \A v \in Workers : \A l, g : At(v, l, g) /\ g.task = f.task => v = w /\ l = k
<1>1. f.kind = "thunk" /\ f.task \in Tasks
  BY ThunkFields DEF At
<1>2. FrameInv /\ OneFrame
  BY DEF ForkJoinInv
<1>3. Progress(stack[w][k])
  BY <1>1, <1>2 DEF At, FrameInv
<1>4. Progress(f)
  BY <1>3 DEF At
<1>5. ASSUME NEW v \in Workers, NEW l, NEW g, At(v, l, g), g.task = f.task PROVE v = w /\ l = k
  <2>1. g.kind = "thunk"
    BY <1>5, ThunkFields DEF At
  <2>2. QED
    BY <1>1, <1>2, <1>5, <2>1 DEF At, OneFrame
<1>6. QED
  BY <1>1, <1>4, <1>5 DEF Progress

LEMMA RightsDiffer ==
    ASSUME ForkJoinInv, NEW w \in Workers, NEW k, NEW f, At(w, k, f), InPardo(f),
           NEW v \in Workers, NEW l, NEW g, At(v, l, g), InPardo(g), Right(f) = Right(g)
    PROVE  w = v /\ k = l
<1>1. f.task \in Tasks /\ f.at \in DOMAIN Pardos[f.task]
  BY FrameFacts
<1>2. g.task \in Tasks /\ g.at \in DOMAIN Pardos[g.task]
  BY FrameFacts
<1>3. f.task = g.task
  BY <1>1, <1>2, SidesDiffer DEF Right
<1>4. QED
  BY <1>3, FrameFacts

(* Whose a job in a deque is.                                              *)
LEMMA JobFrame ==
    ASSUME ForkJoinInv, NEW v \in Workers, NEW i \in 1..Len(deque[v])
    PROVE  /\ \E k \in Depth(v), f \in ThunkFrames :
                At(v, k, f) /\ Spawning(f) /\ InPardo(f) /\ deque[v][i] = Right(f)
           /\ starts[deque[v][i]] = 0 /\ deque[v][i] \in Tasks
<1>1. TypeOK /\ DequeMatchesStack /\ QueueInv
  BY DEF ForkJoinInv
<1>2. PICK k \in 1..Len(stack[v]) : SpawnedBy(stack[v], deque[v], i, k)
  BY <1>1 DEF DequeMatchesStack, Matches
<1>3. PICK f : f = stack[v][k]
  OBVIOUS
<1>4. Spawning(f) /\ deque[v][i] = Right(f) /\ f.kind = "thunk"
  BY <1>2, <1>3 DEF SpawnedBy, Spawning
<1>5. k \in Depth(v) /\ f \in Frames
  BY <1>1, <1>2, <1>3, StackType
<1>6. f \in ThunkFrames
  BY <1>4, <1>5, FrameKinds
<1>7. At(v, k, f) /\ InPardo(f)
  BY <1>3, <1>4, <1>5, <1>6 DEF At, InPardo, Spawning
<1>8. starts[deque[v][i]] = 0 /\ deque[v][i] \in Tasks
  BY <1>1, DequeType DEF QueueInv
<1>9. QED
  BY <1>4, <1>5, <1>6, <1>7, <1>8

(* No job is twice in the deques.                                          *)
LEMMA JobsDiffer ==
    ASSUME ForkJoinInv, NEW v \in Workers, NEW i \in 1..Len(deque[v]),
           NEW u \in Workers, NEW j \in 1..Len(deque[u]), deque[v][i] = deque[u][j]
    PROVE  v = u /\ i = j
<1>0. TypeOK /\ DequeMatchesStack
  BY DEF ForkJoinInv
<1>1. v = u
  <2>1. PICK k \in Depth(v), f \in ThunkFrames : At(v, k, f) /\ InPardo(f) /\ deque[v][i] = Right(f)
    BY JobFrame
  <2>2. PICK l \in Depth(u), g \in ThunkFrames : At(u, l, g) /\ InPardo(g) /\ deque[u][j] = Right(g)
    BY JobFrame
  <2>3. QED
    BY <2>1, <2>2, RightsDiffer
<1>2. ASSUME NEW a \in 1..Len(deque[v]), NEW b \in 1..Len(deque[v]), b > a PROVE deque[v][a] # deque[v][b]
  <2>1. PICK s : s = stack[v]
    OBVIOUS
  <2>2. PICK d : d = deque[v]
    OBVIOUS
  <2>3. Matches(s, d)
    BY <1>0, <2>1, <2>2 DEF DequeMatchesStack
  <2>4. PICK k \in 1..Len(s) : SpawnedBy(s, d, a, k)
                               /\ \E l \in 1..Len(s) : l > k /\ SpawnedBy(s, d, b, l)
    BY <1>2, <2>2, <2>3 DEF Matches
  <2>5. PICK l \in 1..Len(s) : l > k /\ SpawnedBy(s, d, b, l)
    BY <2>4
  <2>6. \A e \in 1..Len(s) : e \in Depth(v) /\ s[e] \in Frames
    BY <1>0, <2>1, StackType
  <2>7. PICK f : f = s[k]
    OBVIOUS
  <2>8. PICK g : g = s[l]
    OBVIOUS
  <2>9. f \in Frames /\ g \in Frames /\ k \in Depth(v) /\ l \in Depth(v)
    BY <2>4, <2>5, <2>6, <2>7, <2>8
  <2>10. /\ Spawning(f) /\ d[a] = Right(f) /\ f.kind = "thunk" /\ InPardo(f)
         /\ Spawning(g) /\ d[b] = Right(g) /\ g.kind = "thunk" /\ InPardo(g)
    BY <2>4, <2>5, <2>7, <2>8 DEF SpawnedBy, Spawning, InPardo
  <2>11. At(v, k, f) /\ At(v, l, g)
    BY <2>1, <2>7, <2>8, <2>9, <2>10, FrameKinds DEF At
  <2>12. k # l
    BY <2>5
  <2>13. Right(f) # Right(g)
    BY <2>10, <2>11, <2>12, RightsDiffer
  <2>14. QED
    BY <2>2, <2>10, <2>13
<1>3. Len(deque[v]) \in Nat
  BY <1>0, DequeType
<1>4. i = j \/ i > j \/ j > i
  BY <1>1, <1>3
<1>5. QED
  BY <1>1, <1>2, <1>4

(* A job that starts is not in the deques any more.                        *)
LEMMA QueueStarts ==
    ASSUME ForkJoinInv, NEW t \in Tasks, starts' = [starts EXCEPT ![t] = @ + 1],
           \A v \in Workers : \A i \in 1..Len(deque'[v]) :
             deque'[v][i] \in Tasks /\ starts[deque'[v][i]] = 0 /\ deque'[v][i] # t
    PROVE  QueueInv'
<1>1. starts \in [Tasks -> Nat]
  BY DEF ForkJoinInv, TypeOK
<1>2. \A u \in Tasks : u # t => starts'[u] = starts[u]
  BY <1>1
<1>3. ASSUME NEW v \in Workers, NEW i \in 1..Len(deque'[v]) PROVE starts'[deque'[v][i]] = 0
  <2>1. PICK u : u = deque'[v][i]
    OBVIOUS
  <2>2. u \in Tasks /\ starts[u] = 0 /\ u # t
    BY <1>3, <2>1
  <2>3. starts'[u] = 0
    BY <1>2, <2>2
  <2>4. QED
    BY <2>1, <2>3
<1>4. QED
  BY <1>3 DEF QueueInv

(* A pardo goes on, unless its right task has ended.                       *)
LEMMA LiveKept ==
    ASSUME TypeOK, NEW w \in Workers, NEW m \in Nat, NEW n \in Nat, NEW x, NEW y, Moves(w, m, n, x, y),
           m > 0 /\ InPardo(stack[w][m]) =>
             \/ InPardo(x) /\ Right(x) = Right(stack[w][m])
             \/ ends'[Right(stack[w][m])] # 0,
           Len(stack[w]) = m + 1 => ~InPardo(stack[w][m + 1]),
           NEW t \in Tasks, IsLive(t)
    PROVE  IsLive(t)' \/ ends'[t] # 0
<1>0. PICK v \in Workers : \E k \in Depth(v) : InPardo(stack[v][k]) /\ Right(stack[v][k]) = t
  BY DEF IsLive
<1>1. PICK k \in Depth(v) : InPardo(stack[v][k]) /\ Right(stack[v][k]) = t
  BY <1>0
<1>2. PICK f : f = stack[v][k]
  OBVIOUS
<1>3. InPardo(f) /\ Right(f) = t
  BY <1>1, <1>2
<1>4. ASSUME NEW l \in Depth(v)', NEW g, g = stack'[v][l], InPardo(g), Right(g) = t PROVE IsLive(t)'
  <2>1. (InPardo(stack[v][l]) /\ Right(stack[v][l]) = t)'
    BY <1>4 DEF InPardo, Right
  <2>2. QED
    BY <1>4, <2>1 DEF IsLive
<1>5. CASE v # w
  <2>1. stack'[v] = stack[v]
    BY <1>5 DEF Moves
  <2>2. k \in Depth(v)' /\ f = stack'[v][k]
    BY <1>1, <1>2, <2>1 DEF Depth
  <2>3. QED
    BY <1>3, <1>4, <2>2
<1>6. CASE v = w
  <2>1. PICK s : s = stack[w]
    OBVIOUS
  <2>2. PICK r : r = stack'[w]
    OBVIOUS
  <2>4. \A l \in 1..Len(stack[w]) :
          \/ l < m /\ l \in 1..Len(stack'[w]) /\ stack'[w][l] = stack[w][l]
          \/ l = m /\ m > 0 /\ l \in 1..Len(stack'[w]) /\ stack'[w][l] = x
          \/ l = m + 1 /\ Len(stack[w]) = m + 1
    BY MovesPlaces
  <2>5. k \in 1..Len(s) /\ f = s[k]
    BY <1>1, <1>2, <1>6, <2>1 DEF Depth
  <2>6. \A l \in 1..Len(r) : l \in Depth(v)'
    BY <1>6, <2>2 DEF Depth
  <2>7. CASE k < m /\ k \in 1..Len(r) /\ r[k] = s[k]
    BY <1>3, <1>4, <1>6, <2>2, <2>5, <2>6, <2>7
  <2>8. CASE k = m /\ m > 0 /\ k \in 1..Len(r) /\ r[k] = x
    <3>1. (InPardo(x) /\ Right(x) = t) \/ ends'[t] # 0
      BY <1>2, <1>3, <1>6, <2>8
    <3>2. QED
      BY <1>4, <1>6, <2>2, <2>6, <2>8, <3>1
  <2>9. CASE k = m + 1 /\ Len(s) = m + 1
    BY <1>3, <1>6, <2>1, <2>5, <2>9
  <2>10. QED
    BY <2>1, <2>2, <2>4, <2>5, <2>7, <2>8, <2>9
<1>7. QED
  BY <1>5, <1>6

(* ------------------------- Steps --------------------------------------- *)

LEMMA ActiveThunk ==
    ASSUME TypeOK, NEW w \in Workers, NEW p, Active(w, "thunk", p)
    PROVE  /\ stack[w] # << >> /\ Len(stack[w]) \in Nat \ {0}
           /\ \E f \in ThunkFrames : /\ f = Top(w) /\ f = stack[w][Len(stack[w])]
                                     /\ f.pc = p /\ At(w, Len(stack[w]), f)
<1>1. stack[w] # << >> /\ Top(w).kind = "thunk" /\ Top(w).pc = p
  BY DEF Active
<1>2. Len(stack[w]) \in Nat \ {0} /\ Len(stack[w]) \in Depth(w) /\ Top(w) \in Frames
  BY <1>1, StackType
<1>3. PICK f : f = Top(w)
  OBVIOUS
<1>4. f \in ThunkFrames
  BY <1>1, <1>2, <1>3, FrameKinds
<1>5. f = stack[w][Len(stack[w])]
  BY <1>3 DEF Top
<1>6. QED
  BY <1>1, <1>2, <1>3, <1>4, <1>5 DEF At

LEMMA ActiveLoop ==
    ASSUME TypeOK, NEW w \in Workers, NEW p, Active(w, "loop", p)
    PROVE  /\ stack[w] # << >> /\ Len(stack[w]) \in Nat \ {0} /\ Len(stack[w]) \in Depth(w)
           /\ \E f \in LoopFrames : f = Top(w) /\ f = stack[w][Len(stack[w])] /\ f.pc = p
<1>1. stack[w] # << >> /\ Top(w).kind = "loop" /\ Top(w).pc = p
  BY DEF Active
<1>2. Len(stack[w]) \in Nat \ {0} /\ Len(stack[w]) \in Depth(w) /\ Top(w) \in Frames
  BY <1>1, StackType
<1>3. PICK f : f = Top(w)
  OBVIOUS
<1>4. f \in LoopFrames
  BY <1>1, <1>2, <1>3, FrameKinds
<1>5. f = stack[w][Len(stack[w])]
  BY <1>3 DEF Top
<1>6. QED
  BY <1>1, <1>2, <1>3, <1>4, <1>5

LEMMA DequesMatch ==
    ASSUME NEW w \in Workers, NEW m, NEW n, NEW x, NEW y, Moves(w, m, n, x, y),
           Matches(stack'[w], deque'[w]), \A v \in Workers \ {w} : Matches(stack[v], deque'[v])
    PROVE  DequeMatchesStack'
<1>1. ASSUME NEW v \in Workers PROVE Matches(stack'[v], deque'[v])
  <2>1. CASE v = w
    BY <2>1
  <2>2. CASE v # w
    BY <2>2 DEF Moves
  <2>3. QED
    BY <2>1, <2>2
<1>2. QED
  BY <1>1 DEF DequeMatchesStack, Matches, SpawnedBy, Spawning, Right

(* A step in which no thunk begins or ends.                                *)
LEMMA StillStep ==
    ASSUME ForkJoinInv, NEW w \in Workers, NEW m \in Nat, NEW n \in Nat, NEW x, NEW y,
           Moves(w, m, n, x, y), UNCHANGED <<deque, done, finished_flag, starts, ends>>,
           mutex' \in Workers \cup {Nobody},
           Matches(stack'[w], deque[w]),
           m > 0 => SameCall(stack[w][m], x) /\ (x.kind = "thunk" => Progress(x)),
           m > 0 /\ InPardo(stack[w][m]) =>
             \/ InPardo(x) /\ Right(x) = Right(stack[w][m])
             \/ ends[Right(stack[w][m])] # 0,
           Len(stack[w]) = m + 1 => ~InPardo(stack[w][m + 1]),
           m > 0 /\ n = m => x.pc \notin Callers,
           n = m + 1 => m > 0 /\ Calls(x, y) /\ y.pc \notin Callers /\ y.kind = "loop"
    PROVE  ForkJoinInv'
<1>1. TypeOK /\ FrameInv /\ DequeMatchesStack
  BY DEF ForkJoinInv
<1>2. stack' \in [Workers -> Seq(ThunkFrames \cup LoopFrames)]
  BY DEF Moves, Frames
<1>3. TypeOK'
  BY <1>1, <1>2 DEF TypeOK
<1>4. QueueInv' /\ ParentsFirst' /\ DoneInv' /\ \A g : Progress(g)' <=> Progress(g)
  BY StillInv
<1>5. DequeMatchesStack'
  <2>1. \A v \in Workers \ {w} : Matches(stack[v], deque'[v])
    BY <1>1 DEF DequeMatchesStack
  <2>2. QED
    BY <2>1, DequesMatch
<1>6. ASSUME NEW v \in Workers, NEW k \in Depth(v), NEW g \in ThunkFrames, stack[v][k] = g
      PROVE  Progress(g)'
  <2>1. At(v, k, g)
    BY <1>6 DEF At
  <2>2. QED
    BY <1>4, <2>1, FrameFacts
<1>7. ASSUME NEW t \in Tasks, IsLive(t) PROVE IsLive(t)' \/ ends'[t] # 0
  <2>1. m > 0 /\ InPardo(stack[w][m]) =>
             \/ InPardo(x) /\ Right(x) = Right(stack[w][m])
             \/ ends'[Right(stack[w][m])] # 0
    OBVIOUS
  <2>2. QED
    BY <1>1, <1>7, <2>1, LiveKept
<1>8. /\ m > 0 => SameCall(stack[w][m], x) /\ (x.kind = "thunk" => Progress(x)')
      /\ n = m + 1 => /\ m > 0 /\ Calls(x, y) /\ y.pc \notin Callers
                      /\ y.kind = "thunk" => /\ starts[y.task] = 0 /\ Progress(y)'
                                             /\ y.job => IsLive(y.task)'
  BY <1>4
<1>9. QED
  BY <1>3, <1>4, <1>5, <1>6, <1>7, <1>8, MovesInv

LEMMA StutterKeeps == ASSUME ForkJoinInv, UNCHANGED <<stack, deque, done, mutex, starts, ends>>,
                             finished_flag' \in BOOLEAN
                      PROVE  ForkJoinInv'
<1>1. \A t : IsLive(t)' <=> IsLive(t)
  BY DEF IsLive, Depth, InPardo, Right
<1>2. \A f : Progress(f)' <=> Progress(f)
  BY ProgressIs
<1>3. TypeOK'
  BY DEF ForkJoinInv, TypeOK
<1>4. CallInv' /\ OneFrame'
  BY DEF ForkJoinInv, CallInv, OneFrame, Calls, Depth, Left, Right
<1>5. FrameInv'
  <2>1. ASSUME NEW w \in Workers, NEW k \in Depth(w), stack[w][k].kind = "thunk"
        PROVE  Progress(stack[w][k])'
    <3>1. PICK f : f = stack[w][k]
      OBVIOUS
    <3>2. Progress(f)'
      BY <1>2, <2>1, <3>1 DEF ForkJoinInv, FrameInv
    <3>3. stack'[w][k] = f
      BY <3>1
    <3>4. QED
      BY <3>2, <3>3 DEF Progress, InPardo, Left
  <2>2. QED
    BY <2>1 DEF FrameInv, Depth
<1>6. QueueInv' /\ ParentsFirst' /\ DoneInv'
  BY DEF ForkJoinInv, QueueInv, ParentsFirst, DoneInv
<1>7. RunInv'
  BY DEF ForkJoinInv, RunInv, IsLive, Depth, InPardo, Right
<1>8. DequeMatchesStack'
  <2>1. \A w \in Workers : stack'[w] = stack[w] /\ deque'[w] = deque[w] /\ Matches(stack[w], deque[w])
    BY DEF ForkJoinInv, DequeMatchesStack
  <2>2. \A w \in Workers : Matches(stack'[w], deque'[w])
    BY <2>1
  <2>3. QED
    BY <2>2 DEF DequeMatchesStack, Matches, SpawnedBy, Spawning, Right
<1>9. QED
  BY <1>3, <1>4, <1>5, <1>6, <1>7, <1>8 DEF ForkJoinInv

(* ------------------------- Steps that only look ------------------------ *)

LEMMA MatchesSame ==
    ASSUME ForkJoinInv, NEW w \in Workers, NEW m \in Nat, NEW n \in Nat, NEW x, NEW y,
           Moves(w, m, n, x, y),
           m > 0 => /\ Spawning(x) <=> Spawning(stack[w][m])
                    /\ Spawning(x) => Right(x) = Right(stack[w][m])
                    /\ stack[w][m].kind = "thunk" => x.kind = "thunk",
           Len(stack[w]) = m + 1 => ~Spawning(stack[w][m + 1]),
           n = m + 1 => ~Spawning(y) /\ y.kind = "thunk"
    PROVE  Matches(stack'[w], deque[w])
<1>1. PICK s : s = stack[w]
  OBVIOUS
<1>2. PICK r : r = stack'[w]
  OBVIOUS
<1>3. PICK d : d = deque[w]
  OBVIOUS
<1>4. Moved(s, r, m, n, x, y)
  BY <1>1, <1>2 DEF Moves
<1>5. Matches(s, d) /\ d \in Seq(Tasks)
  BY <1>1, <1>3 DEF ForkJoinInv, DequeMatchesStack, TypeOK
<1>6. m > 0 => /\ Spawning(x) <=> Spawning(s[m])
               /\ Spawning(x) => Right(x) = Right(s[m])
               /\ s[m].kind = "thunk" => x.kind = "thunk"
  BY <1>1
<1>7. Len(s) = m + 1 => ~Spawning(s[m + 1])
  BY <1>1
<1>8. Matches(r, d)
  BY <1>4, <1>5, <1>6, <1>7, MatchesMoved
<1>9. QED
  BY <1>2, <1>3, <1>8

LEMMA MatchesNone == ASSUME NEW w, NEW d, d = << >> PROVE Matches(stack'[w], d)
<1>1. PICK r : r = stack'[w]
  OBVIOUS
<1>2. Len(d) = 0
  BY EmptySeq
<1>3. Matches(r, d)
  BY <1>2, MatchesEmpty
<1>4. QED
  BY <1>1, <1>3

(* Left has returned.                                                      *)
LEMMA Within ==
    ASSUME NEW f \in ThunkFrames, Progress(f), InPardo(f), ends[Left(f)] = 1,
           NEW p \in {"try_pop", "right", "wait", "spin"}
    PROVE  /\ [f EXCEPT !.pc = p] \in ThunkFrames /\ SameCall(f, [f EXCEPT !.pc = p])
           /\ InPardo([f EXCEPT !.pc = p]) /\ Right([f EXCEPT !.pc = p]) = Right(f)
           /\ [f EXCEPT !.pc = p].pc = p /\ [f EXCEPT !.pc = p].kind = "thunk"
           /\ Progress([f EXCEPT !.pc = p])
<1>1. PICK x : x = [f EXCEPT !.pc = p]
  OBVIOUS
<1>2. p \in ThunkPcs
  BY DEF ThunkPcs
<1>3. /\ x \in ThunkFrames /\ x.kind = "thunk" /\ x.pc = p
      /\ x.task = f.task /\ x.at = f.at /\ x.job = f.job
  BY <1>1, <1>2, ThunkAt
<1>4. f.kind = "thunk"
  BY ThunkFields
<1>5. SameCall(f, x) /\ InPardo(x) /\ Right(x) = Right(f)
  BY <1>3, <1>4 DEF SameCall, InPardo, Right
<1>6. f.at \in DOMAIN Pardos[f.task]
  BY DEF Progress
<1>7. Progress(x)
  BY <1>3, <1>5, <1>6, ProgressIs, ProgressWithin
<1>8. QED
  BY <1>1, <1>3, <1>5, <1>7

LEMMA StepWait == ASSUME ForkJoinInv, NEW w \in Workers, Wait(w) PROVE ForkJoinInv'
<1>1. TypeOK
  BY DEF ForkJoinInv
<1>2. Active(w, "thunk", "try_pop") /\ deque[w] = << >>
  BY DEF Wait
<1>3. PICK m : m = Len(stack[w])
  OBVIOUS
<1>4. stack[w] # << >> /\ m \in Nat \ {0}
  BY <1>1, <1>2, <1>3, ActiveThunk
<1>5. PICK f \in ThunkFrames : f = Top(w) /\ f = stack[w][m] /\ f.pc = "try_pop" /\ At(w, m, f)
  BY <1>1, <1>2, <1>3, ActiveThunk
<1>6. Progress(f) /\ InPardo(f) /\ f.kind = "thunk"
  BY <1>5, FrameFacts, ThunkFields DEF InPardo
<1>7. ends[Left(f)] = 1 /\ f.at \in DOMAIN Pardos[f.task]
  BY <1>5, <1>6 DEF Progress
<1>8. Right(f) \in Tasks
  BY <1>7, PardoFacts
<1>9. UNCHANGED <<deque, done, finished_flag, mutex, starts, ends>> /\ mutex' \in Workers \cup {Nobody}
  BY <1>1 DEF Wait, TypeOK
<1>10. Matches(stack'[w], deque[w])
  BY <1>2, MatchesNone
<1>11. Len(stack[w]) # m + 1 /\ m # m + 1 /\ m > 0
  BY <1>3, <1>4
<1>12. CASE f.task \in Conservative
  <2>1. PICK x : x = [f EXCEPT !.pc = "spin"]
    OBVIOUS
  <2>2. /\ x \in ThunkFrames /\ SameCall(f, x) /\ InPardo(x) /\ Right(x) = Right(f)
        /\ x.pc = "spin" /\ x.kind = "thunk" /\ Progress(x)
    BY <1>6, <1>7, <2>1, Within
  <2>3. stack' = [stack EXCEPT ![w] = Append(Under(w), x)]
    BY <1>5, <1>12, <2>1 DEF Wait, Goto
  <2>4. Moves(w, m, m, x, x)
    BY <1>1, <1>3, <1>4, <2>2, <2>3, GotoMoves DEF Frames
  <2>5. x.pc \notin Callers
    BY <2>2 DEF Callers
  <2>6. QED
    BY <1>4, <1>5, <1>9, <1>10, <1>11, <2>2, <2>4, <2>5, StillStep
<1>13. CASE f.task \notin Conservative
  <2>1. PICK x : x = [f EXCEPT !.pc = "wait"]
    OBVIOUS
  <2>2. /\ x \in ThunkFrames /\ SameCall(f, x) /\ InPardo(x) /\ Right(x) = Right(f)
        /\ x.pc = "wait" /\ x.kind = "thunk" /\ Progress(x)
    BY <1>6, <1>7, <2>1, Within
  <2>3. PICK y : y = LoopFrame(Right(f))
    OBVIOUS
  <2>4. y \in LoopFrames /\ y.kind = "loop" /\ y.until = Right(f) /\ y.pc = "check"
    BY <1>8, <2>3, NewLoop
  <2>5. stack' = [stack EXCEPT ![w] = Append(Append(Under(w), x), y)]
    BY <1>5, <1>13, <2>1, <2>3 DEF Wait, Call
  <2>6. Moves(w, m, m + 1, x, y)
    BY <1>1, <1>3, <1>4, <2>2, <2>4, <2>5, CallMoves DEF Frames
  <2>7. Calls(x, y) /\ y.pc \notin Callers
    BY <2>2, <2>4 DEF Calls, Callers
  <2>8. m + 1 \in Nat
    BY <1>4
  <2>9. QED
    BY <1>4, <1>5, <1>9, <1>10, <1>11, <2>2, <2>4, <2>6, <2>7, <2>8, StillStep
<1>14. QED
  BY <1>12, <1>13

LEMMA StepSpinDone == ASSUME ForkJoinInv, NEW w \in Workers, SpinDone(w) PROVE ForkJoinInv'
<1>1. TypeOK /\ DoneInv
  BY DEF ForkJoinInv
<1>2. Active(w, "thunk", "spin")
  BY DEF SpinDone
<1>3. PICK m : m = Len(stack[w])
  OBVIOUS
<1>4. stack[w] # << >> /\ m \in Nat \ {0}
  BY <1>1, <1>2, <1>3, ActiveThunk
<1>5. PICK f \in ThunkFrames : f = Top(w) /\ f = stack[w][m] /\ f.pc = "spin" /\ At(w, m, f)
  BY <1>1, <1>2, <1>3, ActiveThunk
<1>6. Progress(f) /\ InPardo(f) /\ f.kind = "thunk"
  BY <1>5, FrameFacts, ThunkFields DEF InPardo
<1>7. ends[Left(f)] = 1 /\ f.at \in DOMAIN Pardos[f.task]
  BY <1>5, <1>6 DEF Progress
<1>8. Right(f) \in Tasks /\ ends[Right(f)] = 1
  BY <1>1, <1>5, <1>7, PardoFacts DEF SpinDone, DoneInv
<1>9. UNCHANGED <<deque, done, finished_flag, mutex, starts, ends>> /\ mutex' \in Workers \cup {Nobody}
  BY <1>1 DEF SpinDone, TypeOK
<1>10. Len(stack[w]) # m + 1 /\ m # m + 1 /\ m > 0
  BY <1>3, <1>4
<1>11. PICK x : x = NextPardo(f)
  OBVIOUS
<1>12. /\ x \in ThunkFrames /\ x.kind = "thunk" /\ x.pc = "body" /\ x.task = f.task /\ x.job = f.job
  BY <1>11, NextPardoFields
<1>13. Progress(x)
  BY <1>6, <1>7, <1>8, <1>11, ProgressIs, ProgressNext
<1>14. stack' = [stack EXCEPT ![w] = Append(Under(w), x)]
  BY <1>5, <1>11 DEF SpinDone
<1>15. Moves(w, m, m, x, x)
  BY <1>1, <1>3, <1>4, <1>12, <1>14, GotoMoves DEF Frames
<1>16. SameCall(f, x) /\ x.pc \notin Callers /\ ~Spawning(x) /\ ~Spawning(f)
  BY <1>5, <1>6, <1>12 DEF SameCall, Callers, Spawning
<1>17. Matches(stack'[w], deque[w])
  BY <1>4, <1>5, <1>10, <1>12, <1>15, <1>16, MatchesSame
<1>18. ends[Right(f)] # 0
  BY <1>8
<1>19. QED
  BY <1>4, <1>5, <1>9, <1>10, <1>12, <1>13, <1>15, <1>16, <1>17, <1>18, StillStep

LEMMA StepAcquire == ASSUME ForkJoinInv, NEW w \in Workers, Acquire(w) PROVE ForkJoinInv'
<1>1. TypeOK
  BY DEF ForkJoinInv
<1>2. Active(w, "thunk", "lock")
  BY DEF Acquire
<1>3. PICK m : m = Len(stack[w])
  OBVIOUS
<1>4. stack[w] # << >> /\ m \in Nat \ {0}
  BY <1>1, <1>2, <1>3, ActiveThunk
<1>5. PICK f \in ThunkFrames : f = Top(w) /\ f = stack[w][m] /\ f.pc = "lock" /\ At(w, m, f)
  BY <1>1, <1>2, <1>3, ActiveThunk
<1>6. Progress(f) /\ ~InPardo(f) /\ f.kind = "thunk"
  BY <1>5, FrameFacts, ThunkFields DEF InPardo
<1>7. UNCHANGED <<deque, done, finished_flag, starts, ends>> /\ mutex' \in Workers \cup {Nobody}
  BY DEF Acquire
<1>8. Len(stack[w]) # m + 1 /\ m # m + 1 /\ m > 0
  BY <1>3, <1>4
<1>9. PICK x : x = [f EXCEPT !.pc = "body"]
  OBVIOUS
<1>10. "body" \in ThunkPcs
  BY DEF ThunkPcs
<1>11. /\ x \in ThunkFrames /\ x.kind = "thunk" /\ x.pc = "body"
       /\ x.task = f.task /\ x.at = f.at /\ x.job = f.job /\ ~InPardo(x)
  BY <1>9, <1>10, ThunkAt DEF InPardo
<1>12. Progress(x)
  BY <1>6, <1>11, ProgressIs, ProgressOutside
<1>13. stack' = [stack EXCEPT ![w] = Append(Under(w), x)]
  BY <1>5, <1>9 DEF Acquire, Goto
<1>14. Moves(w, m, m, x, x)
  BY <1>1, <1>3, <1>4, <1>11, <1>13, GotoMoves DEF Frames
<1>15. SameCall(f, x) /\ x.pc \notin Callers /\ ~Spawning(x) /\ ~Spawning(f)
  BY <1>5, <1>6, <1>11 DEF SameCall, Callers, Spawning
<1>16. Matches(stack'[w], deque[w])
  BY <1>4, <1>5, <1>8, <1>11, <1>14, <1>15, MatchesSame
<1>17. QED
  BY <1>4, <1>5, <1>6, <1>7, <1>8, <1>11, <1>12, <1>14, <1>15, <1>16, StillStep

(* A loop that goes on within itself.                                      *)
LEMMA StepLoop ==
    ASSUME ForkJoinInv, NEW w \in Workers, NEW p, Active(w, "loop", p),
           NEW q \in {"pop", "recheck", "steal"}, Goto(w, q),
           UNCHANGED <<deque, done, finished_flag, mutex, starts, ends>>
    PROVE  ForkJoinInv'
<1>1. TypeOK
  BY DEF ForkJoinInv
<1>2. PICK m : m = Len(stack[w])
  OBVIOUS
<1>3. stack[w] # << >> /\ m \in Nat \ {0}
  BY <1>1, <1>2, ActiveLoop
<1>4. PICK f \in LoopFrames : f = Top(w) /\ f = stack[w][m]
  BY <1>1, <1>2, ActiveLoop
<1>5. f.kind = "loop"
  BY LoopFields
<1>6. mutex' \in Workers \cup {Nobody}
  BY <1>1 DEF TypeOK
<1>7. Len(stack[w]) # m + 1 /\ m # m + 1 /\ m > 0
  BY <1>2, <1>3
<1>8. PICK x : x = [f EXCEPT !.pc = q]
  OBVIOUS
<1>9. q \in LoopPcs /\ q \notin Callers
  BY DEF LoopPcs, Callers
<1>10. x \in LoopFrames /\ x.kind = "loop" /\ x.pc = q /\ x.until = f.until
  BY <1>8, <1>9, LoopAt
<1>11. stack' = [stack EXCEPT ![w] = Append(Under(w), x)]
  BY <1>4, <1>8 DEF Goto
<1>12. Moves(w, m, m, x, x)
  BY <1>1, <1>2, <1>3, <1>10, <1>11, GotoMoves DEF Frames
<1>13. SameCall(f, x) /\ x.pc \notin Callers /\ ~Spawning(x) /\ ~Spawning(f) /\ ~InPardo(f)
  BY <1>5, <1>9, <1>10 DEF SameCall, Spawning, InPardo
<1>14. Matches(stack'[w], deque[w])
  BY <1>3, <1>4, <1>5, <1>7, <1>10, <1>12, <1>13, MatchesSame
<1>15. QED
  BY <1>3, <1>4, <1>6, <1>7, <1>10, <1>12, <1>13, <1>14, StillStep

(* ------------------------- Steps that return --------------------------- *)

LEMMA ResumedFacts ==
    ASSUME NEW g \in Frames, NEW h, Calls(g, h), NEW st, NEW en,
           g.kind = "thunk" => ProgressOf(st, en, g),
           g.kind = "thunk" /\ g.pc = "left" => en[Left(g)] = 1,
           g.kind = "thunk" /\ g.pc \in {"right", "wait"} => en[Right(g)] = 1
    PROVE  /\ Resumed(g) \in Frames /\ SameCall(g, Resumed(g)) /\ Resumed(g).pc \notin Callers
           /\ Resumed(g).kind = "thunk" => ProgressOf(st, en, Resumed(g))
           /\ Spawning(Resumed(g)) <=> Spawning(g)
           /\ Spawning(Resumed(g)) => Right(Resumed(g)) = Right(g)
           /\ g.kind = "thunk" => Resumed(g).kind = "thunk"
           /\ InPardo(g) => \/ InPardo(Resumed(g)) /\ Right(Resumed(g)) = Right(g)
                            \/ en[Right(g)] # 0
<1>1. PICK x : x = Resumed(g)
  OBVIOUS
<1>2. CASE g.kind = "thunk" /\ g.pc = "left"
  <2>1. g \in ThunkFrames
    BY <1>2, FrameKinds
  <2>2. x = [g EXCEPT !.pc = "try_pop"]
    BY <1>1, <1>2 DEF Resumed
  <2>3. "try_pop" \in ThunkPcs
    BY DEF ThunkPcs
  <2>4. /\ x \in ThunkFrames /\ x.kind = "thunk" /\ x.pc = "try_pop"
        /\ x.task = g.task /\ x.at = g.at /\ x.job = g.job
    BY <2>1, <2>2, <2>3, ThunkAt
  <2>5. /\ SameCall(g, x) /\ x.pc \notin Callers /\ Spawning(x) /\ Spawning(g)
        /\ Right(x) = Right(g) /\ InPardo(x) /\ InPardo(g)
    BY <1>2, <2>4 DEF SameCall, Callers, Spawning, Right, InPardo
  <2>6. g.at \in DOMAIN Pardos[g.task]
    BY <1>2, <2>5 DEF ProgressOf
  <2>7. ProgressOf(st, en, x)
    BY <1>2, <2>1, <2>4, <2>5, <2>6, ProgressWithin
  <2>8. x \in Frames
    BY <2>4 DEF Frames
  <2>9. QED
    BY <1>1, <2>4, <2>5, <2>7, <2>8
<1>3. CASE g.kind = "thunk" /\ g.pc \in {"right", "wait"}
  <2>1. g \in ThunkFrames
    BY <1>3, FrameKinds
  <2>2. x = NextPardo(g)
    BY <1>1, <1>3 DEF Resumed
  <2>3. /\ x \in ThunkFrames /\ x.kind = "thunk" /\ x.pc = "body" /\ x.task = g.task /\ x.job = g.job
    BY <2>1, <2>2, NextPardoFields
  <2>4. SameCall(g, x) /\ x.pc \notin Callers /\ ~Spawning(x) /\ ~Spawning(g) /\ InPardo(g)
    BY <1>3, <2>3 DEF SameCall, Callers, Spawning, InPardo
  <2>5. en[Left(g)] = 1 /\ en[Right(g)] = 1
    BY <1>3, <2>4 DEF ProgressOf
  <2>6. ProgressOf(st, en, x)
    BY <1>3, <2>1, <2>2, <2>4, <2>5, ProgressNext
  <2>7. x \in Frames /\ en[Right(g)] # 0
    BY <2>3, <2>5 DEF Frames
  <2>8. QED
    BY <1>1, <2>3, <2>4, <2>6, <2>7
<1>4. CASE g.kind = "loop" /\ g.pc = "run"
  <2>1. g \in LoopFrames
    BY <1>4, FrameKinds
  <2>2. x = [g EXCEPT !.pc = "check"]
    BY <1>1, <1>4 DEF Resumed
  <2>3. "check" \in LoopPcs
    BY DEF LoopPcs
  <2>4. x \in LoopFrames /\ x.kind = "loop" /\ x.pc = "check" /\ x.until = g.until
    BY <2>1, <2>2, <2>3, LoopAt
  <2>5. SameCall(g, x) /\ x.pc \notin Callers /\ ~Spawning(x) /\ ~Spawning(g) /\ ~InPardo(g)
    BY <1>4, <2>4 DEF SameCall, Callers, Spawning, InPardo
  <2>6. x \in Frames
    BY <2>4 DEF Frames
  <2>7. QED
    BY <1>1, <1>4, <2>4, <2>5, <2>6
<1>5. QED
  BY <1>2, <1>3, <1>4 DEF Calls

LEMMA CalledBy ==
    ASSUME ForkJoinInv, NEW w \in Workers, NEW m \in Nat \ {0}, Len(stack[w]) = m + 1
    PROVE  /\ m \in Depth(w) /\ stack[w][m] \in Frames /\ Calls(stack[w][m], stack[w][m + 1])
<1>1. TypeOK /\ CallInv
  BY DEF ForkJoinInv
<1>2. PICK s : s = stack[w]
  OBVIOUS
<1>3. Len(s) = m + 1
  BY <1>2
<1>4. m \in 1..Len(s) /\ m < Len(s)
  BY <1>3
<1>5. m \in Depth(w) /\ m < Len(stack[w])
  BY <1>2, <1>4 DEF Depth
<1>6. QED
  BY <1>1, <1>5, StackType DEF CallInv

LEMMA StepLoopEnds == ASSUME ForkJoinInv, NEW w \in Workers, LoopEnds(w) PROVE ForkJoinInv'
<1>1. TypeOK /\ DoneInv
  BY DEF ForkJoinInv
<1>2. PICK p : Active(w, "loop", p) /\ p \notin Callers
  BY DEF LoopEnds, Callers
<1>3. PICK m : m = Len(stack[w]) - 1
  OBVIOUS
<1>4. stack[w] # << >> /\ m \in Nat /\ Len(stack[w]) = m + 1
  BY <1>1, <1>2, <1>3, ActiveLoop
<1>5. PICK f \in LoopFrames : f = Top(w) /\ f = stack[w][m + 1]
  BY <1>1, <1>2, <1>4, ActiveLoop
<1>6. f.kind = "loop" /\ ~Spawning(f) /\ ~InPardo(f)
  BY LoopFields DEF Spawning, InPardo
<1>7. Finished(f.until) /\ Return(w)
  BY <1>5 DEF LoopEnds
<1>8. UNCHANGED <<deque, done, finished_flag, mutex, starts, ends>> /\ mutex' \in Workers \cup {Nobody}
  BY <1>1 DEF LoopEnds, TypeOK
<1>9. PICK g : g = stack[w][m]
  OBVIOUS
<1>10. PICK x : x = Resumed(g)
  OBVIOUS
<1>11. m # m + 1
  BY <1>4
<1>12. ASSUME m > 0
       PROVE  /\ x \in Frames /\ SameCall(g, x) /\ x.pc \notin Callers
              /\ x.kind = "thunk" => Progress(x)
              /\ Spawning(x) <=> Spawning(g)
              /\ Spawning(x) => Right(x) = Right(g)
              /\ g.kind = "thunk" => x.kind = "thunk"
              /\ InPardo(g) => \/ InPardo(x) /\ Right(x) = Right(g)
                               \/ ends[Right(g)] # 0
  <2>1. m \in Nat \ {0}
    BY <1>4, <1>12
  <2>2. m \in Depth(w) /\ g \in Frames /\ Calls(g, f)
    BY <1>4, <1>5, <1>9, <2>1, CalledBy
  <2>3. ASSUME g.kind = "thunk"
        PROVE  ProgressOf(starts, ends, g) /\ g.pc = "wait" /\ ends[Right(g)] = 1
    <3>1. g \in ThunkFrames
      BY <2>2, <2>3, FrameKinds
    <3>2. At(w, m, g)
      BY <1>9, <2>2, <3>1 DEF At
    <3>3. ProgressOf(starts, ends, g)
      BY <3>2, FrameFacts, ProgressIs
    <3>4. g.pc = "wait" /\ f.until = Right(g)
      BY <1>6, <2>2, <2>3 DEF Calls
    <3>5. InPardo(g)
      BY <2>3, <3>4 DEF InPardo
    <3>6. Right(g) \in Tasks
      BY <3>1, <3>3, <3>5, PardoFacts DEF ProgressOf
    <3>7. done[Right(g)]
      BY <1>7, <3>4, <3>6, ForkJoinAssumption DEF Finished
    <3>8. QED
      BY <1>1, <3>3, <3>4, <3>6, <3>7 DEF DoneInv
  <2>4. QED
    BY <1>10, <2>2, <2>3, ResumedFacts, ProgressIs
<1>13. Len(stack[w]) > 1 => x \in Frames /\ x = Resumed(stack[w][Len(stack[w]) - 1])
  BY <1>3, <1>4, <1>9, <1>10, <1>12
<1>14. Moves(w, m, m, x, x)
  BY <1>1, <1>3, <1>4, <1>7, <1>13, ReturnMoves
<1>15. Matches(stack'[w], deque[w])
  BY <1>4, <1>5, <1>6, <1>9, <1>11, <1>12, <1>14, MatchesSame
<1>16. QED
  BY <1>4, <1>5, <1>6, <1>8, <1>9, <1>11, <1>12, <1>14, <1>15, StillStep

LEMMA StepEndThunk == ASSUME ForkJoinInv, NEW w \in Workers, EndThunk(w) PROVE ForkJoinInv'
<1>1. TypeOK /\ DequeMatchesStack
  BY DEF ForkJoinInv
<1>2. Active(w, "thunk", "body")
  BY DEF EndThunk
<1>3. PICK m : m = Len(stack[w]) - 1
  OBVIOUS
<1>4. stack[w] # << >> /\ m \in Nat /\ Len(stack[w]) = m + 1
  BY <1>1, <1>2, <1>3, ActiveThunk
<1>5. PICK f \in ThunkFrames : f = Top(w) /\ f = stack[w][m + 1] /\ f.pc = "body" /\ At(w, m + 1, f)
  BY <1>1, <1>2, <1>4, ActiveThunk
<1>6. f.kind = "thunk" /\ ~Spawning(f) /\ ~InPardo(f)
  BY <1>5, ThunkFields DEF Spawning, InPardo
<1>7. PICK t : t = f.task
  OBVIOUS
<1>8. t \in Tasks /\ starts[t] = 1 /\ ends[t] = 0
  BY <1>5, <1>7, FrameFacts
<1>9. /\ Return(w) /\ starts' = starts /\ deque' = deque /\ finished_flag' = finished_flag
      /\ ends' = [ends EXCEPT ![t] = @ + 1]
      /\ done' = IF f.job THEN [done EXCEPT ![t] = TRUE] ELSE done
      /\ mutex' = IF t \in Locked THEN Nobody ELSE mutex
  BY <1>5, <1>7 DEF EndThunk
<1>10. done' \in [Tasks -> BOOLEAN] /\ mutex' \in Workers \cup {Nobody}
  BY <1>1, <1>8, <1>9 DEF TypeOK
<1>11. \A u \in Tasks : done'[u] => done[u] \/ u = t
  BY <1>1, <1>9 DEF TypeOK
<1>12. /\ ends' \in [Tasks -> Nat] /\ QueueInv' /\ ParentsFirst' /\ DoneInv' /\ ends'[t] = 1
       /\ \A g \in ThunkFrames : Progress(g) /\ g.task # t => Progress(g)'
  BY <1>8, <1>9, <1>11, EndInv
<1>13. ASSUME NEW v \in Workers, NEW k \in Depth(v), NEW g \in ThunkFrames, v # w \/ k # m + 1,
              stack[v][k] = g
       PROVE  Progress(g)' /\ g.task # t
  <2>1. At(v, k, g)
    BY <1>13 DEF At
  <2>2. g.task # t
    BY <1>5, <1>7, <1>13, <2>1, FrameFacts
  <2>3. QED
    BY <1>12, <2>1, <2>2, FrameFacts
<1>14. PICK g : g = stack[w][m]
  OBVIOUS
<1>15. PICK x : x = Resumed(g)
  OBVIOUS
<1>16. m # m + 1
  BY <1>4
<1>17. ASSUME m > 0
       PROVE  /\ x \in Frames /\ SameCall(g, x) /\ x.pc \notin Callers
              /\ x.kind = "thunk" => Progress(x)'
              /\ Spawning(x) <=> Spawning(g)
              /\ Spawning(x) => Right(x) = Right(g)
              /\ g.kind = "thunk" => x.kind = "thunk"
              /\ InPardo(g) => \/ InPardo(x) /\ Right(x) = Right(g)
                               \/ ends'[Right(g)] # 0
  <2>1. m \in Nat \ {0}
    BY <1>4, <1>17
  <2>2. m \in Depth(w) /\ g \in Frames /\ Calls(g, f)
    BY <1>4, <1>5, <1>14, <2>1, CalledBy
  <2>3. PICK en : en = ends'
    OBVIOUS
  <2>4. g.kind = "thunk" => ProgressOf(starts, en, g)
    <3>1. ASSUME g.kind = "thunk" PROVE Progress(g)'
      <4>1. g \in ThunkFrames
        BY <2>2, <3>1, FrameKinds
      <4>2. QED
        BY <1>13, <1>14, <1>16, <2>2, <4>1
    <3>2. QED
      BY <1>9, <2>3, <3>1, ProgressIs
  <2>5. /\ g.kind = "thunk" /\ g.pc = "left" => en[Left(g)] = 1
        /\ g.kind = "thunk" /\ g.pc \in {"right", "wait"} => en[Right(g)] = 1
    BY <1>6, <1>7, <1>12, <2>2, <2>3 DEF Calls
  <2>6. /\ x \in Frames /\ SameCall(g, x) /\ x.pc \notin Callers
        /\ x.kind = "thunk" => ProgressOf(starts, en, x)
        /\ Spawning(x) <=> Spawning(g)
        /\ Spawning(x) => Right(x) = Right(g)
        /\ g.kind = "thunk" => x.kind = "thunk"
        /\ InPardo(g) => \/ InPardo(x) /\ Right(x) = Right(g)
                         \/ en[Right(g)] # 0
    BY <1>15, <2>2, <2>4, <2>5, ResumedFacts
  <2>7. x.kind = "thunk" => Progress(x)'
    BY <1>9, <2>3, <2>6, ProgressIs
  <2>8. QED
    BY <2>3, <2>6, <2>7
<1>18. Len(stack[w]) > 1 => x \in Frames /\ x = Resumed(stack[w][Len(stack[w]) - 1])
  BY <1>3, <1>4, <1>14, <1>15, <1>17
<1>19. Moves(w, m, m, x, x)
  BY <1>1, <1>3, <1>4, <1>9, <1>18, ReturnMoves
<1>20. DequeMatchesStack'
  <2>1. Matches(stack'[w], deque[w])
    BY <1>4, <1>5, <1>6, <1>14, <1>16, <1>17, <1>19, MatchesSame
  <2>2. Matches(stack'[w], deque'[w]) /\ \A v \in Workers \ {w} : Matches(stack[v], deque'[v])
    BY <1>1, <1>9, <2>1 DEF DequeMatchesStack
  <2>3. QED
    BY <1>19, <2>2, DequesMatch
<1>21. TypeOK'
  <2>1. stack' \in [Workers -> Seq(ThunkFrames \cup LoopFrames)]
    BY <1>19 DEF Moves, Frames
  <2>2. QED
    BY <1>1, <1>9, <1>10, <1>12, <2>1 DEF TypeOK
<1>22. ASSUME NEW u \in Tasks, IsLive(u) PROVE IsLive(u)' \/ ends'[u] # 0
  BY <1>1, <1>4, <1>5, <1>6, <1>14, <1>17, <1>19, <1>22, LiveKept
<1>23. ASSUME NEW v \in Workers, NEW k \in Depth(v), NEW h \in ThunkFrames, v # w \/ k < m,
              stack[v][k] = h
       PROVE  Progress(h)'
  <2>1. k < m => k # m + 1
    BY <1>4
  <2>2. QED
    BY <1>13, <1>23, <2>1
<1>24. m > 0 => SameCall(stack[w][m], x) /\ (x.kind = "thunk" => Progress(x)') /\ x.pc \notin Callers
  BY <1>14, <1>17
<1>25. QED
  BY <1>4, <1>12, <1>16, <1>19, <1>20, <1>21, <1>22, <1>23, <1>24, MovesInv

(* ------------------------- Steps that start a thunk -------------------- *)

(* The thunk of p is in its i-th pardo, if it is not frame m of worker w.  *)
OthersWithin(w, m, p, i) ==
    \A v \in Workers : \A k \in Depth(v) : \A g \in ThunkFrames :
      stack[v][k] = g /\ (v # w \/ k # m) /\ g.task = p => g.at = i /\ InPardo(g)

(* A step in which the thunk of t is called, a child of the i-th pardo of  *)
(* p, which is under way unless the caller is the thunk of p.              *)
LEMMA StartStep ==
    ASSUME ForkJoinInv, NEW p \in Tasks, NEW i \in DOMAIN Pardos[p], NEW t \in Tasks,
           NEW w \in Workers, NEW m \in Nat \ {0}, NEW x, NEW y,
           t \in Dag!Children(p, i), starts[p] = 1, starts[t] = 0,
           y \in {ThunkFrame(t, FALSE), ThunkFrame(t, TRUE)}, y.job => IsLive(t)',
           Len(stack[w]) = m, Moves(w, m, m + 1, x, y), Calls(x, y),
           starts' = [starts EXCEPT ![t] = @ + 1], UNCHANGED <<finished_flag, mutex, ends>>,
           deque' \in [Workers -> Seq(Tasks)], done' \in [Tasks -> BOOLEAN],
           \A u \in Tasks : done'[u] => done[u],
           QueueInv', DequeMatchesStack',
           SameCall(stack[w][m], x), x.kind = "thunk" => Progress(x),
           x.kind = "thunk" /\ x.task = p => x.at = i /\ InPardo(x),
           x \in Frames,
           InPardo(stack[w][m]) => InPardo(x) /\ Right(x) = Right(stack[w][m]),
           OthersWithin(w, m, p, i)
    PROVE  ForkJoinInv'
<1>1. PICK j \in BOOLEAN : y = ThunkFrame(t, j)
  OBVIOUS
<1>2. /\ y \in ThunkFrames /\ y.kind = "thunk" /\ y.task = t /\ y.job = j
      /\ y.pc \in {"lock", "body"}
  BY <1>1, NewThunk
<1>3. /\ starts' \in [Tasks -> Nat] /\ ParentsFirst' /\ DoneInv'
      /\ Progress(ThunkFrame(t, j))'
      /\ \A g \in ThunkFrames : Progress(g) /\ (g.task = p => g.at = i /\ InPardo(g))
                                  => Progress(g)'
  BY StartInv
<1>4. Progress(y)'
  <2>1. ProgressOf(starts', ends', ThunkFrame(t, j))
    BY <1>3, ProgressIs
  <2>2. ProgressOf(starts', ends', y)
    BY <1>1, <2>1
  <2>3. QED
    BY <2>2, ProgressIs
<1>6. m \in Nat /\ m + 1 \in Nat /\ m > 0 /\ m + 1 # m
  OBVIOUS
<1>7. TypeOK /\ TypeOK'
  <2>1. stack' \in [Workers -> Seq(ThunkFrames \cup LoopFrames)]
    BY DEF Moves, Frames
  <2>2. QED
    BY <1>3, <2>1 DEF TypeOK, ForkJoinInv
<1>8. ASSUME NEW v \in Workers, NEW k \in Depth(v), NEW g \in ThunkFrames, v # w \/ k < m,
             stack[v][k] = g
      PROVE  Progress(g)'
  <2>1. At(v, k, g)
    BY <1>8 DEF At
  <2>2. Progress(g)
    BY <2>1, FrameFacts
  <2>3. v # w \/ k # m
    BY <1>8
  <2>4. QED
    BY <1>3, <1>8, <2>2, <2>3 DEF OthersWithin
<1>9. x.kind = "thunk" => Progress(x)'
  <2>1. x.kind = "thunk" => x \in ThunkFrames
    BY FrameKinds
  <2>2. QED
    BY <1>3, <2>1
<1>10. ASSUME NEW u \in Tasks, IsLive(u) PROVE IsLive(u)' \/ ends'[u] # 0
  <2>1. Len(stack[w]) # m + 1
    BY <1>6
  <2>2. QED
    BY <1>6, <1>7, <1>10, <2>1, LiveKept
<1>11. y.pc \notin Callers /\ starts[y.task] = 0 /\ (y.job => IsLive(y.task)')
  <2>1. y.job => IsLive(y.task)'
    BY <1>2
  <2>2. QED
    BY <1>2, <2>1 DEF Callers
<1>12. m > 0 => SameCall(stack[w][m], x) /\ (x.kind = "thunk" => Progress(x)')
  BY <1>9
<1>13. m + 1 = m + 1 => /\ m > 0 /\ Calls(x, y) /\ y.pc \notin Callers
                        /\ y.kind = "thunk" => /\ starts[y.task] = 0 /\ Progress(y)'
                                               /\ y.job => IsLive(y.task)'
  BY <1>4, <1>6, <1>11
<1>14. QED
  BY <1>3, <1>6, <1>7, <1>8, <1>10, <1>12, <1>13, MovesInv

LEMMA StepFork == ASSUME ForkJoinInv, NEW w \in Workers, Fork(w) PROVE ForkJoinInv'
<1>1. TypeOK /\ DequeMatchesStack /\ QueueInv
  BY DEF ForkJoinInv
<1>2. Active(w, "thunk", "body")
  BY DEF Fork
<1>3. PICK m : m = Len(stack[w])
  OBVIOUS
<1>4. stack[w] # << >> /\ m \in Nat \ {0}
  BY <1>1, <1>2, <1>3, ActiveThunk
<1>5. PICK f \in ThunkFrames : f = Top(w) /\ f = stack[w][m] /\ f.pc = "body" /\ At(w, m, f)
  BY <1>1, <1>2, <1>3, ActiveThunk
<1>6. f.kind = "thunk" /\ ~InPardo(f) /\ ~Spawning(f)
  BY <1>5, ThunkFields DEF InPardo, Spawning
<1>7. Progress(f) /\ f.task \in Tasks /\ starts[f.task] = 1
  BY <1>5, FrameFacts
<1>8. f.at \in DOMAIN Pardos[f.task]
  <2>1. f.at <= Len(Pardos[f.task]) /\ f.at \in Nat \ {0}
    BY <1>5, ThunkFields DEF Fork
  <2>2. PICK n : n = Len(Pardos[f.task])
    OBVIOUS
  <2>3. n \in Nat /\ DOMAIN Pardos[f.task] = 1..n
    BY <1>7, <2>2, PardoDomain
  <2>4. f.at \in 1..n
    BY <2>1, <2>2, <2>3
  <2>5. QED
    BY <2>3, <2>4
<1>9. PICK t : t = Left(f)
  OBVIOUS
<1>10. PICK u : u = Right(f)
  OBVIOUS
<1>11. t \in Tasks /\ u \in Tasks /\ t # u /\ Dag!Children(f.task, f.at) = {t, u}
  BY <1>8, <1>9, <1>10, PardoFacts
<1>12. starts[t] = 0 /\ starts[u] = 0
  BY <1>6, <1>7, <1>8, <1>11 DEF Progress
<1>13. PICK x : x = [f EXCEPT !.pc = "left"]
  OBVIOUS
<1>14. "left" \in ThunkPcs
  BY DEF ThunkPcs
<1>15. /\ x \in ThunkFrames /\ x.kind = "thunk" /\ x.pc = "left"
       /\ x.task = f.task /\ x.at = f.at /\ x.job = f.job
  BY <1>13, <1>14, ThunkAt
<1>16. InPardo(x) /\ Spawning(x) /\ SameCall(f, x) /\ Right(x) = u /\ Left(x) = t
  BY <1>6, <1>9, <1>10, <1>15 DEF InPardo, Spawning, SameCall, Left, Right
<1>17. Progress(x)
  <2>1. ProgressOf(starts, ends, f)
    BY <1>7, ProgressIs
  <2>2. ProgressOf(starts, ends, x)
    BY <1>8, <1>15, <1>16, <2>1, ProgressWithin
  <2>3. QED
    BY <2>2, ProgressIs
<1>18. /\ done' = [done EXCEPT ![u] = FALSE] /\ deque' = [deque EXCEPT ![w] = Append(@, u)]
       /\ starts' = [starts EXCEPT ![t] = @ + 1]
       /\ stack' = [stack EXCEPT ![w] = Append(Append(Under(w), x), ThunkFrame(t, FALSE))]
       /\ UNCHANGED <<finished_flag, mutex, ends>>
  BY <1>5, <1>9, <1>10, <1>13 DEF Fork, Call
<1>19. PICK y : y = ThunkFrame(t, FALSE)
  OBVIOUS
<1>20. /\ y \in ThunkFrames /\ y.kind = "thunk" /\ y.task = t /\ ~Spawning(y)
  BY <1>11, <1>19, NewThunk DEF Spawning
<1>21. Moves(w, m, m + 1, x, y)
  BY <1>1, <1>3, <1>4, <1>15, <1>18, <1>19, <1>20, CallMoves DEF Frames
<1>22. Calls(x, y)
  BY <1>15, <1>16, <1>20 DEF Calls
<1>23. PICK d : d = deque[w]
  OBVIOUS
<1>24. PICK e : e = Append(d, u)
  OBVIOUS
<1>25. /\ d \in Seq(Tasks) /\ e \in Seq(Tasks) /\ Len(d) \in Nat /\ Len(e) = Len(d) + 1
       /\ e[Len(d) + 1] = u /\ \A i \in 1..Len(d) : e[i] = d[i]
  BY <1>1, <1>11, <1>23, <1>24, AppendProperties, LenProperties DEF TypeOK
<1>26. deque'[w] = e /\ \A v \in Workers \ {w} : deque'[v] = deque[v]
  BY <1>1, <1>18, <1>23, <1>24 DEF TypeOK
<1>27. deque' \in [Workers -> Seq(Tasks)] /\ done' \in [Tasks -> BOOLEAN]
       /\ \A q \in Tasks : done'[q] => done[q]
  BY <1>1, <1>11, <1>18, <1>23, <1>24, <1>25 DEF TypeOK
<1>28. DequeMatchesStack'
  <2>1. PICK s : s = stack[w]
    OBVIOUS
  <2>2. PICK r : r = stack'[w]
    OBVIOUS
  <2>3. Moved(s, r, m, m + 1, x, y)
    BY <1>21, <2>1, <2>2 DEF Moves
  <2>4. Len(s) = m /\ s[m] = f /\ Matches(s, d) /\ m > 0 /\ m \in Nat
    BY <1>1, <1>3, <1>4, <1>5, <1>23, <2>1 DEF DequeMatchesStack
  <2>5. ASSUME NEW k \in 1..(m - 1), Spawning(s[k]) PROVE Right(s[k]) # u
    <3>1. PICK g : g = s[k]
      OBVIOUS
    <3>2. k \in 1..Len(s) /\ k # m
      BY <2>4
    <3>3. k \in Depth(w)
      BY <2>1, <3>2 DEF Depth
    <3>4. g \in Frames /\ g.kind = "thunk"
      BY <1>1, <2>1, <2>5, <3>1, <3>3, StackType DEF Spawning
    <3>5. At(w, k, g) /\ InPardo(g)
      BY <2>1, <2>5, <3>1, <3>3, <3>4, FrameKinds DEF At, Spawning, InPardo
    <3>6. g.task \in Tasks /\ g.at \in DOMAIN Pardos[g.task]
      BY <3>5, FrameFacts
    <3>7. g.task # f.task
      BY <1>5, <3>2, <3>5, FrameFacts
    <3>8. Right(g) # Right(f)
      BY <1>7, <1>8, <3>6, <3>7, SidesDiffer DEF Right
    <3>9. QED
      BY <1>10, <3>1, <3>8
  <2>6. ~Spawning(s[m]) /\ u = Right(x)
    BY <1>6, <1>16, <2>4
  <2>7. Matches(r, e)
    BY <1>11, <1>16, <1>20, <1>24, <1>25, <2>3, <2>4, <2>5, <2>6, MatchesFork
  <2>8. Matches(stack'[w], deque'[w]) /\ \A v \in Workers \ {w} : Matches(stack[v], deque'[v])
    BY <1>1, <1>26, <2>2, <2>7 DEF DequeMatchesStack
  <2>9. QED
    BY <1>21, <2>8, DequesMatch
<1>29. QueueInv'
  <2>1. ASSUME NEW v \in Workers, NEW i \in 1..Len(deque[v])
        PROVE  deque[v][i] \in Tasks /\ starts[deque[v][i]] = 0 /\ deque[v][i] # t
    <3>1. PICK k \in Depth(v), g \in ThunkFrames : At(v, k, g) /\ InPardo(g) /\ deque[v][i] = Right(g)
      BY JobFrame
    <3>2. g.task \in Tasks /\ g.at \in DOMAIN Pardos[g.task]
      BY <3>1, FrameFacts
    <3>3. Left(f) # Right(g)
      BY <1>7, <1>8, <3>2, SidesDiffer DEF Left, Right
    <3>4. QED
      BY <1>9, <3>1, <3>3, JobFrame
  <2>2. ASSUME NEW v \in Workers, NEW i \in 1..Len(deque'[v])
        PROVE  deque'[v][i] \in Tasks /\ starts[deque'[v][i]] = 0 /\ deque'[v][i] # t
    <3>1. CASE v # w
      <4>1. deque'[v] = deque[v]
        BY <1>26, <3>1
      <4>2. QED
        BY <2>1, <2>2, <4>1
    <3>2. CASE v = w
      <4>1. i \in 1..Len(e) /\ deque'[v][i] = e[i]
        BY <1>26, <2>2, <3>2
      <4>2. i = Len(d) + 1 \/ i \in 1..Len(d)
        BY <1>25, <4>1
      <4>3. CASE i = Len(d) + 1
        BY <1>11, <1>12, <1>25, <4>1, <4>3
      <4>4. CASE i \in 1..Len(d)
        BY <1>23, <1>25, <2>1, <4>1, <4>4
      <4>5. QED
        BY <4>2, <4>3, <4>4
    <3>3. QED
      BY <3>1, <3>2
  <2>3. QED
    BY <1>11, <1>18, <2>2, QueueStarts
<1>30. ASSUME NEW v \in Workers, NEW k \in Depth(v), NEW g \in ThunkFrames, stack[v][k] = g,
              v # w \/ k # m
       PROVE  g.task # f.task
  <2>1. At(v, k, g)
    BY <1>30 DEF At
  <2>2. QED
    BY <1>5, <1>30, <2>1, FrameFacts
<1>31. /\ y \in {ThunkFrame(t, FALSE), ThunkFrame(t, TRUE)} /\ y.job = FALSE
       /\ t \in Dag!Children(f.task, f.at)
       /\ x \in Frames /\ SameCall(stack[w][m], x)
       /\ InPardo(stack[w][m]) => InPardo(x) /\ Right(x) = Right(stack[w][m])
  BY <1>5, <1>6, <1>11, <1>15, <1>16, <1>19, NewThunk DEF Frames
<1>32. PICK p \in Tasks : p = f.task
  BY <1>7
<1>33. PICK i \in DOMAIN Pardos[p] : i = f.at
  BY <1>8, <1>32
<1>34. /\ t \in Dag!Children(p, i) /\ starts[p] = 1
       /\ x.kind = "thunk" /\ x.task = p => x.at = i /\ InPardo(x)
       /\ OthersWithin(w, m, p, i)
  BY <1>7, <1>15, <1>16, <1>30, <1>31, <1>32, <1>33 DEF OthersWithin
<1>35. /\ Len(stack[w]) = m /\ starts[t] = 0
       /\ y.job => IsLive(t)'
       /\ starts' = [starts EXCEPT ![t] = @ + 1] /\ UNCHANGED <<finished_flag, mutex, ends>>
       /\ x.kind = "thunk" => Progress(x)
  BY <1>3, <1>12, <1>17, <1>18, <1>31
<1>36. QED
  BY <1>4, <1>11, <1>21, <1>22, <1>27, <1>28, <1>29, <1>31, <1>32, <1>33, <1>34, <1>35, StartStep

(* What try_pop finds in pardo is the job that this pardo has spawned ...  *)
LEMMA PopsItsOwn ==
    ASSUME ForkJoinInv, NEW w \in Workers, Active(w, "thunk", "try_pop"), deque[w] # << >>
    PROVE  deque[w][Len(deque[w])] = Right(Top(w))
<1>1. TypeOK /\ DequeMatchesStack
  BY DEF ForkJoinInv
<1>2. PICK s : s = stack[w]
  OBVIOUS
<1>3. PICK d : d = deque[w]
  OBVIOUS
<1>4. Len(d) \in Nat \ {0}
  BY <1>1, <1>3, DequeType
<1>5. PICK f \in ThunkFrames : f = Top(w) /\ f = s[Len(s)] /\ f.pc = "try_pop"
  BY <1>1, <1>2, ActiveThunk
<1>6. Len(s) \in Nat \ {0} /\ Matches(s, d)
  BY <1>1, <1>2, <1>3, ActiveThunk DEF DequeMatchesStack
<1>7. Spawning(s[Len(s)])
  BY <1>5, ThunkFields DEF Spawning
<1>8. d[Len(d)] = Right(s[Len(s)])
  BY <1>4, <1>6, <1>7, LastJob
<1>9. QED
  BY <1>3, <1>5, <1>8

(* ... and a worker in a loop has none of its own.                         *)
LEMMA LoopIsIdle ==
    ASSUME ForkJoinInv, NEW w \in Workers, NEW p, Active(w, "loop", p)
    PROVE  deque[w] = << >>
<1>1. TypeOK /\ DequeMatchesStack
  BY DEF ForkJoinInv
<1>2. PICK s : s = stack[w]
  OBVIOUS
<1>3. PICK c : c = deque[w]
  OBVIOUS
<1>4. PICK h \in LoopFrames : h = stack[w][Len(stack[w])]
  BY <1>1, ActiveLoop
<1>5. Len(s) \in Nat \ {0} /\ s[Len(s)] = h /\ Matches(s, c) /\ c \in Seq(Tasks)
  BY <1>1, <1>2, <1>3, <1>4, ActiveLoop DEF DequeMatchesStack, TypeOK
<1>6. s[Len(s)].kind = "loop" /\ Len(c) \in Nat
  BY <1>4, <1>5, LoopFields
<1>7. Len(c) = 0
  BY <1>5, <1>6, LoopHasNone
<1>8. QED
  BY <1>3, <1>5, <1>7, EmptySeq

LEMMA StepPopRight == ASSUME ForkJoinInv, NEW w \in Workers, PopRight(w) PROVE ForkJoinInv'
<1>1. TypeOK /\ DequeMatchesStack /\ QueueInv
  BY DEF ForkJoinInv
<1>2. Active(w, "thunk", "try_pop") /\ deque[w] # << >>
  BY DEF PopRight
<1>3. PICK m : m = Len(stack[w])
  OBVIOUS
<1>4. stack[w] # << >> /\ m \in Nat \ {0}
  BY <1>1, <1>2, <1>3, ActiveThunk
<1>5. PICK f \in ThunkFrames : f = Top(w) /\ f = stack[w][m] /\ f.pc = "try_pop" /\ At(w, m, f)
  BY <1>1, <1>2, <1>3, ActiveThunk
<1>6. f.kind = "thunk" /\ InPardo(f) /\ Spawning(f)
  BY <1>5, ThunkFields DEF InPardo, Spawning
<1>7. Progress(f) /\ f.task \in Tasks /\ starts[f.task] = 1 /\ f.at \in DOMAIN Pardos[f.task]
  BY <1>5, <1>6, FrameFacts
<1>8. ends[Left(f)] = 1
  BY <1>5, <1>6, <1>7 DEF Progress
<1>9. PICK t : t = Right(f)
  OBVIOUS
<1>10. t \in Tasks /\ t \in Dag!Children(f.task, f.at)
  BY <1>7, <1>9, PardoFacts
<1>11. PICK d : d = deque[w]
  OBVIOUS
<1>12. PICK e : e = SubSeq(d, 1, Len(d) - 1)
  OBVIOUS
<1>13. d \in Seq(Tasks) /\ d # << >>
  BY <1>1, <1>2, <1>11 DEF TypeOK
<1>14. /\ e \in Seq(Tasks) /\ Len(e) = Len(d) - 1 /\ \A i \in 1..(Len(d) - 1) : e[i] = d[i]
       /\ Len(d) \in Nat \ {0}
  BY <1>12, <1>13, UnderFacts
<1>15. PICK x : x = [f EXCEPT !.pc = "right"]
  OBVIOUS
<1>16. /\ x \in ThunkFrames /\ SameCall(f, x) /\ InPardo(x) /\ Right(x) = t
       /\ x.pc = "right" /\ x.kind = "thunk" /\ Progress(x)
  BY <1>6, <1>7, <1>8, <1>9, <1>15, Within
<1>17. PICK y : y = ThunkFrame(t, FALSE)
  OBVIOUS
<1>18. y \in ThunkFrames /\ y.kind = "thunk" /\ y.task = t /\ y.job = FALSE /\ ~Spawning(y)
  BY <1>10, <1>17, NewThunk DEF Spawning
<1>19. /\ deque' = [deque EXCEPT ![w] = e] /\ starts' = [starts EXCEPT ![t] = @ + 1]
       /\ stack' = [stack EXCEPT ![w] = Append(Append(Under(w), x), y)]
       /\ UNCHANGED <<done, finished_flag, mutex, ends>>
  BY <1>5, <1>9, <1>11, <1>12, <1>15, <1>17 DEF PopRight, Call
<1>20. Moves(w, m, m + 1, x, y)
  BY <1>1, <1>3, <1>4, <1>16, <1>18, <1>19, CallMoves DEF Frames
<1>21. Calls(x, y) /\ ~Spawning(x)
  BY <1>16, <1>18 DEF Calls, Spawning
<1>22. deque'[w] = e /\ \A v \in Workers \ {w} : deque'[v] = deque[v]
  BY <1>1, <1>19 DEF TypeOK
<1>23. deque' \in [Workers -> Seq(Tasks)]
  BY <1>1, <1>14, <1>19 DEF TypeOK
<1>24. done' \in [Tasks -> BOOLEAN] /\ \A u \in Tasks : done'[u] => done[u]
  BY <1>1, <1>19 DEF TypeOK
<1>25. d[Len(d)] = t
  BY <1>2, <1>5, <1>9, <1>11, PopsItsOwn
<1>26. DequeMatchesStack'
  <2>1. PICK s : s = stack[w]
    OBVIOUS
  <2>2. PICK r : r = stack'[w]
    OBVIOUS
  <2>3. Moved(s, r, m, m + 1, x, y)
    BY <1>20, <2>1, <2>2 DEF Moves
  <2>4. Len(s) = m /\ s[m] = f /\ Matches(s, d) /\ m > 0 /\ m \in Nat
    BY <1>1, <1>3, <1>4, <1>5, <1>11, <2>1 DEF DequeMatchesStack
  <2>5. ASSUME NEW k \in 1..(m - 1), Spawning(s[k]) PROVE Right(s[k]) # Right(s[m])
    <3>1. PICK g : g = s[k]
      OBVIOUS
    <3>2. k \in 1..Len(s) /\ k # m
      BY <2>4
    <3>3. k \in Depth(w)
      BY <2>1, <3>2 DEF Depth
    <3>4. g \in Frames /\ g.kind = "thunk"
      BY <1>1, <2>1, <2>5, <3>1, <3>3, StackType DEF Spawning
    <3>5. At(w, k, g) /\ InPardo(g)
      BY <2>1, <2>5, <3>1, <3>3, <3>4, FrameKinds DEF At, Spawning, InPardo
    <3>6. Right(g) # Right(f)
      BY <1>5, <1>6, <3>2, <3>5, RightsDiffer
    <3>7. QED
      BY <2>4, <3>1, <3>6
  <2>6. Spawning(s[m])
    BY <1>6, <2>4
  <2>7. Matches(r, SubSeq(d, 1, Len(d) - 1))
    BY <1>13, <1>16, <1>18, <1>21, <2>3, <2>4, <2>5, <2>6, MatchesPop
  <2>8. Matches(stack'[w], deque'[w]) /\ \A v \in Workers \ {w} : Matches(stack[v], deque'[v])
    BY <1>1, <1>12, <1>22, <2>2, <2>7 DEF DequeMatchesStack
  <2>9. QED
    BY <1>20, <2>8, DequesMatch
<1>27. starts[t] = 0
  <2>1. Len(d) \in 1..Len(d)
    BY <1>14
  <2>2. QED
    BY <1>1, <1>11, <1>25, <2>1 DEF QueueInv
<1>28. QueueInv'
  <2>1. ASSUME NEW v \in Workers, NEW i \in 1..Len(deque[v]), v # w \/ i # Len(d)
        PROVE  deque[v][i] \in Tasks /\ starts[deque[v][i]] = 0 /\ deque[v][i] # t
    <3>1. Len(d) \in 1..Len(deque[w]) /\ deque[w][Len(d)] = t
      BY <1>11, <1>14, <1>25
    <3>2. deque[v][i] # t
      BY <2>1, <3>1, JobsDiffer
    <3>3. QED
      BY <3>2, JobFrame
  <2>2. ASSUME NEW v \in Workers, NEW i \in 1..Len(deque'[v])
        PROVE  deque'[v][i] \in Tasks /\ starts[deque'[v][i]] = 0 /\ deque'[v][i] # t
    <3>1. CASE v # w
      <4>1. deque'[v] = deque[v]
        BY <1>22, <3>1
      <4>2. QED
        BY <2>1, <2>2, <3>1, <4>1
    <3>2. CASE v = w
      <4>1. i \in 1..Len(e) /\ deque'[v][i] = e[i]
        BY <1>22, <2>2, <3>2
      <4>2. i \in 1..(Len(d) - 1) /\ i \in 1..Len(d) /\ i # Len(d)
        BY <1>14, <4>1
      <4>3. deque'[v][i] = d[i]
        BY <1>14, <4>1, <4>2
      <4>4. QED
        BY <1>11, <2>1, <4>2, <4>3
    <3>3. QED
      BY <3>1, <3>2
  <2>3. QED
    BY <1>10, <1>19, <2>2, QueueStarts
<1>29. ASSUME NEW v \in Workers, NEW k \in Depth(v), NEW g \in ThunkFrames, stack[v][k] = g,
              v # w \/ k # m
       PROVE  g.task # f.task
  <2>1. At(v, k, g)
    BY <1>29 DEF At
  <2>2. QED
    BY <1>5, <1>29, <2>1, FrameFacts
<1>30. PICK p \in Tasks : p = f.task
  BY <1>7
<1>31. PICK i \in DOMAIN Pardos[p] : i = f.at
  BY <1>7, <1>30
<1>32. x.at = f.at
  BY <1>15, ThunkAt DEF ThunkPcs
<1>33. /\ t \in Dag!Children(p, i) /\ starts[p] = 1
       /\ x.kind = "thunk" /\ x.task = p => x.at = i /\ InPardo(x)
       /\ OthersWithin(w, m, p, i)
  BY <1>7, <1>10, <1>16, <1>29, <1>30, <1>31, <1>32 DEF OthersWithin
<1>34. /\ Len(stack[w]) = m
       /\ y \in {ThunkFrame(t, FALSE), ThunkFrame(t, TRUE)}
       /\ y.job => IsLive(t)'
       /\ starts' = [starts EXCEPT ![t] = @ + 1] /\ UNCHANGED <<finished_flag, mutex, ends>>
       /\ x.kind = "thunk" => Progress(x)
       /\ x \in Frames /\ SameCall(stack[w][m], x)
       /\ InPardo(stack[w][m]) => InPardo(x) /\ Right(x) = Right(stack[w][m])
  BY <1>3, <1>5, <1>9, <1>16, <1>17, <1>18, <1>19 DEF Frames
<1>35. QED
  BY <1>4, <1>10, <1>20, <1>21, <1>23, <1>24, <1>26, <1>27, <1>28, <1>30, <1>31, <1>33, <1>34,
     StartStep

LEMMA StepSteal == ASSUME ForkJoinInv, NEW w \in Workers, NEW v \in Workers, Steal(w, v) PROVE ForkJoinInv'
<1>1. TypeOK /\ DequeMatchesStack /\ QueueInv
  BY DEF ForkJoinInv
<1>2. Active(w, "loop", "steal") /\ deque[v] # << >>
  BY DEF Steal
<1>3. PICK m : m = Len(stack[w])
  OBVIOUS
<1>4. stack[w] # << >> /\ m \in Nat \ {0}
  BY <1>1, <1>2, <1>3, ActiveLoop
<1>5. PICK h \in LoopFrames : h = Top(w) /\ h = stack[w][m]
  BY <1>1, <1>2, <1>3, ActiveLoop
<1>6. h.kind = "loop" /\ ~InPardo(h)
  BY <1>5, LoopFields DEF InPardo
<1>7. PICK d : d = deque[v]
  OBVIOUS
<1>8. d \in Seq(Tasks) /\ d # << >>
  BY <1>1, <1>2, <1>7 DEF TypeOK
<1>9. PICK e : e = Tail(d)
  OBVIOUS
<1>10. /\ Len(d) \in Nat \ {0} /\ 1 \in 1..Len(d) /\ Head(d) = d[1]
       /\ e \in Seq(Tasks) /\ Len(e) = Len(d) - 1 /\ \A i \in 1..Len(e) : e[i] = d[i + 1]
  <2>1. Len(d) \in Nat \ {0}
    BY <1>8, EmptySeq
  <2>2. 1 \in 1..Len(d)
    BY <2>1
  <2>3. QED
    BY <1>8, <1>9, <2>1, <2>2, HeadTailProperties
<1>11. PICK t : t = d[1]
  OBVIOUS
<1>12. PICK k \in Depth(v), f \in ThunkFrames : At(v, k, f) /\ InPardo(f) /\ deque[v][1] = Right(f)
  BY <1>7, <1>10, JobFrame
<1>13. /\ f.task \in Tasks /\ starts[f.task] = 1 /\ f.at \in DOMAIN Pardos[f.task]
       /\ t = Right(f)
  BY <1>7, <1>11, <1>12, FrameFacts
<1>14. t \in Tasks /\ t \in Dag!Children(f.task, f.at)
  BY <1>13, PardoFacts
<1>15. starts[t] = 0
  BY <1>7, <1>10, <1>11, JobFrame
<1>16. PICK x : x = [h EXCEPT !.pc = "run"]
  OBVIOUS
<1>17. "run" \in LoopPcs
  BY DEF LoopPcs
<1>18. x \in LoopFrames /\ x.kind = "loop" /\ x.pc = "run" /\ x.until = h.until
  BY <1>16, <1>17, LoopAt
<1>19. PICK y : y = ThunkFrame(t, TRUE)
  OBVIOUS
<1>20. y \in ThunkFrames /\ y.kind = "thunk" /\ y.task = t
  BY <1>14, <1>19, NewThunk
<1>21. /\ deque' = [deque EXCEPT ![v] = e] /\ starts' = [starts EXCEPT ![t] = @ + 1]
       /\ stack' = [stack EXCEPT ![w] = Append(Append(Under(w), x), y)]
       /\ UNCHANGED <<done, finished_flag, mutex, ends>>
  BY <1>5, <1>7, <1>9, <1>10, <1>11, <1>16, <1>19 DEF Steal, RunJob, Call
<1>22. Moves(w, m, m + 1, x, y)
  BY <1>1, <1>3, <1>4, <1>18, <1>20, <1>21, CallMoves DEF Frames
<1>23. Calls(x, y) /\ SameCall(h, x)
  BY <1>6, <1>18, <1>20 DEF Calls, SameCall
<1>24. deque'[v] = e /\ \A u \in Workers \ {v} : deque'[u] = deque[u]
  BY <1>1, <1>21 DEF TypeOK
<1>25. deque' \in [Workers -> Seq(Tasks)]
  BY <1>1, <1>10, <1>21 DEF TypeOK
<1>26. done' \in [Tasks -> BOOLEAN] /\ \A u \in Tasks : done'[u] => done[u]
  BY <1>1, <1>21 DEF TypeOK
(* The thief has no job of its own.                                        *)
<1>27. deque[w] = << >>
  BY <1>2, LoopIsIdle
<1>28. v # w
  BY <1>2, <1>27
<1>29. DequeMatchesStack'
  <2>1. PICK s : s = stack[v]
    OBVIOUS
  <2>2. Matches(s, d)
    BY <1>1, <1>7, <2>1 DEF DequeMatchesStack
  <2>3. Matches(s, Tail(d))
    BY <1>8, <2>2, MatchesTail
  <2>4. Matches(stack[v], deque'[v])
    BY <1>9, <1>24, <2>1, <2>3
  <2>5. ASSUME NEW u \in Workers \ {w} PROVE Matches(stack[u], deque'[u])
    <3>1. CASE u = v
      BY <2>4, <3>1
    <3>2. CASE u # v
      BY <1>1, <1>24, <3>2 DEF DequeMatchesStack
    <3>3. QED
      BY <3>1, <3>2
  <2>6. Matches(stack'[w], deque'[w])
    BY <1>24, <1>27, <1>28, MatchesNone
  <2>7. QED
    BY <1>22, <2>5, <2>6, DequesMatch
<1>30. QueueInv'
  <2>1. ASSUME NEW u \in Workers, NEW i \in 1..Len(deque[u]), u # v \/ i # 1
        PROVE  deque[u][i] \in Tasks /\ starts[deque[u][i]] = 0 /\ deque[u][i] # t
    <3>1. 1 \in 1..Len(deque[v]) /\ deque[v][1] = t
      BY <1>7, <1>10, <1>11
    <3>2. deque[u][i] # t
      BY <2>1, <3>1, JobsDiffer
    <3>3. QED
      BY <3>2, JobFrame
  <2>2. ASSUME NEW u \in Workers, NEW i \in 1..Len(deque'[u])
        PROVE  deque'[u][i] \in Tasks /\ starts[deque'[u][i]] = 0 /\ deque'[u][i] # t
    <3>1. CASE u # v
      <4>1. deque'[u] = deque[u]
        BY <1>24, <3>1
      <4>2. QED
        BY <2>1, <2>2, <3>1, <4>1
    <3>2. CASE u = v
      <4>1. i \in 1..Len(e) /\ deque'[u][i] = e[i]
        BY <1>24, <2>2, <3>2
      <4>2. i + 1 \in 1..Len(d) /\ i + 1 # 1
        BY <1>10, <4>1
      <4>3. deque'[u][i] = d[i + 1]
        BY <1>10, <4>1
      <4>4. QED
        BY <1>7, <2>1, <3>2, <4>2, <4>3
    <3>3. QED
      BY <3>1, <3>2
  <2>3. QED
    BY <1>14, <1>21, <2>2, QueueStarts
<1>31. IsLive(t)'
  <2>1. stack'[v] = stack[v]
    BY <1>22, <1>28 DEF Moves
  <2>2. k \in Depth(v)' /\ f = stack'[v][k]
    BY <1>12, <2>1 DEF At, Depth
  <2>3. (InPardo(stack[v][k]) /\ Right(stack[v][k]) = t)'
    BY <1>12, <1>13, <2>2 DEF InPardo, Right
  <2>4. QED
    BY <2>2, <2>3 DEF IsLive
<1>32. PICK p \in Tasks : p = f.task
  BY <1>13
<1>33. PICK i \in DOMAIN Pardos[p] : i = f.at
  BY <1>13, <1>32
<1>34. OthersWithin(w, m, p, i)
  <2>1. ASSUME NEW u \in Workers, NEW l \in Depth(u), NEW g \in ThunkFrames, stack[u][l] = g, g.task = p
        PROVE  g.at = i /\ InPardo(g)
    <3>1. At(u, l, g)
      BY <2>1 DEF At
    <3>2. u = v /\ l = k
      BY <1>12, <1>32, <2>1, <3>1, FrameFacts
    <3>3. g = f
      BY <1>12, <2>1, <3>2 DEF At
    <3>4. QED
      BY <1>12, <1>33, <3>3
  <2>2. QED
    BY <2>1 DEF OthersWithin
<1>35. /\ t \in Dag!Children(p, i) /\ starts[p] = 1
       /\ x.kind = "thunk" /\ x.task = p => x.at = i /\ InPardo(x)
       /\ Len(stack[w]) = m
       /\ y \in {ThunkFrame(t, FALSE), ThunkFrame(t, TRUE)}
       /\ y.job => IsLive(t)'
       /\ starts' = [starts EXCEPT ![t] = @ + 1] /\ UNCHANGED <<finished_flag, mutex, ends>>
       /\ x.kind = "thunk" => Progress(x)
       /\ x \in Frames /\ SameCall(stack[w][m], x)
       /\ InPardo(stack[w][m]) => InPardo(x) /\ Right(x) = Right(stack[w][m])
  BY <1>3, <1>5, <1>6, <1>13, <1>14, <1>18, <1>19, <1>21, <1>23, <1>31, <1>32, <1>33 DEF Frames
<1>36. QED
  BY <1>4, <1>14, <1>15, <1>22, <1>23, <1>25, <1>26, <1>29, <1>30, <1>32, <1>33, <1>34, <1>35,
     StartStep

LEMMA StepLoopPop == ASSUME ForkJoinInv, NEW w \in Workers, LoopPop(w) PROVE ForkJoinInv'
<1>2. Active(w, "loop", "pop")
  BY DEF LoopPop
<1>3. deque[w] = << >>
  BY <1>2, LoopIsIdle
<1>4. Goto(w, "recheck") /\ UNCHANGED <<deque, done, finished_flag, mutex, starts, ends>>
  BY <1>3 DEF LoopPop
<1>5. QED
  BY <1>2, <1>4, StepLoop

LEMMA StepLooks == ASSUME ForkJoinInv, NEW w \in Workers, LoopGoesOn(w) \/ StealFails(w) PROVE ForkJoinInv'
<1>1. PICK p : /\ Active(w, "loop", p)
               /\ \E q \in {"pop", "recheck", "steal"} : Goto(w, q)
               /\ UNCHANGED <<deque, done, finished_flag, mutex, starts, ends>>
  BY DEF LoopGoesOn, StealFails
<1>2. PICK q \in {"pop", "recheck", "steal"} : Goto(w, q)
  BY <1>1
<1>3. QED
  BY <1>1, <1>2, StepLoop

(* ------------------------- The invariant ------------------------------- *)

LEMMA InitInv == Init => ForkJoinInv
<1> SUFFICES ASSUME Init PROVE ForkJoinInv
  OBVIOUS
<1> DEFINE F(w) == IF w = Main THEN ThunkFrame(Root, FALSE) ELSE LoopFrame(Shutdown)
<1>1. Main \in Workers /\ Root \in Tasks /\ FALSE \in BOOLEAN /\ Shutdown \in Tasks \cup {Shutdown}
  BY ForkJoinAssumption
<1>2. \A w \in Workers : F(w) \in Frames /\ stack[w] = <<F(w)>>
  BY <1>1, NewThunk, NewLoop DEF Init, Frames
<1>3. \A w \in Workers :
        /\ F(w).kind = "thunk" => w = Main /\ F(w).task = Root /\ F(w).job = FALSE /\ F(w).at = 1
        /\ F(w).kind = "loop" => F(w).until = Shutdown
        /\ F(w).pc \notin {"left", "right", "wait", "run", "try_pop", "spin"}
        /\ w = Main => F(w) = ThunkFrame(Root, FALSE) /\ F(w).kind = "thunk"
  BY <1>1, NewThunk, NewLoop
<1> HIDE DEF F
<1>4. ASSUME NEW w \in Workers
      PROVE  /\ Len(stack[w]) = 1 /\ Depth(w) = {1} /\ stack[w][1] = F(w)
             /\ stack[w] \in Seq(Frames)
  <2>1. PICK f : f = F(w)
    OBVIOUS
  <2>2. stack[w] = <<f>> /\ f \in Frames
    BY <1>2, <2>1
  <2>3. <<f>> \in Seq(Frames) /\ Len(<<f>>) = 1 /\ <<f>>[1] = f
    BY <2>2
  <2>4. 1..1 = {1}
    OBVIOUS
  <2>5. QED
    BY <2>1, <2>2, <2>3, <2>4 DEF Depth
<1>5. /\ deque = [w \in Workers |-> << >>] /\ done = [t \in Tasks |-> FALSE]
      /\ finished_flag = FALSE /\ mutex = Nobody
      /\ starts = [t \in Tasks |-> IF t = Root THEN 1 ELSE 0] /\ ends = [t \in Tasks |-> 0]
  BY DEF Init
<1>6. \A w \in Workers : deque[w] = << >> /\ Len(deque[w]) = 0
  BY <1>5, EmptySeq
<1>7. \A w \in Workers : \A i \in 1..Len(deque[w]) : FALSE
  <2>1. \A i \in 1..0 : FALSE
    OBVIOUS
  <2>2. QED
    BY <1>6, <2>1
<1>8. TypeOK
  <2>1. stack \in [Workers -> Seq(ThunkFrames \cup LoopFrames)]
    <3>1. stack = [w \in Workers |-> IF w = Main THEN <<ThunkFrame(Root, FALSE)>>
                                    ELSE <<LoopFrame(Shutdown)>>]
      BY DEF Init
    <3>2. QED
      BY <1>4, <3>1 DEF Frames
  <2>2. deque \in [Workers -> Seq(Tasks)]
    BY <1>5, EmptySeq
  <2>3. done \in [Tasks -> BOOLEAN] /\ finished_flag \in BOOLEAN /\ mutex \in Workers \cup {Nobody}
    BY <1>5
  <2>4. starts \in [Tasks -> Nat] /\ ends \in [Tasks -> Nat]
    BY <1>5
  <2>5. QED
    BY <2>1, <2>2, <2>3, <2>4 DEF TypeOK
<1>9. CallInv
  <2>1. \A w \in Workers : \A k \in Depth(w) : k = 1 /\ Len(stack[w]) = 1 /\ stack[w][k] = F(w)
    BY <1>4
  <2>2. ~(1 < 1)
    OBVIOUS
  <2>3. QED
    BY <1>3, <2>1, <2>2 DEF CallInv
<1>10. \A p \in Tasks : \A i \in DOMAIN Pardos[p] : \A c \in Dag!Children(p, i) :
         c # Root /\ c \in Tasks /\ starts[c] = 0
  BY <1>5, ChildFacts
<1>11. FrameInv
  <2>1. ASSUME NEW w \in Workers, NEW f, f = F(w), f.kind = "thunk" PROVE ProgressOf(starts, ends, f)
    <3>1. f.task = Root /\ f.at = 1 /\ ~InPardo(f)
      BY <1>3, <2>1 DEF InPardo
    <3>2. starts[Root] = 1 /\ ends[Root] = 0
      BY <1>1, <1>5
    <3>3. ASSUME NEW i \in DOMAIN Pardos[Root] PROVE ~(i < 1)
      <4>1. i \in Nat \ {0}
        BY <1>1, PardoDomain
      <4>2. QED
        BY <4>1
    <3>4. QED
      BY <1>1, <1>10, <3>1, <3>2, <3>3 DEF ProgressOf
  <2>2. ASSUME NEW w \in Workers, NEW k \in Depth(w), stack[w][k].kind = "thunk" PROVE Progress(stack[w][k])
    <3>1. PICK f : f = F(w)
      OBVIOUS
    <3>2. stack[w][k] = f
      BY <1>4, <3>1
    <3>3. Progress(f)
      BY <2>1, <2>2, <3>1, <3>2, ProgressIs
    <3>4. QED
      BY <3>2, <3>3
  <2>3. QED
    BY <2>2 DEF FrameInv
<1>12. OneFrame
  <2>1. ASSUME NEW v \in Workers, NEW k \in Depth(v), stack[v][k].kind = "thunk" PROVE v = Main /\ k = 1
    <3>1. k = 1 /\ stack[v][k] = F(v)
      BY <1>4
    <3>2. QED
      BY <1>3, <2>1, <3>1
  <2>2. QED
    BY <2>1 DEF OneFrame
<1>13. QueueInv
  BY <1>7 DEF QueueInv
<1>14. ParentsFirst
  BY <1>10 DEF ParentsFirst
<1>15. DoneInv
  BY <1>5 DEF DoneInv
<1>16. RunInv
  BY <1>3, <1>4 DEF RunInv
<1>17. DequeMatchesStack
  BY <1>6, MatchesEmpty DEF DequeMatchesStack
<1>18. QED
  BY <1>8, <1>9, <1>11, <1>12, <1>13, <1>14, <1>15, <1>16, <1>17 DEF ForkJoinInv

LEMMA NextInv == ForkJoinInv /\ [Next]_vars => ForkJoinInv'
<1> SUFFICES ASSUME ForkJoinInv, [Next]_vars PROVE ForkJoinInv'
  OBVIOUS
<1>1. CASE UNCHANGED vars
  <2>1. finished_flag' \in BOOLEAN
    BY <1>1 DEF vars, ForkJoinInv, TypeOK
  <2>2. QED
    BY <1>1, <2>1, StutterKeeps DEF vars
<1>2. CASE Destroy
  BY <1>2, StutterKeeps DEF Destroy
<1>3. ASSUME NEW w \in Workers, WorkerStep(w) PROVE ForkJoinInv'
  <2>1. CASE Fork(w)
    BY <2>1, StepFork
  <2>2. CASE PopRight(w)
    BY <2>2, StepPopRight
  <2>3. CASE Wait(w)
    BY <2>3, StepWait
  <2>4. CASE SpinDone(w)
    BY <2>4, StepSpinDone
  <2>5. CASE Acquire(w)
    BY <2>5, StepAcquire
  <2>6. CASE EndThunk(w)
    BY <2>6, StepEndThunk
  <2>7. CASE LoopEnds(w)
    BY <2>7, StepLoopEnds
  <2>8. CASE LoopGoesOn(w) \/ StealFails(w)
    BY <2>8, StepLooks
  <2>9. CASE LoopPop(w)
    BY <2>9, StepLoopPop
  <2>10. CASE \E v \in Workers : Steal(w, v)
    BY <2>10, StepSteal
  <2>11. QED
    BY <1>3, <2>1, <2>2, <2>3, <2>4, <2>5, <2>6, <2>7, <2>8, <2>9, <2>10 DEF WorkerStep
<1>4. QED
  BY <1>1, <1>2, <1>3 DEF Next, Terminated

(* The inductive invariant holds for every number of workers and every     *)
(* program.                                                                *)
THEOREM ForkJoinInvariance == Spec => []ForkJoinInv
<1>1. QED
  BY InitInv, NextInv, PTL DEF Spec

(* Stacks, deques and flags keep their types.                              *)
THEOREM TypeCorrect == Spec => []TypeOK
<1>1. ForkJoinInv => TypeOK
  BY DEF ForkJoinInv
<1>2. QED
  BY <1>1, ForkJoinInvariance, PTL

(* A deque holds what the frames of its worker have spawned, in their      *)
(* order, but for the jobs that thieves took: what try_pop finds in pardo  *)
(* is the job of this pardo.                                               *)
THEOREM DequeMatchesStackCorrect == Spec => []DequeMatchesStack
<1>1. ForkJoinInv => DequeMatchesStack
  BY DEF ForkJoinInv
<1>2. QED
  BY <1>1, ForkJoinInvariance, PTL

(* No pointer outlives its job: what a deque holds, a worker runs or a     *)
(* loop waits for is the right job of a pardo that is still under way.     *)
THEOREM NoDanglingJobCorrect == Spec => []NoDanglingJob
<1>1. ASSUME ForkJoinInv PROVE NoDanglingJob
  <2>1. TypeOK /\ CallInv /\ RunInv /\ DoneInv
    BY <1>1 DEF ForkJoinInv
  <2>2. ASSUME NEW w \in Workers, NEW i \in 1..Len(deque[w])
        PROVE  IsLive(deque[w][i]) /\ ~done[deque[w][i]]
    <3>1. PICK k \in Depth(w), f \in ThunkFrames : At(w, k, f) /\ InPardo(f) /\ deque[w][i] = Right(f)
      BY <1>1, <2>2, JobFrame
    <3>2. PICK t : t = deque[w][i]
      OBVIOUS
    <3>3. IsLive(t)
      BY <3>1, <3>2 DEF IsLive, At
    <3>4. t \in Tasks /\ starts[t] = 0
      BY <1>1, <2>2, <3>2, JobFrame
    <3>5. ends[t] = 0
      BY <2>1, <3>4 DEF DoneInv
    <3>6. ~done[t]
      BY <2>1, <3>4, <3>5 DEF DoneInv
    <3>7. QED
      BY <3>2, <3>3, <3>6
  <2>3. ASSUME NEW w \in Workers, NEW k \in Depth(w), NEW f, f = stack[w][k], f.kind = "thunk", f.job
        PROVE  IsLive(f.task) /\ ~done[f.task]
    <3>1. IsLive(f.task)
      BY <2>1, <2>3 DEF RunInv
    <3>2. f \in ThunkFrames
      BY <2>1, <2>3, StackType, FrameKinds
    <3>3. At(w, k, f)
      BY <2>3, <3>2 DEF At
    <3>4. f.task \in Tasks /\ ends[f.task] = 0
      BY <1>1, <3>3, FrameFacts
    <3>5. ~done[f.task]
      BY <2>1, <3>4 DEF DoneInv
    <3>6. QED
      BY <3>1, <3>5
  <2>4. ASSUME NEW w \in Workers, NEW k \in Depth(w), NEW f, f = stack[w][k], f.kind = "loop", f.until # Shutdown
        PROVE  IsLive(f.until)
    <3>1. k # 1
      BY <2>1, <2>4 DEF CallInv
    <3>2. PICK s : s = stack[w]
      OBVIOUS
    <3>3. Len(s) \in Nat /\ k \in 1..Len(s)
      BY <2>1, <2>4, <3>2, StackType DEF Depth
    <3>4. k - 1 \in 1..Len(s) /\ k - 1 < Len(s) /\ k - 1 + 1 = k
      BY <3>1, <3>3
    <3>5. PICK j \in Depth(w) : j < Len(stack[w]) /\ j + 1 = k
      BY <3>2, <3>4 DEF Depth
    <3>6. PICK g : g = stack[w][j]
      OBVIOUS
    <3>7. Calls(g, f)
      BY <2>1, <2>4, <3>5, <3>6 DEF CallInv
    <3>8. InPardo(g) /\ Right(g) = f.until
      BY <2>4, <3>7 DEF Calls, InPardo
    <3>9. QED
      BY <3>6, <3>8 DEF IsLive
  <2>5. QED
    BY <2>1, <2>2, <2>3, <2>4 DEF NoDanglingJob
<1>2. QED
  BY <1>1, ForkJoinInvariance, PTL

(* ------------------------- The task tree ------------------------------- *)

LEMMA StartsChild ==
    ASSUME ForkJoinInv, NEW w \in Workers, NEW k, NEW f, At(w, k, f), f.at \in DOMAIN Pardos[f.task],
           NEW t \in Tasks, t \in Dag!Children(f.task, f.at), starts[t] = 0,
           starts' = [starts EXCEPT ![t] = @ + 1], ends' = ends
    PROVE  Dag!Start(t)
<1>1. /\ Progress(f) /\ f.task \in Tasks /\ starts[f.task] = 1 /\ ends[f.task] = 0
      /\ f \in ThunkFrames
  BY FrameFacts DEF At
<1>2. starts[t] + 1 = 1
  OBVIOUS
<1>3. starts' = [starts EXCEPT ![t] = 1]
  BY <1>2
<1>4. ASSUME NEW i \in 1..(f.at - 1) PROVE i \in DOMAIN Pardos[f.task] /\ i < f.at
  <2>1. PICK n : n = Len(Pardos[f.task])
    OBVIOUS
  <2>2. n \in Nat /\ DOMAIN Pardos[f.task] = 1..n
    BY <1>1, <2>1, PardoDomain
  <2>3. f.at \in 1..n
    BY <2>2
  <2>4. i \in 1..n /\ i < f.at
    BY <2>2, <2>3
  <2>5. QED
    BY <2>2, <2>4
<1>5. \A i \in 1..(f.at - 1) : \A c \in Dag!Children(f.task, i) : ends[c] = 1
  BY <1>1, <1>4 DEF Progress
<1>6. QED
  BY <1>1, <1>3, <1>5 DEF Dag!Start

LEMMA NextDag == ForkJoinInv /\ [Next]_vars => [Dag!Next]_(Dag!vars)
<1> SUFFICES ASSUME ForkJoinInv, [Next]_vars PROVE Dag!Next \/ UNCHANGED <<starts, ends>>
  BY DEF Dag!vars
<1>1. CASE UNCHANGED vars
  BY <1>1 DEF vars
<1>2. CASE Destroy
  BY <1>2 DEF Destroy
<1>3. TypeOK
  BY DEF ForkJoinInv
<1>4. ASSUME NEW w \in Workers, WorkerStep(w) PROVE Dag!Next \/ UNCHANGED <<starts, ends>>
  <2>1. CASE Fork(w)
    <3>1. Active(w, "thunk", "body")
      BY <2>1 DEF Fork
    <3>2. PICK f \in ThunkFrames : f = Top(w) /\ f.pc = "body" /\ At(w, Len(stack[w]), f)
      BY <1>3, <3>1, ActiveThunk
    <3>3. Progress(f) /\ f.task \in Tasks /\ ~InPardo(f)
      BY <3>2, FrameFacts DEF InPardo
    <3>4. f.at \in DOMAIN Pardos[f.task]
      <4>1. f.at <= Len(Pardos[f.task]) /\ f.at \in Nat \ {0}
        BY <2>1, <3>2, ThunkFields DEF Fork
      <4>2. PICK n : n = Len(Pardos[f.task])
        OBVIOUS
      <4>3. n \in Nat /\ DOMAIN Pardos[f.task] = 1..n
        BY <3>3, <4>2, PardoDomain
      <4>4. f.at \in 1..n
        BY <4>1, <4>2, <4>3
      <4>5. QED
        BY <4>3, <4>4
    <3>5. PICK t : t = Left(f)
      OBVIOUS
    <3>6. t \in Tasks /\ t \in Dag!Children(f.task, f.at)
      BY <3>4, <3>5, PardoFacts
    <3>7. starts[t] = 0
      BY <3>3, <3>4, <3>6 DEF Progress
    <3>8. starts' = [starts EXCEPT ![t] = @ + 1] /\ ends' = ends
      BY <2>1, <3>2, <3>5 DEF Fork
    <3>9. Dag!Start(t)
      BY <3>2, <3>4, <3>6, <3>7, <3>8, StartsChild
    <3>10. QED
      BY <3>6, <3>9 DEF Dag!Next
  <2>2. CASE PopRight(w)
    <3>1. Active(w, "thunk", "try_pop") /\ deque[w] # << >>
      BY <2>2 DEF PopRight
    <3>2. PICK f \in ThunkFrames : f = Top(w) /\ f.pc = "try_pop" /\ At(w, Len(stack[w]), f)
      BY <1>3, <3>1, ActiveThunk
    <3>3. InPardo(f)
      BY <3>2, ThunkFields DEF InPardo
    <3>4. f.at \in DOMAIN Pardos[f.task]
      BY <3>2, <3>3, FrameFacts
    <3>5. PICK t : t = Right(f)
      OBVIOUS
    <3>6. t \in Tasks /\ t \in Dag!Children(f.task, f.at)
      BY <3>4, <3>5, PardoFacts
    <3>7. starts[t] = 0
      <4>1. Len(deque[w]) \in 1..Len(deque[w])
        BY <1>3, <3>1, DequeType
      <4>2. deque[w][Len(deque[w])] = t
        BY <3>1, <3>2, <3>5, PopsItsOwn
      <4>3. QED
        BY <4>1, <4>2, JobFrame
    <3>8. starts' = [starts EXCEPT ![t] = @ + 1] /\ ends' = ends
      BY <2>2, <3>2, <3>5 DEF PopRight
    <3>9. Dag!Start(t)
      BY <3>2, <3>4, <3>6, <3>7, <3>8, StartsChild
    <3>10. QED
      BY <3>6, <3>9 DEF Dag!Next
  <2>3. ASSUME NEW v \in Workers, Steal(w, v) PROVE Dag!Next
    <3>1. deque[v] # << >>
      BY <2>3 DEF Steal
    <3>2. 1 \in 1..Len(deque[v]) /\ deque[v] \in Seq(Tasks)
      BY <1>3, <3>1, DequeType
    <3>3. PICK k \in Depth(v), f \in ThunkFrames : At(v, k, f) /\ InPardo(f) /\ deque[v][1] = Right(f)
      BY <3>2, JobFrame
    <3>4. f.at \in DOMAIN Pardos[f.task]
      BY <3>3, FrameFacts
    <3>5. PICK t : t = Right(f)
      OBVIOUS
    <3>6. t \in Tasks /\ t \in Dag!Children(f.task, f.at)
      BY <3>4, <3>5, PardoFacts
    <3>7. starts[t] = 0
      BY <3>2, <3>3, <3>5, JobFrame
    <3>8. Head(deque[v]) = t
      BY <3>1, <3>2, <3>3, <3>5, HeadTailProperties
    <3>9. starts' = [starts EXCEPT ![t] = @ + 1] /\ ends' = ends
      BY <2>3, <3>8 DEF Steal, RunJob
    <3>10. Dag!Start(t)
      BY <3>3, <3>4, <3>6, <3>7, <3>9, StartsChild
    <3>11. QED
      BY <3>6, <3>10 DEF Dag!Next
  <2>4. CASE EndThunk(w)
    <3>1. Active(w, "thunk", "body")
      BY <2>4 DEF EndThunk
    <3>2. PICK f \in ThunkFrames : f = Top(w) /\ f.pc = "body" /\ At(w, Len(stack[w]), f)
      BY <1>3, <3>1, ActiveThunk
    <3>3. Progress(f) /\ f.task \in Tasks /\ starts[f.task] = 1 /\ ends[f.task] = 0
      BY <3>2, FrameFacts
    <3>4. ASSUME NEW i \in DOMAIN Pardos[f.task] PROVE i < f.at
      <4>1. f.at > Len(Pardos[f.task]) /\ f.at \in Nat \ {0}
        BY <2>4, <3>2, ThunkFields DEF EndThunk
      <4>2. PICK n : n = Len(Pardos[f.task])
        OBVIOUS
      <4>3. n \in Nat /\ i \in 1..n
        BY <3>3, <3>4, <4>2, PardoDomain
      <4>4. QED
        BY <4>1, <4>2, <4>3
    <3>5. \A i \in DOMAIN Pardos[f.task] : \A c \in Dag!Children(f.task, i) : ends[c] = 1
      BY <3>3, <3>4 DEF Progress
    <3>6. PICK t : t = f.task
      OBVIOUS
    <3>7. ends' = [ends EXCEPT ![t] = @ + 1] /\ starts' = starts
      BY <2>4, <3>2, <3>6 DEF EndThunk
    <3>8. t \in Tasks /\ starts[t] = 1 /\ ends[t] = 0
      BY <3>3, <3>6
    <3>9. ends[t] + 1 = 1
      BY <3>8
    <3>10. ends' = [ends EXCEPT ![t] = 1]
      BY <3>7, <3>9
    <3>11. \A i \in DOMAIN Pardos[t] : \A c \in Dag!Children(t, i) : ends[c] = 1
      BY <3>5, <3>6
    <3>12. Dag!End(t)
      BY <3>7, <3>8, <3>10, <3>11 DEF Dag!End
    <3>13. QED
      BY <3>8, <3>12 DEF Dag!Next
  <2>5. CASE LoopPop(w)
    <3>1. deque[w] = << >>
      BY <2>5, LoopIsIdle DEF LoopPop
    <3>2. QED
      BY <2>5, <3>1 DEF LoopPop
  <2>6. CASE Wait(w) \/ SpinDone(w) \/ Acquire(w) \/ LoopEnds(w) \/ LoopGoesOn(w) \/ StealFails(w)
    BY <2>6 DEF Wait, SpinDone, Acquire, LoopEnds, LoopGoesOn, StealFails
  <2>7. QED
    BY <1>4, <2>1, <2>2, <2>3, <2>4, <2>5, <2>6 DEF WorkerStep
<1>5. QED
  BY <1>1, <1>2, <1>4 DEF Next, Terminated

(* The scheduler implements the task tree: a thunk is run once, after what *)
(* precedes it in its parent, and a pardo is over after both its thunks.   *)
THEOREM Refinement == Spec => RunsTheDag
<1>1. Init => Dag!Init
  BY DEF Init, Dag!Init
<1>2. QED
  BY <1>1, NextDag, ForkJoinInvariance, PTL DEF Spec, RunsTheDag, Dag!Spec
=============================================================================
