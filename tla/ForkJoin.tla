------------------------------ MODULE ForkJoin -------------------------------
(***************************************************************************)
(* The fork-join scheduler of scheduler.h: num_threads workers, each with  *)
(* a call stack and a work-stealing deque.  A task is a thunk; its body is *)
(* a sequence of pardos.  The deque is the one of WorkDeque, which Deque   *)
(* implements, with each operation one step at its linearization point.    *)
(*                                                                         *)
(* The right job of a pardo lives in the stack frame of that pardo, so a   *)
(* job is named by its task, and it exists as long as that frame is inside *)
(* the pardo.                                                              *)
(***************************************************************************)
EXTENDS Naturals, Sequences, FiniteSets

CONSTANTS
    Workers,        \* the threads; Main is the one that owns the scheduler
    Main,
    Tasks, Root, Pardos,     \* the program, as in TaskDag
    Conservative,   \* the tasks whose pardos are called with conservative = true
    Locked,         \* the tasks whose body runs under the user's mutex
    Shutdown,       \* the condition of a worker's outermost loop
    Nobody          \* no holder of the mutex

(* Each run of a thunk is a task of its own: no task is a child of two     *)
(* pardos or twice of one, and nobody calls the root.                      *)
OneParent ==
    /\ \A p, q \in Tasks : \A i \in DOMAIN Pardos[p], j \in DOMAIN Pardos[q], a, b \in {1, 2} :
         Pardos[p][i][a] = Pardos[q][j][b] => p = q /\ i = j /\ a = b
    /\ \A p \in Tasks : \A i \in DOMAIN Pardos[p], a \in {1, 2} : Pardos[p][i][a] # Root

ASSUME ForkJoinAssumption ==
    /\ Main \in Workers /\ Root \in Tasks
    /\ \A t \in Tasks : Pardos[t] \in Seq(Tasks \X Tasks)
    /\ OneParent
    /\ Conservative \subseteq Tasks /\ Locked \subseteq Tasks
    /\ Shutdown \notin Tasks /\ Nobody \notin Workers

VARIABLES
    stack,          \* [Workers -> sequence of frames, the innermost last]
    deque,          \* [Workers -> sequence of jobs, top first]
    done,           \* [Tasks -> the flag done of the job of this task]
    finished_flag,  \* scheduler::finished_flag
    mutex,          \* the worker that holds the user's mutex, or Nobody
    starts, ends    \* history: how often a thunk was entered, has returned

vars == <<stack, deque, done, finished_flag, mutex, starts, ends>>

(* A frame is a thunk or a scheduling loop.  A thunk is at its at-th pardo *)
(* and has the field job when it was called through WorkStealingJob.  A    *)
(* loop runs until the job until is done (wait) or until Shutdown (start). *)
ThunkFrame(t, j) == [kind |-> "thunk", task |-> t, job |-> j, at |-> 1,
                     pc |-> IF t \in Locked THEN "lock" ELSE "body"]
LoopFrame(u)  == [kind |-> "loop", until |-> u, pc |-> "check"]

Top(w)   == stack[w][Len(stack[w])]
Under(w) == SubSeq(stack[w], 1, Len(stack[w]) - 1)
Active(w, kind, pc) == stack[w] # << >> /\ Top(w).kind = kind /\ Top(w).pc = pc

Right(f) == Pardos[f.task][f.at][2]
Left(f)  == Pardos[f.task][f.at][1]

(* The innermost frame goes on at pc; f is called by it.                   *)
Goto(w, pc)    == stack' = [stack EXCEPT ![w] = Append(Under(w), [Top(w) EXCEPT !.pc = pc])]
Call(w, pc, f) == stack' = [stack EXCEPT ![w] =
                             Append(Append(Under(w), [Top(w) EXCEPT !.pc = pc]), f)]

(* pardo is over: the thunk goes on with its next statement.               *)
NextPardo(f) == [f EXCEPT !.pc = "body", !.at = @ + 1]

(* A call returns to the frame g that made it.                             *)
Resumed(g) ==
    CASE g.pc = "left"          -> [g EXCEPT !.pc = "try_pop"]
      [] g.pc \in {"right", "wait"} -> NextPardo(g)
      [] g.pc = "run"           -> [g EXCEPT !.pc = "check"]

Return(w) ==
    stack' = [stack EXCEPT ![w] =
               IF Under(w) = << >> THEN << >>
               ELSE [Under(w) EXCEPT ![Len(Under(w))] = Resumed(@)]]

Init ==
    /\ stack = [w \in Workers |-> IF w = Main THEN <<ThunkFrame(Root, FALSE)>>
                                  ELSE <<LoopFrame(Shutdown)>>]
    /\ deque = [w \in Workers |-> << >>]
    /\ done = [t \in Tasks |-> FALSE]
    /\ finished_flag = FALSE
    /\ mutex = Nobody
    /\ starts = [t \in Tasks |-> IF t = Root THEN 1 ELSE 0]
    /\ ends = [t \in Tasks |-> 0]

-----------------------------------------------------------------------------
(* pardo, lines 296-306.                                                   *)

(* make_job, spawn, and the call of left.                                  *)
Fork(w) ==
    /\ Active(w, "thunk", "body") /\ Top(w).at <= Len(Pardos[Top(w).task])
    /\ done' = [done EXCEPT ![Right(Top(w))] = FALSE]
    /\ deque' = [deque EXCEPT ![w] = Append(@, Right(Top(w)))]
    /\ starts' = [starts EXCEPT ![Left(Top(w))] = @ + 1]
    /\ Call(w, "left", ThunkFrame(Left(Top(w)), FALSE))
    /\ UNCHANGED <<finished_flag, mutex, ends>>

(* Mutant of PopRight: the oldest job is popped, not the youngest.         *)
PopOldest(w) ==
    /\ Active(w, "thunk", "try_pop") /\ deque[w] # << >>
    /\ deque' = [deque EXCEPT ![w] = Tail(@)]
    /\ starts' = [starts EXCEPT ![Right(Top(w))] = @ + 1]
    /\ Call(w, "right", ThunkFrame(Right(Top(w)), FALSE))
    /\ UNCHANGED <<done, finished_flag, mutex, ends>>

(* try_pop after left has returned: any job means that right is run here.  *)
PopRight(w) ==
    /\ Active(w, "thunk", "try_pop") /\ deque[w] # << >>
    /\ deque' = [deque EXCEPT ![w] = SubSeq(@, 1, Len(@) - 1)]
    /\ starts' = [starts EXCEPT ![Right(Top(w))] = @ + 1]
    /\ Call(w, "right", ThunkFrame(Right(Top(w)), FALSE))
    /\ UNCHANGED <<done, finished_flag, mutex, ends>>

(* Mutants of Wait: no wait at all; a loop in a conservative pardo too.    *)
WaitSkipped(w) ==
    /\ Active(w, "thunk", "try_pop") /\ deque[w] = << >>
    /\ stack' = [stack EXCEPT ![w] = Append(Under(w), NextPardo(Top(w)))]
    /\ UNCHANGED <<deque, done, finished_flag, mutex, starts, ends>>
WaitInLoop(w) ==
    /\ Active(w, "thunk", "try_pop") /\ deque[w] = << >>
    /\ Call(w, "wait", LoopFrame(Right(Top(w))))
    /\ UNCHANGED <<deque, done, finished_flag, mutex, starts, ends>>

(* The right job was stolen: wait for it.                                  *)
Wait(w) ==
    /\ Active(w, "thunk", "try_pop") /\ deque[w] = << >>
    /\ IF Top(w).task \in Conservative THEN Goto(w, "spin")
       ELSE Call(w, "wait", LoopFrame(Right(Top(w))))
    /\ UNCHANGED <<deque, done, finished_flag, mutex, starts, ends>>

(* The loop of line 180.                                                   *)
SpinDone(w) ==
    /\ Active(w, "thunk", "spin") /\ done[Right(Top(w))]
    /\ stack' = [stack EXCEPT ![w] = Append(Under(w), NextPardo(Top(w)))]
    /\ UNCHANGED <<deque, done, finished_flag, mutex, starts, ends>>

(* The user's mutex is taken before the body of a Locked task ...          *)
Acquire(w) ==
    /\ Active(w, "thunk", "lock") /\ mutex = Nobody
    /\ mutex' = w
    /\ Goto(w, "body")
    /\ UNCHANGED <<deque, done, finished_flag, starts, ends>>

(* ... and released when the thunk returns.  A thunk called as a job sets  *)
(* done after it has returned (lines 19-23 of work_stealing_job.h).        *)
EndThunk(w) ==
    /\ Active(w, "thunk", "body") /\ Top(w).at > Len(Pardos[Top(w).task])
    /\ LET f == Top(w) IN
         /\ ends' = [ends EXCEPT ![f.task] = @ + 1]
         /\ done' = IF f.job THEN [done EXCEPT ![f.task] = TRUE] ELSE done
         /\ mutex' = IF f.task \in Locked THEN Nobody ELSE mutex
    /\ Return(w)
    /\ UNCHANGED <<deque, finished_flag, starts>>

-----------------------------------------------------------------------------
(* start, get_job and try_steal, lines 235-268.                            *)

Finished(u) == IF u = Shutdown THEN finished_flag ELSE done[u]

(* The two tests of finished(), on entry and before every steal.           *)
LoopEnds(w) ==
    /\ Active(w, "loop", "check") \/ Active(w, "loop", "recheck")
    /\ Finished(Top(w).until)
    /\ Return(w)
    /\ UNCHANGED <<deque, done, finished_flag, mutex, starts, ends>>

LoopGoesOn(w) ==
    /\ \/ Active(w, "loop", "check") /\ Goto(w, "pop")
       \/ Active(w, "loop", "recheck") /\ Goto(w, "steal")
    /\ ~Finished(Top(w).until)
    /\ UNCHANGED <<deque, done, finished_flag, mutex, starts, ends>>

(* The job is called, line 240: the thunk of t, from the loop of w.        *)
RunJob(w, t) ==
    /\ starts' = [starts EXCEPT ![t] = @ + 1]
    /\ Call(w, "run", ThunkFrame(t, TRUE))

LoopPop(w) ==
    /\ Active(w, "loop", "pop")
    /\ \/ /\ deque[w] # << >>
          /\ deque' = [deque EXCEPT ![w] = SubSeq(@, 1, Len(@) - 1)]
          /\ RunJob(w, deque[w][Len(deque[w])])
       \/ /\ deque[w] = << >>
          /\ Goto(w, "recheck")
          /\ UNCHANGED <<deque, starts>>
    /\ UNCHANGED <<done, finished_flag, mutex, ends>>

(* Mutant of Steal: the stolen job stays in the deque.                     *)
StealLeavesJob(w, v) ==
    /\ Active(w, "loop", "steal") /\ deque[v] # << >>
    /\ RunJob(w, Head(deque[v]))
    /\ UNCHANGED <<deque, done, finished_flag, mutex, ends>>

(* The victim is chosen by a hash of a counter: any of them, itself too.   *)
Steal(w, v) ==
    /\ Active(w, "loop", "steal") /\ deque[v] # << >>
    /\ deque' = [deque EXCEPT ![v] = Tail(@)]
    /\ RunJob(w, Head(deque[v]))
    /\ UNCHANGED <<done, finished_flag, mutex, ends>>

(* pop_top may come back with nothing whatever the deque holds.            *)
StealFails(w) ==
    /\ Active(w, "loop", "steal")
    /\ Goto(w, "recheck")
    /\ UNCHANGED <<deque, done, finished_flag, mutex, starts, ends>>

-----------------------------------------------------------------------------
(* ~scheduler, lines 161-166: the flag, then the joins.                    *)

Destroy ==
    /\ stack[Main] = << >> /\ ~finished_flag
    /\ finished_flag' = TRUE
    /\ UNCHANGED <<stack, deque, done, mutex, starts, ends>>

Joined == finished_flag /\ \A w \in Workers : stack[w] = << >>

Terminated == Joined /\ UNCHANGED vars

WorkerStep(w) ==
    \/ Fork(w) \/ PopRight(w) \/ Wait(w) \/ SpinDone(w)
    \/ Acquire(w) \/ EndThunk(w)
    \/ LoopEnds(w) \/ LoopGoesOn(w) \/ LoopPop(w)
    \/ \E v \in Workers : Steal(w, v)
    \/ StealFails(w)

Next == (\E w \in Workers : WorkerStep(w)) \/ Destroy \/ Terminated

Spec == Init /\ [][Next]_vars

-----------------------------------------------------------------------------
(* Properties.                                                             *)

ThunkPcs == {"lock", "body", "left", "try_pop", "right", "wait", "spin"}
LoopPcs  == {"check", "pop", "recheck", "steal", "run"}

ThunkFrames == [kind : {"thunk"}, task : Tasks, job : BOOLEAN, at : Nat \ {0}, pc : ThunkPcs]
LoopFrames  == [kind : {"loop"}, until : Tasks \cup {Shutdown}, pc : LoopPcs]

TypeOK ==
    /\ stack \in [Workers -> Seq(ThunkFrames \cup LoopFrames)]
    /\ deque \in [Workers -> Seq(Tasks)]
    /\ done \in [Tasks -> BOOLEAN]
    /\ finished_flag \in BOOLEAN
    /\ mutex \in Workers \cup {Nobody}
    /\ starts \in [Tasks -> Nat] /\ ends \in [Tasks -> Nat]

Depth(w) == 1..Len(stack[w])

(* A frame is inside a pardo from the spawn to the end of right.           *)
InPardo(f) == f.kind = "thunk" /\ f.pc \in {"left", "try_pop", "right", "wait", "spin"}

(* The jobs that exist: the right jobs of the pardos under way.            *)
IsLive(t) == \E w \in Workers : \E k \in Depth(w) :
                InPardo(stack[w][k]) /\ Right(stack[w][k]) = t

(* No pointer outlives its job: whatever a deque holds, a worker runs as a *)
(* job or a loop waits for is the right job of a pardo still under way, so *)
(* its frame is still there for the thunk and for the flag done.  A job in *)
(* a deque, or one that a thief runs, is not done: the assertion at the    *)
(* head of WorkStealingJob::operator().                                    *)
NoDanglingJob ==
    /\ TypeOK
    /\ \A w \in Workers :
      /\ \A i \in 1..Len(deque[w]) : IsLive(deque[w][i]) /\ ~done[deque[w][i]]
      /\ \A k \in Depth(w) :
           LET f == stack[w][k] IN
             /\ f.kind = "thunk" /\ f.job => IsLive(f.task) /\ ~done[f.task]
             /\ f.kind = "loop" /\ f.until # Shutdown => IsLive(f.until)

(* The frame has spawned its job and not tried to pop it yet.              *)
Spawning(f) == f.kind = "thunk" /\ f.pc \in {"left", "try_pop"}

(* The i-th job of the deque d was spawned by frame k of the stack s.      *)
SpawnedBy(s, d, i, k) == Spawning(s[k]) /\ d[i] = Right(s[k])

Matches(s, d) ==
    \A i \in 1..Len(d) : \E k \in 1..Len(s) :
      /\ SpawnedBy(s, d, i, k)
      /\ \A j \in 1..Len(d) : j > i => \E l \in 1..Len(s) : l > k /\ SpawnedBy(s, d, j, l)
      /\ \A l \in 1..Len(s) : l > k /\ Spawning(s[l]) =>
            \E j \in 1..Len(d) : j > i /\ SpawnedBy(s, d, j, l)
      /\ \A l \in 1..Len(s) : l > k => s[l].kind = "thunk"

(* A deque holds what its worker has spawned, but for the oldest jobs,     *)
(* which thieves took: what lies after a job is what the frames above its  *)
(* own have spawned.  So the job that try_pop finds in pardo is the one    *)
(* this very pardo has spawned: line 300 need not look at which it is.     *)
(* No loop runs above a frame whose job is still in the deque: a worker    *)
(* that looks for a job to steal has nothing of its own left.              *)
DequeMatchesStack == \A w \in Workers : Matches(stack[w], deque[w])

(* The scheduler implements the task tree: every thunk runs once, after    *)
(* what precedes it, and no pardo is over before both its thunks are.      *)
Dag == INSTANCE TaskDag

RunsTheDag == Dag!Spec

(* The frame f has called the frame g and waits for it to return.         *)
Calls(f, g) ==
    \/ f.kind = "thunk" /\ f.pc = "left"  /\ g.kind = "thunk" /\ g.task = Left(f)
    \/ f.kind = "thunk" /\ f.pc = "right" /\ g.kind = "thunk" /\ g.task = Right(f)
    \/ f.kind = "thunk" /\ f.pc = "wait"  /\ g.kind = "loop"  /\ g.until = Right(f)
    \/ f.kind = "loop"  /\ f.pc = "run"   /\ g.kind = "thunk"

(* Each frame was called by the one below it; the innermost calls nobody.  *)
CallInv ==
    \A w \in Workers : \A k \in Depth(w) :
      /\ k = 1 /\ stack[w][k].kind = "loop" => stack[w][k].until = Shutdown
      /\ k < Len(stack[w]) => Calls(stack[w][k], stack[w][k + 1])
      /\ k = Len(stack[w]) => stack[w][k].pc \notin {"left", "right", "wait", "run"}

(* How far the frame f of a thunk is: its earlier pardos are over, none of *)
(* the later ones has begun, and what of the present one it has waited for *)
(* has ended.                                                              *)
Progress(f) ==
    /\ starts[f.task] = 1 /\ ends[f.task] = 0
    /\ InPardo(f) => f.at \in DOMAIN Pardos[f.task]
    /\ \A i \in DOMAIN Pardos[f.task] : \A c \in Dag!Children(f.task, i) :
         /\ i < f.at => ends[c] = 1
         /\ i > f.at \/ (i = f.at /\ ~InPardo(f)) => starts[c] = 0
    /\ InPardo(f) /\ f.pc # "left" => ends[Left(f)] = 1

FrameInv == \A w \in Workers : \A k \in Depth(w) :
               stack[w][k].kind = "thunk" => Progress(stack[w][k])

(* A thunk has one frame.                                                  *)
OneFrame ==
    \A v, w \in Workers : \A k \in Depth(v), l \in Depth(w) :
      /\ stack[v][k].kind = "thunk" /\ stack[w][l].kind = "thunk"
      /\ stack[v][k].task = stack[w][l].task
      => v = w /\ k = l

(* A job in a deque has not been run.                                      *)
QueueInv == \A w \in Workers : \A i \in 1..Len(deque[w]) : starts[deque[w][i]] = 0

(* Nobody runs before its parent.                                          *)
ParentsFirst == \A t \in Tasks : starts[t] = 0 =>
                  \A i \in DOMAIN Pardos[t] : \A c \in Dag!Children(t, i) : starts[c] = 0

(* Nothing ends that has not begun, or is done before it has ended.        *)
DoneInv == \A t \in Tasks : /\ starts[t] = 0 => ends[t] = 0
                            /\ done[t] => ends[t] = 1

(* The pardo whose job runs is under way.                                  *)
RunInv == \A w \in Workers : \A k \in Depth(w) :
            stack[w][k].kind = "thunk" /\ stack[w][k].job => IsLive(stack[w][k].task)

(* The inductive invariant.                                                *)
ForkJoinInv ==
    /\ TypeOK
    /\ CallInv
    /\ FrameInv
    /\ OneFrame
    /\ QueueInv
    /\ ParentsFirst
    /\ DoneInv
    /\ RunInv
    /\ DequeMatchesStack

(* The program ends and all threads are joined.                            *)
Terminates == <>Joined

(* The operating system keeps running every thread.  Nothing is assumed of *)
(* the choice of victims, nor that a steal ever succeeds.                  *)
FairSpec == Spec /\ WF_vars(Destroy) /\ \A w \in Workers : WF_vars(WorkerStep(w))
=============================================================================
