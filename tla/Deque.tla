-------------------------------- MODULE Deque --------------------------------
(***************************************************************************)
(* The work-stealing deque of Arora, Blumofe and Plaxton as scheduler.h    *)
(* implements it, one action per access to shared memory.                  *)
(*                                                                         *)
(* Memory is that of the x86 machines the build targets (-mcx16): a store  *)
(* waits in the FIFO store buffer of its thread until Flush writes it, a   *)
(* load sees the youngest buffered store of its own thread, a fence and a  *)
(* compare_exchange wait until the buffer is empty.  Only the owner stores *)
(* (a thief's only write is its compare_exchange), so there is one buffer. *)
(* Loads and stores keep their program order, as the compiled code does.   *)
(***************************************************************************)
EXTENDS Integers, Sequences

CONSTANTS
    Jobs,       \* the job pointers a caller may push
    Thieves,    \* the threads that call pop_top on this deque
    NullJob,    \* nullptr
    Pending,    \* the abstract result of a pop that has not taken effect
    QSize,      \* q_size, 1000 in the code
    TagMod      \* number of values of tag_t, 2^32 in the code

ASSUME DequeAssumption ==
    /\ NullJob \notin Jobs /\ Pending \notin Jobs /\ NullJob # Pending
    /\ QSize \in Nat \ {0}
    /\ TagMod \in Nat \ {0, 1}

VARIABLES
    bot, age, deq,   \* shared memory: the three fields of Deque
    buffer,          \* the owner's store buffer, oldest store first
    pc, local_bot, job, old_age, result,       \* the owner's call
    tpc, told_age, tjob, tresult               \* each thief's call

(* The locals of a call that has returned go back to their initial values. *)

memory == <<bot, age, deq>>
owner  == <<pc, local_bot, job, old_age, result>>
thief  == <<tpc, told_age, tjob, tresult>>
vars   == <<memory, buffer, owner, thief>>

Ages    == [tag : 0..(TagMod - 1), top : 0..QSize]
Slots   == 0..(QSize - 1)
NoAge   == [tag |-> 0, top |-> 0]

(* A buffered store: the location, its index (for deq) and the value.      *)
BotStore(v)     == [loc |-> "bot", idx |-> 0, val |-> v]
SlotStore(i, j) == [loc |-> "deq", idx |-> i, val |-> j]
AgeStore(a)     == [loc |-> "age", idx |-> 0, val |-> a]

(* The constructor, line 71.  The slots are not initialised by it; a slot  *)
(* that was never stored to reads as NullJob here, and DequeInv shows that *)
(* no call ever returns the contents of such a slot.                       *)
Init ==
    /\ bot = 0
    /\ age = NoAge
    /\ deq = [i \in Slots |-> NullJob]
    /\ buffer = << >>
    /\ pc = "idle" /\ local_bot = 0 /\ job = NullJob
    /\ old_age = NoAge /\ result = NullJob
    /\ tpc = [t \in Thieves |-> "idle"]
    /\ told_age = [t \in Thieves |-> NoAge]
    /\ tjob = [t \in Thieves |-> NullJob]
    /\ tresult = [t \in Thieves |-> NullJob]

-----------------------------------------------------------------------------
(* The abstract contents of the deque.  While the owner has decremented    *)
(* its local_bot but not yet decided who gets that slot, the slot counts;  *)
(* once it has lost that slot and is resetting the indices, nothing does.  *)

bottom == IF pc \in {"pop_fence", "pop_age", "pop_cas"} THEN local_bot + 1
          ELSE IF pc = "reset" THEN age.top ELSE bot

items == [i \in 1..(bottom - age.top) |-> deq[age.top + i - 1]]

-----------------------------------------------------------------------------
(* The store buffer.                                                       *)

BufferedBots == {i \in 1..Len(buffer) : buffer[i].loc = "bot"}

(* bot.load by the owner: its own youngest buffered store, else memory.    *)
OwnerLoadBot ==
    IF BufferedBots = {} THEN bot
    ELSE buffer[CHOOSE i \in BufferedBots : \A k \in BufferedBots : k <= i].val

Flush ==
    /\ buffer # << >>
    /\ buffer' = Tail(buffer)
    /\ LET s == Head(buffer) IN
         \/ /\ s.loc = "bot" /\ bot' = s.val /\ UNCHANGED <<age, deq>>
         \/ /\ s.loc = "age" /\ age' = s.val /\ UNCHANGED <<bot, deq>>
         \/ /\ s.loc = "deq" /\ deq' = [deq EXCEPT ![s.idx] = s.val]
            /\ UNCHANGED <<bot, age>>
    /\ UNCHANGED <<owner, thief>>

(* Mutant of Fenced: no fence and no drain.                                *)
NoFence == TRUE

(* A seq_cst fence, and the drain before a locked instruction.             *)
Fenced == buffer = << >>

Return == pc' = "idle" /\ local_bot' = 0 /\ job' = NullJob /\ old_age' = NoAge

-----------------------------------------------------------------------------
(* push_bottom(job), lines 73-82.  A job is pushed again only after it has *)
(* left the deque (the frame it lives on has returned).  On overflow the   *)
(* slot is written, bot is not, and the exception ends the owner's calls.  *)

QueueFullLate(b) == b > QSize   \* mutant: the test lets bot reach q_size

QueueFull(b) == b = QSize

PushBottom(j) ==
    /\ pc = "idle"
    /\ \A i \in 1..(bottom - age.top) : items[i] # j
    /\ local_bot' = OwnerLoadBot + 1
    /\ job' = j
    /\ \/ /\ QueueFull(local_bot')
          /\ buffer' = Append(buffer, SlotStore(OwnerLoadBot, j))
          /\ pc' = "overflow"
       \/ /\ ~QueueFull(local_bot')
          /\ buffer' = buffer \o <<SlotStore(OwnerLoadBot, j), BotStore(local_bot')>>
          /\ pc' = "push_fence"
    /\ UNCHANGED <<memory, old_age, result, thief>>

PushFence ==
    /\ pc = "push_fence" /\ Fenced
    /\ Return
    /\ UNCHANGED <<memory, buffer, result, thief>>

-----------------------------------------------------------------------------
(* pop_bottom(), lines 101-127.                                            *)

CallPopBottom ==
    /\ pc = "idle"
    /\ pc' = "pop" /\ result' = NullJob
    /\ UNCHANGED <<memory, buffer, local_bot, job, old_age, thief>>

PopEmpty ==
    /\ pc = "pop" /\ OwnerLoadBot = 0
    /\ Return
    /\ UNCHANGED <<memory, buffer, result, thief>>

PopDecrement ==
    /\ pc = "pop" /\ OwnerLoadBot # 0
    /\ local_bot' = OwnerLoadBot - 1
    /\ buffer' = Append(buffer, BotStore(local_bot'))
    /\ pc' = "pop_fence"
    /\ UNCHANGED <<memory, job, old_age, result, thief>>

(* The fence of line 107 and the load of the slot that follows it.         *)
PopFence ==
    /\ pc = "pop_fence" /\ Fenced
    /\ job' = deq[local_bot]
    /\ pc' = "pop_age"
    /\ UNCHANGED <<memory, buffer, local_bot, old_age, result, thief>>

NewAgeSameTag(a) == [a EXCEPT !.top = 0]             \* mutant: tag not advanced

NewAge(a) == [tag |-> (a.tag + 1) % TagMod, top |-> 0]

(* Bound of the model: the tag a reset is about to install is not one that *)
(* a thief loaded before and still holds, that is, no thief stays between  *)
(* its load of age and its compare_exchange for a full turn of the tag.    *)
TagFree(tag) == \A t \in Thieves : tpc[t] # "idle" => told_age[t].tag # tag

(* The load of age, line 110, and the three ways on from it.               *)
PopKeep ==
    /\ pc = "pop_age" /\ local_bot > age.top
    /\ result' = job
    /\ Return
    /\ UNCHANGED <<memory, buffer, thief>>

PopContend ==
    /\ pc = "pop_age" /\ local_bot = age.top
    /\ old_age' = age /\ pc' = "pop_cas"
    /\ buffer' = Append(buffer, BotStore(0))
    /\ UNCHANGED <<memory, local_bot, job, result, thief>>

PopLost ==
    /\ pc = "pop_age" /\ local_bot < age.top
    /\ TagFree(NewAge(age).tag)
    /\ old_age' = age /\ pc' = "reset"
    /\ buffer' = buffer \o <<BotStore(0), AgeStore(NewAge(age))>>
    /\ UNCHANGED <<memory, local_bot, job, result, thief>>

(* The compare_exchange of line 117.                                       *)
PopCasWon ==
    /\ pc = "pop_cas" /\ Fenced /\ age = old_age
    /\ TagFree(NewAge(old_age).tag)
    /\ age' = NewAge(old_age)
    /\ result' = job /\ pc' = "won"
    /\ UNCHANGED <<bot, deq, buffer, local_bot, job, old_age, thief>>

(* A failed exchange also overwrites old_age; new_age was computed before  *)
(* it and old_age is not read again.                                       *)
PopCasLost ==
    /\ pc = "pop_cas" /\ Fenced /\ age # old_age
    /\ TagFree(NewAge(old_age).tag)
    /\ buffer' = Append(buffer, AgeStore(NewAge(old_age)))
    /\ pc' = "reset"
    /\ UNCHANGED <<memory, local_bot, job, old_age, result, thief>>

(* The fence of line 123, on either way out of the else branch.            *)
ResetFence ==
    /\ pc \in {"reset", "won"} /\ Fenced
    /\ Return
    /\ UNCHANGED <<memory, buffer, result, thief>>

-----------------------------------------------------------------------------
(* pop_top(), lines 84-99, by thief t.                                     *)

StealLoadAge(t) ==
    /\ tpc[t] = "idle"
    /\ told_age' = [told_age EXCEPT ![t] = age]
    /\ tresult' = [tresult EXCEPT ![t] = NullJob]
    /\ tpc' = [tpc EXCEPT ![t] = "steal_bot"]
    /\ UNCHANGED <<memory, buffer, owner, tjob>>

NotLast(t) == bot > told_age[t].top + 1   \* mutant: leaves the last job

Stealable(t) == bot > told_age[t].top

StealLoadBot(t) ==
    /\ tpc[t] = "steal_bot"
    /\ \/ /\ Stealable(t)
          /\ tpc' = [tpc EXCEPT ![t] = "steal_job"]
          /\ UNCHANGED told_age
       \/ /\ ~Stealable(t)
          /\ tpc' = [tpc EXCEPT ![t] = "idle"]
          /\ told_age' = [told_age EXCEPT ![t] = NoAge]
    /\ UNCHANGED <<memory, buffer, owner, tjob, tresult>>

StealLoadJob(t) ==
    /\ tpc[t] = "steal_job"
    /\ tjob' = [tjob EXCEPT ![t] = deq[told_age[t].top]]
    /\ tpc' = [tpc EXCEPT ![t] = "steal_cas"]
    /\ UNCHANGED <<memory, buffer, owner, told_age, tresult>>

StealCas(t) ==
    /\ tpc[t] = "steal_cas"
    /\ \/ /\ age = told_age[t]
          /\ age' = [age EXCEPT !.top = @ + 1]
          /\ tresult' = [tresult EXCEPT ![t] = tjob[t]]
       \/ /\ age # told_age[t]
          /\ UNCHANGED <<age, tresult>>
    /\ tpc' = [tpc EXCEPT ![t] = "idle"]
    /\ told_age' = [told_age EXCEPT ![t] = NoAge]
    /\ tjob' = [tjob EXCEPT ![t] = NullJob]
    /\ UNCHANGED <<bot, deq, buffer, owner>>

-----------------------------------------------------------------------------
OwnerStep == \/ \E j \in Jobs : PushBottom(j)
             \/ PushFence
             \/ CallPopBottom \/ PopEmpty \/ PopDecrement \/ PopFence
             \/ PopKeep \/ PopContend \/ PopLost
             \/ PopCasWon \/ PopCasLost \/ ResetFence

ThiefStep(t) == StealLoadAge(t) \/ StealLoadBot(t) \/ StealLoadJob(t) \/ StealCas(t)

Next == OwnerStep \/ Flush \/ \E t \in Thieves : ThiefStep(t)

Spec == Init /\ [][Next]_vars

-----------------------------------------------------------------------------
(* Properties.                                                             *)

TypeOK ==
    /\ bot \in 0..(QSize - 1)
    /\ age \in Ages
    /\ deq \in [Slots -> Jobs \cup {NullJob}]
    /\ pc \in {"idle", "push_fence", "overflow", "pop", "pop_fence", "pop_age",
               "pop_cas", "reset", "won"}
    /\ local_bot \in 0..QSize
    /\ job \in Jobs \cup {NullJob}
    /\ old_age \in Ages
    /\ result \in Jobs \cup {NullJob}
    /\ tpc \in [Thieves -> {"idle", "steal_bot", "steal_job", "steal_cas"}]
    /\ told_age \in [Thieves -> Ages]
    /\ tjob \in [Thieves -> Jobs \cup {NullJob}]
    /\ tresult \in [Thieves -> Jobs \cup {NullJob}]

(* No operation reads or writes outside the array: neither the owner, nor  *)
(* a thief that computed its index from an age and a bot it loaded at      *)
(* different times.                                                        *)
InBounds ==
    /\ pc \in {"push_fence", "pop_fence", "pop_age", "pop_cas"} => local_bot < QSize
    /\ pc \in {"idle", "pop"} => OwnerLoadBot < QSize
    /\ \A t \in Thieves : tpc[t] \in {"steal_job", "steal_cas"} => told_age[t].top < QSize

(* What is in the store buffer, and what memory holds meanwhile, at each   *)
(* point of the owner's program.                                           *)
BufferInv ==
    /\ pc \in {"idle", "pop"} => buffer = << >>
    /\ pc = "overflow" => buffer \in {<< >>, <<SlotStore(QSize - 1, job)>>}
    /\ pc = "push_fence" =>
         /\ local_bot >= 1
         /\ \/ /\ buffer = <<SlotStore(local_bot - 1, job), BotStore(local_bot)>>
               /\ bot = local_bot - 1
            \/ /\ buffer = <<BotStore(local_bot)>>
               /\ bot = local_bot - 1 /\ deq[local_bot - 1] = job
            \/ /\ buffer = << >>
               /\ bot = local_bot /\ deq[local_bot - 1] = job
    /\ pc = "pop_fence" =>
         \/ buffer = <<BotStore(local_bot)>> /\ bot = local_bot + 1
         \/ buffer = << >> /\ bot = local_bot
    /\ pc = "pop_age" => buffer = << >> /\ bot = local_bot
    /\ pc = "pop_cas" =>
         \/ buffer = <<BotStore(0)>> /\ bot = local_bot
         \/ buffer = << >> /\ bot = 0
    /\ pc = "reset" =>
         \/ /\ buffer = <<BotStore(0), AgeStore(NewAge(old_age))>>
            /\ bot = local_bot /\ age.top = local_bot + 1
         \/ /\ buffer = <<AgeStore(NewAge(old_age))>>
            /\ bot = 0 /\ age.top = local_bot + 1
         \/ buffer = << >> /\ bot = 0 /\ age.top = 0
    /\ pc = "won" => buffer = << >> /\ bot = 0 /\ age.top = 0

(* What lies between top and bottom are jobs.                              *)
ContentsInv ==
    /\ age.top <= bottom
    /\ \A i \in Slots : age.top <= i /\ i < bottom => deq[i] \in Jobs

(* The owner's local variables against memory.                             *)
LocalsInv ==
    /\ pc \in {"push_fence", "overflow"} => job \in Jobs
    /\ pc = "push_fence" /\ bot # local_bot =>
         \A i \in Slots : age.top <= i /\ i < bottom => deq[i] # job
    /\ pc \in {"pop", "pop_fence", "pop_age", "pop_cas", "reset"} => result = NullJob
    /\ pc \in {"pop_age", "pop_cas"} => job = deq[local_bot]
    /\ pc = "pop_cas" => /\ old_age.top = local_bot
                         /\ old_age.tag = age.tag
                         /\ age.top \in {local_bot, local_bot + 1}

(* The tag that a reset has buffered is held by no thief.                  *)
TagInv ==
    pc = "reset" /\ buffer # << >> =>
        /\ old_age.tag = age.tag
        /\ TagFree(NewAge(old_age).tag)

(* A thief whose compare_exchange would still succeed holds the job at the *)
(* top of a deque that is not empty.                                       *)
ThiefInv ==
    \A t \in Thieves :
      /\ tpc[t] # "idle" => tresult[t] = NullJob
      /\ tpc[t] # "idle" /\ told_age[t].tag = age.tag => told_age[t].top <= age.top
      /\ tpc[t] \in {"steal_job", "steal_cas"} /\ told_age[t] = age => age.top < bottom
      /\ tpc[t] = "steal_cas" /\ told_age[t] = age => tjob[t] = deq[age.top]

(* The inductive invariant.                                                *)
DequeInv == /\ TypeOK /\ InBounds /\ BufferInv /\ ContentsInv
            /\ LocalsInv /\ TagInv /\ ThiefInv

-----------------------------------------------------------------------------
(* The deque implements its abstract specification.  A pop that has been   *)
(* called but has not taken effect yet has the result Pending.             *)

bottomResult == IF pc \in {"pop", "pop_fence", "pop_age", "pop_cas"}
                  THEN Pending ELSE result

topResult == [t \in Thieves |-> IF tpc[t] # "idle" THEN Pending ELSE tresult[t]]

WD == INSTANCE WorkDeque

Implements == WD!Spec

-----------------------------------------------------------------------------
(* The machine drains its store buffers, and a thief, which loops in       *)
(* get_job, keeps being run by the operating system.                       *)
FairSpec == Spec /\ WF_vars(Flush) /\ \A t \in Thieves : WF_vars(ThiefStep(t))

(* Once the owner calls no more operations (it is blocked in a wait, or    *)
(* runs a long job), the thieves take every job it has left behind: a      *)
(* failed compare_exchange means that another thief's has succeeded.       *)
StolenEventually ==
    <>[](pc \in {"idle", "overflow"}) => <>[](items = << >>)
=============================================================================
