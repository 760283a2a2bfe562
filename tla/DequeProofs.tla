----------------------------- MODULE DequeProofs -----------------------------
(***************************************************************************)
(* The deque keeps its inductive invariant and implements WorkDeque, for   *)
(* every set of jobs and thieves, every queue size and every tag width.    *)
(***************************************************************************)
EXTENDS Deque, TLAPS

(* With nothing buffered the owner reads bot from memory.                  *)
LEMMA LoadFromMemory ==
    /\ buffer = << >> => OwnerLoadBot = bot
    /\ buffer' = << >> => OwnerLoadBot' = bot'
  BY DEF OwnerLoadBot, BufferedBots

LEMMA NoAgeType == NoAge \in Ages
  BY DequeAssumption DEF NoAge, Ages

LEMMA AgeEquality ==
    ASSUME NEW a \in Ages, NEW b \in Ages, a.tag = b.tag, a.top = b.top
    PROVE  a = b
  BY DEF Ages

LEMMA NewAgeType ==
    ASSUME NEW a \in Ages
    PROVE  NewAge(a) \in Ages /\ NewAge(a).tag # a.tag /\ NewAge(a).top = 0
  BY DequeAssumption DEF NewAge, Ages

(* A step of a thief that writes no memory leaves the owner's part alone.  *)
LEMMA OwnerFrame ==
    ASSUME DequeInv, UNCHANGED <<bot, age, deq, buffer, owner>>
    PROVE  /\ bottom' = bottom /\ OwnerLoadBot' = OwnerLoadBot
           /\ BufferInv' /\ ContentsInv' /\ LocalsInv'
<1> USE DEF owner
<1>1. bottom' = bottom /\ OwnerLoadBot' = OwnerLoadBot
  BY DEF bottom, OwnerLoadBot, BufferedBots
<1>2. BufferInv'
  BY DEF DequeInv, BufferInv, SlotStore, BotStore, AgeStore, NewAge
<1>3. ContentsInv'
  BY <1>1 DEF DequeInv, ContentsInv
<1>4. LocalsInv'
  BY <1>1 DEF DequeInv, LocalsInv
<1>5. QED
  BY <1>1, <1>2, <1>3, <1>4

(* No index passes the end of the array.                                   *)
LEMMA BottomBound == DequeInv => bottom \in 0..QSize /\ bot \in 0..(QSize - 1)
  BY DequeAssumption DEF DequeInv, TypeOK, Ages, BufferInv, InBounds, bottom

LEMMA InitInv == Init => DequeInv
<1> SUFFICES ASSUME Init PROVE DequeInv
  OBVIOUS
<1> USE DequeAssumption DEF Init, NoAge
<1>1. TypeOK
  BY DEF TypeOK, Ages, Slots
<1>2. InBounds
  BY LoadFromMemory DEF InBounds
<1>3. BufferInv
  BY DEF BufferInv
<1>4. ContentsInv /\ LocalsInv /\ TagInv
  BY DEF ContentsInv, LocalsInv, TagInv, bottom, Slots
<1>5. ThiefInv
  BY DEF ThiefInv
<1>6. QED
  BY <1>1, <1>2, <1>3, <1>4, <1>5 DEF DequeInv

(* ----------------------------- The owner ------------------------------- *)

LEMMA PushBottomInv == ASSUME DequeInv, NEW j \in Jobs, PushBottom(j) PROVE DequeInv'
<1> USE DequeAssumption DEF memory, thief
<1>1. /\ TypeOK /\ pc = "idle" /\ buffer = << >> /\ OwnerLoadBot = bot
      /\ local_bot' = bot + 1
  BY LoadFromMemory DEF DequeInv, BufferInv, PushBottom
<1>2. TypeOK'
  BY <1>1 DEF PushBottom, TypeOK, Slots, QueueFull
<1>3. \/ /\ pc' = "overflow" /\ local_bot' = QSize
         /\ buffer' = <<SlotStore(QSize - 1, j)>>
      \/ /\ pc' = "push_fence" /\ local_bot' # QSize
         /\ buffer' = <<SlotStore(bot, j), BotStore(bot + 1)>>
  BY <1>1 DEF PushBottom, TypeOK, QueueFull
<1>4. InBounds'
  BY <1>1, <1>3 DEF DequeInv, InBounds, TypeOK, PushBottom
<1>5. BufferInv'
  BY <1>1, <1>3 DEF BufferInv, PushBottom, TypeOK
<1>6. ContentsInv' /\ LocalsInv' /\ TagInv'
  <2>1. bottom = bot /\ bottom' = bot
    BY <1>1, <1>3 DEF PushBottom, bottom
  <2>2. \A i \in Slots : age.top <= i /\ i < bot => deq[i] # j
    <3>1. ASSUME NEW i \in Slots, age.top <= i, i < bot PROVE deq[i] # j
      <4>1. i - age.top + 1 \in 1..(bottom - age.top)
        BY <1>1, <2>1, <3>1 DEF TypeOK, Ages, Slots
      <4>2. items[i - age.top + 1] = deq[i]
        BY <1>1, <4>1 DEF items, TypeOK, Ages, Slots
      <4>3. QED
        BY <4>1, <4>2 DEF PushBottom
    <3>2. QED
      BY <3>1
  <2>3. QED
    BY <1>1, <1>3, <2>1, <2>2 DEF DequeInv, ContentsInv, LocalsInv, TagInv, PushBottom
<1>7. ThiefInv'
  BY <1>1, <1>3 DEF DequeInv, ThiefInv, bottom, PushBottom
<1>8. QED
  BY <1>2, <1>4, <1>5, <1>6, <1>7 DEF DequeInv

LEMMA PushFenceInv == ASSUME DequeInv, PushFence PROVE DequeInv'
<1> USE DequeAssumption DEF memory, thief, owner, Return, Fenced
<1>1. TypeOK /\ buffer = << >> /\ bot = local_bot /\ deq[local_bot - 1] = job
  BY LoadFromMemory DEF DequeInv, TypeOK, BufferInv, LocalsInv, PushFence
<1>2. TypeOK'
  BY <1>1, NoAgeType, NewAgeType DEF DequeInv, TypeOK, Slots, PushFence
<1>3. InBounds'
  BY <1>1, LoadFromMemory DEF DequeInv, InBounds, TypeOK, PushFence
<1>4. BufferInv'
  BY <1>1 DEF DequeInv, BufferInv, TypeOK, PushFence
<1>5. ContentsInv'
  BY <1>1 DEF DequeInv, ContentsInv, bottom, TypeOK, Ages, PushFence
<1>6. LocalsInv' /\ TagInv'
  BY <1>1 DEF DequeInv, LocalsInv, TagInv, TypeOK, Ages, PushFence
<1>7. ThiefInv'
  BY <1>1 DEF DequeInv, ContentsInv, LocalsInv, ThiefInv, bottom, TypeOK, Ages, PushFence
<1>8. QED
  BY <1>2, <1>3, <1>4, <1>5, <1>6, <1>7 DEF DequeInv

LEMMA CallPopBottomInv == ASSUME DequeInv, CallPopBottom PROVE DequeInv'
<1> USE DequeAssumption DEF memory, thief, owner, Return, Fenced
<1>1. TypeOK /\ buffer = << >>
  BY LoadFromMemory DEF DequeInv, TypeOK, BufferInv, LocalsInv, CallPopBottom
<1>2. TypeOK'
  BY <1>1, NoAgeType, NewAgeType DEF DequeInv, TypeOK, Slots, CallPopBottom
<1>3. InBounds'
  BY <1>1, LoadFromMemory DEF DequeInv, InBounds, TypeOK, CallPopBottom
<1>4. BufferInv'
  BY <1>1 DEF DequeInv, BufferInv, TypeOK, CallPopBottom
<1>5. ContentsInv'
  BY <1>1 DEF DequeInv, ContentsInv, bottom, TypeOK, Ages, CallPopBottom
<1>6. LocalsInv' /\ TagInv'
  BY <1>1 DEF DequeInv, LocalsInv, TagInv, TypeOK, Ages, CallPopBottom
<1>7. ThiefInv'
  BY <1>1 DEF DequeInv, ContentsInv, LocalsInv, ThiefInv, bottom, TypeOK, Ages, CallPopBottom
<1>8. QED
  BY <1>2, <1>3, <1>4, <1>5, <1>6, <1>7 DEF DequeInv

LEMMA PopEmptyInv == ASSUME DequeInv, PopEmpty PROVE DequeInv'
<1> USE DequeAssumption DEF memory, thief, owner, Return, Fenced
<1>1. TypeOK /\ buffer = << >> /\ bot = 0
  BY LoadFromMemory DEF DequeInv, TypeOK, BufferInv, LocalsInv, PopEmpty
<1>2. TypeOK'
  BY <1>1, NoAgeType, NewAgeType DEF DequeInv, TypeOK, Slots, PopEmpty
<1>3. InBounds'
  BY <1>1, LoadFromMemory DEF DequeInv, InBounds, TypeOK, PopEmpty
<1>4. BufferInv'
  BY <1>1 DEF DequeInv, BufferInv, TypeOK, PopEmpty
<1>5. ContentsInv'
  BY <1>1 DEF DequeInv, ContentsInv, bottom, TypeOK, Ages, PopEmpty
<1>6. LocalsInv' /\ TagInv'
  BY <1>1 DEF DequeInv, LocalsInv, TagInv, TypeOK, Ages, PopEmpty
<1>7. ThiefInv'
  BY <1>1 DEF DequeInv, ContentsInv, LocalsInv, ThiefInv, bottom, TypeOK, Ages, PopEmpty
<1>8. QED
  BY <1>2, <1>3, <1>4, <1>5, <1>6, <1>7 DEF DequeInv

LEMMA PopDecrementInv == ASSUME DequeInv, PopDecrement PROVE DequeInv'
<1> USE DequeAssumption DEF memory, thief, owner, Return, Fenced
<1>1. TypeOK /\ buffer = << >> /\ OwnerLoadBot = bot /\ bot # 0
  BY LoadFromMemory DEF DequeInv, TypeOK, BufferInv, LocalsInv, PopDecrement
<1>2. TypeOK'
  BY <1>1, NoAgeType, NewAgeType DEF DequeInv, TypeOK, Slots, PopDecrement
<1>3. InBounds'
  BY <1>1, LoadFromMemory DEF DequeInv, InBounds, TypeOK, PopDecrement
<1>4. BufferInv'
  BY <1>1 DEF DequeInv, BufferInv, TypeOK, PopDecrement
<1>5. ContentsInv'
  BY <1>1 DEF DequeInv, ContentsInv, bottom, TypeOK, Ages, PopDecrement
<1>6. LocalsInv' /\ TagInv'
  BY <1>1 DEF DequeInv, LocalsInv, TagInv, TypeOK, Ages, PopDecrement
<1>7. ThiefInv'
  BY <1>1 DEF DequeInv, ContentsInv, LocalsInv, ThiefInv, bottom, TypeOK, Ages, PopDecrement
<1>8. QED
  BY <1>2, <1>3, <1>4, <1>5, <1>6, <1>7 DEF DequeInv

LEMMA PopFenceInv == ASSUME DequeInv, PopFence PROVE DequeInv'
<1> USE DequeAssumption DEF memory, thief, owner, Return, Fenced
<1>1. TypeOK /\ buffer = << >> /\ bot = local_bot
  BY LoadFromMemory DEF DequeInv, TypeOK, BufferInv, LocalsInv, PopFence
<1>2. TypeOK'
  BY <1>1, NoAgeType DEF DequeInv, TypeOK, InBounds, Slots, PopFence
<1>3. InBounds'
  BY <1>1, LoadFromMemory DEF DequeInv, InBounds, TypeOK, PopFence
<1>4. BufferInv'
  BY <1>1 DEF DequeInv, BufferInv, TypeOK, PopFence
<1>5. ContentsInv'
  BY <1>1 DEF DequeInv, ContentsInv, bottom, TypeOK, Ages, PopFence
<1>6. LocalsInv' /\ TagInv'
  BY <1>1 DEF DequeInv, LocalsInv, TagInv, TypeOK, Ages, PopFence
<1>7. ThiefInv'
  BY <1>1 DEF DequeInv, ContentsInv, LocalsInv, ThiefInv, bottom, TypeOK, Ages, PopFence
<1>8. QED
  BY <1>2, <1>3, <1>4, <1>5, <1>6, <1>7 DEF DequeInv

LEMMA PopKeepInv == ASSUME DequeInv, PopKeep PROVE DequeInv'
<1> USE DequeAssumption DEF memory, thief, owner, Return, Fenced
<1>1. TypeOK /\ buffer = << >> /\ bot = local_bot /\ job = deq[local_bot]
  BY LoadFromMemory DEF DequeInv, TypeOK, BufferInv, LocalsInv, PopKeep
<1>2. TypeOK'
  BY <1>1, NoAgeType, NewAgeType DEF DequeInv, TypeOK, Slots, PopKeep
<1>3. InBounds'
  BY <1>1, LoadFromMemory DEF DequeInv, InBounds, TypeOK, PopKeep
<1>4. BufferInv'
  BY <1>1 DEF DequeInv, BufferInv, TypeOK, PopKeep
<1>5. ContentsInv'
  BY <1>1 DEF DequeInv, ContentsInv, bottom, TypeOK, Ages, Slots, PopKeep
<1>6. LocalsInv' /\ TagInv'
  BY <1>1 DEF DequeInv, LocalsInv, TagInv, TypeOK, Ages, PopKeep
<1>7. ThiefInv'
  BY <1>1 DEF DequeInv, ContentsInv, LocalsInv, ThiefInv, bottom, TypeOK, Ages, PopKeep
<1>8. QED
  BY <1>2, <1>3, <1>4, <1>5, <1>6, <1>7 DEF DequeInv

LEMMA PopContendInv == ASSUME DequeInv, PopContend PROVE DequeInv'
<1> USE DequeAssumption DEF memory, thief, owner, Return, Fenced
<1>1. TypeOK /\ buffer = << >> /\ bot = local_bot /\ job = deq[local_bot]
  BY LoadFromMemory DEF DequeInv, TypeOK, BufferInv, LocalsInv, PopContend
<1>2. TypeOK'
  BY <1>1, NoAgeType, NewAgeType DEF DequeInv, TypeOK, Slots, PopContend
<1>3. InBounds'
  BY <1>1, LoadFromMemory DEF DequeInv, InBounds, TypeOK, PopContend
<1>4. BufferInv'
  BY <1>1 DEF DequeInv, BufferInv, TypeOK, PopContend
<1>5. ContentsInv'
  BY <1>1 DEF DequeInv, ContentsInv, bottom, TypeOK, Ages, PopContend
<1>6. LocalsInv' /\ TagInv'
  BY <1>1 DEF DequeInv, LocalsInv, TagInv, TypeOK, Ages, PopContend
<1>7. ThiefInv'
  BY <1>1 DEF DequeInv, ContentsInv, LocalsInv, ThiefInv, bottom, TypeOK, Ages, PopContend
<1>8. QED
  BY <1>2, <1>3, <1>4, <1>5, <1>6, <1>7 DEF DequeInv

LEMMA PopLostInv == ASSUME DequeInv, PopLost PROVE DequeInv'
<1> USE DequeAssumption DEF memory, thief, owner, Return, Fenced
<1>1. TypeOK /\ buffer = << >> /\ bot = local_bot /\ age.top = local_bot + 1
  BY LoadFromMemory DEF DequeInv, TypeOK, BufferInv, LocalsInv, PopLost, ContentsInv, bottom, Ages
<1>2. /\ buffer' = <<BotStore(0), AgeStore(NewAge(old_age'))>>
      /\ TagFree(NewAge(old_age').tag) /\ TagFree(NewAge(old_age).tag)'
  BY <1>1 DEF PopLost, TagFree
<1>3. TypeOK'
  BY <1>1, <1>2, NoAgeType, NewAgeType DEF DequeInv, TypeOK, Slots, PopLost
<1>4. InBounds'
  BY <1>1, <1>2, LoadFromMemory DEF DequeInv, InBounds, TypeOK, PopLost
<1>5. BufferInv'
  BY <1>1, <1>2 DEF DequeInv, BufferInv, TypeOK, PopLost
<1>6. ContentsInv'
  BY <1>1 DEF ContentsInv, bottom, TypeOK, Ages, Slots, PopLost
<1>7. LocalsInv' /\ TagInv'
  BY <1>1, <1>2 DEF DequeInv, LocalsInv, TagInv, TypeOK, Ages, PopLost
<1>8. ThiefInv'
  BY <1>1, <1>2 DEF DequeInv, ContentsInv, LocalsInv, ThiefInv, bottom, TypeOK, Ages, PopLost
<1>9. QED
  BY <1>3, <1>4, <1>5, <1>6, <1>7, <1>8 DEF DequeInv

LEMMA PopCasWonInv == ASSUME DequeInv, PopCasWon PROVE DequeInv'
<1> USE DequeAssumption DEF memory, thief, owner, Return, Fenced
<1>1. /\ TypeOK /\ buffer = << >> /\ bot = 0
      /\ local_bot = age.top /\ job = deq[local_bot] /\ job \in Jobs
  BY LoadFromMemory DEF DequeInv, TypeOK, BufferInv, LocalsInv, PopCasWon, ContentsInv, InBounds, Slots, bottom, Ages
<1>2. /\ age' \in Ages /\ age'.top = 0 /\ age'.tag # age.tag
      /\ \A t \in Thieves : tpc[t] # "idle" => told_age[t].tag # age'.tag
  BY <1>1, NewAgeType DEF TypeOK, PopCasWon, TagFree
<1>3. TypeOK'
  BY <1>1, <1>2, NoAgeType, NewAgeType DEF DequeInv, TypeOK, Slots, PopCasWon
<1>4. InBounds'
  BY <1>1, <1>2, LoadFromMemory DEF DequeInv, InBounds, TypeOK, PopCasWon
<1>5. BufferInv'
  BY <1>1, <1>2 DEF DequeInv, BufferInv, TypeOK, PopCasWon
<1>6. ContentsInv'
  BY <1>1, <1>2 DEF ContentsInv, bottom, TypeOK, Slots, PopCasWon
<1>7. LocalsInv' /\ TagInv'
  BY <1>1, <1>2 DEF DequeInv, LocalsInv, TagInv, TypeOK, Ages, PopCasWon
<1>8. ThiefInv'
  BY <1>1, <1>2 DEF DequeInv, ContentsInv, LocalsInv, ThiefInv, bottom, TypeOK, Ages, PopCasWon
<1>9. QED
  BY <1>3, <1>4, <1>5, <1>6, <1>7, <1>8 DEF DequeInv

LEMMA PopCasLostInv == ASSUME DequeInv, PopCasLost PROVE DequeInv'
<1> USE DequeAssumption DEF memory, thief, owner, Return, Fenced
<1>1. TypeOK /\ buffer = << >> /\ bot = 0 /\ age.top = local_bot + 1 /\ old_age.tag = age.tag
  BY LoadFromMemory, AgeEquality DEF DequeInv, TypeOK, BufferInv, LocalsInv, PopCasLost, Ages
<1>2. TypeOK'
  BY <1>1, NoAgeType, NewAgeType DEF DequeInv, TypeOK, Slots, PopCasLost
<1>3. InBounds'
  BY <1>1, LoadFromMemory DEF DequeInv, InBounds, TypeOK, PopCasLost
<1>4. BufferInv'
  BY <1>1 DEF DequeInv, BufferInv, TypeOK, PopCasLost
<1>5. ContentsInv'
  BY <1>1 DEF DequeInv, ContentsInv, bottom, TypeOK, Ages, PopCasLost
<1>6. LocalsInv' /\ TagInv'
  BY <1>1 DEF DequeInv, LocalsInv, TagInv, TagFree, PopCasLost
<1>7. ThiefInv'
  BY <1>1 DEF DequeInv, ContentsInv, LocalsInv, ThiefInv, bottom, TypeOK, Ages, PopCasLost
<1>8. QED
  BY <1>2, <1>3, <1>4, <1>5, <1>6, <1>7 DEF DequeInv

LEMMA ResetFenceInv == ASSUME DequeInv, ResetFence PROVE DequeInv'
<1> USE DequeAssumption DEF memory, thief, owner, Return, Fenced
<1>1. TypeOK /\ buffer = << >> /\ bot = 0 /\ age.top = 0
  BY LoadFromMemory DEF DequeInv, TypeOK, BufferInv, LocalsInv, ResetFence
<1>2. TypeOK'
  BY <1>1, NoAgeType, NewAgeType DEF DequeInv, TypeOK, Slots, ResetFence
<1>3. InBounds'
  BY <1>1, LoadFromMemory DEF DequeInv, InBounds, TypeOK, ResetFence
<1>4. BufferInv'
  BY <1>1 DEF DequeInv, BufferInv, TypeOK, ResetFence
<1>5. ContentsInv'
  BY <1>1 DEF DequeInv, ContentsInv, bottom, TypeOK, Ages, ResetFence
<1>6. LocalsInv' /\ TagInv'
  BY <1>1 DEF DequeInv, LocalsInv, TagInv, TypeOK, Ages, ResetFence
<1>7. ThiefInv'
  BY <1>1 DEF DequeInv, ContentsInv, LocalsInv, ThiefInv, bottom, TypeOK, Ages, ResetFence
<1>8. QED
  BY <1>2, <1>3, <1>4, <1>5, <1>6, <1>7 DEF DequeInv

(* ----------------------------- A thief --------------------------------- *)

LEMMA StealLoadAgeInv ==
    ASSUME DequeInv, NEW t \in Thieves, StealLoadAge(t) PROVE DequeInv'
<1> USE DEF memory
<1>1. UNCHANGED <<bot, age, deq, buffer, owner>> /\ TypeOK
  BY DEF StealLoadAge, DequeInv
<1>2. /\ bottom' = bottom /\ OwnerLoadBot' = OwnerLoadBot
      /\ BufferInv' /\ ContentsInv' /\ LocalsInv'
  BY <1>1, OwnerFrame
<1>3. TypeOK'
  BY <1>1, DequeAssumption DEF TypeOK, StealLoadAge, owner
<1>4. InBounds'
  BY <1>1, <1>2 DEF DequeInv, InBounds, TypeOK, StealLoadAge, owner
<1>5. TagInv'
  BY <1>1, NewAgeType DEF DequeInv, TypeOK, TagInv, TagFree, StealLoadAge, owner
<1>6. ThiefInv'
  BY <1>1, <1>2 DEF DequeInv, TypeOK, Ages, ThiefInv, StealLoadAge
<1>7. QED
  BY <1>2, <1>3, <1>4, <1>5, <1>6 DEF DequeInv

LEMMA StealLoadBotInv ==
    ASSUME DequeInv, NEW t \in Thieves, StealLoadBot(t) PROVE DequeInv'
<1> USE DEF memory
<1>1. UNCHANGED <<bot, age, deq, buffer, owner>> /\ TypeOK
  BY DEF StealLoadBot, DequeInv
<1>2. /\ bottom' = bottom /\ OwnerLoadBot' = OwnerLoadBot
      /\ BufferInv' /\ ContentsInv' /\ LocalsInv'
  BY <1>1, OwnerFrame
<1>3. TypeOK'
  BY <1>1, NoAgeType DEF TypeOK, StealLoadBot, owner
<1>4. InBounds'
  <2>1. bot > told_age[t].top => told_age[t].top < QSize
    BY DequeAssumption DEF DequeInv, TypeOK, Ages
  <2>2. QED
    BY <1>1, <1>2, <2>1 DEF DequeInv, InBounds, TypeOK, Stealable, StealLoadBot, owner
<1>5. TagInv'
  BY <1>1 DEF DequeInv, TypeOK, TagInv, TagFree, StealLoadBot, owner
<1>6. told_age[t] = age /\ bot > age.top => age.top < bottom
  BY DEF DequeInv, TypeOK, Ages, BufferInv, bottom
<1>7. ThiefInv'
  BY <1>1, <1>2, <1>6 DEF DequeInv, TypeOK, ThiefInv, Stealable, StealLoadBot
<1>8. QED
  BY <1>2, <1>3, <1>4, <1>5, <1>7 DEF DequeInv

LEMMA StealLoadJobInv ==
    ASSUME DequeInv, NEW t \in Thieves, StealLoadJob(t) PROVE DequeInv'
<1> USE DEF memory
<1>1. UNCHANGED <<bot, age, deq, buffer, owner>> /\ TypeOK
  BY DEF StealLoadJob, DequeInv
<1>2. /\ bottom' = bottom /\ OwnerLoadBot' = OwnerLoadBot
      /\ BufferInv' /\ ContentsInv' /\ LocalsInv'
  BY <1>1, OwnerFrame
<1>3. told_age[t].top \in Slots
  BY DequeAssumption DEF DequeInv, TypeOK, InBounds, Ages, Slots, StealLoadJob
<1>4. TypeOK'
  BY <1>1, <1>3 DEF TypeOK, StealLoadJob, owner
<1>5. InBounds'
  BY <1>1, <1>2 DEF DequeInv, InBounds, TypeOK, StealLoadJob, owner
<1>6. TagInv'
  BY <1>1 DEF DequeInv, TypeOK, TagInv, TagFree, StealLoadJob, owner
<1>7. ThiefInv'
  BY <1>1, <1>2 DEF DequeInv, TypeOK, ThiefInv, StealLoadJob
<1>8. QED
  BY <1>2, <1>4, <1>5, <1>6, <1>7 DEF DequeInv

(* A compare_exchange that fails writes nothing.                           *)
LEMMA StealCasFailInv ==
    ASSUME DequeInv, NEW t \in Thieves, StealCas(t), age' = age PROVE DequeInv'
<1>1. UNCHANGED <<bot, age, deq, buffer, owner>> /\ TypeOK
  BY DEF StealCas, DequeInv
<1>2. /\ bottom' = bottom /\ OwnerLoadBot' = OwnerLoadBot
      /\ BufferInv' /\ ContentsInv' /\ LocalsInv'
  BY <1>1, OwnerFrame
<1>3. TypeOK'
  BY <1>1, NoAgeType DEF TypeOK, StealCas, owner
<1>4. InBounds'
  BY <1>1, <1>2 DEF DequeInv, InBounds, TypeOK, StealCas, owner
<1>5. TagInv'
  BY <1>1 DEF DequeInv, TypeOK, TagInv, TagFree, StealCas, owner
<1>6. ThiefInv'
  BY <1>1, <1>2 DEF DequeInv, TypeOK, ThiefInv, StealCas
<1>7. QED
  BY <1>2, <1>3, <1>4, <1>5, <1>6 DEF DequeInv

(* One that succeeds moves top past a job that was between top and bottom. *)
LEMMA StealCasInv ==
    ASSUME DequeInv, NEW t \in Thieves, StealCas(t) PROVE DequeInv'
<1> USE DequeAssumption DEF owner
<1>1. CASE age' = age
  BY <1>1, StealCasFailInv
<1>2. CASE age' # age
  <2>1. /\ age = told_age[t] /\ age' = [age EXCEPT !.top = @ + 1]
        /\ tresult' = [tresult EXCEPT ![t] = tjob[t]]
        /\ UNCHANGED <<bot, deq, buffer, owner>>
        /\ TypeOK /\ age.top < bottom
    BY <1>2 DEF StealCas, DequeInv, ThiefInv
  <2>2. /\ age \in Ages /\ age' \in Ages
        /\ age'.top = age.top + 1 /\ age'.tag = age.tag
    BY <2>1, BottomBound DEF TypeOK, Ages
  <2>3. pc # "reset" /\ pc # "won" /\ bottom' = bottom
    BY <2>1, <2>2 DEF DequeInv, BufferInv, TypeOK, Ages, bottom
  <2>4. TypeOK'
    BY <2>1, <2>2, NoAgeType DEF TypeOK, StealCas
  <2>5. InBounds'
    BY <2>1 DEF DequeInv, InBounds, TypeOK, StealCas, OwnerLoadBot, BufferedBots
  <2>6. BufferInv'
    BY <2>1, <2>3 DEF DequeInv, BufferInv, SlotStore, BotStore
  <2>7. ContentsInv'
    BY <2>1, <2>2, <2>3, BottomBound DEF DequeInv, ContentsInv, Slots, Ages
  <2>8. LocalsInv' /\ TagInv'
    <3>1. pc = "pop_cas" => age.top = local_bot
      BY <2>1, <2>2 DEF DequeInv, LocalsInv, bottom, Ages
    <3>2. QED
      BY <2>1, <2>2, <2>3, <3>1 DEF DequeInv, LocalsInv, TagInv, TypeOK, Ages, Slots
  <2>9. ThiefInv'
    BY <2>1, <2>2, <2>3 DEF DequeInv, ThiefInv, TypeOK, Ages, StealCas
  <2>10. QED
    BY <2>4, <2>5, <2>6, <2>7, <2>8, <2>9 DEF DequeInv
<1>3. QED
  BY <1>1, <1>2

(* --------------------------- The store buffer --------------------------- *)

LEMMA Stores ==
    /\ \A a, b : Head(<<a, b>>) = a /\ Tail(<<a, b>>) = <<b>>
    /\ \A a : Head(<<a>>) = a /\ Tail(<<a>>) = << >>
  OBVIOUS

(* What writing the oldest store does, by its location.                    *)
LEMMA FlushStore ==
    ASSUME Flush
    PROVE  /\ buffer' = Tail(buffer)
           /\ \A v : Head(buffer) = BotStore(v) => bot' = v /\ UNCHANGED <<age, deq>>
           /\ \A v : Head(buffer) = AgeStore(v) => age' = v /\ UNCHANGED <<bot, deq>>
           /\ \A i, j : Head(buffer) = SlotStore(i, j) =>
                 deq' = [deq EXCEPT ![i] = j] /\ UNCHANGED <<bot, age>>
  BY DEF Flush, BotStore, AgeStore, SlotStore

(* The stores that can reach memory, each with what memory holds then.     *)
LEMMA FlushCases ==
    ASSUME DequeInv, Flush
    PROVE  \/ /\ pc = "overflow" /\ buffer = <<SlotStore(QSize - 1, job)>>
              /\ buffer' = << >>
              /\ deq' = [deq EXCEPT ![QSize - 1] = job]
              /\ UNCHANGED <<bot, age>>
           \/ /\ pc = "push_fence" /\ local_bot >= 1 /\ bot = local_bot - 1
              /\ buffer' = <<BotStore(local_bot)>>
              /\ deq' = [deq EXCEPT ![local_bot - 1] = job]
              /\ UNCHANGED <<bot, age>>
           \/ /\ pc = "push_fence" /\ local_bot >= 1 /\ bot = local_bot - 1
              /\ deq[local_bot - 1] = job
              /\ buffer' = << >> /\ bot' = local_bot
              /\ UNCHANGED <<age, deq>>
           \/ /\ pc = "pop_fence" /\ bot = local_bot + 1
              /\ buffer' = << >> /\ bot' = local_bot
              /\ UNCHANGED <<age, deq>>
           \/ /\ pc = "pop_cas" /\ bot = local_bot
              /\ buffer' = << >> /\ bot' = 0
              /\ UNCHANGED <<age, deq>>
           \/ /\ pc = "reset" /\ bot = local_bot /\ age.top = local_bot + 1
              /\ buffer' = <<AgeStore(NewAge(old_age))>> /\ bot' = 0
              /\ UNCHANGED <<age, deq>>
           \/ /\ pc = "reset" /\ bot = 0 /\ age.top = local_bot + 1
              /\ buffer = <<AgeStore(NewAge(old_age))>>
              /\ buffer' = << >> /\ age' = NewAge(old_age)
              /\ UNCHANGED <<bot, deq>>
<1>1. buffer # << >> /\ TypeOK /\ BufferInv
  BY DEF DequeInv, Flush
<1>2. CASE pc = "overflow"
  BY <1>1, <1>2, FlushStore, Stores DEF BufferInv
<1>3. CASE pc = "push_fence"
  <2>1. CASE buffer = <<BotStore(local_bot)>>
    BY <1>1, <1>3, <2>1, FlushStore, Stores DEF BufferInv
  <2>2. CASE buffer = <<SlotStore(local_bot - 1, job), BotStore(local_bot)>>
    BY <1>1, <1>3, <2>2, FlushStore, Stores DEF BufferInv
  <2>3. QED
    BY <1>1, <1>3, <2>1, <2>2 DEF BufferInv
<1>4. CASE pc = "pop_fence"
  BY <1>1, <1>4, FlushStore, Stores DEF BufferInv
<1>5. CASE pc = "pop_cas"
  BY <1>1, <1>5, FlushStore, Stores DEF BufferInv
<1>6. CASE pc = "reset"
  <2>1. CASE buffer = <<AgeStore(NewAge(old_age))>>
    BY <1>1, <1>6, <2>1, FlushStore, Stores DEF BufferInv
  <2>2. CASE buffer = <<BotStore(0), AgeStore(NewAge(old_age))>>
    BY <1>1, <1>6, <2>2, FlushStore, Stores DEF BufferInv
  <2>3. QED
    BY <1>1, <1>6, <2>1, <2>2 DEF BufferInv
<1>7. QED
  BY <1>1, <1>2, <1>3, <1>4, <1>5, <1>6 DEF TypeOK, BufferInv

LEMMA FlushInv == ASSUME DequeInv, Flush PROVE DequeInv'
<1> USE DequeAssumption DEF owner, thief
<1>1. /\ UNCHANGED <<owner, thief>> /\ TypeOK
      /\ pc \in {"overflow", "push_fence", "pop_fence", "pop_cas", "reset"}
  BY FlushCases DEF Flush, DequeInv
<1>2. age' \in Ages
  BY <1>1, FlushCases, NewAgeType DEF TypeOK
<1>3. TypeOK'
  <2>1. bot' \in 0..(QSize - 1)
    <3>1. pc = "push_fence" => local_bot <= QSize - 1
      BY DEF DequeInv, InBounds, TypeOK
    <3>2. QED
      BY <1>1, <3>1, FlushCases DEF TypeOK
  <2>2. deq' \in [Slots -> Jobs \cup {NullJob}]
    BY <1>1, FlushCases DEF TypeOK
  <2>3. QED
    BY <1>1, <1>2, <2>1, <2>2 DEF TypeOK
<1>4. InBounds'
  BY <1>1, FlushCases DEF DequeInv, InBounds, TypeOK
<1>5. BufferInv'
  BY <1>1, FlushCases, NewAgeType DEF DequeInv, BufferInv, TypeOK, Slots
<1>6. ContentsInv'
  <2>1. CASE pc = "overflow"
    BY <1>1, <2>1, FlushCases DEF DequeInv, ContentsInv, bottom, TypeOK, Slots, Ages
  <2>2. CASE pc = "push_fence"
    BY <1>1, <2>2, FlushCases DEF DequeInv, ContentsInv, LocalsInv, bottom, TypeOK, Slots, Ages
  <2>3. CASE pc \in {"pop_fence", "pop_cas"}
    BY <1>1, <2>3, FlushCases DEF DequeInv, ContentsInv, bottom
  <2>4. CASE pc = "reset"
    BY <1>1, <1>2, <2>4, FlushCases DEF ContentsInv, bottom, TypeOK, Slots, Ages
  <2>5. QED
    BY <1>1, <2>1, <2>2, <2>3, <2>4
<1>7. LocalsInv'
  <2>1. CASE pc = "push_fence"
    BY <1>1, <2>1, FlushCases DEF DequeInv, LocalsInv, TypeOK, Slots, bottom
  <2>2. CASE pc # "push_fence"
    BY <1>1, <2>2, FlushCases DEF DequeInv, LocalsInv
  <2>3. QED
    BY <2>1, <2>2
<1>8. TagInv'
  <2>1. CASE pc = "reset" /\ buffer' # << >>
    <3>1. age' = age /\ buffer # << >>
      BY <2>1, FlushCases DEF Flush
    <3>2. QED
      BY <1>1, <2>1, <3>1 DEF DequeInv, TagInv, TagFree, NewAge
  <2>2. QED
    BY <1>1, <2>1 DEF TagInv
<1>9. ThiefInv'
  <2>1. CASE pc \in {"overflow", "push_fence"}
    BY <1>1, <2>1, FlushCases DEF DequeInv, ThiefInv, bottom, TypeOK, Ages, Slots
  <2>2. CASE pc \in {"pop_fence", "pop_cas"}
    BY <1>1, <2>2, FlushCases DEF DequeInv, ThiefInv, bottom
  <2>3. CASE pc = "reset" /\ age' = age
    BY <1>1, <2>3, FlushCases DEF DequeInv, ThiefInv, bottom
  <2>4. CASE pc = "reset" /\ age' # age
    <3>1. /\ age' = NewAge(old_age)
          /\ \A t \in Thieves : tpc[t] # "idle" => told_age[t].tag # age'.tag
      BY <1>1, <2>4, FlushCases DEF DequeInv, TagInv, TagFree
    <3>2. QED
      BY <1>1, <3>1 DEF DequeInv, ThiefInv, TypeOK
  <2>5. QED
    BY <1>1, <2>1, <2>2, <2>3, <2>4
<1>10. QED
  BY <1>3, <1>4, <1>5, <1>6, <1>7, <1>8, <1>9 DEF DequeInv

(* ------------------------------ Invariance ------------------------------ *)

LEMMA StutterInv == ASSUME DequeInv, UNCHANGED vars PROVE DequeInv'
<1> USE DEF vars, memory, owner, thief
<1>1. TypeOK' /\ InBounds'
  BY OwnerFrame DEF DequeInv, TypeOK, InBounds
<1>2. BufferInv' /\ ContentsInv' /\ LocalsInv'
  BY OwnerFrame
<1>3. TagInv' /\ ThiefInv'
  BY OwnerFrame DEF DequeInv, TagInv, TagFree, NewAge, ThiefInv
<1>4. QED
  BY <1>1, <1>2, <1>3 DEF DequeInv

LEMMA StepInv == DequeInv /\ [Next]_vars => DequeInv'
<1> SUFFICES ASSUME DequeInv, [Next]_vars PROVE DequeInv'
  OBVIOUS
<1>1. CASE OwnerStep
  BY <1>1, PushBottomInv, PushFenceInv, CallPopBottomInv, PopEmptyInv,
     PopDecrementInv, PopFenceInv, PopKeepInv, PopContendInv, PopLostInv,
     PopCasWonInv, PopCasLostInv, ResetFenceInv DEF OwnerStep
<1>2. CASE Flush
  BY <1>2, FlushInv
<1>3. CASE \E t \in Thieves : ThiefStep(t)
  BY <1>3, StealLoadAgeInv, StealLoadBotInv, StealLoadJobInv, StealCasInv
     DEF ThiefStep
<1>4. CASE UNCHANGED vars
  BY <1>4, StutterInv
<1>5. QED
  BY <1>1, <1>2, <1>3, <1>4 DEF Next

(* The inductive invariant holds of every behaviour: whatever the          *)
(* interleaving of push_bottom, pop_bottom, pop_top and the store buffer,  *)
(* a thief whose compare_exchange can succeed holds the job at the top.    *)
THEOREM DequeInvariance == Spec => []DequeInv
<1>1. Init => DequeInv
  BY InitInv
<1>2. DequeInv /\ [Next]_vars => DequeInv'
  BY StepInv
<1>3. QED
  BY <1>1, <1>2, PTL DEF Spec

(* Every variable keeps its type: bot, age and the indices fit the array   *)
(* and the tag its width.                                                  *)
THEOREM TypeCorrect == Spec => []TypeOK
<1>1. DequeInv => TypeOK
  BY DEF DequeInv
<1>2. QED
  BY <1>1, DequeInvariance, PTL

(* No call of pop_top, pop_bottom or push_bottom leaves the array deq.     *)
THEOREM InBoundsCorrect == Spec => []InBounds
<1>1. DequeInv => InBounds
  BY DEF DequeInv
<1>2. QED
  BY <1>1, DequeInvariance, PTL
-----------------------------------------------------------------------------
(* ---------------------------- Refinement -------------------------------- *)

(* The abstract contents are a sequence of jobs, read from top to bottom.  *)
LEMMA ItemsSeq ==
    ASSUME DequeInv
    PROVE  /\ bottom - age.top \in Nat
           /\ items \in Seq(Jobs)
           /\ Len(items) = bottom - age.top
           /\ \A i \in 1..Len(items) : items[i] = deq[age.top + i - 1]
<1> DEFINE n == bottom - age.top
<1>1. n \in Nat /\ bottom \in 0..QSize /\ age.top \in Nat
  BY BottomBound DEF DequeInv, ContentsInv, TypeOK, Ages
<1>2. \A i \in 1..n : deq[age.top + i - 1] \in Jobs
  <2>1. ASSUME NEW i \in 1..n PROVE deq[age.top + i - 1] \in Jobs
    <3>1. /\ age.top + i - 1 \in Slots
          /\ age.top <= age.top + i - 1 /\ age.top + i - 1 < bottom
      BY <1>1, DequeAssumption DEF Slots
    <3>2. QED
      BY <3>1 DEF DequeInv, ContentsInv
  <2>2. QED
    BY <2>1
<1>3. items = [i \in 1..n |-> deq[age.top + i - 1]]
  BY DEF items
<1> HIDE DEF n
<1>4. items \in Seq(Jobs) /\ Len(items) = n
  BY <1>1, <1>2, <1>3
<1>5. QED
  BY <1>1, <1>3, <1>4 DEF n

LEMMA ItemsSame ==
    ASSUME bottom' = bottom, age' = age, deq' = deq
    PROVE  items' = items
  BY DEF items

LEMMA ItemsEmpty ==
    ASSUME DequeInv
    PROVE  items = << >> <=> bottom = age.top
<1>1. items \in Seq(Jobs) /\ Len(items) = bottom - age.top /\ bottom - age.top \in Nat
  BY ItemsSeq
<1>2. bottom \in Int /\ age.top \in Int
  BY BottomBound DEF DequeInv, TypeOK, Ages
<1>3. QED
  BY <1>1, <1>2

(* The same in the next state.                                             *)
ItemsOK == /\ items \in Seq(Jobs)
           /\ Len(items) = bottom - age.top
           /\ bottom = age.top => items = << >>

LEMMA ItemsNext ==
    DequeInv' => /\ items' \in Seq(Jobs)
                 /\ Len(items') = bottom' - age'.top
                 /\ bottom' = age'.top => items' = << >>
<1>1. DequeInv => ItemsOK
  BY ItemsSeq, ItemsEmpty DEF ItemsOK
<1>2. DequeInv' => ItemsOK'
  BY <1>1, PTL
<1>3. QED
  BY <1>2 DEF ItemsOK

LEMMA NextIndex ==
    ASSUME NEW m \in Nat, NEW k \in 1..(m - 1), NEW a \in Nat
    PROVE  k + 1 \in 1..m /\ a + (k + 1) - 1 = a + 1 + k - 1
  OBVIOUS

LEMMA AppendIs ==
    ASSUME NEW S, NEW r \in Seq(S), NEW e \in S, NEW u \in Seq(S),
           Len(u) = Len(r) + 1, u[Len(r) + 1] = e, \A i \in 1..Len(r) : u[i] = r[i]
    PROVE  u = Append(r, e)
  OBVIOUS

LEMMA TailIs ==
    ASSUME NEW S, NEW r \in Seq(S), r # << >>, NEW u \in Seq(S),
           Len(u) = Len(r) - 1, \A i \in 1..(Len(r) - 1) : u[i] = r[i + 1]
    PROVE  u = Tail(r)
  OBVIOUS

(* A slot at or above bottom is not part of the contents.                  *)
LEMMA ItemsSlotAtBottom ==
    ASSUME DequeInv, NEW k \in Int, NEW j, bottom <= k,
           bottom' = bottom, age' = age, deq' = [deq EXCEPT ![k] = j]
    PROVE  items' = items
<1>1. bottom \in 0..QSize /\ age.top \in Nat
  BY BottomBound DEF DequeInv, TypeOK, Ages
<1>2. ASSUME NEW i \in 1..(bottom - age.top)
      PROVE  deq'[age.top + i - 1] = deq[age.top + i - 1]
  BY <1>1, <1>2, DequeAssumption DEF DequeInv, TypeOK, Slots
<1>3. QED
  BY <1>2 DEF items

LEMMA RefineInit == Init => WD!Init
<1> SUFFICES ASSUME Init PROVE WD!Init
  OBVIOUS
<1>1. items = << >>
  BY InitInv, ItemsEmpty DEF Init, bottom, NoAge
<1>2. QED
  BY <1>1 DEF Init, WD!Init, bottomResult, topResult

(* ------------------- The owner's steps, abstractly ---------------------- *)

(* The steps on which the abstract deque stutters.                         *)
LEMMA RefineOwnerStutter ==
    ASSUME DequeInv,
           \/ \E j \in Jobs : PushBottom(j)
           \/ PushFence \/ PopDecrement \/ PopFence \/ PopContend \/ ResetFence
    PROVE  UNCHANGED WD!vars
<1> USE DEF owner, memory, thief, Return, Fenced
<1>1. TypeOK /\ (buffer = << >> => OwnerLoadBot = bot)
  BY LoadFromMemory DEF DequeInv
<1>2. topResult' = topResult
  BY DEF topResult, PushBottom, PushFence, PopDecrement, PopFence, PopContend, ResetFence
<1>3. bottomResult' = bottomResult
  BY <1>1 DEF bottomResult, PushBottom, PushFence, PopDecrement, PopFence, PopContend,
     ResetFence, DequeInv, LocalsInv, TypeOK
<1>4. bottom' = bottom
  <2>1. CASE \E j \in Jobs : PushBottom(j)
    BY <2>1 DEF PushBottom, bottom
  <2>2. CASE PushFence \/ PopFence \/ PopContend
    BY <2>2 DEF PushFence, PopFence, PopContend, bottom
  <2>3. CASE PopDecrement
    BY <1>1, <2>3 DEF PopDecrement, bottom, DequeInv, BufferInv, TypeOK
  <2>4. CASE ResetFence
    BY <1>1, <2>4 DEF ResetFence, bottom, DequeInv, BufferInv
  <2>5. QED
    BY <2>1, <2>2, <2>3, <2>4
<1>5. age' = age /\ deq' = deq
  BY DEF PushBottom, PushFence, PopDecrement, PopFence, PopContend, ResetFence
<1>6. QED
  BY <1>2, <1>3, <1>4, <1>5, ItemsSame DEF WD!vars

LEMMA RefineCallPopBottom ==
    ASSUME DequeInv, CallPopBottom PROVE WD!CallPopBottom
<1> USE DEF owner, memory, thief
<1>1. items' = items
  BY ItemsSame DEF CallPopBottom, bottom
<1>2. bottomResult # Pending /\ bottomResult' = Pending
  BY DequeAssumption DEF bottomResult, CallPopBottom, DequeInv, TypeOK
<1>3. topResult' = topResult
  BY DEF topResult, CallPopBottom
<1>4. QED
  BY <1>1, <1>2, <1>3 DEF WD!CallPopBottom

(* The three steps on which pop_bottom finds the deque empty.              *)
LEMMA RefinePopBottomEmpty ==
    ASSUME DequeInv, PopEmpty \/ PopLost \/ PopCasLost PROVE WD!PopBottomEmpty
<1> USE DEF owner, memory, thief, Return, Fenced
<1>1. DequeInv'
  BY PopEmptyInv, PopLostInv, PopCasLostInv
<1>2. bottom = age.top /\ bottom' = age'.top
  <2>1. CASE PopEmpty
    BY <2>1, LoadFromMemory DEF PopEmpty, bottom, DequeInv, BufferInv, ContentsInv, TypeOK, Ages
  <2>2. CASE PopLost
    BY <2>2 DEF PopLost, bottom, DequeInv, ContentsInv, TypeOK, Ages
  <2>3. CASE PopCasLost
    BY <2>3, AgeEquality DEF PopCasLost, bottom, DequeInv, LocalsInv, TypeOK, Ages
  <2>4. QED
    BY <2>1, <2>2, <2>3
<1>3. items = << >> /\ items' = << >>
  <2>1. items = << >>
    BY <1>2, ItemsEmpty
  <2>2. items' = << >>
    BY <1>1, <1>2, ItemsNext
  <2>3. QED
    BY <2>1, <2>2
<1>4. bottomResult = Pending /\ bottomResult' = NullJob
  BY DEF bottomResult, PopEmpty, PopLost, PopCasLost, DequeInv, LocalsInv
<1>5. topResult' = topResult
  BY DEF topResult, PopEmpty, PopLost, PopCasLost
<1>6. QED
  BY <1>3, <1>4, <1>5 DEF WD!PopBottomEmpty

(* The two steps on which pop_bottom takes the youngest job.               *)
LEMMA RefinePopBottom ==
    ASSUME DequeInv, PopKeep \/ PopCasWon PROVE WD!PopBottom
<1> USE DEF owner, memory, thief, Return, Fenced
<1> DEFINE n == Len(items)
<1>1. DequeInv'
  BY PopKeepInv, PopCasWonInv
<1>2. /\ bottom = local_bot + 1 /\ age.top <= local_bot
      /\ local_bot \in Nat /\ age.top \in Nat /\ job = deq[local_bot]
  BY DEF PopKeep, PopCasWon, bottom, DequeInv, LocalsInv, TypeOK, Ages
<1>3. /\ items \in Seq(Jobs) /\ n = local_bot + 1 - age.top
      /\ n \in Nat \ {0}
      /\ \A i \in 1..n : items[i] = deq[age.top + i - 1]
  BY <1>2, ItemsSeq
<1>4. items # << >> /\ items[n] = job
  <2>1. n \in 1..n /\ age.top + n - 1 = local_bot
    BY <1>2, <1>3
  <2>2. QED
    BY <1>2, <1>3, <2>1
<1>5. items' = SubSeq(items, 1, n - 1)
  <2>1. CASE PopKeep
    <3>1. bottom' = local_bot /\ age' = age /\ deq' = deq
      BY <2>1 DEF PopKeep, bottom, DequeInv, BufferInv
    <3>2. items' = [i \in 1..(n - 1) |-> deq[age.top + i - 1]]
      BY <1>2, <1>3, <3>1 DEF items
    <3>3. SubSeq(items, 1, n - 1) = [i \in 1..(n - 1) |-> items[i]]
      BY <1>3
    <3>4. QED
      BY <1>3, <3>2, <3>3
  <2>2. CASE PopCasWon
    <3>1. bottom' = age'.top /\ n = 1
      BY <1>2, <1>3, <2>2 DEF PopCasWon, bottom, NewAge, DequeInv, BufferInv, LocalsInv
    <3>2. items' = << >>
      BY <1>1, <3>1, ItemsNext
    <3>3. QED
      BY <1>3, <3>1, <3>2
  <2>3. QED
    BY <2>1, <2>2
<1>6. bottomResult = Pending /\ bottomResult' = job
  BY DEF bottomResult, PopKeep, PopCasWon
<1>7. topResult' = topResult
  BY DEF topResult, PopKeep, PopCasWon
<1>8. QED
  BY <1>4, <1>5, <1>6, <1>7 DEF WD!PopBottom

(* A store to bot by push_bottom, when it reaches memory, is the push; no  *)
(* other store changes the abstract deque.                                 *)
LEMMA RefineFlush ==
    ASSUME DequeInv, Flush
    PROVE  (\E j \in Jobs : WD!PushBottom(j)) \/ UNCHANGED WD!vars
<1> USE DEF owner, thief
<1>1. /\ UNCHANGED <<owner, thief>> /\ TypeOK /\ buffer # << >>
      /\ pc \in {"overflow", "push_fence", "pop_fence", "pop_cas", "reset"}
  BY FlushCases DEF Flush, DequeInv
<1>2. topResult' = topResult /\ bottomResult' = bottomResult
  BY <1>1 DEF topResult, bottomResult
<1> DEFINE n == Len(items)
<1>3. /\ items \in Seq(Jobs) /\ n \in Nat /\ n = bottom - age.top
      /\ \A i \in 1..n : items[i] = deq[age.top + i - 1]
  BY ItemsSeq
<1>4. bottom \in Nat /\ age.top \in Nat /\ bot \in Nat
  BY BottomBound DEF DequeInv, TypeOK, Ages
<1>5. CASE pc = "push_fence" /\ bot' # bot
  <2>1. /\ bottom = bot /\ bot = local_bot - 1 /\ local_bot \in Nat
        /\ bottom' = local_bot
        /\ deq[local_bot - 1] = job /\ UNCHANGED <<age, deq>>
    BY <1>1, <1>5, FlushCases DEF bottom, TypeOK
  <2>2. job \in Jobs
    BY <1>5 DEF DequeInv, LocalsInv
  <2>3. job \notin WD!Contents(items)
    <3>1. ASSUME NEW i \in 1..n PROVE items[i] # job
      <4>1. /\ age.top + i - 1 \in Slots
            /\ age.top <= age.top + i - 1 /\ age.top + i - 1 < bottom
        BY <1>3, <1>4, BottomBound, DequeAssumption DEF Slots
      <4>2. deq[age.top + i - 1] # job
        BY <1>5, <2>1, <4>1 DEF DequeInv, LocalsInv
      <4>3. QED
        BY <1>3, <4>2
    <3>2. QED
      BY <3>1 DEF WD!Contents
  <2>4. items' = Append(items, job)
    <3>1. items' \in Seq(Jobs) /\ Len(items') = n + 1
      BY <1>3, <1>4, <2>1, FlushInv, ItemsNext
    <3>2. \A i \in 1..(n + 1) : items'[i] = deq[age.top + i - 1]
      <4>1. bottom' - age'.top = n + 1
        BY <1>3, <1>4, <2>1
      <4>2. QED
        BY <2>1, <4>1 DEF items
    <3>3. items'[n + 1] = job
      <4>1. n + 1 \in 1..(n + 1) /\ age.top + (n + 1) - 1 = local_bot - 1
        BY <1>3, <1>4, <2>1
      <4>2. QED
        BY <2>1, <3>2, <4>1
    <3>4. \A i \in 1..n : items'[i] = items[i]
      BY <1>3, <3>2
    <3>5. QED
      BY <1>3, <2>2, <3>1, <3>3, <3>4, AppendIs
  <2>5. bottomResult # Pending
    BY <1>1, <1>5, DequeAssumption DEF bottomResult, TypeOK
  <2>6. QED
    BY <1>2, <2>2, <2>3, <2>4, <2>5 DEF WD!PushBottom
<1>6. CASE pc = "push_fence" /\ bot' = bot
  <2>1. bottom' = bottom /\ age' = age /\ deq' = [deq EXCEPT ![bottom] = job]
    BY <1>1, <1>6, FlushCases DEF bottom, TypeOK
  <2>2. bottom \in Int /\ bottom <= bottom
    BY <1>4
  <2>3. items' = items
    BY <2>1, <2>2, ItemsSlotAtBottom
  <2>4. QED
    BY <1>2, <2>3 DEF WD!vars
<1>7. CASE pc = "overflow"
  <2>1. /\ bottom' = bottom /\ age' = age /\ deq' = [deq EXCEPT ![QSize - 1] = job]
        /\ bottom <= QSize - 1
    BY <1>1, <1>7, FlushCases, BottomBound, DequeAssumption DEF bottom
  <2>2. QSize - 1 \in Int
    BY DequeAssumption
  <2>3. items' = items
    BY <2>1, <2>2, ItemsSlotAtBottom
  <2>4. QED
    BY <1>2, <2>3 DEF WD!vars
<1>8. CASE pc \in {"pop_fence", "pop_cas"}
  <2>1. bottom' = bottom /\ age' = age /\ deq' = deq
    BY <1>1, <1>8, FlushCases DEF bottom
  <2>2. QED
    BY <1>2, <2>1, ItemsSame DEF WD!vars
<1>9. CASE pc = "reset"
  <2>1. bottom = age.top /\ bottom' = age'.top
    BY <1>1, <1>9 DEF bottom
  <2>2. items = << >>
    BY <2>1, ItemsEmpty
  <2>3. items' = << >>
    BY <2>1, FlushInv, ItemsNext
  <2>4. QED
    BY <1>2, <2>2, <2>3 DEF WD!vars
<1>10. QED
  BY <1>1, <1>5, <1>6, <1>7, <1>8, <1>9

(* ------------------- A thief's steps, abstractly ------------------------ *)

LEMMA RefineStealLoadAge ==
    ASSUME DequeInv, NEW t \in Thieves, StealLoadAge(t) PROVE WD!CallPopTop(t)
<1> USE DEF memory, owner
<1>1. items' = items
  BY ItemsSame DEF StealLoadAge, bottom
<1>2. topResult[t] # Pending /\ topResult' = [topResult EXCEPT ![t] = Pending]
  <2>1. tpc[t] = "idle" /\ tresult[t] \in Jobs \cup {NullJob}
    BY DEF StealLoadAge, DequeInv, TypeOK
  <2>2. /\ tpc'[t] = "steal_bot"
        /\ \A u \in Thieves \ {t} : tpc'[u] = tpc[u] /\ tresult'[u] = tresult[u]
    BY DEF StealLoadAge, DequeInv, TypeOK
  <2>3. topResult[t] = tresult[t]
    BY <2>1 DEF topResult
  <2>4. topResult' = [topResult EXCEPT ![t] = Pending]
    BY <2>1, <2>2 DEF topResult
  <2>5. QED
    BY <2>1, <2>3, <2>4, DequeAssumption
<1>3. bottomResult' = bottomResult
  BY DEF bottomResult, StealLoadAge
<1>4. QED
  BY <1>1, <1>2, <1>3 DEF WD!CallPopTop

LEMMA RefineStealFails ==
    ASSUME DequeInv, NEW t \in Thieves,
           \/ StealLoadBot(t) /\ tpc'[t] = "idle"
           \/ StealCas(t) /\ age' = age
    PROVE  WD!PopTopGivesUp(t)
<1> USE DEF memory, owner
<1>1. items' = items
  BY ItemsSame DEF StealLoadBot, StealCas, bottom
<1>2. tresult' = tresult /\ tpc[t] # "idle" /\ tpc' = [tpc EXCEPT ![t] = "idle"]
  <2>1. CASE StealLoadBot(t) /\ tpc'[t] = "idle"
    BY <2>1 DEF StealLoadBot, DequeInv, TypeOK
  <2>2. CASE StealCas(t) /\ age' = age
    <3>1. age # told_age[t]
      BY <2>2 DEF StealCas, DequeInv, TypeOK, Ages
    <3>2. QED
      BY <2>2, <3>1 DEF StealCas
  <2>3. QED
    BY <2>1, <2>2
<1>3. topResult[t] = Pending /\ topResult' = [topResult EXCEPT ![t] = NullJob]
  BY <1>2 DEF topResult, DequeInv, TypeOK, ThiefInv
<1>4. bottomResult' = bottomResult
  BY DEF bottomResult, StealLoadBot, StealCas
<1>5. QED
  BY <1>1, <1>3, <1>4 DEF WD!PopTopGivesUp

LEMMA RefineStealStutter ==
    ASSUME DequeInv, NEW t \in Thieves,
           \/ StealLoadBot(t) /\ tpc'[t] # "idle"
           \/ StealLoadJob(t)
    PROVE  UNCHANGED WD!vars
<1> USE DEF memory, owner
<1>1. items' = items
  BY ItemsSame DEF StealLoadBot, StealLoadJob, bottom
<1>2. topResult' = topResult
  BY DEF topResult, StealLoadBot, StealLoadJob, DequeInv, TypeOK
<1>3. bottomResult' = bottomResult
  BY DEF bottomResult, StealLoadBot, StealLoadJob
<1>4. QED
  BY <1>1, <1>2, <1>3 DEF WD!vars

(* A successful compare_exchange is the steal of the oldest job.           *)
LEMMA RefineStealCas ==
    ASSUME DequeInv, NEW t \in Thieves, StealCas(t), age' # age PROVE WD!PopTop(t)
<1> USE DEF owner
<1> DEFINE n == Len(items)
<1>1. /\ age = told_age[t] /\ age' = [age EXCEPT !.top = @ + 1]
      /\ tresult' = [tresult EXCEPT ![t] = tjob[t]]
      /\ tpc[t] = "steal_cas" /\ tpc' = [tpc EXCEPT ![t] = "idle"]
      /\ UNCHANGED <<bot, deq, buffer, owner>>
      /\ TypeOK /\ age.top < bottom /\ tjob[t] = deq[age.top]
  BY DEF StealCas, DequeInv, ThiefInv
<1>2. age.top \in Nat /\ age'.top = age.top + 1 /\ bottom \in Nat
  BY <1>1, BottomBound DEF TypeOK, Ages
<1>3. bottom' = bottom
  BY <1>1, <1>2 DEF DequeInv, BufferInv, TypeOK, bottom
<1>4. /\ items \in Seq(Jobs) /\ n \in Nat \ {0} /\ n = bottom - age.top
      /\ \A i \in 1..n : items[i] = deq[age.top + i - 1]
  BY <1>1, <1>2, ItemsSeq
<1>5. items # << >> /\ Head(items) = tjob[t]
  <2>1. 1 \in 1..n /\ age.top + 1 - 1 = age.top
    BY <1>2, <1>4
  <2>2. items[1] = tjob[t]
    BY <1>1, <1>4, <2>1
  <2>3. QED
    BY <1>4, <2>2
<1>6. items' = Tail(items)
  <2>1. items' \in Seq(Jobs) /\ Len(items') = n - 1
    BY <1>2, <1>3, <1>4, StealCasInv, ItemsNext
  <2>2. \A i \in 1..(n - 1) : items'[i] = deq[age.top + 1 + i - 1]
    BY <1>1, <1>2, <1>3, <1>4 DEF items
  <2>3. ASSUME NEW i \in 1..(n - 1) PROVE items'[i] = items[i + 1]
    <3>1. i + 1 \in 1..n /\ age.top + (i + 1) - 1 = age.top + 1 + i - 1
      BY <1>2, <1>4, NextIndex
    <3>2. items[i + 1] = deq[age.top + (i + 1) - 1]
      BY <1>4, <3>1
    <3>3. QED
      BY <2>2, <3>1, <3>2
  <2>4. QED
    BY <1>4, <1>5, <2>1, <2>3, TailIs
<1>7. topResult[t] = Pending /\ topResult' = [topResult EXCEPT ![t] = tjob[t]]
  BY <1>1 DEF topResult, TypeOK
<1>8. bottomResult' = bottomResult
  BY <1>1 DEF bottomResult
<1>9. QED
  BY <1>5, <1>6, <1>7, <1>8 DEF WD!PopTop

LEMMA RefineStep == DequeInv /\ [Next]_vars => [WD!Next]_(WD!vars)
<1> SUFFICES ASSUME DequeInv, [Next]_vars PROVE WD!Next \/ UNCHANGED WD!vars
  OBVIOUS
<1>1. CASE OwnerStep
  BY <1>1, RefineOwnerStutter, RefineCallPopBottom, RefinePopBottomEmpty,
     RefinePopBottom DEF OwnerStep, WD!Next
<1>2. CASE Flush
  BY <1>2, RefineFlush DEF WD!Next
<1>3. ASSUME NEW t \in Thieves, ThiefStep(t)
      PROVE  WD!Next \/ UNCHANGED WD!vars
  <2>1. CASE StealLoadAge(t)
    BY <2>1, RefineStealLoadAge DEF WD!Next
  <2>2. CASE StealLoadBot(t)
    BY <2>2, RefineStealFails, RefineStealStutter DEF WD!Next
  <2>3. CASE StealLoadJob(t)
    BY <2>3, RefineStealStutter
  <2>4. CASE StealCas(t)
    BY <2>4, RefineStealFails, RefineStealCas DEF WD!Next
  <2>5. QED
    BY <1>3, <2>1, <2>2, <2>3, <2>4 DEF ThiefStep
<1>4. CASE UNCHANGED vars
  <2>1. items' = items
    BY <1>4, ItemsSame DEF vars, memory, owner, bottom
  <2>2. QED
    BY <1>4, <2>1 DEF vars, owner, thief, WD!vars, bottomResult, topResult
<1>5. QED
  BY <1>1, <1>2, <1>3, <1>4 DEF Next

(* The deque of scheduler.h implements the abstract deque: every pushed    *)
(* job is handed out at most once, the owner gets the youngest, a thief    *)
(* the oldest, and pop_bottom returns nullptr only from an empty deque.    *)
THEOREM Refinement == Spec => Implements
<1>1. Init => WD!Init
  BY RefineInit
<1>2. DequeInv /\ [Next]_vars => [WD!Next]_(WD!vars)
  BY RefineStep
<1>3. QED
  BY <1>1, <1>2, DequeInvariance, PTL DEF Spec, Implements, WD!Spec
=============================================================================
