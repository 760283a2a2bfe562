---------------------------- MODULE ParallelLoops -----------------------------
(***************************************************************************)
(* parallel_for of every scheduler plugin: how a loop over start..end-1 is *)
(* cut into tasks.  A loop is the sequence of the indices that it calls f  *)
(* on, its tasks one after the other, whatever the order they run in.      *)
(* What cilk_for, an OpenMP taskloop or a TBB loop do inside (each of      *)
(* their iterations once) is external.                                     *)
(***************************************************************************)
EXTENDS Integers, Sequences, FiniteSets, SequencesExt

CONSTANTS MAXGRAINSIZE,
          processors     \* bound: the largest number of workers tried

(* The loop for (i = start; i < end; i++) f(i).                            *)
serial(start, end) == [i \in 1..(end - start) |-> start + i - 1]

Tasks(seqs) == FlattenSeq(seqs)

CeilDiv(a, b) == (a + b - 1) \div b

-----------------------------------------------------------------------------
(* scheduler.h, and with the same split cilkplus.h and opencilk.h.         *)

SplitPoint(start, end) == start + (9 * (end - start + 1)) \div 16

RECURSIVE parfor_(_, _, _)
parfor_(start, end, granularity) ==
    IF end - start <= granularity THEN serial(start, end)
    ELSE LET mid == SplitPoint(start, end) IN
         parfor_(start, mid, granularity) \o parfor_(mid, end, granularity)

(* How far the timed loop may come: it doubles its step until a step took  *)
(* long enough, and stops at the end.                                      *)
get_granularity(start, end) ==
    {IF 2^steps - 1 < end - start THEN 2^steps - 1 ELSE end - start : steps \in 1..(end - start)}

(* The loops it may be, one for each outcome of the timing.                *)
parfor(start, end, granularity, num_threads) ==
    IF end <= start THEN {<< >>}
    ELSE IF granularity # 0 THEN {parfor_(start, end, granularity)}
    ELSE {LET d   == done
              div == (end - start) \div (128 * num_threads)
          IN  serial(start, start + d) \o parfor_(start + d, end, IF d > div THEN d ELSE div)
          : done \in get_granularity(start, end)}

CilkPlusFor(start, end, granularity) ==
    IF granularity = 0 THEN serial(start, end) ELSE parfor_(start, end, granularity)

-----------------------------------------------------------------------------
(* omp.h, tbb.h and sequential.h.                                          *)

OmpFor(start, end, granularity) == serial(start, end)

TbbFor(start, end, granularity) ==
    IF end <= start THEN << >>
    ELSE IF granularity = 0 THEN serial(start, end)
    ELSE LET n_blocks   == CeilDiv(end - start, granularity)
             size       == CeilDiv(end - start, n_blocks)
             First(b)   == b * size + start
             End(b)     == IF First(b + 1) < end THEN First(b + 1) ELSE end
         IN  Tasks([b \in 1..n_blocks |-> serial(First(b - 1), End(b - 1))])

SequentialFor(start, end, granularity) == serial(start, end)

-----------------------------------------------------------------------------
(* opencilk.h.                                                             *)

RECURSIVE parallel_for_recurse(_, _, _)
parallel_for_recurse(start, end, granularity) ==
    IF end - start <= granularity THEN serial(start, end)
    ELSE LET mid == start + (end - start) \div 2 IN
         parallel_for_recurse(start, mid, granularity) \o parallel_for_recurse(mid, end, granularity)

WholeRows(start, end, granularity) ==     \* mutant: no loop for what is left over
    Tasks([i \in 1..((end - start) \div granularity) |->
             serial(start + granularity * (i - 1), start + granularity * i)])

parallel_for_seq(start, end, granularity) ==
    LET len_g == (end - start) \div granularity
        Row(i) == start + granularity * i
    IN  Tasks([i \in 1..len_g |-> serial(Row(i - 1), Row(i - 1) + granularity)])
          \o serial(start + granularity * len_g, end)

RECURSIVE parallel_for_recurse_seq2(_, _, _, _)
parallel_for_recurse_seq2(start, end, granularity, threshold) ==
    IF end - start <= threshold THEN parallel_for_seq(start, end, granularity)
    ELSE LET mid == start + (end - start) \div 2 IN
         parallel_for_recurse_seq2(start, mid, granularity, threshold)
           \o parallel_for_recurse_seq2(mid, end, granularity, threshold)

(* What each worker does with its range, by how opencilk.h was built.      *)
RunRange(build, start, end, granularity, thres) ==
    CASE build = "DELEGATEPRC" -> parallel_for_recurse(start, end, granularity)
      [] build = "DELEGATEPRL" -> parallel_for_seq(start, end, granularity)
      [] build = "DELEGATEPRCPRL" /\ thres > granularity ->
           parallel_for_recurse_seq2(start, end, granularity, thres)
      [] build = "DELEGATEPRCPRL" /\ thres <= granularity ->
           parallel_for_recurse(start, end, granularity)

(* The ranges of parallel_for_static: that of the caller, worker 0, and,   *)
(* in parallel_for_static_wrapper, those of the workers it sends to.       *)
StaticRange(threadId, start, end, num_workers) ==
    LET size     == end - start
        few      == size < num_workers
        nWorkers == IF few THEN size ELSE num_workers
        static   == IF few THEN 1 ELSE size \div num_workers
        remain   == IF few THEN 0 ELSE size - num_workers * static
        start_par_l == IF threadId <= remain
                       THEN start + threadId * (static + 1)
                       ELSE start + remain * (static + 1) + (threadId - remain) * static
        longer   == IF threadId < remain THEN 1 ELSE 0
    IN  IF threadId >= nWorkers THEN << >>
        ELSE IF threadId = 0 THEN <<start, start + static + longer>>
        ELSE <<start_par_l, IF threadId = nWorkers - 1 THEN end ELSE start_par_l + static + longer>>

(* Of worker 0 the threshold comes from static_range without the remainder. *)
parallel_for_static(build, start, end, granularity, num_workers) ==
    Tasks([w \in 1..num_workers |->
      LET r     == StaticRange(w - 1, start, end, num_workers)
          whole == IF w > 1 THEN r[2] - r[1]
                   ELSE IF end - start < num_workers THEN 1 ELSE (end - start) \div num_workers
      IN  IF r = << >> THEN << >>
          ELSE RunRange(build, r[1], r[2], granularity, whole \div num_workers)])

(* The grain that a loop without one gets.                                 *)
DefaultGrain(len, num_workers) ==
    LET small == CeilDiv(len, 8 * num_workers) IN
    IF small > MAXGRAINSIZE THEN MAXGRAINSIZE ELSE small

OpenCilkDefault(start, end, granularity) ==
    IF granularity = 0 THEN serial(start, end) ELSE parfor_(start, end, granularity)

OpenCilkPRC(start, end, granularity, num_workers) ==
    IF granularity = 0
    THEN parallel_for_recurse(start, end, DefaultGrain(end - start, num_workers))
    ELSE parfor_(start, end, granularity)

(* idle: no loop is delegated yet, and this is worker 0.                   *)
Delegate(build, start, end, granularity, num_workers, idle) ==
    LET len   == end - start
        grain == IF granularity = 0 THEN DefaultGrain(len, num_workers) ELSE granularity
    IN  IF len <= grain THEN serial(start, end)
        ELSE IF idle THEN parallel_for_static(build, start, end, grain, num_workers)
        ELSE RunRange(build, start, end, grain, len \div ((num_workers + 2) \div 2))

DelegatePRC(start, end, granularity, num_workers, idle) ==
    Delegate("DELEGATEPRC", start, end, granularity, num_workers, idle)
DelegatePRL(start, end, granularity, num_workers, idle) ==
    Delegate("DELEGATEPRL", start, end, granularity, num_workers, idle)
DelegatePRCPRL(start, end, granularity, num_workers, idle) ==
    Delegate("DELEGATEPRCPRL", start, end, granularity, num_workers, idle)

-----------------------------------------------------------------------------
(* However a loop is cut, by whichever plugin, with whatever granularity   *)
(* and on however many workers: f is called once on each index, no index   *)
(* in two tasks, none left out.                                            *)
OnceEach(calls, start, end) ==
    Len(calls) = end - start /\ ToSet(calls) = start..(end - 1)

Loops(start, end, g) ==
    {CilkPlusFor(start, end, g), OmpFor(start, end, g), TbbFor(start, end, g),
     SequentialFor(start, end, g), OpenCilkDefault(start, end, g)}
    \cup UNION {parfor(start, end, g, w) \cup {OpenCilkPRC(start, end, g, w)} : w \in 1..processors}
    \cup UNION {{DelegatePRC(start, end, g, w, idle), DelegatePRL(start, end, g, w, idle),
                 DelegatePRCPRL(start, end, g, w, idle)} : w \in 1..processors, idle \in BOOLEAN}

LoopRunsOnce(start, end, g) == \A calls \in Loops(start, end, g) : OnceEach(calls, start, end)
=============================================================================
