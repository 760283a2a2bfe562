----------------------------- MODULE MCForkJoin -----------------------------
(* A program for the fork-join scheduler, small enough for TLC.            *)
EXTENDS ForkJoin

(* A complete tree of three levels of pardos, numbered as a heap, and then *)
(* a second pardo in the frame of its root.                                *)
HeapTasks == 1..17
HeapPardos ==
    [t \in HeapTasks |->
        CASE t = 1 -> <<<<2, 3>>, <<16, 17>>>>
          [] t \in 2..7 -> <<<<2 * t, 2 * t + 1>>>>
          [] OTHER -> << >>]

(* Two tasks in different halves of the tree want the same mutex, and hold *)
(* it around a conservative pardo.                                         *)
LockUsers    == {4, 7}
UnderTheLock == {4, 7}
=============================================================================
