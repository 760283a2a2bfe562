--------------------------- MODULE BlockAllocator ---------------------------
(***************************************************************************)
(* The concurrent allocator of equal blocks of                             *)
(* parlay/internal/block_allocator.h: a list of free blocks for each       *)
(* worker, and a global pool of lists of list_length blocks, which is the  *)
(* lock-free stack of HazptrStack and here its specification, a sequence.  *)
(*                                                                         *)
(* What a call does to the list of the worker that runs it is one step     *)
(* with its push or pop.  Where a call runs a parallel loop, to link the   *)
(* blocks of a new list, it may go on as another worker, and its first     *)
(* worker may have run other calls.                                        *)
(***************************************************************************)
EXTENDS Integers, Sequences, FiniteSets, SequencesExt

CONSTANTS
    Workers,
    list_length,
    MaxBlocks       \* bound: max_blocks, how many blocks there ever are

Blocks  == 1..MaxBlocks
nullptr == 0

VARIABLES
    allocated,      \* blocks_allocated: blocks 1..allocated have memory
    buffers,        \* allocated_buffers: the sizes of the buffers they are in
    link,           \* the field next of a free block
    local,          \* local_lists: [sz, head, mid]
    global,         \* the heads of the lists in the global pool, latest first
    fresh,          \* heads of new lists in the hands of a call to alloc
    reserved,       \* heads of lists that reserve is about to push
    held            \* the blocks that callers have

blockVars == <<allocated, buffers, link, local, global, fresh, reserved, held>>

(* initialize_list for each of the lists in the blocks after the first.    *)
Initialized(first, lists) ==
    [a \in Blocks |-> IF a > first /\ a <= first + lists * list_length
                        THEN IF (a - first) % list_length = 0 THEN nullptr ELSE a + 1
                        ELSE link[a]]
HeadsOf(first, lists) == {first + 1 + i * list_length : i \in 0..(lists - 1)}

(* The constructor reserves a list for every worker.                       *)
NumLists(blocks) == Cardinality(Workers) + (blocks + list_length - 1) \div list_length

BlockInit ==
    LET lists == NumLists(0) IN
    /\ allocated = lists * list_length
    /\ buffers = <<allocated>>
    /\ link = [a \in Blocks |-> IF a > allocated \/ a % list_length = 0 THEN nullptr ELSE a + 1]
    /\ local = [w \in Workers |-> [sz |-> 0, head |-> nullptr, mid |-> nullptr]]
    /\ global \in SetToSeqs({1 + i * list_length : i \in 0..(lists - 1)})
    /\ fresh = {} /\ reserved = {} /\ held = {}

(* allocate_blocks and the lists in them.                                  *)
AllocateBlocks(lists) ==
    /\ allocated + lists * list_length <= MaxBlocks
    /\ allocated' = allocated + lists * list_length
    /\ buffers' = <<lists * list_length>> \o buffers
    /\ link' = Initialized(allocated, lists)

-----------------------------------------------------------------------------
(* The end of alloc: take the first block of the list l.                   *)
Take(w, l, pool) ==
    /\ held' = held \cup {l.head}
    /\ local' = [local EXCEPT ![w] = [l EXCEPT !.head = link[l.head], !.sz = @ - 1]]
    /\ global' = pool

WithList(l, head) == [l EXCEPT !.head = head, !.sz = list_length]

AllocLocal(w) ==
    /\ local[w].sz > 0
    /\ Take(w, local[w], global)
    /\ UNCHANGED <<allocated, buffers, link, fresh, reserved>>

(* get_list takes a list from the global pool.                             *)
AllocGlobal(w) ==
    /\ local[w].sz = 0 /\ global # <<>>
    /\ Take(w, WithList(local[w], Head(global)), Tail(global))
    /\ UNCHANGED <<allocated, buffers, link, fresh, reserved>>

(* get_list makes a new list.  The call is then in no worker's hands.      *)
AllocFresh(w) ==
    /\ local[w].sz = 0 /\ global = <<>>
    /\ AllocateBlocks(1)
    /\ fresh' = fresh \cup {allocated + 1}
    /\ UNCHANGED <<local, global, reserved, held>>

ResumeNoCheck(w, head) ==              \* mutant: the list it saw empty still is
    /\ head \in fresh
    /\ fresh' = fresh \ {head}
    /\ Take(w, WithList(local[w], head), global)
    /\ UNCHANGED <<allocated, buffers, link, reserved>>

(* It goes on as worker w, whose list may have blocks by now.              *)
Resume(w, head) ==
    /\ head \in fresh
    /\ fresh' = fresh \ {head}
    /\ IF local[w].sz = 0 THEN Take(w, WithList(local[w], head), global)
                          ELSE Take(w, local[w], <<head>> \o global)
    /\ UNCHANGED <<allocated, buffers, link, reserved>>

(* A list that has grown to twice list_length gives its last blocks, those *)
(* after mid, to the global pool.                                          *)
Full(l) == l.sz = 2 * list_length

free(w, b) ==
    /\ b \in held
    /\ held' = held \ {b}
    /\ LET l    == local[w]
           give == l.sz # list_length + 1 /\ Full(l)
       IN  /\ global' = IF give THEN <<link[l.mid]>> \o global ELSE global
           /\ local' = [local EXCEPT ![w] =
                [sz   |-> IF give THEN list_length + 1 ELSE l.sz + 1,
                 head |-> b,
                 mid  |-> IF l.sz = list_length + 1 THEN l.head ELSE l.mid]]
           /\ link' = [a \in Blocks |-> CASE a = b              -> l.head
                                          [] give /\ a = l.mid  -> nullptr
                                          [] OTHER              -> link[a]]
    /\ UNCHANGED <<allocated, buffers, fresh, reserved>>

(* reserve: its lists are pushed by the iterations of a parallel loop.     *)
reserve(blocks) ==
    /\ reserved = {}
    /\ AllocateBlocks(NumLists(blocks))
    /\ reserved' = HeadsOf(allocated, NumLists(blocks))
    /\ UNCHANGED <<local, global, fresh, held>>

PushReserved(head) ==
    /\ head \in reserved
    /\ reserved' = reserved \ {head}
    /\ global' = <<head>> \o global
    /\ UNCHANGED <<allocated, buffers, link, local, fresh, held>>

-----------------------------------------------------------------------------
(* The sum of all sz, as the number of places in the local lists.          *)
SizesSum == Cardinality(UNION {{w} \X (1..local[w].sz) : w \in Workers})
num_used_blocks == allocated - (Len(global) * list_length + SizesSum)

(* clear, which no other call may run with: nothing happens if a block is  *)
(* in use.                                                                 *)
clear ==
    /\ fresh = {} /\ reserved = {}
    /\ num_used_blocks = 0
    /\ local' = [w \in Workers |-> [local[w] EXCEPT !.sz = 0]]
    /\ allocated' = 0 /\ buffers' = <<>> /\ global' = <<>>
    /\ UNCHANGED <<link, fresh, reserved, held>>

Alloc(w) == AllocLocal(w) \/ AllocGlobal(w) \/ AllocFresh(w)

BlockNext ==
    \/ \E w \in Workers :
         \/ Alloc(w)
         \/ \E head \in fresh : Resume(w, head)
         \/ \E b \in held : free(w, b)
    \/ reserve(0) \/ \E head \in reserved : PushReserved(head)
    \/ clear

BlockSpec == BlockInit /\ [][BlockNext]_blockVars

-----------------------------------------------------------------------------
(* Properties.                                                             *)

After(a) == IF a = nullptr THEN nullptr ELSE link[a]

(* The first k blocks that hang together from head on; a chain that ends   *)
(* early goes on with nullptr.                                             *)
Chain(head, k) ==
    LET at[i \in 1..k] == IF i = 1 THEN head ELSE After(at[i - 1])
    IN  at

(* Every list there is, with the blocks it is to have.                     *)
FreeLists ==
    {Chain(head, list_length) : head \in ToSet(global) \cup fresh \cup reserved}
    \cup {Chain(local[w].head, local[w].sz) : w \in Workers}

(* Every block is in one place: with a caller, or once in one list.        *)
(* Whoever takes list_length blocks from the pool finds them linked, and   *)
(* mid has list_length blocks behind it when it is used.                   *)
BlocksAccounted ==
    /\ \A l \in FreeLists : IsInjective(l) /\ ToSet(l) \cap held = {}
    /\ \A l1, l2 \in FreeLists : l1 = l2 \/ ToSet(l1) \cap ToSet(l2) = {}
    /\ held \cup UNION {ToSet(l) : l \in FreeLists} = 1..allocated
    /\ Cardinality(ToSet(global) \cup fresh \cup reserved)
         = Len(global) + Cardinality(fresh) + Cardinality(reserved)

(* num_used_blocks counts the blocks that callers have, and those in lists *)
(* on their way; so clear never frees a block that is in use, and a caller *)
(* that has given all back can clear.                                      *)
UsedIsHeld ==
    num_used_blocks = Cardinality(held) + list_length * Cardinality(fresh \cup reserved)

(* allocated_buffers has all the memory that clear is to give back.        *)
BuffersHoldAll == FoldSeq(+, 0, buffers) = allocated

-----------------------------------------------------------------------------
(* The inductive invariant.                                                *)

(* There is a worker or more, a list is not empty, and the lists that the  *)
(* constructor makes fit.                                                  *)
BlockAllocatorAssumption ==
    /\ IsFiniteSet(Workers) /\ list_length \in Nat \ {0} /\ MaxBlocks \in Nat
    /\ NumLists(0) * list_length <= MaxBlocks

Shared == ToSet(global) \cup fresh \cup reserved

BlockTypeOK ==
    /\ allocated \in 0..MaxBlocks
    /\ link \in [Blocks -> 0..MaxBlocks]
    /\ local \in [Workers -> [sz : Nat, head : 0..MaxBlocks, mid : 0..MaxBlocks]]
    /\ global \in Seq(Blocks) /\ Shared \subseteq Blocks
    /\ held \subseteq 1..allocated

(* A list on its way is in one place, and once.                            *)
SharedOnce ==
    /\ IsInjective(global)
    /\ ToSet(global) \cap fresh = {} /\ ToSet(global) \cap reserved = {}
    /\ fresh \cap reserved = {}

(* The lists that blocks can be in: a worker's, or the one from a head on. *)
OfWorker(w)  == <<1, w>>
InList(head) == <<2, head>>

(* Each of n blocks is in a list, at a place counted from its end, or used *)
(* (rank 0).  No two are at the same place, and links lead to the next.    *)
Ranked(list, rank, n, lk, used, heads) ==
    /\ list \in [1..n -> {OfWorker(w) : w \in Workers} \cup {InList(h) : h \in heads}]
    /\ rank \in [1..n -> Nat]
    /\ \A a \in 1..n : rank[a] = 0 <=> a \in used
    /\ \A a, b \in 1..n : list[a] = list[b] /\ rank[a] = rank[b] /\ rank[a] # 0 => a = b
    /\ \A a \in 1..n : rank[a] > 1 =>
         lk[a] \in 1..n /\ list[lk[a]] = list[a] /\ rank[lk[a]] = rank[a] - 1

(* l is the list of worker w: its head is the first block, and its mid has *)
(* list_length blocks behind it when it will be used.                      *)
WorkerList(list, rank, n, l, w) ==
    /\ \A a \in 1..n : list[a] = OfWorker(w) => rank[a] <= l.sz
    /\ l.sz > 0 => l.head \in 1..n /\ list[l.head] = OfWorker(w) /\ rank[l.head] = l.sz
    /\ l.sz > list_length + 1 =>
         l.mid \in 1..n /\ list[l.mid] = OfWorker(w) /\ rank[l.mid] = list_length + 1

(* From h on there are list_length blocks.                                 *)
HeadList(list, rank, n, h) ==
    /\ \A a \in 1..n : list[a] = InList(h) => rank[a] <= list_length
    /\ h \in 1..n /\ list[h] = InList(h) /\ rank[h] = list_length

(* loc are the lists of the workers, heads those of the other lists.       *)
Placed(list, rank, n, lk, used, loc, heads) ==
    /\ Ranked(list, rank, n, lk, used, heads)
    /\ \A w \in Workers : WorkerList(list, rank, n, loc[w], w)
    /\ \A h \in heads : HeadList(list, rank, n, h)

BlockInv ==
    /\ BlockTypeOK /\ SharedOnce
    /\ \E list, rank : Placed(list, rank, allocated, link, held, local, Shared)
=============================================================================
