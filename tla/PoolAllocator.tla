---------------------------- MODULE PoolAllocator ----------------------------
(***************************************************************************)
(* The allocator of parlay/internal/pool_allocator.h, blocks from pools of *)
(* different sizes, and the ways into it of parlay/alloc.h: memory with a  *)
(* header (p_malloc, p_free) and without (allocator<T>).                   *)
(*                                                                         *)
(* A block is known by its real size and by its address modulo             *)
(* max_alignment.  Small pools are block_allocators, which BlockAllocator  *)
(* is about: here they hand out a free block or a new one.  A call is one  *)
(* step: its accesses to shared memory are a push or a pop and additions   *)
(* to counters.                                                            *)
(***************************************************************************)
EXTENDS Integers, Sequences, SequencesExt

CONSTANTS
    max_alignment,      \* 128
    large_threshold,    \* 2^18
    MaxPoolSize,        \* default_allocator_max_pool_size
    SizeMax,            \* a size_t counts modulo SizeMax + 1
    Sizes,              \* the sizes that callers ask for
    Aligns,             \* and the alignments of p_malloc
    MaxHeld, MaxFree    \* bounds: blocks in use, and free blocks in a pool

HeaderSize == 8

log2_up(x) == CHOOSE a \in 0..x : 2^a >= x /\ (a = 0 \/ 2^(a - 1) < x)

(* default_allocator_sizes: powers of two from 16 on.                      *)
sizes(b)    == 2^(b + 3)
num_buckets == log2_up(MaxPoolSize) - 3
num_small   == Cardinality({b \in 1..num_buckets : sizes(b) < large_threshold})
max_small   == IF num_small > 0 THEN sizes(num_small) ELSE 0
max_size    == sizes(num_buckets)

Bucket(n) == CHOOSE b \in 1..num_buckets :
               n <= sizes(b) /\ \A a \in 1..(b - 1) : n > sizes(a)

VARIABLES
    pool,               \* per bucket, the free blocks, latest first
    inUse,              \* the blocks that callers have, with their requests
    blocks,             \* per small bucket, num_allocated_blocks
    large_allocated, large_used

poolVars == <<pool, inUse, blocks, large_allocated, large_used>>

Block(size, addr) == [size |-> size, addr |-> addr]

PoolInit ==
    /\ pool = [b \in 1..num_buckets |-> <<>>]
    /\ inUse = <<>>
    /\ blocks = [b \in 1..num_small |-> 0]
    /\ large_allocated = 0 /\ large_used = 0

Plus(x, y)  == (x + y) % (SizeMax + 1)
Minus(x, y) == (x - y) % (SizeMax + 1)

RoundedUp(n) == n + ((max_alignment - (n % max_alignment)) % max_alignment)

(* Blocks of a small pool lie one after the other in an aligned buffer.    *)
SmallAddresses(b) == {k * sizes(b) : k \in 0..((max_alignment - 1) \div sizes(b))}

-----------------------------------------------------------------------------
(* allocate(n): the block it returns, and what it changes.                *)

MayReturn(n) ==
    CASE n > max_size -> {Block(RoundedUp(n), 0)}
      [] n <= max_size /\ pool[Bucket(n)] # <<>> -> {Head(pool[Bucket(n)])}
      [] n <= max_small /\ pool[Bucket(n)] = <<>> ->
           {Block(sizes(Bucket(n)), a) : a \in SmallAddresses(Bucket(n))}
      [] n > max_small /\ n <= max_size /\ pool[Bucket(n)] = <<>> ->
           {Block(RoundedUp(sizes(Bucket(n))), 0)}

PopPool(b) == pool' = IF pool[b] # <<>> THEN [pool EXCEPT ![b] = Tail(@)] ELSE pool

(* alloc of the block_allocator of a small bucket.                         *)
AllocateSmall(n) ==
    /\ n <= max_small
    /\ PopPool(Bucket(n))
    /\ blocks' = IF pool[Bucket(n)] # <<>> THEN blocks ELSE [blocks EXCEPT ![Bucket(n)] = @ + 1]
    /\ UNCHANGED <<large_allocated, large_used>>

AllocatePooled(n) ==
    /\ n > max_small /\ n <= max_size
    /\ large_used' = Plus(large_used, n)
    /\ PopPool(Bucket(n))
    /\ large_allocated' = IF pool[Bucket(n)] # <<>> THEN large_allocated
                                                   ELSE Plus(large_allocated, n)
    /\ UNCHANGED blocks

AllocateDirect(n) ==
    /\ n > max_size
    /\ large_used' = Plus(large_used, n)
    /\ large_allocated' = Plus(large_allocated, n)
    /\ UNCHANGED <<pool, blocks>>

allocate(n) == AllocateSmall(n) \/ AllocatePooled(n) \/ AllocateDirect(n)

(* deallocate(block, n).                                                   *)
deallocate(block, n) ==
    /\ pool' = IF n <= max_size THEN [pool EXCEPT ![Bucket(n)] = <<block>> \o @] ELSE pool
    /\ large_used' = IF n > max_small THEN Minus(large_used, n) ELSE large_used
    /\ large_allocated' = IF n > max_size THEN Minus(large_allocated, n) ELSE large_allocated
    /\ UNCHANGED blocks

-----------------------------------------------------------------------------
(* The callers.                                                            *)

(* allocator<T>: the block is used from its start, and given back with the *)
(* size it was asked for, a multiple of the alignment of T.                *)
AlignOf(n) == CHOOSE a \in {2^k : k \in 0..log2_up(max_alignment)} :
                /\ n % a = 0
                /\ n = 0 => a = 1
                /\ 2 * a > max_alignment \/ n % (2 * a) # 0 \/ n = 0
Allocate(n) ==
    /\ Len(inUse) < MaxHeld
    /\ allocate(n)
    /\ \E block \in MayReturn(n) :
         inUse' = Append(inUse, [block |-> block, n |-> n, header |-> 0, from |-> 0, length |-> n,
                                 align |-> AlignOf(n), back |-> n])

alloc_padding_size(n) ==
    CASE n >= 1024                     -> 64
      [] n < 1024 /\ n % 16 # 0        -> 8
      [] n < 1024 /\ n % 16 = 0 /\ n % 64 # 0 -> 16
      [] OTHER                         -> 64

PaddedTo(size, align) == IF alloc_padding_size(size) < align THEN align
                                                             ELSE alloc_padding_size(size)

(* std::align: the first address after the header that is aligned to pad.  *)
OffsetOf(addr, pad) == CHOOSE o \in HeaderSize..(HeaderSize + pad - 1) : (addr + o) % pad = 0

(* p_malloc: the header in front of the memory keeps the offset and        *)
(* log_size, from which p_free gives back.  max_alignment of the model may *)
(* be less than the alignment asked for: then higher bits of the address   *)
(* are unknown.                                                            *)
p_malloc(size, align) ==
    /\ Len(inUse) < MaxHeld
    /\ LET pad  == PaddedTo(size, align)
           n    == size + pad
           high == {h \in 0..(pad - 1) : h % max_alignment = 0}
           back == 2^log2_up(n)
       IN  /\ allocate(n)
           /\ \E block \in MayReturn(n), h \in high :
                inUse' = Append(inUse,
                  [block |-> block, n |-> n, header |-> HeaderSize, from |-> OffsetOf(block.addr + h, pad),
                   length |-> size, align |-> 1, back |-> back])

Deallocate(k) ==                       \* p_free, or allocator<T>::deallocate
    /\ inUse' = RemoveAt(inUse, k)
    /\ deallocate(inUse[k].block, inUse[k].back)

(* reserve: as many blocks of the largest small pool as fit, and back.     *)
reserve(bytes) ==
    /\ max_small > 0
    /\ LET count   == bytes \div max_small
           missing == IF count > Len(pool[num_small]) THEN count - Len(pool[num_small]) ELSE 0
       IN  /\ \E as \in [1..missing -> SmallAddresses(num_small)] :
                pool' = [pool EXCEPT ![num_small] =
                          @ \o [i \in 1..missing |-> Block(max_small, as[i])]]
           /\ blocks' = [blocks EXCEPT ![num_small] = @ + missing]
    /\ UNCHANGED <<inUse, large_allocated, large_used>>

(* clear frees what is in the large pools.                                 *)
LargeSum == FoldSeq(LAMBDA b, sum : sum + Len(pool[b]) * sizes(b), 0,
                    [i \in 1..(num_buckets - num_small) |-> num_small + i])
clear ==
    /\ pool' = [b \in 1..num_buckets |-> IF b > num_small THEN <<>> ELSE pool[b]]
    /\ large_allocated' = Minus(large_allocated, LargeSum)
    /\ UNCHANGED <<inUse, blocks, large_used>>

(* Bound: a pool has at most MaxFree free blocks.                          *)
PoolNext ==
    /\ \/ \E n \in Sizes : Allocate(n)
       \/ \E n \in Sizes, align \in Aligns : p_malloc(n, align)
       \/ \E k \in DOMAIN inUse : Deallocate(k)
       \/ reserve(2 * max_small)
       \/ clear
    /\ \A b \in 1..num_buckets : Len(pool'[b]) <= MaxFree

-----------------------------------------------------------------------------
(* Properties.                                                             *)

(* Whatever was allocated and freed before, with a header or without: a    *)
(* caller's memory lies inside its block, behind the header if there is    *)
(* one, and is aligned for a T; and a free block is as large as its pool's. *)
BlockFits ==
    /\ \A k \in DOMAIN inUse :
         LET u == inUse[k] IN
         /\ u.from + u.length <= u.block.size
         /\ u.from >= u.header
         /\ u.block.addr % u.align = 0
    /\ \A b \in 1..num_buckets : \A i \in DOMAIN pool[b] : pool[b][i].size >= sizes(b)
=============================================================================
