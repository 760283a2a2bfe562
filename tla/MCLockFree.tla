------------------------------ MODULE MCLockFree ------------------------------
(***************************************************************************)
(* What threads share without a lock, on small instances: the stack with   *)
(* its hazard pointers ("stack"), the allocator of blocks whose global     *)
(* pool is such a stack ("blocks"), the allocator with a pool for each     *)
(* size ("pool") and the phase-concurrent hash table ("table").  One state *)
(* machine stands for all of them: the client is chosen at the start, and  *)
(* the others stay as they were initialized.                               *)
(***************************************************************************)
EXTENDS HazptrStack, PoolAllocator, HashTable, TLC

CONSTANTS
    list_length, MaxBlocks

VARIABLES
    client,
    blocksAllocated, buffers, link, lists, global, fresh, reserved, held            \* blocks

blockVars == <<blocksAllocated, buffers, link, lists, global, fresh, reserved, held>>

(* Bound: one hash function, with which all keys can be in one run, across *)
(* the end of the table, and one of them may not move back as the others.  *)
MCHashes == {[k \in Keys |-> IF k % 2 = 0 THEN m - 2 ELSE IF k = 1 THEN m - 1 ELSE 0]}

BlockList == INSTANCE BlockAllocator WITH
           Workers <- Threads, allocated <- blocksAllocated, local <- lists
ASSUME BlockList!BlockAllocatorAssumption

MCInit ==
    /\ client \in {"stack", "blocks", "pool", "table"}
    /\ Init /\ BlockList!BlockInit /\ PoolInit /\ TableInit
    /\ client # "blocks" => global[1] = 1 /\ global[2] = 1 + list_length

StackStep == client = "stack" /\ Next /\ UNCHANGED <<client, blockVars, poolVars, tableVars>>
BlockStep == client = "blocks" /\ BlockList!BlockNext /\ UNCHANGED <<client, vars, poolVars, tableVars>>
PoolStep  == client = "pool" /\ PoolNext /\ UNCHANGED <<client, vars, blockVars, tableVars>>
TableStep == client = "table" /\ TableNext /\ UNCHANGED <<client, vars, blockVars, poolVars>>

MCNext == StackStep \/ BlockStep \/ PoolStep \/ TableStep
MCSpec == MCInit /\ [][MCNext]_<<client, vars, blockVars, poolVars, tableVars>>

(* Parallel operations on the table are interchangeable, and so are nodes  *)
(* and values of the stack.  Operations and nodes have the same names, so  *)
(* that one set of permutations serves both.                               *)
Symmetry == Permutations(Nodes) \cup Permutations(Values)

-----------------------------------------------------------------------------
(* The properties of the allocators; those of the stack and of the hash    *)
(* table have the names that they have in HazptrStack and HashTable.       *)

(* The invariant of the block allocator's proof, with the list and the     *)
(* rank that each block has.                                               *)
BlockInvHolds ==
    LET chain == [l \in {BlockList!OfWorker(w) : w \in Threads}
                        \cup {BlockList!InList(h) : h \in BlockList!Shared} |->
                    IF l[1] = 1 THEN BlockList!Chain(lists[l[2]].head, lists[l[2]].sz)
                                ELSE BlockList!Chain(l[2], list_length)]
        list  == [a \in 1..blocksAllocated |->
                    CHOOSE l \in DOMAIN chain : a \in held \/ a \in ToSet(chain[l])]
        rank  == [a \in 1..blocksAllocated |->
                    IF a \in held THEN 0
                    ELSE Len(chain[list[a]]) + 1
                           - (CHOOSE k \in DOMAIN chain[list[a]] : chain[list[a]][k] = a)]
    IN  /\ BlockList!SharedOnce
        /\ BlockList!Placed(list, rank, blocksAllocated, link, held, lists, BlockList!Shared)

(* Every block of a block allocator is with one caller or once in one      *)
(* list, in lists of the lengths that the next to take them expects; and   *)
(* the blocks that it counts as used are those in use.  The memory that a  *)
(* caller gets from a pool lies in its block, behind its header, aligned;  *)
(* and every free block is as large as its pool's.                         *)
BlocksAccounted ==
    /\ client = "blocks" =>
         /\ BlockList!BlocksAccounted /\ BlockList!UsedIsHeld /\ BlockList!BuffersHoldAll
         /\ BlockInvHolds
    /\ client = "pool"   => BlockFits
-----------------------------------------------------------------------------
(* Two states are the same state to the search if they look the same here. *)
(* Blocks that are held, and those in the global pool, are equals, and the *)
(* counters of bytes and of the blocks of a pool only feed stats.  MidOf   *)
(* is how far into the list of worker w mid is, once it is used.           *)
MidOf(w) ==
    IF lists[w].sz <= list_length + 1 THEN 0
    ELSE CHOOSE k \in 1..lists[w].sz : BlockList!Chain(lists[w].head, lists[w].sz)[k] = lists[w].mid

View ==
    CASE client = "stack" -> <<client, vars>>
      [] client = "pool"  -> <<client, pool, inUse>>
      [] client = "table" -> <<client, tableVars>>
      [] OTHER ->
           <<client, blocksAllocated, buffers, [w \in Threads |-> <<lists[w].sz, MidOf(w)>>],
             Len(global), Cardinality(fresh), Cardinality(reserved), Cardinality(held),
             BlockList!BlocksAccounted>>
=============================================================================
