------------------------------- MODULE Grouping -------------------------------
(***************************************************************************)
(* internal/collect_reduce.h and internal/group_by.h: combining the        *)
(* elements of each key, for keys that are indices and for keys that are   *)
(* hashed, with the sequential tables, the partition into blocks and the   *)
(* treatment of keys that are frequent in a sample.                        *)
(*                                                                         *)
(* An element is a key and a value.  What is done with the values depends  *)
(* on the caller, whose helper is given by its name.                       *)
(***************************************************************************)
EXTENDS Sorting

CONSTANTS
    CR_SEQ_THRESHOLD, CR_SPARSE_THRESHOLD,
    few_work, few_blocks,       \* 64 elements per bucket and block; 4 blocks per worker
    few_buckets,                \* 4 buckets per block, below which it is collect_reduce_few
    least_bits, block_elements, \* 4, and the elements that fit a thread's share of the cache
    copy_cutoff,                \* 5
    line_keys                   \* 16: keys that share a cache line, and so a hash value

-----------------------------------------------------------------------------
(* The helpers of group_by.h.  The free monoid stands for all monoids.     *)
init(helper) ==
    CASE helper \in {"reduce_by_index", "group_by_index"} -> << >>
      [] helper = "histogram_by_index"                    -> 0
      [] helper = "remove_duplicate_integers"             -> FALSE

get_val(helper, a) ==
    CASE helper \in {"reduce_by_index", "group_by_index"} -> <<a[2]>>
      [] helper = "histogram_by_index"                    -> 1
      [] helper = "remove_duplicate_integers"             -> TRUE

update(helper, d, v) ==
    CASE helper \in {"reduce_by_index", "group_by_index"} -> d \o v
      [] helper = "histogram_by_index"                    -> d + v
      [] helper = "remove_duplicate_integers"             -> TRUE

(* combine is given a block whose elements all have the key of d.          *)
combine(helper, block) ==
    CASE helper \in {"reduce_by_index", "group_by_index"} -> [i \in DOMAIN block |-> block[i][2]]
      [] helper = "histogram_by_index"                    -> Len(block)
      [] helper = "remove_duplicate_integers"             -> TRUE

-----------------------------------------------------------------------------
(* collect_reduce.h, keys that are indices.                                *)
Collected(A, helper, k) ==
    FoldLeft(LAMBDA d, a : update(helper, d, get_val(helper, a)), init(helper), KeyIs(A, k))

seq_collect_reduce(A, helper, num_buckets) == [k \in 1..num_buckets |-> Collected(A, helper, k - 1)]

(* The results of the blocks are combined as if each were a value.  Those  *)
(* of blocks that do not exist, there being fewer than num_blocks_, are    *)
(* read from empty sequences.                                              *)
collect_reduce_few(A, helper, num_buckets) ==
    LET n   == Len(A)
        num_blocks_ == Minimum(few_blocks * num_threads, (n \div num_buckets) \div few_work) + 1
        bs  == sliced_for(n, (n - 1) \div num_blocks_ + 1)
        Out == [i \in DOMAIN bs |-> seq_collect_reduce(InBlock(A, bs[i]), helper, num_buckets)]
    IN  IF n < CR_SEQ_THRESHOLD \/ num_blocks_ = 1 \/ num_threads = 1
        THEN seq_collect_reduce(A, helper, num_buckets)
        ELSE [k \in 1..num_buckets |->
                IF Len(bs) < num_blocks_ THEN Torn
                ELSE FoldLeft(LAMBDA d, o : update(helper, d, o[k]), init(helper), Out)]

(* A table of keys with open addressing: where key is, or would go.        *)
RECURSIVE Probe(_, _, _, _)
Probe(table, key, at, size) ==
    IF table[at].n = -1 \/ table[at].key = key THEN at ELSE Probe(table, key, (at + 1) % size, size)

NoEntry == [key |-> 0, n |-> -1]

(* The bucket of key k: its own, or one of those that are nobody's own.    *)
BucketOf(final, k, hash, num_buckets) ==
    LET h == final.table[hash % Cardinality(DOMAIN final.table)]
        b == hash % num_buckets
    IN  IF final.heavy > 0 /\ h.n # -1 /\ h.key = k THEN h.n
        ELSE IF final.heavy > 0 /\ b < final.heavy THEN (b % (num_buckets - final.heavy)) + final.heavy
        ELSE b

(* The buckets for keys: those that are frequent among the samples get one *)
(* of their own, the first ones, unless another has their place in the     *)
(* table.                                                                  *)
get_bucket(A, hashOf, bits) ==
    LET num_buckets == 2^bits
        table_size  == 4 * num_buckets
        samples     == [i \in 1..num_buckets |-> A[(hash64[i] % Len(A)) + 1][1]]
        Insert(t, k) ==
            LET at == Probe(t, k, hashOf[k] % table_size, table_size) IN
            [i \in DOMAIN t |-> IF i = at THEN [key |-> k, n |-> t[at].n + 1] ELSE t[i]]
        counted     == FoldLeft(Insert, [i \in 0..(table_size - 1) |-> NoEntry], samples)
        Number(h, i) ==
            LET at == hashOf[counted[i].key] % table_size IN
            IF counted[i].n + 2 > copy_cutoff /\ h.table[at].n = -1
            THEN [table |-> [j \in DOMAIN h.table |-> IF j = at THEN [key |-> counted[i].key, n |-> h.heavy] ELSE h.table[j]],
                  heavy |-> h.heavy + 1]
            ELSE h
        final       == FoldLeft(Number, [table |-> [i \in 0..(table_size - 1) |-> NoEntry], heavy |-> 0],
                                [i \in 1..table_size |-> i - 1])
    IN  [heavy_hitters |-> final.heavy, bucket |-> [k \in DOMAIN hashOf |-> BucketOf(final, k, hashOf[k], num_buckets)]]

(* Keys of one cache line have the same hash value.                        *)
AlignedHash(num_buckets) == [k \in 0..(num_buckets - 1) |-> hash64[((k \div line_keys) * line_keys) + 1]]

collect_reduce(A, helper, num_buckets) ==
    LET n      == Len(A)
        bits   == Larger(log2_up(1 + n \div block_elements), least_bits)
        gb     == get_bucket(A, AlignedHash(num_buckets), bits)
        sorted == integer_sort_([i \in DOMAIN A |-> <<gb.bucket[A[i][1]], A[i]>>], FALSE, bits, 2^bits)
        Block(i) == [j \in 1..(sorted.offsets[i + 1] - sorted.offsets[i]) |-> sorted.Out[sorted.offsets[i] + j][2]]
        heavy  == [i \in 1..gb.heavy_hitters |-> Block(i)]
        shared == [i \in (gb.heavy_hitters + 1)..2^bits |-> Block(i)]
        Writes(k) ==
            {<<1, i, combine(helper, heavy[i])>> : i \in {j \in DOMAIN heavy : heavy[j][1][1] = k}} \cup
            {<<1, i, Collected(shared[i], helper, k)>> :
               i \in {j \in DOMAIN shared : \E x \in DOMAIN shared[j] : shared[j][x][1] = k}}
    IN  IF num_buckets <= few_buckets * 2^bits \/ n < CR_SEQ_THRESHOLD
        THEN collect_reduce_few(A, helper, num_buckets)
        ELSE [k \in 1..num_buckets |-> IF Writes(k - 1) = {} THEN init(helper) ELSE Cells(1, Writes(k - 1))[1]]

-----------------------------------------------------------------------------
(* collect_reduce.h, keys that are hashed: the table of a sequential run,  *)
(* which is packed in the order of its cells.  Of each key its elements    *)
(* are kept, in order: what a helper makes of them is a function of these. *)
seq_collect_reduce_sparse(A, hashOf) ==
    LET size == (3 * Len(A)) \div 2
        Insert(t, j) ==
            LET k  == A[j][1]
                at == Probe(t, k, hashOf[k] % size, size)
            IN  [i \in DOMAIN t |-> IF i # at THEN t[i]
                   ELSE [key |-> k, n |-> 0, all |-> (IF t[at].n = -1 THEN << >> ELSE t[at].all) \o <<A[j]>>]]
        table == FoldLeft(Insert, [i \in 0..(size - 1) |-> NoEntry], [j \in DOMAIN A |-> j])
        cells == [i \in 1..size |-> table[i - 1]]
        used  == SelectSeq(cells, LAMBDA c : c.n # -1)
    IN  [i \in DOMAIN used |-> <<used[i].key, used[i].all>>]

collect_reduce_sparse(A, hashOf) ==
    LET n    == Len(A)
        bits == Larger(log2_up(1 + n \div block_elements), least_bits)
        gb   == get_bucket(A, hashOf, bits)
        B    == count_sort(A, [i \in DOMAIN A |-> gb.bucket[A[i][1]]], 2^bits)
        Block(i) == cut(B.Out, B.offsets[i], B.offsets[i + 1])
    IN  IF n < CR_SPARSE_THRESHOLD THEN seq_collect_reduce_sparse(A, hashOf)
        ELSE FlattenSeq([i \in 1..2^bits |->
               IF i <= gb.heavy_hitters THEN <<<<Block(i)[1][1], Block(i)>>>>
               ELSE seq_collect_reduce_sparse(Block(i), hashOf)])

-----------------------------------------------------------------------------
(* group_by.h.                                                             *)
KeyHash(A) == [k \in ToSet(KeysIn(A)) |-> hash64[k + 1]]

Tags(A) == [i \in DOMAIN A |-> A[i][2]]

group_by_key_ordered(A, integers) ==
    LET sorted == IF integers THEN integer_sort(A, 0) ELSE sample_sort(A, TRUE, TRUE, FALSE)
        n      == Len(A)
        idx    == pack_index([i \in DOMAIN sorted |-> i = 1 \/ less(sorted[i - 1], sorted[i])])
    IN  [i \in DOMAIN idx |-> <<sorted[idx[i] + 1][1],
           Tags(cut(sorted, idx[i], IF i = Len(idx) THEN n ELSE idx[i + 1]))>>]

reduce_by_key(A) ==
    LET r == collect_reduce_sparse(A, KeyHash(A)) IN
    [i \in DOMAIN r |-> <<r[i][1], reduce([j \in DOMAIN r[i][2] |-> <<r[i][2][j][2]>>], append_all)>>]

group_by_key(A) ==
    LET r == collect_reduce_sparse(A, KeyHash(A)) IN [i \in DOMAIN r |-> <<r[i][1], Tags(r[i][2])>>]

histogram_by_key(A) ==
    LET r == collect_reduce_sparse(A, KeyHash(A)) IN [i \in DOMAIN r |-> <<r[i][1], Len(r[i][2])>>]

remove_duplicates(A) ==
    LET r == collect_reduce_sparse(A, KeyHash(A)) IN [i \in DOMAIN r |-> r[i][1]]

reduce_by_index(A, num_buckets) == collect_reduce(A, "reduce_by_index", num_buckets)

histogram_by_index(A, num_buckets) == collect_reduce(A, "histogram_by_index", num_buckets)

remove_duplicate_integers(A, max_value) ==
    pack_index(collect_reduce(A, "remove_duplicate_integers", max_value))

group_by_index(A, num_buckets) ==
    IF Len(A) > num_buckets * num_buckets THEN group_by_small_int(Tags(A), KeysIn(A), num_buckets)
    ELSE LET c == integer_sort_with_counts(A, num_buckets)
             s == scan(c.counts, plus)
         IN  [k \in 1..num_buckets |-> Tags(cut(c.R, s.out[k], s.out[k] + c.counts[k]))]

-----------------------------------------------------------------------------
(* On every input, through tables, blocks and frequent keys: each key that *)
(* occurs is returned once, with all its values in their order.            *)
GroupsRight(A, num_buckets) ==
    LET ByKey     == {<<k, Tags(KeyIs(A, k))>> : k \in ToSet(KeysIn(A))}
        ByIndex   == [k \in 1..num_buckets |-> Tags(KeyIs(A, k - 1))]
        OnceEach_(r) == Len(r) = Cardinality(ToSet(KeysIn(A)))
    IN  /\ \A integers \in BOOLEAN : A # << >> => LET r == group_by_key_ordered(A, integers) IN
             OnceEach_(r) /\ ToSet(r) = ByKey /\ \A i \in 1..(Len(r) - 1) : r[i][1] < r[i + 1][1]
        /\ OnceEach_(reduce_by_key(A)) /\ ToSet(reduce_by_key(A)) = ByKey
        /\ OnceEach_(group_by_key(A)) /\ ToSet(group_by_key(A)) = ByKey
        /\ OnceEach_(histogram_by_key(A)) /\ ToSet(histogram_by_key(A)) = {<<g[1], Len(g[2])>> : g \in ByKey}
        /\ OnceEach_(remove_duplicates(A)) /\ ToSet(remove_duplicates(A)) = ToSet(KeysIn(A))
        /\ A # << >> => \A extra \in {0, 2} :      \* with 2 unused ones there are too many for _few
             LET index == ByIndex \o [k \in 1..extra |-> << >>] IN
             /\ reduce_by_index(A, num_buckets + extra) = index
             /\ histogram_by_index(A, num_buckets + extra) = [k \in DOMAIN index |-> Len(index[k])]
        /\ group_by_index(A, num_buckets) = ByIndex

(* remove_duplicate_integers returns the integers that occur, each once:   *)
(* test_group_by.cpp:853.                                                  *)
DuplicatesRemoved(A, max_value) ==
    remove_duplicate_integers(A, max_value) = SetToSortSeq(ToSet(KeysIn(A)), <)
=============================================================================
