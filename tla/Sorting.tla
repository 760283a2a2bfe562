-------------------------------- MODULE Sorting -------------------------------
(***************************************************************************)
(* The sorts of parlay/internal: insertion sort, quicksort, merge sort,    *)
(* bucket sort and sample sort, what they are made of, and at the end the  *)
(* counting sort by blocks and the radix sorts built on it.                *)
(*                                                                         *)
(* The tuning constants of the code are CONSTANTS, so that a small input   *)
(* takes every path; hash64 is any function, since only its value modulo a *)
(* size is used.  Subsequences that are sorted apart are sorted in         *)
(* parallel.                                                               *)
(***************************************************************************)
EXTENDS SequenceOps

CONSTANTS
    hash64,                \* a sequence: the value for i is its element i+1
    merge_base,            \* _merge_base
    binary_search_base,    \* _binary_search_base
    MERGE_SORT_BASE,
    quicksort_base,        \* 24, or 16 for large elements: at least 5
    quicksort_serial_max,  \* 256
    bucket_bits,           \* 4
    bucket_min,            \* 32: keys per bucket from which bucket_sort_r divides
    bucket_samples,        \* 400
    QUICKSORT_THRESHOLD, OVER_SAMPLE,
    bucket_quotient, block_quotient, sample_blocks,
    TRANS_THRESHHOLD,
    p_cut_size             \* cut_size of p_quicksort_

CONSTANTS
    SEQ_THRESHOLD, num_threads,
    count_cost, count_least,     \* 500 and 5000: what decides the number of blocks
    radix,                       \* 8
    base_case_size,              \* PARLAY_INTEGER_SORT_BASE_CASE_SIZE
    base_bits, outer_bits        \* 8 to 13, and 8

Swapped(A, i, j) == [A EXCEPT ![i] = A[j], ![j] = A[i]]

FloorSqrt(n) == CHOOSE r \in 0..n : r * r <= n /\ (r + 1) * (r + 1) > n

Raw(n) == [i \in 1..n |-> Torn]    \* cells whose elements were relocated

-----------------------------------------------------------------------------
(* binary_search.h and merge.h.                                            *)

linear_search(I, v) == CHOOSE i \in 0..Len(I) :
    /\ i < Len(I) => ~less(I[i + 1], v)
    /\ \A j \in 1..i : less(I[j], v)

RECURSIVE SearchIn(_, _, _, _)
SearchIn(I, v, start, end) ==
    IF end - start > binary_search_base
    THEN LET mid == (end + start) \div 2 IN
         IF ~less(I[mid + 1], v) THEN SearchIn(I, v, start, mid) ELSE SearchIn(I, v, mid + 1, end)
    ELSE start + linear_search(cut(I, start, end), v)

binary_search(I, v) == SearchIn(I, v, 0, Len(I))

RECURSIVE seq_merge(_, _)
seq_merge(A, B) ==
    IF A = << >> THEN B
    ELSE IF B = << >> THEN A
    ELSE IF less(B[1], A[1]) THEN <<B[1]>> \o seq_merge(A, Tail(B))
    ELSE <<A[1]>> \o seq_merge(Tail(A), B)

RECURSIVE merge_into(_, _)
merge_into(A, B) ==
    IF Len(A) + Len(B) < merge_base THEN seq_merge(A, B)
    ELSE IF A = << >> THEN B
    ELSE IF B = << >> THEN A
    ELSE LET half == Len(A) \div 2
             mB   == binary_search(B, A[half + 1])
             mA   == IF mB = 0 THEN half + 1 ELSE half
         IN  merge_into(cut(A, 0, mA), cut(B, 0, mB))
               \o merge_into(cut(A, mA, Len(A)), cut(B, mB, Len(B)))

-----------------------------------------------------------------------------
(* quicksort.h.                                                            *)

(* The last element of A[1..i] is swapped down while it is less than the   *)
(* one below it.                                                           *)
Inserted(A, x) ==
    LET below == {j \in DOMAIN A : ~less(x, A[j])}
        at    == IF below = {} THEN 0 ELSE CHOOSE j \in below : \A k \in below : k <= j
    IN  SubSeq(A, 1, at) \o <<x>> \o SubSeq(A, at + 1, Len(A))

insertion_sort(A) == FoldLeft(Inserted, << >>, A)

(* The first size elements are swapped with ones taken by hash.            *)
RECURSIVE Sampled(_, _, _)
Sampled(A, i, size) ==
    IF i = size THEN A
    ELSE Sampled(Swapped(A, i + 1, i + (hash64[i + 1] % (Len(A) - i)) + 1), i + 1, size)

sort5(A) == LET B == Sampled(A, 0, 5) IN insertion_sort(SubSeq(B, 1, 5)) \o SubSeq(B, 6, Len(B))

LastUpTo(A, R, p2) == CHOOSE i \in 1..R :
    ~less(p2, A[i]) /\ \A j \in (i + 1)..R : less(p2, A[j])

(* The loop of split3, over 1-based positions.                             *)
RECURSIVE Partition(_, _, _, _, _, _)
Partition(A, L, M, R, p1, p2) ==
    IF M > R THEN [A |-> A, L |-> L, M |-> M, R |-> R]
    ELSE IF less(A[M], p1) THEN Partition(Swapped(A, M, L), L + 1, M + 1, R, p1, p2)
    ELSE IF less(p2, A[M])
    THEN LET B   == Swapped(A, M, R)
             low == less(B[M], p1)
             C   == IF low THEN Swapped(B, L, M) ELSE B
         IN  Partition(C, IF low THEN L + 1 ELSE L, M + 1, LastUpTo(C, R - 1, p2), p1, p2)
    ELSE Partition(A, L, M + 1, R, p1, p2)

(* L and M are the first position of the second and the third part.        *)
split3(A) ==
    LET S  == Swapped(Swapped(sort5(A), 1, 2), 2, 4)
        p1 == S[1]
        p2 == S[2]
        L0 == CHOOSE i \in 3..Len(A) : ~less(S[i], p1) /\ \A j \in 3..(i - 1) : less(S[j], p1)
        e  == Partition(S, L0, L0, LastUpTo(S, Len(A), p2), p1, p2)
        L  == e.L - 2
    IN  [A |-> Swapped(Swapped(Swapped(e.A, 2, L + 1), 1, L), L + 1, e.R),
         L |-> L, M |-> e.M, equal |-> ~less(p1, p2)]

LowPart(s)  == SubSeq(s.A, 1, s.L - 1)
MidPart(s)  == SubSeq(s.A, s.L + 1, s.M - 1)     \* without the first pivot
HighPart(s) == SubSeq(s.A, s.M, Len(s.A))

RECURSIVE quicksort_serial(_)
quicksort_serial(A) ==
    IF Len(A) < quicksort_base THEN insertion_sort(A)
    ELSE LET s == split3(A) IN
         quicksort_serial(LowPart(s)) \o <<s.A[s.L]>>
           \o (IF s.equal THEN MidPart(s) ELSE quicksort_serial(MidPart(s)))
           \o quicksort_serial(HighPart(s))

RECURSIVE quicksort(_)
quicksort(A) ==
    IF Len(A) < quicksort_serial_max THEN quicksort_serial(A)
    ELSE LET s == split3(A) IN
         quicksort(LowPart(s)) \o <<s.A[s.L]>>
           \o (IF s.equal THEN MidPart(s) ELSE quicksort(MidPart(s))) \o quicksort(HighPart(s))

(* The version that copies between two arrays: what A and B hold after it. *)
p_split3(A) ==
    LET S  == sort5(A)
        p1 == IF ~less(S[1], S[2]) THEN S[4] ELSE S[2]
        p2 == IF ~less(S[4], S[5]) THEN p1 ELSE S[4]
        r  == split_three(S, [i \in DOMAIN S |-> IF less(S[i], p1) THEN 0 ELSE IF less(p2, S[i]) THEN 2 ELSE 1])
    IN  [A |-> S, B |-> r.out, l |-> r.m0, m |-> r.m0 + r.m1, equal |-> ~less(p1, p2)]

RECURSIVE p_quicksort_(_, _)
p_quicksort_(A, inplace) ==
    IF Len(A) < p_cut_size
    THEN LET Q == quicksort(A) IN [A |-> Q, B |-> IF inplace THEN Raw(Len(A)) ELSE Q]
    ELSE LET s    == p_split3(A)
             n    == Len(A)
             low  == p_quicksort_(cut(s.B, 0, s.l), ~inplace)
             high == p_quicksort_(cut(s.B, s.m, n), ~inplace)
             mid  == IF s.equal
                     THEN [A |-> cut(s.B, s.l, s.m), B |-> cut(IF inplace THEN s.B ELSE s.A, s.l, s.m)]
                     ELSE p_quicksort_(cut(s.B, s.l, s.m), ~inplace)
         IN  [A |-> low.B \o mid.B \o high.B, B |-> low.A \o mid.A \o high.A]

-----------------------------------------------------------------------------
(* merge_sort.h: what In and Out hold after merge_sort_, whose halves      *)
(* leave their results in the other of the two.                            *)
RECURSIVE merge_sort_(_, _)
merge_sort_(In, inplace) ==
    LET n == Len(In)
        m == n \div 2
    IN  IF n < MERGE_SORT_BASE
        THEN LET s == insertion_sort(In) IN
             IF inplace THEN [In |-> s, Out |-> Raw(n)] ELSE [In |-> Raw(n), Out |-> s]
        ELSE LET left  == merge_sort_(cut(In, 0, m), ~inplace)
                 right == merge_sort_(cut(In, m, n), ~inplace)
             IN  IF inplace THEN [In |-> merge_into(left.Out, right.Out), Out |-> Raw(n)]
                            ELSE [In |-> Raw(n), Out |-> merge_into(left.In, right.In)]

merge_sort_inplace(In) ==
    IF Len(In) <= MERGE_SORT_BASE THEN insertion_sort(In) ELSE merge_sort_(In, TRUE).In

merge_sort(In) == merge_sort_inplace(In)

-----------------------------------------------------------------------------
(* bucket_sort.h.                                                          *)

(* From the last key down, each goes in front of those of its bucket.      *)
radix_step_(A, keys, m) ==
    LET n     == Len(A)
        Start(k) == Cardinality({j \in 1..n : keys[j] < k})
        At(j) == Start(keys[j]) + Cardinality({i \in 1..j : keys[i] = keys[j]})
    IN  [B |-> Cells(n, {<<At(j), j, A[j]>> : j \in 1..n}), counts |-> [k \in 1..m |-> Start(k - 1)]]

(* The writes that arrange In[l+1..r] as a heap-ordered tree.              *)
RECURSIVE TreeWrites(_, _, _, _)
TreeWrites(In, root, l, r) ==
    LET n == r - l
        m == l + n \div 2
    IN  {<<root + 1, root, In[m + 1]>>} \cup
        (IF n = 1 THEN {} ELSE TreeWrites(In, 2 * root + 1, l, m) \cup TreeWrites(In, 2 * root + 2, m + 1, r))

to_balanced_tree(In) == Cells(Len(In), TreeWrites(In, 0, 0, Len(In)))

(* A path down such a tree: right at a node if the key is not less.        *)
RECURSIVE Descend(_, _, _, _)
Descend(tree, x, j, rounds) ==
    IF rounds = 0 THEN j
    ELSE Descend(tree, x, 1 + 2 * j + (IF less(x, tree[j + 1]) THEN 0 ELSE 1), rounds - 1)

get_buckets(A, rounds) ==
    LET n            == Len(A)
        num_buckets  == 2^rounds
        over_sample  == 1 + n \div (num_buckets * bucket_samples)
        sample_set   == quicksort([i \in 1..(num_buckets * over_sample) |-> A[(hash64[i] % n) + 1]])
        pivots       == [i \in 1..(num_buckets - 1) |-> sample_set[over_sample * i + 1]]
        tree         == to_balanced_tree(pivots)
    IN  [all_equal |-> ~less(pivots[1], pivots[num_buckets - 1]),
         buckets   |-> [i \in 1..n |-> Descend(tree, A[i], 0, rounds) - (num_buckets - 1)]]

base_sort(in, stable, inplace) ==
    IF stable THEN merge_sort_(in, inplace)
    ELSE IF inplace THEN [In |-> quicksort(in), Out |-> Raw(Len(in))]
    ELSE [In |-> Raw(Len(in)), Out |-> quicksort(in)]

RECURSIVE bucket_sort_r(_, _, _)
bucket_sort_r(in, stable, inplace) ==
    LET n           == Len(in)
        num_buckets == 2^bucket_bits
        g           == get_buckets(in, bucket_bits)
    IN  IF n < num_buckets * bucket_min \/ g.all_equal THEN base_sort(in, stable, inplace)
        ELSE LET step == radix_step_(in, g.buckets, num_buckets)
                 End(j) == IF j = num_buckets THEN n ELSE step.counts[j + 1]
                 sub  == [j \in 1..num_buckets |->
                            bucket_sort_r(cut(step.B, step.counts[j], End(j)), stable, ~inplace)]
             IN  [In  |-> FlattenSeq([j \in 1..num_buckets |-> sub[j].Out]),
                  Out |-> FlattenSeq([j \in 1..num_buckets |-> sub[j].In])]

bucket_sort(in, stable) == bucket_sort_r(in, stable, TRUE).In

-----------------------------------------------------------------------------
(* transpose.h: a matrix of rows x columns is halved along its longer side *)
(* until it is small; the halves run in parallel.                          *)
RECURSIVE transR(_, _, _, _, _)
transR(rStart, rCount, cStart, cCount, small) ==
    IF rCount * cCount < small THEN {(rStart..(rStart + rCount - 1)) \X (cStart..(cStart + cCount - 1))}
    ELSE IF cCount > rCount
    THEN LET l1 == cCount \div 2 IN
         transR(rStart, rCount, cStart, l1, small)
           \cup transR(rStart, rCount, cStart + l1, cCount - l1, small)
    ELSE LET l1 == rCount \div 2 IN
         transR(rStart, l1, cStart, cCount, small)
           \cup transR(rStart + l1, rCount - l1, cStart, cCount, small)

(* Each leaf writes its own part of the flat matrix.                       *)
transpose(In, rCount, cCount) ==
    Cells(Len(In), UNION {{<<p[2] * rCount + p[1] + 1, leaf, In[p[1] * cCount + p[2] + 1]>> : p \in leaf}
                          : leaf \in transR(0, rCount, 0, cCount, TRANS_THRESHHOLD)})

(* Chunk (i, j) of In goes to where OutOffset puts chunk (j, i).           *)
blockTrans(In, InOffset, OutOffset, rCount, cCount) ==
    Cells(Len(In), UNION {UNION {
        LET sa == InOffset[p[1] * cCount + p[2] + 1]
            e  == InOffset[p[1] * cCount + p[2] + 2]
        IN  Place(OutOffset[p[2] * rCount + p[1] + 1], p, cut(In, sa, e)) : p \in leaf}
        : leaf \in transR(0, rCount, 0, cCount, 16 * TRANS_THRESHHOLD)})

(* counts: of block i and bucket j, at i * num_buckets + j.                *)
transpose_buckets(From, counts, n, block_size_, blocks, num_buckets, cache_oblivious) ==
    LET m    == num_buckets * blocks
        byBucket == IF cache_oblivious THEN transpose(counts, blocks, num_buckets)
                    ELSE [k \in 1..m |-> counts[(k - 1) \div blocks + num_buckets * ((k - 1) % blocks) + 1]]
        dest == scan(byBucket, plus)
        Len_(i, j) == counts[i * num_buckets + j + 1]
        Before(i, j) == FoldFunctionOnSet(+, 0, counts, (i * num_buckets + 1)..(i * num_buckets + j))
        Sent(i) == UNION {LET s == i * block_size_ + Before(i, j) IN
                          Place(dest.out[i + blocks * j + 1], <<i, j>>, cut(From, s, s + Len_(i, j)))
                          : j \in 0..(num_buckets - 1)}
    IN  [To      |-> IF cache_oblivious
                     THEN blockTrans(From, scan(counts, plus).out \o <<n>>, dest.out, blocks, num_buckets)
                     ELSE Cells(n, UNION {Sent(i) : i \in 0..(blocks - 1)}),
         offsets |-> [j \in 1..(num_buckets + 1) |-> IF j > num_buckets THEN n ELSE dest.out[(j - 1) * blocks + 1]]]

-----------------------------------------------------------------------------
(* sample_sort.h.                                                          *)

(* sA and sB are sorted; itA elements and itB pivots are done.  Of two      *)
(* equal pivots the second takes what is not greater, unless the first was *)
(* such a second one.                                                      *)
RECURSIVE CountFrom(_, _, _, _, _)
CountFrom(sA, sB, itA, itB, fresh) ==
    LET left     == (itA + 1)..Len(sA)
        equal    == itB > 0 /\ fresh /\ ~less(sB[itB], sB[itB + 1])
        count    == Cardinality({i \in left : IF equal THEN ~less(sB[itB + 1], sA[i])
                                              ELSE less(sA[i], sB[itB + 1])})
    IN  IF itB = Len(sB) THEN <<Len(sA) - itA>>
        ELSE <<count>> \o (IF count = Len(sA) - itA THEN [k \in 1..(Len(sB) - itB) |-> 0]
                           ELSE CountFrom(sA, sB, itA + count, itB + 1, ~equal))

get_bucket_counts(sA, sB) ==
    IF sA = << >> \/ sB = << >> THEN [k \in 1..(Len(sB) + 1) |-> Torn]    \* left uninitialized
    ELSE CountFrom(sA, sB, 0, 0, TRUE)

(* Large elements are sorted by quicksort unless the sort is stable.       *)
seq_sort_inplace(A, stable, large) ==
    IF large /\ ~stable THEN quicksort(A) ELSE bucket_sort(A, stable)

seq_sort_(In, stable, large) == seq_sort_inplace(In, stable, large)

(* How the input is divided: the parameters both versions compute.         *)
Division(n) ==
    LET root   == FloorSqrt(n)
        blocks == 2^log2_up(root \div block_quotient + 1)
    IN  [blocks |-> blocks, size |-> (n - 1) \div blocks + 1, buckets |-> root \div bucket_quotient + 1]

(* The buckets once each block is sorted.                                  *)
Distribute(Tmp, pivots, d, cache_oblivious) ==
    LET n  == Len(Tmp)
        bs == sliced_for(n, d.size)
    IN  transpose_buckets(Tmp, FlattenSeq([i \in DOMAIN bs |-> get_bucket_counts(InBlock(Tmp, bs[i]), pivots)]),
                          n, d.size, d.blocks, d.buckets, cache_oblivious)

Bucket(t, i) == cut(t.To, t.offsets[i + 1], t.offsets[i + 2])

sample_sort_inplace(A, large, cache_oblivious) ==
    LET n    == Len(A)
        d    == Division(n)
        size == sample_blocks * d.size
        In   == Sampled(A, 0, size)
        set  == quicksort(SubSeq(In, 1, size))
        pivots == [i \in 1..(d.buckets - 1) |-> set[(size \div (d.buckets - 1)) * (i - 1) + 1]]
        bs   == sliced_for(n, d.size)
        Tmp  == set \o FlattenSeq([i \in 1..(Len(bs) - sample_blocks) |->
                                     seq_sort_(InBlock(In, bs[i + sample_blocks]), FALSE, large)])
        t    == Distribute(Tmp, pivots, d, cache_oblivious)
    IN  IF n < QUICKSORT_THRESHOLD THEN seq_sort_inplace(A, FALSE, large)
        ELSE FlattenSeq([i \in 1..d.buckets |-> seq_sort_inplace(Bucket(t, i - 1), FALSE, large)])

sample_sort(A, stable, large, cache_oblivious) ==
    LET n   == Len(A)
        d   == Division(n)
        set == quicksort([i \in 1..(d.buckets * OVER_SAMPLE) |-> A[(hash64[i] % n) + 1]])
        pivots == [i \in 1..(d.buckets - 1) |-> set[OVER_SAMPLE * (i - 1) + 1]]
        bs  == sliced_for(n, d.size)
        Tmp == FlattenSeq([i \in DOMAIN bs |-> seq_sort_(InBlock(A, bs[i]), stable, large)])
        t   == Distribute(Tmp, pivots, d, cache_oblivious)
        Alike(i) == i # 0 /\ i # d.buckets - 1 /\ ~less(pivots[i], pivots[i + 1])
    IN  IF n < QUICKSORT_THRESHOLD THEN seq_sort_(A, stable, large)
        ELSE FlattenSeq([i \in 1..d.buckets |->
               IF Alike(i - 1) THEN Bucket(t, i - 1) ELSE seq_sort_inplace(Bucket(t, i - 1), stable, large)])

-----------------------------------------------------------------------------
(* On every input, below and above every threshold: each sort returns a    *)
(* sorted permutation, in the array it should be in; merge sort and the    *)
(* stable bucket and sample sorts keep equal elements in order; buckets of *)
(* equal pivots need no sorting; and the transpose for large inputs gives  *)
(* what the loop for small ones does.                                      *)
SortsRight(A) ==
    /\ SortedFrom(A, quicksort(A))
    /\ \A inplace \in BOOLEAN :
         LET q == p_quicksort_(A, inplace) IN SortedFrom(A, IF inplace THEN q.A ELSE q.B)
    /\ StableFrom(A, merge_sort(A))
    /\ LET m == merge_sort_(A, FALSE) IN StableFrom(A, m.Out)
    /\ A # << >> => SortedFrom(A, bucket_sort(A, FALSE)) /\ StableFrom(A, bucket_sort(A, TRUE))
    /\ \A large, cache_oblivious \in BOOLEAN : A # << >> =>
         /\ SortedFrom(A, sample_sort_inplace(A, large, cache_oblivious))
         /\ SortedFrom(A, sample_sort(A, FALSE, large, cache_oblivious))
         /\ StableFrom(A, sample_sort(A, TRUE, large, cache_oblivious))

-----------------------------------------------------------------------------
SumTo(f, k) == FoldFunctionOnSet(+, 0, f, 1..k)

-----------------------------------------------------------------------------
(* counting_sort.h: keys are naturals; Keys_[j] is the key of In[j].       *)

seq_count_(Keys_, num_buckets) ==
    [k \in 1..num_buckets |-> Cardinality({j \in DOMAIN Keys_ : Keys_[j] = k - 1})]

Of(In, Keys_, k) == pack_serial(In, [j \in DOMAIN In |-> Keys_[j] = k])

(* The elements of each key, in order, from where offsets says on.         *)
seq_write_(who, In, Keys_, offsets, num_buckets) ==
    UNION {Place(offsets[k], who, Of(In, Keys_, k - 1)) : k \in 1..num_buckets}

(* From the last element down, each in front of the ones of its key: the   *)
(* ends of the buckets, which counts holds, become their starts.           *)
seq_count_sort(In, Keys_, num_buckets) ==
    LET counts == seq_count_(Keys_, num_buckets)
        ends   == [k \in 1..num_buckets |-> SumTo(counts, k)]
        starts == [k \in 1..num_buckets |-> ends[k] - counts[k]]
    IN  [Out |-> Cells(Len(In), seq_write_(0, In, Keys_, starts, num_buckets)),
         offsets |-> Append(starts, Len(In)), one_bucket |-> FALSE]

NumBlocks(n, num_buckets) == 1 + n \div Larger(num_buckets * count_cost, count_least)

(* Block i of num_blocks, the last ones being empty if there are too many. *)
BlockOf(n, num_blocks_, i) ==
    LET size == (n - 1) \div num_blocks_ + 1 IN
    <<Minimum((i - 1) * size, n), Minimum(Minimum((i - 1) * size, n) + size, n)>>

SharedOffsets(bucket_offsets, counts, bs, num_buckets) ==    \* mutant: the blocks start where the bucket does
    [j \in DOMAIN bs |-> [k \in 1..num_buckets |-> bucket_offsets[k]]]

(* Where each block puts the elements of each bucket.                      *)
DestOffsets(bucket_offsets, counts, bs, num_buckets) ==
    [j \in DOMAIN bs |-> [k \in 1..num_buckets |->
        bucket_offsets[k] + SumTo([i \in DOMAIN bs |-> counts[i][k]], j - 1)]]

(* If all keys are in one bucket and the caller can do without, nothing is *)
(* moved.                                                                  *)
count_sort_(In, Keys_, num_buckets, skip_if_in_one) ==
    LET n   == Len(In)
        num_blocks_ == NumBlocks(n, num_buckets)
        bs  == [i \in 1..num_blocks_ |-> BlockOf(n, num_blocks_, i)]
        counts == [i \in DOMAIN bs |-> seq_count_(InBlock(Keys_, bs[i]), num_buckets)]
        totals == [k \in 1..num_buckets |-> SumTo([i \in DOMAIN bs |-> counts[i][k]], Len(bs))]
        bucket_offsets == scan(Append(totals, 0), plus).out
        dest == DestOffsets(bucket_offsets, counts, bs, num_buckets)
    IN  IF n < SEQ_THRESHOLD \/ num_blocks_ = 1 \/ num_threads = 1
        THEN seq_count_sort(In, Keys_, num_buckets)
        ELSE IF skip_if_in_one /\ Cardinality({k \in 1..num_buckets : totals[k] > 0}) = 1
        THEN [Out |-> [i \in 1..n |-> Torn], offsets |-> bucket_offsets, one_bucket |-> TRUE]
        ELSE [Out |-> Cells(n, UNION {seq_write_(j, InBlock(In, bs[j]), InBlock(Keys_, bs[j]), dest[j], num_buckets)
                                      : j \in DOMAIN bs}),
              offsets |-> bucket_offsets, one_bucket |-> FALSE]

count_sort(In, Keys_, num_buckets) == count_sort_(In, Keys_, num_buckets, FALSE)

count_sort_inplace(In, Keys_, num_buckets) ==
    LET a == count_sort_(In, Keys_, num_buckets, FALSE) IN [In |-> a.Out, offsets |-> a.offsets]

(* One sequence for each key.                                              *)
group_by_small_int(In, Keys_, num_buckets) ==
    LET n   == Len(In)
        num_blocks_ == NumBlocks(n, num_buckets)
        bs  == [i \in 1..num_blocks_ |-> BlockOf(n, num_blocks_, i)]
        counts == [i \in DOMAIN bs |-> seq_count_(InBlock(Keys_, bs[i]), num_buckets)]
        Size(k) == SumTo([i \in DOMAIN bs |-> counts[i][k]], Len(bs))
        Before(i, k) == SumTo([j \in DOMAIN bs |-> counts[j][k]], i - 1)
        sums == scan([i \in DOMAIN bs |-> Count(Keys_, bs[i], 0)], plus)
        Rank(i, k) == IF k = 1 THEN sums.out[i] ELSE bs[i][1] - sums.out[i]
        Sent(i, k) == Of(InBlock(In, bs[i]), InBlock(Keys_, bs[i]), k - 1)
    IN  IF num_buckets = 2
        THEN [k \in 1..2 |-> Cells(IF k = 1 THEN sums.total ELSE n - sums.total,
                                   UNION {Place(Rank(i, k), i, Sent(i, k)) : i \in DOMAIN bs})]
        ELSE [k \in 1..num_buckets |->
                Cells(Size(k), UNION {Place(Before(i, k), i, Sent(i, k)) : i \in DOMAIN bs})]

-----------------------------------------------------------------------------
(* integer_sort.h.  The lowest bits of the keys count: BitsOf takes some   *)
(* of them, from bit offset on.                                            *)
BitsOf(In, offset, bits) == [i \in DOMAIN In |-> (In[i][1] \div 2^offset) % 2^bits]

(* The rounds from bit_offset on, which swap the two arrays.               *)
RECURSIVE RadixRounds(_, _, _)
RadixRounds(A, bits, bit_offset) ==
    IF bits = 0 THEN A
    ELSE LET round_bits == Minimum(radix, bits) IN
         RadixRounds(seq_count_sort(A, BitsOf(A, bit_offset, round_bits), 2^round_bits).Out,
                     bits - round_bits, bit_offset + round_bits)

(* What In and Out hold after it: the result is moved if the number of     *)
(* rounds has left it in the other array.                                  *)
seq_radix_sort_(In, bits, inplace) ==
    LET swapped == ((bits + radix - 1) \div radix) % 2 = 1
        A       == RadixRounds(In, bits, 0)
        after   == IF swapped THEN [In |-> << >>, Out |-> A] ELSE [In |-> A, Out |-> << >>]
    IN  CASE swapped /\ inplace   -> [In |-> after.Out, Out |-> << >>]
          [] ~swapped /\ ~inplace -> [In |-> << >>, Out |-> after.In]
          [] OTHER                -> after

(* Not in place, the input goes to Tmp or to Out first, so that a number   *)
(* of rounds of either parity ends in Out.                                 *)
seq_radix_sort(In, bits, inplace) ==
    LET odd == ((bits - 1) \div radix) % 2 = 1 IN
    IF inplace THEN seq_radix_sort_(In, bits, TRUE)
    ELSE IF odd THEN [In |-> << >>, Out |-> seq_radix_sort_(In, bits, FALSE).Out]
    ELSE [In |-> << >>, Out |-> seq_radix_sort_(In, bits, TRUE).In]

(* In and Out after sorting by the lowest key_bits, the result being in In *)
(* if inplace and else in Out; and the starts of the buckets, if a number  *)
(* of them is given.                                                       *)
RECURSIVE integer_sort_r(_, _, _, _)
integer_sort_r(In, inplace, key_bits, num_buckets) ==
    LET n      == Len(In)
        return_offsets == num_buckets > 0
        Moved(A) == IF inplace THEN [In |-> A, Out |-> << >>] ELSE [In |-> << >>, Out |-> A]
        With(r, offsets) == [In |-> r.In, Out |-> r.Out, offsets |-> offsets]
        single == count_sort_(In, BitsOf(In, 0, key_bits), IF return_offsets THEN num_buckets ELSE 2^key_bits, inplace)
        shift_bits == key_bits - outer_bits
        num_inner  == IF return_offsets THEN 2^shift_bits ELSE 0
        outer  == count_sort_(In, BitsOf(In, shift_bits, outer_bits), 2^outer_bits, ~return_offsets)
        sub    == [i \in 1..2^outer_bits |->
                     integer_sort_r(cut(outer.Out, outer.offsets[i], outer.offsets[i + 1]), ~inplace, shift_bits, num_inner)]
        Inner(b) == LET i == b \div num_inner IN outer.offsets[i + 1] + sub[i + 1].offsets[(b % num_inner) + 1]
    IN  CASE key_bits = 0 -> With(Moved(In), << >>)
          [] key_bits > 0 /\ n < base_case_size /\ ~return_offsets ->
               With(seq_radix_sort(In, key_bits, inplace), << >>)
          [] key_bits > 0 /\ (n >= base_case_size \/ return_offsets) /\ key_bits <= base_bits ->
               With(Moved(IF single.one_bucket THEN In ELSE single.Out), IF return_offsets THEN single.offsets ELSE << >>)
          [] OTHER ->
               IF outer.one_bucket THEN integer_sort_r(In, inplace, shift_bits, 0)
               ELSE With(IF inplace
                         THEN [In |-> FlattenSeq([i \in DOMAIN sub |-> sub[i].Out]), Out |-> << >>]
                         ELSE [In |-> << >>, Out |-> FlattenSeq([i \in DOMAIN sub |-> sub[i].In])],
                         IF return_offsets
                         THEN [b \in 1..(num_buckets + 1) |-> IF b > num_buckets THEN n ELSE Inner(b - 1)]
                         ELSE << >>)

(* With 0 bits, as many as the largest key has.                            *)
KeyBits(In, bits) ==
    IF bits = 0 THEN log2_up((reduce([i \in DOMAIN In |-> In[i][1]], [op |-> "max"]) + 1) % WORD) ELSE bits

integer_sort_(In, inplace, bits, num_buckets) == integer_sort_r(In, inplace, KeyBits(In, bits), num_buckets)

integer_sort_inplace(In, bits) == integer_sort_(In, TRUE, bits, 0).In

integer_sort(In, bits) == integer_sort_(In, FALSE, bits, 0).Out

(* How many of each key there are in a sorted sequence: starts and ends of *)
(* keys that do not occur stay 0.                                          *)
get_counts(In, num_buckets) ==
    LET n == Len(In)
        K == KeysIn(In)
        edges == {i \in 1..(n - 1) : K[i] # K[i + 1]}
        Start(k) == IF \E i \in edges : K[i + 1] = k THEN CHOOSE i \in edges : K[i + 1] = k ELSE 0
        End(k)   == IF K[n] = k THEN n
                    ELSE IF \E i \in edges : K[i] = k THEN CHOOSE i \in edges : K[i] = k ELSE 0
    IN  IF n = 0 THEN << >> ELSE [k \in 1..num_buckets |-> End(k - 1) - Start(k - 1)]

integer_sort_with_counts(In, num_buckets) ==
    IF In = << >> THEN [R |-> << >>, counts |-> [k \in 1..num_buckets |-> 0]]
    ELSE LET R == integer_sort(In, log2_up(num_buckets)) IN [R |-> R, counts |-> get_counts(R, num_buckets)]

-----------------------------------------------------------------------------
(* On every input with keys below num_buckets: each sort is stable and its *)
(* result is where it should be, the starts and the counts of the buckets  *)
(* are right, and the number of bits is enough for the largest key, which  *)
(* may be the largest size_t.                                              *)
IntegerSortsRight(A, num_buckets) ==
    LET K == KeysIn(A)
        high == [i \in DOMAIN A |-> IF A[i][1] = 2 THEN <<WORD - 1, A[i][2]>> ELSE A[i]]
        starts == [k \in 1..(num_buckets + 1) |-> Cardinality({i \in DOMAIN A : K[i] < k - 1})]
        sizes  == [k \in 1..num_buckets |-> starts[k + 1] - starts[k]]
    IN  /\ LET c == count_sort(A, K, num_buckets) IN StableFrom(A, c.Out) /\ c.offsets = starts
        /\ LET c == count_sort_inplace(A, K, num_buckets) IN StableFrom(A, c.In) /\ c.offsets = starts
        /\ A # << >> => \A b \in {2, num_buckets} :
             group_by_small_int(A, [i \in DOMAIN K |-> K[i] % b], b)
               = [k \in 1..b |-> SelectSeq(A, LAMBDA a : a[1] % b = k - 1)]
        /\ StableFrom(high, integer_sort(high, 0)) /\ StableFrom(high, integer_sort_inplace(high, 0))
        /\ StableFrom(high, integer_sort(high, log2_up(0)))
        /\ LET r == integer_sort_(A, FALSE, log2_up(num_buckets), num_buckets) IN
             A # << >> => StableFrom(A, r.Out) /\ r.offsets = starts
        /\ LET r == integer_sort_with_counts(A, num_buckets) IN StableFrom(A, r.R) /\ r.counts = sizes

=============================================================================
