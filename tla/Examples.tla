------------------------------- MODULE Examples -------------------------------
(***************************************************************************)
(* parlaylib/examples: the implementations of primitives, sorts, string    *)
(* searches and numbers that the library is shown with.  They are built    *)
(* from its primitives, which are those of the other modules.              *)
(***************************************************************************)
EXTENDS Texts

CONSTANTS
    ex_block,       \* 100: blocks of scan, reduce, lcp (128 there for minima) and edit distances
    ex_len,         \* 1000: of find_if, of merges and of the blocks of a search
    ex_large,       \* 10000: what quicksort divides
    ex_samples,     \* 101: what it takes its pivot from
    ex_cutoff,      \* 256: what samplesort divides
    ex_bits,        \* 8: of its buckets
    packed_chars,   \* 12: of a suffix array's first keys
    field_bits,     \* 31: the prime is the number of this many ones
    field_x,        \* 500000000
    digit_bits      \* 32

-----------------------------------------------------------------------------
(* scan.h: each block is reduced, the results scanned by the same function *)
(* and the blocks scanned from there.                                      *)
RECURSIVE example_scan(_, _)
example_scan(A, m) ==
    LET bs   == sliced_for(Len(A), ex_block)
        part == example_scan([i \in DOMAIN bs |-> reduce_serial(InBlock(A, bs[i]), m)], m)
    IN  IF Len(A) <= ex_block THEN scan_serial(A, m, identity(m), FALSE)
        ELSE [out   |-> Cells(Len(A), UNION {Place(bs[i][1], i,
                          scan_serial(InBlock(A, bs[i]), m, part.out[i], FALSE).out) : i \in DOMAIN bs}),
              total |-> part.total]

(* reduce.h: by halves.                                                    *)
RECURSIVE example_reduce(_, _)
example_reduce(A, m) ==
    LET n == Len(A) IN
    IF n <= ex_block THEN reduce_serial(A, m)
    ELSE Combine(m, example_reduce(cut(A, 0, n \div 2), m), example_reduce(cut(A, n \div 2, n), m))

(* find_if.h: one by one at first, then in blocks that double.             *)
RECURSIVE FindDoubling(_, _, _, _)
FindDoubling(n, P, start, len) ==
    LET loc == FirstOr(P \cap start..(Minimum(n, start + len) - 1), n) IN
    IF start >= n \/ loc < n THEN loc ELSE FindDoubling(n, P, start + len, 2 * len)

example_find_if(n, P) ==
    LET loc == FirstOr(P \cap 0..(Minimum(ex_len, n) - 1), n) IN
    IF loc < n THEN loc ELSE FindDoubling(n, P, ex_len, 2 * ex_len)

(* filter.h: what is kept goes to its offset in a delayed scan.            *)
example_filter(A, fA) ==
    LET flags   == [i \in DOMAIN A |-> IF fA[i] THEN 1 ELSE 0]
        offsets == to_sequence(block_delayed_scan(random_access(flags), plus, FALSE))
    IN  Cells(delayed_reduce(random_access(flags), plus),
              {<<offsets[i] + 1, i, A[i]>> : i \in {j \in DOMAIN A : fA[j]}})

example_flatten(S) ==
    LET at == scan([i \in DOMAIN S |-> Len(S[i])], plus)
    IN  Cells(at.total, UNION {{<<at.out[i] + j, <<i, j>>, S[i][j]>> : j \in DOMAIN S[i]} : i \in DOMAIN S})

(* mcss.h: the greatest sum of a contiguous part, of one at the beginning, *)
(* of one at the end, and the sum.                                         *)
mcss(A) == reduce([i \in DOMAIN A |-> <<A[i], A[i], A[i], A[i]>>], [op |-> "quad"])[1]

(* primes.h: in blocks of the root's length, each sieved by the primes up  *)
(* to the root.                                                            *)
RECURSIVE primes(_)
primes(n) ==
    LET root  == FloorSqrt(n)
        sqrt_primes == ToSet(primes(root))
        first(p, start) == Larger(2 * p, ((start - 1) \div p + 1) * p)
        sieved(i) == LET start == root * i IN
            UNION {{k \in first(p, start)..(Minimum(start + root, n + 1) - 1) : (k - first(p, start)) % p = 0}
                   : p \in sqrt_primes}
        cleared == {0, 1} \cup UNION {sieved(i) : i \in 0..(n \div root)}
    IN  IF n < 2 THEN << >> ELSE pack_index([i \in 1..(n + 1) |-> i - 1 \notin cleared])

(* helper/heap_tree.h and kth_smallest.h came into the library as they are.*)
heap_tree_find(pivots, x) == heap_rank(pivots, x)

example_kth_smallest(in, k) == kth_smallest_copy(in, k)

-----------------------------------------------------------------------------
(* mergesort.h.  The shorter sequence is divided where the middle element  *)
(* of the longer one would go; elements of one key may change places then. *)
RECURSIVE example_merge(_, _)
example_merge(A, B) ==
    LET n1   == Len(A)
        n2   == Len(B)
        mid2 == Cardinality({j \in DOMAIN B : less(B[j], A[n1 \div 2 + 1])})
    IN  IF n1 + n2 < ex_len THEN seq_merge(A, B)
        ELSE IF n1 = 0 THEN B
        ELSE IF n2 = 0 THEN A
        ELSE IF n1 < n2 THEN example_merge(B, A)
        ELSE example_merge(cut(A, 0, n1 \div 2), cut(B, 0, mid2))
               \o example_merge(cut(A, n1 \div 2, n1), cut(B, mid2, n2))

(* Both sequences afterwards.                                              *)
RECURSIVE example_merge_sort_(_, _, _)
example_merge_sort_(in, out, inplace) ==
    LET n == Len(in)
        half(s, e) == example_merge_sort_(cut(in, s, e), cut(out, s, e), ~inplace)
        low    == half(0, n \div 2)
        high   == half(n \div 2, n)
        sorted == insertion_sort(in)
    IN  IF n < ex_block THEN [in |-> sorted, out |-> IF inplace THEN out ELSE sorted]
        ELSE IF inplace THEN [in |-> example_merge(low.out, high.out), out |-> low.out \o high.out]
        ELSE [in |-> low.in \o high.in, out |-> example_merge(low.in, high.in)]

example_merge_sort(in) == example_merge_sort_(in, [i \in DOMAIN in |-> Torn], TRUE).in

(* quicksort.h.  The upper part is sorted into in, not into out, of which  *)
(* that part stays as it was.                                              *)
RECURSIVE qsort(_, _)
qsort(in, out) ==
    LET n     == Len(in)
        pivot == insertion_sort([i \in 1..ex_samples |-> in[((i - 1) * n) \div ex_samples + 1]])[ex_samples \div 2 + 1]
        x     == count_sort(in, [i \in DOMAIN in |-> IF less(in[i], pivot) THEN 0 ELSE IF less(pivot, in[i]) THEN 2 ELSE 1], 3)
        nl    == x.offsets[2]
        nm    == x.offsets[3]
        low   == qsort(cut(x.Out, 0, nl), cut(out, 0, nl)).out
        high  == qsort(cut(x.Out, nm, n), cut(in, nm, n)).out
    IN  IF n < ex_large THEN [in |-> in, out |-> insertion_sort(in)]
        ELSE [in |-> cut(in, 0, nm) \o high, out |-> low \o cut(x.Out, nl, nm) \o cut(out, nm, n)]

example_quicksort(in) == qsort(in, [i \in DOMAIN in |-> Torn]).out

(* samplesort.h: two levels of buckets.  One between equal pivots is only  *)
(* copied.                                                                 *)
RECURSIVE sample_sort_at(_, _)
sample_sort_at(in, level) ==
    LET n       == Len(in)
        buckets == 2^Minimum(ex_bits, log2_up(n) - log2_up(ex_cutoff) + 1)
        over    == OVER_SAMPLE
        oversample == insertion_sort([i \in 1..(buckets * over) |-> in[(hash64[i] % n) + 1]])
        pivots  == [i \in 1..(buckets - 1) |-> oversample[i * over + 1]]
        sorted  == count_sort(in, [i \in 1..n |-> heap_tree_find(pivots, in[i])], buckets)
        bucket(i) == cut(sorted.Out, sorted.offsets[i], sorted.offsets[i + 1])
    IN  IF n <= ex_cutoff \/ level > 2 THEN insertion_sort(in)
        ELSE Cells(n, UNION {Place(sorted.offsets[i], i,
                IF i = 1 \/ i = buckets \/ less(pivots[i - 1], pivots[i]) THEN sample_sort_at(bucket(i), level + 1)
                ELSE bucket(i)) : i \in 1..buckets})

example_sample_sort(in) == sample_sort_at(in, 1)

-----------------------------------------------------------------------------
(* range_min.h, which has the library's table and another query.           *)
preprocess(a, size) == precomputeQueries(a, size)

example_query(a, table, size, i, j) ==
    LET bi   == i \div size
        bj   == j \div size
        minl == LeastIn(a, i, (bi + 1) * size - 1)
        minr == LeastIn(a, bj * size, j)
        k    == log2_up(bj - bi - 1) - 1
        between == IF bj - bi = 2 THEN table[1][bi + 1]
                   ELSE IF bj - bi = 3 THEN table[2][bi + 1]
                   ELSE min_index(a, table[k + 1][bi + 1], table[k + 1][bj - 2^k])
    IN  IF bi >= bj - 1 THEN LeastIn(a, i, j) ELSE min_index(a, minl, min_index(a, between, minr))

(* longest_common_prefix.h.  In the first rounds neighbours are compared   *)
(* letter by letter, a block in each; then a round doubles what is known,  *)
(* by minima over L, which it changes: see LCPRound.                       *)
Compared(s, SA, r) ==
    LET n      == Len(SA)
        end(i) == Minimum(r.offset + ex_block, n - SA[i])
        agree  == [i \in ToSet(r.remain) |->
                     FirstOr({k \in r.offset..(end(i) - 1) : SA[i + 1] + k >= n \/ s[SA[i] + k + 1] # s[SA[i + 1] + k + 1]},
                             end(i))]
        far    == r.offset + ex_block
    IN  [L      |-> [i \in DOMAIN r.L |-> IF i \in ToSet(r.remain) /\ agree[i] < far THEN agree[i] ELSE r.L[i]],
         remain |-> pack(r.remain, [k \in DOMAIN r.remain |-> agree[r.remain[k]] >= far]),
         offset |-> far,
         work   |-> r.work + Len(r.remain)]

DoubledRound(SA, r, ordered) ==
    LET n     == Len(SA)
        ISA   == [x \in 0..(n - 1) |-> (CHOOSE i \in 1..n : SA[i] = x) - 1]
        table == preprocess(r.L, ex_block)
        least(now, i) == now[example_query(now, table, ex_block, ISA[SA[i] + r.offset], ISA[SA[i + 1] + r.offset] - 1) + 1]
        Resolve(now, i) == IF SA[i] + r.offset >= n THEN [now EXCEPT ![i] = r.offset]
                           ELSE IF least(now, i) < r.offset THEN [now EXCEPT ![i] = r.offset + least(now, i)]
                           ELSE now
        L     == IF ordered = "at once"
                 THEN cut([i \in DOMAIN r.L |-> IF i \in ToSet(r.remain) THEN Resolve(r.L, i)[i] ELSE r.L[i]], 0, n - 1)
                 ELSE FoldLeft(Resolve, r.L, IF ordered = "down" THEN reversed(r.remain) ELSE r.remain)
    IN  [r EXCEPT !.L = L, !.remain = filter(@, [k \in DOMAIN @ |-> L[@[k]] = n]), !.offset = 2 * @]

RECURSIVE PrefixRounds(_, _, _, _)
PrefixRounds(s, SA, r, ordered) ==
    IF r.remain = << >> THEN r.L
    ELSE PrefixRounds(s, SA, IF r.work < 2 * Len(SA) THEN Compared(s, SA, r) ELSE DoubledRound(SA, r, ordered), ordered)

example_lcp(s, SA, ordered) ==
    LET n == Len(SA) IN
    PrefixRounds(s, SA, [L |-> [i \in 1..(n - 1) |-> n], remain |-> [i \in 1..(n - 1) |-> i], offset |-> 0, work |-> 0],
                 ordered)

-----------------------------------------------------------------------------
(* suffix_array.h.  Segments of equal keys end where flags say, and the    *)
(* ranks of their suffixes are where they start; those of one are dropped. *)
segs_from_flags(sorted, flags, seg_start) ==
    LET offsets == pack_index(flags)
        segs == [j \in DOMAIN offsets |->
                   [start |-> seg_start + offsets[j],
                    end   |-> seg_start + (IF j = Len(offsets) THEN Len(flags) ELSE offsets[j + 1])]]
    IN  [ranks |-> UNION {{<<sorted[i], segs[j].start>> : i \in (segs[j].start + 1)..segs[j].end} : j \in DOMAIN segs},
         segs  |-> filter(segs, [j \in DOMAIN segs |-> segs[j].end - segs[j].start > 1])]

Flagged(keys) == [i \in DOMAIN keys |-> i = 1 \/ keys[i] # keys[i - 1]]

(* ranks: pairs of a suffix and its rank.  A suffix that ends at the       *)
(* offset gets the key 0, as does one that the first of all follows there: *)
(* once the offset is past the end, two such stay together for ever.       *)
RECURSIVE SegmentRounds(_, _, _, _)
SegmentRounds(sorted, ranks, segments, offset) ==
    LET n == Len(sorted)
        key(k) == IF k + offset >= n THEN 0 ELSE (CHOOSE r \in ranks : r[1] = k + offset)[2]
        p     == cut([g \in DOMAIN segments |->
                   sample_sort_inplace([i \in 1..(segments[g].end - segments[g].start) |->
                       LET k == sorted[segments[g].start + i] IN <<key(k) * n + k, k>>], FALSE, FALSE)], 0, Len(segments))
        moved == cut([i \in 1..n |->
                   LET in == {g \in DOMAIN segments : segments[g].start < i /\ i <= segments[g].end} IN
                   IF in = {} THEN sorted[i]
                   ELSE LET g == CHOOSE g \in in : TRUE IN p[g][i - segments[g].start][2]], 0, n)
        split == cut([g \in DOMAIN segments |->
                   segs_from_flags(moved, Flagged([i \in DOMAIN p[g] |-> p[g][i][1] \div n]), segments[g].start)],
                     0, Len(segments))
        new   == UNION {split[g].ranks : g \in DOMAIN split}
    IN  IF segments = << >> THEN sorted
        ELSE IF offset >= n THEN <<Torn>>
        ELSE SegmentRounds(moved, new \cup {r \in ranks : \A q \in new : q[1] # r[1]},
                           flatten([g \in DOMAIN split |-> split[g].segs]), 2 * offset)

example_suffix_array(S) ==
    LET n   == Len(S)
        key(i) == FoldLeft(LAMBDA r, j : r * UCHAR + (IF i + j <= n THEN S[i + j] ELSE 0), 0,
                           [j \in 1..packed_chars |-> j])
        Cl  == sample_sort([i \in 1..n |-> <<key(i - 1) * n + i - 1, i - 1>>], FALSE, FALSE, FALSE)
        top == segs_from_flags(Tags(Cl), Flagged([j \in 1..n |-> Cl[j][1] \div n]), 0)
    IN  SegmentRounds(Tags(Cl), top.ranks, top.segs, packed_chars)

longest_repeated_substring(s, sa) ==
    LET lcps == example_lcp(s, sa, "at once")
        idx  == max_element([k \in DOMAIN lcps |-> <<lcps[k]>>]) + 1
    IN  <<lcps[idx], sa[idx], sa[idx + 1]>>

(* tokens.h: the places where space and token meet, in pairs.              *)
example_tokens(A) ==
    LET n     == Len(A)
        check == [i \in 1..(n + 1) |-> IF i = n + 1 THEN ~is_space(A[n])
                                       ELSE IF i = 1 THEN ~is_space(A[1])
                                       ELSE is_space(A[i]) # is_space(A[i - 1])]
        ids   == filter([i \in 1..(n + 1) |-> i - 1], check)
    IN  [i \in 1..(Len(ids) \div 2) |-> cut(A, ids[2 * i - 1], ids[2 * i])]

(* word_counts.h: the most frequent first.                                 *)
word_counts(A) ==
    LET words == tokens_of(A)
        order == Alphabetical(words)
        pairs == histogram_by_key([i \in DOMAIN words |-> <<PlaceOf(order, words[i]), i>>])
        ranked == sample_sort([i \in DOMAIN pairs |-> <<-pairs[i][2], i>>], FALSE, FALSE, FALSE)
    IN  [i \in DOMAIN ranked |-> <<order[pairs[ranked[i][2]][1] + 1], -ranked[i][1]>>]

-----------------------------------------------------------------------------
(* knuth_morris_pratt.h.  tail is the last place of the pattern that       *)
(* agrees; behind a whole match the letter behind the pattern is asked     *)
(* for, which is taken for none of the text's.                             *)
RECURSIVE Fallback(_, _, _, _)
Fallback(failure, P, tail, c) ==
    IF tail = -1 \/ P[tail + 2] = c THEN tail ELSE Fallback(failure, P, failure[tail + 1], c)

Matched(failure, P, tail, c) ==
    LET t == Fallback(failure, P, tail, c) IN IF P[t + 2] = c THEN t + 1 ELSE t

failures(pattern) ==
    FoldLeft(LAMBDA f, c : Append(f, Matched(f, pattern, Last(f), c)), <<-1>>, Tail(pattern))

SearchBlock(str, pattern, start, len) ==
    LET n       == Len(pattern)
        m       == Len(str)
        failure == failures(pattern)
        Read(b, i) ==
            LET tail == Matched(failure, Append(pattern, Torn), b.tail, str[i + 1])
            IN  IF i - b.tail > Minimum(start + len, m) THEN b
                ELSE [tail |-> tail, out |-> IF tail = n - 1 THEN Append(b.out, i - tail) ELSE b.out]
    IN  FoldLeft(Read, [tail |-> -1, out |-> << >>],
                 [k \in 1..(Minimum(start + len + n, m) - start) |-> start + k - 1]).out

knuth_morris_pratt(str, pattern) ==
    LET n   == Len(pattern)
        m   == Len(str)
        len == Larger(n, ex_len)
    IN  IF n = 0 \/ m = 0 \/ n > m THEN << >>
        ELSE flatten([k \in 1..((m - 1) \div len + 1) |-> SearchBlock(str, pattern, (k - 1) * len, len)])

(* rabin_karp.h.  The bits above the prime's are added to the others: of   *)
(* the numbers for zero, 0 and the prime, a sum is 0 only if its terms are.*)
Folded(x) == (x % 2^field_bits) + x \div 2^field_bits
field_plus(a, b)  == Folded(a + b)
field_times(a, b) == Folded(Folded(a * b))

(* The prefixes' hashes are sums, but for the last place the product of    *)
(* all powers is taken where the sum is meant.                             *)
rabin_karp(s, str) ==
    LET n      == Len(s)
        m      == Len(str)
        power  == FoldLeft(LAMBDA p, i : Append(p, field_times(p[i], field_x)), <<1>>, [i \in 1..n |-> i])
        hashes == FoldLeft(LAMBDA h, i : Append(h, field_plus(h[i], field_times(s[i], power[i]))), <<0>>,
                           [i \in 1..n |-> i])
        hash   == FoldLeft(LAMBDA h, i : field_plus(h, field_times(str[i], power[i])), 0, [i \in 1..m |-> i])
        end(i) == IF i = n - m THEN power[n + 1] ELSE hashes[i + m + 1]
    IN  pack_index([i \in 1..(n - m + 1) |->
            /\ field_plus(field_times(hash, power[i]), hashes[i]) = end(i - 1)
            /\ cut(s, i - 1, i - 1 + m) = str])

-----------------------------------------------------------------------------
(* minimum_edit_distance.h.  A block takes the row above it, the column    *)
(* left of it and the distance between these, and gives its last ones.     *)
do_block(row_in, s1, col_in, s2, diag) ==
    LET Line(b, j) ==
            FoldLeft(LAMBDA x, i :
                       LET d == IF s1[i] = s2[j] THEN x.diag ELSE 1 + Minimum(x.row[i], x.prev)
                       IN  [row |-> [x.row EXCEPT ![i] = d], prev |-> d, diag |-> x.row[i]],
                     [row |-> b.row, prev |-> col_in[j], diag |-> b.diag], [i \in DOMAIN s1 |-> i])
        Step(b, j) == LET line == Line(b, j)
                      IN  [row |-> line.row, diag |-> col_in[j], col |-> Append(b.col, line.prev)]
    IN  FoldLeft(Step, [row |-> row_in, diag |-> diag, col |-> << >>], [j \in DOMAIN s2 |-> j])

(* The blocks (k - j, j), from 0, of diagonal k.  The last of them leaves  *)
(* its corner in da unset, also when the next diagonal has a block that    *)
(* starts there.                                                           *)
Diagonal(t, k, s1, s2) ==
    LET n     == Len(s1)
        m     == Len(s2)
        nb    == (n - 1) \div ex_block + 1
        mb    == (m - 1) \div ex_block + 1
        first == IF k < nb THEN 0 ELSE k - nb + 1
        end   == Minimum(k + 1, mb)
        part(A, b) == cut(A, b * ex_block, Minimum((b + 1) * ex_block, Len(A)))
        done  == cut([x \in 1..mb |->
                   LET j == x - 1
                       i == k - j
                   IN  IF j < first \/ j >= end THEN [row |-> << >>, col |-> part(t.c, j)]
                       ELSE do_block(part(t.ra, i), part(s1, i), part(t.c, j), part(s2, j),
                                     IF j = 0 THEN i * ex_block ELSE t.da[j])], 0, mb)
    IN  [ra |-> FlattenSeq([y \in 1..nb |-> LET j == k - (y - 1) IN
                              IF first <= j /\ j < end THEN done[j + 1].row ELSE part(t.rb, y - 1)]),
         rb |-> t.ra,
         c  |-> FlattenSeq([x \in 1..mb |-> done[x].col]),
         da |-> [x \in 1..mb |-> IF first < x /\ x < end THEN t.c[x * ex_block] ELSE t.db[x]],
         db |-> t.da]

RECURSIVE minimum_edit_distance(_, _)
minimum_edit_distance(s1, s2) ==
    LET n     == Len(s1)
        m     == Len(s2)
        zeros == [x \in 1..((m - 1) \div ex_block + 1) |-> 0]
        ones(len) == [x \in 1..len |-> x]
    IN  IF n < m THEN minimum_edit_distance(s2, s1)
        ELSE FoldLeft(LAMBDA t, k : Diagonal(t, k, s1, s2),
                      [ra |-> ones(n), rb |-> ones(n), c |-> ones(m), da |-> zeros, db |-> zeros],
                      [k \in 1..((n - 1) \div ex_block + (m - 1) \div ex_block + 1) |-> k - 1]).ra[n]

-----------------------------------------------------------------------------
(* bigint_add.h: digits from the least, the last one with the sign.  The   *)
(* one to add is looked at for carries, but not added to the first digit;  *)
(* a digit that two numbers of one sign need besides is 1 or all ones.     *)
mask == 2^digit_bits - 1
Negative(a) == 2 * Last(a) > mask

RECURSIVE add(_, _, _)
add(a, b, extra_one) ==
    LET na   == Len(a)
        B(i) == IF i <= Len(b) THEN b[i] ELSE IF Negative(b) THEN mask ELSE 0
        c    == scan([i \in 1..na |-> LET s == a[i] + B(i) + (IF extra_one /\ i = 1 THEN 1 ELSE 0) IN
                        IF s > mask THEN "yes" ELSE IF s = mask THEN "propagate" ELSE "no"], [op |-> "carry"]).out
        digits == [i \in 1..na |-> (a[i] + B(i) + (IF c[i] = "yes" THEN 1 ELSE 0)) % (mask + 1)]
        add_digit == Negative(a) = Negative(b) /\ Negative(digits) # Negative(a)
    IN  IF na < Len(b) THEN add(b, a, extra_one)
        ELSE IF b = << >> THEN a
        ELSE IF add_digit THEN Append(digits, IF Negative(a) THEN mask ELSE 1) ELSE digits

subtract(a, b) == add(a, [i \in DOMAIN b |-> mask - b[i]], TRUE)

(* karatsuba.h, for small numbers: the product of two digits has the width *)
(* of one, and of a longer number only as many digits are taken as the     *)
(* shorter one has.                                                        *)
RECURSIVE small_multiply(_, _)
small_multiply(a, b) ==
    LET na == Len(a)
        nb == Len(b)
        Digit(result, i) ==
            LET accum == FoldLeft(LAMBDA x, j : x + ((a[j + 1] * b[i - j + 1]) % (mask + 1)), result[i + 1],
                                  [k \in 1..(Minimum(i + 1, nb) - Larger(0, i - nb + 1)) |-> Larger(0, i - nb + 1) + k - 1])
            IN  [result EXCEPT ![i + 1] = accum % (mask + 1), ![i + 2] = accum \div (mask + 1)]
    IN  IF na < nb THEN small_multiply(b, a)
        ELSE FoldLeft(Digit, [i \in 1..(na + nb) |-> 0], [i \in 1..(na + nb - 1) |-> i - 1])

-----------------------------------------------------------------------------
(* The examples of primitives do what the library's primitives do, for     *)
(* blocks of any remainder; of quicksort every place that is written holds *)
(* what a sort would put there, and below its threshold all are.           *)
ExamplesRight(A) ==
    LET n    == Len(A)
        One  == [i \in DOMAIN A |-> <<A[i]>>]
        zero == {i \in 0..(n - 1) : A[i + 1][1] = 0}
        kept == [i \in DOMAIN A |-> A[i][1] # 0]
        sums == [i \in DOMAIN A |-> 3 * A[i][1] - 2]
        quick == example_quicksort(A)
        order == KeysIn(insertion_sort(A))
        Sum(s, e) == reduce_serial(cut(sums, s, e), plus)
    IN  /\ example_scan(One, append_all) = [out |-> [i \in DOMAIN A |-> SubSeq(A, 1, i - 1)], total |-> A]
        /\ example_reduce(One, append_all) = A
        /\ example_find_if(n, zero) = FirstOr(zero, n)
        /\ example_filter(A, kept) = SelectSeq(A, LAMBDA a : a[1] # 0)
        /\ example_flatten(Nested(A)) = FlattenSeq(Nested(A))
        /\ n > 0 => LET parts == {Sum(i - 1, j) : <<i, j>> \in {p \in (1..n) \X (1..n) : p[1] <= p[2]}}
                    IN  mcss(sums) \in parts /\ \A x \in parts : x <= mcss(sums)
        /\ \A k \in 0..(n - 1) : example_kth_smallest(A, k) \in {Torn} \cup {a \in ToSet(A) : a[1] = order[k + 1]}
        /\ SortedFrom(A, example_merge_sort(A))
        /\ SortedFrom(A, example_sample_sort(A))
        /\ \A i \in DOMAIN A : (n >= ex_large /\ quick[i] = Torn) \/ quick[i][1] = order[i]
        /\ n > 0 => example_tokens(A) = TokensOf(A)
        /\ LET letters == [i \in DOMAIN A |-> <<A[i][1]>>]
               counts == word_counts(letters)
               words  == TokensOf(letters)
           IN  /\ ToSet(counts) = {<<w, Cardinality({i \in DOMAIN words : words[i] = w})>> : w \in ToSet(words)}
               /\ \A i \in 1..(Len(counts) - 1) : counts[i][2] >= counts[i + 1][2]

PrimesRight(n) == ToSet(primes(n)) = {p \in 2..n : \A d \in 2..(p - 1) : p % d # 0}

(* The greatest length of a common subsequence.                            *)
RECURSIVE Common(_, _)
Common(s, t) ==
    IF s = << >> \/ t = << >> THEN 0
    ELSE IF Last(s) = Last(t) THEN 1 + Common(Front(s), Front(t))
    ELSE Larger(Common(Front(s), t), Common(s, Front(t)))

Matches(str, pattern) ==
    {i \in 0..(Len(str) - Len(pattern)) : cut(str, i, i + Len(pattern)) = pattern}

(* Both searches find the places where a pattern occurs, but for the very  *)
(* last one of Rabin and Karp, and once each, unless the pattern is one    *)
(* letter repeated; distances are exact if one string fits into a block    *)
(* and never too long.                                                     *)
StringSearchesRight(str, pattern) ==
    LET n     == Len(str)
        m     == Len(pattern)
        kmp   == knuth_morris_pratt(str, pattern)
        rk    == rabin_karp(str, pattern)
        exact == n + m - 2 * Common(str, pattern)
    IN  n >= m /\ m > 0 =>
        /\ ToSet(kmp) = Matches(str, pattern)
        /\ Cardinality(ToSet(pattern)) > 1 => \A i \in 1..(Len(kmp) - 1) : kmp[i] < kmp[i + 1]
        /\ ToSet(rk) \subseteq Matches(str, pattern)
        /\ Matches(str, pattern) \ {n - m} \subseteq ToSet(rk)
        /\ minimum_edit_distance(pattern, str) <= exact
        /\ m <= ex_block => minimum_edit_distance(pattern, str) = exact

(* If the suffix array comes to an end it is one; common prefixes are      *)
(* right in whatever order the rounds change them, and minima are minima.  *)
SuffixExamplesRight(s) ==
    LET n  == Len(s)
        SA == example_suffix_array([i \in 1..n |-> s[i] + 1])
        right == suffixArray(s)
    IN  n > 0 =>
        /\ SA = <<Torn>> \/ SA = right
        /\ \A ordered \in {"up", "down", "at once"} :
             example_lcp(s, right, ordered) = [i \in 1..(n - 1) |-> CommonPrefix(s, right[i], right[i + 1])]
        /\ \A size \in 1..2, i, j \in 0..(n - 1) : i <= j =>
             LET q == example_query(s, preprocess(s, size), size, i, j)
             IN  q \in i..j /\ \A k \in i..j : s[q + 1] <= s[k + 1]
        /\ n > 1 => LET r == longest_repeated_substring(s, right) IN
             r[1] = CommonPrefix(s, r[2], r[3]) /\ \A i, j \in 0..(n - 1) : i # j => CommonPrefix(s, i, j) <= r[1]

Digits(a) == FoldLeft(LAMBDA x, i : x + a[i] * (mask + 1)^(i - 1), 0, [i \in DOMAIN a |-> i])
Value(a) == Digits(a) - (IF Negative(a) THEN (mask + 1)^Len(a) ELSE 0)

(* A sum is the sum, unless two numbers that are not negative need one     *)
(* more digit; a difference is right in all digits but the first; and a    *)
(* product of numbers of one length whose digits have small products is    *)
(* the product.                                                            *)
BigNumbersRight(a, b) ==
    LET len  == Larger(Len(a), Len(b))
        grows == ~Negative(a) /\ ~Negative(b) /\ 2 * (Value(a) + Value(b)) >= (mask + 1)^len
    IN  a # << >> /\ b # << >> =>
        /\ ~grows => Value(add(a, b, FALSE)) = Value(a) + Value(b)
        /\ \A i \in 2..len : subtract(a, b)[i] = ((Value(a) - Value(b)) \div (mask + 1)^(i - 1)) % (mask + 1)
        /\ Len(a) = Len(b) /\ (\A i \in DOMAIN a, j \in DOMAIN b : a[i] * b[j] <= mask) =>
             Digits(small_multiply(a, b)) = Digits(a) * Digits(b)
=============================================================================
