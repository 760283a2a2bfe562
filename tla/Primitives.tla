------------------------------ MODULE Primitives ------------------------------
(***************************************************************************)
(* primitives.h: searches, tests, permutations, tokens, splits and         *)
(* selection, on the operations of the modules below.  Positions are those *)
(* of the code, from 0; a test is the set of the positions that pass it.   *)
(***************************************************************************)
EXTENDS Grouping, Delayed

CONSTANTS
    granularity,        \* of find_if_index: 1000
    tokens_serial,      \* from 2000 characters on, tokens uses map_tokens
    kth_cutoff,         \* 1000
    kth_pivots,         \* 31: one less than a power of two
    kth_over            \* 8

Least(S) == CHOOSE x \in S : \A y \in S : x <= y

FirstOr(S, none) == IF S = {} THEN none ELSE Least(S)

same(a, b) == a[1] = b[1]

Where(A, p) == {i \in 0..(Len(A) - 1) : p[A[i + 1]]}

-----------------------------------------------------------------------------
count_if_index(n, P) == reduce([i \in 1..n |-> IF i - 1 \in P THEN 1 ELSE 0], plus)

(* Blocks that double, each searched in parallel; write_min keeps the first.*)
RECURSIVE FindFrom(_, _, _, _)
FindFrom(start, size, n, P) ==
    IF start >= n THEN n
    ELSE LET here == P \cap (start..(Minimum(n, start + size) - 1))
         IN  IF here # {} THEN Least(here) ELSE FindFrom(start + size, 2 * size, n, P)


find_if_index(n, P) ==
    LET first == P \cap (0..(Minimum(granularity, n) - 1))
    IN  IF first # {} THEN Least(first)
        ELSE IF n <= granularity THEN n ELSE FindFrom(granularity, 2 * granularity, n, P)

all_of(A, p)  == count_if_index(Len(A), Where(A, p)) = Len(A)
any_of(A, p)  == count_if_index(Len(A), Where(A, p)) > 1
none_of(A, p) == count_if_index(Len(A), Where(A, p)) = 0

find_if(A, p)     == find_if_index(Len(A), Where(A, p))
find_if_not(A, p) == find_if_index(Len(A), (0..(Len(A) - 1)) \ Where(A, p))

find_first_of(A, B) ==
    find_if_index(Len(A), {i \in 0..(Len(A) - 1) :
        find_if_index(Len(B), {j \in 0..(Len(B) - 1) : same(B[j + 1], A[i + 1])}) # Len(B)})

(* The size of an empty range less one is the largest size_t: the search   *)
(* reads what is not there.                                                *)
adjacent_find(A) ==
    IF A = << >> THEN Torn
    ELSE LET idx == find_if_index(Len(A) - 1, {i \in 0..(Len(A) - 2) : same(A[i + 1], A[i + 2])})
         IN  IF idx = Len(A) - 1 THEN Len(A) ELSE idx

mismatch(A, B) ==
    LET n == Minimum(Len(A), Len(B)) IN find_if_index(n, {i \in 0..(n - 1) : ~same(A[i + 1], B[i + 1])})

MatchesAt(A, B, i) == i + Len(B) <= Len(A) /\ \A j \in DOMAIN B : same(A[i + j], B[j])

search(A, B) == find_if_index(Len(A), {i \in 0..(Len(A) - 1) : MatchesAt(A, B, i)})

(* n1 - n2 + 1 wraps for a pattern that is longer by two or more.          *)
find_end(A, B) ==
    LET n   == Len(A) - Len(B) + 1
        idx == find_if_index(n, {i \in 0..(n - 1) : MatchesAt(A, B, Len(A) - i - Len(B))})
    IN  IF B = << >> THEN Len(A)
        ELSE IF n < 0 THEN Torn
        ELSE IF idx = n THEN Len(A) ELSE Len(A) - idx - Len(B)

equal(A, B) == Len(A) = Len(B) /\ mismatch(A, B) = Len(A)

lexicographical_compare(A, B) ==
    LET m == Minimum(Len(A), Len(B))
        i == find_if_index(m, {k \in 0..(m - 1) : less(A[k + 1], B[k + 1]) \/ less(B[k + 1], A[k + 1])})
    IN  IF i < m THEN less(A[i + 1], B[i + 1]) ELSE Len(A) < Len(B)

-----------------------------------------------------------------------------
unique(A) == pack(A, [i \in DOMAIN A |-> i = 1 \/ ~same(A[i], A[i - 1])])

min_element(A) ==
    IF A = << >> THEN 0 ELSE reduce([i \in DOMAIN A |-> i], [op |-> "min", of |-> A]) - 1

max_element(A) == min_element([i \in DOMAIN A |-> <<-A[i][1]>>])

minmax_element(A) ==
    IF A = << >> THEN <<0, 0>>
    ELSE LET ds == reduce([i \in DOMAIN A |-> <<i, i>>], [op |-> "minmax", of |-> A])
         IN  <<ds[1] - 1, ds[2] - 1>>

reversed(A) == [i \in DOMAIN A |-> A[Len(A) - i + 1]]

reverse_inplace(A) ==
    LET n == Len(A) IN
    Cells(n, UNION {{<<i, i, A[n - i + 1]>>, <<n - i + 1, i, A[i]>>} : i \in 1..(n \div 2)}
             \cup (IF n % 2 = 1 THEN {<<n \div 2 + 1, 0, A[n \div 2 + 1]>>} ELSE {}))

rotate(A, t) == [i \in DOMAIN A |-> IF i + t <= Len(A) THEN A[i + t] ELSE A[i + t - Len(A)]]

is_sorted(A) == ~reduce([i \in 1..(Len(A) - 1) |-> less(A[i + 1], A[i])], logical_or)

is_sorted_until(A) ==
    IF A = << >> THEN 0
    ELSE find_if_index(Len(A) - 1, {i \in 0..(Len(A) - 2) : less(A[i + 2], A[i + 1])}) + 1

is_partitioned(A, p) ==
    LET d == find_if_not(A, p) IN
    d = Len(A) \/ LET rest == SubSeq(A, d + 2, Len(A)) IN find_if(rest, p) = Len(rest)

remove_if(A, p) == pack(A, [i \in DOMAIN A |-> ~p[A[i]]])

flatten(S) ==
    LET at == Offsets(S) IN Cells(at.total, UNION {Place(at.out[i], i, S[i]) : i \in DOMAIN S})

-----------------------------------------------------------------------------
(* An element of key 0 is white space.                                     *)
is_space(a) == a[1] = 0

(* The places where space and token meet, in pairs.                        *)
map_tokens_small(A) ==
    LET n     == Len(A)
        edge  == [i \in 0..n |-> IF i = 0 THEN ~is_space(A[1])
                                 ELSE IF i = n THEN ~is_space(A[n])
                                 ELSE is_space(A[i]) # is_space(A[i + 1])]
        at    == to_sequence(block_delayed_filter_op(random_access([i \in 1..(n + 1) |-> i - 1]),
                                                     edge, [i \in 0..n |-> i]))
    IN  IF n = 0 THEN << >>
        ELSE [i \in 1..(Len(at) \div 2) |-> cut(A, at[2 * i - 1], at[2 * i])]

(* A delayed scan gives, at each place, the tokens begun before it and     *)
(* where the last of them did; the place a token ends at writes it.        *)
map_tokens(A) ==
    LET n        == Len(A)
        start(i) == (i = 0 \/ is_space(A[i])) /\ i # n /\ ~is_space(A[i + 1])
        end(i)   == (i = n \/ is_space(A[i + 1])) /\ i # 0 /\ ~is_space(A[i])
        tokens   == [op |-> "tokens"]
        in       == [i \in 1..(n + 1) |-> IF start(i - 1) THEN <<1, i - 1>> ELSE <<0, 0>>]
        z        == block_delayed_zip(block_delayed_scan(random_access(in), tokens, FALSE),
                                      random_access([i \in 1..(n + 1) |-> i - 1]))
        sum      == reduce(in, tokens)
    IN  IF n = 0 THEN << >>
        ELSE Cells(sum[1], UNION {{<<x[1][1], x[2], cut(A, x[1][2], x[2])>> :
                                      x \in {y \in ToSet(z.blocks[b]) : end(y[2])}} : b \in DOMAIN z.blocks})

tokens_of(A) == IF Len(A) < tokens_serial THEN map_tokens_small(A) ELSE map_tokens(A)

map_split_at(A, F) ==
    LET at == pack_index(F)
        m  == Len(at)
    IN  [i \in 1..(m + 1) |-> cut(A, IF i = 1 THEN 0 ELSE at[i - 1] + 1,
                                     IF i = m + 1 THEN Len(A) ELSE at[i] + 1)]

remove_duplicates_ordered(A) == unique(sample_sort(A, TRUE, TRUE, FALSE))

append(A, B) == [i \in 1..(Len(A) + Len(B)) |-> IF i <= Len(A) THEN A[i] ELSE B[i - Len(A)]]

(* Equal elements have ranks one after the other.                          *)
rank(A) ==
    LET position == merge_sort([i \in DOMAIN A |-> <<A[i][1], i>>])
    IN  Cells(Len(A), {<<position[i][2], i, i - 1>> : i \in DOMAIN position})

-----------------------------------------------------------------------------
(* heap_tree: the last level decides between the two sides of a leaf.      *)
RECURSIVE HeapDescend(_, _, _, _)
HeapDescend(tree, x, j, levels) ==
    IF levels = 0 THEN 1 + 2 * j + (IF less(x, tree[j + 1]) THEN 0 ELSE 1)
    ELSE HeapDescend(tree, x, 1 + 2 * j + (IF less(tree[j + 1], x) THEN 1 ELSE 0), levels - 1)

heap_rank(pivots, x) ==
    HeapDescend(to_balanced_tree(pivots), x, 0, log2_up(Len(pivots) + 1) - 1) - Len(pivots)

(* The bucket of the k-th key, and what is left of k in it.                *)
KthStep(in, k) ==
    LET n       == Len(in)
        sampled == sample_sort([i \in 1..(kth_pivots * kth_over) |-> in[(hash64[i] % n) + 1]], FALSE, FALSE, FALSE)
        pivots  == [i \in 1..kth_pivots |-> sampled[(i - 1) * kth_over + 1]]
        ids     == [i \in 1..n |-> heap_rank(pivots, in[i])]
        sums    == [b \in 1..(kth_pivots + 1) |-> Cardinality({i \in 1..n : ids[i] = b - 1})]
        offsets == scan(sums, plus).out
        id      == Holding(offsets, k)
    IN  [next |-> pack(in, [i \in 1..n |-> ids[i] = id - 1]), k |-> k - offsets[id]]

(* When every key is in one bucket the next call is the same again: it     *)
(* does not return.                                                        *)
RECURSIVE kth_smallest_copy(_, _)
kth_smallest_copy(in, k) ==
    IF Len(in) <= kth_cutoff THEN sample_sort(in, FALSE, FALSE, FALSE)[k + 1]
    ELSE LET step == KthStep(in, k)
         IN  IF step.next = in THEN Torn ELSE kth_smallest_copy(step.next, step.k)

-----------------------------------------------------------------------------
(* What programs call: each overload checks the types of its arguments and *)
(* passes them to one of the operations above.  Of arguments that may be   *)
(* left out there is a sequence, of length one or zero.                    *)

copy(A, Out) == IF Len(Out) < Len(A) THEN <<Torn>> ELSE A \o SubSeq(Out, Len(A) + 1, Len(Out))

for_each(A, f) == Cells(Len(A), {<<i, i, f[A[i]]>> : i \in DOMAIN A})

MonoidOr(given) == IF given = << >> THEN plus ELSE given[1]

reduce_call(A, given) == reduce(A, MonoidOr(given))

(* A scan in place returns the total alone, an inclusive one not in place  *)
(* the sums alone.                                                         *)
scan_call(A, given, inclusive, inplace) ==
    LET s == scan_(A, MonoidOr(given), inclusive) IN
    [A       |-> IF inplace THEN s.out ELSE A,
     returns |-> CASE inplace                 -> <<s.total>>
                   [] ~inplace /\ inclusive  -> <<s.out>>
                   [] ~inplace /\ ~inclusive -> <<s.out, s.total>>]

pack_into(A, F, Out) == pack_out(A, F, Out)

pack_index_call(F, values) == [k \in DOMAIN pack_index(F) |-> pack_index(F)[k] % values]

filter_into(A, fA, Out) == filter_out(A, fA, Out)

merge(A, B) == merge_into(A, B)

(* Of the four, only the stable sort in place is a merge sort.             *)
sort(A, stable, inplace, large, cache_oblivious) ==
    IF ~inplace THEN sample_sort(A, stable, large, cache_oblivious)
    ELSE IF stable THEN merge_sort_inplace(A) ELSE sample_sort_inplace(A, large, cache_oblivious)

(* The stable integer sorts are the others under another name.             *)
integer_sort_call(A, key, inplace) ==
    LET keyed == [i \in DOMAIN A |-> <<key[A[i]], A[i]>>]
    IN  Mapped(IF inplace THEN integer_sort_inplace(keyed, 0) ELSE integer_sort(keyed, 0),
               [x \in ToSet(keyed) |-> x[2]])

counting_sort(A, num_buckets, key, inplace) ==
    IF inplace THEN count_sort_inplace(A, Mapped(A, key), num_buckets).In
    ELSE count_sort(A, Mapped(A, key), num_buckets).Out

(* Of pairs it returns the second parts alone, sorted by the first ones.   *)
counting_sort_by_keys(A, num_buckets) == count_sort(Tags(A), KeysIn(A), num_buckets)

count_if(A, p)     == count_if_index(Len(A), Where(A, p))
count_of(A, value) == count_if_index(Len(A), {i \in 0..(Len(A) - 1) : A[i + 1] = value})
find(A, value)     == find_if_index(Len(A), {i \in 0..(Len(A) - 1) : A[i + 1] = value})

(* Sequences of up to serial_compare elements are compared one by one.     *)
operator_less(A, B, serial_compare) ==
    LET m  == Minimum(Len(A), Len(B))
        sa == FirstOr({i \in 0..(m - 1) : ~same(A[i + 1], B[i + 1])}, m)
    IN  IF Len(A) > serial_compare THEN lexicographical_compare(A, B)
        ELSE IF sa = m THEN Len(A) < Len(B) ELSE less(A[sa + 1], B[sa + 1])

remove(A, v) == remove_if(A, [x \in ToSet(A) |-> x = v])

iota_of(n) == random_access([i \in 1..n |-> i - 1])

(* The elements are relocated out of the inner sequences, which then are   *)
(* cleared without destroying them.                                        *)
flatten_moved(S) == [res |-> flatten(S), r |-> << >>, inner |-> [i \in DOMAIN S |-> << >>]]

split_at(A, F) == map_split_at(A, F)

map_maybe(A, p, g) == to_sequence(block_delayed_filter_op(random_access(A), p, g))

zip(A, B) == to_sequence(block_delayed_zip(random_access(A), random_access(B)))

(* On the iterators: its result is one of them.                            *)
kth_smallest(in, k) == kth_smallest_copy([i \in DOMAIN in |-> <<in[i][1], i>>], k)

-----------------------------------------------------------------------------
Distinct(A) == \A i, j \in DOMAIN A : i # j => ~same(A[i], A[j])

(* The maximal runs of elements that are not white space.                  *)
TokensOf(A) ==
    LET begins == PositionsOf([i \in DOMAIN A |-> i],
                              LAMBDA i : ~is_space(A[i]) /\ (i = 1 \/ is_space(A[i - 1])))
        upto(i) == Least({j \in i..Len(A) : j = Len(A) \/ is_space(A[j + 1])})
    IN  [k \in DOMAIN begins |-> SubSeq(A, begins[k], upto(begins[k]))]

(* A search that doubles its blocks finds the first match, wherever it is; *)
(* what is built on it agrees with its definition, for two ranges of any   *)
(* lengths that their preconditions allow.                                 *)
SearchesRight(A, B) ==
    LET n    == Len(A)
        zero == [x \in ToSet(A) |-> x[1] = 0]
        at   == {i \in 0..n : MatchesAt(A, B, i)}
        m    == Minimum(n, Len(B))
        differ == {i \in 0..(m - 1) : ~same(A[i + 1], B[i + 1])}
    IN  /\ find_if(A, zero) = FirstOr({i \in 0..(n - 1) : A[i + 1][1] = 0}, n)
        /\ find_if_not(A, zero) = FirstOr({i \in 0..(n - 1) : A[i + 1][1] # 0}, n)
        /\ find_first_of(A, B) = FirstOr({i \in 0..(n - 1) : A[i + 1][1] \in ToSet(KeysIn(B))}, n)
        /\ n > 0 => adjacent_find(A) = FirstOr({i \in 0..(n - 2) : same(A[i + 1], A[i + 2])}, n)
        /\ search(A, B) = FirstOr(at, n)
        /\ Len(B) <= n + 1 => find_end(A, B) = IF at = {} THEN n ELSE CHOOSE i \in at : \A j \in at : j <= i
        /\ mismatch(A, B) = FirstOr(differ, m)
        /\ equal(A, B) <=> KeysIn(A) = KeysIn(B)
        /\ lexicographical_compare(A, B) <=>
             IF differ = {} THEN n < Len(B) ELSE less(A[Least(differ) + 1], B[Least(differ) + 1])
        /\ all_of(A, zero) <=> ToSet(KeysIn(A)) \subseteq {0}
        /\ none_of(A, zero) <=> 0 \notin ToSet(KeysIn(A))
        /\ is_sorted(A) <=> Sorted(A)
        /\ is_sorted_until(A) = FirstOr({i \in 1..(n - 1) : less(A[i + 1], A[i])}, n)
        /\ is_partitioned(A, zero) <=> \A i, j \in DOMAIN A : i < j /\ A[j][1] = 0 => A[i][1] = 0

(* Permutations, tokens and selection give what their comments say.        *)
RearrangesRight(A, B) ==
    LET n == Len(A)
        K == KeysIn(A)
    IN  /\ flatten(Nested(A)) = FlattenSeq(Nested(A))
        /\ append(A, B) = A \o B
        /\ reversed(A) = reverse_inplace(A) /\ reversed(reversed(A)) = A
        /\ \A t \in 0..n : rotate(A, t) = SubSeq(A, t + 1, n) \o SubSeq(A, 1, t)
        /\ remove_if(A, [x \in ToSet(A) |-> x[1] = 0]) = SelectSeq(A, LAMBDA x : x[1] # 0)
        /\ map_tokens_small(A) = TokensOf(A) /\ map_tokens(A) = TokensOf(A)
        /\ LET F == [i \in DOMAIN A |-> A[i][1] = 0]
               s == map_split_at(A, F)
           IN  /\ flatten(s) = A
               /\ \A i \in DOMAIN s : {j \in DOMAIN s[i] : is_space(s[i][j])} =
                                        IF i < Len(s) THEN {Len(s[i])} ELSE {}
        /\ n > 0 => /\ min_element(A) = Least({i \in 0..(n - 1) : \A j \in DOMAIN A : K[i + 1] <= K[j]})
                    /\ max_element(A) = Least({i \in 0..(n - 1) : \A j \in DOMAIN A : K[i + 1] >= K[j]})
                    /\ minmax_element(A) = <<min_element(A), max_element(A)>>
                    /\ LET d == remove_duplicates_ordered(A) IN
                         ToSet(KeysIn(d)) = ToSet(K) /\ \A i \in 1..(Len(d) - 1) : less(d[i], d[i + 1])
        /\ ToSet(rank(A)) = 0..(n - 1)
        /\ \A i, j \in DOMAIN A : less(A[i], A[j]) => rank(A)[i] < rank(A)[j]

(* Whatever overload a program calls, it gets what the name promises.      *)
CallsRight(A, B, num_buckets) ==
    LET One     == [i \in DOMAIN A |-> <<A[i]>>]
        Low     == [i \in DOMAIN A |-> A[i][1] = 0]
        key     == [x \in ToSet(A) |-> x[1]]
        Upto(i) == SubSeq(A, 1, i)
        s(inclusive, inplace) == scan_call(One, <<append_all>>, inclusive, inplace)
    IN  /\ copy(A, B \o A) = A \o SubSeq(B \o A, Len(A) + 1, Len(B \o A))
        /\ for_each(A, key) = KeysIn(A)
        /\ reduce_call(KeysIn(A), << >>) = SumTo(KeysIn(A), Len(A)) /\ reduce_call(One, <<append_all>>) = A
        /\ \A inclusive \in BOOLEAN :
             LET sums == [i \in DOMAIN A |-> Upto(IF inclusive THEN i ELSE i - 1)] IN
             /\ s(inclusive, FALSE).A = One /\ s(inclusive, FALSE).returns[1] = sums
             /\ s(inclusive, TRUE) = [A |-> sums, returns |-> <<A>>]
        /\ s(FALSE, FALSE).returns[2] = A
        /\ pack_into(A, Low, A) = filter_into(A, Low, A)
        /\ ToSet(pack_index_call(Low, WORD)) = Where(A, [x \in ToSet(A) |-> x[1] = 0])
        /\ LET low == SortSeq(A, less) high == SortSeq(B, less) IN StableFrom(low \o high, merge(low, high))
        /\ A # << >> => \A stable, inplace, large, cache_oblivious \in BOOLEAN :
             LET sorted == sort(A, stable, inplace, large, cache_oblivious) IN
             SortedFrom(A, sorted) /\ (stable => StableFrom(A, sorted))
        /\ \A inplace \in BOOLEAN : LET down == [x \in ToSet(A) |-> num_buckets - 1 - x[1]]
                                        Down(C) == [i \in DOMAIN C |-> <<down[C[i]], C[i]>>]
             IN  /\ StableFrom(Down(A), Down(integer_sort_call(A, down, inplace)))
                 /\ StableFrom(Down(A), Down(counting_sort(A, num_buckets, down, inplace)))
        /\ counting_sort_by_keys(A, num_buckets).Out = Tags(integer_sort_call(A, key, FALSE))
        /\ count_if(A, [x \in ToSet(A) |-> x[1] = 0]) = Len(pack_index_call(Low, WORD))
        /\ \A x \in ToSet(A) : count_of(A, x) = 1 /\ A[find(A, x) + 1] = x /\ x \notin ToSet(remove(A, x))
        /\ \A serial_compare \in 0..1 : operator_less(A, B, serial_compare * Len(A)) <=> lexicographical_compare(A, B)
        /\ for_each(to_sequence(iota_of(Len(A))), [i \in 0..(Len(A) - 1) |-> A[i + 1]]) = A
        /\ flatten_moved(Nested(A)).res = FlattenSeq(Nested(A))
        /\ flatten(split_at(A, Low)) = A
        /\ map_maybe(A, [x \in ToSet(A) |-> x[1] # 0], key) = SelectSeq(KeysIn(A), LAMBDA k : k # 0)
        /\ zip(A, B) = [i \in 1..Minimum(Len(A), Len(B)) |-> <<A[i], B[i]>>]
        /\ \A k \in 0..(Len(A) - 1) : LET x == kth_smallest(A, k) IN
             x # Torn => A[x[2]][1] = x[1] /\ x[1] = SortSeq(A, less)[k + 1][1]

(* kth_smallest picks the key that sorting would put at k, and comes back  *)
(* when the keys are distinct.                                             *)
SelectsRight(A, k) ==
    LET x == kth_smallest_copy(A, k) IN
    /\ Distinct(A) => x # Torn
    /\ x # Torn => x[1] = merge_sort(A)[k + 1][1]

(* The comment of primitives.h:1269, whatever the keys.                    *)
RecursesOnLess(A, k) == kth_smallest_copy(A, k) # Torn
=============================================================================
