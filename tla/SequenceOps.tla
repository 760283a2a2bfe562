------------------------------ MODULE SequenceOps -----------------------------
(***************************************************************************)
(* internal/sequence_ops.h: reductions, scans, packs, filters and splits,  *)
(* in the two or three passes over blocks that they make.  The blocks of a *)
(* pass run in parallel; what they write goes through Cells.               *)
(*                                                                         *)
(* What these algorithms and those built on them work on is sequences of   *)
(* elements that have a key and a tag, compared by their keys alone, so    *)
(* that equal elements can be told apart.                                  *)
(***************************************************************************)
EXTENDS Integers, Sequences, FiniteSets, SequencesExt

CONSTANTS
    Torn,            \* a cell that no iteration of a parallel loop wrote, or that two did
    WORD,            \* the values of a size_t are those below WORD
    block_size,      \* _block_size, 1024 in the code
    sqrt_factor      \* 4 in the code: the blocks of reduce grow with the root

less(a, b) == a[1] < b[1]

(* The half-open interval s..e-1 of a sequence counted from 0.  (TLC then  *)
(* has computed each of its elements, once.)                               *)
cut(A, s, e) == SubSeq(A, s + 1, e)

(* The shifts that take i - 1 to zero, i = 0 having wrapped around.        *)
log2_up(i) == LET b == (i - 1) % WORD IN CHOOSE k \in 0..b : b < 2^k /\ (k = 0 \/ 2^(k - 1) <= b)

(* What iteration who of a loop writes when it puts s behind the first at  *)
(* cells.                                                                  *)
Place(at, who, s) == {<<at + k, who, s[k]>> : k \in DOMAIN s}

(* n cells after a parallel loop with these writes: each is written by one *)
(* iteration, and once.                                                    *)
Cells(n, writes) ==
    IF \E w \in writes : w[1] \notin 1..n THEN <<Torn>>
    ELSE cut([i \in 1..n |->
                LET here == {w \in writes : w[1] = i} IN
                IF Cardinality(here) = 1 THEN (CHOOSE w \in here : TRUE)[3] ELSE Torn], 0, n)

-----------------------------------------------------------------------------
(* Reference definitions.                                                  *)

KeysIn(A) == [i \in DOMAIN A |-> A[i][1]]

Sorted(A) == \A i \in 1..(Len(A) - 1) : ~less(A[i + 1], A[i])

IsPermutation(A, B) ==
    Len(A) = Len(B) /\ \A x \in ToSet(A) \cup ToSet(B) :
        Cardinality({i \in DOMAIN A : A[i] = x}) = Cardinality({i \in DOMAIN B : B[i] = x})

SortedFrom(A, B) == IsPermutation(A, B) /\ Sorted(B)

(* Elements of one key keep their order.                                   *)
StableFrom(A, B) ==
    /\ SortedFrom(A, B)
    /\ \A x \in ToSet(KeysIn(A)) :
         SelectSeq(A, LAMBDA a : a[1] = x) = SelectSeq(B, LAMBDA b : b[1] = x)

PositionsOf(A, Test(_)) == SetToSortSeq({i \in DOMAIN A : Test(A[i])}, <)

-----------------------------------------------------------------------------
(* Monoids: an operation, and what it needs besides its arguments.         *)

plus   == [op |-> "plus"]
append_all == [op |-> "append"]     \* the free monoid: what holds of it holds of all
logical_or == [op |-> "or"]

Larger(a, b) == IF a > b THEN a ELSE b

identity(m) ==
    CASE m.op \in {"plus", "max"} -> 0
      [] m.op = "append" -> << >>
      [] m.op = "or"     -> FALSE
      [] m.op = "min"    -> 0       \* no position
      [] m.op \in {"minmax", "tokens"} -> <<0, 0>>
      [] m.op = "pairMax" -> <<<<0, 0>>, <<0, 0>>>>
      [] m.op = "quad" -> <<-WORD, -WORD, -WORD, 0>>
      [] m.op = "carry" -> "no"

(* min and minmax compare elements of m.of by position, the first of equal *)
(* ones being the result; tokens counts starts of tokens and keeps the     *)
(* place of the last one; pairMax takes, of pairs <<key, index>> in two    *)
(* places, the last of the largest in each; quad the greatest sums of      *)
(* contiguous parts; of two carries the later one is looked at first.      *)
Combine(m, a, b) ==
    CASE m.op = "plus"   -> a + b
      [] m.op = "append" -> a \o b
      [] m.op = "or"     -> a \/ b
      [] m.op = "max"    -> IF a < b THEN b ELSE a
      [] m.op = "min"    -> IF ~less(m.of[b], m.of[a]) THEN a ELSE b
      [] m.op = "tokens" -> IF b[1] = 0 THEN a ELSE <<a[1] + b[1], b[2]>>
      [] m.op = "pairMax" -> [i \in 1..2 |-> IF a[i][1] > b[i][1] THEN a[i] ELSE b[i]]
      [] m.op = "quad"   -> <<Larger(Larger(a[1], b[1]), a[3] + b[2]), Larger(a[2], a[4] + b[2]),
                              Larger(a[3] + b[4], b[3]), a[4] + b[4]>>
      [] m.op = "carry"  -> IF b = "propagate" THEN a ELSE b
      [] m.op = "minmax" -> <<IF ~less(m.of[b[1]], m.of[a[1]]) THEN a[1] ELSE b[1],
                              IF ~less(m.of[a[2]], m.of[b[2]]) THEN a[2] ELSE b[2]>>

-----------------------------------------------------------------------------
num_blocks(n, size) == IF n = 0 THEN 0 ELSE 1 + (n - 1) \div size

Minimum(a, b) == IF a < b THEN a ELSE b

(* sliced_for: the blocks, each with its bounds.                           *)
sliced_for(n, size) ==
    [i \in 1..num_blocks(n, size) |-> <<(i - 1) * size, Minimum(i * size, n)>>]

InBlock(A, b) == cut(A, b[1], b[2])

Blocks(A) == sliced_for(Len(A), block_size)

reduce_serial(A, m) ==
    IF A = << >> THEN identity(m)
    ELSE FoldLeft(LAMBDA x, y : Combine(m, x, y), A[1], Tail(A))

CeilSqrt(n) == CHOOSE r \in 0..n : r * r >= n /\ \A q \in 0..(r - 1) : q * q < n

RECURSIVE reduce(_, _)
reduce(A, m) ==
    LET root == sqrt_factor * CeilSqrt(Len(A))
        bs   == sliced_for(Len(A), IF root > block_size THEN root ELSE block_size)
    IN  IF Len(bs) = 0 THEN identity(m)
        ELSE IF Len(bs) = 1 THEN reduce_serial(A, m)
        ELSE reduce([i \in DOMAIN bs |-> reduce_serial(InBlock(A, bs[i]), m)], m)

(* What scan_serial leaves in Out, and what it returns.                    *)
scan_serial(A, m, offset, inclusive) ==
    LET Upto(i) == FoldLeft(LAMBDA x, y : Combine(m, x, y), offset, SubSeq(A, 1, i)) IN
    [out   |-> [i \in DOMAIN A |-> Upto(IF inclusive THEN i ELSE i - 1)],
     total |-> Upto(Len(A))]

scan_(A, m, inclusive) ==
    LET bs   == Blocks(A)
        sums == scan_serial([i \in DOMAIN bs |-> reduce_serial(InBlock(A, bs[i]), m)],
                            m, identity(m), FALSE)
    IN  IF Len(bs) <= 2 THEN scan_serial(A, m, identity(m), inclusive)
        ELSE [out   |-> Cells(Len(A), UNION {Place(bs[i][1], i,
                          scan_serial(InBlock(A, bs[i]), m, sums.out[i], inclusive).out) : i \in DOMAIN bs}),
              total |-> sums.total]

scan(A, m)           == scan_(A, m, FALSE)
scan_inclusive(A, m) == scan_(A, m, TRUE).out

-----------------------------------------------------------------------------
sum_bools_serial(F) == Cardinality({i \in DOMAIN F : F[i]})

(* pack_serial and pack_serial_at: one after the other from the start.     *)
pack_serial(A, F) ==
    LET at == PositionsOf(F, LAMBDA f : f) IN [k \in DOMAIN at |-> A[at[k]]]

(* The second pass, once the offset of each block is known.                *)
PackBlocks(A, F, bs, offsets) ==
    Cells(offsets.total,
          UNION {Place(offsets.out[i], i, pack_serial(InBlock(A, bs[i]), InBlock(F, bs[i]))) : i \in DOMAIN bs})

pack(A, F) ==
    LET bs == Blocks(A) IN
    IF Len(bs) = 1 THEN pack_serial(A, F)
    ELSE PackBlocks(A, F, bs,
                    scan([i \in DOMAIN bs |-> sum_bools_serial(InBlock(F, bs[i]))], plus))

(* Out may be longer than what is packed: its other cells stay.            *)
pack_out(A, F, Out) ==
    LET bs     == Blocks(A)
        packed == IF Len(bs) <= 1 THEN pack_serial(A, F)
                  ELSE PackBlocks(A, F, bs,
                         scan([i \in DOMAIN bs |-> sum_bools_serial(InBlock(F, bs[i]))], plus))
    IN  [out |-> packed \o SubSeq(Out, Len(packed) + 1, Len(Out)), n |-> Len(packed)]

(* Of f and g, what they answer for each element: f's answers are kept in  *)
(* Fl by the first pass.                                                   *)
filter_map(fA, gA) ==
    LET bs == Blocks(fA)
        Fl == Cells(Len(fA), UNION {Place(bs[i][1], i, InBlock(fA, bs[i])) : i \in DOMAIN bs})
        Sums == [i \in DOMAIN bs |-> sum_bools_serial(InBlock(Fl, bs[i]))]
    IN  PackBlocks(gA, Fl, bs, scan(Sums, plus))

filter(A, fA) == filter_map(fA, A)

filter_out(A, fA, Out) ==
    LET kept == filter(A, fA) IN [out |-> kept \o SubSeq(Out, Len(kept) + 1, Len(Out)), n |-> Len(kept)]

pack_index(F) == pack([i \in DOMAIN F |-> i - 1], F)

(* One block of a split writes its elements behind those of earlier blocks *)
(* with the same flag: at is where its first one of each flag goes.        *)
SplitBlock(A, Fl, who, b, at, flags) ==
    UNION {Place(at[f], who, pack_serial(InBlock(A, b), [k \in 1..(b[2] - b[1]) |-> Fl[b[1] + k] = f]))
           : f \in flags}

Count(Fl, b, f) == Cardinality({k \in (b[1] + 1)..b[2] : Fl[k] = f})

split_three(A, Fl) ==
    LET bs == Blocks(A)
        s0 == scan([i \in DOMAIN bs |-> Count(Fl, bs[i], 0)], plus)
        s1 == scan([i \in DOMAIN bs |-> Count(Fl, bs[i], 1)], plus)
        At(i) == [f \in 0..2 |->
                    CASE f = 0 -> s0.out[i]
                      [] f = 1 -> s0.total + s1.out[i]
                      [] f = 2 -> s0.total + s1.total + (bs[i][1] - s0.out[i] - s1.out[i])]
    IN  [out |-> Cells(Len(A), UNION {SplitBlock(A, Fl, i, bs[i], At(i), 0..2) : i \in DOMAIN bs}),
         m0 |-> s0.total, m1 |-> s1.total]

split_two(A, Fl) ==
    LET bs == Blocks(A)
        s  == scan([i \in DOMAIN bs |-> Count(Fl, bs[i], FALSE)], plus)
        At(i) == [f \in BOOLEAN |-> IF f THEN bs[i][1] + (s.total - s.out[i]) ELSE s.out[i]]
    IN  [out |-> Cells(Len(A), UNION {SplitBlock(A, Fl, i, bs[i], At(i), BOOLEAN) : i \in DOMAIN bs}),
         m |-> s.total]

-----------------------------------------------------------------------------
(* On every input, whatever its length is against the blocks: a reduction  *)
(* and a scan combine all elements in order; pack, filter and the splits   *)
(* keep the elements they should, in order, each block writing its own     *)
(* cells and all cells being written.                                      *)
ReducesInOrder(A) ==
    LET One == [i \in DOMAIN A |-> <<A[i]>>] IN
    /\ reduce(One, append_all) = A
    /\ LET s == scan(One, append_all) IN
         s.total = A /\ s.out = [i \in DOMAIN A |-> SubSeq(A, 1, i - 1)]
    /\ scan_inclusive(One, append_all) = [i \in DOMAIN A |-> SubSeq(A, 1, i)]

KeyIs(A, k) == SelectSeq(A, LAMBDA a : a[1] = k)

PacksInOrder(A) ==
    LET Low  == [i \in DOMAIN A |-> A[i][1] = 0]
        Fl   == [i \in DOMAIN A |-> IF A[i][1] > 2 THEN 2 ELSE A[i][1]]
        kept == KeyIs(A, 0)
        rest == SelectSeq(A, LAMBDA a : a[1] # 0)
    IN  /\ pack(A, Low) = kept
        /\ LET p == pack_out(A, Low, A) IN
             p.n = Len(kept) /\ p.out = kept \o SubSeq(A, Len(kept) + 1, Len(A))
        /\ filter(A, [i \in DOMAIN A |-> ~Low[i]]) = rest
        /\ filter_out(A, Low, A) = pack_out(A, Low, A)
        /\ [k \in DOMAIN pack_index(Low) |-> A[pack_index(Low)[k] + 1]] = kept
        /\ split_two(A, [i \in DOMAIN A |-> ~Low[i]]) = [out |-> kept \o rest, m |-> Len(kept)]
        /\ LET s == split_three(A, Fl) IN
             /\ s.out = kept \o KeyIs(A, 1) \o SelectSeq(A, LAMBDA a : a[1] > 1)
             /\ s.m0 = Len(kept) /\ s.m1 = Len(KeyIs(A, 1))
=============================================================================
