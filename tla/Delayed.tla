------------------------------- MODULE Delayed --------------------------------
(***************************************************************************)
(* Delayed sequences.  internal/delayed/*.h: views that are iterated block *)
(* by block, each block starting from a stored iterator and ending where   *)
(* the next one starts.  internal/block_delayed.h and stream_delayed.h:    *)
(* the older form, a sequence of counted streams.                          *)
(*                                                                         *)
(* A view is its size and its blocks, each the elements that iterating it  *)
(* from begin_block(i) to end_block(i) yields; user functions are tables.  *)
(***************************************************************************)
EXTENDS SequenceOps

CONSTANT bid_block      \* delayed::block_size and block_delayed::_block_size, 2000 in the code

FoldBlock(m, from, b) == FoldLeft(LAMBDA x, y : Combine(m, x, y), from, b)

Kept(b, p) == SelectSeq(b, LAMBDA x : p[x])

Mapped(b, g) == [k \in DOMAIN b |-> g[b[k]]]

(* begin_block and end_block of a random-access range.                     *)
random_access(A) ==
    LET bs == sliced_for(Len(A), bid_block)
    IN  [size |-> Len(A), blocks |-> [i \in DOMAIN bs |-> InBlock(A, bs[i])]]

block_delayed_map(v, g) == [v EXCEPT !.blocks = [i \in DOMAIN @ |-> Mapped(@[i], g)]]

-----------------------------------------------------------------------------
(* block_delayed_scan_t: the value each block starts with.                 *)
block_sums(v, m, inclusive) ==
    LET n    == Len(v.blocks)
        sums == IF n = 1 /\ inclusive THEN <<identity(m)>>
                ELSE scan([i \in 1..(n + 1) |->
                             IF i > n THEN identity(m) ELSE FoldBlock(m, identity(m), v.blocks[i])], m).out
    IN  [i \in DOMAIN sums |->
            IF inclusive /\ i <= n THEN Combine(m, sums[i], Head(v.blocks[i])) ELSE sums[i]]

(* The iterator carries a value: an inclusive one takes in the element it  *)
(* moves to, an exclusive one the element it leaves.                       *)
ScanFrom(m, value, b, inclusive) ==
    [k \in DOMAIN b |-> FoldBlock(m, value, IF inclusive THEN SubSeq(b, 2, k) ELSE SubSeq(b, 1, k - 1))]

block_delayed_scan(v, m, inclusive) ==
    LET sums == block_sums(v, m, inclusive)
    IN  [v EXCEPT !.blocks = [i \in DOMAIN @ |-> ScanFrom(m, sums[i], @[i], inclusive)]]

-----------------------------------------------------------------------------
(* block_delayed_flatten_t over the sequences S.  A position is an inner   *)
(* sequence and how many of its elements are behind.                       *)
End(S) == <<Len(S) + 1, 0>>


(* operator++, with the loop that passes over empty inner sequences.       *)
Advance(S, p) ==
    IF p[2] + 1 < Len(S[p[1]]) THEN <<p[1], p[2] + 1>>
    ELSE LET later == {j \in DOMAIN S : j > p[1] /\ S[j] # << >>}
         IN  IF later = {} THEN End(S) ELSE <<CHOOSE j \in later : \A k \in later : j <= k, 0>>

RECURSIVE Walk(_, _, _)
Walk(S, from, to) ==
    IF from = to THEN << >>
    ELSE IF from[1] > Len(S) THEN <<Torn>>
    ELSE IF from[2] >= Len(S[from[1]]) THEN <<Torn>>
    ELSE <<S[from[1]][from[2] + 1]>> \o Walk(S, Advance(S, from), to)

Offsets(S) == scan([j \in DOMAIN S |-> Len(S[j])], plus)

(* upper_bound - 1: the last inner sequence that starts at or before it.   *)
Holding(offsets, start) == Cardinality({j \in DOMAIN offsets : offsets[j] <= start})

(* Where the blocks of the result start, for a random-access S.            *)
SearchedStarts(S) ==
    LET offsets == Offsets(S).out
        starts  == sliced_for(Offsets(S).total, bid_block)
    IN  [i \in DOMAIN starts |->
            LET j == Holding(offsets, starts[i][1]) IN <<j, starts[i][1] - offsets[j]>>]

(* For a block-iterable S, each of its blocks is walked once, from the     *)
(* inner sequence in which the first of its output blocks starts.          *)
WalkedStarts(S) ==
    LET offsets == Offsets(S).out
        starts  == sliced_for(Offsets(S).total, bid_block)
        out     == [i \in DOMAIN starts |-> Holding(offsets, starts[i][1])]
        within  == sliced_for(Len(S), bid_block)
    IN  Cells(Len(starts),
              {<<i, b, <<out[i], starts[i][1] - offsets[out[i]]>>>> :
                  <<i, b>> \in {c \in (DOMAIN starts) \X (DOMAIN within) :
                                   within[c[2]][1] < out[c[1]] /\ out[c[1]] <= within[c[2]][2]}})

(* A block of a block-iterable S in or after which no output block starts  *)
(* reads out_block_offsets one past its end.                               *)
SearchStaysInside(S) ==
    LET starts == sliced_for(Offsets(S).total, bid_block)
        within == sliced_for(Len(S), bid_block)
    IN  starts = << >> \/ \A b \in DOMAIN within :
            \E i \in DOMAIN starts : Holding(Offsets(S).out, starts[i][1]) > within[b][1]

block_delayed_flatten(S, starts) ==
    LET all == Append(starts, End(S))
    IN  [size |-> Offsets(S).total, blocks |-> [i \in DOMAIN starts |-> Walk(S, all[i], all[i + 1])]]

-----------------------------------------------------------------------------
(* Each block is filtered on its own, and the results are flattened.       *)
block_delayed_filter(v, p) ==
    LET result == [i \in DOMAIN v.blocks |-> Kept(v.blocks[i], p)]
    IN  block_delayed_flatten(result, SearchedStarts(result))

block_delayed_filter_op(v, p, g) ==
    LET result == [i \in DOMAIN v.blocks |-> Mapped(Kept(v.blocks[i], p), g)]
    IN  block_delayed_flatten(result, SearchedStarts(result))

(* An iterator of a zip ends by its index, not where its views end.        *)
block_delayed_zip(v, w) ==
    LET n  == Minimum(v.size, w.size)
        bs == sliced_for(n, bid_block)
    IN  [size |-> n,
         blocks |-> [i \in DOMAIN bs |-> [k \in 1..(bs[i][2] - bs[i][1]) |-> <<v.blocks[i][k], w.blocks[i][k]>>]]]

to_sequence(v) ==
    Cells(v.size, UNION {Place((i - 1) * bid_block, i, v.blocks[i]) : i \in DOMAIN v.blocks})

delayed_reduce(v, m) == reduce([i \in DOMAIN v.blocks |-> FoldBlock(m, identity(m), v.blocks[i])], m)

-----------------------------------------------------------------------------
(* stream_delayed: one pass over a stream.                                 *)
stream_scan(m, init, b, inclusive) ==
    LET start == IF inclusive THEN Combine(m, init, b[1]) ELSE init
        rest  == IF inclusive THEN Tail(b) ELSE b
    IN  [k \in DOMAIN b |-> FoldBlock(m, start, SubSeq(rest, 1, k - 1))]

stream_reduce(m, init, b) == FoldBlock(m, init, b)

stream_zip_with(b, c) == [k \in DOMAIN b |-> <<b[k], c[k]>>]

stream_filter_map(b, p, g) == Mapped(Kept(b, p), g)

(* block_delayed: over the streams of the blocks.                          *)
block_scan(v, m, inclusive) ==
    LET sums == [i \in DOMAIN v.blocks |-> stream_reduce(m, identity(m), v.blocks[i])]
        s    == IF Len(v.blocks) = 1 /\ inclusive THEN [out |-> <<identity(m)>>, total |-> identity(m)]
                ELSE scan(sums, m)
    IN  [view  |-> [v EXCEPT !.blocks =
                      [i \in DOMAIN @ |-> stream_scan(m, s.out[i], @[i], inclusive)]],
         total |-> IF inclusive THEN identity(m) ELSE s.total]

block_reduce(v, m) == reduce([i \in DOMAIN v.blocks |-> stream_reduce(m, identity(m), v.blocks[i])], m)

block_zip(v, w) ==
    [size |-> v.size, blocks |-> [i \in DOMAIN v.blocks |-> stream_zip_with(v.blocks[i], w.blocks[i])]]

block_map(v, g) == [size |-> v.size, blocks |-> [i \in DOMAIN v.blocks |-> Mapped(v.blocks[i], g)]]

(* zip_apply with the indices 0, 1, ...: each stream places its elements.  *)
force(v) ==
    LET at == random_access([k \in 1..v.size |-> k])
    IN  Cells(v.size, UNION {{<<at.blocks[i][k], i, v.blocks[i][k]>> : k \in DOMAIN at.blocks[i]}
                             : i \in DOMAIN at.blocks})

(* Counted streams: a block ends after len elements.                       *)
block_flatten(S) ==
    LET offsets == Offsets(S).out
        n       == Offsets(S).total
        bs      == sliced_for(n, bid_block)
        From(p, len) == LET whole == Walk(S, p, End(S)) IN SubSeq(whole, 1, len)
    IN  [size |-> n,
         blocks |-> [i \in DOMAIN bs |->
                       LET j == Holding(offsets, bs[i][1])
                       IN  From(<<j, bs[i][1] - offsets[j]>>, Minimum(bid_block, n - bs[i][1]))]]

block_filter_map(A, p, g) ==
    LET v    == random_access(A)
        seqs == [i \in DOMAIN v.blocks |-> stream_filter_map(v.blocks[i], p, g)]
        at   == Offsets(seqs)
    IN  IF Len(seqs) = 1 THEN seqs[1]
        ELSE Cells(at.total, UNION {Place(at.out[i], i, seqs[i]) : i \in DOMAIN seqs})

(* filter_op and filter_op2: the filtered streams are left to be flattened.*)
block_filter_op(A, p, g) ==
    LET v == random_access(A)
    IN  block_flatten([i \in DOMAIN v.blocks |-> stream_filter_map(v.blocks[i], p, g)])

-----------------------------------------------------------------------------
(* The blocks of a view are where every other view expects them: all full  *)
(* but the last.                                                           *)
WellBlocked(v) == [i \in DOMAIN v.blocks |-> Len(v.blocks[i])]
                    = [i \in 1..num_blocks(v.size, bid_block) |->
                         Minimum(bid_block, v.size - (i - 1) * bid_block)]

Yields(v, A) == WellBlocked(v) /\ v.size = Len(A) /\ to_sequence(v) = A /\ force(v) = A

(* Inner sequences of every length the keys of A give, empty ones too.     *)
Nested(A) == [i \in DOMAIN A |-> [k \in 1..A[i][1] |-> <<k, A[i][2]>>]]

(* Chains of delayed operations yield what the eager ones do, each block   *)
(* starting at its element: after a filter that leaves ragged blocks, over *)
(* runs of empty inner sequences, and for lengths around the block size.   *)
DelayedRight(A) ==
    LET One    == [x \in ToSet(A) |-> <<x>>]
        p      == [x \in ToSet(A) |-> x[1] # 0]
        kept   == SelectSeq(A, LAMBDA x : x[1] # 0)
        v      == random_access(A)
        f      == block_delayed_filter(v, p)
        Prefix(B, less_) == [i \in DOMAIN B |-> SubSeq(B, 1, i - less_)]
        S      == Nested(A)
        flat   == FlattenSeq(S)
        fv     == block_delayed_flatten(S, SearchedStarts(S))
    IN  /\ Yields(f, kept)
        /\ Yields(block_delayed_filter_op(v, p, One), Mapped(kept, One))
        /\ delayed_reduce(block_delayed_map(f, One), append_all) = kept
        /\ \A inclusive \in BOOLEAN :
             LET wanted(B) == Prefix(B, IF inclusive THEN 0 ELSE 1) IN
             /\ Yields(block_delayed_scan(block_delayed_map(f, One), append_all, inclusive), wanted(kept))
             /\ Yields(block_scan(block_map(v, One), append_all, inclusive).view, wanted(A))
        /\ block_scan(block_map(v, One), append_all, FALSE).total = A
        /\ block_reduce(block_map(v, One), append_all) = A
        /\ Yields(block_delayed_zip(f, v), [i \in DOMAIN kept |-> <<kept[i], A[i]>>])
        /\ Yields(block_delayed_zip(v, f), [i \in DOMAIN kept |-> <<A[i], kept[i]>>])
        /\ Yields(block_zip(f, v), [i \in DOMAIN kept |-> <<kept[i], A[i]>>])
        /\ Yields(fv, flat) /\ Yields(block_flatten(S), flat)
        /\ SearchStaysInside(S) => WalkedStarts(S) = SearchedStarts(S)
        /\ block_filter_map(A, p, One) = Mapped(kept, One)
        /\ Yields(block_filter_op(A, p, One), Mapped(kept, One))
=============================================================================
