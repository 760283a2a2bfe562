-------------------------------- MODULE Texts ---------------------------------
(***************************************************************************)
(* Algorithms on strings: the suffix array by doubling and the one by      *)
(* recursion on two thirds of the suffixes, longest common prefixes over   *)
(* range minima, and the Burrows-Wheeler transform and its inverse.        *)
(* A string is a sequence of character codes; suffixes are named by where  *)
(* they start, from 0.                                                     *)
(***************************************************************************)
EXTENDS Primitives

CONSTANTS
    UCHAR,          \* values of an unsigned char: 256
    char_bits,      \* bits of a word that hold characters: 96
    pad,            \* zeros after the string: 48
    split_serial,   \* 5000
    lcp_len,        \* 111, of range_min too
    uint_bits,      \* 32
    bw_block,       \* 5000
    bw_buffer       \* 30: a part of the string has less than this many blocks

-----------------------------------------------------------------------------
(* algorithm/suffix_array.h.  Numbers of characters start from 1; a        *)
(* number is stored in an unsigned char.                                   *)
Renumbered(s) ==
    LET occur == {s[i] : i \in DOMAIN s} IN
    [s |-> [i \in DOMAIN s |-> (1 + Cardinality({c \in occur : c < s[i]})) % UCHAR],
     m |-> 1 + Cardinality(occur)]

nchars(m) == CHOOSE k \in 1..char_bits : m^k <= 2^char_bits /\ m^(k + 1) > 2^char_bits

(* The characters from i on as one number; stale is what is read behind    *)
(* the padding.                                                            *)
Packed(s, m, i, stale) ==
    FoldLeft(LAMBDA r, j : r * m + (IF i + j <= Len(s) THEN s[i + j]
                                    ELSE IF i + j <= Len(s) + pad THEN 0 ELSE stale),
             0, [j \in 1..nchars(m) |-> j])

(* Where the run of equal keys that each place is in begins, in one pass   *)
(* and by a scan.                                                          *)
Changes(keys, i) == i > 1 /\ keys[i] # keys[i - 1]

SerialNames(keys) ==
    FoldLeft(LAMBDA names, i : Append(names, IF i = 1 THEN 0 ELSE IF Changes(keys, i) THEN i - 1 ELSE names[i - 1]),
             << >>, [i \in DOMAIN keys |-> i])

ScannedNames(keys) ==
    scan_inclusive([i \in DOMAIN keys |-> IF Changes(keys, i) THEN i - 1 ELSE 0], [op |-> "max"])

(* The segments with these names, each at its last place, and the ranks.   *)
Segments(start, names) ==
    LET l == Len(names) IN
    [segs  |-> [i \in 1..l |->
                  IF i = l THEN [start |-> start + names[l], length |-> l - names[l]]
                  ELSE IF names[i + 1] = i THEN [start |-> start + names[i], length |-> i - names[i]]
                  ELSE [start |-> 0, length |-> 0]],
     ranks |-> [i \in 1..l |-> names[i] + start + 1]]

split_segment(start, keys) ==
    Segments(start, IF Len(keys) < split_serial THEN SerialNames(keys) ELSE ScannedNames(keys))

split_segment_top(keys) == Segments(0, ScannedNames(keys))

(* The rounds: C holds a key and a suffix at each place.                   *)
RECURSIVE SortRounds(_, _, _, _)
SortRounds(C, ranks, seg_outs, offset) ==
    LET n    == Len(C)
        Segs == filter(seg_outs, [i \in DOMAIN seg_outs |-> seg_outs[i].length > 1])
        KeyAt(o) == IF o >= n THEN 0 ELSE ranks[o + 1]
        Seg(g) == [j \in 1..Segs[g].length |->
                     LET x == C[Segs[g].start + j][2] IN <<KeyAt(x + offset), x>>]
        SortedSeg == cut([g \in DOMAIN Segs |-> sample_sort_inplace(Seg(g), FALSE, FALSE)], 0, Len(Segs))
        Split == [g \in DOMAIN Segs |-> split_segment(Segs[g].start, KeysIn(SortedSeg[g]))]
        SegOf(i) == {g \in DOMAIN Segs : Segs[g].start < i /\ i <= Segs[g].start + Segs[g].length}
        Moved == cut([i \in 1..n |-> IF SegOf(i) = {} THEN C[i]
                        ELSE LET g == CHOOSE g \in SegOf(i) : TRUE IN SortedSeg[g][i - Segs[g].start]], 0, n)
        offsets == Offsets(SortedSeg)
        RankOf(x) == LET i == CHOOSE i \in 1..n : Moved[i][2] = x IN
                     IF SegOf(i) = {} THEN ranks[x + 1]
                     ELSE LET g == CHOOSE g \in SegOf(i) : TRUE IN Split[g].ranks[i - Segs[g].start]
    IN  IF Segs = << >> THEN cut([i \in 1..n |-> C[i][2]], 0, n)
        ELSE SortRounds(Moved, cut([x \in 1..n |-> RankOf(x - 1)], 0, n),
                        Cells(offsets.total, UNION {Place(offsets.out[g], g, Split[g].segs) : g \in DOMAIN Segs}),
                        2 * offset)

FirstRound(C, ranks, seg_outs, offset) == SortRounds(C, ranks, seg_outs, offset)

suffix_array(ss, stale) ==
    LET n  == Len(ss)
        r  == Renumbered(ss)
        Cl == sample_sort_inplace([i \in 1..n |-> <<Packed(r.s, r.m, i - 1, stale) * n + i - 1, i - 1>>], FALSE, FALSE)
        C  == cut([i \in 1..n |-> <<Cl[i][1] \div n, Cl[i][2]>>], 0, n)
        top == split_segment_top(KeysIn(C))
    IN  FirstRound(C, [x \in 1..n |-> top.ranks[CHOOSE i \in 1..n : C[i][2] = x - 1]],
                   top.segs, nchars(r.m))

-----------------------------------------------------------------------------
(* suffixArray/parallelKS.  s ends with three zeros; first the suffixes    *)
(* that do not start at a multiple of 3, by their first three characters   *)
(* and if that is not enough by a recursive call on their names.           *)
RECURSIVE KSMerge(_, _, _, _)
KSMerge(X, Y, s, rank_) ==
    LET tuple(i, long) == IF long THEN <<s[i + 1], s[i + 2], rank_[i + 2]>> ELSE <<s[i + 1], rank_[i + 1], 0>>
        before(i, j) ==
            LET long == i % 3 # 1 /\ j % 3 # 1
                a == tuple(i, long)
                b == tuple(j, long)
            IN  \/ a[1] < b[1]
                \/ a[1] = b[1] /\ (a[2] < b[2] \/ (a[2] = b[2] /\ a[3] < b[3]))
    IN  IF X = << >> THEN Y ELSE IF Y = << >> THEN X
        ELSE IF before(Head(Y), Head(X)) THEN <<Head(Y)>> \o KSMerge(X, Tail(Y), s, rank_)
        ELSE <<Head(X)>> \o KSMerge(Tail(X), Y, s, rank_)

RECURSIVE suffixArrayRec(_, _)
suffixArrayRec(s, K) ==
    LET n    == Len(s) - 2
        n0   == (n + 2) \div 3
        n1   == (n + 1) \div 3
        n12  == n - n0
        bits == log2_up(K)
        at(i) == 1 + (3 * i) \div 2
        C0   == [i \in 1..n12 |-> LET j == at(i - 1) IN
                   <<s[j + 1] * 2^(2 * bits) + s[j + 2] * 2^bits + s[j + 3], j>>]
        C    == IF 3 * bits <= uint_bits THEN integer_sort_inplace(C0, 3 * bits)
                ELSE LET w == sample_sort_inplace([i \in 1..n12 |-> <<C0[i][1] * n + C0[i][2], i>>], FALSE, FALSE)
                     IN  [i \in 1..n12 |-> C0[w[i][2]]]
        name12 == scan_inclusive([i \in 1..n12 |-> IF i = 1 \/ C[i][1] # C[i - 1][1] THEN 1 ELSE 0], plus)
        names  == name12[n12]
        s12  == Cells(n12, {<<IF C[i][2] % 3 = 1 THEN C[i][2] \div 3 + 1 ELSE C[i][2] \div 3 + n1 + 1, i, name12[i]>>
                            : i \in 1..n12}) \o <<0, 0, 0>>
        rec  == suffixArrayRec(s12, names + 1)
        SA12 == IF names = n12 THEN [i \in 1..n12 |-> C[i][2]]
                ELSE [i \in 1..n12 |-> IF rec[i] < n1 THEN 3 * rec[i] + 1 ELSE 3 * (rec[i] - n1) + 2]
        rank_ == [x \in 0..(n + 1) |->
                    IF x = n THEN 1 ELSE IF x = n + 1 THEN 0
                    ELSE IF x % 3 = 0 THEN Torn ELSE (CHOOSE i \in 1..n12 : SA12[i] = x) + 1]
        s0   == filter(SA12, [i \in 1..n12 |-> SA12[i] % 3 = 1])
        D    == [i \in 1..n0 |-> IF i <= n0 - Len(s0) THEN <<s[n], n - 1>>
                                 ELSE LET x == s0[i - (n0 - Len(s0))] - 1 IN <<s[x + 1], x>>]
        SA0  == [i \in 1..n0 |-> integer_sort_inplace(D, bits)[i][2]]
        null == IF n % 3 = 1 THEN 1 ELSE 0
    IN  KSMerge(SubSeq(SA0, null + 1, n0), SubSeq(SA12, 2 - null, n12), s, rank_)

suffixArray(s) ==
    LET ss == [i \in 1..(Len(s) + 3) |-> IF i > Len(s) THEN 0 ELSE s[i] + 1]
    IN  suffixArrayRec(ss, 1 + reduce(ss, [op |-> "max"]))

-----------------------------------------------------------------------------
(* range_min.h.  Positions from 0.                                         *)
min_index(a, i, j) == IF a[j + 1] < a[i + 1] THEN j ELSE i

StopsShort(a, i, j) ==       \* mutant: < in the bound of the loop where <= is meant
    FoldLeft(LAMBDA r, k : min_index(a, r, k), i, [k \in 1..(j - i - 1) |-> i + k])

(* The first of the least between i and j; the table has the last.        *)
LeastIn(a, i, j) == FoldLeft(LAMBDA r, k : min_index(a, r, k), i, [k \in 1..(j - i) |-> i + k])

(* Row k of the table: the minimum of 2^k blocks from each block on.       *)
precomputeQueries(a, size) ==
    LET m     == 1 + (Len(a) - 1) \div size
        depth == log2_up(m + 1)
        next(row, dist) == [b \in 0..(m - 1) |-> IF b < m - dist THEN min_index(a, row[b], row[b + dist]) ELSE row[b]]
        first == [b \in 0..(m - 1) |->
                    LET start == b * size IN
                    FoldLeft(LAMBDA k, j : min_index(a, j, k), start,
                             [j \in 1..(Minimum(start + size, Len(a)) - 1 - start) |-> start + j])]
    IN  FoldLeft(LAMBDA table, k : Append(table, next(table[k], 2^(k - 1))), <<first>>,
                 [k \in 1..(depth - 1) |-> k])

(* The table is made for a when it holds at, and asked when it holds a.    *)
query(a, table, size, i, j) ==
    LET bi    == i \div size
        bj    == j \div size
        left  == LeastIn(a, i, (bi + 1) * size - 1)
        right == LeastIn(a, bj * size, j)
        inner == IF bj - bi = 2 THEN table[1][bi + 1]
                 ELSE IF bj - bi = 3 THEN table[2][bi + 1]
                 ELSE LET k == log2_up(bj - bi - 1) - 1
                      IN  min_index(a, table[k + 1][bi + 1], table[k + 1][bj - 2^k])
    IN  IF j - i < size THEN LeastIn(a, i, j)
        ELSE IF bj = bi + 1 THEN min_index(a, left, right)
        ELSE min_index(a, left, min_index(a, inner, right))

-----------------------------------------------------------------------------
(* lcp.h.  A round asks for the minima of L while it changes L: each index *)
(* of remain, in some order, sees the changes of those that went before.   *)
LCPRound(L, remain, SA, len, ordered) ==
    LET n     == Len(SA)
        ISA   == [x \in 0..(n - 1) |-> (CHOOSE i \in 1..n : SA[i] = x) - 1]
        table == precomputeQueries(L, lcp_len)
        Resolve(now, i) ==
            LET from == SA[i] + len
                l    == now[query(now, table, lcp_len, ISA[from], ISA[SA[i + 1] + len] - 1) + 1]
            IN  IF from >= n THEN [now EXCEPT ![i] = len]
                ELSE IF l < len THEN [now EXCEPT ![i] = len + l]
                ELSE now
    IN  IF ordered THEN FoldLeft(Resolve, L, remain)
        ELSE cut([i \in DOMAIN L |-> IF i \in ToSet(remain) THEN Resolve(L, i)[i] ELSE L[i]], 0, n - 1)

RECURSIVE LCPRounds(_, _, _, _)
LCPRounds(L, SA, len, ordered) ==
    LET remain == PositionsOf(L, LAMBDA l : l = Len(SA)) IN
    IF remain = << >> THEN L
    ELSE LCPRounds(LCPRound(L, IF ordered = "down" THEN reversed(remain) ELSE remain, SA, len, ordered # "at once"),
                   SA, 2 * len, ordered)

lcp(s, SA, ordered) ==
    LET n == Len(SA)
        head(i) ==
            LET agree == {j \in 0..Minimum(lcp_len, n - SA[i]) : \A k \in 1..j :
                            SA[i + 1] + k <= n /\ s[SA[i] + k] = s[SA[i + 1] + k]}
            IN  CHOOSE j \in agree : \A k \in agree : k <= j
    IN  LCPRounds(cut([i \in 1..(n - 1) |-> IF head(i) < lcp_len THEN head(i) ELSE n], 0, n - 1), SA, lcp_len, ordered)

lrs(s) ==
    LET sa == suffix_array(s, 0)
        L  == lcp(s, sa, "at once")
        i  == max_element([k \in DOMAIN L |-> <<L[k]>>]) + 1
    IN  <<L[i], sa[i], sa[i + 1]>>

-----------------------------------------------------------------------------
(* bw_encode.h: the character before each suffix, in their order.          *)
bw_encode(s) ==
    LET ss == <<0>> \o s
        sa == suffix_array(ss, 0)
    IN  [i \in DOMAIN sa |-> IF sa[i] = 0 THEN ss[Len(ss)] ELSE ss[sa[i]]]

(* BWDecode/listRank: from each head along the links to the next head.     *)
RECURSIVE Follow(_, _, _)
Follow(links, pos, room) ==
    LET n  == Len(links)
        ln == links[pos + 1]
    IN  IF room = 1 THEN [text |-> <<Torn>>, pos |-> 0]
        ELSE IF ln.next >= n THEN [text |-> <<ln.c>>, pos |-> ln.next % n]
        ELSE LET rest == Follow(links, ln.next, room - 1) IN [text |-> <<ln.c>> \o rest.text, pos |-> rest.pos]

(* Marks a location as a head; a link is marked once, however often it is  *)
(* drawn.                                                                  *)
Mark(b, j) ==
    LET n == Len(b.links)
        next == b.links[j + 1].next
    IN  IF next >= n THEN b
        ELSE [links |-> [b.links EXCEPT ![j + 1].next = next + n], heads |-> b.heads \cup {next}]

bw_decode_(s) ==
    LET n     == Len(s)
        order == count_sort([i \in 1..n |-> <<s[i], i - 1>>], s, UCHAR).Out
        links == cut([i \in 1..n |-> [next |-> order[i][2], c |-> order[i][1]]], 0, n)
        start == links[1].next
        drawn == [i \in 1..(n \div bw_block + 2) |-> hash64[i] % n]
        m     == FoldLeft(Mark, Mark([links |-> links, heads |-> {}], 0), drawn)
        heads == pack_index([x \in 1..n |-> x - 1 \in m.heads])
        blocks == [h \in ToSet(heads) |-> Follow(m.links, h, bw_block * bw_buffer)]
        ordered == FoldLeft(LAMBDA o, h : [text |-> Append(o.text, blocks[o.pos].text), pos |-> blocks[o.pos].pos],
                            [text |-> << >>, pos |-> start], heads)
        res   == flatten(ordered.text)
    IN  SubSeq(res, 1, Len(res) - 1)

-----------------------------------------------------------------------------
(* Suffix i of s comes before suffix j.                                    *)
SuffixBefore(s, i, j) ==
    LET d == {k \in 1..(Len(s) - Larger(i, j)) : s[i + k] # s[j + k]} IN
    IF d = {} THEN i > j ELSE s[i + Least(d)] < s[j + Least(d)]

IsSuffixArray(s, SA) ==
    /\ Len(SA) = Len(s) /\ ToSet(SA) = 0..(Len(s) - 1)
    /\ \A k \in 1..(Len(s) - 1) : SuffixBefore(s, SA[k], SA[k + 1])

CommonPrefix(s, i, j) ==
    LET same_ == {l \in 0..(Len(s) - Larger(i, j)) : \A k \in 1..l : s[i + k] = s[j + k]}
    IN  CHOOSE l \in same_ : \A k \in same_ : k <= l

(* The two suffix arrays of a string are the order of its suffixes,        *)
(* whatever is read behind the padding; the common prefixes are right in   *)
(* whatever order the rounds update them; a range query finds a least      *)
(* element for any block size; decoding the transform gives the string     *)
(* back; and the longest repeat is one and is the longest.                 *)
TextsRight(s) ==
    LET SA == suffixArray(s)
        n  == Len(s)
    IN  n > 0 =>
        /\ IsSuffixArray(s, SA)
        /\ \A stale \in {0, 2} : suffix_array(s, stale) = SA
        /\ \A ordered \in {"up", "down", "at once"} :
             lcp(s, SA, ordered) = [i \in 1..(n - 1) |-> CommonPrefix(s, SA[i], SA[i + 1])]
        /\ \A size \in 1..2, i, j \in 0..(n - 1) : i <= j =>
             LET q == query(s, precomputeQueries(s, size), size, i, j)
             IN  q \in i..j /\ \A k \in i..j : s[q + 1] <= s[k + 1]
        /\ LET t == [i \in 1..n |-> s[i] + 1] IN bw_decode_(bw_encode(t)) = t
        /\ n > 1 => LET r == lrs(s) IN
             /\ r[1] = CommonPrefix(s, r[2], r[3]) /\ r[2] # r[3]
             /\ \A i, j \in 0..(n - 1) : i # j => CommonPrefix(s, i, j) <= r[1]

(* With as many characters as an unsigned char has values the numbers from *)
(* 1 do not fit, and the order is not that of the suffixes any more.       *)
SuffixesSorted(s) == s # << >> => IsSuffixArray(s, suffix_array(s, 0))
-----------------------------------------------------------------------------
(***************************************************************************)
(* benchmarks/wordCounts and benchmarks/invertedIndex: words are counted,  *)
(* or listed with the documents that they occur in.  A character is 0 if   *)
(* it is no letter, "a" if it is 1 and "A" if it is 2; a word is a         *)
(* sequence of elements whose keys are its letters.                        *)
(***************************************************************************)

lower(c) == IF c = 2 THEN 1 ELSE c

(* What is written: a document's number is one character.                  *)
space       == <<-1>>
newline     == <<-2>>
docstr(doc) == <<-3 - doc>>

words_of(s) == tokens_of([i \in DOMAIN s |-> <<lower(s[i])>>])

(* Grouping goes by a word's place among all of them, in their order.      *)
Alphabetical(W) == SetToSortSeq(ToSet(W), LAMBDA v, w : lexicographical_compare(v, w))

PlaceOf(order, w) == (CHOOSE k \in DOMAIN order : order[k] = w) - 1

wordCounts(s) ==
    LET words == words_of(s)
        order == Alphabetical(words)
        result == histogram_by_key([i \in DOMAIN words |-> <<PlaceOf(order, words[i]), i>>])
    IN  [i \in DOMAIN result |-> <<order[result[i][1] + 1], result[i][2]>>]

StartsAt(s, doc_start, i) == \A j \in DOMAIN doc_start : doc_start[j] = s[i + j]

Document(s, starts, m, doc) ==
    cut(s, starts[doc] + m, IF doc = Len(starts) THEN Len(s) ELSE starts[doc + 1])

build_index(s, doc_start) ==
    LET m      == Len(doc_start)
        iota   == [i \in 1..((Len(s) - m + 1) % WORD) |-> i - 1]
        starts == to_sequence(block_delayed_filter(random_access(iota),
                                                   [i \in ToSet(iota) |-> StartsAt(s, doc_start, i)]))
        tokens == [doc \in DOMAIN starts |-> words_of(Document(s, starts, m, doc))]
        order  == Alphabetical(FlattenSeq(tokens))
        docs   == [doc \in DOMAIN starts |->
                     LET once == remove_duplicates([i \in DOMAIN tokens[doc] |-> <<PlaceOf(order, tokens[doc][i]), i>>])
                     IN  [i \in DOMAIN once |-> <<once[i], doc - 1>>]]
        words  == sample_sort_inplace(group_by_key(flatten(docs)), TRUE, FALSE)
        Line(wd) == LET len == 2 * Len(wd[2]) + 2 IN
                    flatten([i \in 1..len |-> IF i = 1 THEN KeysIn(order[wd[1] + 1]) ELSE IF i = len THEN newline
                                              ELSE IF i % 2 = 0 THEN space ELSE docstr(wd[2][(i - 1) \div 2])])
    IN  flatten([w \in DOMAIN words |-> Line(words[w])])

-----------------------------------------------------------------------------
(* invertedIndex/sequential, which goes from document to document and from *)
(* word to word.                                                           *)
RECURSIVE DocumentsFrom(_, _, _)
DocumentsFrom(s, doc_start, at) ==      \* at: where the search begins
    LET m     == Len(doc_start)
        begin == {i \in at..(Len(s) - m) : StartsAt(s, doc_start, i)}
    IN  IF begin = {} THEN << >>
        ELSE <<Least(begin) + m>> \o DocumentsFrom(s, doc_start, Least(begin) + m)

NoteWord(words, w, doc) ==
    IF w \notin DOMAIN words THEN words @@ (w :> <<doc>>)
    ELSE IF Last(words[w]) # doc THEN [words EXCEPT ![w] = Append(@, doc)] ELSE words

sequential_index(s, doc_start) ==
    LET begins == DocumentsFrom(s, doc_start, 0)
        End_(d) == IF d = Len(begins) THEN Len(s) ELSE begins[d + 1] - Len(doc_start)
        In(d)  == TokensOf([i \in 1..(End_(d) - begins[d]) |-> <<lower(s[begins[d] + i])>>])
        words  == FoldLeft(LAMBDA all, d : FoldLeft(LAMBDA ws, w : NoteWord(ws, w, d - 1), all, In(d)),
                           << >>, [d \in DOMAIN begins |-> d])
        sorted == SetToSortSeq(DOMAIN words, LAMBDA v, w : lexicographical_compare(v, w))
    IN  FlattenSeq([k \in DOMAIN sorted |->
          KeysIn(sorted[k]) \o FlattenSeq([i \in DOMAIN words[sorted[k]] |-> space \o docstr(words[sorted[k]][i])])
            \o newline])

-----------------------------------------------------------------------------
(* Each word is counted once, upper or lower case, with how often it       *)
(* occurs; and the index is that of the sequential program, for a text not *)
(* so short that n - m + 1 wraps around.                                   *)
WordsRight(s, doc_start) ==
    LET words == words_of(s)
        counts == wordCounts(s)
    IN  /\ Len(counts) = Cardinality(ToSet(words))
        /\ ToSet(counts) = {<<w, Cardinality({i \in DOMAIN words : words[i] = w})>> : w \in ToSet(words)}
        /\ Len(s) + 1 >= Len(doc_start) => build_index(s, doc_start) = sequential_index(s, doc_start)
=============================================================================
