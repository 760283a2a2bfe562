------------------------------ MODULE GraphTools ------------------------------
(***************************************************************************)
(* common/graph.h and common/graphUtils.h: graphs as lists of edges and as *)
(* adjacency arrays, and how one is made of the other; the minimum         *)
(* spanning forest of minSpanningForest/parallelFilterKruskal/MST.C, which *)
(* runs the loop of SpecForests twice, on the light edges and then on what *)
(* is left of the others; and files: parlay/io.h reads numbers from text,  *)
(* common/IO.h, sequenceIO.h, geometryIO.h and graphIO.h write sequences,  *)
(* points, triangles and graphs and read them.                             *)
(*                                                                         *)
(* An edge is a pair of vertices from 0.  A file is a sequence of          *)
(* character codes in which a header is one letter.  A sequence is turned  *)
(* into text by a parallel loop: each element gets as much room as its     *)
(* type may need, and the zeros that are left in it are filtered out.      *)
(***************************************************************************)
EXTENDS Primitives

CONSTANTS
    mst_granularity,    \* 5, the granularity of both loops
    mst_tries,          \* the default of maxTries for it, 1100
    long_width,         \* xToStringLen of an integer type, 21 for long
    weight_width,       \* and of the type of weights, 18 for double
    stream_chunk,       \* bsize, how many elements are written at a time
    float_len,          \* max_len, 18 for a double: longer texts are left to stod
    float_exp,          \* max_exp, 22: powers of ten up to here are exact
    float_man,          \* max_man, 53: and so are integers below this power of two
    int_bits,           \* 32
    uint64_bits         \* 64, enough for float_len digits

(* Edges as elements whose keys are ordered as lessE orders them.          *)
ByEnds(E, n) == [i \in DOMAIN E |-> <<E[i][1] * n + E[i][2], E[i]>>]
Values_(A)   == [i \in DOMAIN A |-> A[i][2]]

remDuplicates(E, n) == Values_(remove_duplicates_ordered(ByEnds(E, n)))

LoopsKept(E, n) ==      \* mutant: keeps edges from a vertex to itself
    remDuplicates(append(E, [i \in DOMAIN E |-> <<E[i][2], E[i][1]>>]), n)

makeSymmetric(E, n) ==
    LET EF == filter(E, [i \in DOMAIN E |-> E[i][1] # E[i][2]])
    IN  remDuplicates(append(EF, [i \in DOMAIN EF |-> <<EF[i][2], EF[i][1]>>]), n)

graphFromEdges(EA, n, makeSym) ==
    LET A == IF makeSym THEN makeSymmetric(EA, n) ELSE EA
        s == integer_sort_with_counts([i \in DOMAIN A |-> <<A[i][1], A[i]>>], n)
        offsets == scan([i \in 1..(n + 1) |-> IF i = n + 1 THEN 0 ELSE s.counts[i]], plus).out
    IN  [n |-> n, offsets |-> offsets, edges |-> [i \in DOMAIN A |-> s.R[i][2][2]], degrees |-> << >>]

(* The degrees are kept apart once they may differ from the offsets.       *)
addDegrees(G) == [G EXCEPT !.degrees = [i \in 1..G.n |-> G.offsets[i + 1] - G.offsets[i]]]

degree(G, v) == IF G.degrees = << >> THEN G.offsets[v + 2] - G.offsets[v + 1] ELSE G.degrees[v + 1]

Neighbors(G, v) == cut(G.edges, G.offsets[v + 1], G.offsets[v + 1] + degree(G, v))

numEdges(G) == IF G.degrees = << >> THEN Len(G.edges) ELSE reduce(G.degrees, plus)

(* Each vertex writes its edges from its offset on: a graph with gaps has  *)
(* no room for them.                                                       *)
edgesFromGraph(G) ==
    Cells(numEdges(G), UNION {Place(G.offsets[v + 1], v, [k \in 1..degree(G, v) |-> <<v, Neighbors(G, v)[k]>>])
                              : v \in 0..(G.n - 1)})

getOffsets(degrees_, n) == scan([i \in 1..(n + 1) |-> IF i = n + 1 THEN 0 ELSE degrees_[i - 1]], plus)

packGraph(G) ==
    LET sr == getOffsets([v \in 0..(G.n - 1) |-> degree(G, v)], G.n)
    IN  [n |-> G.n, offsets |-> sr.out, degrees |-> << >>,
         edges |-> Cells(sr.total, UNION {Place(sr.out[v + 1], v, Neighbors(G, v)) : v \in 0..(G.n - 1)})]

(* II[v + 1] is the new number of v.                                       *)
graphReorder(Gr, II) ==
    LET n == Gr.n
        V == Cells(n, {<<II[v + 1] + 1, v, v>> : v \in 0..(n - 1)})
        offsets == getOffsets([w \in 0..(n - 1) |-> degree(Gr, V[w + 1])], n).out
        List(w) == SortSeq([k \in 1..degree(Gr, V[w + 1]) |-> II[Neighbors(Gr, V[w + 1])[k] + 1]], <)
    IN  [n |-> n, offsets |-> offsets, degrees |-> << >>,
         edges |-> Cells(numEdges(Gr), UNION {Place(offsets[w + 1], w, List(w)) : w \in 0..(n - 1)})]

(* What stands for the hash of a place is its weight.                      *)
addRandWeights(E, n) == [E |-> [i \in DOMAIN E |-> <<E[i][1], E[i][2], hash64[i]>>], n |-> n]

(* It returns 1 for a graph with a mistake and has no return for others.   *)
graphCheckConsistency(Gr) ==
    LET n         == Gr.n
        edgecount == reduce([v \in 1..n |-> degree(Gr, v - 1)], plus)
        bad       == {v \in 0..(n - 1) : \E j \in 1..degree(Gr, v) : Neighbors(Gr, v)[j] >= n}
    IN  IF numEdges(Gr) # edgecount \/ bad # {} THEN 1 ELSE Torn

-----------------------------------------------------------------------------
(* approximate_kth_smallest: of the keys, by a sample of about the root of *)
(* their number.  For k = n it reads behind the sample, which may give any *)
(* key and a larger one than all.                                          *)
approximate_kth_smallest(S, k) ==
    LET n       == Len(S)
        samples == [i \in 1..FloorSqrt(n) |-> S[(hash64[i] % n) + 1]]
        place   == (k * Len(samples)) \div n
    IN  IF place < Len(samples) THEN {sample_sort(samples, FALSE, TRUE, FALSE)[place + 1][1]}
        ELSE ToSet(KeysIn(S)) \cup {1 + reduce(KeysIn(S), [op |-> "max"])}

NotReserved == WORD
NoParent_   == -1

(* The root of x in the forest.                                            *)
RootOf(parents, x) ==
    LET up[k \in Nat, y \in DOMAIN parents] == IF k = 0 \/ parents[y] = NoParent_ THEN y ELSE up[k - 1, parents[y]]
    IN  up[Cardinality(DOMAIN parents), x]

(* One round of speculative_for with the reserve and commit of the edges   *)
(* (SpecForests has the interleavings within it): f is the forest with the *)
(* reservations, its are the iterations of the round.  What fails to       *)
(* commit is kept, in order.                                               *)
KruskalRound(f, its) ==
    LET U == [i \in ToSet(its) |-> RootOf(f.parents, f.E[i + 1][1])]
        V == [i \in ToSet(its) |-> RootOf(f.parents, f.E[i + 1][2])]
        wanted == {i \in ToSet(its) : U[i] # V[i]}
        At(x)  == {i \in wanted : x \in {U[i], V[i]}}
        R == [x \in DOMAIN f.R |-> IF At(x) = {} THEN f.R[x] ELSE Minimum(f.R[x], Least(At(x)))]
        below(x) == IF R[x] \notin At(x) THEN f.parents[x]       \* what R[x] holds links x
                    ELSE LET i == R[x] IN
                         IF x = V[i] THEN U[i] ELSE IF R[V[i]] = i THEN f.parents[x] ELSE V[i]
        taken    == {i \in wanted : R[U[i]] = i \/ R[V[i]] = i}
        given(x) == \E i \in wanted : x = U[i] /\ R[x] = i /\ R[V[i]] = i
    IN  [E |-> [j \in DOMAIN f.E |-> IF j - 1 \in DOMAIN U THEN <<U[j - 1], V[j - 1]>> ELSE f.E[j]],
         parents |-> [x \in DOMAIN f.parents |-> below(x)],
         R    |-> [x \in DOMAIN R |-> IF given(x) THEN NotReserved ELSE R[x]],
         inST |-> f.inST \cup taken,
         kept |-> SelectSeq(its, LAMBDA i : i \in wanted \ taken)]

(* The sizes of the rounds adapt as in SpeculativeFor; a loop whose first  *)
(* size is 0 does not get anywhere.                                        *)
RECURSIVE KruskalRounds(_, _, _, _, _)
KruskalRounds(f, done, kept, cur, round) ==
    LET e    == Len(f.E)
        most == e \div mst_granularity + 1
        size == Minimum(cur, e - done)
        next == KruskalRound(f, kept \o [k \in 1..(size - Len(kept)) |-> done + Len(kept) + k - 1])
        n    == Len(next.kept)
    IN  IF done = e THEN f
        ELSE IF round > mst_tries \/ cur = 0 THEN Torn
        ELSE KruskalRounds(next, done + size - n, next.kept,
               CASE 5 * n >= size -> Larger(cur \div 2, Larger(most \div 64 + 1, n))
                 [] 10 * n < size -> Minimum(2 * cur, most)
                 [] OTHER         -> cur,
               round + 1)

UnionFindLoop(f) == KruskalRounds(f, 0, << >>, (Len(f.E) \div mst_granularity + 1) \div 4, 0)

(* Each edge gets the key its weight and its place have in edgeLess.       *)
mst(E, weight, n, kth) ==
    LET m    == Len(E)
        IW   == [i \in DOMAIN E |-> <<weight[i] * m + i - 1, <<E[i], i - 1>>>>]
        Edges(A) == [i \in DOMAIN A |-> A[i][2][1]]
        Ids(A, T) == {A[i + 1][2][2] : i \in T}
        IW1  == sample_sort_inplace(filter(IW, [i \in DOMAIN IW |-> IW[i][1] < kth]), TRUE, FALSE)
        f1   == UnionFindLoop([E |-> Edges(IW1), parents |-> [x \in 0..(n - 1) |-> NoParent_],
                               R |-> [x \in 0..(n - 1) |-> NotReserved], inST |-> {}, kept |-> << >>])
        IW2  == sample_sort_inplace(
                  filter(IW, [i \in DOMAIN IW |-> /\ IW[i][1] >= kth
                                                  /\ RootOf(f1.parents, E[i][1]) # RootOf(f1.parents, E[i][2])]),
                  TRUE, FALSE)
        f2   == UnionFindLoop([f1 EXCEPT !.E = Edges(IW2), !.inST = {}, !.kept = << >>])
        flags == Ids(IW1, f1.inST) \cup Ids(IW2, f2.inST)
    IN  IF f1 = Torn \/ f2 = Torn THEN Torn
        ELSE pack_index([i \in DOMAIN E |-> i - 1 \in flags])

-----------------------------------------------------------------------------
(* The reference: an edge is in the forest if those before it in the order *)
(* of weights leave its ends apart.                                        *)
KruskalTakes(E, weight, n, i) ==
    LET Before == {j \in DOMAIN E : weight[j] < weight[i] \/ (weight[j] = weight[i] /\ j < i)}
    IN  \E S \in SUBSET (0..(n - 1)) : /\ E[i][1] \in S /\ E[i][2] \notin S
                                       /\ \A j \in Before : E[j][1] \in S <=> E[j][2] \in S

(* For every list of edges, loops and repeated edges in it: the adjacency  *)
(* arrays hold the edges, each vertex's in their order; made symmetric a   *)
(* graph has each edge in both directions, once, and no loops; packing     *)
(* after edges were dropped, and renumbering, lose nothing.                *)
GraphsRight(E, n) ==
    LET G == graphFromEdges(E, n, FALSE)
        S == graphFromEdges(E, n, TRUE)
        D == addDegrees(S)
        Less == [D EXCEPT !.degrees = [i \in 1..n |-> (D.degrees[i] + 1) \div 2]]
        II == [v \in 1..n |-> (v + 1) % n]
        P == packGraph(Less)
        Q == graphReorder(S, II)
        Ends == {<<p[1], p[2]>> : p \in {x \in ToSet(E) : x[1] # x[2]}}
    IN  /\ \A v \in 0..(n - 1) :
             Neighbors(G, v) = [k \in 1..Len(SelectSeq(E, LAMBDA x : x[1] = v)) |-> SelectSeq(E, LAMBDA x : x[1] = v)[k][2]]
        /\ LET L == edgesFromGraph(S) IN
             /\ ToSet(L) = Ends \cup {<<p[2], p[1]>> : p \in Ends}
             /\ Len(L) = Cardinality(ToSet(L))
        /\ \A v \in 0..(n - 1) : Neighbors(P, v) = Neighbors(Less, v)
        /\ numEdges(P) = numEdges(Less)
        /\ ToSet(edgesFromGraph(Q)) = {<<II[x[1] + 1], II[x[2] + 1]>> : x \in ToSet(edgesFromGraph(S))}
        /\ graphFromEdges(edgesFromGraph(Q), n, FALSE) = Q
        /\ graphCheckConsistency(Less) = Torn
        /\ \A i \in DOMAIN S.edges : graphCheckConsistency([S EXCEPT !.edges[i] = n]) = 1

(* Whatever key the sample gives to divide the edges by, the two loops     *)
(* take what Kruskal's algorithm takes: what the first leaves reserved     *)
(* does not stop an edge of the second.  (Loops too small to have a first  *)
(* round, the case of the run few, do not end here either.)                *)
ForestRight(E, weight, n) ==
    LET m  == Len(E)
        A  == [i \in DOMAIN E |-> <<weight[i] * m + i - 1, i>>]
        right == SetToSortSeq({i - 1 : i \in {j \in DOMAIN E : KruskalTakes(E, weight, n, j)}}, <)
    IN  m > 0 => \A kth \in approximate_kth_smallest(A, Minimum((5 * n) \div 4, m)) :
          LET r == mst(E, weight, n, kth) IN r # Torn => r = right

-----------------------------------------------------------------------------
(* parlay/io.h: numbers are read from characters, which are given by their *)
(* codes.  A float is what it stands for: a sign, an integer, and the      *)
(* power of ten to multiply it with or divide it by.                       *)
BLANK  == 32
PLUS   == 43
MINUS  == 45
PERIOD == 46
ZERO   == 48
EXP    == 101       \* 'e'
INF    == 105       \* 'i', how "inf" begins

IsDigit(c) == c \in ZERO..(ZERO + 9)

(* Where the digits that begin at i end; their values.                     *)
DigitsEnd(s, i) == CHOOSE j \in i..(Len(s) + 1) : /\ \A k \in i..(j - 1) : IsDigit(s[k])
                                                  /\ j <= Len(s) => ~IsDigit(s[j])
DigitsAt(s, i)  == [k \in 1..(DigitsEnd(s, i) - i) |-> s[i + k - 1] - ZERO]

AfterSign(s, i) == IF s[i] \in {MINUS, PLUS} THEN i + 1 ELSE i

(* The result of an operation on a signed type, if it has that value.      *)
Signed(x, bits) == IF x \in -(2^(bits - 1))..(2^(bits - 1) - 1) THEN x ELSE Torn


(* The negative of the digits, which has room for the least value of all.  *)
NegativeSum(digits, bits) ==
    FoldLeft(LAMBDA a, d : IF a = Torn THEN a ELSE Signed(10 * a - d, bits), 0, digits)

UnsignedSum(digits, bits) == FoldLeft(LAMBDA a, d : (10 * a + d) % 2^bits, 0, digits)

chars_to_int_t(s, is_signed, bits) ==
    IF s = << >> THEN Torn      \* reads s[0]
    ELSE LET digits == DigitsAt(s, AfterSign(s, 1))
             r == IF is_signed THEN NegativeSum(digits, bits) ELSE UnsignedSum(digits, bits)
         IN  CASE r = Torn  -> Torn
               [] is_signed -> IF s[1] = MINUS THEN r ELSE Signed(-r, bits)
               [] OTHER     -> IF s[1] = MINUS THEN (-r) % 2^bits ELSE r

(* What a numeral denotes, as stod takes it.                               *)
stod(s) ==
    LET begin == CHOOSE k \in DOMAIN s : s[k] # BLANK /\ \A l \in 1..(k - 1) : s[l] = BLANK
        e     == Least({k \in DOMAIN s : s[k] = EXP} \cup {Len(s) + 1})
        point == Least({k \in DOMAIN s : s[k] = PERIOD} \cup {e})
        Number(t) == FoldLeft(LAMBDA a, c : 10 * a + c - ZERO, 0, SelectSeq(t, IsDigit))
        exponent  == Number(SubSeq(s, e, Len(s)))
    IN  IF s[AfterSign(s, begin)] = INF THEN [negative |-> s[begin] = MINUS, infinite |-> TRUE]
        ELSE [negative |-> s[begin] = MINUS,
              integer  |-> Number(SubSeq(s, 1, e - 1)),
              power    |-> (IF e < Len(s) /\ s[e + 1] = MINUS THEN -exponent ELSE exponent)
                             - (IF point < e THEN e - point - 1 ELSE 0)]

(* The exponent behind the e at i: read as an unsigned number, which its   *)
(* conversion makes a signed one.                                          *)
ExponentAt(s, i) ==
    LET x == chars_to_int_t(cut(s, i, Len(s)), FALSE, uint64_bits)
    IN  IF x < 2^(uint64_bits - 1) THEN x ELSE x - 2^uint64_bits

(* What the fast path finds in s: digits and exponent.                     *)
FloatParts(s, i) ==
    LET n == Len(s)
        d == DigitsEnd(s, i)            \* behind the digits before the point
        f == DigitsEnd(s, d + 1)        \* behind those after it
    IN  CASE d = n + 1  -> [digits |-> DigitsAt(s, i), exponent |-> 0]
          [] d <= n /\ s[d] = EXP -> [digits |-> DigitsAt(s, i), exponent |-> ExponentAt(s, d)]
          [] OTHER      -> [digits   |-> DigitsAt(s, i) \o DigitsAt(s, d + 1),
                            exponent |-> (IF f <= n /\ s[f] = EXP THEN ExponentAt(s, f) ELSE 0) - (f - d - 1)]

LeftToStod(s) == Len(s) > float_len

chars_to_float_t(s) ==
    LET begin == CHOOSE k \in DOMAIN s : s[k] # BLANK /\ \A l \in 1..(k - 1) : s[l] = BLANK
        i     == AfterSign(s, begin)
        parts == FloatParts(s, i)
        r     == UnsignedSum(parts.digits, uint64_bits)
    IN  IF LeftToStod(s) \/ s[i] = INF THEN stod(s)
        ELSE IF r < 2^float_man /\ parts.exponent \in -float_exp..float_exp
             THEN [negative |-> s[begin] = MINUS, integer |-> r, power |-> parts.exponent]
             ELSE stod(s)

-----------------------------------------------------------------------------
Codes(digits) == [i \in DOMAIN digits |-> ZERO + digits[i]]

(* Digits behind a sign are read as the number they spell, by a signed     *)
(* type if it has it, by an unsigned one modulo its size.                  *)
IntegersRead(digits, bits) ==
    LET value == FoldLeft(LAMBDA a, d : 10 * a + d, 0, digits)
    IN  \A sign \in {<< >>, <<PLUS>>, <<MINUS>>} :
          LET x == IF sign = <<MINUS>> THEN -value ELSE value
          IN  /\ Signed(x, bits) # Torn => chars_to_int_t(sign \o Codes(digits), TRUE, bits) = x
              /\ chars_to_int_t(sign \o Codes(digits), FALSE, bits) = x % 2^bits

(* The fast path agrees with stod on every numeral with these digits, and  *)
(* both factors of the number it computes are exact.                       *)
FloatsRead(digits) ==
    \A sign \in {<< >>, <<BLANK, MINUS>>, <<PLUS>>}, point \in 0..(Len(digits) + 1), 
       exponent \in {<< >>, <<EXP, ZERO + 2>>, <<EXP, MINUS, ZERO + 1>>, <<EXP, PLUS, ZERO + 1, ZERO>>} :
          LET s == sign \o (IF point > Len(digits) THEN Codes(digits)
                            ELSE Codes(SubSeq(digits, 1, point)) \o <<PERIOD>> \o Codes(cut(digits, point, Len(digits))))
                        \o exponent
          IN  chars_to_float_t(s) = stod(s)

NumeralsRight(digits, bits) ==
    digits # << >> => /\ IntegersRead(digits, bits)
                      /\ FloatsRead(digits)
                      /\ chars_to_float_t(<<MINUS, INF>>) = stod(<<MINUS, INF>>)

-----------------------------------------------------------------------------
NUL     == 0
NEWLINE == 10

AdjGraphHeader     == 65
EdgeArrayHeader    == 66
WghEdgeArrayHeader == 67
WghAdjGraphHeader  == 68

WhiteSpace(c) == c \in {13, 9, NEWLINE, NUL, BLANK}

(* An element is a sequence of fields: the room its type takes and what is *)
(* stored in it, with sprintf's zero.                                      *)
RECURSIVE Decimal(_)
Decimal(x) == CASE x < 0       -> <<MINUS>> \o Decimal(-x)
                [] x \in 0..9 -> <<ZERO + x>>
                [] OTHER       -> Append(Decimal(x \div 10), ZERO + (x % 10))
long(x)      == <<[room |-> long_width, text |-> Append(Decimal(x), NUL)]>>
weight_(x)   == <<[room |-> weight_width, text |-> Append(Decimal(x), NUL)]>>
charstring(a) == <<[room |-> Len(a), text |-> a]>>

xToStringLen(x) == FoldLeft(LAMBDA l, f : l + f.room + 1, -1, x)

(* The stores made in turn from place at on: of each field its text, and a *)
(* blank if another one follows.                                           *)
xToString(at, x) ==
    LET begin(k) == at + xToStringLen(SubSeq(x, 1, k - 1)) + 1
        Field(k) == [i \in DOMAIN x[k].text |-> <<begin(k) + i - 1, x[k].text[i]>>]
    IN  FlattenSeq([k \in DOMAIN x |-> Field(k) \o IF k = Len(x) THEN << >> ELSE <<<<begin(k) + x[k].room, BLANK>>>>])

(* The cells of B after these stores, the last one to a cell being what    *)
(* stays.                                                                  *)
Stored(B, stores) ==
    cut([c \in DOMAIN B |-> LET here == SelectSeq(stores, LAMBDA w : w[1] = c)
                            IN  IF here = << >> THEN B[c] ELSE Last(here)[2]], 0, Len(B))

(* The same for the stores of the iterations of a parallel loop: two that  *)
(* store in one cell leave nobody knows what.                              *)
StoredInParallel(B, loop) ==
    LET At(i) == {loop[i][k][1] : k \in DOMAIN loop[i]}
        twice == UNION {At(i) \cap UNION {At(j) : j \in (i + 1)..Len(loop)} : i \in DOMAIN loop}
    IN  Stored(Stored(B, FlattenSeq(loop)), [k \in 1..Cardinality(twice) |-> <<SetToSeq(twice)[k], Torn>>])


Line(A, L, i) == Append(xToString(L[i] + 1, A[i]), <<L[i + 1], NEWLINE>>)

seqToString(A) ==
    LET n == Len(A)
        L == scan([i \in DOMAIN A |-> xToStringLen(A[i]) + 1], plus)
        m == L.total
        B == StoredInParallel([c \in 1..(m + 1) |-> NUL], [i \in 1..(n - 1) |-> Line(A, L.out, i)])
        C == Stored(B, xToString(L.out[n] + 1, A[n]) \o <<<<m, NEWLINE>>, <<m + 1, NEWLINE>>>>)
        D == filter(C, [c \in DOMAIN C |-> C[c] # NUL])
    IN  Append(Front(D), NUL)

writeSeqToStream(A) ==
    LET chunks == (Len(A) + stream_chunk - 1) \div stream_chunk
    IN  FlattenSeq([c \in 1..chunks |->
          Front(seqToString(cut(A, (c - 1) * stream_chunk, Minimum(c * stream_chunk, Len(A)))))])

writeSeqToFile(header, A)     == <<header, NEWLINE>> \o writeSeqToStream(A)
write2SeqToFile(header, A, B) == <<header, NEWLINE>> \o writeSeqToStream(A) \o writeSeqToStream(B)

get_tokens(file) ==
    LET T == tokens_of([i \in DOMAIN file |-> <<IF WhiteSpace(file[i]) THEN NUL ELSE file[i]>>])
    IN  [w \in DOMAIN T |-> KeysIn(T[w])]

(* A word ends where a zero is; behind a file that does not end with white *)
(* space there is none.                                                    *)
stringToWords(file) ==
    LET Str == [i \in DOMAIN file |-> IF WhiteSpace(file[i]) THEN NUL ELSE file[i]]
        FL  == [i \in DOMAIN Str |-> IF i = 1 THEN Str[1] # NUL ELSE Str[i] # NUL /\ Str[i - 1] = NUL]
        offsets == pack_index(FL)
        Ends(i) == {j \in i..Len(Str) : Str[j] = NUL}
    IN  [w \in DOMAIN offsets |-> IF Ends(offsets[w] + 1) = {} THEN Torn
                                  ELSE SubSeq(Str, offsets[w] + 1, Least(Ends(offsets[w] + 1)) - 1)]

chars_to_long(s) == chars_to_int_t(s, TRUE, 31)
atol(s)          == stod(s).integer

-----------------------------------------------------------------------------
LongSeq(A) == [i \in DOMAIN A |-> long(A[i])]

writeGraphToFile(G) ==
    LET P == IF G.degrees = << >> THEN G ELSE packGraph(G)
        n == P.n
        m == numEdges(P)
        Out == Cells(2 + n + m, {<<1, "n", n>>, <<2, "m", m>>}
                       \cup {<<v + 3, v, P.offsets[v + 1]>> : v \in 0..(n - 1)}
                       \cup UNION {Place(P.offsets[v + 1] + 2 + n, v, Neighbors(P, v)) : v \in 0..(n - 1)})
    IN  writeSeqToFile(AdjGraphHeader, LongSeq(Out))

(* The number of edges goes into the weights, where it is overwritten (or  *)
(* does not fit): the header of the file says 0.                           *)
writeWghGraphToFile(G) ==
    LET n == G.n
        m == Len(G.edges)
        Out1 == <<n, 0>> \o cut(G.offsets, 0, n) \o Cells(m, UNION {Place(G.offsets[v + 1], v, Neighbors(G, v)) : v \in 0..(n - 1)})
        Out2 == Cells(m, UNION {Place(G.offsets[v + 1], v, cut(G.weights, G.offsets[v + 1], G.offsets[v + 1] + degree(G, v)))
                                : v \in 0..(n - 1)})
    IN  IF m < 2 THEN Torn
        ELSE write2SeqToFile(WghAdjGraphHeader, LongSeq(Out1), [i \in DOMAIN Out2 |-> weight_(Out2[i])])

EdgeText(e)    == long(e[1]) \o long(e[2])
WghEdgeText(e) == EdgeText(e) \o weight_(e[3])

writeEdgeArrayToFile(EA)    == writeSeqToFile(EdgeArrayHeader, [i \in DOMAIN EA |-> EdgeText(EA[i])])
writeWghEdgeArrayToFile(EA) == writeSeqToFile(WghEdgeArrayHeader, [i \in DOMAIN EA |-> WghEdgeText(EA[i])])

(* The number of vertices is not written: it is taken from the largest.    *)
VerticesIn(E) == Larger(reduce([i \in DOMAIN E |-> E[i][1]], [op |-> "max"]),
                        reduce([i \in DOMAIN E |-> E[i][2]], [op |-> "max"])) + 1

readEdgeArrayFromFile(file) ==
    LET W == stringToWords(file)
        E == [i \in 1..((Len(W) - 1) \div 2) |-> <<atol(W[2 * i]), atol(W[2 * i + 1])>>]
    IN  IF W[1] # <<EdgeArrayHeader>> THEN Torn ELSE [E |-> E, n |-> VerticesIn(E)]

readWghEdgeArrayFromFile(file) ==
    LET W == stringToWords(file)
        E == [i \in 1..((Len(W) - 1) \div 3) |-> <<atol(W[3 * i - 1]), atol(W[3 * i]), atol(W[3 * i + 1])>>]
    IN  IF W[1] # <<WghEdgeArrayHeader>> THEN Torn ELSE [E |-> E, n |-> VerticesIn(E)]

readGraphFromFile(file) ==
    LET W == get_tokens(file)
        n == chars_to_long(W[2])
        m == chars_to_long(W[3])
    IN  IF W[1] # <<AdjGraphHeader>> \/ Len(W) # n + m + 3 THEN Torn
        ELSE [n |-> n, degrees |-> << >>,
              offsets |-> [i \in 1..(n + 1) |-> IF i = n + 1 THEN m ELSE chars_to_long(W[i + 3])],
              edges   |-> [i \in 1..m |-> chars_to_long(W[n + i + 3])]]

readWghGraphFromFile(file) ==
    LET W == stringToWords(file)
        n == atol(W[2])
        m == atol(W[3])
    IN  IF W[1] # <<WghAdjGraphHeader>> \/ Len(W) # n + 2 * m + 3 THEN Torn
        ELSE [n |-> n, degrees |-> << >>,
              offsets |-> [i \in 1..(n + 1) |-> IF i = n + 1 THEN m ELSE atol(W[i + 3])],
              edges   |-> [i \in 1..m |-> atol(W[n + i + 3])],
              weights |-> [i \in 1..m |-> atol(W[n + m + i + 3])]]

(* II and perm stand for the random orders of vertices and of edges, perm  *)
(* for that of many more edges than there are.                             *)
writeGraphFromAdj(G, adjArray, ordered, II, perm) ==
    LET H == IF ordered THEN G ELSE graphReorder(G, II)
        B == edgesFromGraph(H)
        p == SelectSeq(perm, LAMBDA i : i <= Len(B))
    IN  IF adjArray THEN writeGraphToFile(H)
        ELSE writeEdgeArrayToFile(IF ordered THEN B ELSE [i \in DOMAIN B |-> B[p[i]]])

wghGraphFromEdges(A, n) ==
    LET s == integer_sort_with_counts([i \in DOMAIN A |-> <<A[i][1], A[i]>>], n)
    IN  [n |-> n, degrees |-> << >>,
         offsets |-> scan([i \in 1..(n + 1) |-> IF i = n + 1 THEN 0 ELSE s.counts[i]], plus).out,
         edges   |-> [i \in DOMAIN A |-> s.R[i][2][2]],
         weights |-> [i \in DOMAIN A |-> s.R[i][2][3]]]

-----------------------------------------------------------------------------
(* common/sequenceIO.h: the header says which of a few types the elements  *)
(* are of, T is the one that the program has for them.                     *)
dataType(T) ==
    CASE T \in {"long", "int", "uint"}                             -> "intType"
      [] T = "double"                                              -> "doubleT"
      [] T = "charSeq"                                             -> "stringT"
      [] T \in {"intPair", "uintPair", "uintIntPair", "longPair"} -> "intPairT"
      [] T = "stringIntPair"                                       -> "stringIntPairT"
      [] T = "doublePair"                                          -> "doublePairT"

seqHeader == [intType |-> 73, doubleT |-> 74, stringT |-> 75, intPairT |-> 76,
              stringIntPairT |-> 77, doublePairT |-> 78]

elementTypeFromHeader(R) ==
    IF \E dt \in DOMAIN seqHeader : R = <<seqHeader[dt]>>
    THEN CHOOSE dt \in DOMAIN seqHeader : R = <<seqHeader[dt]>> ELSE "none"

(* A word as a T, or as a part of a pair T.  (The doubles are integers.)   *)
Parsed(T, word) ==
    LET x    == chars_to_long(word)
        half == 2^(int_bits - 1)
    IN  CASE T \in {"int", "intPair"}       -> ((x + half) % (2 * half)) - half
          [] T \in {"uint", "uintPair"}     -> x % (2 * half)
          [] T = "long"                     -> x
          [] T \in {"double", "doublePair"} -> chars_to_float_t(word).integer
          [] T = "charSeq"                  -> word

parseElements(T, S) ==
    IF T \in {"intPair", "uintPair", "doublePair"}
    THEN [i \in 1..(Len(S) \div 2) |-> <<Parsed(T, S[2 * i - 1]), Parsed(T, S[2 * i])>>]
    ELSE [i \in DOMAIN S |-> Parsed(T, S[i])]

(* What an element is written as.                                          *)
ElementText(T, x) ==
    CASE dataType(T) = "intType"        -> long(x)
      [] dataType(T) = "doubleT"        -> weight_(x)
      [] dataType(T) = "stringT"        -> charstring(x)
      [] dataType(T) = "intPairT"       -> long(x[1]) \o long(x[2])
      [] dataType(T) = "stringIntPairT" -> charstring(x[1]) \o long(x[2])
      [] dataType(T) = "doublePairT"    -> weight_(x[1]) \o weight_(x[2])

(* It looks at the first element.                                          *)
writeSequenceToFile(T, A) ==
    IF A = << >> THEN Torn
    ELSE writeSeqToFile(seqHeader[dataType(T)], [i \in DOMAIN A |-> ElementText(T, A[i])])

(* How programs read them; readSequenceFromFile, which would, gives        *)
(* check_header the first word for the list of words and is not compiled.  *)
ReadSequence(T, file) ==
    LET In == get_tokens(file)
    IN  IF elementTypeFromHeader(In[1]) # dataType(T) THEN Torn ELSE parseElements(T, Tail(In))

writeIntSeqToFile(A) == writeSeqToFile(seqHeader["intType"], [i \in DOMAIN A |-> long(A[i])])

readIntSeqFromFile(file) ==
    LET W == get_tokens(file)
    IN  IF W[1] # <<seqHeader["intType"]>> THEN Torn ELSE [i \in 1..(Len(W) - 1) |-> chars_to_long(W[i + 1])]

-----------------------------------------------------------------------------
(* common/geometryIO.h: points of d coordinates, and triangles of three    *)
(* places in a list of points.                                             *)
HeaderPoint(d)  == IF d = 2 THEN 79 ELSE 80
HeaderTriangles == 81

PointText(a) == FlattenSeq([k \in DOMAIN a |-> weight_(a[k])])
PointTexts(P) == [i \in DOMAIN P |-> PointText(P[i])]

writePointsToFile(P, d) == writeSeqToFile(HeaderPoint(d), PointTexts(P))

parsePoints(W, d) ==
    LET n == Len(W) \div d
        a == [i \in 1..(d * n) |-> atol(W[i])]
    IN  [i \in 1..n |-> cut(a, d * (i - 1), d * i)]

readPointsFromFile(file, d) ==
    LET W == stringToWords(file)
    IN  IF W = << >> \/ W[1] # <<HeaderPoint(d)>> THEN Torn ELSE parsePoints(Tail(W), d)

(* The places are counted from the offset.                                 *)
readTrianglesFromFile(file, d, offset) ==
    LET W == stringToWords(file)
        headerSize == 3
        n == atol(W[2])
        m == atol(W[3])
        tri_slice == cut(W, headerSize + d * n, Len(W))
    IN  IF W[1] # <<HeaderTriangles>> \/ Len(W) # headerSize + 3 * m + d * n THEN Torn
        ELSE [P |-> parsePoints(cut(W, headerSize, headerSize + d * n), d),
              T |-> [i \in 1..m |-> [k \in 1..3 |-> atol(tri_slice[3 * (i - 1) + k]) - offset]]]

writeTrianglesToFile(Tr) ==
    LET Number(x) == Append(Decimal(x), NEWLINE)
        A == [i \in 1..(3 * Len(Tr.T)) |-> long(Tr.T[(i - 1) \div 3 + 1][((i - 1) % 3) + 1])]
    IN  <<HeaderTriangles, NEWLINE>> \o Number(Len(Tr.P)) \o Number(Len(Tr.T))
          \o writeSeqToStream(PointTexts(Tr.P)) \o writeSeqToStream(A)

-----------------------------------------------------------------------------
(* Sequences of every type that can be read come back as they were, as     *)
(* long as the type holds them; so do points and triangles.                *)
SequenceFilesRight(E, weight) ==
    LET Back(T, A) == ReadSequence(T, writeSequenceToFile(T, A))
        Minus == [i \in DOMAIN weight |-> -weight[i]]
        Words == [i \in DOMAIN weight |-> Decimal(weight[i])]
        Pairs == [i \in DOMAIN weight |-> <<Words[i], weight[i]>>]
        Solid == [i \in DOMAIN E |-> Append(E[i], weight[i])]
        Tr(offset) == [P |-> E, T |-> [i \in 1..(Len(E) + 1) |-> <<offset, i + offset, weight[1] + offset>>]]
    IN  /\ \A T \in {"long", "int", "uint", "double"} : Back(T, weight) = weight
        /\ \A T \in {"long", "int"} : Back(T, Minus) = Minus
        /\ \A T \in {"intPair", "uintPair", "doublePair"} : Back(T, E) = E
        /\ Back("charSeq", Words) = Words
        /\ parseElements("charSeq", Tail(get_tokens(writeSequenceToFile("stringIntPair", Pairs))))
             = FlattenSeq([i \in DOMAIN E |-> <<Words[i], Words[i]>>])
        /\ readIntSeqFromFile(writeIntSeqToFile(weight)) = weight
        /\ readPointsFromFile(writePointsToFile(E, 2), 2) = E
        /\ readPointsFromFile(writePointsToFile(Solid, 3), 3) = Solid
        /\ \A offset \in 0..1 : readTrianglesFromFile(writeTrianglesToFile(Tr(offset)), 2, offset) = Tr(0)

(* Everything written is read back as it was, whatever the sizes of texts  *)
(* in their cells and of chunks: adjacency arrays, those with degrees      *)
(* packed, and lists of edges, which give a list of edges again.  A        *)
(* weighted graph is, once the number of its edges stands in its header.   *)
FilesRight(E, weight, n) ==
    LET S  == graphFromEdges(E, n, TRUE)
        D  == addDegrees(S)
        Less == [D EXCEPT !.degrees = [i \in 1..n |-> (D.degrees[i] + 1) \div 2]]
        II == [v \in 1..n |-> (v + 1) % n]
        WE == [i \in DOMAIN E |-> <<E[i][1], E[i][2], weight[i]>>]
        WG == wghGraphFromEdges(WE, n)
        perm == [i \in 1..(2 * Len(E)) |-> 2 * Len(E) + 1 - i]
        Edges(file) == readEdgeArrayFromFile(file).E
    IN  /\ E # << >> => SequenceFilesRight(E, weight)
        /\ readGraphFromFile(writeGraphFromAdj(S, TRUE, TRUE, II, perm)) = S
        /\ readGraphFromFile(writeGraphToFile(Less)) = packGraph(Less)
        /\ numEdges(S) > 0 =>
             /\ Edges(writeGraphFromAdj(S, FALSE, TRUE, II, perm)) = edgesFromGraph(S)
             /\ graphFromEdges(Edges(writeGraphFromAdj(S, FALSE, FALSE, II, perm)), n, TRUE) = graphReorder(S, II)
        /\ E # << >> => LET r == readWghEdgeArrayFromFile(writeWghEdgeArrayToFile(WE))
                       IN  r.E = WE /\ r.n <= n /\ \A i \in DOMAIN E : E[i][1] < r.n /\ E[i][2] < r.n
        /\ Len(E) > 1 =>
             LET file  == writeWghGraphToFile(WG)
                 count == 4 + Len(Decimal(n))    \* where the header says 0
             IN  readWghGraphFromFile(SubSeq(file, 1, count - 1) \o Decimal(Len(E)) \o SubSeq(file, count + 1, Len(file))) = WG
===============================================================================
