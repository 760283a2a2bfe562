-------------------------- MODULE SequenceContainer --------------------------
(***************************************************************************)
(* The container of parlay/sequence.h over the storage of                  *)
(* internal/sequence_base.h: a buffer on the heap with its capacity or,    *)
(* with small-size optimization, the object itself.                        *)
(*                                                                         *)
(* A call is one step: its parallel loops touch each cell once.  It is     *)
(* written as a pipe of functions of the memory m.  Elements of a sequence *)
(* without the optimization are taken not to be trivial: a cell without an *)
(* object is Raw, and the loops that trivial types skip are run.           *)
(***************************************************************************)
EXTENDS Integers, Sequences, FiniteSets, SequencesExt

CONSTANTS
    Names,              \* the sequences of the callers
    Values,
    short_capacity,     \* 15 bytes' worth of elements
    Lists,              \* the lists of values that callers have
    MaxSize             \* bound: how many elements the sequences have together

Raw     == "raw"
Moved   == "moved"      \* an object after it was moved from
None    == -1           \* no position
nullptr == 0
NoIterator == [buffer |-> nullptr, at |-> None]
Temps   == {"the_tail", "b", "r"}      \* temporaries, empty between two calls

VARIABLES
    use_sso,
    m,      \* [obj, heap, alive, ok, it]: see SeqInit
    call    \* the last call and its arguments

seqVars == <<use_sso, m, call>>

empty_representation ==
    [flag |-> 0, n |-> 0, buffer |-> nullptr, short |-> [i \in 1..short_capacity |-> Raw]]

(* alive counts the elements constructed and not destroyed; ok is false    *)
(* once an element was constructed over another, or used or destroyed      *)
(* where there was none; it is the iterator that the last call returned.   *)
SeqInit ==
    /\ use_sso \in BOOLEAN
    /\ m = [obj   |-> [x \in Names \cup Temps |-> empty_representation],
            heap  |-> [b \in {} |-> << >>],
            alive |-> 0, ok |-> TRUE, it |-> NoIterator]
    /\ call = [op |-> "none", x |-> None, result |-> None]

-----------------------------------------------------------------------------
(* storage_impl.                                                           *)

is_small(mem, x) == use_sso /\ mem.obj[x].flag = 0

Cells(mem, x) ==
    LET o == mem.obj[x] IN
    CASE is_small(mem, x)                            -> o.short
      [] ~is_small(mem, x) /\ o.buffer = nullptr     -> << >>
      [] ~is_small(mem, x) /\ o.buffer # nullptr     -> mem.heap[o.buffer]

capacity(mem, x) == Len(Cells(mem, x))
size(mem, x)     == mem.obj[x].n
Elements(mem, x) == SubSeq(Cells(mem, x), 1, size(mem, x))

WithCells(mem, x, cells) ==
    IF is_small(mem, x) THEN [mem EXCEPT !.obj[x].short = cells]
                        ELSE [mem EXCEPT !.heap[mem.obj[x].buffer] = cells]

(* The cells after from hold something else, and change what is alive.     *)
Overwrite(mem, x, from, new, count, legal) ==
    LET old == Cells(mem, x) IN
    IF new = << >> THEN mem
    ELSE IF from + Len(new) > Len(old) THEN [mem EXCEPT !.ok = FALSE]
    ELSE [WithCells(mem, x, [i \in DOMAIN old |->
                               IF i > from /\ i <= from + Len(new) THEN new[i - from] ELSE old[i]])
          EXCEPT !.alive = @ + count,
                 !.ok = @ /\ (use_sso \/ \A i \in 1..Len(new) : legal[old[from + i] = Raw])]

SumSizes(mem, X) == FoldFunctionOnSet(LAMBDA o, sum : o.n + sum, 0, mem.obj, X)

MustBeRaw  == [raw \in BOOLEAN |-> raw]
MustBeLive == [raw \in BOOLEAN |-> ~raw]
Copies(v, k) == [i \in 1..k |-> v]

initialize(mem, x, from, vals) == Overwrite(mem, x, from, vals, Len(vals), MustBeRaw)

destroy(mem, x, from, to) ==
    IF use_sso THEN [mem EXCEPT !.alive = @ - (to - from)]
    ELSE Overwrite(mem, x, from, Copies(Raw, to - from), from - to, MustBeLive)

(* The elements are moved out: those of trivial types stay what they are.  *)
MoveOut(mem, x, from, to) ==
    IF use_sso THEN mem ELSE Overwrite(mem, x, from, Copies(Moved, to - from), 0, MustBeLive)

set_size(mem, x, n) ==
    [mem EXCEPT !.obj[x].n = n, !.ok = @ /\ n <= capacity(mem, x)]

NewBuffer(mem) == CHOOSE b \in 1..(Cardinality(DOMAIN mem.heap) + 1) : b \notin DOMAIN mem.heap
Allocate(mem, cells) ==
    [mem EXCEPT !.heap = [b \in DOMAIN @ \cup {NewBuffer(mem)} |->
                            IF b = NewBuffer(mem) THEN cells ELSE @[b]]]
free_buffer(mem, x) ==
    LET b == mem.obj[x].buffer IN
    IF b = nullptr THEN mem
    ELSE [mem EXCEPT !.heap = [c \in DOMAIN @ \ {b} |-> @[c]], !.ok = @ /\ b \in DOMAIN mem.heap]

set_to_empty_representation(mem, x) == [mem EXCEPT !.obj[x] = empty_representation]

Large(b, n) == [empty_representation EXCEPT !.flag = 1, !.buffer = b, !.n = n]

initialize_capacity(mem, x, desired) ==
    IF use_sso /\ desired <= short_capacity THEN [mem EXCEPT !.obj[x].flag = 0]
    ELSE [Allocate(mem, Copies(Raw, desired)) EXCEPT !.obj[x] = Large(NewBuffer(mem), 0)]

EnsureKeepsBuffer(mem, x, desired) ==      \* mutant: does not free the old buffer
    IF capacity(mem, x) >= desired THEN mem
    ELSE LET cap  == IF (5 * capacity(mem, x)) \div 2 > desired
                       THEN (5 * capacity(mem, x)) \div 2 ELSE desired
         IN  [Allocate(mem, Elements(mem, x) \o Copies(Raw, cap - size(mem, x)))
              EXCEPT !.obj[x] = Large(NewBuffer(mem), size(mem, x))]

(* The elements are relocated, which leaves none in the old buffer.        *)
ensure_capacity(mem, x, desired) ==
    IF capacity(mem, x) >= desired THEN mem
    ELSE LET cap   == IF (5 * capacity(mem, x)) \div 2 > desired
                        THEN (5 * capacity(mem, x)) \div 2 ELSE desired
             moved == Allocate(mem, Elements(mem, x) \o Copies(Raw, cap - size(mem, x)))
             freed == IF is_small(mem, x) THEN moved ELSE free_buffer(moved, x)
         IN  [freed EXCEPT !.obj[x] = Large(NewBuffer(mem), size(mem, x))]

destroy_all(mem, x) == destroy(mem, x, 0, size(mem, x))

(* The elements of a small sequence are trivial, and are not destroyed.    *)
clear(mem, x) ==
    set_to_empty_representation(
      IF is_small(mem, x) THEN [mem EXCEPT !.alive = @ - size(mem, x)]
                          ELSE free_buffer(destroy_all(mem, x), x), x)

move_from(mem, x, y) ==
    [mem EXCEPT !.obj = [@ EXCEPT ![x] = mem.obj[y], ![y] = empty_representation]]

swap(mem, x, y) == [mem EXCEPT !.obj = [@ EXCEPT ![x] = mem.obj[y], ![y] = mem.obj[x]]]

-----------------------------------------------------------------------------
(* sequence.                                                               *)

initialize_range(mem, x, vals) ==
    set_size(initialize(initialize_capacity(mem, x, Len(vals)), x, 0, vals), x, Len(vals))

(* A list of equal values may be value-initialized ones.                   *)
initialize_fill(mem, x, v, n) == initialize_range(mem, x, Copies(v, n))

(* It has its size before it has its elements.                             *)
uninitialized(mem, x, n) == set_size(initialize_capacity(mem, x, n), x, n)

from_function(mem, x, f) == initialize(uninitialized(mem, x, Len(f)), x, 0, f)

(* Slices: cut, and head and tail as cuts.                                 *)
slice(mem, x, s, e) == SubSeq(Elements(mem, x), s + 1, e)

(* to_sequence(range), and of a slice.                                     *)
to_sequence(mem, x, range) == initialize_range(mem, x, range)

subseq(mem, x, y, s, e) == to_sequence(mem, x, slice(mem, y, s, e))

(* The copy constructor, for x empty.                                      *)
copy_of(mem, x, y) ==
    IF is_small(mem, y) THEN [mem EXCEPT !.obj[x] = mem.obj[y], !.alive = @ + size(mem, y)]
                        ELSE initialize_range(mem, x, Elements(mem, y))

(* operator= takes its argument b by value.                                *)
AssignFrom(mem, x, y) == clear(swap(copy_of(mem, "b", y), x, "b"), "b")
MoveAssign(mem, x, y) == clear(swap(move_from(mem, "b", y), x, "b"), "b")

Returns(mem, x, at) == [mem EXCEPT !.it = [buffer |-> mem.obj[x].buffer, at |-> at]]

emplace_back(mem, x, v) ==
    LET n == size(mem, x)
        e == ensure_capacity(mem, x, n + 1)
    IN  Returns(set_size(initialize(e, x, n, <<v>>), x, n + 1), x, n)

initialize_pushing(mem, x, vals) ==        \* the range of an input iterator
    FoldLeft(LAMBDA acc, v : emplace_back(acc, x, v), mem, vals)

append_n(mem, x, vals) ==
    LET n == size(mem, x)
        e == ensure_capacity(mem, x, n + Len(vals))
    IN  Returns(set_size(initialize(e, x, n, vals), x, n + Len(vals)), x, n)

(* append, of a range of move iterators.                                   *)
move_append(mem, x, y) ==
    MoveOut(append_n(mem, x, Elements(mem, y)), y, 0, size(mem, y))

append_moved(mem, x, y) ==
    IF size(mem, x) = 0 /\ capacity(mem, x) <= size(mem, y)
      THEN Returns(MoveAssign(mem, x, y), x, 0)
      ELSE move_append(mem, x, y)

(* The tail, which was empty, becomes the elements of x after at.          *)
pop_tail(mem, x, tail, at) ==
    IF at = size(mem, x) THEN mem
    ELSE LET n     == size(mem, x)
             moved == MoveOut(initialize_range(mem, tail, SubSeq(Elements(mem, x), at + 1, n)), x, at, n)
         IN  set_size(destroy(moved, x, at, n), x, at)

(* The end of emplace, insert_n and erase: the tail comes back, and what   *)
(* they return was computed before.                                        *)
BackWithTail(mem, x) ==
    LET back == move_append(mem, x, "the_tail")
    IN  clear([back EXCEPT !.it = mem.it], "the_tail")

emplace(mem, x, at, v) ==
    IF at = size(mem, x) THEN emplace_back(mem, x, v)
    ELSE LET e == ensure_capacity(mem, x, size(mem, x) + 1)
         IN  BackWithTail(emplace_back(pop_tail(e, x, "the_tail", at), x, v), x)

insert_n(mem, x, at, v, n) ==
    LET e == ensure_capacity(mem, x, size(mem, x) + n)
    IN  BackWithTail(append_n(pop_tail(e, x, "the_tail", at), x, Copies(v, n)), x)

InsertKeepsIterator(mem, x, at, vals) ==   \* mutant: returns what append returned
    BackWithTail(append_n(pop_tail(mem, x, "the_tail", at), x, vals), x)

(* It makes no room for the tail before it appends, and computes what it   *)
(* returns once more.                                                      *)
insert_range(mem, x, at, vals) ==
    LET inserted == append_n(pop_tail(mem, x, "the_tail", at), x, vals)
    IN  Returns(BackWithTail(inserted, x), x, inserted.it.at)

pop_back(mem, x) ==
    set_size(destroy(mem, x, size(mem, x) - 1, size(mem, x)), x, size(mem, x) - 1)

resize(mem, x, n, v) ==
    LET current == size(mem, x)
        e       == ensure_capacity(mem, x, n)
    IN  IF n < current THEN set_size(destroy(mem, x, n, current), x, n)
        ELSE set_size(initialize(e, x, current, Copies(v, n - current)), x, n)

erase(mem, x, at) ==
    LET n == size(mem, x) IN
    IF at = n - 1 THEN Returns(pop_back(mem, x), x, n - 1)
    ELSE Returns(BackWithTail(pop_back(pop_tail(mem, x, "the_tail", at + 1), x), x), x, at)

erase_range(mem, x, from, to) ==
    LET cut == pop_tail(mem, x, "the_tail", to)
    IN  Returns(BackWithTail(resize(cut, x, size(cut, x) - (to - from), Raw), x), x, from)

assign(mem, x, vals) == initialize_range(clear(mem, x), x, vals)

(* Whether two sequences are equal, by blocks that double; those after the *)
(* first are compared in parallel.                                         *)
compare_equal(s, t, granularity) ==
    LET n == Len(s)
        Same(from, to) == \A i \in (from + 1)..to : s[i] = t[i]
        from[start \in 0..(2 * n + granularity), block_size \in 0..(4 * n + 2 * granularity)] ==
          LET last == IF n < start + block_size THEN n ELSE start + block_size
          IN  start >= n \/ (Same(start, last) /\ from[start + block_size, 2 * block_size])
    IN  /\ Same(0, IF granularity < n THEN granularity ELSE n)
        /\ granularity >= n \/ from[granularity, 2 * granularity]

operator_equal(mem, x, y) ==
    /\ size(mem, x) = size(mem, y)
    /\ compare_equal(Elements(mem, x), Elements(mem, y), 1)

-----------------------------------------------------------------------------
(* The calls.                                                              *)

At(x)   == 0..size(m, x)
Room(x) == MaxSize - SumSizes(m, Names \ {x})      \* bound on the size of x

Insert(x, at, s, mem) ==
    /\ size(m, x) + Len(s) <= Room(x)
    /\ m' = mem
    /\ call' = [op |-> "insert", x |-> x, at |-> at, s |-> s, result |-> at]

CallInsert(x) ==
    \/ \E at \in At(x), v \in Values : Insert(x, at, <<v>>, emplace(m, x, at, v))
    \/ \E at \in At(x), v \in Values, n \in {0, 2} :
         Insert(x, at, Copies(v, n), insert_n(m, x, at, v, n))
    \/ \E at \in At(x), s \in Lists : Insert(x, at, s, insert_range(m, x, at, s))
    \/ \E s \in Lists : Insert(x, size(m, x), s, append_n(m, x, s))

Erase(x, from, to, mem) ==
    /\ m' = mem
    /\ call' = [op |-> "erase", x |-> x, from |-> from, to |-> to, result |-> from]

CallErase(x) ==
    \/ \E at \in At(x) \ {size(m, x)} : Erase(x, at, at + 1, erase(m, x, at))
    \/ \E from, to \in At(x) : from <= to /\ Erase(x, from, to, erase_range(m, x, from, to))

CallSize(x) ==
    \/ \E n \in 0..Room(x), v \in Values :
         /\ m' = [resize(m, x, n, v) EXCEPT !.it = NoIterator]
         /\ call' = [op |-> "resize", x |-> x, n |-> n, v |-> v, result |-> None]
    \/ \E n \in 0..Room(x) :
         /\ m' = [ensure_capacity(m, x, n) EXCEPT !.it = NoIterator]
         /\ call' = [op |-> "reserve", x |-> x, result |-> None]

(* x becomes a new sequence, made in a temporary.                          *)
CallMake(x, s, mem) ==
    /\ Len(s) <= Room(x)
    /\ m' = [MoveAssign(mem, x, "r") EXCEPT !.it = NoIterator]
    /\ call' = [op |-> "assign", x |-> x, s |-> s, result |-> None]

CallAssign(x) ==
    \/ \E v \in Values, n \in 0..2 : CallMake(x, Copies(v, n), initialize_fill(m, "r", v, n))
    \/ \E s \in Lists : CallMake(x, s, from_function(m, "r", s))
    \/ \E s, e \in At(x) : s <= e /\ CallMake(x, slice(m, x, s, e), subseq(m, "r", x, s, e))
    \/ \E s \in Lists :
      /\ Len(s) <= Room(x)
      /\ \/ m' = [assign(m, x, s) EXCEPT !.it = NoIterator]
         \/ m' = [initialize_pushing(clear(m, x), x, s) EXCEPT !.it = NoIterator]
      /\ call' = [op |-> "assign", x |-> x, s |-> s, result |-> None]

CallTwo(x, y) ==
    \/ /\ size(m, y) <= Room(x)
       /\ m' = [AssignFrom(m, x, y) EXCEPT !.it = NoIterator]
       /\ call' = [op |-> "copy", x |-> x, y |-> y, result |-> None]
    \/ /\ m' = [MoveAssign(m, x, y) EXCEPT !.it = NoIterator]
       /\ call' = [op |-> "move", x |-> x, y |-> y, result |-> None]
    \/ /\ m' = [swap(m, x, y) EXCEPT !.it = NoIterator]
       /\ call' = [op |-> "swap", x |-> x, y |-> y, result |-> None]
    \/ \E at \in At(y) :
         /\ x # y
         /\ m' = [MoveAssign(pop_tail(m, y, "r", at), x, "r") EXCEPT !.it = NoIterator]
         /\ call' = [op |-> "pop_tail", x |-> x, y |-> y, at |-> at, result |-> None]
    \/ /\ x # y /\ size(m, x) + 2 * size(m, y) <= MaxSize
       /\ m' = append_moved(m, x, y)
       /\ call' = [op |-> "append_moved", x |-> x, y |-> y, result |-> size(m, x)]

SeqNext ==
    /\ \E x \in Names :
         \/ CallInsert(x) \/ CallErase(x) \/ CallSize(x) \/ CallAssign(x)
         \/ \E y \in Names : CallTwo(x, y)
    /\ UNCHANGED use_sso

-----------------------------------------------------------------------------
(* Properties.                                                             *)

(* Elements live exactly where a sequence says it has them, no buffer is   *)
(* shared, leaked or freed twice, and a call never uses, destroys or       *)
(* overwrites what is not there, whatever was moved or reallocated before. *)
ElementsLive ==
    LET all   == Names \cup Temps
        large == {x \in all : m.obj[x].buffer # nullptr}
    IN  /\ m.ok
        /\ m.alive = SumSizes(m, all)
        /\ \A x \in Temps : m.obj[x] = empty_representation
        /\ \A x \in all : size(m, x) <= capacity(m, x)
        /\ \A x \in all : use_sso \/ \A i \in 1..capacity(m, x) :
             i > size(m, x) <=> Cells(m, x)[i] = Raw
        /\ {m.obj[x].buffer : x \in large} = DOMAIN m.heap
        /\ Cardinality(large) = Cardinality(DOMAIN m.heap)

(* Two sequences compare equal when they are.                              *)
EqualIsRight ==
    \A x, y \in Names : operator_equal(m, x, y) <=> Elements(m, x) = Elements(m, y)

(* The sequences are the lists of values that Vector describes, and the    *)
(* iterator that a call returns is valid and at the right position.        *)
Promised == INSTANCE Vector WITH
    vec  <- [x \in Names |-> Elements(m, x)],
    call <- [call EXCEPT !.result =
               CASE m.it.at = None -> None
                 [] m.it.at # None /\ m.it.buffer = m.obj[call.x].buffer -> m.it.at
                 [] OTHER -> -2]      \* dangling
ImplementsVector == Promised!Spec
=============================================================================
