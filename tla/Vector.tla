------------------------------- MODULE Vector -------------------------------
(***************************************************************************)
(* What the sequences of parlay/sequence.h promise their callers: they are *)
(* lists of values, and a call changes them as its name says.  call is the *)
(* last call with its arguments and the position that it has returned;     *)
(* positions count from 0, and None is for calls that return none.         *)
(***************************************************************************)
EXTENDS Integers, Sequences

CONSTANTS Names, Values, Moved, None

VARIABLES vec, call

Contents == Seq(Values \cup {Moved})

Call(op, x, at) == call' = [op |-> op, x |-> x, result |-> at]
Becomes(x, s)   == vec' = [vec EXCEPT ![x] = s]

Prefix(x, at) == SubSeq(vec[x], 1, at)
Suffix(x, at) == SubSeq(vec[x], at + 1, Len(vec[x]))

Init == vec = [x \in Names |-> << >>] /\ call = [op |-> "none", x |-> None, result |-> None]

insert(x, at, s) ==
    /\ call' = [op |-> "insert", x |-> x, at |-> at, s |-> s, result |-> at]
    /\ Becomes(x, Prefix(x, at) \o s \o Suffix(x, at))

erase(x, from, to) ==
    /\ call' = [op |-> "erase", x |-> x, from |-> from, to |-> to, result |-> from]
    /\ Becomes(x, Prefix(x, from) \o Suffix(x, to))

resize(x, n, v) ==
    /\ call' = [op |-> "resize", x |-> x, n |-> n, v |-> v, result |-> None]
    /\ Becomes(x, [i \in 1..n |-> IF i <= Len(vec[x]) THEN vec[x][i] ELSE v])

assign(x, s) ==
    /\ call' = [op |-> "assign", x |-> x, s |-> s, result |-> None]
    /\ Becomes(x, s)

reserve(x) == Call("reserve", x, None) /\ vec' = vec

copy(x, y) ==
    /\ call' = [op |-> "copy", x |-> x, y |-> y, result |-> None]
    /\ Becomes(x, vec[y])

(* y is empty after it was moved, unless it is x itself.                   *)
move(x, y) ==
    /\ call' = [op |-> "move", x |-> x, y |-> y, result |-> None]
    /\ vec' = [z \in Names |-> IF z = x THEN vec[y] ELSE IF z = y THEN << >> ELSE vec[z]]

swap(x, y) ==
    /\ call' = [op |-> "swap", x |-> x, y |-> y, result |-> None]
    /\ vec' = [vec EXCEPT ![x] = vec[y], ![y] = vec[x]]

(* x takes the elements of y from a position on: y keeps the others.       *)
pop_tail(x, y, at) ==
    /\ call' = [op |-> "pop_tail", x |-> x, y |-> y, at |-> at, result |-> None]
    /\ vec' = [vec EXCEPT ![x] = Suffix(y, at), ![y] = Prefix(y, at)]

(* What is left in y is not said.                                          *)
append_moved(x, y) ==
    /\ call' = [op |-> "append_moved", x |-> x, y |-> y, result |-> Len(vec[x])]
    /\ \E left \in {<< >>, vec[y], [i \in DOMAIN vec[y] |-> Moved]} :
         vec' = [vec EXCEPT ![x] = vec[x] \o vec[y], ![y] = left]

(* The arguments of the last call.                                         *)
Next ==
    LET c == call' IN
    \/ c.op = "insert" /\ insert(c.x, c.at, c.s)
    \/ c.op = "erase"  /\ erase(c.x, c.from, c.to)
    \/ c.op = "resize" /\ resize(c.x, c.n, c.v)
    \/ c.op = "assign" /\ assign(c.x, c.s)
    \/ c.op = "reserve" /\ reserve(c.x)
    \/ c.op = "copy"   /\ copy(c.x, c.y)
    \/ c.op = "move"   /\ move(c.x, c.y)
    \/ c.op = "swap"   /\ swap(c.x, c.y)
    \/ c.op = "pop_tail" /\ c.x # c.y /\ pop_tail(c.x, c.y, c.at)
    \/ c.op = "append_moved" /\ c.x # c.y /\ append_moved(c.x, c.y)

Spec == Init /\ [][Next]_<<vec, call>>
=============================================================================
