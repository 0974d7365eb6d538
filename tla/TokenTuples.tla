----------------------------- MODULE TokenTuples -----------------------------
(***************************************************************************)
(* How the advanced tuple space handler cuts a parallel loop into token    *)
(* tuples (ntsh/tsh.c, createTokenTuples1 and createTokenTuples2).  A loop *)
(* has one or two indices; a token is a part of the iterations, one range  *)
(* <<start, stop, step>> per index.  A worker that holds a token runs      *)
(* its iterations, for (i = start; i < stop; i += step) for each index.    *)
(***************************************************************************)
EXTENDS Integers, Sequences, SequencesExt

\* A loop index: from start to below stop by step, cut in chunks of size ('#') or,
\* with jump ('^'), into the ranges from each of start, start + step, ... below size.
Index(start, stop, step, size, jump) ==
  [start |-> start, stop |-> stop, step |-> step, size |-> size, jump |-> jump]

Least(a, b) == IF a < b THEN a ELSE b

\* from, from + by, ... below to
Count(from, to, by) == IF from < to THEN (to - from - 1) \div by + 1 ELSE 0
Lattice(from, to, by) == {from + k * by : k \in 0 .. Count(from, to, by) - 1}

Chunks(x) == [k \in 1 .. Count(x.start, x.stop, x.size) |->
               LET a == x.start + (k - 1) * x.size
               IN <<a, Least(a + x.size, x.stop), x.step>>]
Jumps(x)  == [k \in 1 .. Count(x.start, x.size, x.step) |->
               <<x.start + (k - 1) * x.step, x.stop, x.step>>]
Cut(x)    == IF x.jump THEN Jumps(x) ELSE Chunks(x)

createTokenTuples1(x) == [k \in DOMAIN Cut(x) |-> <<Cut(x)[k]>>]

\* Two indices of different order: the chunks of the second within those of the first.
Nested(x, y) ==
  FlattenSeq([r \in DOMAIN Cut(x) |-> [c \in DOMAIN Cut(y) |-> <<Cut(x)[r], Cut(y)[c]>>]])

\* Two indices of equal order, always chunked: the diagonal that climbs from row r, column c.
Diagonal(x, y, r, c) ==
  [k \in 1 .. Least(r, Len(Chunks(y)) - c + 1) |-> <<Chunks(x)[r - k + 1], Chunks(y)[c + k - 1]>>]

Rising(x, y)  == FlattenSeq([r \in DOMAIN Chunks(x) |-> Diagonal(x, y, r, 1)])
Falling(x, y) ==
  LET m == Len(Chunks(x)) IN
  FlattenSeq([c \in 1 .. Len(Chunks(y)) - 1 |-> Diagonal(x, y, m, c + 1)])

\* Mutant of createTokenTuples2: the diagonals behind the longest come first.
createTokenTuples2Reversed(x, y, equal) ==
  IF equal THEN Falling(x, y) \o Rising(x, y) ELSE Nested(x, y)
createTokenTuples2(x, y, equal) ==
  IF equal THEN Rising(x, y) \o Falling(x, y) ELSE Nested(x, y)

\* The token tuples of a loop, in the order they are put.
TokensOf(loop) ==
  IF Len(loop.index) = 1 THEN createTokenTuples1(loop.index[1])
  ELSE createTokenTuples2(loop.index[1], loop.index[2], loop.equal)

-----------------------------------------------------------------------------
\* The iterations of a part of the loop: a set of index vectors.
Axis(range) == Lattice(range[1], range[2], range[3])
Iterations(part) ==
  {i \in [DOMAIN part -> UNION {Axis(part[d]) : d \in DOMAIN part}] :
     \A d \in DOMAIN part : i[d] \in Axis(part[d])}
Whole(loop) == [d \in DOMAIN loop.index |->
                 <<loop.index[d].start, loop.index[d].stop, loop.index[d].step>>]
=============================================================================
