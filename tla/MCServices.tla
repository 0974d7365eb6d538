------------------------------ MODULE MCServices ------------------------------
(* Bounded instances of the five parts of Services for TLC. *)
EXTENDS Services

-----------------------------------------------------------------------------
(* Parallel loops. *)

Part(h, v, p) == Distributed(h, v, p)
Full(h, v, sizes) == EntireArray(h, v, sizes)
Largest(score) == ReducedScalar(C, "max", score)

\* Three rows in chunks of two, C[i] from A[i] and all of B, and the largest index, twice.
Rows == [index |-> <<Index(0, 3, 1, 2, FALSE)>>, equal |-> TRUE]
RowsProgram == Shape(Rows, 2,
  <<Full(D, "B", <<3>>)>>, <<Full(D, "A", <<3>>)>>, <<Full(C, "C", <<3>>), Largest(3)>>, <<>>,
  [p \in ToSet(TokensOf(Rows)) |-> <<Part(D, "A", p), Full(D, "B", <<3>>)>>],
  [p \in ToSet(TokensOf(Rows)) |-> <<Largest(p[1][2]), Part(C, "C", p)>>])

\* A wavefront: A[i][j] from the elements above and to the left.
Wave == [index |-> <<Index(0, 2, 1, 1, FALSE), Index(0, 2, 1, 1, FALSE)>>, equal |-> TRUE]
Above(p) == <<<<p[1][1] - 1, p[1][1], 1>>, p[2]>>
ToTheLeft(p) == <<p[1], <<p[2][1] - 1, p[2][1], 1>>>>
WaveProgram == Shape(Wave, 1,
  <<Part(D, "A", <<<<-1, 0, 1>>, <<0, 2, 1>>>>), Part(D, "A", <<<<0, 2, 1>>, <<-1, 0, 1>>>>)>>,
  <<>>, <<Full(C, "R", <<2, 2>>)>>, <<>>,
  [p \in ToSet(TokensOf(Wave)) |-> <<Part(D, "A", Above(p)), Part(D, "A", ToTheLeft(p))>>],
  [p \in ToSet(TokensOf(Wave)) |-> <<Part(D, "A", p), Part(C, "R", p)>>])

\* Two indices of different order, the second with a jump; B is read once by each worker.
Strips == [index |-> <<Index(0, 3, 1, 2, FALSE), Index(0, 2, 1, 1, TRUE)>>, equal |-> FALSE]
StripsProgram == Shape(Strips, 1,
  <<Full(D, "B", <<3, 2>>)>>, <<>>, <<Full(C, "R", <<3, 2>>)>>, <<Full(D, "B", <<3, 2>>)>>,
  [p \in ToSet(TokensOf(Strips)) |-> <<>>],
  [p \in ToSet(TokensOf(Strips)) |-> <<Part(C, "R", p)>>])

\* Each token has every second element of a vector: it reads those of B and sends those of R.
Cyclic == [index |-> <<Index(0, 2, 1, 1, FALSE)>>, equal |-> TRUE]
EverySecond(p) == <<<<p[1][1], 4, 2>>>>
CyclicProgram == Shape(Cyclic, 1, <<Full(D, "B", <<4>>)>>, <<>>, <<Full(C, "R", <<4>>)>>, <<>>,
  [p \in ToSet(TokensOf(Cyclic)) |-> <<Part(D, "B", EverySecond(p))>>],
  [p \in ToSet(TokensOf(Cyclic)) |-> <<Part(C, "R", EverySecond(p))>>])

\* Each token has every second column of a matrix: it reads those of B and sends those of R.
Columns(p) == <<<<0, 2, 1>>, <<p[1][1], 4, 2>>>>
ColumnsProgram == Shape(Cyclic, 1, <<Full(D, "B", <<2, 4>>)>>, <<>>, <<Full(C, "R", <<2, 4>>)>>, <<>>,
  [p \in ToSet(TokensOf(Cyclic)) |-> <<Part(D, "B", Columns(p))>>],
  [p \in ToSet(TokensOf(Cyclic)) |-> <<Part(C, "R", Columns(p))>>])

MCPrograms == {RowsProgram, WaveProgram, StripsProgram, CyclicProgram, ColumnsProgram}

-----------------------------------------------------------------------------
(* Files: two that append and one that reads one file; one that writes a     *)
(* file anew, its reader, and a third that finds the table full.             *)

UseOf(p, m) == [path |-> p, mode |-> m]
MCUses ==
  {[u1 |-> UseOf("log", "a"), u2 |-> UseOf("log", "a"), u3 |-> UseOf("log", "r")],
   [u1 |-> UseOf("log", "w"), u2 |-> UseOf("log", "r"), u3 |-> UseOf("out", "w")]}
MCMaxItems == [u1 |-> 2, u2 |-> 1, u3 |-> 0]

-----------------------------------------------------------------------------
(* Direct tuple spaces: a sender at one site, two receivers at another. *)

MCSiteOf == [t1 |-> "a", t2 |-> "b", t3 |-> "b"]

-----------------------------------------------------------------------------
(* Pipes: a chain of three programs, and a dialogue of two. *)

Call(op, p) == [op |-> op, on |-> p]
Chain ==
  [q1 |-> <<Call("OPEN>", "x"), Call("WRITE", "x"), Call("WRITE", "x"), Call("CLOSE>", "x")>>,
   q2 |-> <<Call("OPEN>", "y"), Call("OPEN<", "x"),
            Call("READ", "x"), Call("WRITE", "y"), Call("READ", "x"), Call("WRITE", "y"),
            Call("READ", "x"), Call("CLOSE<", "x"), Call("CLOSE>", "y")>>,
   q3 |-> <<Call("OPEN<", "y"), Call("READ", "y"), Call("READ", "y"), Call("READ", "y"),
            Call("CLOSE<", "y")>>]
Dialogue ==
  [q1 |-> <<Call("OPEN>", "x"), Call("OPEN<", "y"),
            Call("WRITE", "x"), Call("READ", "y"), Call("WRITE", "x"), Call("READ", "y"),
            Call("CLOSE>", "x"), Call("READ", "y"), Call("CLOSE<", "y")>>,
   q2 |-> <<Call("OPEN<", "x"), Call("OPEN>", "y"),
            Call("READ", "x"), Call("WRITE", "y"), Call("READ", "x"), Call("WRITE", "y"),
            Call("READ", "x"), Call("CLOSE<", "x"), Call("CLOSE>", "y")>>,
   q3 |-> <<>>]
MCScripts == {Chain, Dialogue}

-----------------------------------------------------------------------------
(* Plain calls: one who puts, two who ask for one name or for any.           *)

MCExpressions == {{"s"}, {"s", "t"}}
=============================================================================
