----------------------------- MODULE ParallelLoop -----------------------------
(***************************************************************************)
(* A parallel loop as the PML compiler generates it (PML/src, Master.java, *)
(* Worker.java, Token.java, Data.java) over two advanced tuple spaces: the *)
(* master sends the data and sets the tokens in the distributor, reads the *)
(* results from the constructor, repeats that for each round of the user's *)
(* own loop, and puts the terminators; a worker takes tokens, and for each *)
(* reads its data, sends its results, until it is given the terminator.    *)
(***************************************************************************)
EXTENDS AdvancedSpace

CONSTANTS
  Master, Workers,
  Programs,   \* the programs; see Shape
  MaxDeaths   \* bound on the workers that die

D == "distributor"
C == "constructor"

ASSUME LoopAssumption ==
  /\ Clients = Workers \cup {Master} /\ Master \notin Workers
  /\ Spaces = {D, C}
  /\ MaxDeaths \in Nat

\* Every loop is cut into a list of tokens.
ASSUME TokensAssumption == \A p \in Programs : Len(TokensOf(p.loop)) \in Nat

VARIABLES
  prog,   \* the program that is run, compiled; see Compile
  at,     \* at[c]: where client c is in its code
  held,   \* held[w]: the token of worker w, or None
  ran     \* the tokens whose results have all been sent

loopVars == <<advVars, prog, at, held, ran>>

\* A program: the loop, and how many rounds the user's own loop makes of it; what the master
\* sends before the tokens (once) and after them (each), and reads at the end; what a worker
\* reads before all tokens, and reads and sends for each.  A data item says in which space,
\* of which name, for which indices, and the value of a reduced scalar.
Item(h, n, ixs, score) == [at |-> h, name |-> n, ixs |-> ixs, score |-> score]
Shape(loop, rounds, once, each, results, first, reads, sends) ==
  [loop |-> loop, rounds |-> rounds, once |-> once, each |-> each, results |-> results,
   first |-> first, reads |-> reads, sends |-> sends]

\* An array as a whole, of so many elements in each dimension; the part of one that has a range
\* of indices in each; and a scalar that each token may raise to its score.
EntireArray(h, v, sizes)   ==
  Item(h, Name(v, <<>>), Iterations([d \in DOMAIN sizes |-> <<0, sizes[d], 1>>]), 0)
Distributed(h, v, part)    == Item(h, Name(v, part), Iterations(part), 0)
ReducedScalar(h, v, score) == Item(h, Name(v, <<<<0>>>>), {<<>>}, score)

\* In round r the element x of an array holds <<r, x>>.
Contents(i, r) == [x \in i.ixs |-> IF i.name.var \in Scalars THEN i.score ELSE <<r, x>>]
NameIn(i, r)   == IF i.name.var \in Scalars THEN Name(i.name.var, <<<<r>>>>) ELSE i.name

\* The code of the programs: calls of _open_space, _send_data, ... in order.
Do(op, h)            == [op |-> op, at |-> h]
OnData(op, items, r) ==
  [k \in DOMAIN items |->
    [op |-> op, at |-> items[k].at, name |-> NameIn(items[k], r), val |-> Contents(items[k], r)]]
SendsOf(items, r)    == OnData("SEND", items, r)
ReadsOf(items, r)    == OnData("READ", items, r)
SetToken             == Do("SET_TOKEN", D)
GetToken             == Do("GET_TOKEN", D)
Open                 == <<Do("ACTIVATE", D), Do("ACTIVATE", C)>>
Cleanup              == <<Do("CLEANUP_SPACE", D), Do("CLEANUP_SPACE", C)>>

Round(p, r) ==
  Cleanup \o SendsOf(p.once, r) \o <<SetToken>> \o SendsOf(p.each, r) \o ReadsOf(p.results, r)
MasterCode(p) ==
  Open \o FlattenSeq([r \in 1 .. p.rounds |-> Round(p, r)])
  \o <<Do("CLEANUP_QUEUE", C), Do("CLEANUP_QUEUE", D)>>
TakeToken(p) == Open \o ReadsOf(p.first, 1) \o <<GetToken>>
WorkerCode(p, part, r) ==
  TakeToken(p) \o ReadsOf(p.reads[part], r) \o SendsOf(p.sends[part], r)

\* What the compiler makes of a program: the code of the master, and of a worker that holds
\* token part in round r; beside them the iterations of the loop and of each token.
Compile(p) ==
  [master |-> MasterCode(p),
   take   |-> TakeToken(p),
   worker |-> [part \in DOMAIN p.reads |-> [r \in 1 .. p.rounds |-> WorkerCode(p, part, r)]],
   tokens |-> TokensOf(p.loop),
   loop   |-> Iterations(Whole(p.loop)),
   runs   |-> [part \in DOMAIN p.reads |-> Iterations(part)]]

Code(c) ==
  IF c = Master THEN prog.master
  ELSE IF held[c] = None THEN prog.take
  ELSE prog.worker[held[c].part][held[c].batch + 1]
Ended(c)  == at[c] > Len(Code(c))
Op(c)     == Code(c)[at[c]]
GetsToken == Len(prog.take)

LoopInit ==
  /\ AdvInit
  /\ prog \in {Compile(p) : p \in Programs}
  /\ at = [c \in Clients |-> 1]
  /\ held = [w \in Workers |-> None]
  /\ ran = {}

-----------------------------------------------------------------------------

Calls(c, op) == c \in living /\ ~Ended(c) /\ Op(c).op = op

\* The call has returned; behind the last statement of a token is the next GET.
GoesOn(c) ==
  /\ IF c # Master /\ at[c] > GetsToken /\ at[c] = Len(Code(c))
     THEN /\ ran' = ran \cup {held[c]}
          /\ held' = [held EXCEPT ![c] = None]
          /\ at' = [at EXCEPT ![c] = GetsToken]
     ELSE /\ at' = [at EXCEPT ![c] = @ + 1]
          /\ UNCHANGED <<held, ran>>
  /\ UNCHANGED prog
Waits == UNCHANGED <<prog, at, held, ran>>

_activate_space(c) == Calls(c, "ACTIVATE") /\ advOpActivate(Op(c).at, c) /\ GoesOn(c)
_cleanup_space(c)  == Calls(c, "CLEANUP_SPACE") /\ advOpCleanupSpace(Op(c).at, c) /\ GoesOn(c)
_cleanup_queue(c)  == Calls(c, "CLEANUP_QUEUE") /\ advOpCleanupQueue(Op(c).at, c) /\ GoesOn(c)
_set_token(c)      ==
  Calls(c, "SET_TOKEN") /\ advOpSetToken(Op(c).at, c, prog.tokens) /\ GoesOn(c)
_send_data(c)      ==
  Calls(c, "SEND") /\ advOpSendData(Op(c).at, c, Tuple(Op(c).name, Op(c).val)) /\ GoesOn(c)
_get_token(c)      == Calls(c, "GET_TOKEN") /\ advOpGetToken(Op(c).at, c) /\ Waits
_read_data(c)      ==
  Calls(c, "READ") /\ advOpReadData(Op(c).at, c, Op(c).name, DOMAIN Op(c).val) /\ Waits

\* The answer to a call that asked for a token or for data.
Receives(c) ==
  /\ c \in living /\ answer[c] # None /\ answer[c].op # "QUEUED"
  /\ answer' = [answer EXCEPT ![c] = None]
  /\ IF answer[c].op = "TOKEN"
     THEN /\ held' = [held EXCEPT ![c] = IF IsTerminator(answer[c].token) THEN None
                                         ELSE answer[c].token]
          /\ at' = [at EXCEPT ![c] = GetsToken + 1]
          /\ UNCHANGED <<prog, ran>>
     ELSE GoesOn(c)
  /\ UNCHANGED <<serving, space, token, queue, waiting, batch, living>>

\* No connection: the program exits, unless it does not look at the status.
CallFails(c) ==
  /\ c \in living /\ answer[c] = None /\ ~Ended(c) /\ ~serving[Op(c).at]
  /\ IF Op(c).op \in {"SEND", "READ", "SET_TOKEN", "GET_TOKEN"}
     THEN living' = living \ {c} /\ UNCHANGED at
     ELSE at' = [at EXCEPT ![c] = @ + 1] /\ UNCHANGED living
  /\ UNCHANGED <<serving, space, token, queue, waiting, batch, answer, prog, held, ran>>

Dies(w) ==
  /\ w \in living /\ ~Ended(w) /\ Cardinality(Workers \ living) < MaxDeaths
  /\ living' = living \ {w}
  /\ UNCHANGED <<serving, space, token, queue, waiting, batch, answer, prog, at, held, ran>>

Runs(c) ==
  \/ _activate_space(c) \/ _cleanup_space(c) \/ _cleanup_queue(c) \/ _set_token(c)
  \/ _get_token(c) \/ _send_data(c) \/ _read_data(c) \/ Receives(c) \/ CallFails(c)

LoopNext == (\E c \in Clients : Runs(c)) \/ (\E w \in Workers : Dies(w))

LoopFairness == \A c \in Clients : WF_loopVars(Runs(c))
LoopSpec == LoopInit /\ [][LoopNext]_loopVars /\ LoopFairness

-----------------------------------------------------------------------------
(* Properties. *)

\* A loop whose tokens read or send parts that step over columns of a matrix.
SkipsColumns ==
  \E code \in UNION {ToSet(w) : w \in Range(prog.worker)} : \E op \in ToSet(code) :
    op.op \in {"SEND", "READ"} /\ Len(op.name.sub) > 1 /\ op.name.sub[2][3] > 1

\* Whoever is sent data has been sent all it asked for, each element in its place and of its
\* own round, and of a reduced scalar the largest of all tokens: the copies between parts and
\* whole arrays, cleanup, the counting of parts and the order in which the programs send and
\* read leave neither gaps nor leftovers (advFindRequest, advFindTuple, ntsh/tsh.c:2232-2641).
\* Not so where parts step over columns: the rows of such a part are copied in one piece, so
\* that it has other columns, and an array put together from such parts holes.
DataIsWhole ==
  \A c \in Clients : (answer[c] # None /\ answer[c].op = "DATA") /\ ~SkipsColumns =>
    answer[c].val = Op(c).val

\* Where the tokens of the present round are.
Places ==
  {<<"list", k, token[D][k]>> : k \in {j \in DOMAIN token[D] : ~IsTerminator(token[D][j])}}
  \cup {<<"sent", c, answer[c].token>> :
          c \in {x \in Clients : answer[x] # None /\ answer[x].op = "TOKEN"
                                 /\ ~IsTerminator(answer[x].token)}}
  \cup {<<"held", w, held[w]>> : w \in {x \in Workers : held[x] # None}}
  \cup {<<"ran", None, t>> : t \in ran}

\* Once the tokens of a round are set, each iteration of the loop is in exactly one of them,
\* in the list, sent to a worker, held by one, or done with; none is run twice or dropped,
\* also when a worker dies while its request for a token waits (createTokenTuples, consumeTuple).
EveryIterationOnce ==
  LET now     == {p \in Places : p[3].batch = batch - 1}
      runs(p) == prog.runs[p[3].part]
  IN batch > 0 =>
       /\ \A i \in prog.loop : Cardinality({p \in now : i \in runs(p)}) = 1
       /\ \A p \in now : runs(p) \subseteq prog.loop

\* Work has gone with a worker: its token is not given to another.
Lost ==
  \/ \E w \in Workers \ living :
       \/ held[w] # None
       \/ answer[w] # None /\ answer[w].op = "TOKEN" /\ ~IsTerminator(answer[w].token)
  \/ Workers \cap living = {}
  \/ \E h \in Spaces : ~serving[h]

\* A worker comes after the master has put the terminator, and removes it.
Late ==
  /\ \E k \in DOMAIN token[D] : IsTerminator(token[D][k])
  /\ \E w \in Workers \cap living : at[w] = 1

\* The master gets the results of all rounds: workers that wait for each other's parts never
\* all wait, since the tokens are issued in an order that the loop's dependences allow.
MasterEnds == <>(Ended(Master) \/ Lost)

\* All workers end, each having seen the terminator, unless one opens the spaces too late.
WorkersEnd == <>((\A w \in Workers : Ended(w) \/ w \notin living) \/ Lost \/ Late)
=============================================================================
