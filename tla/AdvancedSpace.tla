---------------------------- MODULE AdvancedSpace ----------------------------
(***************************************************************************)
(* The advanced tuple space handler (ntsh/tsh.c), which serves the         *)
(* programs made by the PML compiler: data tuples that hold an array or a  *)
(* part of one, requests for an array or a part that are answered when     *)
(* enough tuples have come, token tuples that share out the iterations of  *)
(* a loop, and a terminator for all who wait for a token.                  *)
(*                                                                         *)
(* The handler's one list and one queue are two lists and two queues here, *)
(* of data and of tokens: no data name matches a token request and no      *)
(* token name matches a data request.                                      *)
(***************************************************************************)
EXTENDS TokenTuples, FiniteSets, Sublists

CONSTANTS
  Spaces,   \* the tuple spaces, each with a handler
  Clients,  \* the programs that use them
  Scalars,  \* names of scalars that are reduced ("?MAX")
  None

VARIABLES
  serving,  \* serving[h]: handler h runs
  space,    \* space[h]: its data tuples, in list order
  token,    \* token[h]: its token tuples, in list order
  queue,    \* queue[h]: READ_DATA requests that wait
  waiting,  \* waiting[h]: clients whose GET_TOKEN waits
  batch,    \* _batch_flag: how many loops have been cut
  living,   \* the clients that run
  answer    \* answer[c]: the data or token a handler has sent to client c, or None

advVars == <<serving, space, token, queue, waiting, batch, living, answer>>

\* A name is a variable and what is held of it: <<>> for all, or a range per dimension;
\* of a reduced scalar it is <<<<tokens>>>>.  Values are by index.
Name(v, sub)  == [var |-> v, sub |-> sub]
Tuple(n, val) == [name |-> n, val |-> val]
Size(t)       == Cardinality(DOMAIN t.val)
advIsFull(n)  == n.sub = <<>>
advMatch(expr, n) == expr.var = n.var

Terminator == [n |-> 0, batch |-> 0, part |-> <<>>]
IsTerminator(t) == t.part = <<>>

Data(q)  == [op |-> "DATA", val |-> q.got]
Given(t) == [op |-> "TOKEN", token |-> t]

AdvInit ==
  /\ serving = [h \in Spaces |-> TRUE]
  /\ space = [h \in Spaces |-> <<>>] /\ token = [h \in Spaces |-> <<>>]
  /\ queue = [h \in Spaces |-> <<>>] /\ waiting = [h \in Spaces |-> <<>>]
  /\ batch = 0
  /\ living = Clients
  /\ answer = [c \in Clients |-> None]

-----------------------------------------------------------------------------
(* The list. *)

\* MAX of a reduced scalar (MIN differs in the comparison).
advScalar(o, t) ==
  [t EXCEPT !.val = [i \in DOMAIN @ |-> IF o.val[i] > @[i] THEN o.val[i] ELSE @[i]]]

\* A tuple of the same name is replaced where it stands.
\* Mutant of storeTuple: a full tuple replaces only the last of the list.
storeTupleAppends(s, t) ==
  IF s # <<>> /\ s[Len(s)].name = t.name /\ t.name.var \notin Scalars
  THEN [s EXCEPT ![Len(s)] = t] ELSE Append(s, t)
storeTuple(s, t) ==
  LET same == {k \in DOMAIN s : s[k].name = t.name} IN
  IF same = {} THEN Append(s, t)
  ELSE LET k == CHOOSE k \in same : TRUE
       IN [s EXCEPT ![k] = IF t.name.var \in Scalars THEN advScalar(s[k], t) ELSE t]

storeToken(s, t) ==
  LET same == {k \in DOMAIN s : s[k].n = t.n}
  IN IF same = {} THEN Append(s, t) ELSE [s EXCEPT ![CHOOSE k \in same : TRUE] = t]

\* What of a matching tuple is copied into a request for indices ixs: a function from the
\* indices of the request to those of the tuple whose values they get.  A part gives a part what
\* both hold, if they go through it by the same steps.  (That copy runs from an offset in
\* indices, not in steps: with a step above 1 it is right if both start together.)
AsItIs(ixs) == [i \in ixs |-> i]
SameStep(t, q, d) == q.name.sub[d][3] = t.name.sub[d][3]
PartTupleToPartReq1(t, q) == AsItIs(IF SameStep(t, q, 1) THEN DOMAIN t.val \cap q.ixs ELSE {})
PartTupleToPartReq2(t, q) ==
  AsItIs(IF SameStep(t, q, 1) /\ SameStep(t, q, 2) THEN DOMAIN t.val \cap q.ixs ELSE {})

\* Of two dimensions a row of the part is copied as a whole: what is one step apart in the part
\* is taken from, or put into, neighbouring columns of the full array.
FullTupleToPartReq1(q) == AsItIs(q.ixs)
PartTupleToFullReq1(t) == AsItIs(DOMAIN t.val)
FullTupleToPartReq2(q) ==
  LET start == q.name.sub[2][1]
      step  == q.name.sub[2][3]
  IN [i \in q.ixs |-> <<i[1], start + (i[2] - start) \div step>>]
PartTupleToFullReq2(t) ==
  LET start == t.name.sub[2][1]
      step  == t.name.sub[2][3]
  IN [i \in {<<j[1], start + (j[2] - start) \div step>> : j \in DOMAIN t.val} |->
        <<i[1], start + (i[2] - start) * step>>]

\* (A full tuple is given to a full request as it is, and so is a scalar.)
Share(t, q) ==
  CASE t.name.var \in Scalars \/ (advIsFull(q.name) /\ advIsFull(t.name)) -> AsItIs(DOMAIN t.val)
    [] advIsFull(q.name) /\ Len(t.name.sub) = 1                           -> PartTupleToFullReq1(t)
    [] advIsFull(q.name) /\ Len(t.name.sub) > 1                           -> PartTupleToFullReq2(t)
    [] advIsFull(t.name) /\ Len(q.name.sub) = 1                           -> FullTupleToPartReq1(q)
    [] advIsFull(t.name) /\ Len(q.name.sub) > 1                           -> FullTupleToPartReq2(q)
    [] Len(q.name.sub) = 1 /\ Len(t.name.sub) = 1                         -> PartTupleToPartReq1(t, q)
    [] OTHER                                                              -> PartTupleToPartReq2(t, q)

\* The tuples of a list that match go into the request, one after the other; cur counts what
\* has been copied (curLen), twice what has come twice.
\* (A full tuple sets curLen to its length, which is enough as is the sum.)
Collect(q, s) ==
  LET given   == [k \in DOMAIN s |-> Share(s[k], q)]
      from(i) == {k \in DOMAIN s : i \in DOMAIN given[k]}
      last(i) == CHOOSE k \in from(i) : from(i) \subseteq 1 .. k
  IN [q EXCEPT !.cur = @ + FoldLeft(LAMBDA n, g : n + Cardinality(DOMAIN g), 0, given),
               !.got = [i \in DOMAIN @ \cup UNION {DOMAIN given[k] : k \in DOMAIN s} |->
                         IF from(i) = {} THEN @[i] ELSE s[last(i)].val[given[last(i)][i]]]]

Enough(q) == q.cur >= Cardinality(q.ixs)

advFindTuple(s, q) == Collect(q, SelectSeq(s, LAMBDA t : advMatch(q.name, t.name)))

-----------------------------------------------------------------------------
(* Operations of client c at handler h.  Those that give nothing but a     *)
(* status have been answered, and the client goes on, in the same step.    *)

Serves(h, c) == serving[h] /\ c \in living /\ answer[c] = None

advOpActivate(h, c) ==
  /\ Serves(h, c)
  /\ token' = [token EXCEPT ![h] = Sublist(@, {k \in DOMAIN @ : ~IsTerminator(@[k])})]
  /\ UNCHANGED <<serving, space, queue, waiting, batch, living, answer>>

\* The terminator goes to all who wait for a token, and stays.
\* Mutant of advOpCleanupQueue: the first who waits takes it, as it would a token.
advOpCleanupQueueOnce(h, c) ==
  /\ Serves(h, c)
  /\ LET w == SelectSeq(waiting[h], LAMBDA x : x \in living) IN
     IF w = <<>>
     THEN /\ token' = [token EXCEPT ![h] = storeToken(@, Terminator)]
          /\ waiting' = [waiting EXCEPT ![h] = <<>>]
          /\ UNCHANGED answer
     ELSE /\ answer' = [answer EXCEPT ![w[1]] = Given(Terminator)]
          /\ waiting' = [waiting EXCEPT ![h] = Tail(w)]
          /\ UNCHANGED token
  /\ UNCHANGED <<serving, space, queue, batch, living>>
advOpCleanupQueue(h, c) ==
  /\ Serves(h, c)
  /\ answer' = [x \in Clients |->
       IF x \in ToSet(waiting[h]) \cap living THEN Given(Terminator) ELSE answer[x]]
  /\ waiting' = [waiting EXCEPT ![h] = <<>>]
  /\ token' = [token EXCEPT ![h] = storeToken(@, Terminator)]
  /\ UNCHANGED <<serving, space, queue, batch, living>>

\* All tuples of the loop go, the terminator too.
\* Mutant of advOpCleanupSpace: the tuple behind a deleted one is passed over.
advOpCleanupSpaceSkips(h, c) ==
  /\ Serves(h, c)
  /\ space' = [space EXCEPT ![h] = [k \in 1 .. Len(@) \div 2 |-> @[2 * k]]]
  /\ token' = [token EXCEPT ![h] = <<>>]
  /\ UNCHANGED <<serving, queue, waiting, batch, living, answer>>
advOpCleanupSpace(h, c) ==
  /\ Serves(h, c)
  /\ space' = [space EXCEPT ![h] = <<>>]
  /\ token' = [token EXCEPT ![h] = <<>>]
  /\ UNCHANGED <<serving, queue, waiting, batch, living, answer>>

\* The tuple is stored, then every request it completes is answered; the handler
\* exits when it cannot reach one of them.
advOpSendData(h, c, t) ==
  LET fed  == [k \in DOMAIN queue[h] |->
                advFindTuple(<<t>>, queue[h][k])]
      full == {k \in DOMAIN fed : Enough(fed[k])}
      dead == {k \in full : fed[k].by \notin living}
      sent == {k \in full : \A d \in dead : k < d}
  IN /\ Serves(h, c)
     /\ space' = [space EXCEPT ![h] = storeTuple(@, t)]
     /\ queue' = [queue EXCEPT ![h] = Sublist(fed, DOMAIN fed \ full)]
     /\ answer' = [x \in Clients |->
          IF \E k \in sent : fed[k].by = x
          THEN Data(fed[CHOOSE k \in sent : fed[k].by = x])
          ELSE answer[x]]
     /\ serving' = [serving EXCEPT ![h] = dead = {}]
     /\ UNCHANGED <<token, waiting, batch, living>>

advOpReadData(h, c, n, ixs) ==
  LET q == advFindTuple(space[h],
             [by |-> c, name |-> n, ixs |-> ixs, cur |-> 0, got |-> <<>>])
  IN /\ Serves(h, c)
     /\ IF Enough(q)
        THEN answer' = [answer EXCEPT ![c] = Data(q)] /\ UNCHANGED queue
        ELSE /\ answer' = [answer EXCEPT ![c] = [op |-> "QUEUED"]]
             /\ queue' = [queue EXCEPT ![h] = Append(@, q)]
     /\ UNCHANGED <<serving, space, token, waiting, batch, living>>

\* Each token of a loop cut into parts goes to the first who waits and can be reached, or
\* into the list.  (Who cannot be reached is dropped when met; he can be dropped before.)
advOpSetToken(h, c, parts) ==
  LET tok(k) == [n |-> k, batch |-> batch, part |-> parts[k]]
      live   == Sublist(waiting[h], {k \in DOMAIN waiting[h] : waiting[h][k] \in living})
      n      == Least(Len(live), Len(parts))
      rest   == [k \in 1 .. Len(parts) - n |-> tok(k + n)]
  IN /\ Serves(h, c)
     /\ answer' = [x \in Clients |->
          IF \E k \in 1 .. n : live[k] = x
          THEN Given(tok(CHOOSE k \in 1 .. n : live[k] = x)) ELSE answer[x]]
     /\ waiting' = [waiting EXCEPT ![h] = SubSeq(live, n + 1, Len(live))]
     /\ token' = IF rest = <<>> THEN token ELSE [token EXCEPT ![h] = FoldLeft(storeToken, @, rest)]
     /\ batch' = batch + 1
     /\ UNCHANGED <<serving, space, queue, living>>

\* The first token, which only a terminator survives.
\* Mutant of advOpGetToken: the token sent stays in the list.
advOpGetTokenKeeps(h, c) ==
  /\ Serves(h, c)
  /\ IF token[h] # <<>>
     THEN /\ answer' = [answer EXCEPT ![c] = Given(token[h][1])]
          /\ UNCHANGED <<token, waiting>>
     ELSE /\ answer' = [answer EXCEPT ![c] = [op |-> "QUEUED"]]
          /\ waiting' = [waiting EXCEPT ![h] = Append(@, c)]
          /\ UNCHANGED token
  /\ UNCHANGED <<serving, space, queue, batch, living>>
advOpGetToken(h, c) ==
  /\ Serves(h, c)
  /\ IF token[h] # <<>>
     THEN /\ answer' = [answer EXCEPT ![c] = Given(token[h][1])]
          /\ token' = IF IsTerminator(token[h][1]) THEN token ELSE [token EXCEPT ![h] = Tail(@)]
          /\ UNCHANGED waiting
     ELSE /\ answer' = [answer EXCEPT ![c] = [op |-> "QUEUED"]]
          /\ waiting' = [waiting EXCEPT ![h] = Append(@, c)]
          /\ UNCHANGED token
  /\ UNCHANGED <<serving, space, queue, batch, living>>

\* Nobody waits for a token while the list has one: those of a loop go to who waits first,
\* and who asks is given the first of the list (createTokenTuples1, consumeTuple).
NoWaitBesideToken == \A h \in Spaces : waiting[h] # <<>> => token[h] = <<>>

AdvTypeOK ==
  /\ serving \in [Spaces -> BOOLEAN]
  /\ \A h \in Spaces :
       /\ \A k \in DOMAIN queue[h] : queue[h][k].by \in Clients /\ ~Enough(queue[h][k])
       /\ waiting[h] \in Seq(Clients)
       /\ \A k, l \in DOMAIN space[h] : space[h][k].name = space[h][l].name => k = l
  /\ living \subseteq Clients
  /\ \A c \in Clients : answer[c] # None => answer[c].op \in {"DATA", "TOKEN", "QUEUED"}
=============================================================================
