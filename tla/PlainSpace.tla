------------------------------ MODULE PlainSpace ------------------------------
(***************************************************************************)
(* The plain calls at an advanced tuple space handler (ntsh/tsh.c): PUT,   *)
(* GET and READ, RMALL, the task map, and RETRIEVE.  The routines look     *)
(* like those of tsh/tsh.c; but a tuple that is taken is not backed up,    *)
(* the first match is taken whatever its priority, and no fetched task is  *)
(* counted.                                                                *)
(*                                                                         *)
(* A request that was sent is served even if its client has died since.    *)
(* An expression is the set of names it matches; contents are numbers.     *)
(***************************************************************************)
EXTENDS Naturals, Sequences, SequencesExt, FiniteSetsExt, Sublists

CONSTANTS
  Askers,       \* the clients
  Director,     \* the one that puts, and begins and ends rounds; the others get and read
  Names,
  Expressions,  \* what is asked for, each a set of names
  MaxContents,  \* bound on the PUTs
  MaxCalls,     \* bound on all calls
  MaxLosses     \* bound on the clients that die, or are taken for lost by FDD, with the end of the handler

VARIABLES
  up,      \* the handler runs
  space,   \* its tuples: [name, val]
  queue,   \* its requests that wait: [by, names, op]
  fenced,  \* the clients in tsh.retrieve, all with fault = 1
  round,   \* [EOT, TIDS, tid_q], and those whose place in tid_q was freed (history)
  call,    \* call[c]: [at, op, names, val, wait]
  living,  \* the clients that run
  puts,    \* contents so far
  calls,   \* calls so far
  takers,  \* history: takers[v]: whom GET has given v
  gone     \* history: contents replaced, removed, refused, or lost with the handler

plainVars == <<up, space, queue, fenced, round, call, living, puts, calls, takers, gone>>

NoCall  == [at |-> "free", op |-> "NONE", names |-> {}, val |-> 0, wait |-> FALSE]
NoRound == [EOT |-> FALSE, TIDS |-> 0, tid_q |-> <<>>, left |-> {}]
PlainInit ==
  /\ up = TRUE /\ space = <<>> /\ queue = <<>> /\ fenced = {} /\ round = NoRound
  /\ call = [c \in Askers |-> NoCall]
  /\ living = Askers /\ puts = 0 /\ calls = 0 /\ takers = [v \in 1 .. MaxContents |-> {}] /\ gone = {}

-----------------------------------------------------------------------------
(* The calls.  Who sends SOT or EOT does not wait for an answer, but his     *)
(* next request is accepted later.                                           *)

Asks(c, op, names, val, wait) ==
  /\ c \in living /\ call[c].at = "free" /\ calls < MaxCalls /\ calls' = calls + 1
  /\ call' = [call EXCEPT ![c] = [at |-> "asks", op |-> op, names |-> names, val |-> val, wait |-> wait]]
  /\ UNCHANGED <<up, space, queue, fenced, round, living, takers, gone>>
cnf_tsput(c, name) ==
  puts < MaxContents /\ puts' = puts + 1 /\ Asks(c, "PUT", {name}, puts + 1, TRUE)
cnf_tsget(c, names, wait)  == Asks(c, "GET", names, 0, wait) /\ UNCHANGED puts
cnf_tsread(c, names, wait) == Asks(c, "READ", names, 0, wait) /\ UNCHANGED puts
cnf_rmall(c) == Asks(c, "RMALL", {}, 0, TRUE) /\ UNCHANGED puts
cnf_gts(c)   == Asks(c, "GTS", {}, 0, TRUE) /\ UNCHANGED puts
cnf_sot(c)   == round.EOT /\ Asks(c, "SOT", {}, 0, FALSE) /\ UNCHANGED puts
cnf_eot(c)   == ~round.EOT /\ \E tids \in {0, puts} : Asks(c, "EOT", {}, tids, FALSE) /\ UNCHANGED puts

Serves(c, op)  == up /\ call[c].at = "asks" /\ call[c].op = op
Freed(clients) == call' = [c \in Askers |-> IF c \in clients THEN NoCall ELSE call[c]]
Waits(c)       == call' = [call EXCEPT ![c].at = "waits"]
Unserved(c) ==
  /\ ~up /\ call[c].at = "asks" /\ Freed({c})
  /\ gone' = IF call[c].op = "PUT" THEN gone \cup {call[c].val} ELSE gone
  /\ UNCHANGED <<up, space, queue, fenced, round, living, puts, calls, takers>>

-----------------------------------------------------------------------------
(* The handler. *)

guardf(c) == c \in fenced
Contents(s) == {s[k].val : k \in DOMAIN s}
findTuple(names) == {k \in DOMAIN space : space[k].name \in names /\ \A j \in 1 .. k - 1 : space[j].name \notin names}
deleteTuple(k)   == RemoveAt(space, k)
storeTuple(t) ==
  LET same == {k \in DOMAIN space : space[k].name = t.name}
  IN IF same = {} THEN Append(space, t) ELSE [k \in DOMAIN space |-> IF k \in same THEN t ELSE space[k]]

\* The requests that are sent a tuple in turn: all that match, up to the first GET whose
\* client can be reached.  All of them are deleted.
findRequest(name) == {k \in DOMAIN queue : name \in queue[k].names}
Takes(k)          == queue[k].op = "GET" /\ queue[k].by \in living
\* Mutant of consumeTuple: the first that matches, also if it only reads.
consumeTupleOnce(name) ==
  {k \in findRequest(name) : \A j \in findRequest(name) : k <= j}
consumeTuple(name) ==
  {k \in findRequest(name) : \A j \in findRequest(name) : Takes(j) => k <= j}
deleteRequests(met) == Sublist(queue, {j \in DOMAIN queue : \A k \in met : queue[k].by # queue[j].by})

OpPut(c) ==
  LET tuple == [name |-> CHOOSE n \in call[c].names : TRUE, val |-> call[c].val]
      met   == consumeTuple(tuple.name)
      taken == {queue[k].by : k \in {j \in met : Takes(j)}} IN
  /\ Serves(c, "PUT")
  /\ IF guardf(c) THEN Freed({c}) /\ gone' = gone \cup {tuple.val} /\ UNCHANGED <<space, queue, takers>>
     ELSE /\ Freed({c} \cup {queue[k].by : k \in met}) /\ queue' = deleteRequests(met)
          /\ takers' = [takers EXCEPT ![tuple.val] = @ \cup taken]
          /\ space' = IF taken # {} THEN space ELSE storeTuple(tuple)
          /\ gone' = gone \cup (Contents(space) \ Contents(space'))
  /\ UNCHANGED <<up, fenced, round, living, puts, calls>>

Ends == up' = FALSE /\ space' = <<>> /\ queue' = <<>> /\ gone' = gone \cup Contents(space)
\* GET and READ.  The second write to a client that is dead can raise SIGPIPE.
OpGet(c) ==
  LET op == call[c].op
      found == findTuple(call[c].names) IN
  /\ Serves(c, "GET") \/ Serves(c, "READ")
  /\ \/ /\ guardf(c) \/ (found = {} /\ ~call[c].wait)
        /\ Freed({c}) /\ UNCHANGED <<up, space, queue, takers, gone>>
     \/ /\ ~guardf(c) /\ found = {} /\ call[c].wait
        /\ queue' = Append(queue, [by |-> c, names |-> call[c].names, op |-> op]) /\ Waits(c)
        /\ UNCHANGED <<up, space, takers, gone>>
     \/ /\ ~guardf(c)
        /\ \E k \in found :
             /\ space' = IF op = "GET" THEN deleteTuple(k) ELSE space
             /\ takers' = IF op = "GET" THEN [takers EXCEPT ![space[k].val] = @ \cup {c}] ELSE takers
        /\ Freed({c}) /\ UNCHANGED <<up, queue, gone>>
     \/ ~guardf(c) /\ found # {} /\ c \notin living /\ Ends /\ Freed({c}) /\ UNCHANGED takers
  /\ UNCHANGED <<fenced, round, living, puts, calls>>

OpRmAll(c) ==
  /\ Serves(c, "RMALL") /\ Freed({c}) /\ space' = <<>> /\ gone' = gone \cup Contents(space)
  /\ UNCHANGED <<up, queue, fenced, round, living, puts, calls, takers>>
OpExit ==
  /\ up /\ Ends /\ UNCHANGED <<fenced, round, call, living, puts, calls, takers>>

\* A client is retrieved once by FDD; as nothing fills an entry of tsh.retrieve, none is found.
OpRetrieve(c) ==
  /\ up /\ ~guardf(c) /\ fenced' = fenced \cup {c}
  /\ UNCHANGED <<up, space, queue, round, call, living, puts, calls, takers, gone>>

OpTshSot(c) ==
  /\ Serves(c, "SOT") /\ Freed({c})
  /\ round' = [NoRound EXCEPT !.left = round.left \cup ToSet(round.tid_q)]
  /\ UNCHANGED <<up, space, queue, fenced, living, puts, calls, takers, gone>>
\* Nothing counts as fetched, so that TIDS is met only if it is 0; then all in tid_q are
\* answered, which stay in it, up to one that cannot be reached: the handler exits.
send_tidinfo == {k \in DOMAIN round.tid_q : \A j \in 1 .. k : round.tid_q[j] \in living}
OpTshEot(c) ==
  /\ Serves(c, "EOT") /\ round' = [round EXCEPT !.EOT = TRUE, !.TIDS = call[c].val]
  /\ IF call[c].val = 0
     THEN /\ Freed({c} \cup {round.tid_q[k] : k \in send_tidinfo})
          /\ IF send_tidinfo = DOMAIN round.tid_q THEN UNCHANGED <<up, space, queue, gone>> ELSE Ends
     ELSE Freed({c}) /\ UNCHANGED <<up, space, queue, gone>>
  /\ UNCHANGED <<fenced, living, puts, calls, takers>>
\* An answer of 0 tasks is none, and the client waits.
OpGethostInfo(c) ==
  /\ Serves(c, "GTS")
  /\ IF c \in living THEN Waits(c) /\ round' = [round EXCEPT !.tid_q = <<c>> \o @]
     ELSE Freed({c}) /\ UNCHANGED round
  /\ UNCHANGED <<up, space, queue, fenced, living, puts, calls, takers, gone>>

-----------------------------------------------------------------------------
Losses == (Askers \ living) \cup fenced
AskerDies(c) ==
  /\ c \in living /\ living' = living \ {c}
  /\ UNCHANGED <<up, space, queue, fenced, round, call, puts, calls, takers, gone>>

PlainNext ==
  \/ (\E n \in Names : cnf_tsput(Director, n)) \/ cnf_rmall(Director) \/ cnf_sot(Director) \/ cnf_eot(Director)
  \/ \E c \in Askers \ {Director} :
       \/ \E e \in Expressions : cnf_tsget(c, e, TRUE) \/ cnf_tsget(c, e, FALSE) \/ cnf_tsread(c, e, TRUE)
       \/ cnf_gts(c)
  \/ \E c \in Askers :
       \/ OpPut(c) \/ OpGet(c) \/ OpRmAll(c) \/ OpTshSot(c) \/ OpTshEot(c) \/ OpGethostInfo(c) \/ Unserved(c)
       \/ up /\ Cardinality(Losses \cup {c}) <= MaxLosses /\ (AskerDies(c) \/ OpRetrieve(c))
  \/ Cardinality(Losses) < MaxLosses /\ OpExit

PlainSpec == PlainInit /\ [][PlainNext]_plainVars

-----------------------------------------------------------------------------
(* Properties. *)

\* No request waits in the handler beside a tuple that it matches, and no client waits that
\* the handler does not have in its queue or in that of the task map, unless a new round has
\* freed the latter (ntsh/tsh.c:494, 928).
WaitersAreQueued ==
  /\ \A q \in ToSet(queue), t \in ToSet(space) : t.name \notin q.names
  /\ up => \A c \in living : call[c].at = "waits" =>
       c \in {q.by : q \in ToSet(queue)} \cup ToSet(round.tid_q) \cup round.left

\* A content is given to one GET at most and then is not in the list; until then it is in
\* the list, unless it was replaced, removed, refused or lost with the handler
\* (ntsh/tsh.c:275, 337, 494).
ContentsAccounted ==
  \A v \in 1 .. puts :
    /\ Cardinality(takers[v]) <= 1
    /\ v \in Contents(space) => takers[v] = {} /\ v \notin gone
    /\ \/ v \in Contents(space) \/ takers[v] # {} \/ v \in gone
       \/ \E c \in Askers : call[c].op = "PUT" /\ call[c].val = v
=============================================================================
