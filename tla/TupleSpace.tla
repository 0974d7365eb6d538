------------------------------ MODULE TupleSpace ------------------------------
(***************************************************************************)
(* The tuple space handlers (TSH, tsh/tsh.c): one single-threaded daemon   *)
(* per tuple space object of an application.  A daemon keeps a list of     *)
(* tuples, a FIFO queue of blocked requests and, for fault tolerance, one  *)
(* backup ("shadow") entry per client with the last tuple it took.         *)
(*                                                                         *)
(* A client is a (host, proc_id) pair; its library call (cnf_tsput,        *)
(* cnf_tsget, cnf_tsread, cnf_gts ...) is a request in flight until the    *)
(* daemon answers it.  A request that finds no tuple leaves the client     *)
(* blocked in get_connection on its return port.  Clients crash at any     *)
(* point; the fault detection daemon (FDD) then tells every handler to     *)
(* RETRIEVE the tuple the dead client held.                                *)
(*                                                                         *)
(* The consumeTuple loop connects to one requestor after another; each     *)
(* iteration is a step, so that clients may crash, issue calls or be       *)
(* suspected between two connects.                                         *)
(***************************************************************************)
EXTENDS Integers, Sequences, FiniteSets, SequencesExt

CONSTANTS
  Spaces,          \* the handlers
  Clients,         \* application processes
  Names,           \* tuple names
  Data,            \* tuple contents; every PUT carries a new one
  Priorities,      \* tuple priorities
  Requests,        \* the requests clients may issue (see Request)
  Mortal,          \* the clients that may crash
  FalseSuspicion,  \* may FDD take a live client for lost (CID unreachable)?
  SigPipe,         \* may a write to a dead client raise SIGPIPE?
  Nil              \* no call, no entry, NULL pointer

\* A wildcard expression is the set of names it matches (match, tsh.c:940).
Request ==
       [op: {"PUT"}, space: Spaces, name: Names, data: Data, pri: Priorities]
  \cup [op: {"GET", "READ"}, space: Spaces, expr: SUBSET Names, wait: BOOLEAN]
  \cup [op: {"SOT", "GTS"}, space: Spaces]
  \cup [op: {"EOT"}, space: Spaces, tids: Nat]

\* space1_t: prev is the back pointer, given as the name of the node it points to.
Node  == [name: Names, data: Data, pri: Priorities, prev: Names \cup {Nil}]
\* queue1_t
Queued == [op: {"GET", "READ"}, expr: SUBSET Names, client: Clients]
\* space2_t: name, data and pri are uninitialised (Nil) in an entry made by OpRetrieve.
Entry == [name: Names \cup {Nil}, data: Data \cup {Nil}, pri: Priorities \cup {Nil},
          fault: BOOLEAN]
\* The tuple createTuple made and consumeTuple/storeTuple have not placed yet.
Hand  == [name: Names, data: Data, pri: Priorities, client: Clients,
          op: {"PUT", "RETRIEVE"}]

\* u_short priority
MaxPriority == 65535

ASSUME RequestsAssumption == Requests \subseteq Request
ASSUME PrioritiesAssumption == Priorities \subseteq 0 .. MaxPriority
ASSUME MortalAssumption == Mortal \subseteq Clients
ASSUME FlagsAssumption == FalseSuspicion \in BOOLEAN /\ SigPipe \in BOOLEAN
ASSUME NilAssumption ==
  /\ Nil \notin Spaces /\ Nil \notin Names /\ Nil \notin Data /\ Nil \notin Priorities
  /\ Nil \notin Clients
  /\ Nil \notin Request /\ Nil \notin Entry /\ Nil \notin Hand
  /\ Nil \notin [name: Names, data: Data] /\ Nil \notin [tids: Nat]

VARIABLES
  daemon,     \* "up", "exited" (OpExit, SIGTERM), "crashed" (NULL pointer) or
              \* "killed" (SIGPIPE)
  space,      \* tsh.space: list of nodes
  queue,      \* tsh.queue_hd .. queue_tl: blocked requests
  retrieve,   \* tsh.retrieve: backup entry of each client, or Nil
  hand,       \* tuple being placed by the handler in progress, or Nil
  info,       \* EOT, TIDS, total_fetched, tid_q
  call,       \* request each client has in flight, or Nil
  waiting,    \* the handler each client is blocked on, or Nil
  got,        \* what each client's last call returned: a tuple, a task map, or Nil
  alive,      \* clients that have not crashed
  suspected,  \* clients FDD has declared lost
  used,       \* history: contents already PUT
  accepted,   \* history: contents each handler has accepted
  taken       \* history: <<content, client>> of every GET a handler delivered

tshVars    == <<daemon, space, queue, retrieve, hand, info>>
clientVars == <<call, waiting, got>>
envVars    == <<alive, suspected, used>>
vars       == <<tshVars, clientVars, envVars, accepted, taken>>

Init ==
  /\ daemon = [s \in Spaces |-> "up"]
  /\ space = [s \in Spaces |-> <<>>]
  /\ queue = [s \in Spaces |-> <<>>]
  /\ retrieve = [s \in Spaces |-> [c \in Clients |-> Nil]]
  /\ hand = [s \in Spaces |-> Nil]
  /\ info = [s \in Spaces |-> [eot |-> FALSE, tids |-> 0, fetched |-> 0, tidq |-> <<>>]]
  /\ call = [c \in Clients |-> Nil]
  /\ waiting = [c \in Clients |-> Nil]
  /\ got = [c \in Clients |-> Nil]
  /\ alive = Clients
  /\ suspected = {}
  /\ used = {}
  /\ accepted = [s \in Spaces |-> {}]
  /\ taken = [s \in Spaces |-> {}]

-----------------------------------------------------------------------------
(* The list and queue routines of tsh.c. *)

\* Mutant: the last of the equals.
FindTupleLast(sp, expr) ==
  LET matches == {i \in DOMAIN sp : sp[i].name \in expr}
  IN  IF matches = {} THEN 0
      ELSE CHOOSE i \in matches :
             \A j \in matches : \/ sp[i].pri > sp[j].pri
                                \/ sp[i].pri = sp[j].pri /\ i >= j

\* findTuple: highest priority among the matches, the first of equals; 0 = NULL.
FindTuple(sp, expr) ==
  LET matches == {i \in DOMAIN sp : sp[i].name \in expr}
  IN  IF matches = {} THEN 0
      ELSE CHOOSE i \in matches :
             \A j \in matches : \/ sp[i].pri > sp[j].pri
                                \/ sp[i].pri = sp[j].pri /\ i <= j

\* Mutant: only the head of the queue is tried.
FindRequestAtHead(q, n) == IF q # <<>> /\ n \in q[1].expr THEN 1 ELSE 0

\* findRequest: the first request of the queue that matches the name; 0 = NULL.
FindRequest(q, n) ==
  LET matches == {i \in DOMAIN q : n \in q[i].expr}
  IN  IF matches = {} THEN 0
      ELSE CHOOSE i \in matches : \A j \in matches : i <= j

\* storeRequest: a new request goes to the tail of the queue.
StoreRequest(q, r) == Append(q, r)

\* Mutant: the head pointer moves past the request, dropping those before it.
DeleteRequestsUpTo(q, i) == SubSeq(q, i + 1, Len(q))

\* deleteRequest
DeleteRequest(q, i) == RemoveAt(q, i)

\* Mutant: a new tuple goes in front (LIFO), as before the modification "Made FIFO from LIFO".
StoreTupleLifo(sp, t, f) ==
  <<[name |-> t.name, data |-> t.data, pri |-> t.pri, prev |-> Nil]>> \o sp

\* storeTuple(s, f): overwrite the tuple of that name, else append (f = 0) or push
\* in front (f = 1).  The push leaves the back pointer of the old head NULL.
StoreTuple(sp, t, f) ==
  IF \E i \in DOMAIN sp : sp[i].name = t.name
  THEN [i \in DOMAIN sp |->
          IF sp[i].name = t.name
          THEN [sp[i] EXCEPT !.data = t.data, !.pri = t.pri]
          ELSE sp[i]]
  ELSE LET node(p) == [name |-> t.name, data |-> t.data, pri |-> t.pri, prev |-> p]
       IN  IF f = 0
           THEN Append(sp, node(IF sp = <<>> THEN Nil ELSE Last(sp).name))
           ELSE <<node(Nil)>> \o sp

\* deleteTuple dereferences s->prev of every node but the head.
DeleteCrashes(sp, i) == i # 1 /\ sp[i].prev = Nil

\* Mutant: the successor keeps its back pointer to the deleted node.
UnlinkForwardOnly(sp, i) == RemoveAt(sp, i)

\* deleteTuple, unlinking part: the successor takes over the back pointer.
Unlink(sp, i) ==
  LET rest == RemoveAt(sp, i)
  IN  IF i \in DOMAIN rest THEN [rest EXCEPT ![i].prev = sp[i].prev] ELSE rest

\* Mutant: an entry that exists is left as it is.
BackupOnce(entry, t) ==
  IF entry # Nil THEN entry
  ELSE [name |-> t.name, data |-> t.data, pri |-> t.pri, fault |-> FALSE]

\* Mutant: overwriting the entry clears the fault mark.
BackupUnfences(entry, t) == [name |-> t.name, data |-> t.data, pri |-> t.pri, fault |-> FALSE]

\* The backup part of deleteTuple and consumeTuple: the client's entry is
\* overwritten (its previous tuple is freed), or a new one is made.
Backup(entry, t) ==
  [name |-> t.name, data |-> t.data, pri |-> t.pri,
   fault |-> IF entry = Nil THEN FALSE ELSE entry.fault]

\* guardf: is this client marked faulty?
Guardf(s, c) == retrieve[s][c] # Nil /\ retrieve[s][c].fault

\* sendTuple connects to the requestor's return port: it works iff that process lives.
SendTuple(c) == c \in alive

-----------------------------------------------------------------------------
(* The clients. *)

Idle(c) == c \in alive /\ call[c] = Nil /\ waiting[c] = Nil

\* A library call connects to the daemon and sends its request.
Call(c, r) ==
  /\ Idle(c)
  /\ daemon[r.space] = "up"
  /\ r.op = "PUT" => r.data \notin used
  /\ call' = [call EXCEPT ![c] = r]
  /\ got' = [got EXCEPT ![c] = Nil]
  /\ used' = IF r.op = "PUT" THEN used \cup {r.data} ELSE used
  /\ UNCHANGED <<tshVars, waiting, alive, suspected, accepted, taken>>

\* The daemon went away: the connection breaks and the call returns an error.
CallFails(c) ==
  /\ call[c] # Nil
  /\ daemon[call[c].space] # "up"
  /\ call' = [call EXCEPT ![c] = Nil]
  /\ UNCHANGED <<tshVars, waiting, got, envVars, accepted, taken>>

\* A client dies.  What it sent stays in the daemon's socket.
Crash(c) ==
  /\ c \in alive \cap Mortal
  /\ alive' = alive \ {c}
  /\ UNCHANGED <<tshVars, clientVars, suspected, used, accepted, taken>>

\* FDD's ping of the client's CID fails: the process is dead, or (FalseSuspicion)
\* its CID cannot be reached.
Suspect(c) ==
  /\ c \notin suspected
  /\ FalseSuspicion \/ c \notin alive
  /\ suspected' = suspected \cup {c}
  /\ UNCHANGED <<tshVars, clientVars, alive, used, accepted, taken>>

-----------------------------------------------------------------------------
(* The operations of a handler. *)

\* The daemon is between two operations.
Ready(s) == daemon[s] = "up" /\ hand[s] = Nil

\* The daemon picks up a request of client c.
Serves(s, c, ops) ==
  Ready(s) /\ call[c] # Nil /\ call[c].space = s /\ call[c].op \in ops

Answered(c) == call' = [call EXCEPT ![c] = Nil]

\* The process of handler s ends, and all its memory with it.
Ends(s, how) ==
  /\ daemon' = [daemon EXCEPT ![s] = how]
  /\ space' = [space EXCEPT ![s] = <<>>]
  /\ queue' = [queue EXCEPT ![s] = <<>>]
  /\ retrieve' = [retrieve EXCEPT ![s] = [c \in Clients |-> Nil]]

\* OpPut and OpGet drop the request of a client marked faulty without a reply.
OpGuarded(s, c) ==
  /\ Serves(s, c, {"PUT", "GET", "READ"})
  /\ Guardf(s, c)
  /\ Answered(c)
  /\ UNCHANGED <<tshVars, waiting, got, envVars, accepted, taken>>

\* OpPut up to consumeTuple; the reply is sent when the tuple has been placed.
OpPut(s, c) ==
  /\ Serves(s, c, {"PUT"})
  /\ ~Guardf(s, c)
  /\ hand' = [hand EXCEPT ![s] = [name |-> call[c].name, data |-> call[c].data,
                                  pri |-> call[c].pri, client |-> c, op |-> "PUT"]]
  /\ accepted' = [accepted EXCEPT ![s] = @ \cup {call[c].data}]
  /\ UNCHANGED <<daemon, space, queue, retrieve, info, clientVars, envVars, taken>>

\* OpGet without a match: queue the request unless it is asynchronous (len = -1).
OpGetMiss(s, c) ==
  /\ Serves(s, c, {"GET", "READ"})
  /\ ~Guardf(s, c)
  /\ FindTuple(space[s], call[c].expr) = 0
  /\ IF call[c].wait
     THEN /\ queue' = [queue EXCEPT ![s] =
                 StoreRequest(@, [op |-> call[c].op, expr |-> call[c].expr, client |-> c])]
          /\ waiting' = [waiting EXCEPT ![c] = s]
     ELSE UNCHANGED <<queue, waiting>>
  /\ Answered(c)
  /\ UNCHANGED <<daemon, space, retrieve, hand, info, got, envVars, accepted, taken>>

\* Mutant: OpGet without guardf.
HitUnguarded(s, c) ==
  Serves(s, c, {"GET", "READ"}) /\ FindTuple(space[s], call[c].expr) # 0

\* OpGet finds a tuple for client c.
Hit(s, c) ==
  /\ Serves(s, c, {"GET", "READ"})
  /\ ~Guardf(s, c)
  /\ FindTuple(space[s], call[c].expr) # 0

\* OpGet with a match, all three writes done (for a dead client they may end in
\* the socket buffer): a GET then deletes the tuple and backs it up.
OpGetHit(s, c) ==
  /\ Hit(s, c)
  /\ LET i == FindTuple(space[s], call[c].expr)
         t == space[s][i]
     IN  /\ got' = [got EXCEPT ![c] = [name |-> t.name, data |-> t.data]]
         /\ IF call[c].op = "READ"
            THEN UNCHANGED <<daemon, space, queue, retrieve, taken>>
            ELSE /\ taken' = [taken EXCEPT ![s] = @ \cup {<<t.data, c>>}]
                 /\ IF DeleteCrashes(space[s], i)
                    THEN Ends(s, "crashed")
                    ELSE /\ space' = [space EXCEPT ![s] = Unlink(@, i)]
                         /\ retrieve' = [retrieve EXCEPT ![s][c] = Backup(@, t)]
                         /\ UNCHANGED <<daemon, queue>>
  /\ Answered(c)
  /\ UNCHANGED <<hand, info, waiting, envVars, accepted>>

\* Mutant: the tuple is unlinked before the writes, so a failed write loses it.
OpGetLostUnlinked(s, c) ==
  /\ Hit(s, c)
  /\ c \notin alive
  /\ space' = [space EXCEPT ![s] = Unlink(@, FindTuple(@, call[c].expr))]
  /\ Answered(c)
  /\ UNCHANGED <<daemon, queue, retrieve, hand, info, waiting, got, envVars, accepted, taken>>

\* OpGet to a dead client whose connection is already reset: the second or third write
\* fails and the handler returns before deleteTuple, or SIGPIPE, which tsh.c neither
\* ignores nor catches, ends the daemon.
OpGetLost(s, c) ==
  /\ Hit(s, c)
  /\ c \notin alive
  /\ \/ UNCHANGED <<daemon, space, queue, retrieve>>
     \/ SigPipe /\ Ends(s, "killed")
  /\ Answered(c)
  /\ UNCHANGED <<hand, info, waiting, got, envVars, accepted, taken>>

-----------------------------------------------------------------------------
(* Placing the tuple in hand: consumeTuple and storeTuple. *)

\* What the operation that made the tuple does last: OpPut replies, OpRetrieve marks
\* the entry faulty and drops its tuple.  back is the backup list so far.
Finish(s, back) ==
  LET h == hand[s]
  IN  /\ hand' = [hand EXCEPT ![s] = Nil]
      /\ IF h.op = "PUT"
         THEN Answered(h.client) /\ retrieve' = [retrieve EXCEPT ![s] = back]
         ELSE /\ retrieve' = [retrieve EXCEPT ![s] =
                    [back EXCEPT ![h.client].fault = TRUE, ![h.client].data = Nil]]
              /\ UNCHANGED call

\* One iteration of consumeTuple: the first matching request.
ConsumeTuple(s) ==
  /\ daemon[s] = "up"
  /\ hand[s] # Nil
  /\ LET h == hand[s]
         i == FindRequest(queue[s], h.name)
         q == queue[s][i]
     IN  /\ i # 0
         /\ queue' = [queue EXCEPT ![s] = DeleteRequest(@, i)]
         /\ IF SendTuple(q.client)
            THEN /\ waiting' = [waiting EXCEPT ![q.client] = Nil]
                 /\ got' = [got EXCEPT ![q.client] = [name |-> h.name, data |-> h.data]]
            ELSE UNCHANGED <<waiting, got>>
         /\ IF SendTuple(q.client) /\ q.op = "GET"
            THEN /\ info' = [info EXCEPT ![s].fetched = @ + 1]
                 /\ taken' = [taken EXCEPT ![s] = @ \cup {<<h.data, q.client>>}]
                 /\ Finish(s, [retrieve[s] EXCEPT ![q.client] = Backup(@, h)])
            ELSE UNCHANGED <<info, taken, hand, retrieve, call>>
  /\ UNCHANGED <<daemon, space, envVars, accepted>>

\* No request is left that matches: storeTuple.
StoreHand(s) ==
  /\ daemon[s] = "up"
  /\ hand[s] # Nil
  /\ FindRequest(queue[s], hand[s].name) = 0
  /\ space' = [space EXCEPT ![s] =
        StoreTuple(@, hand[s], IF hand[s].op = "PUT" THEN 0 ELSE 1)]
  /\ Finish(s, retrieve[s])
  /\ UNCHANGED <<daemon, queue, info, waiting, got, envVars, accepted, taken>>

\* Mutant: RETRIEVE sent again for a client already marked faulty.
OpRetrieveAgain(s, c) ==
  /\ Ready(s)
  /\ c \in suspected
  /\ retrieve[s][c] # Nil
  /\ hand' = [hand EXCEPT ![s] =
        [name |-> retrieve[s][c].name, data |-> retrieve[s][c].data,
         pri |-> retrieve[s][c].pri, client |-> c, op |-> "RETRIEVE"]]
  /\ UNCHANGED <<daemon, space, queue, retrieve, info, clientVars, envVars, accepted, taken>>

\* Mutant: the client is fenced but its tuple is not offered again.
OpRetrieveFenceOnly(s, c) ==
  /\ Ready(s)
  /\ c \in suspected
  /\ ~Guardf(s, c)
  /\ retrieve' = [retrieve EXCEPT ![s][c] =
        [name |-> Nil, data |-> Nil, pri |-> Nil, fault |-> TRUE]]
  /\ UNCHANGED <<daemon, space, queue, hand, info, clientVars, envVars, accepted, taken>>

\* OpRetrieve, sent by FDD once per lost client and handler: the backed-up tuple is
\* offered again, or a bare faulty entry is made for a client that took nothing.
OpRetrieve(s, c) ==
  /\ Ready(s)
  /\ c \in suspected
  /\ ~Guardf(s, c)
  /\ IF retrieve[s][c] # Nil
     THEN /\ hand' = [hand EXCEPT ![s] =
                [name |-> retrieve[s][c].name, data |-> retrieve[s][c].data,
                 pri |-> retrieve[s][c].pri, client |-> c, op |-> "RETRIEVE"]]
          /\ UNCHANGED retrieve
     ELSE /\ retrieve' = [retrieve EXCEPT ![s][c] =
                [name |-> Nil, data |-> Nil, pri |-> Nil, fault |-> TRUE]]
          /\ UNCHANGED hand
  /\ UNCHANGED <<daemon, space, queue, info, clientVars, envVars, accepted, taken>>

\* OpExit (from DAC when the application ends) and sigtermHandler.
OpExit(s) ==
  /\ Ready(s)
  /\ Ends(s, "exited")
  /\ UNCHANGED <<hand, info, clientVars, envVars, accepted, taken>>

-----------------------------------------------------------------------------
(* Task id information: which client took what, asked for by cnf_gts. *)

\* OpTshSot: start of tasks.
OpTshSot(s, c) ==
  /\ Serves(s, c, {"SOT"})
  /\ info' = [info EXCEPT ![s] = [eot |-> FALSE, tids |-> 0, fetched |-> 0, tidq |-> <<>>]]
  /\ Answered(c)
  /\ UNCHANGED <<daemon, space, queue, retrieve, hand, waiting, got, envVars, accepted, taken>>

\* send_tidinfo: answer every queued request; the daemon exits at the first requestor it
\* cannot connect to.  The queue itself stays as it is.
SendTidInfo(s, tids) ==
  LET q == info[s].tidq
      dead == {i \in DOMAIN q : q[i] \notin alive}
      reached == {q[i] : i \in {j \in DOMAIN q : \A k \in dead : j < k}}
  IN  /\ waiting' = [d \in Clients |-> IF d \in reached THEN Nil ELSE waiting[d]]
      /\ got' = [d \in Clients |-> IF d \in reached THEN [tids |-> tids] ELSE got[d]]
      /\ IF dead = {} THEN UNCHANGED <<daemon, space, queue, retrieve>> ELSE Ends(s, "exited")

\* OpTshEot: end of tasks.  The queued requests are answered if every task has been
\* fetched by now, and never again.
OpTshEot(s, c) ==
  /\ Serves(s, c, {"EOT"})
  /\ info' = [info EXCEPT ![s].tids = call[c].tids, ![s].eot = TRUE]
  /\ IF info[s].fetched = call[c].tids
     THEN SendTidInfo(s, call[c].tids)
     ELSE UNCHANGED <<waiting, got, daemon, space, queue, retrieve>>
  /\ Answered(c)
  /\ UNCHANGED <<hand, envVars, accepted, taken>>

\* Mutant: the map is sent once EOT is marked, fetched or not.
OpGethostInfoEarly(s, c) ==
  /\ Serves(s, c, {"GTS"})
  /\ info[s].eot
  /\ got' = [got EXCEPT ![c] = [tids |-> info[s].tids]]
  /\ Answered(c)
  /\ UNCHANGED <<tshVars, waiting, envVars, accepted, taken>>

\* OpGethostInfo: answer if the tasks are complete and fetched, else queue (LIFO).
OpGethostInfo(s, c) ==
  /\ Serves(s, c, {"GTS"})
  /\ LET i == info[s]
         status == IF ~i.eot \/ i.fetched < i.tids THEN 0 ELSE i.tids
     IN  IF status = 0
         THEN /\ info' = [info EXCEPT ![s].tidq = <<c>> \o @]
              /\ waiting' = [waiting EXCEPT ![c] = s]
              /\ UNCHANGED got
         ELSE /\ got' = [got EXCEPT ![c] = [tids |-> status]]
              /\ UNCHANGED <<info, waiting>>
  /\ Answered(c)
  /\ UNCHANGED <<daemon, space, queue, retrieve, hand, envVars, accepted, taken>>

-----------------------------------------------------------------------------
Client(c) ==
  \/ \E r \in Requests : Call(c, r)
  \/ CallFails(c)
  \/ Crash(c)
  \/ Suspect(c)

Serve(s, c) ==
  \/ OpGuarded(s, c)
  \/ OpPut(s, c)
  \/ OpGetMiss(s, c)
  \/ OpGetHit(s, c)
  \/ OpGetLost(s, c)
  \/ OpRetrieve(s, c)
  \/ OpTshSot(s, c)
  \/ OpTshEot(s, c)
  \/ OpGethostInfo(s, c)

Next ==
  \/ \E c \in Clients : Client(c)
  \/ \E s \in Spaces, c \in Clients : Serve(s, c)
  \/ \E s \in Spaces : ConsumeTuple(s) \/ StoreHand(s) \/ OpExit(s)

Spec == Init /\ [][Next]_vars

\* The daemon keeps running and accepts connections in the order of its listen queue,
\* so each request in flight is served in the end whatever other clients send.
Fairness ==
  /\ \A s \in Spaces : WF_vars(ConsumeTuple(s)) /\ WF_vars(StoreHand(s))
  /\ \A s \in Spaces, c \in Clients : SF_vars(Serve(s, c))

FairSpec == Spec /\ Fairness

-----------------------------------------------------------------------------
\* Every variable has its type.
TypeOK ==
  /\ daemon \in [Spaces -> {"up", "exited", "crashed", "killed"}]
  /\ space \in [Spaces -> Seq(Node)]
  /\ queue \in [Spaces -> Seq(Queued)]
  /\ retrieve \in [Spaces -> [Clients -> Entry \cup {Nil}]]
  /\ hand \in [Spaces -> Hand \cup {Nil}]
  /\ info \in [Spaces -> [eot: BOOLEAN, tids: Nat, fetched: Nat, tidq: Seq(Clients)]]
  /\ call \in [Clients -> Request \cup {Nil}]
  /\ waiting \in [Clients -> Spaces \cup {Nil}]
  /\ got \in [Clients -> [name: Names, data: Data] \cup [tids: Nat] \cup {Nil}]
  /\ alive \subseteq Clients
  /\ suspected \subseteq Clients
  /\ used \subseteq Data
  /\ accepted \in [Spaces -> SUBSET Data]
  /\ taken \in [Spaces -> SUBSET (Data \X Clients)]

\* A stored tuple never sits beside a blocked request it matches: every arrival is
\* offered to the whole queue before it is stored (OpPut, OpRetrieve, consumeTuple),
\* and a request is queued only when nothing stored matches it (OpGet).
NoMissedMatch ==
  \A s \in Spaces : daemon[s] = "up" =>
    \A i \in DOMAIN queue[s], j \in DOMAIN space[s] :
      space[s][j].name \notin queue[s][i].expr

\* A tuple removed by GET belongs to one client: of the clients a content was handed
\* to, at most one is not marked faulty by that handler.  Recovery hands a tuple out
\* again only with its previous holder fenced off (guardf).
OneUnfencedHolder ==
  \A s \in Spaces : daemon[s] = "up" =>
    \A d \in Data :
      Cardinality({c \in Clients : <<d, c>> \in taken[s] /\ ~Guardf(s, c)}) <= 1

\* A live client blocked on a running handler stands in its queue (or its tid queue):
\* consumeTuple and send_tidinfo never drop a request without waking its client, so
\* nobody sleeps forgotten; and a client stands in a queue once.
BlockedIsQueued ==
  \A c \in alive :
    \A s \in Spaces : daemon[s] = "up" =>
      LET mine == {i \in DOMAIN queue[s] : queue[s][i].client = c}
      IN  /\ Cardinality(mine) <= 1
          /\ mine # {} => waiting[c] = s
          /\ waiting[c] = s => mine # {} \/ c \in Range(info[s].tidq)

\* No tuple is stranded: the backup entry of a client marked faulty holds no tuple.
\* FDD sends RETRIEVE once, so a tuple captured there later could not be recovered.
NoStrandedBackup ==
  \A s \in Spaces, c \in Clients : Guardf(s, c) => retrieve[s][c].data = Nil

\* Where a content is, read off the tuple in hand, the list and the backup entries; the
\* entry that OpRetrieve is reading still points to the tuple in hand.
Places(s, d) ==
  LET inHand == hand[s] # Nil /\ hand[s].data = d
      origin == IF inHand /\ hand[s].op = "RETRIEVE" THEN hand[s].client ELSE Nil
  IN  {[at |-> "offered", by |-> origin] : x \in {y \in {s} : inHand}}
      \cup {[at |-> "stored", by |-> Nil] : i \in {j \in DOMAIN space[s] : space[s][j].data = d}}
      \cup {[at |-> "held", by |-> c] : c \in
               {c \in Clients \ {origin} : retrieve[s][c] # Nil /\ retrieve[s][c].data = d}}

Where(s, d) ==
  CASE Cardinality(Places(s, d)) = 1 -> CHOOSE p \in Places(s, d) : TRUE
    [] Cardinality(Places(s, d)) > 1 -> [at |-> "duplicated", by |-> Nil]
    [] OTHER -> [at |-> IF d \in accepted[s] THEN "gone" ELSE "unknown", by |-> Nil]

Shadow == INSTANCE ShadowTuples WITH
  where <- [s \in Spaces |-> [d \in Data |-> Where(s, d)]],
  fenced <- [s \in Spaces |-> {c \in Clients : Guardf(s, c)}]

\* Every step of the handlers is a step of ShadowTuples: the list, queue and backup
\* routines keep each content in one place, never lose one that is stored or held, and
\* hand none to a fenced client.
ShadowTupleLife == Shadow!Spec

\* cnf_gts returns a task map of n entries only when n contents have been taken from that
\* handler (a recovered content that is consumed again is counted twice, and send_tidinfo may
\* answer a client that is now blocked at another handler, so this holds of one handler without
\* a crash).
TidsAreFetched ==
  [][\A s \in Spaces, c \in Clients :
       (/\ got'[c] # got[c] /\ got'[c] \in [tids: Nat]
        /\ \/ call[c] # Nil /\ call[c].space = s
           \/ waiting[c] = s)
       => got'[c].tids <= Cardinality({p[1] : p \in taken[s]})]_vars

\* A client blocked in cnf_gts is answered once the end of tasks is marked and every
\* task has been fetched (OpTshEot, OpGethostInfo), unless it or the handler dies or a
\* new round starts.
GtsAnswered ==
  \A s \in Spaces, c \in Clients :
    (/\ waiting[c] = s
     /\ c \in Range(info[s].tidq)
     /\ \A i \in DOMAIN queue[s] : queue[s][i].client # c
     /\ info[s].eot
     /\ info[s].fetched >= info[s].tids)
    ~> (waiting[c] # s \/ ~info[s].eot \/ daemon[s] # "up" \/ c \notin alive)

\* The handler survives its own list operations: it ends by OpExit or SIGTERM only,
\* never by following a NULL back pointer in deleteTuple.
NoCrash == \A s \in Spaces : daemon[s] # "crashed"

\* A back pointer is NULL or names the predecessor in the list, and a name occurs once:
\* deleteTuple's pointer surgery then removes exactly the node it was given.
ListWellFormed ==
  \A s \in Spaces : \A i \in DOMAIN space[s] :
    /\ space[s][i].prev # Nil => i > 1 /\ space[s][i].prev = space[s][i - 1].name
    /\ \A j \in DOMAIN space[s] : space[s][i].name = space[s][j].name => i = j
=============================================================================
