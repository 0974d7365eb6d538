---------------------------- MODULE TupleSpaceProofs ----------------------------
(***************************************************************************)
(* Proofs about the tuple space handlers (TupleSpace): type correctness,   *)
(* the shape of the tuple list, that no stored tuple is overlooked by a    *)
(* blocked request, and that no tuple stays behind in the backup of a      *)
(* client marked faulty; then what handlers owe their clients: who is      *)
(* blocked stands in a queue, a content that GET removed belongs to one    *)
(* client that is not fenced off, and a map of the tasks is complete.      *)
(* They hold for any number of handlers, clients, names and priorities and *)
(* for every set of requests, with deaths and recovery at any point.       *)
(*                                                                         *)
(* The first part states what the list and queue routines of tsh.c do, the *)
(* second is the type invariant, one lemma for each operation, and the     *)
(* others each take one safety property by its own inductive invariant;    *)
(* the last shows that the handlers implement ShadowTuples.                *)
(***************************************************************************)
EXTENDS TupleSpace, ListProofs

\* findRequest returns NULL only if no request of the queue matches the name, else a
\* request that does.
LEMMA FindRequestFound ==
  ASSUME NEW q \in Seq(Queued), NEW n
  PROVE  \/ /\ FindRequest(q, n) = 0
            /\ \A i \in DOMAIN q : n \notin q[i].expr
         \/ /\ FindRequest(q, n) \in DOMAIN q
            /\ n \in q[FindRequest(q, n)].expr
<1> DEFINE matches == {i \in DOMAIN q : n \in q[i].expr}
<1>1. matches \subseteq Nat
  OBVIOUS
<1>2. CASE matches = {}
  BY <1>2 DEF FindRequest
<1>3. CASE matches # {}
  <2>1. \E i \in matches : \A j \in matches : i <= j
    BY <1>1, <1>3, LeastIn
  <2>2. FindRequest(q, n) \in matches
    BY <1>3, <2>1 DEF FindRequest
  <2> QED
    BY <2>2
<1> QED
  BY <1>2, <1>3

\* The greatest priority is a natural number.
LEMMA MaxPriorityNat == MaxPriority \in Nat
BY SMT DEF MaxPriority

\* findTuple returns NULL only if no tuple of the list matches the expression, else a tuple
\* that does: there is a first one among those of the highest priority.
LEMMA FindTupleFound ==
  ASSUME NEW sp \in Seq(Node), NEW expr
  PROVE  \/ /\ FindTuple(sp, expr) = 0
            /\ \A i \in DOMAIN sp : sp[i].name \notin expr
         \/ /\ FindTuple(sp, expr) \in DOMAIN sp
            /\ sp[FindTuple(sp, expr)].name \in expr
<1> DEFINE matches == {i \in DOMAIN sp : sp[i].name \in expr}
           defects == {MaxPriority - sp[i].pri : i \in matches}
<1>1. matches \subseteq Nat
  OBVIOUS
<1>2. \A i \in matches : sp[i].pri \in 0 .. MaxPriority
  <2> TAKE i \in matches
  <2>1. sp[i] \in Node
    OBVIOUS
  <2>2. sp[i].pri \in Priorities
    BY <2>1 DEF Node
  <2> QED
    BY <2>2, PrioritiesAssumption, MaxPriorityNat
<1>3. CASE matches = {}
  BY <1>3 DEF FindTuple
<1>4. CASE matches # {}
  <2>1. defects \subseteq Nat
    BY <1>2, MaxPriorityNat
  <2>a. defects # {}
    BY <1>4
  <2>b. PICK d \in defects : \A e \in defects : d <= e
    <3> HIDE DEF defects
    <3> QED
      BY <2>1, <2>a, LeastIn
  <2>c. PICK m \in matches : d = MaxPriority - sp[m].pri
    OBVIOUS
  <2>2. \A j \in matches : sp[j].pri <= sp[m].pri
    <3> TAKE j \in matches
    <3>1. MaxPriority - sp[j].pri \in defects
      OBVIOUS
    <3>2. MaxPriority - sp[m].pri <= MaxPriority - sp[j].pri
      BY <3>1, <2>b, <2>c
    <3> QED
      BY <3>2, <1>2, MaxPriorityNat
  <2> DEFINE highest == {i \in matches : sp[i].pri = sp[m].pri}
  <2>3. highest \subseteq Nat /\ highest # {}
    BY <1>1
  <2>4. PICK i \in highest : \A j \in highest : i <= j
    BY <2>3, LeastIn
  <2>5. \A j \in matches : \/ sp[i].pri > sp[j].pri
                           \/ sp[i].pri = sp[j].pri /\ i <= j
    <3> TAKE j \in matches
    <3>1. sp[i].pri = sp[m].pri /\ sp[j].pri <= sp[m].pri
      BY <2>2, <2>4
    <3>2. sp[j].pri = sp[m].pri => i <= j
      BY <2>4
    <3>3. sp[i].pri \in Int /\ sp[j].pri \in Int
      BY <1>2, MaxPriorityNat
    <3> QED
      BY <3>1, <3>2, <3>3
  <2>6. FindTuple(sp, expr) \in matches
    BY <1>4, <2>5 DEF FindTuple
  <2> QED
    BY <2>6
<1> QED
  BY <1>3, <1>4

-----------------------------------------------------------------------------
\* The fields a request of each kind carries.
LEMMA RequestFields ==
  ASSUME NEW r \in Request
  PROVE  /\ r.space \in Spaces
         /\ r.op = "PUT" => r.name \in Names /\ r.data \in Data /\ r.pri \in Priorities
         /\ r.op \in {"GET", "READ"} => r.expr \subseteq Names /\ r.wait \in BOOLEAN
         /\ r.op = "EOT" => r.tids \in Nat
BY DEF Request

\* storeTuple keeps a list of nodes.
LEMMA StoreTupleType ==
  ASSUME NEW sp \in Seq(Node), NEW t \in Hand, NEW f
  PROVE  StoreTuple(sp, t, f) \in Seq(Node)
<1>1. t.name \in Names /\ t.data \in Data /\ t.pri \in Priorities
  BY DEF Hand
<1>2. CASE \E i \in DOMAIN sp : sp[i].name = t.name
  <2> DEFINE new(i) == IF sp[i].name = t.name
                       THEN [sp[i] EXCEPT !.data = t.data, !.pri = t.pri]
                       ELSE sp[i]
  <2>1. \A i \in DOMAIN sp : new(i) \in Node
    <3> TAKE i \in DOMAIN sp
    <3>1. sp[i] \in Node
      OBVIOUS
    <3>2. [sp[i] EXCEPT !.data = t.data, !.pri = t.pri] \in Node
      BY <1>1, <3>1 DEF Node
    <3> QED
      BY <3>1, <3>2
  <2>2. StoreTuple(sp, t, f) = [i \in DOMAIN sp |-> new(i)]
    BY <1>2 DEF StoreTuple
  <2> HIDE DEF new
  <2>3. DOMAIN sp = 1 .. Len(sp) /\ Len(sp) \in Nat
    OBVIOUS
  <2>4. [i \in DOMAIN sp |-> new(i)] \in [1 .. Len(sp) -> Node]
    BY <2>1, <2>3
  <2> QED
    BY <2>2, <2>3, <2>4, SeqDef
<1>3. CASE ~\E i \in DOMAIN sp : sp[i].name = t.name
  <2> DEFINE node(p) == [name |-> t.name, data |-> t.data, pri |-> t.pri, prev |-> p]
  <2>1. sp # <<>> => Last(sp).name \in Names
    <3>1. sp # <<>> => Last(sp) \in Node
      BY DEF Last
    <3> QED
      BY <3>1 DEF Node
  <2>2. node(Nil) \in Node /\ node(IF sp = <<>> THEN Nil ELSE Last(sp).name) \in Node
    BY <1>1, <2>1 DEF Node
  <2> HIDE DEF node
  <2>3. StoreTuple(sp, t, f) = IF f = 0
           THEN Append(sp, node(IF sp = <<>> THEN Nil ELSE Last(sp).name))
           ELSE <<node(Nil)>> \o sp
    BY <1>3 DEF StoreTuple, node
  <2> QED
    BY <2>2, <2>3
<1> QED
  BY <1>2, <1>3

\* deleteTuple keeps the other nodes in their order; the one after the deleted node takes
\* over its back pointer.
LEMMA UnlinkProperties ==
  ASSUME NEW sp \in Seq(Node), NEW i \in DOMAIN sp
  PROVE  /\ Unlink(sp, i) \in Seq(Node)
         /\ Len(Unlink(sp, i)) = Len(sp) - 1
         /\ \A j \in 1 .. Len(sp) - 1 :
              /\ Unlink(sp, i)[j].name = (IF j < i THEN sp[j].name ELSE sp[j + 1].name)
              /\ Unlink(sp, i)[j].prev = (IF j < i THEN sp[j].prev
                                          ELSE IF j = i THEN sp[i].prev ELSE sp[j + 1].prev)
<1> DEFINE rest == RemoveAt(sp, i)
<1>1. /\ rest \in Seq(Node)
      /\ Len(rest) = Len(sp) - 1
      /\ \A j \in 1 .. Len(sp) - 1 : rest[j] = IF j < i THEN sp[j] ELSE sp[j + 1]
  BY RemoveAtProperties
<1>2. sp[i].prev \in Names \cup {Nil}
  <2>1. sp[i] \in Node
    OBVIOUS
  <2> QED
    BY <2>1 DEF Node
<1> HIDE DEF rest
<1>3. Unlink(sp, i) = IF i \in DOMAIN rest THEN [rest EXCEPT ![i].prev = sp[i].prev] ELSE rest
  BY DEF Unlink, rest
<1>4. CASE i \in DOMAIN rest
  <2>1. rest[i] \in Node
    BY <1>1, <1>4
  <2>2. [rest[i] EXCEPT !.prev = sp[i].prev] \in Node
    BY <1>2, <2>1 DEF Node
  <2>3. [rest[i] EXCEPT !.prev = sp[i].prev].name = rest[i].name
    BY <2>1 DEF Node
  <2>4. [rest[i] EXCEPT !.prev = sp[i].prev].prev = sp[i].prev
    BY <2>1 DEF Node
  <2> DEFINE n == [rest[i] EXCEPT !.prev = sp[i].prev]
  <2>5. Unlink(sp, i) = [rest EXCEPT ![i] = n]
    BY <1>3, <1>4
  <2> HIDE DEF n
  <2>6. n \in Node /\ n.name = rest[i].name /\ n.prev = sp[i].prev
    BY <2>2, <2>3, <2>4 DEF n
  <2> QED
    BY <1>1, <1>4, <2>5, <2>6
<1>5. CASE i \notin DOMAIN rest
  BY <1>1, <1>3, <1>5
<1> QED
  BY <1>4, <1>5

\* A backup entry made of a tuple is an entry.
LEMMA BackupType ==
  ASSUME NEW e \in Entry \cup {Nil}, NEW t,
         t.name \in Names, t.data \in Data, t.pri \in Priorities
  PROVE  Backup(e, t) \in Entry
BY DEF Backup, Entry

-----------------------------------------------------------------------------
\* An entry that is not marked faulty was filled from a tuple.
EntryFilled ==
  \A s \in Spaces, c \in Clients :
    retrieve[s][c] # Nil /\ ~retrieve[s][c].fault =>
      /\ retrieve[s][c].name \in Names
      /\ retrieve[s][c].data \in Data
      /\ retrieve[s][c].pri \in Priorities

\* While OpRetrieve places a tuple, the entry it came from stays.
RetrievedHasEntry ==
  \A s \in Spaces :
    hand[s] # Nil /\ hand[s].op = "RETRIEVE" => retrieve[s][hand[s].client] # Nil

\* The inductive type invariant.
TypeInv == TypeOK /\ EntryFilled /\ RetrievedHasEntry

\* The type invariant holds when the handlers start.
LEMMA InitType == Init => TypeInv
BY DEF Init, TypeInv, TypeOK, EntryFilled, RetrievedHasEntry

\* A library call keeps the type invariant.
LEMMA CallType ==
  ASSUME TypeInv, NEW c \in Clients, NEW r \in Requests, Call(c, r)
  PROVE  TypeInv'
<1>1. r \in Request
  BY RequestsAssumption
<1>2. used' \subseteq Data
  BY <1>1, RequestFields DEF TypeInv, TypeOK, Call
<1> QED
  BY <1>1, <1>2 DEF TypeInv, TypeOK, EntryFilled, RetrievedHasEntry, Call, tshVars

\* The other steps of a client, and its suspicion by FDD, keep the type invariant.
LEMMA ClientType ==
  ASSUME TypeInv, NEW c \in Clients, CallFails(c) \/ Crash(c) \/ Suspect(c)
  PROVE  TypeInv'
BY DEF TypeInv, TypeOK, EntryFilled, RetrievedHasEntry, CallFails, Crash, Suspect,
       tshVars, clientVars, envVars

\* Dropping a fenced request keeps the type invariant.
LEMMA OpGuardedType ==
  ASSUME TypeInv, NEW s \in Spaces, NEW c \in Clients, OpGuarded(s, c)
  PROVE  TypeInv'
BY DEF TypeInv, TypeOK, EntryFilled, RetrievedHasEntry, OpGuarded, Answered,
       tshVars, envVars

\* A handler that ends between two operations leaves well-typed (empty) lists.
LEMMA EndsType ==
  ASSUME TypeInv, NEW s \in Spaces, NEW how \in {"exited", "crashed", "killed"},
         hand[s] = Nil, Ends(s, how), UNCHANGED hand
  PROVE  /\ daemon' \in [Spaces -> {"up", "exited", "crashed", "killed"}]
         /\ space' \in [Spaces -> Seq(Node)]
         /\ queue' \in [Spaces -> Seq(Queued)]
         /\ retrieve' \in [Spaces -> [Clients -> Entry \cup {Nil}]]
         /\ EntryFilled'
         /\ RetrievedHasEntry'
BY DEF TypeInv, TypeOK, EntryFilled, RetrievedHasEntry, Ends

\* OpExit keeps the type invariant.
LEMMA OpExitType ==
  ASSUME TypeInv, NEW s \in Spaces, OpExit(s)
  PROVE  TypeInv'
<1>1. hand[s] = Nil /\ Ends(s, "exited") /\ UNCHANGED hand
  BY DEF OpExit, Ready
<1> QED
  BY <1>1, EndsType DEF TypeInv, TypeOK, OpExit, clientVars, envVars

\* OpPut keeps the type invariant.
LEMMA OpPutType ==
  ASSUME TypeInv, NEW s \in Spaces, NEW c \in Clients, OpPut(s, c)
  PROVE  TypeInv'
<1> DEFINE h == [name |-> call[c].name, data |-> call[c].data, pri |-> call[c].pri,
                 client |-> c, op |-> "PUT"]
<1>1. call[c] \in Request /\ call[c].op = "PUT"
  BY DEF TypeInv, TypeOK, OpPut, Serves
<1>2. call[c].data \in Data /\ h \in Hand /\ h.op = "PUT"
  BY <1>1, RequestFields DEF Hand
<1> HIDE DEF h
<1>3. hand' = [hand EXCEPT ![s] = h]
  BY DEF OpPut, h
<1> QED
  BY <1>2, <1>3 DEF TypeInv, TypeOK, EntryFilled, RetrievedHasEntry, OpPut, clientVars, envVars

\* OpGet without a match keeps the type invariant.
LEMMA OpGetMissType ==
  ASSUME TypeInv, NEW s \in Spaces, NEW c \in Clients, OpGetMiss(s, c)
  PROVE  TypeInv'
<1> DEFINE r == [op |-> call[c].op, expr |-> call[c].expr, client |-> c]
<1>1. call[c] \in Request /\ call[c].op \in {"GET", "READ"}
  BY DEF TypeInv, TypeOK, OpGetMiss, Serves
<1>2. r \in Queued
  BY <1>1, RequestFields DEF Queued
<1> HIDE DEF r
<1>3. queue' = [queue EXCEPT ![s] = Append(@, r)] \/ queue' = queue
  BY DEF OpGetMiss, StoreRequest, r
<1>4. queue' \in [Spaces -> Seq(Queued)]
  <2>1. queue \in [Spaces -> Seq(Queued)]
    BY DEF TypeInv, TypeOK
  <2>2. Append(queue[s], r) \in Seq(Queued)
    BY <1>2, <2>1
  <2> QED
    BY <1>3, <2>1, <2>2
<1>5. waiting' \in [Clients -> Spaces \cup {Nil}]
  BY DEF TypeInv, TypeOK, OpGetMiss
<1> QED
  BY <1>4, <1>5 DEF TypeInv, TypeOK, EntryFilled, RetrievedHasEntry, OpGetMiss, Answered, envVars

\* The backup of a tuple in the entry of client c leaves a well-formed backup list.
LEMMA BackupEntries ==
  ASSUME TypeInv, NEW s \in Spaces, NEW c \in Clients, NEW t,
         t.name \in Names, t.data \in Data, t.pri \in Priorities
  PROVE  LET back == [retrieve[s] EXCEPT ![c] = Backup(retrieve[s][c], t)]
         IN  /\ back \in [Clients -> Entry \cup {Nil}]
             /\ \A d \in Clients : retrieve[s][d] # Nil => back[d] # Nil
             /\ \A d \in Clients : back[d] # Nil /\ ~back[d].fault =>
                  back[d].name \in Names /\ back[d].data \in Data /\ back[d].pri \in Priorities
<1> DEFINE e == Backup(retrieve[s][c], t)
<1>1. retrieve[s] \in [Clients -> Entry \cup {Nil}]
  BY DEF TypeInv, TypeOK
<1>2. e \in Entry
  BY <1>1, BackupType
<1>3. e.name \in Names /\ e.data \in Data /\ e.pri \in Priorities
  BY DEF Backup
<1>4. \A d \in Clients : retrieve[s][d] # Nil /\ ~retrieve[s][d].fault =>
         /\ retrieve[s][d].name \in Names
         /\ retrieve[s][d].data \in Data
         /\ retrieve[s][d].pri \in Priorities
  BY DEF TypeInv, EntryFilled
<1> DEFINE back == [retrieve[s] EXCEPT ![c] = e]
<1> HIDE DEF e
<1>5. back \in [Clients -> Entry \cup {Nil}]
  BY <1>1, <1>2
<1>6. \A d \in Clients : back[d] = IF d = c THEN e ELSE retrieve[s][d]
  BY <1>1
<1> HIDE DEF back
<1>7. \A d \in Clients : retrieve[s][d] # Nil => back[d] # Nil
  BY <1>2, <1>6, NilAssumption
<1>8. \A d \in Clients : back[d] # Nil /\ ~back[d].fault =>
         back[d].name \in Names /\ back[d].data \in Data /\ back[d].pri \in Priorities
  BY <1>3, <1>4, <1>6
<1> QED
  BY <1>5, <1>7, <1>8 DEF back, e

\* OpGet with a match keeps the type invariant.
LEMMA OpGetHitType ==
  ASSUME TypeInv, NEW s \in Spaces, NEW c \in Clients, OpGetHit(s, c)
  PROVE  TypeInv'
<1> DEFINE i == FindTuple(space[s], call[c].expr)
           t == space[s][i]
<1>1. space[s] \in Seq(Node) /\ hand[s] = Nil
  BY DEF TypeInv, TypeOK, OpGetHit, Hit, Serves, Ready
<1>2. i \in DOMAIN space[s]
  BY <1>1, FindTupleFound DEF OpGetHit, Hit
<1>3. t \in Node
  BY <1>1, <1>2
<1>4. t.name \in Names /\ t.data \in Data /\ t.pri \in Priorities
  BY <1>3 DEF Node
<1>5. Unlink(space[s], i) \in Seq(Node)
  BY <1>1, <1>2, UnlinkProperties
<1>6. /\ got' = [got EXCEPT ![c] = [name |-> t.name, data |-> t.data]]
      /\ call' = [call EXCEPT ![c] = Nil]
      /\ UNCHANGED <<hand, info, waiting, alive, suspected, used, accepted>>
  BY DEF OpGetHit, Answered, envVars
<1>7. \/ UNCHANGED <<daemon, space, queue, retrieve, taken>>
      \/ /\ taken' = [taken EXCEPT ![s] = @ \cup {<<t.data, c>>}]
         /\ Ends(s, "crashed")
      \/ /\ taken' = [taken EXCEPT ![s] = @ \cup {<<t.data, c>>}]
         /\ space' = [space EXCEPT ![s] = Unlink(@, i)]
         /\ retrieve' = [retrieve EXCEPT ![s][c] = Backup(@, t)]
         /\ UNCHANGED <<daemon, queue>>
  BY DEF OpGetHit
<1> HIDE DEF i, t
<1>8. /\ got' \in [Clients -> [name: Names, data: Data] \cup [tids: Nat] \cup {Nil}]
      /\ call' \in [Clients -> Request \cup {Nil}]
      /\ taken' \in [Spaces -> SUBSET (Data \X Clients)]
  <2>1. [name |-> t.name, data |-> t.data] \in [name: Names, data: Data]
    BY <1>4
  <2>2. got' \in [Clients -> [name: Names, data: Data] \cup [tids: Nat] \cup {Nil}]
    BY <1>6, <2>1 DEF TypeInv, TypeOK
  <2>3. call' \in [Clients -> Request \cup {Nil}]
    BY <1>6 DEF TypeInv, TypeOK
  <2>4. taken[s] \cup {<<t.data, c>>} \in SUBSET (Data \X Clients)
    BY <1>4 DEF TypeInv, TypeOK
  <2>5. taken' \in [Spaces -> SUBSET (Data \X Clients)]
    BY <1>7, <2>4 DEF TypeInv, TypeOK
  <2> QED
    BY <2>2, <2>3, <2>5
<1>9. CASE UNCHANGED <<daemon, space, queue, retrieve, taken>>
  BY <1>6, <1>8, <1>9 DEF TypeInv, TypeOK, EntryFilled, RetrievedHasEntry
<1>10. CASE Ends(s, "crashed")
  BY <1>1, <1>6, <1>8, <1>10, EndsType DEF TypeInv, TypeOK
<1>11. CASE /\ space' = [space EXCEPT ![s] = Unlink(@, i)]
            /\ retrieve' = [retrieve EXCEPT ![s][c] = Backup(@, t)]
            /\ UNCHANGED <<daemon, queue>>
  <2>1. space' \in [Spaces -> Seq(Node)]
    BY <1>5, <1>11 DEF TypeInv, TypeOK
  <2> DEFINE back == [retrieve[s] EXCEPT ![c] = Backup(retrieve[s][c], t)]
  <2>2. retrieve' = [retrieve EXCEPT ![s] = back]
    BY <1>11
  <2>3. /\ back \in [Clients -> Entry \cup {Nil}]
        /\ \A d \in Clients : back[d] # Nil /\ ~back[d].fault =>
             back[d].name \in Names /\ back[d].data \in Data /\ back[d].pri \in Priorities
    BY <1>4, BackupEntries
  <2> HIDE DEF back
  <2>4. /\ retrieve' \in [Spaces -> [Clients -> Entry \cup {Nil}]]
        /\ EntryFilled'
    BY <2>2, <2>3 DEF TypeInv, TypeOK, EntryFilled
  <2>5. RetrievedHasEntry'
    BY <1>1, <1>6, <2>2 DEF TypeInv, TypeOK, RetrievedHasEntry
  <2> QED
    BY <1>6, <1>8, <1>11, <2>1, <2>4, <2>5 DEF TypeInv, TypeOK
<1> QED
  BY <1>7, <1>9, <1>10, <1>11

\* OpGet whose writes fail keeps the type invariant.
LEMMA OpGetLostType ==
  ASSUME TypeInv, NEW s \in Spaces, NEW c \in Clients, OpGetLost(s, c)
  PROVE  TypeInv'
<1>1. /\ hand[s] = Nil
      /\ call' = [call EXCEPT ![c] = Nil]
      /\ UNCHANGED <<hand, info, waiting, got, alive, suspected, used, accepted, taken>>
  BY DEF OpGetLost, Hit, Serves, Ready, Answered, envVars
<1>2. CASE UNCHANGED <<daemon, space, queue, retrieve>>
  BY <1>1, <1>2 DEF TypeInv, TypeOK, EntryFilled, RetrievedHasEntry
<1>3. CASE Ends(s, "killed")
  BY <1>1, <1>3, EndsType DEF TypeInv, TypeOK
<1> QED
  BY <1>2, <1>3 DEF OpGetLost

\* OpRetrieve keeps the type invariant: the entry it reads is not marked faulty, so it is
\* one that was filled from a tuple.
LEMMA OpRetrieveType ==
  ASSUME TypeInv, NEW s \in Spaces, NEW c \in Clients, OpRetrieve(s, c)
  PROVE  TypeInv'
<1>1. /\ hand[s] = Nil
      /\ ~Guardf(s, c)
      /\ UNCHANGED <<daemon, space, queue, info, call, waiting, got, alive, suspected, used,
                     accepted, taken>>
  BY DEF OpRetrieve, Ready, clientVars, envVars
<1>2. CASE retrieve[s][c] # Nil
  <2> DEFINE h == [name |-> retrieve[s][c].name, data |-> retrieve[s][c].data,
                   pri |-> retrieve[s][c].pri, client |-> c, op |-> "RETRIEVE"]
  <2>1. h \in Hand /\ h.client = c
    BY <1>1, <1>2 DEF TypeInv, EntryFilled, Guardf, Hand
  <2>2. hand' = [hand EXCEPT ![s] = h] /\ UNCHANGED retrieve
    BY <1>2 DEF OpRetrieve
  <2> HIDE DEF h
  <2> QED
    BY <1>1, <1>2, <2>1, <2>2 DEF TypeInv, TypeOK, EntryFilled, RetrievedHasEntry
<1>3. CASE retrieve[s][c] = Nil
  <2> DEFINE e == [name |-> Nil, data |-> Nil, pri |-> Nil, fault |-> TRUE]
  <2>1. e \in Entry /\ e.fault
    BY DEF Entry
  <2>2. retrieve' = [retrieve EXCEPT ![s][c] = e] /\ UNCHANGED hand
    BY <1>3 DEF OpRetrieve
  <2> HIDE DEF e
  <2> QED
    BY <1>1, <1>3, <2>1, <2>2 DEF TypeInv, TypeOK, EntryFilled, RetrievedHasEntry
<1> QED
  BY <1>2, <1>3

\* OpTshSot keeps the type invariant.
LEMMA OpTshSotType ==
  ASSUME TypeInv, NEW s \in Spaces, NEW c \in Clients, OpTshSot(s, c)
  PROVE  TypeInv'
<1> DEFINE i == [eot |-> FALSE, tids |-> 0, fetched |-> 0, tidq |-> <<>>]
<1>1. i \in [eot: BOOLEAN, tids: Nat, fetched: Nat, tidq: Seq(Clients)]
  OBVIOUS
<1>2. info' = [info EXCEPT ![s] = i]
  BY DEF OpTshSot
<1> HIDE DEF i
<1> QED
  BY <1>1, <1>2 DEF TypeInv, TypeOK, EntryFilled, RetrievedHasEntry, OpTshSot, Answered, envVars

\* OpTshEot, with the answers it sends, keeps the type invariant.
LEMMA OpTshEotType ==
  ASSUME TypeInv, NEW s \in Spaces, NEW c \in Clients, OpTshEot(s, c)
  PROVE  TypeInv'
<1>1. call[c].tids \in Nat /\ hand[s] = Nil
  BY RequestFields DEF TypeInv, TypeOK, OpTshEot, Serves, Ready
<1>2. /\ info' = [info EXCEPT ![s].tids = call[c].tids, ![s].eot = TRUE]
      /\ call' = [call EXCEPT ![c] = Nil]
      /\ UNCHANGED <<hand, alive, suspected, used, accepted, taken>>
  BY DEF OpTshEot, Answered, envVars
<1>3. /\ info' \in [Spaces -> [eot: BOOLEAN, tids: Nat, fetched: Nat, tidq: Seq(Clients)]]
      /\ call' \in [Clients -> Request \cup {Nil}]
  BY <1>1, <1>2 DEF TypeInv, TypeOK
<1>4. CASE SendTidInfo(s, call[c].tids)
  <2>1. /\ waiting' \in [Clients -> Spaces \cup {Nil}]
        /\ got' \in [Clients -> [name: Names, data: Data] \cup [tids: Nat] \cup {Nil}]
    BY <1>1, <1>4 DEF TypeInv, TypeOK, SendTidInfo
  <2>2. CASE UNCHANGED <<daemon, space, queue, retrieve>>
    BY <1>2, <1>3, <2>1, <2>2 DEF TypeInv, TypeOK, EntryFilled, RetrievedHasEntry
  <2>3. CASE Ends(s, "exited")
    BY <1>1, <1>2, <1>3, <2>1, <2>3, EndsType DEF TypeInv, TypeOK
  <2> QED
    BY <1>4, <2>2, <2>3 DEF SendTidInfo
<1>5. CASE UNCHANGED <<waiting, got, daemon, space, queue, retrieve>>
  BY <1>2, <1>3, <1>5 DEF TypeInv, TypeOK, EntryFilled, RetrievedHasEntry
<1> QED
  BY <1>4, <1>5 DEF OpTshEot

\* OpGethostInfo keeps the type invariant.
LEMMA OpGethostInfoType ==
  ASSUME TypeInv, NEW s \in Spaces, NEW c \in Clients, OpGethostInfo(s, c)
  PROVE  TypeInv'
<1>1. info[s] \in [eot: BOOLEAN, tids: Nat, fetched: Nat, tidq: Seq(Clients)]
  BY DEF TypeInv, TypeOK
<1> DEFINE i == [info[s] EXCEPT !.tidq = <<c>> \o @]
           ids == [tids |-> info[s].tids]
<1>2. info[s].tids \in Nat /\ info[s].tidq \in Seq(Clients)
  BY <1>1
<1>3. ids \in [tids: Nat]
  BY <1>2
<1>4. <<c>> \o info[s].tidq \in Seq(Clients)
  BY <1>2
<1>5. i \in [eot: BOOLEAN, tids: Nat, fetched: Nat, tidq: Seq(Clients)]
  BY <1>1, <1>4
<1>6. \/ info' = [info EXCEPT ![s] = i] /\ waiting' = [waiting EXCEPT ![c] = s] /\ got' = got
      \/ info' = info /\ waiting' = waiting /\ got' = [got EXCEPT ![c] = ids]
  BY DEF OpGethostInfo
<1> HIDE DEF i, ids
<1>7. info' \in [Spaces -> [eot: BOOLEAN, tids: Nat, fetched: Nat, tidq: Seq(Clients)]]
  BY <1>5, <1>6 DEF TypeInv, TypeOK
<1>8. waiting' \in [Clients -> Spaces \cup {Nil}]
  BY <1>6 DEF TypeInv, TypeOK
<1> DEFINE Returned == [name: Names, data: Data] \cup [tids: Nat] \cup {Nil}
<1>9. ids \in Returned /\ got \in [Clients -> Returned]
  BY <1>3 DEF TypeInv, TypeOK
<1> HIDE DEF Returned
<1>10. got' \in [Clients -> Returned]
  BY <1>6, <1>9
<1> USE DEF Returned
<1> QED
  BY <1>7, <1>8, <1>10 DEF TypeInv, TypeOK, EntryFilled, RetrievedHasEntry, OpGethostInfo, Answered,
                    envVars

\* The end of OpPut and of OpRetrieve keeps the typing of what it changes: the entry that
\* OpRetrieve marks faulty exists.
LEMMA FinishType ==
  ASSUME TypeInv, NEW s \in Spaces, hand[s] # Nil,
         NEW back \in [Clients -> Entry \cup {Nil}],
         \A d \in Clients : retrieve[s][d] # Nil => back[d] # Nil,
         \A d \in Clients : back[d] # Nil /\ ~back[d].fault =>
           back[d].name \in Names /\ back[d].data \in Data /\ back[d].pri \in Priorities,
         Finish(s, back)
  PROVE  /\ hand' \in [Spaces -> Hand \cup {Nil}]
         /\ call' \in [Clients -> Request \cup {Nil}]
         /\ retrieve' \in [Spaces -> [Clients -> Entry \cup {Nil}]]
         /\ EntryFilled'
         /\ RetrievedHasEntry'
<1> DEFINE h == hand[s]
           fenced == [back EXCEPT ![h.client].fault = TRUE, ![h.client].data = Nil]
<1>1. h \in Hand /\ h.client \in Clients
  BY DEF TypeInv, TypeOK, Hand
<1>2. hand' = [hand EXCEPT ![s] = Nil]
  BY DEF Finish
<1>3. hand' \in [Spaces -> Hand \cup {Nil}]
  BY <1>2 DEF TypeInv, TypeOK
<1>4. CASE h.op = "PUT"
  <2>1. call' = [call EXCEPT ![h.client] = Nil] /\ retrieve' = [retrieve EXCEPT ![s] = back]
    BY <1>4 DEF Finish, Answered
  <2>2. call' \in [Clients -> Request \cup {Nil}]
    BY <2>1 DEF TypeInv, TypeOK
  <2>3. retrieve' \in [Spaces -> [Clients -> Entry \cup {Nil}]]
    BY <2>1 DEF TypeInv, TypeOK
  <2>4. EntryFilled'
    BY <2>1 DEF TypeInv, TypeOK, EntryFilled
  <2>5. RetrievedHasEntry'
    BY <1>2, <2>1 DEF TypeInv, TypeOK, RetrievedHasEntry
  <2> QED
    BY <1>3, <2>2, <2>3, <2>4, <2>5
<1>5. CASE h.op # "PUT"
  <2>1. h.op = "RETRIEVE"
    BY <1>1, <1>5 DEF Hand
  <2>2. back[h.client] \in Entry
    BY <1>1, <2>1 DEF TypeInv, RetrievedHasEntry
  <2> DEFINE e == [back[h.client] EXCEPT !.fault = TRUE, !.data = Nil]
  <2>3. e \in Entry /\ e.fault
    BY <2>2 DEF Entry
  <2>4. fenced = [back EXCEPT ![h.client] = e]
    OBVIOUS
  <2>5. retrieve' = [retrieve EXCEPT ![s] = fenced] /\ UNCHANGED call
    BY <1>5 DEF Finish
  <2> HIDE DEF e, fenced
  <2>6. fenced \in [Clients -> Entry \cup {Nil}]
    BY <2>3, <2>4
  <2>7. \A d \in Clients : fenced[d] # Nil /\ ~fenced[d].fault =>
           /\ fenced[d].name \in Names
           /\ fenced[d].data \in Data
           /\ fenced[d].pri \in Priorities
    BY <2>3, <2>4
  <2>8. call' \in [Clients -> Request \cup {Nil}]
    BY <2>5 DEF TypeInv, TypeOK
  <2>9. retrieve' \in [Spaces -> [Clients -> Entry \cup {Nil}]]
    BY <2>5, <2>6 DEF TypeInv, TypeOK
  <2>10. EntryFilled'
    BY <2>5, <2>7 DEF TypeInv, TypeOK, EntryFilled
  <2>11. RetrievedHasEntry'
    BY <1>2, <2>5 DEF TypeInv, TypeOK, RetrievedHasEntry
  <2> QED
    BY <1>3, <2>8, <2>9, <2>10, <2>11
<1> QED
  BY <1>4, <1>5

\* storeTuple and what follows it keep the type invariant.
LEMMA StoreHandType ==
  ASSUME TypeInv, NEW s \in Spaces, StoreHand(s)
  PROVE  TypeInv'
<1>1. hand[s] \in Hand /\ hand[s] # Nil /\ space[s] \in Seq(Node)
  BY DEF TypeInv, TypeOK, StoreHand
<1>2. \A f : StoreTuple(space[s], hand[s], f) \in Seq(Node)
  BY <1>1, StoreTupleType
<1>3. space' \in [Spaces -> Seq(Node)]
  BY <1>2 DEF TypeInv, TypeOK, StoreHand
<1>4. /\ hand' \in [Spaces -> Hand \cup {Nil}]
      /\ call' \in [Clients -> Request \cup {Nil}]
      /\ retrieve' \in [Spaces -> [Clients -> Entry \cup {Nil}]]
      /\ EntryFilled'
      /\ RetrievedHasEntry'
  <2>1. retrieve[s] \in [Clients -> Entry \cup {Nil}]
    BY DEF TypeInv, TypeOK
  <2>2. \A d \in Clients : retrieve[s][d] # Nil /\ ~retrieve[s][d].fault =>
           /\ retrieve[s][d].name \in Names
           /\ retrieve[s][d].data \in Data
           /\ retrieve[s][d].pri \in Priorities
    BY DEF TypeInv, EntryFilled
  <2>3. Finish(s, retrieve[s])
    BY DEF StoreHand
  <2> QED
    BY <1>1, <2>1, <2>2, <2>3, FinishType
<1> QED
  BY <1>3, <1>4 DEF TypeInv, TypeOK, StoreHand, envVars

\* An iteration of consumeTuple keeps the type invariant.
LEMMA ConsumeTupleType ==
  ASSUME TypeInv, NEW s \in Spaces, ConsumeTuple(s)
  PROVE  TypeInv'
<1> DEFINE h == hand[s]
           i == FindRequest(queue[s], h.name)
           q == queue[s][i]
           back == [retrieve[s] EXCEPT ![q.client] = Backup(retrieve[s][q.client], h)]
           tup == [name |-> h.name, data |-> h.data]
           Returned == [name: Names, data: Data] \cup [tids: Nat] \cup {Nil}
<1>1. h \in Hand /\ h # Nil /\ queue[s] \in Seq(Queued)
  BY DEF TypeInv, TypeOK, ConsumeTuple
<1>2. h.name \in Names /\ h.data \in Data /\ h.pri \in Priorities
  BY <1>1 DEF Hand
<1>3. i \in DOMAIN queue[s]
  BY <1>1, FindRequestFound DEF ConsumeTuple
<1>4. q \in Queued /\ q.client \in Clients
  <2>1. q \in Queued
    BY <1>1, <1>3
  <2> QED
    BY <2>1 DEF Queued
<1>5. DeleteRequest(queue[s], i) \in Seq(Queued)
  BY <1>1, <1>3, RemoveAtProperties DEF DeleteRequest
<1>6. tup \in Returned /\ got \in [Clients -> Returned]
  BY <1>2 DEF TypeInv, TypeOK
<1>7. /\ back \in [Clients -> Entry \cup {Nil}]
      /\ \A d \in Clients : retrieve[s][d] # Nil => back[d] # Nil
      /\ \A d \in Clients : back[d] # Nil /\ ~back[d].fault =>
           back[d].name \in Names /\ back[d].data \in Data /\ back[d].pri \in Priorities
  BY <1>2, <1>4, BackupEntries
<1>8. /\ queue' = [queue EXCEPT ![s] = DeleteRequest(@, i)]
      /\ \/ UNCHANGED <<waiting, got>>
         \/ /\ waiting' = [waiting EXCEPT ![q.client] = Nil]
            /\ got' = [got EXCEPT ![q.client] = tup]
      /\ \/ UNCHANGED <<info, taken, hand, retrieve, call>>
         \/ /\ info' = [info EXCEPT ![s].fetched = @ + 1]
            /\ taken' = [taken EXCEPT ![s] = @ \cup {<<h.data, q.client>>}]
            /\ Finish(s, back)
      /\ UNCHANGED <<daemon, space, alive, suspected, used, accepted>>
  BY DEF ConsumeTuple, envVars
<1> HIDE DEF i, q, back, tup, Returned
<1>9. queue' \in [Spaces -> Seq(Queued)]
  BY <1>5, <1>8 DEF TypeInv, TypeOK
<1>10. waiting' \in [Clients -> Spaces \cup {Nil}] /\ got' \in [Clients -> Returned]
  <2>1. waiting \in [Clients -> Spaces \cup {Nil}]
    BY DEF TypeInv, TypeOK
  <2>2. waiting' \in [Clients -> Spaces \cup {Nil}]
    BY <1>4, <1>8, <2>1
  <2>3. got' \in [Clients -> Returned]
    BY <1>4, <1>6, <1>8
  <2> QED
    BY <2>2, <2>3
<1>11. got' \in [Clients -> [name: Names, data: Data] \cup [tids: Nat] \cup {Nil}]
  BY <1>10 DEF Returned
<1>12. CASE UNCHANGED <<info, taken, hand, retrieve, call>>
  BY <1>8, <1>9, <1>10, <1>11, <1>12 DEF TypeInv, TypeOK, EntryFilled, RetrievedHasEntry
<1>13. CASE /\ info' = [info EXCEPT ![s].fetched = @ + 1]
            /\ taken' = [taken EXCEPT ![s] = @ \cup {<<h.data, q.client>>}]
            /\ Finish(s, back)
  <2>1. info' \in [Spaces -> [eot: BOOLEAN, tids: Nat, fetched: Nat, tidq: Seq(Clients)]]
    <3> DEFINE Info == [eot: BOOLEAN, tids: Nat, fetched: Nat, tidq: Seq(Clients)]
               n == [info[s] EXCEPT !.fetched = @ + 1]
    <3>1. info \in [Spaces -> Info]
      BY DEF TypeInv, TypeOK
    <3>2. n \in Info
      BY <3>1
    <3>3. info' = [info EXCEPT ![s] = n]
      BY <1>13
    <3> HIDE DEF n, Info
    <3>4. info' \in [Spaces -> Info]
      BY <3>1, <3>2, <3>3
    <3> QED
      BY <3>4 DEF Info
  <2>2. taken[s] \cup {<<h.data, q.client>>} \in SUBSET (Data \X Clients)
    BY <1>2, <1>4 DEF TypeInv, TypeOK
  <2>3. taken' \in [Spaces -> SUBSET (Data \X Clients)]
    BY <1>13, <2>2 DEF TypeInv, TypeOK
  <2>4. /\ hand' \in [Spaces -> Hand \cup {Nil}]
        /\ call' \in [Clients -> Request \cup {Nil}]
        /\ retrieve' \in [Spaces -> [Clients -> Entry \cup {Nil}]]
        /\ EntryFilled'
        /\ RetrievedHasEntry'
    BY <1>1, <1>7, <1>13, FinishType
  <2> QED
    BY <1>8, <1>9, <1>10, <1>11, <2>1, <2>3, <2>4 DEF TypeInv, TypeOK
<1> QED
  BY <1>8, <1>12, <1>13

\* Every operation served for a client keeps the type invariant.
LEMMA ServeType ==
  ASSUME TypeInv, NEW s \in Spaces, NEW c \in Clients, Serve(s, c)
  PROVE  TypeInv'
BY OpGuardedType, OpPutType, OpGetMissType, OpGetHitType, OpGetLostType, OpRetrieveType,
   OpTshSotType, OpTshEotType, OpGethostInfoType DEF Serve

\* Every step keeps the type invariant.
LEMMA StepType == TypeInv /\ [Next]_vars => TypeInv'
<1> SUFFICES ASSUME TypeInv, [Next]_vars PROVE TypeInv'
  OBVIOUS
<1>1. ASSUME NEW c \in Clients, Client(c) PROVE TypeInv'
  BY <1>1, CallType, ClientType DEF Client
<1>2. ASSUME NEW s \in Spaces, NEW c \in Clients, Serve(s, c) PROVE TypeInv'
  BY <1>2, ServeType
<1>3. ASSUME NEW s \in Spaces, ConsumeTuple(s) \/ StoreHand(s) \/ OpExit(s) PROVE TypeInv'
  BY <1>3, ConsumeTupleType, StoreHandType, OpExitType
<1>4. CASE UNCHANGED vars
  BY <1>4 DEF TypeInv, TypeOK, EntryFilled, RetrievedHasEntry, vars, tshVars, clientVars, envVars
<1> QED
  BY <1>1, <1>2, <1>3, <1>4 DEF Next

\* The inductive type invariant holds of every behaviour.
THEOREM TypeInvariant == Spec => []TypeInv
BY InitType, StepType, PTL DEF Spec

\* Every variable of the handlers has its type in every reachable state: among others,
\* OpRetrieve always finds a whole tuple in the entry it reads and an entry to mark.
THEOREM TypeCorrect == Spec => []TypeOK
<1>1. TypeInv => TypeOK
  BY DEF TypeInv
<1> QED
  BY <1>1, TypeInvariant, PTL

-----------------------------------------------------------------------------
\* What storeTuple returns: the list with one tuple overwritten, or with a new last node
\* that points back to the old last, or with a new head that points nowhere.
LEMMA StoreTupleShape ==
  ASSUME NEW sp \in Seq(Node), NEW t \in Hand, NEW f
  PROVE  LET new == StoreTuple(sp, t, f)
             isNew == \A i \in DOMAIN sp : sp[i].name # t.name
         IN  \/ /\ Len(new) = Len(sp)
                /\ \A i \in 1 .. Len(sp) : new[i].name = sp[i].name /\ new[i].prev = sp[i].prev
             \/ /\ isNew
                /\ Len(new) = Len(sp) + 1
                /\ \A i \in 1 .. Len(sp) : new[i] = sp[i]
                /\ new[Len(sp) + 1].name = t.name
                /\ new[Len(sp) + 1].prev # Nil =>
                      Len(sp) > 0 /\ new[Len(sp) + 1].prev = sp[Len(sp)].name
             \/ /\ isNew
                /\ Len(new) = Len(sp) + 1
                /\ new[1].name = t.name /\ new[1].prev = Nil
                /\ \A i \in 1 .. Len(sp) : new[i + 1] = sp[i]
<1> DEFINE new == StoreTuple(sp, t, f)
<1>1. CASE \E i \in DOMAIN sp : sp[i].name = t.name
  <2> DEFINE node(i) == IF sp[i].name = t.name
                        THEN [sp[i] EXCEPT !.data = t.data, !.pri = t.pri]
                        ELSE sp[i]
  <2>1. \A i \in DOMAIN sp : node(i).name = sp[i].name /\ node(i).prev = sp[i].prev
    <3> TAKE i \in DOMAIN sp
    <3>1. sp[i] \in Node
      OBVIOUS
    <3> QED
      BY <3>1 DEF Node
  <2>2. new = [i \in DOMAIN sp |-> node(i)]
    BY <1>1 DEF StoreTuple
  <2> HIDE DEF node
  <2>3. Len(sp) \in Nat /\ DOMAIN sp = 1 .. Len(sp)
    OBVIOUS
  <2>4. new \in Seq(Node)
    BY StoreTupleType
  <2> HIDE DEF new
  <2>5. Len(new) = Len(sp)
    BY <2>2, <2>3, <2>4
  <2>6. \A i \in 1 .. Len(sp) : new[i].name = sp[i].name /\ new[i].prev = sp[i].prev
    BY <2>1, <2>2, <2>3
  <2> QED
    BY <2>5, <2>6 DEF new
<1>2. CASE ~\E i \in DOMAIN sp : sp[i].name = t.name
  <2> DEFINE node(p) == [name |-> t.name, data |-> t.data, pri |-> t.pri, prev |-> p]
             last == IF sp = <<>> THEN Nil ELSE Last(sp).name
  <2>1. new \in Seq(Node)
    BY StoreTupleType
  <2>2. new = IF f = 0 THEN Append(sp, node(last)) ELSE <<node(Nil)>> \o sp
    BY <1>2 DEF StoreTuple
  <2>3. /\ node(last).name = t.name /\ node(last).prev = last
        /\ node(Nil).name = t.name /\ node(Nil).prev = Nil
    OBVIOUS
  <2>4. last # Nil => Len(sp) > 0 /\ last = sp[Len(sp)].name
    BY DEF Last
  <2>5. \A i \in DOMAIN sp : sp[i].name # t.name
    BY <1>2
  <2> HIDE DEF node, new, last
  <2>6. CASE f = 0
    <3>1. new = Append(sp, node(last))
      BY <2>2, <2>6
    <3>2. Len(new) = Len(sp) + 1 /\ new[Len(sp) + 1] = node(last)
      BY <3>1
    <3>3. \A i \in 1 .. Len(sp) : new[i] = sp[i]
      BY <3>1
    <3> QED
      BY <2>3, <2>4, <2>5, <3>2, <3>3 DEF new
  <2>7. CASE f # 0
    <3>1. new = <<node(Nil)>> \o sp
      BY <2>2, <2>7
    <3>2. Len(new) = Len(sp) + 1 /\ new[1] = node(Nil)
      BY <3>1
    <3>3. \A i \in 1 .. Len(sp) : new[i + 1] = sp[i]
      BY <3>1
    <3> QED
      BY <2>3, <2>5, <3>2, <3>3 DEF new
  <2> QED
    BY <2>6, <2>7
<1> QED
  BY <1>1, <1>2

\* A list whose back pointers and names are sound, as ListWellFormed says of each handler.
WellFormed(sp) ==
  \A i \in DOMAIN sp :
    /\ sp[i].prev # Nil => i > 1 /\ sp[i].prev = sp[i - 1].name
    /\ \A j \in DOMAIN sp : sp[i].name = sp[j].name => i = j

\* storeTuple keeps a list well formed.
LEMMA StoreTupleWellFormed ==
  ASSUME NEW sp \in Seq(Node), WellFormed(sp), NEW t \in Hand, NEW f
  PROVE  WellFormed(StoreTuple(sp, t, f))
<1> DEFINE new == StoreTuple(sp, t, f)
<1>1. new \in Seq(Node) /\ Len(sp) \in Nat /\ Len(new) \in Nat
  BY StoreTupleType
<1>2. DOMAIN new = 1 .. Len(new) /\ DOMAIN sp = 1 .. Len(sp)
  BY <1>1
<1> HIDE DEF new
<1>3. CASE /\ Len(new) = Len(sp)
           /\ \A i \in 1 .. Len(sp) : new[i].name = sp[i].name /\ new[i].prev = sp[i].prev
  BY <1>1, <1>2, <1>3 DEF WellFormed, new
<1>4. CASE /\ \A i \in DOMAIN sp : sp[i].name # t.name
           /\ Len(new) = Len(sp) + 1
           /\ \A i \in 1 .. Len(sp) : new[i] = sp[i]
           /\ new[Len(sp) + 1].name = t.name
           /\ new[Len(sp) + 1].prev # Nil =>
                 Len(sp) > 0 /\ new[Len(sp) + 1].prev = sp[Len(sp)].name
  <2> SUFFICES ASSUME NEW i \in DOMAIN new
               PROVE  /\ new[i].prev # Nil => i > 1 /\ new[i].prev = new[i - 1].name
                      /\ \A j \in DOMAIN new : new[i].name = new[j].name => i = j
    BY DEF WellFormed, new
  <2>1. CASE i \in 1 .. Len(sp)
    BY <1>1, <1>2, <1>4, <2>1 DEF WellFormed
  <2>2. CASE i = Len(sp) + 1
    BY <1>1, <1>2, <1>4, <2>2
  <2> QED
    BY <1>1, <1>2, <1>4, <2>1, <2>2
<1>5. CASE /\ \A i \in DOMAIN sp : sp[i].name # t.name
           /\ Len(new) = Len(sp) + 1
           /\ new[1].name = t.name /\ new[1].prev = Nil
           /\ \A i \in 1 .. Len(sp) : new[i + 1] = sp[i]
  <2> SUFFICES ASSUME NEW i \in DOMAIN new
               PROVE  /\ new[i].prev # Nil => i > 1 /\ new[i].prev = new[i - 1].name
                      /\ \A j \in DOMAIN new : new[i].name = new[j].name => i = j
    BY DEF WellFormed, new
  <2>1. \A j \in DOMAIN new : j = 1 \/ (j - 1 \in 1 .. Len(sp) /\ new[j] = sp[j - 1])
    BY <1>1, <1>2, <1>5
  <2>2. CASE i = 1
    BY <1>2, <1>5, <2>1, <2>2
  <2>3. CASE i # 1
    <3>1. i - 1 \in DOMAIN sp /\ new[i] = sp[i - 1]
      BY <1>2, <2>1, <2>3
    <3>2. new[i].prev # Nil => i > 1 /\ new[i].prev = new[i - 1].name
      <4> SUFFICES ASSUME new[i].prev # Nil PROVE new[i].prev = new[i - 1].name /\ i > 1
        OBVIOUS
      <4>1. i - 1 > 1 /\ sp[i - 1].prev = sp[(i - 1) - 1].name
        BY <3>1 DEF WellFormed
      <4>2. i - 1 \in DOMAIN new /\ i - 1 # 1 /\ i > 1
        BY <1>1, <1>2, <1>5, <3>1, <4>1
      <4> QED
        BY <2>1, <3>1, <4>1, <4>2
    <3>3. ASSUME NEW j \in DOMAIN new, new[i].name = new[j].name PROVE i = j
      <4>1. j # 1
        BY <1>5, <3>1, <3>3
      <4>2. j - 1 \in DOMAIN sp /\ new[j] = sp[j - 1]
        BY <1>2, <2>1, <4>1
      <4> QED
        BY <1>1, <1>2, <3>1, <3>3, <4>2 DEF WellFormed
    <3> QED
      BY <3>2, <3>3
  <2> QED
    BY <2>2, <2>3
<1> QED
  BY <1>3, <1>4, <1>5, StoreTupleShape DEF new

\* deleteTuple keeps a list well formed.
LEMMA UnlinkWellFormed ==
  ASSUME NEW sp \in Seq(Node), WellFormed(sp), NEW d \in DOMAIN sp
  PROVE  WellFormed(Unlink(sp, d))
<1> DEFINE new == Unlink(sp, d)
<1>1. /\ new \in Seq(Node)
      /\ Len(new) = Len(sp) - 1
      /\ \A j \in 1 .. Len(sp) - 1 :
           /\ new[j].name = (IF j < d THEN sp[j].name ELSE sp[j + 1].name)
           /\ new[j].prev = (IF j < d THEN sp[j].prev
                             ELSE IF j = d THEN sp[d].prev ELSE sp[j + 1].prev)
  BY UnlinkProperties
<1>2. Len(sp) \in Nat /\ DOMAIN sp = 1 .. Len(sp) /\ DOMAIN new = 1 .. Len(sp) - 1
  BY <1>1
<1> HIDE DEF new
<1> SUFFICES ASSUME NEW i \in DOMAIN new
             PROVE  /\ new[i].prev # Nil => i > 1 /\ new[i].prev = new[i - 1].name
                    /\ \A j \in DOMAIN new : new[i].name = new[j].name => i = j
  BY DEF WellFormed, new
<1> DEFINE old(j) == IF j < d THEN j ELSE j + 1
<1>3. \A j \in DOMAIN new : old(j) \in DOMAIN sp /\ new[j].name = sp[old(j)].name
  BY <1>1, <1>2
<1>4. ASSUME NEW j \in DOMAIN new, new[i].name = new[j].name PROVE i = j
  <2>1. old(i) = old(j)
    BY <1>3, <1>4 DEF WellFormed
  <2> QED
    BY <1>2, <2>1
<1>5. ASSUME new[i].prev # Nil PROVE i > 1 /\ new[i].prev = new[i - 1].name
  <2>1. CASE i <= d
    <3>1. new[i].prev = sp[i].prev /\ i \in DOMAIN sp
      BY <1>1, <1>2, <2>1
    <3>2. i > 1 /\ sp[i].prev = sp[i - 1].name
      BY <1>5, <3>1 DEF WellFormed
    <3>3. i - 1 \in DOMAIN new /\ i - 1 < d
      BY <1>2, <2>1, <3>2
    <3>4. new[i - 1].name = sp[i - 1].name
      BY <1>1, <1>2, <3>3
    <3> QED
      BY <3>1, <3>2, <3>4
  <2>2. CASE i > d
    <3>1. new[i].prev = sp[i + 1].prev /\ i + 1 \in DOMAIN sp
      BY <1>1, <1>2, <2>2
    <3>2. sp[i + 1].prev = sp[(i + 1) - 1].name
      BY <1>5, <3>1 DEF WellFormed
    <3>3. i - 1 \in DOMAIN new /\ ~(i - 1 < d)
      BY <1>2, <2>2
    <3>4. new[i - 1].name = sp[(i - 1) + 1].name
      BY <1>1, <1>2, <3>3
    <3>5. (i - 1) + 1 = (i + 1) - 1 /\ i > 1
      BY <1>2, <2>2
    <3> QED
      BY <3>1, <3>2, <3>4, <3>5
  <2> QED
    BY <1>2, <2>1, <2>2
<1> QED
  BY <1>4, <1>5

-----------------------------------------------------------------------------
\* What a step does to the list and the queue of a running handler: nothing, a request that
\* matches no stored tuple is queued, a tuple is deleted, a request is deleted, or the tuple
\* in hand is stored when no queued request matches it.
LEMMA HandlerStep ==
  ASSUME TypeInv, Next, NEW s \in Spaces
  PROVE  \/ daemon'[s] # "up" /\ (space'[s] = space[s] \/ space'[s] = <<>>)
         \/ daemon'[s] = daemon[s] /\ space'[s] = space[s] /\ queue'[s] = queue[s]
         \/ /\ daemon'[s] = daemon[s] /\ space'[s] = space[s]
            /\ \E r \in Queued : /\ queue'[s] = Append(queue[s], r)
                                /\ \A j \in DOMAIN space[s] : space[s][j].name \notin r.expr
         \/ /\ daemon'[s] = daemon[s] /\ queue'[s] = queue[s]
            /\ \E d \in DOMAIN space[s] : space'[s] = Unlink(space[s], d)
         \/ /\ daemon'[s] = daemon[s] /\ space'[s] = space[s]
            /\ \E i \in DOMAIN queue[s] : queue'[s] = RemoveAt(queue[s], i)
         \/ /\ daemon'[s] = daemon[s] /\ queue'[s] = queue[s]
            /\ hand[s] \in Hand
            /\ \A i \in DOMAIN queue[s] : hand[s].name \notin queue[s][i].expr
            /\ \E f : space'[s] = StoreTuple(space[s], hand[s], f)
<1> DEFINE Stopped == daemon'[s] # "up" /\ (space'[s] = space[s] \/ space'[s] = <<>>)
           Same == daemon'[s] = daemon[s] /\ space'[s] = space[s] /\ queue'[s] = queue[s]
           Blocked == /\ daemon'[s] = daemon[s] /\ space'[s] = space[s]
                      /\ \E r \in Queued :
                           /\ queue'[s] = Append(queue[s], r)
                           /\ \A j \in DOMAIN space[s] : space[s][j].name \notin r.expr
           Taken == /\ daemon'[s] = daemon[s] /\ queue'[s] = queue[s]
                    /\ \E d \in DOMAIN space[s] : space'[s] = Unlink(space[s], d)
           Offered == /\ daemon'[s] = daemon[s] /\ space'[s] = space[s]
                      /\ \E i \in DOMAIN queue[s] : queue'[s] = RemoveAt(queue[s], i)
           Stored == /\ daemon'[s] = daemon[s] /\ queue'[s] = queue[s]
                     /\ hand[s] \in Hand
                     /\ \A i \in DOMAIN queue[s] : hand[s].name \notin queue[s][i].expr
                     /\ \E f : space'[s] = StoreTuple(space[s], hand[s], f)
           Goal == Stopped \/ Same \/ Blocked \/ Taken \/ Offered \/ Stored
<1> SUFFICES Goal
  OBVIOUS
<1>1. /\ daemon \in [Spaces -> {"up", "exited", "crashed", "killed"}]
      /\ space \in [Spaces -> Seq(Node)]
      /\ queue \in [Spaces -> Seq(Queued)]
      /\ hand \in [Spaces -> Hand \cup {Nil}]
      /\ call \in [Clients -> Request \cup {Nil}]
  BY DEF TypeInv, TypeOK
<1>2. ASSUME NEW z \in Spaces, NEW how \in {"exited", "crashed", "killed"}, Ends(z, how)
      PROVE  Stopped \/ Same
  BY <1>1, <1>2 DEF Ends
<1>3. ASSUME UNCHANGED <<daemon, space, queue>> PROVE Same
  BY <1>3
<1>4. ASSUME NEW c \in Clients, Client(c) PROVE Goal
  <2>1. UNCHANGED <<daemon, space, queue>>
    BY <1>4 DEF Client, Call, CallFails, Crash, Suspect, tshVars
  <2> QED
    BY <1>3, <2>1
<1>5. ASSUME NEW z \in Spaces, NEW c \in Clients, OpGetMiss(z, c) PROVE Same \/ Blocked
  <2> DEFINE r == [op |-> call[c].op, expr |-> call[c].expr, client |-> c]
  <2>1. call[c] \in Request /\ call[c].op \in {"GET", "READ"}
    BY <1>1, <1>5 DEF OpGetMiss, Serves
  <2>2. r \in Queued /\ r.expr = call[c].expr
    BY <2>1, RequestFields DEF Queued
  <2>3. FindTuple(space[z], call[c].expr) = 0 /\ daemon' = daemon /\ space' = space
    BY <1>5 DEF OpGetMiss
  <2>4. space[z] \in Seq(Node)
    BY <1>1
  <2>5. \A j \in DOMAIN space[z] : space[z][j].name \notin call[c].expr
    BY <2>3, <2>4, FindTupleFound
  <2>6. queue' = [queue EXCEPT ![z] = Append(@, r)] \/ queue' = queue
    BY <1>5 DEF OpGetMiss, StoreRequest
  <2> HIDE DEF r
  <2> QED
    BY <1>1, <2>2, <2>3, <2>5, <2>6
<1>6. ASSUME NEW z \in Spaces, NEW c \in Clients, OpGetHit(z, c) PROVE Stopped \/ Same \/ Taken
  <2> DEFINE i == FindTuple(space[z], call[c].expr)
  <2>1. space[z] \in Seq(Node) /\ i # 0
    BY <1>1, <1>6 DEF OpGetHit, Hit
  <2>2. i \in DOMAIN space[z]
    BY <2>1, FindTupleFound
  <2>3. \/ UNCHANGED <<daemon, space, queue>>
        \/ Ends(z, "crashed")
        \/ space' = [space EXCEPT ![z] = Unlink(@, i)] /\ UNCHANGED <<daemon, queue>>
    BY <1>6 DEF OpGetHit
  <2> HIDE DEF i
  <2> QED
    BY <1>1, <1>2, <1>3, <2>2, <2>3
<1>7. ASSUME NEW z \in Spaces, NEW c \in Clients, Serve(z, c) PROVE Goal
  <2>1. CASE OpGetMiss(z, c)
    BY <1>5, <2>1
  <2>2. CASE OpGetHit(z, c)
    BY <1>6, <2>2
  <2>3. CASE OpGetLost(z, c) \/ OpTshEot(z, c)
    <3>1. UNCHANGED <<daemon, space, queue>> \/ Ends(z, "killed") \/ Ends(z, "exited")
      BY <2>3 DEF OpGetLost, OpTshEot, SendTidInfo
    <3> QED
      BY <1>2, <1>3, <3>1
  <2>4. CASE OpGuarded(z, c) \/ OpPut(z, c) \/ OpRetrieve(z, c) \/ OpTshSot(z, c)
             \/ OpGethostInfo(z, c)
    <3>1. UNCHANGED <<daemon, space, queue>>
      BY <2>4 DEF OpGuarded, OpPut, OpRetrieve, OpTshSot, OpGethostInfo, tshVars
    <3> QED
      BY <1>3, <3>1
  <2> QED
    BY <1>7, <2>1, <2>2, <2>3, <2>4 DEF Serve
<1>8. ASSUME NEW z \in Spaces, ConsumeTuple(z) PROVE Same \/ Offered
  <2> DEFINE i == FindRequest(queue[z], hand[z].name)
  <2>1. queue[z] \in Seq(Queued) /\ i # 0
    BY <1>1, <1>8 DEF ConsumeTuple
  <2>2. i \in DOMAIN queue[z]
    BY <2>1, FindRequestFound
  <2>3. queue' = [queue EXCEPT ![z] = RemoveAt(@, i)] /\ daemon' = daemon /\ space' = space
    BY <1>8 DEF ConsumeTuple, DeleteRequest
  <2> HIDE DEF i
  <2> QED
    BY <1>1, <2>2, <2>3
<1>9. ASSUME NEW z \in Spaces, StoreHand(z) PROVE Same \/ Stored
  <2>1. hand[z] \in Hand /\ queue[z] \in Seq(Queued)
        /\ FindRequest(queue[z], hand[z].name) = 0
    BY <1>1, <1>9 DEF StoreHand
  <2>2. \A i \in DOMAIN queue[z] : hand[z].name \notin queue[z][i].expr
    BY <2>1, FindRequestFound
  <2>3. PICK f : space' = [space EXCEPT ![z] = StoreTuple(@, hand[z], f)]
    BY <1>9 DEF StoreHand
  <2>4. daemon' = daemon /\ queue' = queue
    BY <1>9 DEF StoreHand
  <2> QED
    BY <1>1, <2>1, <2>2, <2>3, <2>4
<1>10. ASSUME NEW z \in Spaces, OpExit(z) PROVE Goal
  <2>1. Ends(z, "exited")
    BY <1>10 DEF OpExit
  <2> QED
    BY <1>2, <2>1
<1> HIDE DEF Goal
<1> USE DEF Goal
<1> QED
  BY <1>4, <1>7, <1>8, <1>9, <1>10 DEF Next

\* Every list is well formed.
ListInv == \A s \in Spaces : WellFormed(space[s])

\* Every step keeps all lists well formed.
LEMMA ListStep == TypeInv /\ ListInv /\ [Next]_vars => ListInv'
<1> SUFFICES ASSUME TypeInv, ListInv, [Next]_vars, NEW s \in Spaces
             PROVE  WellFormed(space'[s])
  BY DEF ListInv
<1>1. space[s] \in Seq(Node) /\ WellFormed(space[s])
  BY DEF TypeInv, TypeOK, ListInv
<1>2. CASE Next
  <2>1. WellFormed(<<>>)
    BY DEF WellFormed
  <2>2. ASSUME NEW d \in DOMAIN space[s] PROVE WellFormed(Unlink(space[s], d))
    BY <1>1, UnlinkWellFormed
  <2>3. ASSUME hand[s] \in Hand, NEW f PROVE WellFormed(StoreTuple(space[s], hand[s], f))
    BY <1>1, <2>3, StoreTupleWellFormed
  <2> QED
    BY <1>1, <1>2, <2>1, <2>2, <2>3, HandlerStep
<1>3. CASE UNCHANGED vars
  BY <1>1, <1>3 DEF vars, tshVars
<1> QED
  BY <1>2, <1>3

\* In every reachable state a back pointer is NULL or names the predecessor, and a name
\* occurs once in a list (storeTuple, deleteTuple).
THEOREM ListsAreWellFormed == Spec => []ListWellFormed
<1>1. Init => ListInv
  BY DEF Init, ListInv, WellFormed
<1>2. ListInv => ListWellFormed
  BY DEF ListInv, WellFormed, ListWellFormed
<1> QED
  BY <1>1, <1>2, ListStep, TypeInvariant, PTL DEF Spec

\* The names in the list storeTuple returns are the old ones and that of the new tuple.
LEMMA StoreTupleNames ==
  ASSUME NEW sp \in Seq(Node), NEW t \in Hand, NEW f,
         NEW j \in DOMAIN StoreTuple(sp, t, f)
  PROVE  \/ StoreTuple(sp, t, f)[j].name = t.name
         \/ \E k \in DOMAIN sp : StoreTuple(sp, t, f)[j].name = sp[k].name
<1> DEFINE new == StoreTuple(sp, t, f)
<1>1. new \in Seq(Node) /\ Len(sp) \in Nat /\ DOMAIN sp = 1 .. Len(sp)
  BY StoreTupleType
<1> HIDE DEF new
<1>2. j \in 1 .. Len(new) /\ Len(new) \in Nat
  BY <1>1 DEF new
<1>3. ASSUME Len(new) = Len(sp) + 1, \A i \in 1 .. Len(sp) : new[i + 1] = sp[i], j # 1
      PROVE  \E k \in DOMAIN sp : new[j].name = sp[k].name
  <2>1. j - 1 \in 1 .. Len(sp) /\ (j - 1) + 1 = j
    BY <1>1, <1>2, <1>3
  <2> QED
    BY <1>1, <1>3, <2>1
<1> QED
  BY <1>1, <1>2, <1>3, StoreTupleShape DEF new

\* Every step keeps stored tuples and blocked requests apart.
LEMMA MatchStep == TypeInv /\ NoMissedMatch /\ [Next]_vars => NoMissedMatch'
<1> SUFFICES ASSUME TypeInv, NoMissedMatch, [Next]_vars, NEW s \in Spaces, daemon'[s] = "up",
                    NEW i \in DOMAIN queue'[s], NEW j \in DOMAIN space'[s]
             PROVE  space'[s][j].name \notin queue'[s][i].expr
  BY DEF NoMissedMatch
<1>1. space[s] \in Seq(Node) /\ queue[s] \in Seq(Queued)
  BY DEF TypeInv, TypeOK
<1>2. ASSUME daemon[s] = "up", NEW k \in DOMAIN queue[s], NEW m \in DOMAIN space[s]
      PROVE  space[s][m].name \notin queue[s][k].expr
  BY <1>2 DEF NoMissedMatch
<1>3. CASE UNCHANGED vars
  BY <1>2, <1>3 DEF vars, tshVars
<1>4. ASSUME daemon[s] = "up", space'[s] = space[s], NEW r \in Queued,
             queue'[s] = Append(queue[s], r),
             \A m \in DOMAIN space[s] : space[s][m].name \notin r.expr
      PROVE  space'[s][j].name \notin queue'[s][i].expr
  <2>1. i \in DOMAIN queue[s] \/ queue'[s][i] = r
    BY <1>1, <1>4
  <2>2. i \in DOMAIN queue[s] => queue'[s][i] = queue[s][i]
    BY <1>1, <1>4
  <2> QED
    BY <1>2, <1>4, <2>1, <2>2
<1>5. ASSUME daemon[s] = "up", queue'[s] = queue[s],
             NEW d \in DOMAIN space[s], space'[s] = Unlink(space[s], d)
      PROVE  space'[s][j].name \notin queue'[s][i].expr
  <2>1. j \in 1 .. Len(space[s]) - 1
    BY <1>1, <1>5, UnlinkProperties
  <2>2. j \in DOMAIN space[s] /\ j + 1 \in DOMAIN space[s]
    BY <1>1, <2>1
  <2>3. space'[s][j].name = space[s][j].name \/ space'[s][j].name = space[s][j + 1].name
    <3>1. Unlink(space[s], d)[j].name =
            IF j < d THEN space[s][j].name ELSE space[s][j + 1].name
      BY <1>1, <2>1, UnlinkProperties
    <3> QED
      BY <1>5, <3>1
  <2> QED
    BY <1>2, <1>5, <2>2, <2>3
<1>6. ASSUME daemon[s] = "up", space'[s] = space[s],
             NEW d \in DOMAIN queue[s], queue'[s] = RemoveAt(queue[s], d)
      PROVE  space'[s][j].name \notin queue'[s][i].expr
  <2>1. i \in 1 .. Len(queue[s]) - 1
    BY <1>1, <1>6, RemoveAtProperties
  <2>2. i \in DOMAIN queue[s] /\ i + 1 \in DOMAIN queue[s]
    BY <1>1, <2>1
  <2>3. queue'[s][i] = queue[s][i] \/ queue'[s][i] = queue[s][i + 1]
    BY <1>1, <1>6, <2>1, RemoveAtProperties
  <2> QED
    BY <1>2, <1>6, <2>2, <2>3
<1>7. ASSUME daemon[s] = "up", queue'[s] = queue[s], hand[s] \in Hand,
             \A k \in DOMAIN queue[s] : hand[s].name \notin queue[s][k].expr,
             NEW f, space'[s] = StoreTuple(space[s], hand[s], f)
      PROVE  space'[s][j].name \notin queue'[s][i].expr
  <2>1. \/ space'[s][j].name = hand[s].name
        \/ \E m \in DOMAIN space[s] : space'[s][j].name = space[s][m].name
    BY <1>1, <1>7, StoreTupleNames
  <2> QED
    BY <1>2, <1>7, <2>1
<1> QED
  BY <1>2, <1>3, <1>4, <1>5, <1>6, <1>7, HandlerStep

\* In every reachable state no running handler stores a tuple beside a blocked request that
\* matches it (OpPut, OpGet, OpRetrieve, consumeTuple).
THEOREM NoMatchIsMissed == Spec => []NoMissedMatch
<1>1. Init => NoMissedMatch
  BY DEF Init, NoMissedMatch
<1> QED
  BY <1>1, MatchStep, TypeInvariant, PTL DEF Spec

-----------------------------------------------------------------------------
\* FDD suspects no live client.
OnlyDeadSuspected == alive \cap suspected = {}

\* Only suspected clients are marked faulty, or have their tuple retrieved.
FencedSuspected ==
  /\ \A s \in Spaces, c \in Clients : Guardf(s, c) => c \in suspected
  /\ \A s \in Spaces :
       hand[s] # Nil /\ hand[s].op = "RETRIEVE" => hand[s].client \in suspected

\* The inductive invariant of fencing.
FenceInv == OnlyDeadSuspected /\ FencedSuspected /\ NoStrandedBackup

\* Backing up a tuple for a client that is not marked faulty does not mark it.
LEMMA BackupUnfenced ==
  ASSUME NEW e \in Entry \cup {Nil}, NEW t, e = Nil \/ ~e.fault
  PROVE  ~Backup(e, t).fault
BY DEF Backup

\* What the end of OpPut or OpRetrieve leaves in an entry: what was there, the backup just
\* made, or the emptied entry of the suspected client.
LEMMA FinishEntry ==
  ASSUME TypeInv, FencedSuspected, NEW s \in Spaces, hand[s] # Nil,
         NEW back \in [Clients -> Entry \cup {Nil}],
         \A c \in Clients : retrieve[s][c] # Nil => back[c] # Nil,
         Finish(s, back), NEW z \in Spaces, NEW c \in Clients
  PROVE  \/ retrieve'[z][c] = retrieve[z][c]
         \/ z = s /\ retrieve'[z][c] = back[c]
         \/ retrieve'[z][c] # Nil /\ retrieve'[z][c].data = Nil /\ c \in suspected
<1>1. hand[s] \in Hand /\ hand[s].client \in Clients
  BY DEF TypeInv, TypeOK, Hand
<1>2. CASE hand[s].op = "PUT"
  BY <1>2 DEF Finish, TypeInv, TypeOK
<1>3. CASE hand[s].op # "PUT"
  <2> DEFINE h == hand[s]
             e == [back[h.client] EXCEPT !.fault = TRUE, !.data = Nil]
  <2>1. h.op = "RETRIEVE" /\ h.client \in suspected
    BY <1>1, <1>3 DEF Hand, FencedSuspected
  <2>2. back[h.client] \in Entry
    BY <1>1, <2>1 DEF TypeInv, RetrievedHasEntry
  <2>3. e \in Entry /\ e.data = Nil
    BY <2>2 DEF Entry
  <2>4. retrieve' = [retrieve EXCEPT ![s] = [back EXCEPT ![h.client] = e]]
    BY <1>3 DEF Finish
  <2> HIDE DEF e
  <2> QED
    BY <1>1, <2>1, <2>3, <2>4, NilAssumption DEF TypeInv, TypeOK
<1> QED
  BY <1>2, <1>3

\* A step that changes a backup entry leaves it unmarked, or empty and of a suspected client.
LEMMA EntryStep ==
  ASSUME TypeInv, FenceInv, Next, NEW s \in Spaces, NEW c \in Clients
  PROVE  \/ retrieve'[s][c] = retrieve[s][c]
         \/ retrieve'[s][c] = Nil
         \/ ~retrieve'[s][c].fault
         \/ retrieve'[s][c].data = Nil /\ c \in suspected
<1> DEFINE Same == retrieve'[s][c] = retrieve[s][c]
           Goal == \/ Same
                   \/ retrieve'[s][c] = Nil
                   \/ ~retrieve'[s][c].fault
                   \/ retrieve'[s][c].data = Nil /\ c \in suspected
<1> SUFFICES Goal
  OBVIOUS
<1>1. retrieve \in [Spaces -> [Clients -> Entry \cup {Nil}]]
  BY DEF TypeInv, TypeOK
<1>2. ASSUME UNCHANGED retrieve PROVE Goal
  BY <1>2
<1>3. ASSUME NEW z \in Spaces, NEW how, Ends(z, how) PROVE Goal
  BY <1>1, <1>3 DEF Ends
<1>4. ASSUME NEW d \in Clients, Client(d) PROVE Goal
  <2>1. UNCHANGED retrieve
    BY <1>4 DEF Client, Call, CallFails, Crash, Suspect, tshVars
  <2> QED
    BY <1>2, <2>1
<1>5. ASSUME NEW z \in Spaces, NEW d \in Clients, OpGetHit(z, d) PROVE Goal
  <2>1. PICK t : \/ UNCHANGED retrieve
                 \/ Ends(z, "crashed")
                 \/ retrieve' = [retrieve EXCEPT ![z][d] = Backup(@, t)]
    BY <1>5 DEF OpGetHit
  <2>2. retrieve[z][d] = Nil \/ ~retrieve[z][d].fault
    BY <1>5 DEF OpGetHit, Hit, Guardf
  <2>3. ~Backup(retrieve[z][d], t).fault
    BY <1>1, <2>2, BackupUnfenced
  <2>4. CASE retrieve' = [retrieve EXCEPT ![z][d] = Backup(@, t)]
    BY <1>1, <2>3, <2>4
  <2> QED
    BY <1>2, <1>3, <2>1, <2>4
<1>6. ASSUME NEW z \in Spaces, NEW d \in Clients, OpRetrieve(z, d) PROVE Goal
  <2> DEFINE e == [name |-> Nil, data |-> Nil, pri |-> Nil, fault |-> TRUE]
  <2>1. d \in suspected /\ (UNCHANGED retrieve \/ retrieve' = [retrieve EXCEPT ![z][d] = e])
    BY <1>6 DEF OpRetrieve
  <2>2. e.data = Nil
    OBVIOUS
  <2> HIDE DEF e
  <2> QED
    BY <1>1, <2>1, <2>2
<1>7. ASSUME NEW z \in Spaces, NEW d \in Clients, Serve(z, d) PROVE Goal
  <2>1. CASE OpGetHit(z, d)
    BY <1>5, <2>1
  <2>2. CASE OpRetrieve(z, d)
    BY <1>6, <2>2
  <2>3. CASE OpGetLost(z, d) \/ OpTshEot(z, d)
    <3>1. UNCHANGED retrieve \/ Ends(z, "killed") \/ Ends(z, "exited")
      BY <2>3 DEF OpGetLost, OpTshEot, SendTidInfo
    <3> QED
      BY <1>2, <1>3, <3>1
  <2>4. CASE OpGuarded(z, d) \/ OpPut(z, d) \/ OpGetMiss(z, d) \/ OpTshSot(z, d)
             \/ OpGethostInfo(z, d)
    <3>1. UNCHANGED retrieve
      BY <2>4 DEF OpGuarded, OpPut, OpGetMiss, OpTshSot, OpGethostInfo, tshVars
    <3> QED
      BY <1>2, <3>1
  <2> QED
    BY <1>7, <2>1, <2>2, <2>3, <2>4 DEF Serve
<1>8. ASSUME NEW z \in Spaces, ConsumeTuple(z) PROVE Goal
  <2> DEFINE h == hand[z]
             i == FindRequest(queue[z], h.name)
             q == queue[z][i]
             back == [retrieve[z] EXCEPT ![q.client] = Backup(retrieve[z][q.client], h)]
  <2>1. h \in Hand /\ h # Nil /\ queue[z] \in Seq(Queued)
    BY <1>8 DEF TypeInv, TypeOK, ConsumeTuple
  <2>2. h.name \in Names /\ h.data \in Data /\ h.pri \in Priorities
    BY <2>1 DEF Hand
  <2>3. i \in DOMAIN queue[z]
    BY <1>8, <2>1, FindRequestFound DEF ConsumeTuple
  <2>4. q.client \in Clients
    <3>1. q \in Queued
      BY <2>1, <2>3
    <3> QED
      BY <3>1 DEF Queued
  <2>5. \/ UNCHANGED retrieve
        \/ q.client \in alive /\ Finish(z, back)
    BY <1>8 DEF ConsumeTuple, SendTuple
  <2>6. CASE q.client \in alive /\ Finish(z, back)
    <3>1. retrieve[z][q.client] = Nil \/ ~retrieve[z][q.client].fault
      BY <2>4, <2>6 DEF FenceInv, OnlyDeadSuspected, FencedSuspected, Guardf
    <3> DEFINE e == Backup(retrieve[z][q.client], h)
    <3>2. ~e.fault
      BY <1>1, <2>4, <3>1, BackupUnfenced
    <3>3. /\ back \in [Clients -> Entry \cup {Nil}]
          /\ \A d \in Clients : retrieve[z][d] # Nil => back[d] # Nil
      BY <2>2, <2>4, BackupEntries
    <3>4. \A d \in Clients : back[d] = IF d = q.client THEN e ELSE retrieve[z][d]
      BY <1>1, <2>4
    <3> HIDE DEF back, e, q
    <3>5. \/ retrieve'[s][c] = retrieve[s][c]
          \/ s = z /\ retrieve'[s][c] = back[c]
          \/ retrieve'[s][c] # Nil /\ retrieve'[s][c].data = Nil /\ c \in suspected
      BY <2>1, <2>6, <3>3, FinishEntry DEF FenceInv
    <3> QED
      BY <3>2, <3>4, <3>5
  <2> QED
    BY <1>2, <2>5, <2>6
<1>9. ASSUME NEW z \in Spaces, StoreHand(z) PROVE Goal
  <2>1. hand[z] # Nil /\ Finish(z, retrieve[z]) /\ retrieve[z] \in [Clients -> Entry \cup {Nil}]
    BY <1>1, <1>9 DEF StoreHand
  <2>2. \/ retrieve'[s][c] = retrieve[s][c]
        \/ s = z /\ retrieve'[s][c] = retrieve[z][c]
        \/ retrieve'[s][c] # Nil /\ retrieve'[s][c].data = Nil /\ c \in suspected
    BY <2>1, FinishEntry DEF FenceInv
  <2> QED
    BY <2>2
<1>10. ASSUME NEW z \in Spaces, OpExit(z) PROVE Goal
  BY <1>3, <1>10 DEF OpExit
<1> QED
  BY <1>4, <1>7, <1>8, <1>9, <1>10 DEF Next

\* While FDD suspects only dead clients, a suspected client is dead and stays suspected.
LEMMA SuspicionStep ==
  ASSUME TypeInv, OnlyDeadSuspected, [Next]_vars, ~FalseSuspicion
  PROVE  OnlyDeadSuspected' /\ suspected \subseteq suspected'
<1>1. ASSUME NEW c \in Clients, Client(c) PROVE OnlyDeadSuspected' /\ suspected \subseteq suspected'
  BY <1>1 DEF Client, Call, CallFails, Crash, Suspect, envVars, OnlyDeadSuspected
<1>2. ASSUME NEW s \in Spaces, NEW c \in Clients, Serve(s, c) PROVE UNCHANGED <<alive, suspected>>
  BY <1>2 DEF Serve, OpGuarded, OpPut, OpGetMiss, OpGetHit, OpGetLost, OpRetrieve, OpTshSot,
              OpTshEot, OpGethostInfo, envVars
<1>3. ASSUME NEW s \in Spaces, ConsumeTuple(s) \/ StoreHand(s) \/ OpExit(s)
      PROVE  UNCHANGED <<alive, suspected>>
  BY <1>3 DEF ConsumeTuple, StoreHand, OpExit, envVars
<1>4. CASE UNCHANGED vars
  BY <1>4 DEF vars, envVars, OnlyDeadSuspected
<1> QED
  BY <1>1, <1>2, <1>3, <1>4 DEF Next, OnlyDeadSuspected

\* The tuple in hand of an OpRetrieve comes from the entry of a suspected client.
LEMMA HandStep ==
  ASSUME TypeInv, Next, NEW s \in Spaces, hand'[s] # Nil, hand'[s].op = "RETRIEVE"
  PROVE  \/ hand'[s] = hand[s]
         \/ hand'[s].client \in suspected
<1> DEFINE Goal == hand'[s] = hand[s] \/ hand'[s].client \in suspected
<1> SUFFICES Goal
  OBVIOUS
<1>1. hand \in [Spaces -> Hand \cup {Nil}]
  BY DEF TypeInv, TypeOK
<1>2. ASSUME NEW c \in Clients, Client(c) PROVE UNCHANGED hand
  BY <1>2 DEF Client, Call, CallFails, Crash, Suspect, tshVars
<1>3. ASSUME NEW z \in Spaces, NEW c \in Clients, OpPut(z, c) PROVE Goal
  <2> DEFINE h == [name |-> call[c].name, data |-> call[c].data, pri |-> call[c].pri,
                   client |-> c, op |-> "PUT"]
  <2>1. hand' = [hand EXCEPT ![z] = h] /\ h.op = "PUT"
    BY <1>3 DEF OpPut
  <2> HIDE DEF h
  <2> QED
    BY <1>1, <2>1
<1>4. ASSUME NEW z \in Spaces, NEW c \in Clients, OpRetrieve(z, c) PROVE Goal
  <2> DEFINE h == [name |-> retrieve[z][c].name, data |-> retrieve[z][c].data,
                   pri |-> retrieve[z][c].pri, client |-> c, op |-> "RETRIEVE"]
  <2>1. c \in suspected /\ h.client = c /\ (hand' = [hand EXCEPT ![z] = h] \/ hand' = hand)
    BY <1>4 DEF OpRetrieve
  <2> HIDE DEF h
  <2> QED
    BY <1>1, <2>1
<1>5. ASSUME NEW z \in Spaces, NEW c \in Clients, Serve(z, c) PROVE Goal
  <2>1. OpPut(z, c) \/ OpRetrieve(z, c) \/ UNCHANGED hand
    BY <1>5 DEF Serve, OpGuarded, OpGetMiss, OpGetHit, OpGetLost, OpTshSot, OpTshEot,
                OpGethostInfo, tshVars
  <2> QED
    BY <1>3, <1>4, <2>1
<1>6. ASSUME NEW z \in Spaces, ConsumeTuple(z) \/ StoreHand(z) \/ OpExit(z) PROVE Goal
  <2>1. UNCHANGED hand \/ hand' = [hand EXCEPT ![z] = Nil]
    BY <1>6 DEF ConsumeTuple, StoreHand, OpExit, Finish
  <2> QED
    BY <1>1, <2>1
<1> QED
  BY <1>2, <1>5, <1>6 DEF Next

\* Every step keeps the fencing invariant.
LEMMA FenceStep ==
  ASSUME TypeInv, FenceInv, [Next]_vars, ~FalseSuspicion
  PROVE  FenceInv'
<1>1. OnlyDeadSuspected' /\ suspected \subseteq suspected'
  BY SuspicionStep DEF FenceInv
<1>2. CASE UNCHANGED vars
  BY <1>2 DEF FenceInv, OnlyDeadSuspected, FencedSuspected, NoStrandedBackup, Guardf, vars,
              tshVars, envVars
<1>3. CASE Next
  <2>1. ASSUME NEW s \in Spaces, NEW c \in Clients, Guardf(s, c)'
        PROVE  c \in suspected' /\ retrieve'[s][c].data = Nil
    <3>1. CASE retrieve'[s][c] = retrieve[s][c]
      BY <1>1, <2>1, <3>1 DEF FenceInv, FencedSuspected, NoStrandedBackup, Guardf
    <3> QED
      BY <1>1, <1>3, <2>1, <3>1, EntryStep DEF Guardf
  <2>2. ASSUME NEW s \in Spaces, hand'[s] # Nil, hand'[s].op = "RETRIEVE"
        PROVE  hand'[s].client \in suspected'
    BY <1>1, <1>3, <2>2, HandStep DEF FenceInv, FencedSuspected
  <2> QED
    BY <1>1, <2>1, <2>2 DEF FenceInv, FencedSuspected, NoStrandedBackup
<1> QED
  BY <1>2, <1>3

\* If FDD takes only dead clients for lost, the entry of a client marked faulty never holds
\* a tuple: whatever the client took is offered again (OpRetrieve) and nothing is written to
\* the entry afterwards, for OpGet is guarded and consumeTuple only reaches live clients.
THEOREM NothingIsStranded ==
  ASSUME ~FalseSuspicion
  PROVE  Spec => []NoStrandedBackup
<1>1. Init => FenceInv
  BY DEF Init, FenceInv, OnlyDeadSuspected, FencedSuspected, NoStrandedBackup, Guardf
<1>2. TypeInv /\ FenceInv /\ [Next]_vars => FenceInv'
  BY FenceStep
<1>3. FenceInv => NoStrandedBackup
  BY DEF FenceInv
<1> QED
  BY <1>1, <1>2, <1>3, TypeInvariant, PTL DEF Spec

-----------------------------------------------------------------------------
(* Requests for anything.                                                   *)

\* Every GET asks for any name, and no tuple goes before another.
RequestsForAnything ==
  /\ \A r \in Requests : r.op = "GET" => r.expr = Names
  /\ \A p, q \in Priorities : p = q

\* Such a request gets the head of the list.
LEMMA HeadIsFound ==
  ASSUME RequestsForAnything, NEW sp \in Seq(Node), sp # <<>>
  PROVE  FindTuple(sp, Names) = 1
<1>1. \A i, j \in DOMAIN sp : sp[i].name \in Names /\ sp[i].pri = sp[j].pri
  <2>1. \A i \in DOMAIN sp : sp[i] \in Node
    OBVIOUS
  <2>2. \A i \in DOMAIN sp : sp[i].name \in Names /\ sp[i].pri \in Priorities
    BY <2>1 DEF Node
  <2> QED
    BY <2>2 DEF RequestsForAnything
<1>2. 1 \in DOMAIN sp /\ \A i \in DOMAIN sp : i \in Int /\ 1 <= i /\ sp[i].pri \in Int
  <2>1. \A i \in DOMAIN sp : sp[i] \in Node
    OBVIOUS
  <2>2. \A i \in DOMAIN sp : sp[i].pri \in Int
    <3>1. \A i \in DOMAIN sp : sp[i].pri \in Priorities
      BY <2>1 DEF Node
    <3>2. \A p \in Priorities : p \in 0 .. MaxPriority
      BY PrioritiesAssumption
    <3>3. \A p \in Priorities : p \in Int
      BY <3>2, MaxPriorityNat
    <3> QED
      BY <3>1, <3>3
  <2> QED
    BY <2>2
<1> DEFINE M == {i \in DOMAIN sp : sp[i].name \in Names}
           Best(i) == \A j \in M : sp[i].pri > sp[j].pri \/ (sp[i].pri = sp[j].pri /\ i <= j)
<1>3. M = DOMAIN sp /\ M # {}
  BY <1>1, <1>2
<1>4. FindTuple(sp, Names) = CHOOSE i \in M : Best(i)
  BY <1>3 DEF FindTuple
<1>5. Best(1) /\ \A i \in M : Best(i) => i = 1
  BY <1>1, <1>2, <1>3
<1> HIDE DEF M, Best
<1> QED
  BY <1>2, <1>3, <1>4, <1>5

\* A call in flight is one of the application's.
CallsAreRequests == \A c \in Clients : call[c] # Nil => call[c] \in Requests

\* Whoever calls, the call is a request of the library.
LEMMA RequestsStep == TypeInv /\ CallsAreRequests /\ [Next]_vars => CallsAreRequests'
<1> SUFFICES ASSUME TypeInv, CallsAreRequests, [Next]_vars PROVE CallsAreRequests'
  OBVIOUS
<1>0. call \in [Clients -> Request \cup {Nil}]
  BY DEF TypeInv, TypeOK
<1>1. SUFFICES \A c \in Clients : call'[c] = call[c] \/ call'[c] = Nil \/ call'[c] \in Requests
  BY DEF CallsAreRequests
<1>2. ASSUME NEW c, Answered(c) \/ UNCHANGED call
      PROVE  \A d \in Clients : call'[d] = call[d] \/ call'[d] = Nil
  BY <1>0, <1>2 DEF Answered
<1>3. CASE UNCHANGED vars
  BY <1>2, <1>3 DEF vars, clientVars
<1>4. ASSUME NEW c \in Clients, Client(c)
      PROVE  \A d \in Clients : call'[d] = call[d] \/ call'[d] = Nil \/ call'[d] \in Requests
  <2>1. CASE \E r \in Requests : Call(c, r)
    BY <1>0, <2>1 DEF Call
  <2>2. CASE CallFails(c)
    BY <1>0, <2>2 DEF CallFails
  <2>3. CASE Crash(c) \/ Suspect(c)
    BY <2>3 DEF Crash, Suspect, clientVars
  <2> QED
    BY <1>4, <2>1, <2>2, <2>3 DEF Client
<1>5. ASSUME NEW s \in Spaces, NEW c \in Clients, Serve(s, c)
      PROVE  Answered(c) \/ UNCHANGED call
  BY <1>5 DEF Serve, OpGuarded, OpPut, OpGetMiss, OpGetHit, OpGetLost, OpRetrieve, OpTshSot, OpTshEot,
              OpGethostInfo, clientVars
<1>6. ASSUME NEW s \in Spaces, ConsumeTuple(s) \/ StoreHand(s)
      PROVE  \A d \in Clients : call'[d] = call[d] \/ call'[d] = Nil
  <2>1. Answered(hand[s].client) \/ UNCHANGED call
    BY <1>6 DEF ConsumeTuple, StoreHand, Finish
  <2> QED
    BY <1>2, <2>1
<1>7. ASSUME NEW s \in Spaces, OpExit(s) PROVE UNCHANGED call
  BY <1>7 DEF OpExit, clientVars
<1> QED
  BY <1>2, <1>3, <1>4, <1>5, <1>6, <1>7 DEF Next

\* Only deleteTuple follows a back pointer, of the tuple that a GET takes.
LEMMA CrashStep == RequestsForAnything /\ TypeInv /\ CallsAreRequests /\ NoCrash /\ [Next]_vars => NoCrash'
<1> SUFFICES ASSUME RequestsForAnything, TypeInv, CallsAreRequests, NoCrash, [Next]_vars PROVE NoCrash'
  OBVIOUS
<1>0. /\ daemon \in [Spaces -> {"up", "exited", "crashed", "killed"}]
      /\ space \in [Spaces -> Seq(Node)]
  BY DEF TypeInv, TypeOK
<1>1. CASE UNCHANGED daemon
  BY <1>1 DEF NoCrash
<1>2. ASSUME NEW s \in Spaces, NEW how \in {"exited", "killed"}, Ends(s, how) PROVE NoCrash'
  BY <1>0, <1>2 DEF Ends, NoCrash
<1>3. ASSUME NEW s \in Spaces, NEW c \in Clients, OpGetHit(s, c) PROVE UNCHANGED daemon
  <2>1. call[c] # Nil /\ call[c].op \in {"GET", "READ"} /\ FindTuple(space[s], call[c].expr) # 0
    BY <1>3 DEF OpGetHit, Hit, Serves
  <2>2. CASE call[c].op = "READ"
    BY <1>3, <2>2 DEF OpGetHit
  <2>3. CASE call[c].op # "READ"
    <3>1. call[c].expr = Names
      BY <2>1, <2>3 DEF CallsAreRequests, RequestsForAnything
    <3>2. space[s] \in Seq(Node) /\ space[s] # <<>>
      <4>1. space[s] \in Seq(Node)
        BY <1>0
      <4>2. FindTuple(space[s], call[c].expr) \in DOMAIN space[s]
        BY <2>1, <4>1, FindTupleFound
      <4> QED
        BY <4>1, <4>2
    <3>3. ~DeleteCrashes(space[s], FindTuple(space[s], call[c].expr))
      BY <3>1, <3>2, HeadIsFound DEF DeleteCrashes
    <3> QED
      BY <1>3, <2>3, <3>3 DEF OpGetHit
  <2> QED
    BY <2>2, <2>3
<1>4. ASSUME NEW s \in Spaces, NEW c \in Clients, Serve(s, c) PROVE NoCrash'
  <2>1. CASE OpGetLost(s, c)
    BY <1>1, <1>2, <2>1 DEF OpGetLost
  <2>2. CASE OpTshEot(s, c)
    BY <1>1, <1>2, <2>2 DEF OpTshEot, SendTidInfo
  <2>3. CASE OpGuarded(s, c) \/ OpPut(s, c) \/ OpGetMiss(s, c) \/ OpRetrieve(s, c) \/ OpTshSot(s, c)
             \/ OpGethostInfo(s, c)
    BY <1>1, <2>3 DEF OpGuarded, OpPut, OpGetMiss, OpRetrieve, OpTshSot, OpGethostInfo, tshVars
  <2> QED
    BY <1>1, <1>3, <1>4, <2>1, <2>2, <2>3 DEF Serve
<1> QED
  BY <1>1, <1>2, <1>4 DEF Next, Client, Call, CallFails, Crash, Suspect, ConsumeTuple, StoreHand, OpExit,
                          vars, tshVars

\* Where every GET asks for anything and no tuple goes before another, a handler never follows
\* a back pointer that is NULL, whatever is recovered: only the head is ever deleted
\* (deleteTuple, tsh.c:697).  With a named GET, or with a tuple of higher priority behind the
\* head, a recovery leaves such a pointer where it is followed.
THEOREM WildcardsNeverCrash ==
  ASSUME RequestsForAnything
  PROVE  Spec => []NoCrash
<1>1. Init => CallsAreRequests /\ NoCrash
  BY DEF Init, CallsAreRequests, NoCrash
<1>2. TypeInv /\ CallsAreRequests /\ NoCrash /\ [Next]_vars => (CallsAreRequests /\ NoCrash)'
  BY RequestsStep, CrashStep
<1> QED
  BY <1>1, <1>2, TypeInvariant, PTL DEF Spec

-----------------------------------------------------------------------------
(* Blocked clients stand in a queue.                                       *)

\* A call in flight is one of Requests, and its client is not blocked.
CallsAreFree ==
  \A c \in Clients : call[c] # Nil => call[c] \in Requests /\ waiting[c] = Nil

\* The queue of s: who stands there is blocked on s, stands there once, and no live client
\* that is blocked on s stands elsewhere.
QueueHolds(s) ==
  /\ \A i \in DOMAIN queue[s] : waiting[queue[s][i].client] = s
  /\ \A i, j \in DOMAIN queue[s] : queue[s][i].client = queue[s][j].client => i = j
  /\ \A c \in alive : waiting[c] = s => \E i \in DOMAIN queue[s] : queue[s][i].client = c

WaitInv ==
  /\ CallsAreFree
  /\ \A s \in Spaces : info[s].tidq = <<>>
  /\ \A s \in Spaces : daemon[s] = "up" => QueueHolds(s)

\* The application does not ask for the task map (cnf_gts).  With it the property is false:
\* send_tidinfo leaves its queue as it is, so that a second EOT wakes a client that is by
\* now blocked in a GET, and OpTshSot drops the queue with its clients asleep.
NoTaskMap == \A r \in Requests : r.op # "GTS"

\* A step that leaves the queues of the running handlers and the blocked clients alone.
LEMMA WaitFrame ==
  ASSUME WaitInv,
         \A s \in Spaces : info'[s].tidq = info[s].tidq,
         \A s \in Spaces : daemon'[s] = "up" => daemon[s] = "up" /\ queue'[s] = queue[s],
         waiting' = waiting, alive' \subseteq alive,
         \A c \in Clients : \/ call'[c] = call[c]
                            \/ call'[c] = Nil
                            \/ call'[c] \in Requests /\ waiting[c] = Nil
  PROVE  WaitInv'
<1>1. CallsAreFree'
  BY DEF WaitInv, CallsAreFree
<1>2. \A s \in Spaces : info'[s].tidq = <<>>
  BY DEF WaitInv
<1>3. \A s \in Spaces : daemon'[s] = "up" => QueueHolds(s)'
  BY DEF WaitInv, QueueHolds
<1> QED
  BY <1>1, <1>2, <1>3 DEF WaitInv

\* OpGetMiss: the client that joins the queue stood in none.
LEMMA OpGetMissWaits ==
  ASSUME TypeInv, WaitInv, NEW s \in Spaces, NEW c \in Clients, OpGetMiss(s, c)
  PROVE  WaitInv'
<1> DEFINE r == [op |-> call[c].op, expr |-> call[c].expr, client |-> c]
<1>0. /\ queue \in [Spaces -> Seq(Queued)] /\ waiting \in [Clients -> Spaces \cup {Nil}]
      /\ call \in [Clients -> Request \cup {Nil}] /\ Nil \notin Spaces
      /\ call[c] # Nil /\ waiting[c] = Nil /\ daemon[s] = "up"
  BY NilAssumption DEF TypeInv, TypeOK, WaitInv, CallsAreFree, OpGetMiss, Serves, Ready
<1>1. CASE ~call[c].wait
  <2>1. queue' = queue /\ waiting' = waiting
    BY <1>1 DEF OpGetMiss
  <2>2. call' = [call EXCEPT ![c] = Nil] /\ UNCHANGED <<info, daemon, alive>>
    BY DEF OpGetMiss, Answered, envVars
  <2> QED
    BY <1>0, <2>1, <2>2, WaitFrame
<1>2. CASE call[c].wait
  <2>1. /\ queue' = [queue EXCEPT ![s] = Append(queue[s], r)]
        /\ waiting' = [waiting EXCEPT ![c] = s]
        /\ call' = [call EXCEPT ![c] = Nil] /\ UNCHANGED <<info, daemon, alive>>
    BY <1>0, <1>2 DEF OpGetMiss, StoreRequest, Answered, envVars
  <2>2. CallsAreFree'
    BY <1>0, <2>1 DEF WaitInv, CallsAreFree
  <2>3. ASSUME NEW t \in Spaces, daemon'[t] = "up" PROVE QueueHolds(t)'
    <3>1. QueueHolds(t) /\ daemon[t] = "up"
      BY <2>1, <2>3 DEF WaitInv
    <3>2. \A i \in DOMAIN queue[t] : queue[t][i].client \in Clients \ {c}
      <4>1. SUFFICES ASSUME NEW i \in DOMAIN queue[t] PROVE queue[t][i].client \in Clients \ {c}
        OBVIOUS
      <4>2. queue[t] \in Seq(Queued) /\ queue[t][i] \in Queued
        BY <1>0
      <4> QED
        BY <1>0, <3>1, <4>2 DEF QueueHolds, Queued
    <3>3. CASE t # s
      <4>1. queue'[t] = queue[t] /\ alive' = alive /\ (\A d \in Clients \ {c} : waiting'[d] = waiting[d])
            /\ waiting'[c] # t /\ alive \subseteq Clients
        BY <1>0, <2>1, <3>3 DEF TypeInv, TypeOK
      <4> QED
        BY <3>1, <3>2, <4>1 DEF QueueHolds
    <3>4. CASE t = s
      <4> DEFINE q == queue[s]
      <4>1. /\ queue'[s] = Append(q, r) /\ q \in Seq(Queued)
            /\ waiting'[c] = s /\ (\A d \in Clients \ {c} : waiting'[d] = waiting[d])
            /\ alive' = alive /\ r.client = c
        BY <1>0, <2>1
      <4> HIDE DEF r
      <4>2. /\ DOMAIN Append(q, r) = 1 .. Len(q) + 1 /\ DOMAIN q = 1 .. Len(q) /\ Len(q) \in Nat
            /\ Append(q, r)[Len(q) + 1] = r
            /\ \A i \in 1 .. Len(q) : Append(q, r)[i] = q[i]
        BY <4>1
      <4> HIDE DEF q
      <4>3. \A i \in DOMAIN queue'[s] : waiting'[queue'[s][i].client] = s
        BY <3>1, <3>2, <3>4, <4>1, <4>2 DEF QueueHolds, q
      <4>4. \A i, j \in DOMAIN queue'[s] : queue'[s][i].client = queue'[s][j].client => i = j
        BY <3>1, <3>2, <3>4, <4>1, <4>2 DEF QueueHolds, q
      <4>5. \A d \in alive' : waiting'[d] = s => \E i \in DOMAIN queue'[s] : queue'[s][i].client = d
        <5>1. SUFFICES ASSUME NEW d \in alive, waiting'[d] = s
                       PROVE  \E i \in DOMAIN queue'[s] : queue'[s][i].client = d
          BY <4>1
        <5>2. CASE d = c
          BY <4>1, <4>2, <5>2
        <5>3. CASE d # c
          <6>1. d \in Clients
            BY DEF TypeInv, TypeOK
          <6>2. PICK i \in DOMAIN q : q[i].client = d
            BY <3>1, <3>4, <4>1, <5>1, <5>3, <6>1 DEF QueueHolds, q
          <6> QED
            BY <4>1, <4>2, <6>2
        <5> QED
          BY <5>2, <5>3
      <4> QED
        BY <3>4, <4>3, <4>4, <4>5 DEF QueueHolds
    <3> QED
      BY <3>3, <3>4
  <2>4. \A t \in Spaces : info'[t].tidq = <<>>
    BY <2>1 DEF WaitInv
  <2> QED
    BY <2>2, <2>3, <2>4 DEF WaitInv
<1> QED
  BY <1>1, <1>2

\* consumeTuple: the request that leaves the queue is the only one of its client, who is
\* woken or dead.
LEMMA ConsumeTupleWaits ==
  ASSUME TypeInv, WaitInv, NEW s \in Spaces, ConsumeTuple(s)
  PROVE  WaitInv'
<1> DEFINE k  == FindRequest(queue[s], hand[s].name)
           q  == queue[s]
           qc == queue[s][k].client
<1>0. /\ queue \in [Spaces -> Seq(Queued)] /\ waiting \in [Clients -> Spaces \cup {Nil}]
      /\ call \in [Clients -> Request \cup {Nil}] /\ Nil \notin Spaces
      /\ alive \subseteq Clients /\ info \in [Spaces -> [eot: BOOLEAN, tids: Nat, fetched: Nat, tidq: Seq(Clients)]]
  BY NilAssumption DEF TypeInv, TypeOK
<1>1. k # 0 /\ k \in DOMAIN q /\ q \in Seq(Queued)
  BY <1>0, FindRequestFound DEF ConsumeTuple
<1>2. qc \in Clients
  <2>1. q[k] \in Queued
    BY <1>1
  <2> QED
    BY <2>1 DEF Queued
<1>3. /\ queue' = [queue EXCEPT ![s] = RemoveAt(q, k)]
      /\ waiting' = IF qc \in alive THEN [waiting EXCEPT ![qc] = Nil] ELSE waiting
      /\ UNCHANGED <<daemon, alive>>
      /\ info' = info \/ info' = [info EXCEPT ![s].fetched = @ + 1]
      /\ call' = call \/ call' = [call EXCEPT ![hand[s].client] = Nil]
  BY DEF ConsumeTuple, SendTuple, DeleteRequest, Finish, Answered, envVars
<1>4. daemon[s] = "up" /\ QueueHolds(s)
  BY DEF ConsumeTuple, WaitInv
<1>5. waiting[qc] = s
  BY <1>1, <1>4 DEF QueueHolds
<1> HIDE DEF k, qc
<1>6. CallsAreFree'
  <2>1. SUFFICES ASSUME NEW c \in Clients, call'[c] # Nil PROVE call'[c] \in Requests /\ waiting'[c] = Nil
    BY DEF CallsAreFree
  <2>2. call'[c] = call[c]
    BY <1>0, <1>3, <2>1
  <2>3. call[c] \in Requests /\ waiting[c] = Nil
    BY <2>1, <2>2 DEF WaitInv, CallsAreFree
  <2> QED
    BY <1>0, <1>2, <1>3, <2>2, <2>3
<1>7. \A t \in Spaces : info'[t].tidq = <<>>
  <2>1. SUFFICES ASSUME NEW t \in Spaces PROVE info'[t].tidq = info[t].tidq
    BY DEF WaitInv
  <2>2. CASE info' = info
    BY <2>2
  <2>3. CASE info' = [info EXCEPT ![s].fetched = @ + 1]
    <3>1. info[t] \in [eot: BOOLEAN, tids: Nat, fetched: Nat, tidq: Seq(Clients)]
      BY <1>0
    <3> QED
      BY <1>0, <2>3, <3>1
  <2> QED
    BY <1>3, <2>2, <2>3
<1>8. ASSUME NEW t \in Spaces, daemon'[t] = "up", t # s PROVE QueueHolds(t)'
  <2>1. QueueHolds(t)
    BY <1>3, <1>8 DEF WaitInv
  <2>2. queue'[t] = queue[t] /\ (\A d \in Clients : waiting'[d] = t <=> waiting[d] = t)
    BY <1>0, <1>2, <1>3, <1>5, <1>8
  <2>3. \A i \in DOMAIN queue[t] : queue[t][i].client \in Clients
    <3>1. ASSUME NEW i \in DOMAIN queue[t] PROVE queue[t][i] \in Queued
      BY <1>0
    <3> QED
      BY <3>1 DEF Queued
  <2>4. \A i \in DOMAIN queue[t] : waiting'[queue[t][i].client] = t
    BY <2>1, <2>2, <2>3 DEF QueueHolds
  <2>5. \A i, j \in DOMAIN queue[t] : queue[t][i].client = queue[t][j].client => i = j
    BY <2>1 DEF QueueHolds
  <2>6. \A d \in alive : waiting'[d] = t => \E i \in DOMAIN queue[t] : queue[t][i].client = d
    BY <1>0, <2>1, <2>2 DEF QueueHolds
  <2> QED
    BY <1>3, <2>2, <2>4, <2>5, <2>6 DEF QueueHolds
<1>9. QueueHolds(s)'
  <2> DEFINE new == RemoveAt(q, k)
  <2>1. /\ queue'[s] = new /\ new \in Seq(Queued) /\ Len(new) = Len(q) - 1
        /\ \A j \in 1 .. Len(q) - 1 : new[j] = IF j < k THEN q[j] ELSE q[j + 1]
        /\ DOMAIN q = 1 .. Len(q) /\ Len(q) \in Nat /\ k \in 1 .. Len(q)
    BY <1>0, <1>1, <1>3, RemoveAtProperties
  <2>2. DOMAIN new = 1 .. Len(q) - 1
    BY <2>1
  <2> HIDE DEF new, q
  \* A request that stays is one that was there, at another place than k.
  <2>3. \A j \in DOMAIN new : \E i \in DOMAIN q \ {k} : new[j] = q[i] /\ i = (IF j < k THEN j ELSE j + 1)
    BY <2>1, <2>2
  <2>4. \A i \in DOMAIN q \ {k} : \E j \in DOMAIN new : new[j] = q[i]
    <3>1. ASSUME NEW i \in DOMAIN q \ {k}, i < k PROVE i \in DOMAIN new /\ new[i] = q[i]
      BY <2>1, <2>2, <3>1
    <3>2. ASSUME NEW i \in DOMAIN q \ {k}, ~(i < k) PROVE i - 1 \in DOMAIN new /\ new[i - 1] = q[i]
      BY <2>1, <2>2, <3>2
    <3> QED
      BY <3>1, <3>2
  <2>5. \A i \in DOMAIN q \ {k} : q[i].client # qc /\ q[i].client \in Clients /\ waiting[q[i].client] = s
    <3>1. SUFFICES ASSUME NEW i \in DOMAIN q \ {k}
                   PROVE  q[i].client # qc /\ q[i].client \in Clients /\ waiting[q[i].client] = s
      OBVIOUS
    <3>2. q[i] \in Queued
      BY <1>1
    <3>3. q[i].client \in Clients
      BY <3>2 DEF Queued
    <3>4. i \in DOMAIN queue[s] /\ k \in DOMAIN queue[s] /\ i # k
      BY <1>1, <3>1 DEF q
    <3>5. queue[s][i].client # queue[s][k].client /\ waiting[queue[s][i].client] = s
      BY <1>4, <3>4 DEF QueueHolds
    <3> QED
      BY <3>3, <3>5 DEF q, qc
  <2>6. \A d \in Clients \ {qc} : waiting'[d] = waiting[d]
    BY <1>0, <1>3
  <2>7. \A i \in DOMAIN new : waiting'[new[i].client] = s
    BY <2>3, <2>5, <2>6
  <2>8. \A i, j \in DOMAIN new : new[i].client = new[j].client => i = j
    <3>1. SUFFICES ASSUME NEW i \in DOMAIN new, NEW j \in DOMAIN new, new[i].client = new[j].client
                   PROVE  i = j
      OBVIOUS
    <3>2. (IF i < k THEN i ELSE i + 1) = (IF j < k THEN j ELSE j + 1)
      BY <1>4, <2>3, <3>1 DEF QueueHolds, q
    <3>3. i \in Nat /\ j \in Nat /\ k \in Nat
      BY <2>1, <2>2
    <3> QED
      BY <3>2, <3>3
  <2>9. \A d \in alive' : waiting'[d] = s => \E i \in DOMAIN new : new[i].client = d
    <3>1. SUFFICES ASSUME NEW d \in alive, waiting'[d] = s PROVE \E i \in DOMAIN new : new[i].client = d
      BY <1>3
    <3>2. d # qc /\ waiting[d] = s
      BY <1>0, <1>3, <2>6, <3>1
    <3>3. PICK i \in DOMAIN q : q[i].client = d
      BY <1>4, <3>2 DEF QueueHolds, q
    <3> QED
      BY <2>4, <3>2, <3>3 DEF qc, q
  <2> QED
    BY <2>1, <2>7, <2>8, <2>9 DEF QueueHolds
<1> QED
  BY <1>3, <1>6, <1>7, <1>8, <1>9 DEF WaitInv

\* No step breaks the invariant: all but the two above leave queues and blocked clients alone.
LEMMA WaitStep == TypeInv /\ WaitInv /\ NoTaskMap /\ [Next]_vars => WaitInv'
<1> SUFFICES ASSUME TypeInv, WaitInv, NoTaskMap, [Next]_vars PROVE WaitInv'
  OBVIOUS
<1>0. /\ call \in [Clients -> Request \cup {Nil}] /\ waiting \in [Clients -> Spaces \cup {Nil}]
      /\ daemon \in [Spaces -> {"up", "exited", "crashed", "killed"}]
      /\ info \in [Spaces -> [eot: BOOLEAN, tids: Nat, fetched: Nat, tidq: Seq(Clients)]]
  BY DEF TypeInv, TypeOK
<1>1. CASE UNCHANGED vars
  BY <1>1, WaitFrame DEF vars, tshVars, clientVars, envVars
<1>2. ASSUME NEW c \in Clients, Client(c) PROVE WaitInv'
  <2>1. /\ UNCHANGED <<info, daemon, queue, waiting>>
        /\ alive' \subseteq alive
    BY <1>2 DEF Client, Call, CallFails, Crash, Suspect, tshVars, clientVars, envVars
  <2>2. \/ call' = call
        \/ call' = [call EXCEPT ![c] = Nil]
        \/ waiting[c] = Nil /\ \E r \in Requests : call' = [call EXCEPT ![c] = r]
    BY <1>2 DEF Client, Call, Idle, CallFails, Crash, Suspect, tshVars, clientVars, envVars
  <2>3. \A d \in Clients : call'[d] = call[d] \/ call'[d] = Nil \/ (call'[d] \in Requests /\ waiting[d] = Nil)
    BY <1>0, <2>2
  <2> QED
    BY <2>1, <2>3, WaitFrame
<1>3. ASSUME NEW s \in Spaces, NEW c \in Clients, Serve(s, c) PROVE WaitInv'
  <2> DEFINE Quiet == /\ \A t \in Spaces : info'[t].tidq = info[t].tidq
                      /\ \A t \in Spaces : daemon'[t] = "up" => daemon[t] = "up" /\ queue'[t] = queue[t]
                      /\ waiting' = waiting /\ alive' = alive
                      /\ call' = call \/ call' = [call EXCEPT ![c] = Nil]
  <2>1. ASSUME Quiet PROVE WaitInv'
    <3>1. \A d \in Clients : call'[d] = call[d] \/ call'[d] = Nil
      BY <1>0, <2>1
    <3> QED
      BY <2>1, <3>1, WaitFrame
  <2>2. CASE OpGuarded(s, c)
    BY <2>1, <2>2 DEF OpGuarded, Answered, tshVars, envVars
  <2>3. CASE OpPut(s, c)
    BY <2>1, <2>3 DEF OpPut, clientVars, envVars
  <2>4. CASE OpGetMiss(s, c)
    BY <2>4, OpGetMissWaits
  <2>5. CASE OpGetHit(s, c)
    <3>1. UNCHANGED <<daemon, queue>> \/ Ends(s, "crashed")
      BY <2>5 DEF OpGetHit
    <3>2. \A t \in Spaces : daemon'[t] = "up" => daemon[t] = "up" /\ queue'[t] = queue[t]
      BY <1>0, <3>1 DEF Ends, TypeInv, TypeOK
    <3> QED
      BY <2>1, <2>5, <3>2 DEF OpGetHit, Answered, envVars
  <2>6. CASE OpGetLost(s, c)
    <3>1. UNCHANGED <<daemon, queue>> \/ Ends(s, "killed")
      BY <2>6, Zenon DEF OpGetLost
    <3>2. \A t \in Spaces : daemon'[t] = "up" => daemon[t] = "up" /\ queue'[t] = queue[t]
      BY <1>0, <3>1 DEF Ends, TypeInv, TypeOK
    <3> QED
      BY <2>1, <2>6, <3>2 DEF OpGetLost, Answered, envVars
  <2>7. CASE OpRetrieve(s, c)
    BY <2>1, <2>7 DEF OpRetrieve, clientVars, envVars
  <2>8. CASE OpTshSot(s, c)
    <3>1. \A t \in Spaces : info'[t].tidq = info[t].tidq
      BY <1>0, <2>8 DEF OpTshSot, WaitInv
    <3> QED
      BY <2>1, <2>8, <3>1 DEF OpTshSot, Answered, envVars
  <2>9. CASE OpTshEot(s, c)
    <3>1. info' = [info EXCEPT ![s].tids = call[c].tids, ![s].eot = TRUE]
      BY <2>9 DEF OpTshEot
    <3>2. \A t \in Spaces : info'[t].tidq = info[t].tidq
      BY <1>0, <3>1
    <3>3. UNCHANGED <<waiting, daemon, queue>>
      <4>1. CASE info[s].fetched = call[c].tids
        <5>1. SendTidInfo(s, call[c].tids)
          BY <2>9, <4>1 DEF OpTshEot
        <5>2. info[s].tidq = <<>> /\ DOMAIN <<>> = {}
          BY DEF WaitInv
        <5>3. /\ waiting' = [d \in Clients |-> waiting[d]]
              /\ UNCHANGED <<daemon, queue>>
          BY <5>1, <5>2 DEF SendTidInfo
        <5> QED
          BY <1>0, <5>3
      <4> QED
        BY <2>9, <4>1 DEF OpTshEot
    <3> QED
      BY <2>1, <2>9, <3>2, <3>3 DEF OpTshEot, Answered, envVars
  <2>10. CASE OpGethostInfo(s, c)
    <3>1. call[c] # Nil /\ call[c].op = "GTS"
      BY <2>10 DEF OpGethostInfo, Serves
    <3> QED
      BY <3>1 DEF WaitInv, CallsAreFree, NoTaskMap
  <2> HIDE DEF Quiet
  <2> QED
    BY <1>3, <2>2, <2>3, <2>4, <2>5, <2>6, <2>7, <2>8, <2>9, <2>10 DEF Serve
<1>4. ASSUME NEW s \in Spaces, ConsumeTuple(s) PROVE WaitInv'
  BY <1>4, ConsumeTupleWaits
<1>5. ASSUME NEW s \in Spaces, StoreHand(s) PROVE WaitInv'
  <2>1. call' = call \/ call' = [call EXCEPT ![hand[s].client] = Nil]
    BY <1>5 DEF StoreHand, Finish, Answered
  <2>2. \A d \in Clients : call'[d] = call[d] \/ call'[d] = Nil
    BY <1>0, <2>1
  <2> QED
    BY <1>5, <2>2, WaitFrame DEF StoreHand, envVars
<1>6. ASSUME NEW s \in Spaces, OpExit(s) PROVE WaitInv'
  <2>1. \A t \in Spaces : daemon'[t] = "up" => daemon[t] = "up" /\ queue'[t] = queue[t]
    BY <1>0, <1>6 DEF OpExit, Ends, TypeInv, TypeOK
  <2> QED
    BY <1>6, <2>1, WaitFrame DEF OpExit, clientVars, envVars
<1> QED
  BY <1>1, <1>2, <1>3, <1>4, <1>5, <1>6 DEF Next

\* A set whose elements are all the same has at most one.
LEMMA AtMostOne ==
  ASSUME NEW S, \A x, y \in S : x = y
  PROVE  Cardinality(S) <= 1
<1>1. CASE S = {}
  BY <1>1, FS_EmptySet
<1>2. CASE S # {}
  <2>1. PICK x : S = {x}
    BY <1>2
  <2> QED
    BY <2>1, FS_Singleton
<1> QED
  BY <1>1, <1>2

\* A live client that is blocked on a running handler stands in its queue, once: whatever
\* clients and handlers die, nobody sleeps forgotten (storeRequest, consumeTuple), as long
\* as the application does not ask for its task map.
THEOREM BlockedStandInQueue ==
  ASSUME NoTaskMap
  PROVE  Spec => []BlockedIsQueued
<1>1. Init => WaitInv
  BY NilAssumption DEF Init, WaitInv, CallsAreFree, QueueHolds
<1>2. TypeInv /\ WaitInv => BlockedIsQueued
  <2> SUFFICES ASSUME TypeInv, WaitInv, NEW c \in alive, NEW s \in Spaces, daemon[s] = "up"
               PROVE  LET mine == {i \in DOMAIN queue[s] : queue[s][i].client = c}
                      IN  /\ Cardinality(mine) <= 1
                          /\ mine # {} => waiting[c] = s
                          /\ waiting[c] = s => mine # {} \/ c \in Range(info[s].tidq)
    BY DEF BlockedIsQueued
  <2> DEFINE mine == {i \in DOMAIN queue[s] : queue[s][i].client = c}
  <2>1. QueueHolds(s)
    BY DEF WaitInv
  <2>2. \A x, y \in mine : x = y
    BY <2>1 DEF QueueHolds
  <2>3. mine # {} <=> waiting[c] = s
    BY <2>1 DEF QueueHolds
  <2> HIDE DEF mine
  <2>4. Cardinality(mine) <= 1
    BY <2>2, AtMostOne
  <2> QED
    BY <2>3, <2>4 DEF mine
<1> QED
  BY <1>1, <1>2, WaitStep, TypeInvariant, PTL DEF Spec

-----------------------------------------------------------------------------
(* A content that GET removed belongs to one client.                       *)

\* A PUT that is in flight.
Putting(c) == call[c] # Nil /\ call[c].op = "PUT"

\* Every PUT brings a content of its own.
PutsAreFresh ==
  /\ \A c \in Clients : Putting(c) => call[c].data \in used
  /\ \A c, e \in Clients :
       Putting(c) /\ Putting(e) /\ call[c].data = call[e].data => c = e

\* A PUT in flight that s has accepted already is the one it is placing.
PutsAreNew(s) ==
  \A c \in Clients :
    Putting(c) /\ call[c].space = s /\ call[c].data \in accepted[s] =>
      hand[s] # Nil /\ hand[s].op = "PUT" /\ hand[s].client = c

\* Client c was handed content d by s and is not fenced off.
Holder(s, d, c) == <<d, c>> \in taken[s] /\ ~Guardf(s, c)

\* The lists of s hold accepted contents, each in one node.
ListHolds(s) ==
  /\ \A i \in DOMAIN space[s] : space[s][i].data \in accepted[s]
  /\ \A i, j \in DOMAIN space[s] : space[s][i].data = space[s][j].data => i = j
\* The content in hand is not in the list, and nobody holds it but the client it is
\* recovered from.
HandHolds(s) ==
  hand[s] # Nil =>
    /\ hand[s].data \in accepted[s]
    /\ \A i \in DOMAIN space[s] : space[s][i].data # hand[s].data
    /\ \A c \in Clients :
         Holder(s, hand[s].data, c) => hand[s].op = "RETRIEVE" /\ hand[s].client = c
\* A content that a client holds is not in the list, and no other client holds it.
HoldersHold(s) ==
  /\ \A p \in taken[s] : p[1] \in accepted[s]
  /\ \A d \in Data, c, e \in Clients : Holder(s, d, c) /\ Holder(s, d, e) => c = e
  /\ \A c \in Clients : \A i \in DOMAIN space[s] : ~Holder(s, space[s][i].data, c)
\* The backup entry of a client that is not fenced off is a content it was handed.
EntriesHold(s) ==
  \A c \in Clients :
    retrieve[s][c] # Nil /\ ~retrieve[s][c].fault => <<retrieve[s][c].data, c>> \in taken[s]

Contents(s) == ListHolds(s) /\ HandHolds(s) /\ HoldersHold(s) /\ EntriesHold(s)

HoldInv ==
  /\ PutsAreFresh
  /\ \A s \in Spaces : accepted[s] \subseteq used
  /\ \A s \in Spaces : daemon[s] = "up" => PutsAreNew(s) /\ Contents(s)

\* What the other handlers see of a step.
Kept(s) ==
  /\ daemon'[s] = daemon[s] /\ space'[s] = space[s] /\ retrieve'[s] = retrieve[s]
  /\ hand'[s] = hand[s] /\ accepted'[s] = accepted[s] /\ taken'[s] = taken[s]

\* Calls are answered or dropped, and none is made.
CallsEnd == \A c \in Clients : call'[c] = call[c] \/ call'[c] = Nil

\* A handler that a step leaves alone keeps what it holds.
LEMMA KeptContents ==
  ASSUME NEW s \in Spaces, Contents(s), Kept(s)
  PROVE  Contents(s)'
<1>1. \A c \in Clients : Guardf(s, c)' <=> Guardf(s, c)
  BY DEF Kept, Guardf
<1>2. \A d, c : c \in Clients => (Holder(s, d, c)' <=> Holder(s, d, c))
  BY <1>1 DEF Kept, Holder
<1>3. ListHolds(s)'
  BY DEF Kept, Contents, ListHolds
<1>4. HandHolds(s)'
  BY <1>2 DEF Kept, Contents, HandHolds
<1>5. HoldersHold(s)'
  BY <1>2 DEF Kept, Contents, HoldersHold
<1>6. EntriesHold(s)'
  BY DEF Kept, Contents, EntriesHold
<1> QED
  BY <1>3, <1>4, <1>5, <1>6 DEF Contents

\* Calls that end leave those in flight fresh.
LEMMA EndingCalls ==
  ASSUME CallsEnd
  PROVE  /\ \A c \in Clients : Putting(c)' => Putting(c) /\ call'[c] = call[c]
         /\ PutsAreFresh /\ used \subseteq used' => PutsAreFresh'
         /\ \A s \in Spaces : PutsAreNew(s) /\ Kept(s) => PutsAreNew(s)'
<1>1. \A c \in Clients : Putting(c)' => Putting(c) /\ call'[c] = call[c]
  BY DEF CallsEnd, Putting
<1> QED
  BY <1>1 DEF PutsAreFresh, PutsAreNew, Kept

\* A step that changes what one handler holds, or none.
LEMMA HoldFrame ==
  ASSUME HoldInv, CallsEnd, used' = used, NEW s,
         \A t \in Spaces \ {s} : daemon'[t] = "up" => Kept(t),
         \A t \in Spaces \ {s} : accepted'[t] = accepted[t],
         s \in Spaces => /\ accepted'[s] \subseteq used
                         /\ daemon'[s] = "up" => PutsAreNew(s)' /\ Contents(s)'
  PROVE  HoldInv'
<1>1. PutsAreFresh'
  BY EndingCalls DEF HoldInv
<1>2. \A t \in Spaces : accepted'[t] \subseteq used'
  BY DEF HoldInv
<1>3. ASSUME NEW t \in Spaces, daemon'[t] = "up" PROVE PutsAreNew(t)' /\ Contents(t)'
  <2>1. CASE t = s
    BY <1>3, <2>1
  <2>2. CASE t # s
    <3>1. Kept(t)
      BY <1>3, <2>2
    <3>2. PutsAreNew(t) /\ Contents(t)
      BY <1>3, <3>1 DEF HoldInv, Kept
    <3> QED
      BY <3>1, <3>2, KeptContents, EndingCalls
  <2> QED
    BY <2>1, <2>2
<1> QED
  BY <1>1, <1>2, <1>3 DEF HoldInv

\* deleteTuple leaves the contents of the other nodes.
LEMMA UnlinkData ==
  ASSUME NEW sp \in Seq(Node), NEW i \in DOMAIN sp
  PROVE  \A j \in 1 .. Len(sp) - 1 :
           Unlink(sp, i)[j].data = IF j < i THEN sp[j].data ELSE sp[j + 1].data
<1> DEFINE rest == RemoveAt(sp, i)
<1>1. /\ rest \in Seq(Node)
      /\ Len(rest) = Len(sp) - 1
      /\ \A j \in 1 .. Len(sp) - 1 : rest[j] = IF j < i THEN sp[j] ELSE sp[j + 1]
  BY RemoveAtProperties
<1> HIDE DEF rest
<1>2. Unlink(sp, i) = IF i \in DOMAIN rest THEN [rest EXCEPT ![i].prev = sp[i].prev] ELSE rest
  BY DEF Unlink, rest
<1>3. CASE i \in DOMAIN rest
  <2> DEFINE n == [rest[i] EXCEPT !.prev = sp[i].prev]
  <2>1. rest[i] \in Node
    BY <1>1, <1>3
  <2>2. n.data = rest[i].data
    BY <2>1 DEF Node
  <2>3. Unlink(sp, i) = [rest EXCEPT ![i] = n]
    BY <1>2, <1>3
  <2> HIDE DEF n
  <2> QED
    BY <1>1, <1>3, <2>2, <2>3
<1>4. CASE i \notin DOMAIN rest
  BY <1>1, <1>2, <1>4
<1> QED
  BY <1>3, <1>4

\* deleteTuple keeps every content but one, in a node of its own.
LEMMA UnlinkContents ==
  ASSUME NEW sp \in Seq(Node), NEW i \in DOMAIN sp,
         \A j, k \in DOMAIN sp : sp[j].data = sp[k].data => j = k
  PROVE  LET new == Unlink(sp, i)
         IN  /\ \A j \in DOMAIN new : \E k \in DOMAIN sp \ {i} : new[j].data = sp[k].data
             /\ \A k \in DOMAIN sp \ {i} : \E j \in DOMAIN new : new[j].data = sp[k].data
             /\ \A j, k \in DOMAIN new : new[j].data = new[k].data => j = k
<1> DEFINE new == Unlink(sp, i)
<1>1. /\ new \in Seq(Node) /\ Len(new) = Len(sp) - 1
      /\ \A j \in 1 .. Len(sp) - 1 : new[j].data = IF j < i THEN sp[j].data ELSE sp[j + 1].data
  BY UnlinkProperties, UnlinkData
<1>2. DOMAIN new = 1 .. Len(sp) - 1 /\ DOMAIN sp = 1 .. Len(sp) /\ Len(sp) \in Nat /\ i \in 1 .. Len(sp)
  BY <1>1
<1> DEFINE old(j) == IF j < i THEN j ELSE j + 1
<1>3. \A j \in DOMAIN new : old(j) \in DOMAIN sp \ {i} /\ new[j].data = sp[old(j)].data
  BY <1>1, <1>2
<1>4. \A j, k \in DOMAIN new : old(j) = old(k) => j = k
  BY <1>2
<1>5. \A k \in DOMAIN sp \ {i} : \E j \in DOMAIN new : k = old(j)
  <2>1. ASSUME NEW k \in DOMAIN sp \ {i}, k < i PROVE k \in DOMAIN new /\ k = old(k)
    BY <1>2, <2>1
  <2>2. ASSUME NEW k \in DOMAIN sp \ {i}, ~(k < i) PROVE k - 1 \in DOMAIN new /\ k = old(k - 1)
    BY <1>2, <2>2
  <2> QED
    BY <2>1, <2>2
<1> HIDE DEF new, old
<1>6. \A j, k \in DOMAIN new : new[j].data = new[k].data => j = k
  BY <1>3, <1>4
<1>7. \A k \in DOMAIN sp \ {i} : \E j \in DOMAIN new : new[j].data = sp[k].data
  BY <1>3, <1>5
<1> QED
  BY <1>3, <1>6, <1>7 DEF new

\* storeTuple: what becomes of the contents of a list whose names are distinct.  Either the
\* content takes the place of one content, or it is added to all of them.
LEMMA StoreTupleContents ==
  ASSUME NEW sp \in Seq(Node), WellFormed(sp), NEW t \in Hand, NEW f
  PROVE  LET new == StoreTuple(sp, t, f)
         IN  \/ /\ DOMAIN new = DOMAIN sp
                /\ \E k \in DOMAIN sp :
                     \A j \in DOMAIN sp : new[j].data = IF j = k THEN t.data ELSE sp[j].data
             \/ /\ DOMAIN new = 1 .. Len(sp) + 1
                /\ new[Len(sp) + 1].data = t.data
                /\ \A j \in 1 .. Len(sp) : new[j].data = sp[j].data
             \/ /\ DOMAIN new = 1 .. Len(sp) + 1
                /\ new[1].data = t.data
                /\ \A j \in 1 .. Len(sp) : new[j + 1].data = sp[j].data
<1> DEFINE new == StoreTuple(sp, t, f)
<1>0. new \in Seq(Node)
  BY StoreTupleType
<1>1. CASE \E i \in DOMAIN sp : sp[i].name = t.name
  <2> DEFINE node(i) == IF sp[i].name = t.name
                        THEN [sp[i] EXCEPT !.data = t.data, !.pri = t.pri]
                        ELSE sp[i]
  <2>1. \A i \in DOMAIN sp : node(i).data = IF sp[i].name = t.name THEN t.data ELSE sp[i].data
    <3> TAKE i \in DOMAIN sp
    <3>1. sp[i] \in Node
      OBVIOUS
    <3> QED
      BY <3>1 DEF Node
  <2>2. new = [i \in DOMAIN sp |-> node(i)]
    BY <1>1 DEF StoreTuple
  <2> HIDE DEF node, new
  <2>3. DOMAIN new = DOMAIN sp
    BY <2>2
  <2>4. PICK k \in DOMAIN sp : sp[k].name = t.name
    BY <1>1
  <2>5. \A j \in DOMAIN sp : sp[j].name = t.name <=> j = k
    BY <2>4 DEF WellFormed
  <2>6. \A j \in DOMAIN sp : new[j].data = IF j = k THEN t.data ELSE sp[j].data
    BY <2>1, <2>2, <2>5
  <2> QED
    BY <2>3, <2>6 DEF new
<1>2. CASE ~\E i \in DOMAIN sp : sp[i].name = t.name
  <2> DEFINE node(p) == [name |-> t.name, data |-> t.data, pri |-> t.pri, prev |-> p]
             last == IF sp = <<>> THEN Nil ELSE Last(sp).name
  <2>1. new = IF f = 0 THEN Append(sp, node(last)) ELSE <<node(Nil)>> \o sp
    BY <1>2 DEF StoreTuple
  <2>2. node(last).data = t.data /\ node(Nil).data = t.data
    OBVIOUS
  <2> HIDE DEF node, new, last
  <2>3. CASE f = 0
    <3>1. new = Append(sp, node(last))
      BY <2>1, <2>3
    <3>2. /\ DOMAIN new = 1 .. Len(sp) + 1 /\ new[Len(sp) + 1] = node(last)
          /\ \A j \in 1 .. Len(sp) : new[j] = sp[j]
      BY <3>1
    <3> QED
      BY <2>2, <3>2 DEF new
  <2>4. CASE f # 0
    <3>1. new = <<node(Nil)>> \o sp
      BY <2>1, <2>4
    <3>2. Len(new) = Len(sp) + 1 /\ new[1] = node(Nil) /\ \A j \in 1 .. Len(sp) : new[j + 1] = sp[j]
      BY <3>1
    <3>3. DOMAIN new = 1 .. Len(sp) + 1
      BY <1>0, <3>2
    <3> QED
      BY <2>2, <3>2, <3>3 DEF new
  <2> QED
    BY <2>3, <2>4
<1> QED
  BY <1>1, <1>2

\* So that a new content and the ones that stay each have a node of their own.
LEMMA StoreTupleDistinct ==
  ASSUME NEW sp \in Seq(Node), WellFormed(sp), NEW t \in Hand, NEW f,
         \A j, k \in DOMAIN sp : sp[j].data = sp[k].data => j = k,
         \A j \in DOMAIN sp : sp[j].data # t.data
  PROVE  LET new == StoreTuple(sp, t, f)
         IN  /\ \A j \in DOMAIN new : new[j].data = t.data \/ \E k \in DOMAIN sp : new[j].data = sp[k].data
             /\ \A j, k \in DOMAIN new : new[j].data = new[k].data => j = k
<1> DEFINE new == StoreTuple(sp, t, f)
<1>1. DOMAIN sp = 1 .. Len(sp) /\ Len(sp) \in Nat
  OBVIOUS
<1> HIDE DEF new
<1>2. CASE /\ DOMAIN new = DOMAIN sp
           /\ \E k \in DOMAIN sp :
                \A j \in DOMAIN sp : new[j].data = IF j = k THEN t.data ELSE sp[j].data
  BY <1>2 DEF new
<1>3. CASE /\ DOMAIN new = 1 .. Len(sp) + 1
           /\ new[Len(sp) + 1].data = t.data
           /\ \A j \in 1 .. Len(sp) : new[j].data = sp[j].data
  BY <1>1, <1>3 DEF new
<1>4. CASE /\ DOMAIN new = 1 .. Len(sp) + 1
           /\ new[1].data = t.data
           /\ \A j \in 1 .. Len(sp) : new[j + 1].data = sp[j].data
  <2>1. \A j \in DOMAIN new : j = 1 \/ (j - 1 \in DOMAIN sp /\ new[j].data = sp[j - 1].data)
    BY <1>1, <1>4
  <2>2. \A j, k \in DOMAIN new : new[j].data = new[k].data => j = k
    <3> SUFFICES ASSUME NEW j \in DOMAIN new, NEW k \in DOMAIN new, new[j].data = new[k].data
                 PROVE  j = k
      OBVIOUS
    <3>1. j = 1 <=> k = 1
      BY <1>4, <2>1
    <3>2. CASE j # 1
      BY <1>1, <1>4, <2>1, <3>1, <3>2
    <3> QED
      BY <3>1, <3>2
  <2> QED
    BY <1>4, <2>1, <2>2 DEF new
<1> QED
  BY <1>2, <1>3, <1>4, StoreTupleContents DEF new

\* OpPut: a content that is accepted is new to the handler.
LEMMA OpPutHolds ==
  ASSUME TypeInv, HoldInv, NEW s \in Spaces, NEW c \in Clients, OpPut(s, c)
  PROVE  HoldInv'
<1> DEFINE d == call[c].data
           h == [name |-> call[c].name, data |-> d, pri |-> call[c].pri, client |-> c, op |-> "PUT"]
<1>0. /\ hand \in [Spaces -> Hand \cup {Nil}] /\ accepted \in [Spaces -> SUBSET Data]
      /\ call \in [Clients -> Request \cup {Nil}] /\ taken \in [Spaces -> SUBSET (Data \X Clients)]
  BY DEF TypeInv, TypeOK
<1>1. /\ Putting(c) /\ call[c].space = s /\ hand[s] = Nil /\ daemon[s] = "up"
      /\ hand' = [hand EXCEPT ![s] = h]
      /\ accepted' = [accepted EXCEPT ![s] = @ \cup {d}]
      /\ UNCHANGED <<daemon, space, retrieve, call, used, taken>>
  BY DEF OpPut, Serves, Ready, Putting, clientVars, envVars
<1>2. PutsAreNew(s) /\ Contents(s) /\ PutsAreFresh /\ accepted[s] \subseteq used
  BY <1>1 DEF HoldInv
<1>3. d \in used /\ d \notin accepted[s]
  BY <1>1, <1>2 DEF PutsAreFresh, PutsAreNew
<1>4. /\ hand'[s] = h /\ accepted'[s] = accepted[s] \cup {d} /\ space'[s] = space[s]
      /\ retrieve'[s] = retrieve[s] /\ taken'[s] = taken[s] /\ call' = call /\ call'[c] = call[c]
  BY <1>0, <1>1
<1>5. h.data = d /\ h.op = "PUT" /\ h.client = c /\ h # Nil
  <2>1. call[c] \in Request /\ call[c].op = "PUT"
    BY <1>0, <1>1 DEF Putting
  <2>2. h \in Hand
    BY <2>1, RequestFields DEF Hand
  <2> QED
    BY <2>2, NilAssumption
<1> HIDE DEF h
<1>6. \A x, e : Holder(s, x, e)' <=> Holder(s, x, e)
  BY <1>4 DEF Holder, Guardf
<1>7. PutsAreNew(s)'
  <2> SUFFICES ASSUME NEW e \in Clients, Putting(e)', call'[e].space = s, call'[e].data \in accepted'[s]
               PROVE  e = c
    BY <1>4, <1>5 DEF PutsAreNew
  <2>1. Putting(e) /\ call[e].space = s /\ call[e].data \in accepted[s] \cup {d}
    BY <1>4 DEF Putting
  <2>2. call[e].data \notin accepted[s]
    BY <1>1, <1>2, <2>1 DEF PutsAreNew
  <2> QED
    BY <1>1, <1>2, <2>1, <2>2 DEF PutsAreFresh
<1>8. ListHolds(s)' /\ EntriesHold(s)' /\ HoldersHold(s)'
  BY <1>2, <1>4, <1>6 DEF Contents, ListHolds, EntriesHold, HoldersHold
<1>9. HandHolds(s)'
  <2>1. \A i \in DOMAIN space[s] : space[s][i].data # d
    BY <1>2, <1>3 DEF Contents, ListHolds
  <2>2. \A e \in Clients : ~Holder(s, d, e)
    <3> SUFFICES ASSUME NEW e \in Clients, <<d, e>> \in taken[s] PROVE FALSE
      BY DEF Holder
    <3> QED
      BY <1>2, <1>3 DEF Contents, HoldersHold
  <2> HIDE DEF d
  <2> QED
    BY <1>4, <1>5, <1>6, <2>1, <2>2 DEF HandHolds
<1>10. \A t \in Spaces \ {s} : Kept(t) /\ accepted'[t] = accepted[t]
  BY <1>0, <1>1 DEF Kept
<1>11. CallsEnd
  BY <1>1 DEF CallsEnd
<1> QED
  BY <1>1, <1>2, <1>3, <1>4, <1>7, <1>8, <1>9, <1>10, <1>11, HoldFrame DEF Contents

\* OpRetrieve: the content that is offered again was held by the client it is recovered from.
LEMMA OpRetrieveHolds ==
  ASSUME TypeInv, HoldInv, NEW s \in Spaces, NEW c \in Clients, OpRetrieve(s, c)
  PROVE  HoldInv'
<1>0. /\ hand \in [Spaces -> Hand \cup {Nil}] /\ accepted \in [Spaces -> SUBSET Data]
      /\ retrieve \in [Spaces -> [Clients -> Entry \cup {Nil}]]
      /\ taken \in [Spaces -> SUBSET (Data \X Clients)]
  BY DEF TypeInv, TypeOK
<1>1. /\ ~Guardf(s, c) /\ hand[s] = Nil /\ daemon[s] = "up"
      /\ UNCHANGED <<daemon, space, call, used, accepted, taken>>
  BY DEF OpRetrieve, Ready, clientVars, envVars
<1>2. PutsAreNew(s) /\ Contents(s)
  BY <1>1 DEF HoldInv
<1>3. CallsEnd /\ accepted'[s] \subseteq used
  BY <1>1 DEF CallsEnd, HoldInv
<1>4. CASE retrieve[s][c] # Nil
  <2> DEFINE e == retrieve[s][c]
             h == [name |-> e.name, data |-> e.data, pri |-> e.pri, client |-> c, op |-> "RETRIEVE"]
  <2>1. hand' = [hand EXCEPT ![s] = h] /\ UNCHANGED retrieve
    BY <1>4 DEF OpRetrieve
  <2>2. ~e.fault /\ <<e.data, c>> \in taken[s] /\ e.data \in Data
    BY <1>1, <1>2, <1>4 DEF Guardf, Contents, EntriesHold, TypeInv, EntryFilled
  <2>3. Holder(s, e.data, c) /\ e.data \in accepted[s]
    BY <1>1, <1>2, <2>2 DEF Holder, Contents, HoldersHold
  <2>4. hand'[s] = h /\ h.data = e.data /\ h.op = "RETRIEVE" /\ h.client = c
    BY <1>0, <2>1
  <2>5. \A x, y : Holder(s, x, y)' <=> Holder(s, x, y)
    BY <1>1, <2>1 DEF Holder, Guardf
  <2> HIDE DEF h, e
  <2>6. HandHolds(s)'
    <3>1. \A i \in DOMAIN space[s] : space[s][i].data # e.data
      BY <1>2, <2>3 DEF Contents, HoldersHold
    <3>2. \A y \in Clients : Holder(s, e.data, y) => y = c
      BY <1>2, <2>2, <2>3 DEF Contents, HoldersHold
    <3> QED
      BY <1>1, <2>3, <2>4, <2>5, <3>1, <3>2 DEF HandHolds
  <2>7. ListHolds(s)' /\ EntriesHold(s)' /\ HoldersHold(s)'
    BY <1>1, <1>2, <2>1, <2>5 DEF Contents, ListHolds, EntriesHold, HoldersHold
  <2>8. PutsAreNew(s)'
    BY <1>1, <1>2 DEF PutsAreNew, Putting
  <2>9. \A t \in Spaces \ {s} : Kept(t) /\ accepted'[t] = accepted[t]
    BY <1>0, <1>1, <2>1 DEF Kept
  <2> QED
    BY <1>1, <1>3, <2>6, <2>7, <2>8, <2>9, HoldFrame DEF Contents
<1>5. CASE retrieve[s][c] = Nil
  <2> DEFINE f == [name |-> Nil, data |-> Nil, pri |-> Nil, fault |-> TRUE]
  <2>1. retrieve' = [retrieve EXCEPT ![s][c] = f] /\ UNCHANGED hand
    BY <1>5 DEF OpRetrieve
  <2>2. f.fault
    OBVIOUS
  <2> HIDE DEF f
  <2>3. \A y \in Clients : retrieve'[s][y] = IF y = c THEN f ELSE retrieve[s][y]
    BY <1>0, <2>1
  <2>4. \A x, y : y \in Clients /\ Holder(s, x, y)' => Holder(s, x, y)
    BY <1>1, <1>5, <2>3 DEF Holder, Guardf
  <2>5. HandHolds(s)'
    BY <1>1, <2>1 DEF HandHolds
  <2>6. ListHolds(s)' /\ HoldersHold(s)'
    BY <1>1, <1>2, <2>4 DEF Contents, ListHolds, HoldersHold
  <2>7. EntriesHold(s)'
    BY <1>1, <1>2, <2>2, <2>3 DEF Contents, EntriesHold
  <2>8. PutsAreNew(s)'
    BY <1>1, <1>2, <2>1 DEF PutsAreNew, Putting
  <2>9. \A t \in Spaces \ {s} : Kept(t) /\ accepted'[t] = accepted[t]
    BY <1>0, <1>1, <2>1 DEF Kept
  <2> QED
    BY <1>1, <1>3, <2>5, <2>6, <2>7, <2>8, <2>9, HoldFrame DEF Contents
<1> QED
  BY <1>4, <1>5

\* OpGet with a match: the content leaves the list and goes to a client that is not fenced
\* off; nobody else held it.
LEMMA OpGetHitHolds ==
  ASSUME TypeInv, HoldInv, NEW s \in Spaces, NEW c \in Clients, OpGetHit(s, c)
  PROVE  HoldInv'
<1> DEFINE i == FindTuple(space[s], call[c].expr)
           t == space[s][i]
           sp == space[s]
           b == Backup(retrieve[s][c], t)
<1>0. /\ daemon \in [Spaces -> {"up", "exited", "crashed", "killed"}]
      /\ space \in [Spaces -> Seq(Node)] /\ accepted \in [Spaces -> SUBSET Data]
      /\ retrieve \in [Spaces -> [Clients -> Entry \cup {Nil}]]
      /\ call \in [Clients -> Request \cup {Nil}]
      /\ taken \in [Spaces -> SUBSET (Data \X Clients)]
  BY DEF TypeInv, TypeOK
<1>1. /\ ~Guardf(s, c) /\ hand[s] = Nil /\ daemon[s] = "up"
      /\ call' = [call EXCEPT ![c] = Nil]
      /\ UNCHANGED <<hand, used, accepted>>
  BY DEF OpGetHit, Hit, Serves, Ready, Answered, clientVars, envVars
<1>2. PutsAreNew(s) /\ Contents(s)
  BY <1>1 DEF HoldInv
<1>3. CallsEnd /\ accepted'[s] \subseteq used
  BY <1>0, <1>1 DEF CallsEnd, HoldInv
<1>4. i \in DOMAIN sp /\ sp \in Seq(Node)
  BY <1>0, FindTupleFound DEF OpGetHit, Hit
<1>5. \/ UNCHANGED <<daemon, space, queue, retrieve, taken>>
      \/ /\ taken' = [taken EXCEPT ![s] = @ \cup {<<t.data, c>>}]
         /\ Ends(s, "crashed")
      \/ /\ taken' = [taken EXCEPT ![s] = @ \cup {<<t.data, c>>}]
         /\ space' = [space EXCEPT ![s] = Unlink(sp, i)]
         /\ retrieve' = [retrieve EXCEPT ![s][c] = b]
         /\ UNCHANGED <<daemon, queue>>
  BY DEF OpGetHit
<1>6. CASE UNCHANGED <<daemon, space, queue, retrieve, taken>>
  <2>1. \A r \in Spaces : Kept(r) /\ accepted'[r] = accepted[r]
    BY <1>1, <1>6 DEF Kept
  <2>2. PutsAreNew(s)' /\ Contents(s)'
    BY <1>2, <1>3, <2>1, KeptContents, EndingCalls
  <2> QED
    BY <1>1, <1>3, <2>1, <2>2, HoldFrame
<1>7. CASE Ends(s, "crashed") /\ taken' = [taken EXCEPT ![s] = @ \cup {<<t.data, c>>}]
  <2>1. \A r \in Spaces \ {s} : Kept(r) /\ accepted'[r] = accepted[r]
    BY <1>0, <1>1, <1>7 DEF Kept, Ends
  <2>2. daemon'[s] # "up"
    BY <1>0, <1>7 DEF Ends
  <2> QED
    BY <1>1, <1>3, <2>1, <2>2, HoldFrame
<1>8. CASE /\ taken' = [taken EXCEPT ![s] = @ \cup {<<t.data, c>>}]
           /\ space' = [space EXCEPT ![s] = Unlink(sp, i)]
           /\ retrieve' = [retrieve EXCEPT ![s][c] = b]
           /\ UNCHANGED <<daemon, queue>>
  <2>1. \A r \in Spaces \ {s} : Kept(r) /\ accepted'[r] = accepted[r]
    BY <1>0, <1>1, <1>8 DEF Kept
  <2>2. t \in Node /\ t.data \in Data /\ t.data \in accepted[s]
    <3>1. t \in Node
      BY <1>4
    <3> QED
      BY <1>2, <1>4, <3>1 DEF Node, Contents, ListHolds
  <2>3. b.data = t.data /\ ~b.fault
    BY <1>1 DEF Backup, Guardf
  <2> DEFINE new == Unlink(sp, i)
  <2>4. /\ \A j \in DOMAIN new : \E k \in DOMAIN sp \ {i} : new[j].data = sp[k].data
        /\ \A j, k \in DOMAIN new : new[j].data = new[k].data => j = k
    BY <1>2, <1>4, UnlinkContents DEF Contents, ListHolds
  <2>5. /\ taken'[s] = taken[s] \cup {<<t.data, c>>} /\ space'[s] = new
        /\ hand'[s] = Nil /\ accepted'[s] = accepted[s]
        /\ \A y \in Clients : retrieve'[s][y] = IF y = c THEN b ELSE retrieve[s][y]
    BY <1>0, <1>1, <1>8
  <2>6. \A j \in DOMAIN sp \ {i} : sp[j].data # t.data
    BY <1>2, <1>4 DEF Contents, ListHolds
  <2>7. \A e \in Clients : ~Holder(s, t.data, e)
    BY <1>2, <1>4 DEF Contents, HoldersHold
  <2> HIDE DEF new, b, t, sp, i
  <2>8. \A x, e : e \in Clients /\ Holder(s, x, e)' => Holder(s, x, e) \/ (x = t.data /\ e = c)
    BY <1>1, <2>3, <2>5 DEF Holder, Guardf
  <2>9. ListHolds(s)'
    BY <1>2, <2>4, <2>5 DEF Contents, ListHolds, sp
  <2>10. HandHolds(s)'
    BY <2>5 DEF HandHolds
  <2>11. HoldersHold(s)'
    <3>1. \A p \in taken'[s] : p[1] \in accepted'[s]
      BY <1>2, <2>2, <2>5 DEF Contents, HoldersHold
    <3>2. \A d \in Data, e, g \in Clients : Holder(s, d, e)' /\ Holder(s, d, g)' => e = g
      BY <1>2, <2>7, <2>8 DEF Contents, HoldersHold
    <3>3. (\A e \in Clients : \A j \in DOMAIN space[s] : ~Holder(s, space[s][j].data, e))'
      <4> SUFFICES ASSUME NEW e \in Clients, NEW j \in DOMAIN new, NEW d, d = new[j].data, Holder(s, d, e)'
                   PROVE  FALSE
        BY <2>5
      <4>1. PICK k \in DOMAIN sp \ {i} : d = sp[k].data
        BY <2>4
      <4>2. Holder(s, sp[k].data, e)
        BY <2>6, <2>8, <4>1
      <4> QED
        BY <1>2, <4>2 DEF Contents, HoldersHold, sp
    <3> QED
      BY <3>1, <3>2, <3>3 DEF HoldersHold
  <2>12. EntriesHold(s)'
    BY <1>2, <2>3, <2>5 DEF Contents, EntriesHold
  <2>13. PutsAreNew(s)'
    BY <1>1, <1>2, <1>3, <2>5, EndingCalls DEF PutsAreNew
  <2> QED
    BY <1>1, <1>3, <2>1, <2>9, <2>10, <2>11, <2>12, <2>13, HoldFrame DEF Contents
<1> QED
  BY <1>5, <1>6, <1>7, <1>8

\* The end of OpPut and OpRetrieve: the PUT is answered, or the client is fenced off; the
\* other entries are the ones given.
LEMMA FinishEffect ==
  ASSUME TypeInv, NEW s \in Spaces, hand[s] # Nil,
         NEW back \in [Clients -> Entry \cup {Nil}],
         \A d \in Clients : retrieve[s][d] # Nil => back[d] # Nil,
         Finish(s, back)
  PROVE  /\ hand'[s] = Nil
         /\ \A t \in Spaces \ {s} : hand'[t] = hand[t] /\ retrieve'[t] = retrieve[t]
         /\ CallsEnd
         /\ hand[s].op = "PUT" => call'[hand[s].client] = Nil
         /\ \A y \in Clients :
              hand[s].op = "PUT" \/ y # hand[s].client => retrieve'[s][y] = back[y]
         /\ hand[s].op = "RETRIEVE" =>
              /\ retrieve'[s][hand[s].client] # Nil
              /\ retrieve'[s][hand[s].client].fault
              /\ retrieve'[s][hand[s].client].data = Nil
<1> DEFINE h == hand[s]
<1>0. /\ hand \in [Spaces -> Hand \cup {Nil}] /\ call \in [Clients -> Request \cup {Nil}]
      /\ retrieve \in [Spaces -> [Clients -> Entry \cup {Nil}]]
  BY DEF TypeInv, TypeOK
<1>1. h \in Hand /\ h.client \in Clients /\ h.op \in {"PUT", "RETRIEVE"}
  BY <1>0 DEF Hand
<1>2. hand' = [hand EXCEPT ![s] = Nil]
  BY DEF Finish
<1> HIDE DEF h
<1>3. CASE h.op = "PUT"
  <2>1. call' = [call EXCEPT ![h.client] = Nil] /\ retrieve' = [retrieve EXCEPT ![s] = back]
    BY <1>3 DEF Finish, Answered, h
  <2>2. CallsEnd /\ call'[h.client] = Nil
    BY <1>0, <1>1, <2>1 DEF CallsEnd
  <2> QED
    BY <1>0, <1>2, <1>3, <2>1, <2>2 DEF h
<1>4. CASE h.op = "RETRIEVE"
  <2> DEFINE e == [back[h.client] EXCEPT !.fault = TRUE, !.data = Nil]
             fenced == [back EXCEPT ![h.client] = e]
  <2>1. retrieve' = [retrieve EXCEPT ![s] = fenced] /\ call' = call
    BY <1>4 DEF Finish, h
  <2>2. back[h.client] \in Entry
    BY <1>1, <1>4 DEF TypeInv, RetrievedHasEntry, h
  <2>3. e \in Entry /\ e.fault /\ e.data = Nil
    BY <2>2 DEF Entry
  <2>4. e # Nil
    BY <2>3, NilAssumption
  <2> HIDE DEF e
  <2>5. fenced[h.client] = e /\ \A y \in Clients \ {h.client} : fenced[y] = back[y]
    BY <1>1
  <2> HIDE DEF fenced
  <2>6. retrieve'[s] = fenced /\ \A t \in Spaces \ {s} : retrieve'[t] = retrieve[t]
    BY <1>0, <2>1
  <2>7. CallsEnd
    BY <2>1 DEF CallsEnd
  <2>8. \A t \in Spaces \ {s} : hand'[t] = hand[t]
    BY <1>0, <1>2
  <2>9. hand'[s] = Nil
    BY <1>0, <1>2
  <2> QED
    BY <1>4, <2>3, <2>4, <2>5, <2>6, <2>7, <2>8, <2>9 DEF h
<1> QED
  BY <1>1, <1>3, <1>4

\* A PUT that is answered is not in flight any more, so that the others are still new.
LEMMA FinishedPuts ==
  ASSUME NEW s \in Spaces, PutsAreNew(s), CallsEnd, accepted'[s] = accepted[s],
         hand[s].op = "PUT" => call'[hand[s].client] = Nil
  PROVE  PutsAreNew(s)'
<1> SUFFICES ASSUME NEW c \in Clients, Putting(c)', call'[c].space = s, call'[c].data \in accepted[s]
             PROVE  FALSE
  BY DEF PutsAreNew
<1>1. Putting(c) /\ call'[c] = call[c]
  BY EndingCalls
<1>2. hand[s].op = "PUT" /\ hand[s].client = c
  BY <1>1 DEF PutsAreNew
<1> QED
  BY <1>1, <1>2 DEF Putting

\* storeTuple and what follows: the content is in the list now, and nobody holds it, since
\* the client it is recovered from is fenced off.
LEMMA StoreHandHolds ==
  ASSUME TypeInv, ListInv, HoldInv, NEW s \in Spaces, StoreHand(s)
  PROVE  HoldInv'
<1> DEFINE h == hand[s]
           f == IF h.op = "PUT" THEN 0 ELSE 1
           sp == space[s]
           new == StoreTuple(sp, h, f)
<1>0. /\ space \in [Spaces -> Seq(Node)] /\ retrieve \in [Spaces -> [Clients -> Entry \cup {Nil}]]
      /\ hand \in [Spaces -> Hand \cup {Nil}]
  BY DEF TypeInv, TypeOK
<1>1. /\ daemon[s] = "up" /\ h # Nil /\ h \in Hand
      /\ space' = [space EXCEPT ![s] = new]
      /\ Finish(s, retrieve[s])
      /\ UNCHANGED <<daemon, used, accepted, taken>>
  BY <1>0 DEF StoreHand, envVars
<1>2. PutsAreNew(s) /\ Contents(s) /\ accepted[s] \subseteq used
  BY <1>1 DEF HoldInv
<1>3. WellFormed(sp) /\ sp \in Seq(Node)
  BY <1>0 DEF ListInv
<1>4. retrieve[s] \in [Clients -> Entry \cup {Nil}]
  BY <1>0
<1>5. /\ hand'[s] = Nil
      /\ \A t \in Spaces \ {s} : hand'[t] = hand[t] /\ retrieve'[t] = retrieve[t]
      /\ CallsEnd
      /\ h.op = "PUT" => call'[h.client] = Nil
      /\ \A y \in Clients : h.op = "PUT" \/ y # h.client => retrieve'[s][y] = retrieve[s][y]
      /\ h.op = "RETRIEVE" => retrieve'[s][h.client] # Nil /\ retrieve'[s][h.client].fault
  BY <1>1, <1>4, FinishEffect
<1>6. /\ \A j \in DOMAIN new : new[j].data = h.data \/ \E k \in DOMAIN sp : new[j].data = sp[k].data
      /\ \A j, k \in DOMAIN new : new[j].data = new[k].data => j = k
  BY <1>1, <1>2, <1>3, StoreTupleDistinct DEF Contents, ListHolds, HandHolds
<1>7. /\ space'[s] = new /\ accepted'[s] = accepted[s] /\ taken'[s] = taken[s]
      /\ h.op \in {"PUT", "RETRIEVE"} /\ h.client \in Clients
  BY <1>0, <1>1 DEF Hand
<1>8. /\ h.data \in accepted[s]
      /\ \A c \in Clients : Holder(s, h.data, c) => h.op = "RETRIEVE" /\ h.client = c
  BY <1>1, <1>2 DEF Contents, HandHolds
<1> HIDE DEF new, h, f
<1>9. \A x, e : e \in Clients /\ Holder(s, x, e)' => Holder(s, x, e) /\ x # h.data
  <2> SUFFICES ASSUME NEW x, NEW e \in Clients, Holder(s, x, e)' PROVE Holder(s, x, e) /\ x # h.data
    OBVIOUS
  <2>1. ~(h.op = "RETRIEVE" /\ e = h.client)
    BY <1>5 DEF Holder, Guardf
  <2>2. retrieve'[s][e] = retrieve[s][e]
    BY <1>5, <1>7, <2>1
  <2>3. Holder(s, x, e)
    BY <1>7, <2>2 DEF Holder, Guardf
  <2> QED
    BY <1>8, <2>1, <2>3
<1>10. ListHolds(s)'
  BY <1>2, <1>6, <1>7, <1>8 DEF Contents, ListHolds
<1>11. HandHolds(s)'
  BY <1>5 DEF HandHolds
<1>12. HoldersHold(s)'
  <2>1. \A p \in taken'[s] : p[1] \in accepted'[s]
    BY <1>2, <1>7 DEF Contents, HoldersHold
  <2>2. \A d \in Data, e, g \in Clients : Holder(s, d, e)' /\ Holder(s, d, g)' => e = g
    BY <1>2, <1>9 DEF Contents, HoldersHold
  <2>3. (\A e \in Clients : \A j \in DOMAIN space[s] : ~Holder(s, space[s][j].data, e))'
    <3> SUFFICES ASSUME NEW e \in Clients, NEW j \in DOMAIN new, NEW d, d = new[j].data, Holder(s, d, e)'
                 PROVE  FALSE
      BY <1>7
    <3>1. Holder(s, d, e) /\ d # h.data
      BY <1>9
    <3>2. PICK k \in DOMAIN sp : d = sp[k].data
      BY <1>6, <3>1
    <3> QED
      BY <1>2, <3>1, <3>2 DEF Contents, HoldersHold
  <2> QED
    BY <2>1, <2>2, <2>3 DEF HoldersHold
<1>13. EntriesHold(s)'
  BY <1>2, <1>5, <1>7 DEF Contents, EntriesHold
<1>14. PutsAreNew(s)'
  BY <1>2, <1>5, <1>7, FinishedPuts DEF h
<1>15. \A t \in Spaces \ {s} : Kept(t) /\ accepted'[t] = accepted[t]
  BY <1>0, <1>1, <1>5 DEF Kept
<1> QED
  BY <1>1, <1>2, <1>5, <1>7, <1>10, <1>11, <1>12, <1>13, <1>14, <1>15, HoldFrame DEF Contents

\* An iteration of consumeTuple: a READ, or a request of a dead client, moves nothing; a GET
\* takes the content out of the hand, and the client it was recovered from is fenced off.
LEMMA ConsumeTupleHolds ==
  ASSUME TypeInv, HoldInv, NEW s \in Spaces, ConsumeTuple(s)
  PROVE  HoldInv'
<1> DEFINE h == hand[s]
           i == FindRequest(queue[s], h.name)
           c == queue[s][i].client
           back == [retrieve[s] EXCEPT ![c] = Backup(retrieve[s][c], h)]
<1>0. /\ retrieve \in [Spaces -> [Clients -> Entry \cup {Nil}]]
      /\ hand \in [Spaces -> Hand \cup {Nil}] /\ queue \in [Spaces -> Seq(Queued)]
      /\ taken \in [Spaces -> SUBSET (Data \X Clients)]
  BY DEF TypeInv, TypeOK
<1>1. /\ daemon[s] = "up" /\ h # Nil /\ h \in Hand
      /\ \/ UNCHANGED <<taken, hand, retrieve, call>>
         \/ /\ taken' = [taken EXCEPT ![s] = @ \cup {<<h.data, c>>}]
            /\ Finish(s, back)
      /\ UNCHANGED <<daemon, space, used, accepted>>
  BY <1>0 DEF ConsumeTuple, envVars
<1>2. PutsAreNew(s) /\ Contents(s) /\ accepted[s] \subseteq used
  BY <1>1 DEF HoldInv
<1>3. c \in Clients /\ h.name \in Names /\ h.data \in Data /\ h.pri \in Priorities
      /\ h.op \in {"PUT", "RETRIEVE"} /\ h.client \in Clients
  <2>1. i \in DOMAIN queue[s] /\ queue[s] \in Seq(Queued)
    BY <1>0, FindRequestFound DEF ConsumeTuple
  <2>2. queue[s][i] \in Queued
    BY <2>1
  <2> QED
    BY <1>1, <2>2 DEF Queued, Hand
<1>4. /\ back \in [Clients -> Entry \cup {Nil}]
      /\ \A d \in Clients : retrieve[s][d] # Nil => back[d] # Nil
  BY <1>3, BackupEntries
<1>5. CASE UNCHANGED <<taken, hand, retrieve, call>>
  <2>1. \A r \in Spaces : Kept(r) /\ accepted'[r] = accepted[r]
    BY <1>1, <1>5 DEF Kept
  <2>2. CallsEnd
    BY <1>5 DEF CallsEnd
  <2>3. PutsAreNew(s)' /\ Contents(s)'
    BY <1>2, <2>1, <2>2, KeptContents, EndingCalls
  <2> QED
    BY <1>1, <1>2, <2>1, <2>2, <2>3, HoldFrame
<1>6. CASE taken' = [taken EXCEPT ![s] = @ \cup {<<h.data, c>>}] /\ Finish(s, back)
  <2> DEFINE b == Backup(retrieve[s][c], h)
  <2>1. \A y \in Clients : back[y] = IF y = c THEN b ELSE retrieve[s][y]
    BY <1>0
  <2>2. b.data = h.data /\ (b.fault <=> Guardf(s, c))
    <3>1. retrieve[s][c] # Nil => retrieve[s][c] \in Entry
      BY <1>0, <1>3
    <3> QED
      BY <3>1 DEF Backup, Guardf, Entry
  <2>3. /\ hand'[s] = Nil
        /\ \A t \in Spaces \ {s} : hand'[t] = hand[t] /\ retrieve'[t] = retrieve[t]
        /\ CallsEnd
        /\ h.op = "PUT" => call'[h.client] = Nil
        /\ \A y \in Clients : h.op = "PUT" \/ y # h.client => retrieve'[s][y] = back[y]
        /\ h.op = "RETRIEVE" => retrieve'[s][h.client] # Nil /\ retrieve'[s][h.client].fault
    <3> HIDE DEF back
    <3> QED
      BY <1>1, <1>4, <1>6, FinishEffect
  <2>4. taken'[s] = taken[s] \cup {<<h.data, c>>} /\ space'[s] = space[s] /\ accepted'[s] = accepted[s]
    BY <1>0, <1>1, <1>6
  <2>5. /\ h.data \in accepted[s]
        /\ \A k \in DOMAIN space[s] : space[s][k].data # h.data
        /\ \A e \in Clients : Holder(s, h.data, e) => h.op = "RETRIEVE" /\ h.client = e
    BY <1>1, <1>2 DEF Contents, HandHolds
  <2>6. \A t \in Spaces \ {s} : Kept(t) /\ accepted'[t] = accepted[t]
    BY <1>0, <1>1, <1>6, <2>3 DEF Kept
  <2>7. PutsAreNew(s)'
    BY <1>2, <2>3, <2>4, FinishedPuts DEF h
  <2> HIDE DEF back, b, h, c, i
  \* Who holds something now held it before, and it is not the content in hand, or is the
  \* client it went to.
  <2>8. \A x, e : e \in Clients /\ Holder(s, x, e)' =>
            \/ Holder(s, x, e) /\ x # h.data
            \/ x = h.data /\ e = c
    <3> SUFFICES ASSUME NEW x, NEW e \in Clients, Holder(s, x, e)'
                 PROVE  \/ Holder(s, x, e) /\ x # h.data
                        \/ x = h.data /\ e = c
      OBVIOUS
    <3>1. ~(h.op = "RETRIEVE" /\ e = h.client)
      BY <2>3 DEF Holder, Guardf
    <3>2. retrieve'[s][e] = back[e]
      BY <1>3, <2>3, <3>1
    <3>3. ~Guardf(s, e)
      <4>1. CASE e = c
        <5>1. retrieve'[s][e] = b
          BY <2>1, <3>2, <4>1
        <5>2. b # Nil
          BY <1>3, <1>4, <2>1, <4>1, BackupType, NilAssumption, <1>0 DEF b
        <5> QED
          BY <2>2, <4>1, <5>1, <5>2 DEF Holder, Guardf
      <4>2. CASE e # c
        BY <2>1, <3>2, <4>2 DEF Holder, Guardf
      <4> QED
        BY <4>1, <4>2
    <3>4. <<x, e>> \in taken[s] \/ (x = h.data /\ e = c)
      BY <2>4 DEF Holder
    <3>5. CASE x = h.data
      BY <2>5, <3>1, <3>3, <3>4, <3>5 DEF Holder
    <3>6. CASE x # h.data
      BY <3>3, <3>4, <3>6 DEF Holder
    <3> QED
      BY <3>5, <3>6
  <2>9. ListHolds(s)'
    BY <1>2, <2>4 DEF Contents, ListHolds
  <2>10. HandHolds(s)'
    BY <2>3 DEF HandHolds
  <2>11. HoldersHold(s)'
    <3>1. \A p \in taken'[s] : p[1] \in accepted'[s]
      BY <1>2, <2>4, <2>5 DEF Contents, HoldersHold
    <3>2. \A d \in Data, e, g \in Clients : Holder(s, d, e)' /\ Holder(s, d, g)' => e = g
      BY <1>2, <2>8 DEF Contents, HoldersHold
    <3>3. (\A e \in Clients : \A j \in DOMAIN space[s] : ~Holder(s, space[s][j].data, e))'
      <4> SUFFICES ASSUME NEW e \in Clients, NEW j \in DOMAIN space[s], NEW d, d = space[s][j].data,
                          Holder(s, d, e)'
                   PROVE  FALSE
        BY <2>4
      <4>1. d # h.data
        BY <2>5
      <4> QED
        BY <1>2, <2>8, <4>1 DEF Contents, HoldersHold
    <3> QED
      BY <3>1, <3>2, <3>3 DEF HoldersHold
  <2>12. EntriesHold(s)'
    <3> SUFFICES ASSUME NEW e \in Clients, retrieve'[s][e] # Nil, ~retrieve'[s][e].fault
                 PROVE  <<retrieve'[s][e].data, e>> \in taken'[s]
      BY DEF EntriesHold
    <3>1. ~(h.op = "RETRIEVE" /\ e = h.client)
      BY <2>3
    <3>2. retrieve'[s][e] = back[e]
      BY <1>3, <2>3, <3>1
    <3>3. CASE e = c
      BY <2>1, <2>2, <2>4, <3>2, <3>3
    <3>4. CASE e # c
      BY <1>2, <2>1, <2>4, <3>2, <3>4 DEF Contents, EntriesHold
    <3> QED
      BY <3>3, <3>4
  <2> QED
    BY <1>1, <1>2, <2>3, <2>4, <2>6, <2>7, <2>9, <2>10, <2>11, <2>12, HoldFrame DEF Contents
<1> QED
  BY <1>1, <1>5, <1>6

\* A call of a client: a PUT brings a content nobody has seen.
LEMMA CallHolds ==
  ASSUME TypeInv, HoldInv, NEW c \in Clients, NEW r \in Requests, Call(c, r)
  PROVE  HoldInv'
<1>0. call \in [Clients -> Request \cup {Nil}] /\ r \in Request
  BY RequestsAssumption DEF TypeInv, TypeOK
<1>1. /\ call[c] = Nil /\ call' = [call EXCEPT ![c] = r]
      /\ r.op = "PUT" => r.data \notin used
      /\ used' = IF r.op = "PUT" THEN used \cup {r.data} ELSE used
      /\ UNCHANGED <<daemon, space, retrieve, hand, accepted, taken>>
  BY DEF Call, Idle, tshVars
<1>2. \A s \in Spaces : Kept(s)
  BY <1>1 DEF Kept
<1>3. \A e \in Clients : call'[e] = IF e = c THEN r ELSE call[e]
  BY <1>0, <1>1
<1>4. PutsAreFresh'
  BY <1>1, <1>3 DEF HoldInv, PutsAreFresh, Putting
<1>5. ASSUME NEW s \in Spaces, daemon'[s] = "up" PROVE PutsAreNew(s)' /\ Contents(s)'
  <2>1. PutsAreNew(s) /\ Contents(s) /\ accepted[s] \subseteq used
    BY <1>1, <1>5 DEF HoldInv
  <2>2. Contents(s)'
    BY <1>2, <2>1, KeptContents
  <2>3. PutsAreNew(s)'
    BY <1>1, <1>3, <2>1 DEF PutsAreNew, Putting
  <2> QED
    BY <2>2, <2>3
<1>6. \A s \in Spaces : accepted'[s] \subseteq used'
  BY <1>1 DEF HoldInv
<1> QED
  BY <1>4, <1>5, <1>6 DEF HoldInv

\* A step in which no handler that goes on changes what it holds.
LEMMA QuietHolds ==
  ASSUME HoldInv, CallsEnd, UNCHANGED <<used, accepted>>,
         \A s \in Spaces : daemon'[s] = "up" => Kept(s)
  PROVE  HoldInv'
<1>1. ASSUME NEW s \in Spaces, daemon'[s] = "up" PROVE PutsAreNew(s)' /\ Contents(s)'
  <2>1. Kept(s)
    BY <1>1
  <2>2. PutsAreNew(s) /\ Contents(s)
    BY <1>1, <2>1 DEF HoldInv, Kept
  <2> QED
    BY <2>1, <2>2, KeptContents, EndingCalls
<1>2. PutsAreFresh'
  BY EndingCalls DEF HoldInv
<1> QED
  BY <1>1, <1>2 DEF HoldInv

\* A handler that ends, and its neighbours.
LEMMA EndsQuietly ==
  ASSUME TypeInv, NEW s \in Spaces, NEW how \in {"exited", "crashed", "killed"}, Ends(s, how),
         UNCHANGED <<hand, accepted, taken>>
  PROVE  \A t \in Spaces : daemon'[t] = "up" => Kept(t)
BY DEF Ends, Kept, TypeInv, TypeOK

\* No step breaks the invariant.
LEMMA HoldStep == TypeInv /\ ListInv /\ HoldInv /\ [Next]_vars => HoldInv'
<1> SUFFICES ASSUME TypeInv, ListInv, HoldInv, [Next]_vars PROVE HoldInv'
  OBVIOUS
<1>0. call \in [Clients -> Request \cup {Nil}]
  BY DEF TypeInv, TypeOK
<1>1. CASE UNCHANGED vars
  <2>1. CallsEnd /\ \A s \in Spaces : Kept(s)
    BY <1>1 DEF CallsEnd, Kept, vars, tshVars, clientVars, envVars
  <2> QED
    BY <1>1, <2>1, QuietHolds DEF vars, envVars
<1>2. ASSUME NEW c \in Clients, Client(c) PROVE HoldInv'
  <2>1. ASSUME NEW r \in Requests, Call(c, r) PROVE HoldInv'
    BY <2>1, CallHolds
  <2>2. CASE CallFails(c) \/ Crash(c) \/ Suspect(c)
    <3>1. call' = call \/ call' = [call EXCEPT ![c] = Nil]
      BY <2>2 DEF CallFails, Crash, Suspect, clientVars
    <3>2. CallsEnd
      BY <1>0, <3>1 DEF CallsEnd
    <3>3. UNCHANGED <<daemon, space, retrieve, hand, used, accepted, taken>>
      BY <2>2 DEF CallFails, Crash, Suspect, tshVars, envVars
    <3>4. \A s \in Spaces : Kept(s)
      BY <3>3 DEF Kept
    <3> QED
      BY <3>2, <3>3, <3>4, QuietHolds
  <2> QED
    BY <1>2, <2>1, <2>2 DEF Client
<1>3. ASSUME NEW s \in Spaces, NEW c \in Clients, Serve(s, c) PROVE HoldInv'
  <2>1. CASE OpPut(s, c)
    BY <2>1, OpPutHolds
  <2>2. CASE OpGetHit(s, c)
    BY <2>2, OpGetHitHolds
  <2>3. CASE OpRetrieve(s, c)
    BY <2>3, OpRetrieveHolds
  <2>4. CASE \/ OpGuarded(s, c) \/ OpGetMiss(s, c) \/ OpGetLost(s, c)
             \/ OpTshSot(s, c) \/ OpTshEot(s, c) \/ OpGethostInfo(s, c)
    <3>1. /\ call' = [call EXCEPT ![c] = Nil]
          /\ UNCHANGED <<hand, used, accepted, taken>>
      BY <2>4 DEF OpGuarded, OpGetMiss, OpGetLost, OpTshSot, OpTshEot, OpGethostInfo, Answered,
                  tshVars, envVars
    <3>2. CallsEnd
      BY <1>0, <3>1 DEF CallsEnd
    <3>3. UNCHANGED <<daemon, space, retrieve>> \/ \E how \in {"exited", "killed"} : Ends(s, how)
      <4>1. CASE OpTshEot(s, c)
        BY <4>1 DEF OpTshEot, SendTidInfo
      <4>2. CASE OpGetLost(s, c)
        BY <4>2, Zenon DEF OpGetLost
      <4> QED
        BY <2>4, <4>1, <4>2 DEF OpGuarded, OpGetMiss, OpTshSot, OpGethostInfo, tshVars
    <3>4. \A t \in Spaces : daemon'[t] = "up" => Kept(t)
      <4>1. CASE UNCHANGED <<daemon, space, retrieve>>
        BY <3>1, <4>1 DEF Kept
      <4>2. CASE \E how \in {"exited", "killed"} : Ends(s, how)
        BY <3>1, <4>2, EndsQuietly
      <4> QED
        BY <3>3, <4>1, <4>2
    <3> QED
      BY <3>1, <3>2, <3>4, QuietHolds
  <2> QED
    BY <1>3, <2>1, <2>2, <2>3, <2>4 DEF Serve
<1>4. ASSUME NEW s \in Spaces, ConsumeTuple(s) PROVE HoldInv'
  BY <1>4, ConsumeTupleHolds
<1>5. ASSUME NEW s \in Spaces, StoreHand(s) PROVE HoldInv'
  BY <1>5, StoreHandHolds
<1>6. ASSUME NEW s \in Spaces, OpExit(s) PROVE HoldInv'
  <2>1. Ends(s, "exited") /\ UNCHANGED <<hand, call, used, accepted, taken>>
    BY <1>6 DEF OpExit, clientVars, envVars
  <2>2. CallsEnd
    BY <2>1 DEF CallsEnd
  <2> QED
    BY <2>1, <2>2, EndsQuietly, QuietHolds
<1> QED
  BY <1>1, <1>2, <1>3, <1>4, <1>5, <1>6 DEF Next

\* The invariants of a handler's contents and lists hold always.
LEMMA HoldInvariant == Spec => [](TypeInv /\ ListInv /\ HoldInv)
<1>1. Init => ListInv /\ HoldInv
  <2> SUFFICES ASSUME Init PROVE ListInv /\ HoldInv
    OBVIOUS
  <2>1. ListInv
    BY DEF Init, ListInv, WellFormed
  <2>2. PutsAreFresh
    BY DEF Init, PutsAreFresh, Putting
  <2>3. \A s \in Spaces : accepted[s] \subseteq used
    BY DEF Init
  <2>4. \A s \in Spaces : PutsAreNew(s) /\ Contents(s)
    BY DEF Init, PutsAreNew, Putting, Contents, ListHolds, HandHolds, HoldersHold, EntriesHold, Holder
  <2> QED
    BY <2>1, <2>2, <2>3, <2>4 DEF HoldInv
<1> QED
  BY <1>1, ListStep, HoldStep, TypeInvariant, PTL DEF Spec

\* Of the clients a content was handed to, at most one is not fenced off, whoever crashes or
\* is suspected while the content is in flight, in the list, in hand or in a backup entry
\* (deleteTuple, consumeTuple, OpRetrieve, guardf).
THEOREM OneHolder == Spec => []OneUnfencedHolder
<1>1. HoldInv => OneUnfencedHolder
  <2> SUFFICES ASSUME HoldInv, NEW s \in Spaces, daemon[s] = "up", NEW d \in Data
               PROVE  Cardinality({c \in Clients : <<d, c>> \in taken[s] /\ ~Guardf(s, c)}) <= 1
    BY DEF OneUnfencedHolder
  <2> DEFINE H == {c \in Clients : <<d, c>> \in taken[s] /\ ~Guardf(s, c)}
  <2>1. \A x, y \in H : x = y
    BY DEF HoldInv, Contents, HoldersHold, Holder
  <2> HIDE DEF H
  <2> QED
    BY <2>1, AtMostOne DEF H
<1> QED
  BY <1>1, HoldInvariant, PTL

-----------------------------------------------------------------------------
(* Task maps.                                                               *)

\* While no client is lost, the handler counts no more fetched tasks than contents that it
\* has given to somebody.
Fetched(s) == {p[1] : p \in taken[s]}
FetchInv ==
  /\ alive = Clients
  /\ \A s \in Spaces : IsFiniteSet(Fetched(s)) /\ info[s].fetched <= Cardinality(Fetched(s))

\* What has been given once more.
LEMMA GivenOnce ==
  ASSUME NEW S, NEW d, NEW c
  PROVE  {p[1] : p \in S \cup {<<d, c>>}} = {p[1] : p \in S} \cup {d}
<1>1. \A x \in {p[1] : p \in S \cup {<<d, c>>}} : x \in {p[1] : p \in S} \/ x = d
  OBVIOUS
<1>2. \A x \in {p[1] : p \in S} : x \in {p[1] : p \in S \cup {<<d, c>>}}
  OBVIOUS
<1>3. d \in {p[1] : p \in S \cup {<<d, c>>}}
  <2>1. <<d, c>> \in S \cup {<<d, c>>} /\ <<d, c>>[1] = d
    OBVIOUS
  <2> QED
    BY <2>1
<1> QED
  BY <1>1, <1>2, <1>3

\* Nobody is fenced off then, and what is in hand has never been given away.
LEMMA NobodyIsFenced ==
  ASSUME TypeInv, FenceInv, HoldInv, FetchInv, NEW s \in Spaces, daemon[s] = "up", hand[s] # Nil
  PROVE  hand[s].data \notin Fetched(s)
<1>1. suspected = {}
  BY DEF TypeInv, TypeOK, FetchInv, FenceInv, OnlyDeadSuspected
<1>2. \A c \in Clients : ~Guardf(s, c)
  BY <1>1 DEF FenceInv, FencedSuspected
<1>3. hand[s].op # "RETRIEVE"
  BY <1>1 DEF FenceInv, FencedSuspected
<1>4. \A c \in Clients : <<hand[s].data, c>> \notin taken[s]
  BY <1>2, <1>3 DEF HoldInv, Contents, HandHolds, Holder
<1>5. taken[s] \subseteq Data \X Clients
  BY DEF TypeInv, TypeOK
<1> QED
  BY <1>4, <1>5 DEF Fetched

\* A request of the queue that consumeTuple answers counts one task and gives one content.
LEMMA ConsumeTupleCounts ==
  ASSUME TypeInv, FenceInv, HoldInv, FetchInv, NEW s \in Spaces, ConsumeTuple(s)
  PROVE  FetchInv'
<1>0. /\ info \in [Spaces -> [eot: BOOLEAN, tids: Nat, fetched: Nat, tidq: Seq(Clients)]]
      /\ taken \in [Spaces -> SUBSET (Data \X Clients)]
  BY DEF TypeInv, TypeOK
<1>1. alive' = Clients
  BY DEF ConsumeTuple, envVars, FetchInv
<1>2. CASE UNCHANGED <<info, taken>>
  BY <1>1, <1>2 DEF FetchInv, Fetched
<1>3. CASE ~UNCHANGED <<info, taken>>
  <2>1. PICK c : /\ info' = [info EXCEPT ![s].fetched = @ + 1]
                 /\ taken' = [taken EXCEPT ![s] = @ \cup {<<hand[s].data, c>>}]
    BY <1>3 DEF ConsumeTuple
  <2>2. daemon[s] = "up" /\ hand[s] # Nil
    BY DEF ConsumeTuple
  <2>3. Fetched(s)' = Fetched(s) \cup {hand[s].data}
    <3>1. taken'[s] = taken[s] \cup {<<hand[s].data, c>>}
      BY <1>0, <2>1
    <3>2. Fetched(s)' = {p[1] : p \in taken'[s]}
      BY DEF Fetched
    <3> QED
      BY <3>1, <3>2, GivenOnce DEF Fetched
  <2>4. IsFiniteSet(Fetched(s)) /\ info[s].fetched <= Cardinality(Fetched(s))
    BY DEF FetchInv
  <2>5. IsFiniteSet(Fetched(s)') /\ Cardinality(Fetched(s)') = Cardinality(Fetched(s)) + 1
    BY <2>2, <2>3, <2>4, NobodyIsFenced, FS_AddElement
  <2>6. info[s].fetched \in Nat /\ info'[s].fetched = info[s].fetched + 1
    BY <1>0, <2>1
  <2>7. Cardinality(Fetched(s)) \in Nat
    BY <2>4, FS_CardinalityType
  <2>8. ASSUME NEW t \in Spaces, t # s
        PROVE  IsFiniteSet(Fetched(t)') /\ info'[t].fetched <= Cardinality(Fetched(t)')
    BY <1>0, <2>1, <2>8 DEF FetchInv, Fetched
  <2>9. IsFiniteSet(Fetched(s)') /\ info'[s].fetched <= Cardinality(Fetched(s)')
    BY <2>4, <2>5, <2>6, <2>7
  <2> QED
    BY <1>1, <2>8, <2>9 DEF FetchInv
<1> QED
  BY <1>2, <1>3

\* A tuple that is found at once is given and not counted.
LEMMA OpGetHitCounts ==
  ASSUME TypeInv, FetchInv, NEW s \in Spaces, NEW c \in Clients, OpGetHit(s, c)
  PROVE  FetchInv'
<1>0. taken \in [Spaces -> SUBSET (Data \X Clients)]
  BY DEF TypeInv, TypeOK
<1>1. alive' = Clients /\ info' = info
  BY DEF OpGetHit, envVars, FetchInv
<1>2. CASE taken' = taken
  BY <1>1, <1>2 DEF FetchInv, Fetched
<1>3. CASE taken' # taken
  <2>1. PICK d : taken' = [taken EXCEPT ![s] = @ \cup {<<d, c>>}]
    BY <1>3 DEF OpGetHit
  <2>2. Fetched(s)' = Fetched(s) \cup {d}
    <3>1. taken'[s] = taken[s] \cup {<<d, c>>}
      BY <1>0, <2>1
    <3>2. Fetched(s)' = {p[1] : p \in taken'[s]}
      BY DEF Fetched
    <3>3. {p[1] : p \in taken[s] \cup {<<d, c>>}} = {p[1] : p \in taken[s]} \cup {d}
      BY GivenOnce
    <3> QED
      BY <3>1, <3>2, <3>3, Zenon DEF Fetched
  <2>3. IsFiniteSet(Fetched(s)) /\ info[s].fetched <= Cardinality(Fetched(s))
    BY DEF FetchInv
  <2>4. IsFiniteSet(Fetched(s)') /\ Cardinality(Fetched(s)') >= Cardinality(Fetched(s))
    <3>1. IsFiniteSet(Fetched(s)')
      BY <2>2, <2>3, FS_AddElement
    <3> QED
      BY <2>2, <3>1, FS_Subset
  <2>5. Cardinality(Fetched(s)) \in Nat /\ Cardinality(Fetched(s)') \in Nat
    BY <2>3, <2>4, FS_CardinalityType
  <2>6. info[s].fetched \in Nat
    BY DEF TypeInv, TypeOK
  <2>7. ASSUME NEW t \in Spaces, t # s
        PROVE  IsFiniteSet(Fetched(t)') /\ info'[t].fetched <= Cardinality(Fetched(t)')
    BY <1>0, <1>1, <2>1, <2>7 DEF FetchInv, Fetched
  <2>8. IsFiniteSet(Fetched(s)') /\ info'[s].fetched <= Cardinality(Fetched(s)')
    BY <1>1, <2>3, <2>4, <2>5, <2>6
  <2> QED
    BY <1>1, <2>7, <2>8 DEF FetchInv
<1> QED
  BY <1>2, <1>3

\* Nothing else counts up.
LEMMA FetchStep ==
  ASSUME Mortal = {}, TypeInv, FenceInv, HoldInv, FetchInv, [Next]_vars
  PROVE  FetchInv'
<1>0. info \in [Spaces -> [eot: BOOLEAN, tids: Nat, fetched: Nat, tidq: Seq(Clients)]]
  BY DEF TypeInv, TypeOK
<1>1. ASSUME alive' = alive, taken' = taken,
             \A t \in Spaces : info'[t].fetched = info[t].fetched \/ info'[t].fetched = 0
      PROVE  FetchInv'
  <2>1. ASSUME NEW t \in Spaces
        PROVE  IsFiniteSet(Fetched(t)') /\ info'[t].fetched <= Cardinality(Fetched(t)')
    <3>1. Fetched(t)' = Fetched(t) /\ IsFiniteSet(Fetched(t)) /\ info[t].fetched <= Cardinality(Fetched(t))
      BY <1>1 DEF FetchInv, Fetched
    <3>2. Cardinality(Fetched(t)) \in Nat
      BY <3>1, FS_CardinalityType
    <3>3. CASE info'[t].fetched = 0
      BY <3>1, <3>2, <3>3
    <3> QED
      BY <1>1, <3>1, <3>3
  <2> QED
    BY <1>1, <2>1 DEF FetchInv
<1>2. CASE UNCHANGED vars
  BY <1>1, <1>2 DEF vars, tshVars, envVars
<1>3. ASSUME NEW c \in Clients, Client(c) PROVE FetchInv'
  BY <1>1, <1>3 DEF Client, Call, CallFails, Crash, Suspect, tshVars, envVars
<1>4. ASSUME NEW s \in Spaces, NEW c \in Clients, Serve(s, c) PROVE FetchInv'
  <2>1. CASE OpGetHit(s, c)
    BY <2>1, OpGetHitCounts
  <2>2. CASE \/ OpGuarded(s, c) \/ OpPut(s, c) \/ OpGetMiss(s, c) \/ OpGetLost(s, c) \/ OpRetrieve(s, c)
             \/ OpTshSot(s, c) \/ OpTshEot(s, c) \/ OpGethostInfo(s, c)
    <3>1. alive' = alive /\ taken' = taken
      BY <2>2 DEF OpGuarded, OpPut, OpGetMiss, OpGetLost, OpRetrieve, OpTshSot, OpTshEot, OpGethostInfo, envVars
    <3>2. \/ info' = info
          \/ info' = [info EXCEPT ![s] = [eot |-> FALSE, tids |-> 0, fetched |-> 0, tidq |-> <<>>]]
          \/ info' = [info EXCEPT ![s].tids = call[c].tids, ![s].eot = TRUE]
          \/ info' = [info EXCEPT ![s].tidq = <<c>> \o @]
      BY <2>2 DEF OpGuarded, OpPut, OpGetMiss, OpGetLost, OpRetrieve, OpTshSot, OpTshEot, OpGethostInfo, tshVars
    <3>3. \A t \in Spaces : info'[t].fetched = info[t].fetched \/ info'[t].fetched = 0
      <4>1. CASE info' = info
        BY <4>1
      <4>2. CASE info' = [info EXCEPT ![s] = [eot |-> FALSE, tids |-> 0, fetched |-> 0, tidq |-> <<>>]]
        BY <1>0, <4>2
      <4>3. CASE info' = [info EXCEPT ![s].tids = call[c].tids, ![s].eot = TRUE]
        BY <1>0, <4>3
      <4>4. CASE info' = [info EXCEPT ![s].tidq = <<c>> \o @]
        BY <1>0, <4>4
      <4> QED
        BY <3>2, <4>1, <4>2, <4>3, <4>4
    <3> QED
      BY <1>1, <3>1, <3>3
  <2> QED
    BY <1>4, <2>1, <2>2 DEF Serve
<1>5. ASSUME NEW s \in Spaces, ConsumeTuple(s) PROVE FetchInv'
  BY <1>5, ConsumeTupleCounts
<1>6. ASSUME NEW s \in Spaces, StoreHand(s) \/ OpExit(s) PROVE FetchInv'
  BY <1>1, <1>6 DEF StoreHand, OpExit, envVars
<1> QED
  BY <1>2, <1>3, <1>4, <1>5, <1>6 DEF Next

\* A map is given by OpTshEot and OpGethostInfo only, and counts what has been fetched.
LEMMA MapsCount ==
  ASSUME TypeInv, FetchInv, [Next]_vars, \A s, t \in Spaces : s = t,
         NEW s \in Spaces, NEW c \in Clients, got'[c] # got[c], got'[c] \in [tids: Nat]
  PROVE  got'[c].tids <= Cardinality(Fetched(s))
<1>0. /\ got \in [Clients -> [name: Names, data: Data] \cup [tids: Nat] \cup {Nil}]
      /\ info \in [Spaces -> [eot: BOOLEAN, tids: Nat, fetched: Nat, tidq: Seq(Clients)]]
      /\ call \in [Clients -> Request \cup {Nil}]
  BY DEF TypeInv, TypeOK
<1>1. \A n, d : [name |-> n, data |-> d] \notin [tids: Nat]
  <2> SUFFICES ASSUME NEW n, NEW d, [name |-> n, data |-> d] \in [tids: Nat] PROVE FALSE
    OBVIOUS
  <2>1. DOMAIN [name |-> n, data |-> d] = {"name", "data"}
    OBVIOUS
  <2>2. DOMAIN [name |-> n, data |-> d] = {"tids"}
    OBVIOUS
  <2> QED
    BY <2>1, <2>2
<1>2. Nil \notin [tids: Nat]
  BY NilAssumption
<1>3. ~UNCHANGED vars
  BY DEF vars, clientVars
<1>4. \A e \in Clients : ~Client(e)
  BY <1>0, <1>2 DEF Client, Call, CallFails, Crash, Suspect, clientVars
<1>5. ASSUME NEW e, NEW n, NEW d, got' = [got EXCEPT ![e] = [name |-> n, data |-> d]] PROVE FALSE
  BY <1>0, <1>1, <1>5
<1>6. \A z \in Spaces : ~ConsumeTuple(z)
  <2> SUFFICES ASSUME NEW z \in Spaces, ConsumeTuple(z) PROVE FALSE
    OBVIOUS
  <2>1. \/ UNCHANGED got
        \/ \E e, n, d : got' = [got EXCEPT ![e] = [name |-> n, data |-> d]]
    BY DEF ConsumeTuple
  <2> QED
    BY <1>5, <2>1
<1>7. \A z \in Spaces : ~StoreHand(z) /\ ~OpExit(z)
  BY DEF StoreHand, OpExit, clientVars
<1>8. PICK z \in Spaces, e \in Clients : Serve(z, e)
  BY <1>3, <1>4, <1>6, <1>7 DEF Next
<1>9. ~OpGetHit(z, e)
  <2> SUFFICES ASSUME OpGetHit(z, e) PROVE FALSE
    OBVIOUS
  <2>1. \E n, d : got' = [got EXCEPT ![e] = [name |-> n, data |-> d]]
    BY DEF OpGetHit
  <2> QED
    BY <1>5, <2>1
<1>10. OpTshEot(z, e) \/ OpGethostInfo(z, e)
  BY <1>8, <1>9 DEF Serve, OpGuarded, OpPut, OpGetMiss, OpGetLost, OpRetrieve, OpTshSot, clientVars
<1>11. z = s
  OBVIOUS
<1>12. IsFiniteSet(Fetched(s)) /\ info[s].fetched <= Cardinality(Fetched(s)) /\ info[s].fetched \in Nat
  BY <1>0 DEF FetchInv
<1>13. Cardinality(Fetched(s)) \in Nat
  BY <1>12, FS_CardinalityType
<1>14. CASE OpTshEot(z, e)
  <2>1. got'[c].tids = call[e].tids /\ call[e].tids = info[s].fetched
    BY <1>0, <1>11, <1>14 DEF OpTshEot, SendTidInfo
  <2> QED
    BY <1>11, <1>12, <2>1
<1>15. CASE OpGethostInfo(z, e)
  <2>1. got'[c].tids = info[s].tids /\ ~(info[s].fetched < info[s].tids) /\ info[s].tids \in Nat
    BY <1>0, <1>11, <1>15 DEF OpGethostInfo
  <2> QED
    BY <1>11, <1>12, <1>13, <2>1
<1> QED
  BY <1>10, <1>14, <1>15

\* Where nobody dies or is taken for lost and there is one handler, a task map of n entries
\* is given when n contents have been taken, whatever rounds are begun and ended meanwhile
\* (OpTshEot, OpGethostInfo, consumeTuple).  With a second handler, send_tidinfo may answer a
\* client that stands in a queue of old and waits for something else elsewhere.
THEOREM TaskMapsAreFetched ==
  ASSUME Mortal = {}, ~FalseSuspicion, \A s, t \in Spaces : s = t
  PROVE  Spec => TidsAreFetched
<1>1. Init => FenceInv /\ FetchInv
  <2> SUFFICES ASSUME Init PROVE FenceInv /\ FetchInv
    OBVIOUS
  <2>1. FenceInv
    BY DEF Init, FenceInv, OnlyDeadSuspected, FencedSuspected, NoStrandedBackup, Guardf
  <2>2. \A s \in Spaces : Fetched(s) = {} /\ info[s].fetched = 0
    BY DEF Init, Fetched
  <2>3. IsFiniteSet({}) /\ Cardinality({}) = 0
    BY FS_EmptySet
  <2>4. \A s \in Spaces : IsFiniteSet(Fetched(s)) /\ info[s].fetched <= Cardinality(Fetched(s))
    BY <2>2, <2>3
  <2> QED
    BY <2>1, <2>4 DEF Init, FetchInv
<1>2. TypeInv /\ HoldInv /\ FenceInv /\ FetchInv /\ [Next]_vars => FenceInv' /\ FetchInv'
  BY FenceStep, FetchStep
<1> DEFINE Told(s, c) == (/\ got'[c] # got[c] /\ got'[c] \in [tids: Nat]
                          /\ \/ call[c] # Nil /\ call[c].space = s
                             \/ waiting[c] = s)
                         => got'[c].tids <= Cardinality({p[1] : p \in taken[s]})
<1>3. TypeInv /\ FetchInv /\ [Next]_vars => [\A s \in Spaces, c \in Clients : Told(s, c)]_vars
  <2> SUFFICES ASSUME TypeInv, FetchInv, [Next]_vars, NEW s \in Spaces, NEW c \in Clients,
                      got'[c] # got[c], got'[c] \in [tids: Nat]
               PROVE  got'[c].tids <= Cardinality({p[1] : p \in taken[s]})
    OBVIOUS
  <2> QED
    BY MapsCount DEF Fetched
<1> QED
  BY <1>1, <1>2, <1>3, HoldInvariant, PTL DEF Spec, TidsAreFetched

-----------------------------------------------------------------------------
(* The handlers implement the life of a shadow tuple (ShadowTuples): where   *)
(* each content is, read off the tuple in hand, the list and the backup      *)
(* entries, changes only as that specification allows.  First what Places    *)
(* and Where come to under the invariants, then one lemma for each           *)
(* operation that moves a content.                                           *)

\* The three places a content can be at.
InHand(s, d)     == hand[s] # Nil /\ hand[s].data = d
InList(s, d)     == \E i \in DOMAIN space[s] : space[s][i].data = d
InEntry(s, d, c) == retrieve[s][c] # Nil /\ retrieve[s][c].data = d

\* The client that the content in hand is recovered from.
Origin(s) == IF hand[s].op = "RETRIEVE" THEN hand[s].client ELSE Nil

\* A handler that has ended has nothing.
DownInv ==
  \A s \in Spaces : daemon[s] # "up" =>
    hand[s] = Nil /\ space[s] = <<>> /\ \A c \in Clients : retrieve[s][c] = Nil

\* While OpRetrieve places a content, the entry it came from still has it.
OriginInv ==
  \A s \in Spaces : hand[s] # Nil /\ hand[s].op = "RETRIEVE" =>
    /\ ~retrieve[s][hand[s].client].fault
    /\ retrieve[s][hand[s].client].data = hand[s].data

\* The invariants of TupleSpaceProofs that the refinement needs.
Facts == TypeInv /\ ListInv /\ HoldInv /\ DownInv /\ OriginInv /\ FenceInv

\* A content is at one place, and one that is somewhere has been accepted.
LEMMA OnePlace ==
  Facts =>
    \A s \in Spaces, d \in Data :
      /\ InHand(s, d) \/ InList(s, d) \/ (\E c \in Clients : InEntry(s, d, c)) => d \in accepted[s]
      /\ InList(s, d) => ~InHand(s, d) /\ \A c \in Clients : ~InEntry(s, d, c)
      /\ \A c, e \in Clients : InEntry(s, d, c) /\ InEntry(s, d, e) => c = e
      /\ \A c \in Clients : InHand(s, d) /\ InEntry(s, d, c) => c = Origin(s)
<1> SUFFICES ASSUME Facts, NEW s \in Spaces, NEW d \in Data
    PROVE
      /\ InHand(s, d) \/ InList(s, d) \/ (\E c \in Clients : InEntry(s, d, c)) => d \in accepted[s]
      /\ InList(s, d) => ~InHand(s, d) /\ \A c \in Clients : ~InEntry(s, d, c)
      /\ \A c, e \in Clients : InEntry(s, d, c) /\ InEntry(s, d, e) => c = e
      /\ \A c \in Clients : InHand(s, d) /\ InEntry(s, d, c) => c = Origin(s)
  OBVIOUS
<1>1. CASE daemon[s] # "up"
  <2>1. hand[s] = Nil /\ space[s] = <<>> /\ \A c \in Clients : retrieve[s][c] = Nil
    BY <1>1 DEF Facts, DownInv
  <2>2. ~InHand(s, d) /\ ~InList(s, d) /\ \A c \in Clients : ~InEntry(s, d, c)
    BY <2>1 DEF InHand, InList, InEntry
  <2> QED
    BY <2>2
<1>2. CASE daemon[s] = "up"
  <2>1. Contents(s)
    BY <1>2 DEF Facts, HoldInv
  <2>2. ASSUME NEW c \in Clients, InEntry(s, d, c) PROVE Holder(s, d, c) /\ d \in accepted[s]
    <3>1. ~Guardf(s, c)
      BY <2>2, NilAssumption DEF Facts, FenceInv, NoStrandedBackup, InEntry
    <3>2. <<d, c>> \in taken[s]
      BY <2>1, <2>2, <3>1 DEF InEntry, Guardf, Contents, EntriesHold
    <3> QED
      BY <2>1, <3>1, <3>2 DEF Holder, Contents, HoldersHold
  <2>3. InHand(s, d) \/ InList(s, d) => d \in accepted[s]
    BY <2>1 DEF InHand, InList, Contents, ListHolds, HandHolds
  <2>4. InList(s, d) => ~InHand(s, d)
    BY <2>1 DEF InHand, InList, Contents, HandHolds
  <2>5. ASSUME InList(s, d), NEW c \in Clients PROVE ~InEntry(s, d, c)
    BY <2>1, <2>2, <2>5 DEF InList, Contents, HoldersHold
  <2>6. \A c, e \in Clients : InEntry(s, d, c) /\ InEntry(s, d, e) => c = e
    BY <2>1, <2>2 DEF Contents, HoldersHold
  <2>7. ASSUME NEW c \in Clients, InHand(s, d), InEntry(s, d, c) PROVE c = Origin(s)
    BY <2>1, <2>2, <2>7 DEF InHand, Contents, HandHolds, Origin
  <2> QED
    BY <2>2, <2>3, <2>4, <2>5, <2>6, <2>7
<1> QED
  BY <1>1, <1>2

\* What Where comes to, by the number of places.
LEMMA WhereOne ==
  ASSUME NEW s, NEW d, NEW p, Places(s, d) = {p}
  PROVE  Where(s, d) = p
<1>1. Cardinality(Places(s, d)) = 1
  BY FS_Singleton
<1>2. (CHOOSE q \in {p} : TRUE) = p
  OBVIOUS
<1> QED
  BY <1>1, <1>2 DEF Where

\* ... and if there is none.
LEMMA WhereNone ==
  ASSUME NEW s, NEW d, Places(s, d) = {}
  PROVE  Where(s, d) = [at |-> IF d \in accepted[s] THEN "gone" ELSE "unknown", by |-> Nil]
<1>1. Cardinality(Places(s, d)) = 0
  BY FS_EmptySet
<1> QED
  BY <1>1 DEF Where

\* Where each content is.
LEMMA WhereIs ==
  Facts =>
    \A s \in Spaces, d \in Data :
      /\ InHand(s, d) => Where(s, d) = Shadow!Offered(Origin(s))
      /\ InList(s, d) => Where(s, d) = Shadow!Stored
      /\ \A c \in Clients : InEntry(s, d, c) /\ ~InHand(s, d) => Where(s, d) = Shadow!Held(c)
      /\ ~InHand(s, d) /\ ~InList(s, d) /\ (\A c \in Clients : ~InEntry(s, d, c)) =>
           Where(s, d) = IF d \in accepted[s] THEN Shadow!Gone ELSE Shadow!Unknown
<1> SUFFICES ASSUME Facts, NEW s \in Spaces, NEW d \in Data
    PROVE
      /\ InHand(s, d) => Where(s, d) = Shadow!Offered(Origin(s))
      /\ InList(s, d) => Where(s, d) = Shadow!Stored
      /\ \A c \in Clients : InEntry(s, d, c) /\ ~InHand(s, d) => Where(s, d) = Shadow!Held(c)
      /\ ~InHand(s, d) /\ ~InList(s, d) /\ (\A c \in Clients : ~InEntry(s, d, c)) =>
           Where(s, d) = IF d \in accepted[s] THEN Shadow!Gone ELSE Shadow!Unknown
  OBVIOUS
<1> DEFINE origin == IF InHand(s, d) /\ hand[s].op = "RETRIEVE" THEN hand[s].client ELSE Nil
           offered == {[at |-> "offered", by |-> origin] : x \in {y \in {s} : InHand(s, d)}}
           stored == {[at |-> "stored", by |-> Nil] : i \in {j \in DOMAIN space[s] : space[s][j].data = d}}
           held == {[at |-> "held", by |-> c] : c \in
                      {c \in Clients \ {origin} : retrieve[s][c] # Nil /\ retrieve[s][c].data = d}}
<1>1. Places(s, d) = offered \cup stored \cup held
  BY DEF Places, InHand
<1>2. /\ InList(s, d) => ~InHand(s, d) /\ \A c \in Clients : ~InEntry(s, d, c)
      /\ \A c, e \in Clients : InEntry(s, d, c) /\ InEntry(s, d, e) => c = e
      /\ \A c \in Clients : InHand(s, d) /\ InEntry(s, d, c) => c = Origin(s)
  BY OnePlace
<1>3. CASE InHand(s, d)
  <2>1. origin = Origin(s)
    BY <1>3 DEF Origin
  <2>2. offered = {[at |-> "offered", by |-> origin]}
    BY <1>3
  <2>3. stored = {}
    BY <1>2, <1>3 DEF InList
  <2>4. held = {}
    BY <1>2, <1>3, <2>1 DEF InEntry
  <2> HIDE DEF offered, stored, held, origin
  <2>5. Where(s, d) = [at |-> "offered", by |-> Origin(s)]
    <3>1. Places(s, d) = {[at |-> "offered", by |-> Origin(s)]}
      BY <1>1, <2>1, <2>2, <2>3, <2>4
    <3> DEFINE p == [at |-> "offered", by |-> Origin(s)]
    <3>2. Places(s, d) = {p}
      BY <3>1
    <3> HIDE DEF p
    <3>3. Where(s, d) = p
      BY <3>2, WhereOne
    <3> QED
      BY <3>3 DEF p
  <2> QED
    BY <1>2, <1>3, <2>5 DEF Shadow!Offered
<1>4. CASE InList(s, d)
  <2>1. offered = {} /\ held = {}
    BY <1>2, <1>4 DEF InEntry
  <2>2. stored = {[at |-> "stored", by |-> Nil]}
    BY <1>4 DEF InList
  <2> HIDE DEF offered, stored, held, origin
  <2>3. Where(s, d) = [at |-> "stored", by |-> Nil]
    <3>1. Places(s, d) = {[at |-> "stored", by |-> Nil]}
      BY <1>1, <2>1, <2>2
    <3> DEFINE p == [at |-> "stored", by |-> Nil]
    <3>2. Places(s, d) = {p}
      BY <3>1
    <3> HIDE DEF p
    <3>3. Where(s, d) = p
      BY <3>2, WhereOne
    <3> QED
      BY <3>3 DEF p
  <2> QED
    BY <1>2, <1>4, <2>3 DEF Shadow!Stored
<1>5. ASSUME ~InHand(s, d), NEW c \in Clients, InEntry(s, d, c) PROVE Where(s, d) = Shadow!Held(c)
  <2>1. origin = Nil /\ offered = {}
    BY <1>5
  <2>2. stored = {}
    BY <1>2, <1>5 DEF InList
  <2>3. {e \in Clients \ {origin} : retrieve[s][e] # Nil /\ retrieve[s][e].data = d} = {c}
    BY <1>2, <1>5, <2>1, NilAssumption DEF InEntry
  <2>4. held = {[at |-> "held", by |-> c]}
    BY <2>3
  <2> HIDE DEF offered, stored, held, origin
  <2>5. Where(s, d) = [at |-> "held", by |-> c]
    <3>1. Places(s, d) = {[at |-> "held", by |-> c]}
      BY <1>1, <2>1, <2>2, <2>4
    <3> DEFINE p == [at |-> "held", by |-> c]
    <3>2. Places(s, d) = {p}
      BY <3>1
    <3> HIDE DEF p
    <3>3. Where(s, d) = p
      BY <3>2, WhereOne
    <3> QED
      BY <3>3 DEF p
  <2> QED
    BY <2>5 DEF Shadow!Held
<1>6. ASSUME ~InHand(s, d), ~InList(s, d), \A c \in Clients : ~InEntry(s, d, c)
      PROVE  Where(s, d) = IF d \in accepted[s] THEN Shadow!Gone ELSE Shadow!Unknown
  <2>1. offered = {} /\ stored = {} /\ held = {}
    BY <1>6 DEF InList, InEntry
  <2> HIDE DEF offered, stored, held, origin
  <2>2. Where(s, d) = [at |-> IF d \in accepted[s] THEN "gone" ELSE "unknown", by |-> Nil]
    BY <1>1, <2>1, WhereNone
  <2> QED
    BY <2>2 DEF Shadow!Gone, Shadow!Unknown
<1>7. \A c \in Clients : InEntry(s, d, c) => ~InList(s, d)
  BY <1>2
<1> QED
  BY <1>2, <1>3, <1>4, <1>5, <1>6

\* The same of the state after a step.
LEMMA WhereIsThen ==
  Facts' =>
    \A s \in Spaces, d \in Data :
      /\ InHand(s, d)' => Where(s, d)' = Shadow!Offered(Origin(s)')
      /\ InList(s, d)' => Where(s, d)' = Shadow!Stored
      /\ \A c \in Clients : InEntry(s, d, c)' /\ ~InHand(s, d)' => Where(s, d)' = Shadow!Held(c)
      /\ ~InHand(s, d)' /\ ~InList(s, d)' /\ (\A c \in Clients : ~InEntry(s, d, c)') =>
           Where(s, d)' = IF d \in accepted'[s] THEN Shadow!Gone ELSE Shadow!Unknown
<1>1. (Facts =>
        \A s \in Spaces, d \in Data :
          /\ InHand(s, d) => Where(s, d) = Shadow!Offered(Origin(s))
          /\ InList(s, d) => Where(s, d) = Shadow!Stored
          /\ \A c \in Clients : InEntry(s, d, c) /\ ~InHand(s, d) => Where(s, d) = Shadow!Held(c)
          /\ ~InHand(s, d) /\ ~InList(s, d) /\ (\A c \in Clients : ~InEntry(s, d, c)) =>
               Where(s, d) = IF d \in accepted[s] THEN Shadow!Gone ELSE Shadow!Unknown)'
  BY WhereIs, PTL
<1> QED
  BY <1>1 DEF Shadow!Offered, Shadow!Stored, Shadow!Held, Shadow!Gone, Shadow!Unknown

-----------------------------------------------------------------------------
\* No step gives a handler that has ended anything.
LEMMA DownStep == TypeInv /\ DownInv /\ [Next]_vars => DownInv'
<1> SUFFICES ASSUME TypeInv, DownInv, [Next]_vars, NEW t \in Spaces, daemon'[t] # "up"
             PROVE  hand'[t] = Nil /\ space'[t] = <<>> /\ \A c \in Clients : retrieve'[t][c] = Nil
  BY DEF DownInv
<1> DEFINE Empty == hand'[t] = Nil /\ space'[t] = <<>> /\ \A c \in Clients : retrieve'[t][c] = Nil
<1>0. /\ daemon \in [Spaces -> {"up", "exited", "crashed", "killed"}]
      /\ hand \in [Spaces -> Hand \cup {Nil}] /\ space \in [Spaces -> Seq(Node)]
      /\ retrieve \in [Spaces -> [Clients -> Entry \cup {Nil}]]
  BY DEF TypeInv, TypeOK
<1>1. ASSUME daemon'[t] = daemon[t], hand'[t] = hand[t], space'[t] = space[t], retrieve'[t] = retrieve[t]
      PROVE  Empty
  BY <1>1 DEF DownInv
<1>2. CASE UNCHANGED vars
  BY <1>1, <1>2 DEF vars, tshVars
<1>3. ASSUME NEW c \in Clients, Client(c) PROVE Empty
  BY <1>1, <1>3 DEF Client, Call, CallFails, Crash, Suspect, tshVars
<1>4. ASSUME NEW s \in Spaces, daemon[s] = "up", daemon' = daemon,
             \A r \in Spaces \ {s} : hand'[r] = hand[r] /\ space'[r] = space[r] /\ retrieve'[r] = retrieve[r]
      PROVE  Empty
  BY <1>1, <1>4
<1>5. ASSUME NEW s \in Spaces, NEW how, hand[s] = Nil, hand' = hand, Ends(s, how) PROVE Empty
  <2>1. CASE t = s
    BY <1>0, <1>5, <2>1 DEF Ends
  <2>2. CASE t # s
    BY <1>0, <1>1, <1>5, <2>2 DEF Ends
  <2> QED
    BY <2>1, <2>2
<1>6. ASSUME NEW s \in Spaces, NEW c \in Clients, Serve(s, c) PROVE Empty
  <2>1. daemon[s] = "up" /\ hand[s] = Nil
    BY <1>6 DEF Serve, OpGuarded, OpPut, OpGetMiss, OpGetHit, OpGetLost, Hit, OpRetrieve, OpTshSot, OpTshEot,
                OpGethostInfo, Serves, Ready
  <2>2. CASE OpPut(s, c)
    BY <1>0, <1>4, <2>1, <2>2 DEF OpPut
  <2>3. CASE OpGetHit(s, c)
    <3>1. hand' = hand
      BY <2>3 DEF OpGetHit
    <3>2. \/ UNCHANGED <<daemon, space, retrieve>>
          \/ Ends(s, "crashed")
          \/ /\ daemon' = daemon
             /\ \A r \in Spaces \ {s} : space'[r] = space[r] /\ retrieve'[r] = retrieve[r]
      BY <1>0, <2>3 DEF OpGetHit
    <3> QED
      BY <1>4, <1>5, <2>1, <3>1, <3>2
  <2>4. CASE OpGetLost(s, c)
    <3>1. hand' = hand /\ (UNCHANGED <<daemon, space, retrieve>> \/ Ends(s, "killed"))
      BY <2>4, Zenon DEF OpGetLost
    <3> QED
      BY <1>4, <1>5, <2>1, <3>1
  <2>5. CASE OpRetrieve(s, c)
    BY <1>0, <1>4, <2>1, <2>5 DEF OpRetrieve
  <2>6. CASE OpTshEot(s, c)
    <3>1. hand' = hand /\ (UNCHANGED <<daemon, space, retrieve>> \/ Ends(s, "exited"))
      BY <2>6 DEF OpTshEot, SendTidInfo
    <3> QED
      BY <1>4, <1>5, <2>1, <3>1
  <2>7. CASE OpGuarded(s, c) \/ OpGetMiss(s, c) \/ OpTshSot(s, c) \/ OpGethostInfo(s, c)
    <3>1. UNCHANGED <<daemon, space, retrieve, hand>>
      BY <2>7 DEF OpGuarded, OpGetMiss, OpTshSot, OpGethostInfo, tshVars
    <3> QED
      BY <1>1, <3>1
  <2> HIDE DEF Empty
  <2> QED
    BY <1>6, <2>2, <2>3, <2>4, <2>5, <2>6, <2>7 DEF Serve
<1>7. ASSUME NEW s \in Spaces, ConsumeTuple(s) PROVE Empty
  <2>1. daemon[s] = "up" /\ UNCHANGED <<daemon, space>>
    BY <1>7 DEF ConsumeTuple
  <2>2. UNCHANGED <<hand, retrieve>> \/ \E back : Finish(s, back)
    BY <1>7 DEF ConsumeTuple
  <2>3. \A r \in Spaces \ {s} : hand'[r] = hand[r] /\ retrieve'[r] = retrieve[r]
    BY <1>0, <2>2 DEF Finish
  <2> QED
    BY <1>4, <2>1, <2>3
<1>8. ASSUME NEW s \in Spaces, StoreHand(s) PROVE Empty
  BY <1>0, <1>4, <1>8 DEF StoreHand, Finish
<1>9. ASSUME NEW s \in Spaces, OpExit(s) PROVE Empty
  BY <1>5, <1>9 DEF OpExit, Ready
<1> QED
  BY <1>2, <1>3, <1>6, <1>7, <1>8, <1>9 DEF Next

\* The entry a content is recovered from stays as it is until the content is placed.
LEMMA OriginStep == TypeInv /\ OriginInv /\ [Next]_vars => OriginInv'
<1> SUFFICES ASSUME TypeInv, OriginInv, [Next]_vars, NEW t \in Spaces,
                    hand'[t] # Nil, hand'[t].op = "RETRIEVE"
             PROVE  /\ ~retrieve'[t][hand'[t].client].fault
                    /\ retrieve'[t][hand'[t].client].data = hand'[t].data
  BY DEF OriginInv
<1> DEFINE Same == /\ ~retrieve'[t][hand'[t].client].fault
                   /\ retrieve'[t][hand'[t].client].data = hand'[t].data
<1>0. /\ hand \in [Spaces -> Hand \cup {Nil}]
      /\ retrieve \in [Spaces -> [Clients -> Entry \cup {Nil}]]
  BY DEF TypeInv, TypeOK
<1>1. ASSUME hand'[t] = hand[t], retrieve'[t] = retrieve[t] PROVE Same
  BY <1>1 DEF OriginInv
<1>2. CASE UNCHANGED vars
  BY <1>1, <1>2 DEF vars, tshVars
<1>3. ASSUME NEW c \in Clients, Client(c) PROVE Same
  BY <1>1, <1>3 DEF Client, Call, CallFails, Crash, Suspect, tshVars
<1>4. ASSUME NEW s \in Spaces, hand[s] = Nil, hand' = hand,
             \A r \in Spaces \ {s} : retrieve'[r] = retrieve[r]
      PROVE  Same
  BY <1>1, <1>4
<1>5. ASSUME NEW s \in Spaces, NEW c \in Clients, Serve(s, c) PROVE Same
  <2>1. hand[s] = Nil
    BY <1>5 DEF Serve, OpGuarded, OpPut, OpGetMiss, OpGetHit, OpGetLost, Hit, OpRetrieve, OpTshSot, OpTshEot,
                OpGethostInfo, Serves, Ready
  <2>2. CASE OpPut(s, c)
    <3> DEFINE h == [name |-> call[c].name, data |-> call[c].data, pri |-> call[c].pri, client |-> c, op |-> "PUT"]
    <3>1. hand' = [hand EXCEPT ![s] = h] /\ h.op = "PUT" /\ retrieve' = retrieve
      BY <2>2 DEF OpPut
    <3> HIDE DEF h
    <3>2. t # s
      BY <1>0, <3>1
    <3> QED
      BY <1>0, <1>1, <3>1, <3>2
  <2>3. CASE OpRetrieve(s, c)
    <3> DEFINE h == [name |-> retrieve[s][c].name, data |-> retrieve[s][c].data, pri |-> retrieve[s][c].pri,
                     client |-> c, op |-> "RETRIEVE"]
    <3>1. /\ ~Guardf(s, c)
          /\ \/ retrieve[s][c] # Nil /\ hand' = [hand EXCEPT ![s] = h] /\ retrieve' = retrieve
             \/ hand' = hand /\ \A r \in Spaces \ {s} : retrieve'[r] = retrieve[r]
      BY <1>0, <2>3 DEF OpRetrieve
    <3>2. h.data = retrieve[s][c].data /\ h.client = c
      OBVIOUS
    <3> HIDE DEF h
    <3>3. CASE retrieve[s][c] # Nil /\ hand' = [hand EXCEPT ![s] = h] /\ retrieve' = retrieve
      <4>1. CASE t = s
        BY <1>0, <3>1, <3>2, <3>3, <4>1 DEF Guardf
      <4>2. CASE t # s
        BY <1>0, <1>1, <3>3, <4>2
      <4> QED
        BY <4>1, <4>2
    <3> QED
      BY <1>4, <2>1, <3>1, <3>3
  <2>4. ASSUME hand' = hand, UNCHANGED retrieve \/ \E how : Ends(s, how) PROVE Same
    <3>1. \A r \in Spaces \ {s} : retrieve'[r] = retrieve[r]
      BY <1>0, <2>4 DEF Ends
    <3> QED
      BY <1>4, <2>1, <2>4, <3>1
  <2>5. CASE OpGetHit(s, c)
    <3>1. hand' = hand /\ \A r \in Spaces \ {s} : retrieve'[r] = retrieve[r]
      BY <1>0, <2>5 DEF OpGetHit, Ends
    <3> QED
      BY <1>4, <2>1, <3>1
  <2>6. CASE OpGetLost(s, c)
    <3>1. hand' = hand /\ (UNCHANGED retrieve \/ \E how : Ends(s, how))
      BY <2>6, Zenon DEF OpGetLost
    <3> QED
      BY <2>4, <3>1
  <2>7. CASE OpTshEot(s, c)
    <3>1. hand' = hand /\ (UNCHANGED retrieve \/ \E how : Ends(s, how))
      BY <2>7 DEF OpTshEot, SendTidInfo
    <3> QED
      BY <2>4, <3>1
  <2>8. CASE OpGuarded(s, c) \/ OpGetMiss(s, c) \/ OpTshSot(s, c) \/ OpGethostInfo(s, c)
    <3>1. UNCHANGED <<retrieve, hand>>
      BY <2>8 DEF OpGuarded, OpGetMiss, OpTshSot, OpGethostInfo, tshVars
    <3> QED
      BY <2>4, <3>1
  <2> HIDE DEF Same
  <2> QED
    BY <1>5, <2>2, <2>3, <2>5, <2>6, <2>7, <2>8 DEF Serve
<1>6. ASSUME NEW s \in Spaces, ConsumeTuple(s) \/ StoreHand(s) \/ OpExit(s) PROVE Same
  <2>1. UNCHANGED <<hand, retrieve>> \/ (\E back : Finish(s, back)) \/ (hand' = hand /\ hand[s] = Nil /\ Ends(s, "exited"))
    BY <1>6 DEF ConsumeTuple, StoreHand, OpExit, Ready
  <2>2. ASSUME NEW back, Finish(s, back) PROVE hand'[s] = Nil /\ \A r \in Spaces \ {s} : hand'[r] = hand[r] /\ retrieve'[r] = retrieve[r]
    BY <1>0, <2>2 DEF Finish
  <2>3. CASE \E back : Finish(s, back)
    BY <1>1, <2>2, <2>3
  <2>4. CASE hand' = hand /\ hand[s] = Nil /\ Ends(s, "exited")
    <3>1. \A r \in Spaces \ {s} : retrieve'[r] = retrieve[r]
      BY <1>0, <2>4 DEF Ends
    <3> QED
      BY <1>4, <2>4, <3>1
  <2> QED
    BY <1>1, <2>1, <2>3, <2>4
<1> QED
  BY <1>2, <1>3, <1>5, <1>6 DEF Next

\* The facts hold after every step.
LEMMA FactsStep ==
  ASSUME ~FalseSuspicion
  PROVE  Facts /\ [Next]_vars => Facts'
<1> SUFFICES ASSUME Facts, [Next]_vars PROVE Facts'
  OBVIOUS
<1>1. TypeInv'
  BY StepType DEF Facts
<1>2. ListInv' /\ HoldInv' /\ DownInv' /\ OriginInv'
  BY ListStep, HoldStep, DownStep, OriginStep DEF Facts
<1>3. FenceInv'
  BY FenceStep DEF Facts
<1> QED
  BY <1>1, <1>2, <1>3 DEF Facts

-----------------------------------------------------------------------------
(* The mapping, and the steps.                                             *)

WhereMap  == [s \in Spaces |-> [d \in Data |-> Where(s, d)]]
FencedMap == [s \in Spaces |-> {c \in Clients : Guardf(s, c)}]

\* A handler that a step leaves alone has its contents where they were.
LEMMA KeptWhere ==
  ASSUME NEW s \in Spaces, Kept(s)
  PROVE  /\ \A d \in Data : Where(s, d)' = Where(s, d)
         /\ \A c \in Clients : Guardf(s, c)' <=> Guardf(s, c)
<1>1. ASSUME NEW d \in Data PROVE Where(s, d)' = Where(s, d)
  <2>1. Places(s, d)' = Places(s, d)
    BY DEF Kept, Places
  <2>2. (d \in accepted[s])' <=> d \in accepted[s]
    BY DEF Kept
  <2> QED
    BY <2>1, <2>2 DEF Where
<1>2. ASSUME NEW c \in Clients PROVE Guardf(s, c)' <=> Guardf(s, c)
  BY DEF Kept, Guardf
<1> QED
  BY <1>1, <1>2

\* A step that moves nothing is a stutter.
LEMMA NothingMoves ==
  ASSUME \A s \in Spaces : Kept(s)
  PROVE  WhereMap' = WhereMap /\ FencedMap' = FencedMap
BY KeptWhere DEF WhereMap, FencedMap

\* A content of which no place changes stays where it was.
LEMMA Stays ==
  ASSUME Facts, Facts', NEW s \in Spaces, NEW d \in Data,
         InHand(s, d)' <=> InHand(s, d), InHand(s, d) => Origin(s)' = Origin(s),
         InList(s, d)' <=> InList(s, d),
         \A c \in Clients : InEntry(s, d, c)' <=> InEntry(s, d, c),
         d \in accepted'[s] <=> d \in accepted[s]
  PROVE  Where(s, d)' = Where(s, d)
<1>1. CASE InHand(s, d)
  BY <1>1, WhereIs, WhereIsThen
<1>2. CASE InList(s, d)
  BY <1>2, WhereIs, WhereIsThen
<1>3. ASSUME ~InHand(s, d), NEW c \in Clients, InEntry(s, d, c) PROVE Where(s, d)' = Where(s, d)
  BY <1>3, WhereIs, WhereIsThen
<1>4. CASE ~InHand(s, d) /\ ~InList(s, d) /\ (\A c \in Clients : ~InEntry(s, d, c))
  BY <1>4, WhereIs, WhereIsThen
<1> QED
  BY <1>1, <1>2, <1>3, <1>4

\* Where tells the place.
LEMMA WhereTells ==
  Facts =>
    \A s \in Spaces, d \in Data :
      /\ Where(s, d).at = "offered" <=> InHand(s, d)
      /\ InHand(s, d) => Where(s, d).by = Origin(s)
      /\ Where(s, d).at = "stored" <=> InList(s, d)
      /\ \A c \in Clients : Where(s, d) = Shadow!Held(c) <=> InEntry(s, d, c) /\ ~InHand(s, d)
      /\ Where(s, d) = Shadow!Unknown <=> d \notin accepted[s]
<1> SUFFICES ASSUME Facts, NEW s \in Spaces, NEW d \in Data
    PROVE
      /\ Where(s, d).at = "offered" <=> InHand(s, d)
      /\ InHand(s, d) => Where(s, d).by = Origin(s)
      /\ Where(s, d).at = "stored" <=> InList(s, d)
      /\ \A c \in Clients : Where(s, d) = Shadow!Held(c) <=> InEntry(s, d, c) /\ ~InHand(s, d)
      /\ Where(s, d) = Shadow!Unknown <=> d \notin accepted[s]
  OBVIOUS
<1> USE DEF Shadow!Offered, Shadow!Stored, Shadow!Held, Shadow!Gone, Shadow!Unknown
<1>1. /\ InHand(s, d) \/ InList(s, d) \/ (\E c \in Clients : InEntry(s, d, c)) => d \in accepted[s]
      /\ InList(s, d) => ~InHand(s, d) /\ \A c \in Clients : ~InEntry(s, d, c)
      /\ \A c, e \in Clients : InEntry(s, d, c) /\ InEntry(s, d, e) => c = e
  BY OnePlace
<1>2. CASE InHand(s, d)
  <2>1. Where(s, d) = [at |-> "offered", by |-> Origin(s)]
    BY <1>2, WhereIs
  <2> QED
    BY <1>1, <1>2, <2>1
<1>3. CASE InList(s, d)
  <2>1. Where(s, d) = [at |-> "stored", by |-> Nil]
    BY <1>3, WhereIs
  <2> QED
    BY <1>1, <1>3, <2>1
<1>4. ASSUME ~InHand(s, d), NEW c \in Clients, InEntry(s, d, c)
      PROVE  /\ Where(s, d).at = "held" /\ d \in accepted[s] /\ ~InList(s, d)
             /\ \A e \in Clients : Where(s, d) = Shadow!Held(e) <=> InEntry(s, d, e)
  <2>1. Where(s, d) = [at |-> "held", by |-> c]
    BY <1>4, WhereIs
  <2> QED
    BY <1>1, <1>4, <2>1
<1>5. CASE ~InHand(s, d) /\ ~InList(s, d) /\ (\A c \in Clients : ~InEntry(s, d, c))
  <2>1. Where(s, d) = IF d \in accepted[s] THEN [at |-> "gone", by |-> Nil] ELSE [at |-> "unknown", by |-> Nil]
    BY <1>5, WhereIs
  <2> QED
    BY <1>5, <2>1
<1> QED
  BY <1>2, <1>3, <1>4, <1>5

\* A step of one handler changes the mapping at that handler.
LEMMA MapStep ==
  ASSUME NEW s \in Spaces, \A t \in Spaces \ {s} : Kept(t)
  PROVE  /\ WhereMap' = [WhereMap EXCEPT ![s] = [d \in Data |-> Where(s, d)']]
         /\ FencedMap' = [FencedMap EXCEPT ![s] = {c \in Clients : Guardf(s, c)'}]
BY KeptWhere DEF WhereMap, FencedMap

\* ... at one content.
LEMMA MapOne ==
  ASSUME NEW s \in Spaces, \A t \in Spaces \ {s} : Kept(t), NEW d \in Data, NEW p,
         Where(s, d)' = p, \A e \in Data \ {d} : Where(s, e)' = Where(s, e)
  PROVE  WhereMap' = [WhereMap EXCEPT ![s][d] = p]
<1> DEFINE g == [e \in Data |-> Where(s, e)']
<1>1. WhereMap[s] = [e \in Data |-> Where(s, e)]
  BY DEF WhereMap
<1>2. g = [WhereMap[s] EXCEPT ![d] = p]
  BY <1>1
<1>3. WhereMap' = [WhereMap EXCEPT ![s] = g]
  BY MapStep
<1> HIDE DEF g
<1> QED
  BY <1>2, <1>3

\* OpPut: the content a PUT brings is offered.
LEMMA OpPutOffers ==
  ASSUME Facts, Facts', NEW s \in Spaces, NEW c \in Clients, OpPut(s, c),
         NEW d, d = call[c].data
  PROVE  d \in Data /\ Shadow!Offer(s, d)
<1> DEFINE h == [name |-> call[c].name, data |-> d, pri |-> call[c].pri, client |-> c, op |-> "PUT"]
<1>0. /\ hand \in [Spaces -> Hand \cup {Nil}] /\ accepted \in [Spaces -> SUBSET Data]
      /\ call \in [Clients -> Request \cup {Nil}]
  BY DEF Facts, TypeInv, TypeOK
<1>1. /\ Putting(c) /\ call[c].space = s /\ hand[s] = Nil /\ daemon[s] = "up"
      /\ hand' = [hand EXCEPT ![s] = h]
      /\ accepted' = [accepted EXCEPT ![s] = @ \cup {d}]
      /\ UNCHANGED <<daemon, space, retrieve, taken>>
  BY DEF OpPut, Serves, Ready, Putting, clientVars, envVars
<1>2. d \in Data /\ d \notin accepted[s]
  <2>1. PutsAreNew(s)
    BY <1>1 DEF Facts, HoldInv
  <2>2. d \in Data
    BY <1>0, <1>1, RequestFields DEF Putting
  <2> QED
    BY <1>1, <2>1, <2>2 DEF PutsAreNew
<1>3. hand'[s] = h /\ h.data = d /\ h.op = "PUT" /\ h # Nil /\ accepted'[s] = accepted[s] \cup {d}
  <2>1. h \in Hand
    BY <1>0, <1>1, RequestFields DEF Putting, Hand
  <2> QED
    BY <1>0, <1>1, <2>1, NilAssumption
<1> HIDE DEF h
<1>4. \A t \in Spaces \ {s} : Kept(t)
  BY <1>0, <1>1 DEF Kept
<1>5. Where(s, d)' = Shadow!Offered(Nil)
  <2>1. InHand(s, d)' /\ Origin(s)' = Nil
    BY <1>3 DEF InHand, Origin
  <2> QED
    BY <1>2, <2>1, WhereIsThen
<1>6. ASSUME NEW e \in Data, e # d PROVE Where(s, e)' = Where(s, e)
  <2>1. ~InHand(s, e) /\ ~InHand(s, e)'
    BY <1>1, <1>3, <1>6 DEF InHand
  <2>2. (InList(s, e)' <=> InList(s, e)) /\ \A x \in Clients : InEntry(s, e, x)' <=> InEntry(s, e, x)
    BY <1>1 DEF InList, InEntry
  <2> QED
    BY <1>3, <1>6, <2>1, <2>2, Stays
<1>7. Where(s, d) = Shadow!Unknown /\ \A e \in Data : Where(s, e).at # "offered"
  BY <1>1, <1>2, WhereTells DEF InHand
<1>8. FencedMap' = FencedMap
  BY <1>1 DEF FencedMap, Guardf
<1>9. WhereMap' = [WhereMap EXCEPT ![s][d] = Shadow!Offered(Nil)]
  BY <1>2, <1>4, <1>5, <1>6, MapOne
<1> QED
  BY <1>2, <1>7, <1>8, <1>9 DEF Shadow!Offer, WhereMap, FencedMap

\* The fences of one handler change.
LEMMA FencedOne ==
  ASSUME NEW s \in Spaces, \A t \in Spaces \ {s} : Kept(t), NEW c,
         \A y \in Clients : Guardf(s, y)' <=> Guardf(s, y) \/ y = c
  PROVE  /\ c \in Clients => FencedMap' = [FencedMap EXCEPT ![s] = @ \cup {c}]
         /\ c \notin Clients => FencedMap' = FencedMap
<1> DEFINE F == {y \in Clients : Guardf(s, y)'}
<1>1. FencedMap[s] = {y \in Clients : Guardf(s, y)}
  BY DEF FencedMap
<1>2. FencedMap' = [FencedMap EXCEPT ![s] = F]
  BY MapStep
<1>3. c \in Clients => F = FencedMap[s] \cup {c}
  BY <1>1
<1>4. c \notin Clients => F = FencedMap[s]
  BY <1>1
<1>5. FencedMap = [FencedMap EXCEPT ![s] = FencedMap[s]]
  BY DEF FencedMap
<1> HIDE DEF F
<1> QED
  BY <1>2, <1>3, <1>4, <1>5

\* The end of a handler discards what it had.
LEMMA EndDiscards ==
  ASSUME Facts, Facts', NEW s \in Spaces, NEW how \in {"exited", "crashed", "killed"}, Ends(s, how),
         hand[s] = Nil, UNCHANGED <<hand, accepted>>, \A t \in Spaces \ {s} : taken'[t] = taken[t]
  PROVE  Shadow!Discard(s)
<1>0. /\ daemon \in [Spaces -> {"up", "exited", "crashed", "killed"}]
      /\ space \in [Spaces -> Seq(Node)] /\ retrieve \in [Spaces -> [Clients -> Entry \cup {Nil}]]
  BY DEF Facts, TypeInv, TypeOK
<1>1. \A t \in Spaces \ {s} : Kept(t)
  BY <1>0 DEF Kept, Ends
<1>2. hand'[s] = Nil /\ space'[s] = <<>> /\ \A c \in Clients : retrieve'[s][c] = Nil
  BY <1>0 DEF Ends
<1>3. ASSUME NEW e \in Data
      PROVE  Where(s, e)' = IF Where(s, e) = Shadow!Unknown THEN Shadow!Unknown ELSE Shadow!Gone
  <2>1. ~InHand(s, e)' /\ ~InList(s, e)' /\ (\A c \in Clients : ~InEntry(s, e, c)')
    BY <1>2 DEF InHand, InList, InEntry
  <2>2. Where(s, e)' = IF e \in accepted'[s] THEN Shadow!Gone ELSE Shadow!Unknown
    BY <2>1, WhereIsThen
  <2> QED
    BY <2>2, WhereTells
<1>4. {c \in Clients : Guardf(s, c)'} = {}
  BY <1>2 DEF Guardf
<1>5. FencedMap' = [FencedMap EXCEPT ![s] = {}]
  BY <1>1, <1>4, MapStep
<1> DEFINE g == [e \in Data |-> Where(s, e)']
           k == [e \in Data |-> IF WhereMap[s][e] = Shadow!Unknown THEN Shadow!Unknown ELSE Shadow!Gone]
<1>6. g = k
  BY <1>3 DEF WhereMap
<1>7. WhereMap' = [WhereMap EXCEPT ![s] = g]
  BY <1>1, MapStep
<1> HIDE DEF g
<1>8. WhereMap' = [WhereMap EXCEPT ![s] = k]
  BY <1>6, <1>7
<1> QED
  BY <1>5, <1>8 DEF Shadow!Discard, WhereMap, FencedMap

\* OpRetrieve: what the lost client held is offered again; one that held nothing is fenced.
LEMMA OpRetrieveRecovers ==
  ASSUME Facts, Facts', NEW s \in Spaces, NEW c \in Clients, OpRetrieve(s, c),
         NEW d, d = retrieve[s][c].data
  PROVE  Shadow!Fence(s, c) \/ (d \in Data /\ Shadow!Recover(s, d, c))
<1>0. /\ hand \in [Spaces -> Hand \cup {Nil}] /\ retrieve \in [Spaces -> [Clients -> Entry \cup {Nil}]]
  BY DEF Facts, TypeInv, TypeOK
<1>1. /\ ~Guardf(s, c) /\ hand[s] = Nil
      /\ UNCHANGED <<daemon, space, accepted, taken>>
  BY DEF OpRetrieve, Ready
<1>2. \A e \in Data : InList(s, e)' <=> InList(s, e)
  BY <1>1 DEF InList
<1>3. CASE retrieve[s][c] # Nil
  <2> DEFINE r == retrieve[s][c]
             h == [name |-> r.name, data |-> r.data, pri |-> r.pri, client |-> c, op |-> "RETRIEVE"]
  <2>1. hand' = [hand EXCEPT ![s] = h] /\ UNCHANGED retrieve
    BY <1>3 DEF OpRetrieve
  <2>2. h # Nil /\ d \in Data
    <3>1. r.name \in Names /\ r.data \in Data /\ r.pri \in Priorities
      BY <1>1, <1>3 DEF Facts, TypeInv, EntryFilled, Guardf
    <3>2. h \in Hand
      BY <3>1 DEF Hand
    <3> QED
      BY <3>1, <3>2, NilAssumption
  <2>3. hand'[s] = h /\ h.data = d /\ h.op = "RETRIEVE" /\ h.client = c
    BY <1>0, <2>1
  <2> HIDE DEF h
  <2>4. \A t \in Spaces \ {s} : Kept(t)
    BY <1>0, <1>1, <2>1 DEF Kept
  <2>5. Where(s, d)' = Shadow!Offered(c)
    <3>1. InHand(s, d)' /\ Origin(s)' = c
      BY <2>2, <2>3 DEF InHand, Origin
    <3> QED
      BY <2>2, <3>1, WhereIsThen
  <2>6. ASSUME NEW e \in Data, e # d PROVE Where(s, e)' = Where(s, e)
    <3>1. ~InHand(s, e) /\ ~InHand(s, e)'
      BY <1>1, <2>3, <2>6 DEF InHand
    <3>2. \A x \in Clients : InEntry(s, e, x)' <=> InEntry(s, e, x)
      BY <2>1 DEF InEntry
    <3> QED
      BY <1>1, <1>2, <3>1, <3>2, Stays
  <2>7. Where(s, d) = Shadow!Held(c) /\ \A e \in Data : Where(s, e).at # "offered"
    <3>1. InEntry(s, d, c) /\ \A e \in Data : ~InHand(s, e)
      BY <1>1, <1>3 DEF InEntry, InHand
    <3> QED
      BY <2>2, <3>1, WhereTells
  <2>8. FencedMap' = FencedMap
    BY <2>1 DEF FencedMap, Guardf
  <2>9. WhereMap' = [WhereMap EXCEPT ![s][d] = Shadow!Offered(c)]
    BY <2>2, <2>4, <2>5, <2>6, MapOne
  <2>10. Shadow!Recover(s, d, c)
    BY <2>2, <2>7, <2>8, <2>9 DEF Shadow!Recover, WhereMap, FencedMap
  <2> QED
    BY <2>2, <2>10
<1>4. CASE retrieve[s][c] = Nil
  <2> DEFINE f == [name |-> Nil, data |-> Nil, pri |-> Nil, fault |-> TRUE]
  <2>1. retrieve' = [retrieve EXCEPT ![s][c] = f] /\ UNCHANGED hand
    BY <1>4 DEF OpRetrieve
  <2>2. f.fault /\ f.data = Nil /\ f \in Entry
    BY DEF Entry
  <2>3. f # Nil
    BY <2>2, NilAssumption
  <2> HIDE DEF f
  <2>4. \A y \in Clients : retrieve'[s][y] = IF y = c THEN f ELSE retrieve[s][y]
    BY <1>0, <2>1
  <2>5. \A t \in Spaces \ {s} : Kept(t)
    BY <1>0, <1>1, <2>1 DEF Kept
  <2>6. \A e \in Data, y \in Clients : InEntry(s, e, y)' <=> InEntry(s, e, y)
    BY <1>4, <2>2, <2>4, NilAssumption DEF InEntry
  <2>7. ASSUME NEW e \in Data PROVE Where(s, e)' = Where(s, e)
    <3>1. ~InHand(s, e) /\ ~InHand(s, e)'
      BY <1>1, <2>1 DEF InHand
    <3> QED
      BY <1>1, <1>2, <2>6, <3>1, Stays
  <2>8. \A e \in Data : Where(s, e) # Shadow!Held(c)
    BY <1>4, WhereTells DEF InEntry
  <2>9. FencedMap' = [FencedMap EXCEPT ![s] = @ \cup {c}]
    <3>1. \A y \in Clients : Guardf(s, y)' <=> Guardf(s, y) \/ y = c
      BY <2>2, <2>3, <2>4 DEF Guardf
    <3> QED
      BY <2>5, <3>1, FencedOne
  <2>10. WhereMap' = WhereMap
    <3>1. \A t \in Spaces, e \in Data : Where(t, e)' = Where(t, e)
      BY <2>5, <2>7, KeptWhere
    <3> QED
      BY <3>1 DEF WhereMap
  <2>11. Shadow!Fence(s, c)
    BY <2>8, <2>9, <2>10 DEF Shadow!Fence, WhereMap, FencedMap
  <2> QED
    BY <2>11
<1> QED
  BY <1>3, <1>4

\* The end of OpPut and OpRetrieve fences the client the content in hand was recovered from,
\* and drops its entry.
LEMMA FinishPlaces ==
  ASSUME Facts, NEW s \in Spaces, hand[s] # Nil, NEW d \in Data, d = hand[s].data,
         NEW back \in [Clients -> Entry \cup {Nil}],
         \A y \in Clients : retrieve[s][y] # Nil => back[y] # Nil,
         \A y \in Clients : back[y] # Nil /\ back[y].fault <=> Guardf(s, y),
         Finish(s, back), \A t \in Spaces \ {s} : Kept(t)
  PROVE  /\ Shadow!Placed(s, d)
         /\ \A e \in Data : ~InHand(s, e)'
         /\ \A e \in Data, y \in Clients :
              InEntry(s, e, y)' <=> back[y] # Nil /\ back[y].data = e /\ y # Origin(s)
<1>0. hand \in [Spaces -> Hand \cup {Nil}] /\ TypeInv
  BY DEF Facts, TypeInv, TypeOK
<1>1. hand[s] \in Hand /\ hand[s].op \in {"PUT", "RETRIEVE"} /\ hand[s].client \in Clients
  BY <1>0 DEF Hand
<1>2. /\ hand'[s] = Nil
      /\ \A y \in Clients : hand[s].op = "PUT" \/ y # hand[s].client => retrieve'[s][y] = back[y]
      /\ hand[s].op = "RETRIEVE" =>
           /\ retrieve'[s][hand[s].client] # Nil
           /\ retrieve'[s][hand[s].client].fault
           /\ retrieve'[s][hand[s].client].data = Nil
  BY <1>0, FinishEffect
<1>3. Origin(s) = IF hand[s].op = "RETRIEVE" THEN hand[s].client ELSE Nil
  BY DEF Origin
<1>4. \A y \in Clients : y # Origin(s) => retrieve'[s][y] = back[y]
  BY <1>1, <1>2, <1>3
<1>5. Origin(s) \in Clients => /\ retrieve'[s][Origin(s)] # Nil /\ retrieve'[s][Origin(s)].fault
                               /\ retrieve'[s][Origin(s)].data = Nil
  BY <1>2, <1>3, NilAssumption
<1>6. Origin(s) \in Clients \/ Origin(s) = Nil
  BY <1>1, <1>3
<1>7. \A y \in Clients : Guardf(s, y)' <=> Guardf(s, y) \/ y = Origin(s)
  BY <1>4, <1>5 DEF Guardf
<1> DEFINE o == Origin(s)
<1>8. PICK c : c = o
  OBVIOUS
<1>9. /\ c \in Clients => FencedMap' = [FencedMap EXCEPT ![s] = @ \cup {c}]
      /\ c \notin Clients => FencedMap' = FencedMap
  <2>1. \A y \in Clients : Guardf(s, y)' <=> Guardf(s, y) \/ y = c
    BY <1>7, <1>8
  <2> QED
    BY <2>1, FencedOne
<1>10. WhereMap[s][d].at = "offered" /\ WhereMap[s][d].by = c
  <2>1. InHand(s, d)
    BY DEF InHand
  <2> QED
    BY <1>8, <2>1, WhereTells DEF WhereMap
<1>11. Shadow!Placed(s, d)
  <2>1. FencedMap' = IF WhereMap[s][d].at = "offered" /\ WhereMap[s][d].by # Nil
                     THEN [FencedMap EXCEPT ![s] = @ \cup {WhereMap[s][d].by}]
                     ELSE FencedMap
    BY <1>6, <1>8, <1>9, <1>10, NilAssumption
  <2> QED
    BY <2>1 DEF Shadow!Placed, WhereMap, FencedMap
<1>12. \A e \in Data, y \in Clients :
         InEntry(s, e, y)' <=> back[y] # Nil /\ back[y].data = e /\ y # Origin(s)
  BY <1>4, <1>5, NilAssumption DEF InEntry
<1> QED
  BY <1>2, <1>11, <1>12 DEF InHand

\* storeTuple: the content is stored, in the place of the one of its name if there is one.
LEMMA StoreHandStores ==
  ASSUME Facts, Facts', NEW s \in Spaces, StoreHand(s), NEW d, d = hand[s].data
  PROVE  d \in Data /\ Shadow!Store(s, d)
<1> DEFINE h == hand[s]
           f == IF h.op = "PUT" THEN 0 ELSE 1
           sp == space[s]
           new == StoreTuple(sp, h, f)
<1>0. /\ space \in [Spaces -> Seq(Node)] /\ retrieve \in [Spaces -> [Clients -> Entry \cup {Nil}]]
      /\ hand \in [Spaces -> Hand \cup {Nil}] /\ accepted \in [Spaces -> SUBSET Data] /\ TypeInv
  BY DEF Facts, TypeInv, TypeOK
<1>1. /\ daemon[s] = "up" /\ h # Nil /\ h \in Hand
      /\ space' = [space EXCEPT ![s] = new]
      /\ Finish(s, retrieve[s])
      /\ UNCHANGED <<daemon, accepted, taken>>
  BY <1>0 DEF StoreHand, envVars
<1>2. Contents(s)
  BY <1>1 DEF Facts, HoldInv
<1>3. WellFormed(sp) /\ sp \in Seq(Node) /\ retrieve[s] \in [Clients -> Entry \cup {Nil}]
  BY <1>0 DEF Facts, ListInv
<1>4. d \in Data
  BY <1>1 DEF Hand
<1>5. \A t \in Spaces \ {s} : Kept(t)
  <2>1. \A t \in Spaces \ {s} : hand'[t] = hand[t] /\ retrieve'[t] = retrieve[t]
    BY <1>0, <1>1, <1>3, FinishEffect
  <2> QED
    BY <1>0, <1>1, <2>1 DEF Kept
<1>6. /\ Shadow!Placed(s, d)
      /\ \A e \in Data : ~InHand(s, e)'
      /\ \A e \in Data, y \in Clients :
           InEntry(s, e, y)' <=> retrieve[s][y] # Nil /\ retrieve[s][y].data = e /\ y # Origin(s)
  BY <1>1, <1>3, <1>4, <1>5, FinishPlaces DEF Guardf
<1>7. InHand(s, d) /\ WhereMap[s][d].at = "offered"
  <2>1. InHand(s, d)
    BY <1>1 DEF InHand
  <2> QED
    BY <1>4, <2>1, WhereTells DEF WhereMap
<1>8. \A e \in Data, y \in Clients : e # d => (InEntry(s, e, y)' <=> InEntry(s, e, y))
  <2>1. \A y \in Clients : y = Origin(s) => retrieve[s][y].data = d
    BY <1>1, NilAssumption DEF Origin, Facts, OriginInv
  <2> QED
    BY <1>6, <2>1 DEF InEntry
<1>9. space'[s] = new
  BY <1>0, <1>1
<1>11. DOMAIN sp = 1 .. Len(sp) /\ Len(sp) \in Nat /\ d = h.data
  BY <1>3
<1> HIDE DEF new, h, f, sp
<1>10. \/ /\ DOMAIN new = DOMAIN sp
          /\ \E k \in DOMAIN sp :
               \A j \in DOMAIN sp : new[j].data = IF j = k THEN d ELSE sp[j].data
       \/ /\ DOMAIN new = 1 .. Len(sp) + 1
          /\ new[Len(sp) + 1].data = d
          /\ \A j \in 1 .. Len(sp) : new[j].data = sp[j].data
       \/ /\ DOMAIN new = 1 .. Len(sp) + 1
          /\ new[1].data = d
          /\ \A j \in 1 .. Len(sp) : new[j + 1].data = sp[j].data
  <2>1. h \in Hand /\ sp \in Seq(Node) /\ WellFormed(sp)
    BY <1>1, <1>3
  <2>2. \/ /\ DOMAIN new = DOMAIN sp
           /\ \E k \in DOMAIN sp :
                \A j \in DOMAIN sp : new[j].data = IF j = k THEN h.data ELSE sp[j].data
        \/ /\ DOMAIN new = 1 .. Len(sp) + 1
           /\ new[Len(sp) + 1].data = h.data
           /\ \A j \in 1 .. Len(sp) : new[j].data = sp[j].data
        \/ /\ DOMAIN new = 1 .. Len(sp) + 1
           /\ new[1].data = h.data
           /\ \A j \in 1 .. Len(sp) : new[j + 1].data = sp[j].data
    BY <2>1, StoreTupleContents DEF new
  <2> QED
    BY <1>11, <2>2
<1> USE DEF sp
<1>12. ASSUME InList(s, d)' PROVE Where(s, d)' = Shadow!Stored
  BY <1>4, <1>12, WhereIsThen
<1>13. ASSUME NEW e \in Data, e # d, InList(s, e)' <=> InList(s, e) PROVE Where(s, e)' = Where(s, e)
  <2>1. ~InHand(s, e) /\ ~InHand(s, e)'
    BY <1>6, <1>7, <1>13 DEF InHand
  <2> QED
    BY <1>1, <1>8, <1>13, <2>1, Stays
<1>14. ASSUME InList(s, d)', \A e \in Data \ {d} : InList(s, e)' <=> InList(s, e)
       PROVE  Shadow!Store(s, d)
  <2>1. WhereMap' = [WhereMap EXCEPT ![s][d] = Shadow!Stored]
    BY <1>4, <1>5, <1>12, <1>13, <1>14, MapOne
  <2> QED
    BY <1>6, <1>7, <2>1 DEF Shadow!Store, WhereMap, FencedMap
<1>15. CASE /\ DOMAIN new = DOMAIN sp
            /\ \E k \in DOMAIN sp :
                 \A j \in DOMAIN sp : new[j].data = IF j = k THEN d ELSE sp[j].data
  <2>1. PICK k \in DOMAIN sp : \A j \in DOMAIN sp : new[j].data = IF j = k THEN d ELSE sp[j].data
    BY <1>15
  <2>2. PICK x : x = sp[k].data
    OBVIOUS
  <2>3. x \in Data /\ x \in accepted[s] /\ x # d /\ InList(s, x)
    <3>1. sp[k] \in Node
      BY <1>3
    <3> QED
      BY <1>1, <1>2, <2>2, <3>1 DEF Node, Contents, ListHolds, HandHolds, InList, h
  <2>4. \A j \in DOMAIN sp : sp[j].data = x => j = k
    BY <1>2, <2>2 DEF Contents, ListHolds
  <2>5. InList(s, d)' /\ ~InList(s, x)'
    BY <1>9, <1>15, <2>1, <2>2, <2>3, <2>4 DEF InList
  <2>6. ASSUME NEW e \in Data, e # d, e # x PROVE InList(s, e)' <=> InList(s, e)
    BY <1>9, <1>15, <2>1, <2>2, <2>6 DEF InList
  <2>7. Where(s, x) = Shadow!Stored
    BY <2>3, WhereIs
  <2>8. Where(s, x)' = Shadow!Gone
    <3>1. \A y \in Clients : ~InEntry(s, x, y)'
      BY <1>8, <2>3, OnePlace
    <3>2. x \in accepted'[s]
      BY <1>1, <2>3
    <3> QED
      BY <1>6, <2>3, <2>5, <3>1, <3>2, WhereIsThen
  <2>9. WhereMap' = [WhereMap EXCEPT ![s][d] = Shadow!Stored, ![s][x] = Shadow!Gone]
    <3> DEFINE g == [e \in Data |-> Where(s, e)']
    <3>1. WhereMap[s] = [e \in Data |-> Where(s, e)] /\ WhereMap' = [WhereMap EXCEPT ![s] = g]
      BY <1>5, MapStep DEF WhereMap
    <3>2. \A e \in Data : Where(s, e)' = IF e = x THEN Shadow!Gone ELSE IF e = d THEN Shadow!Stored ELSE Where(s, e)
      BY <1>12, <1>13, <2>3, <2>5, <2>6, <2>8
    <3>3. g = [WhereMap[s] EXCEPT ![d] = Shadow!Stored, ![x] = Shadow!Gone]
      BY <2>3, <3>1, <3>2
    <3> HIDE DEF g
    <3>4. DOMAIN WhereMap = Spaces
      BY DEF WhereMap
    <3> QED
      BY <3>1, <3>3, <3>4
  <2>10. WhereMap[s][x] = Shadow!Stored
    BY <2>3, <2>7 DEF WhereMap
  <2> QED
    BY <1>4, <1>6, <1>7, <2>3, <2>9, <2>10 DEF Shadow!Store, WhereMap, FencedMap
<1>16. CASE /\ DOMAIN new = 1 .. Len(sp) + 1
            /\ new[Len(sp) + 1].data = d
            /\ \A j \in 1 .. Len(sp) : new[j].data = sp[j].data
  <2>1. InList(s, d)'
    BY <1>9, <1>11, <1>16 DEF InList
  <2>2. ASSUME NEW e \in Data \ {d} PROVE InList(s, e)' <=> InList(s, e)
    BY <1>9, <1>11, <1>16 DEF InList
  <2> QED
    BY <1>4, <1>14, <2>1, <2>2
<1>17. CASE /\ DOMAIN new = 1 .. Len(sp) + 1
            /\ new[1].data = d
            /\ \A j \in 1 .. Len(sp) : new[j + 1].data = sp[j].data
  <2>1. InList(s, d)'
    BY <1>9, <1>11, <1>17 DEF InList
  <2>2. ASSUME NEW e \in Data \ {d} PROVE InList(s, e)' <=> InList(s, e)
    <3>1. \A j \in DOMAIN new : j = 1 \/ (j - 1 \in DOMAIN sp /\ new[j].data = sp[j - 1].data)
      BY <1>11, <1>17
    <3>2. \A j \in DOMAIN sp : j + 1 \in DOMAIN new /\ new[j + 1].data = sp[j].data
      BY <1>11, <1>17
    <3>3. (\E j \in DOMAIN new : new[j].data = e) <=> (\E j \in DOMAIN sp : sp[j].data = e)
      <4>1. ASSUME NEW j \in DOMAIN new, new[j].data = e PROVE \E k \in DOMAIN sp : sp[k].data = e
        BY <1>17, <3>1, <4>1
      <4> QED
        BY <3>2, <4>1
    <3> QED
      BY <1>9, <3>3 DEF InList
  <2> QED
    BY <1>4, <1>14, <2>1, <2>2
<1> QED
  BY <1>4, <1>10, <1>15, <1>16, <1>17

\* A content that goes to a client takes the place of the one it had.
LEMMA MapGive ==
  ASSUME NEW s \in Spaces, \A t \in Spaces \ {s} : Kept(t), NEW d \in Data, NEW c \in Clients,
         Where(s, d)' = Shadow!Held(c),
         \A e \in Data \ {d} :
           Where(s, e)' = IF Where(s, e) = Shadow!Held(c) THEN Shadow!Gone ELSE Where(s, e)
  PROVE  WhereMap' = [WhereMap EXCEPT ![s] =
            [e \in Data |-> IF e = d THEN Shadow!Held(c)
                            ELSE IF @[e] = Shadow!Held(c) THEN Shadow!Gone ELSE @[e]]]
<1> DEFINE g == [e \in Data |-> Where(s, e)']
           w == WhereMap[s]
           k == [e \in Data |-> IF e = d THEN Shadow!Held(c)
                                ELSE IF w[e] = Shadow!Held(c) THEN Shadow!Gone ELSE w[e]]
<1>1. \A e \in Data : w[e] = Where(s, e)
  BY DEF WhereMap
<1> HIDE DEF w
<1>2. g = k
  BY <1>1
<1>3. WhereMap' = [WhereMap EXCEPT ![s] = g]
  BY MapStep
<1> HIDE DEF g
<1>4. WhereMap' = [WhereMap EXCEPT ![s] = k]
  BY <1>2, <1>3
<1> QED
  BY <1>4 DEF w

\* A content that leaves the hand or the list for the entry of a client that had another.
LEMMA Given ==
  ASSUME Facts, Facts', NEW s \in Spaces, \A t \in Spaces \ {s} : Kept(t),
         NEW d \in Data, NEW c \in Clients, accepted' = accepted,
         InHand(s, d) \/ InList(s, d),
         \A e \in Data : ~InHand(s, e)',
         \A e \in Data \ {d} : ~InHand(s, e),
         \A e \in Data : InList(s, e)' <=> InList(s, e) /\ e # d,
         \A e \in Data \ {d}, y \in Clients \ {c} : InEntry(s, e, y)' <=> InEntry(s, e, y),
         \A e \in Data : InEntry(s, e, c)' <=> e = d
  PROVE  /\ Where(s, d)' = Shadow!Held(c)
         /\ \A e \in Data \ {d} :
              Where(s, e)' = IF Where(s, e) = Shadow!Held(c) THEN Shadow!Gone ELSE Where(s, e)
<1>1. Where(s, d)' = Shadow!Held(c)
  <2>1. InEntry(s, d, c)' /\ ~InHand(s, d)'
    OBVIOUS
  <2> QED
    BY <2>1, WhereIsThen
<1>2. ASSUME NEW e \in Data \ {d}
      PROVE  Where(s, e)' = IF Where(s, e) = Shadow!Held(c) THEN Shadow!Gone ELSE Where(s, e)
  <2>1. CASE InEntry(s, e, c)
    <3>1. Where(s, e) = Shadow!Held(c)
      BY <2>1, WhereIs
    <3>2. ~InList(s, e)' /\ ~InHand(s, e)' /\ \A y \in Clients : ~InEntry(s, e, y)'
      BY <2>1, OnePlace
    <3>3. e \in accepted'[s]
      BY <2>1, OnePlace
    <3> QED
      BY <3>1, <3>2, <3>3, WhereIsThen
  <2>2. CASE ~InEntry(s, e, c)
    <3>1. Where(s, e) # Shadow!Held(c)
      BY <2>2, WhereTells
    <3>2. Where(s, e)' = Where(s, e)
      <4>1. \A y \in Clients : InEntry(s, e, y)' <=> InEntry(s, e, y)
        BY <2>2
      <4> QED
        BY <4>1, Stays
    <3> QED
      BY <3>1, <3>2
  <2> QED
    BY <2>1, <2>2
<1> QED
  BY <1>1, <1>2

\* The consumeTuple loop: a GET of a client that runs is given the content in hand; a READ,
\* and a request of a client that is gone, move nothing.
LEMMA ConsumeTupleGives ==
  ASSUME Facts, Facts', NEW s \in Spaces, ConsumeTuple(s),
         NEW d, d = hand[s].data, NEW c, c = queue[s][FindRequest(queue[s], hand[s].name)].client
  PROVE  \/ \A t \in Spaces : Kept(t)
         \/ d \in Data /\ c \in Clients /\ Shadow!Give(s, d, c)
<1> DEFINE h == hand[s]
           i == FindRequest(queue[s], h.name)
           back == [retrieve[s] EXCEPT ![c] = Backup(retrieve[s][c], h)]
<1>0. /\ retrieve \in [Spaces -> [Clients -> Entry \cup {Nil}]]
      /\ hand \in [Spaces -> Hand \cup {Nil}] /\ queue \in [Spaces -> Seq(Queued)]
      /\ taken \in [Spaces -> SUBSET (Data \X Clients)]
      /\ TypeInv
  BY DEF Facts, TypeInv, TypeOK
<1>1. /\ daemon[s] = "up" /\ h # Nil /\ h \in Hand
      /\ \/ UNCHANGED <<taken, hand, retrieve>>
         \/ /\ c \in alive
            /\ taken' = [taken EXCEPT ![s] = @ \cup {<<d, c>>}]
            /\ Finish(s, back)
      /\ UNCHANGED <<daemon, space, accepted>>
  BY <1>0 DEF ConsumeTuple, envVars, SendTuple
<1>2. CASE UNCHANGED <<taken, hand, retrieve>>
  BY <1>1, <1>2 DEF Kept
<1>3. CASE /\ c \in alive
           /\ taken' = [taken EXCEPT ![s] = @ \cup {<<d, c>>}]
           /\ Finish(s, back)
  <2>1. c \in Clients /\ d \in Data /\ h.name \in Names /\ h.pri \in Priorities
    BY <1>0, <1>1, <1>3 DEF TypeInv, TypeOK, Hand
  <2>2. ~Guardf(s, c) /\ (h.op = "RETRIEVE" => c # h.client)
    BY <1>1, <1>3, <2>1 DEF Facts, FenceInv, OnlyDeadSuspected, FencedSuspected
  <2>3. /\ back \in [Clients -> Entry \cup {Nil}]
        /\ \A y \in Clients : retrieve[s][y] # Nil => back[y] # Nil
    <3>1. h.data \in Data
      BY <2>1
    <3> QED
      BY <1>0, <2>1, <3>1, BackupEntries
  <2> DEFINE b == Backup(retrieve[s][c], h)
  <2>4. b.data = d /\ ~b.fault /\ b # Nil
    <3>1. b \in Entry
      BY <1>0, <2>1, BackupType
    <3> QED
      BY <2>2, <3>1, NilAssumption DEF Backup, Guardf
  <2>5. \A y \in Clients : back[y] = IF y = c THEN b ELSE retrieve[s][y]
    BY <1>0
  <2> HIDE DEF b, back, h
  <2>6. \A y \in Clients : back[y] # Nil /\ back[y].fault <=> Guardf(s, y)
    BY <2>2, <2>4, <2>5 DEF Guardf
  <2>7. \A t \in Spaces \ {s} : Kept(t)
    <3>1. \A t \in Spaces \ {s} : hand'[t] = hand[t] /\ retrieve'[t] = retrieve[t]
      BY <1>0, <1>1, <1>3, <2>3, FinishEffect DEF h
    <3> QED
      BY <1>0, <1>1, <1>3, <3>1 DEF Kept
  <2>8. /\ Shadow!Placed(s, d)
        /\ \A e \in Data : ~InHand(s, e)'
        /\ \A e \in Data, y \in Clients :
             InEntry(s, e, y)' <=> back[y] # Nil /\ back[y].data = e /\ y # Origin(s)
    BY <1>1, <1>3, <2>1, <2>3, <2>6, <2>7, FinishPlaces DEF h
  <2>9. InHand(s, d) /\ ~InList(s, d) /\ \A e \in Data \ {d} : ~InHand(s, e)
    BY <1>1, <2>1, OnePlace DEF InHand, h
  <2>10. \A e \in Data : InList(s, e)' <=> InList(s, e) /\ e # d
    BY <1>1, <2>9 DEF InList
  <2>11. c # Origin(s)
    BY <2>1, <2>2, NilAssumption DEF Origin, h
  <2>12. \A e \in Data : InEntry(s, e, c)' <=> e = d
    BY <2>1, <2>4, <2>5, <2>8, <2>11
  <2>13. \A e \in Data \ {d}, y \in Clients \ {c} : InEntry(s, e, y)' <=> InEntry(s, e, y)
    <3>1. \A y \in Clients : y = Origin(s) => retrieve[s][y].data = d
      BY <1>1, NilAssumption DEF Origin, Facts, OriginInv, h
    <3> QED
      BY <2>5, <2>8, <3>1 DEF InEntry
  <2>14. WhereMap' = [WhereMap EXCEPT ![s] =
            [e \in Data |-> IF e = d THEN Shadow!Held(c)
                            ELSE IF @[e] = Shadow!Held(c) THEN Shadow!Gone ELSE @[e]]]
    <3>1. /\ Where(s, d)' = Shadow!Held(c)
          /\ \A e \in Data \ {d} :
               Where(s, e)' = IF Where(s, e) = Shadow!Held(c) THEN Shadow!Gone ELSE Where(s, e)
      BY <1>1, <2>1, <2>7, <2>8, <2>9, <2>10, <2>12, <2>13, Given
    <3> QED
      BY <2>1, <2>7, <3>1, MapGive
  <2>15. WhereMap[s][d].at = "offered" /\ c \notin FencedMap[s]
    BY <2>1, <2>2, <2>9, WhereTells DEF WhereMap, FencedMap
  <2>16. Shadow!Give(s, d, c)
    BY <2>1, <2>8, <2>14, <2>15 DEF Shadow!Give, WhereMap, FencedMap
  <2> QED
    BY <2>1, <2>16
<1> QED
  BY <1>1, <1>2, <1>3

\* OpGet with a match: a GET is given the stored content, a READ moves nothing; following a
\* NULL back pointer ends the handler.
LEMMA OpGetHitGives ==
  ASSUME Facts, Facts', NEW s \in Spaces, NEW c \in Clients, OpGetHit(s, c),
         NEW d, d = space[s][FindTuple(space[s], call[c].expr)].data
  PROVE  \/ \A t \in Spaces : Kept(t)
         \/ d \in Data /\ Shadow!Give(s, d, c)
         \/ Shadow!Discard(s)
<1> DEFINE i == FindTuple(space[s], call[c].expr)
           t == space[s][i]
           sp == space[s]
           b == Backup(retrieve[s][c], t)
           new == Unlink(sp, i)
<1>0. /\ daemon \in [Spaces -> {"up", "exited", "crashed", "killed"}]
      /\ space \in [Spaces -> Seq(Node)]
      /\ retrieve \in [Spaces -> [Clients -> Entry \cup {Nil}]]
      /\ taken \in [Spaces -> SUBSET (Data \X Clients)]
  BY DEF Facts, TypeInv, TypeOK
<1>1. ~Guardf(s, c) /\ hand[s] = Nil /\ daemon[s] = "up" /\ UNCHANGED <<hand, accepted>>
  BY DEF OpGetHit, Hit, Serves, Ready
<1>2. i \in DOMAIN sp /\ sp \in Seq(Node)
  BY <1>0, FindTupleFound DEF OpGetHit, Hit
<1>3. \/ UNCHANGED <<daemon, space, retrieve, taken>>
      \/ /\ taken' = [taken EXCEPT ![s] = @ \cup {<<t.data, c>>}]
         /\ Ends(s, "crashed")
      \/ /\ taken' = [taken EXCEPT ![s] = @ \cup {<<t.data, c>>}]
         /\ space' = [space EXCEPT ![s] = new]
         /\ retrieve' = [retrieve EXCEPT ![s][c] = b]
         /\ UNCHANGED daemon
  BY DEF OpGetHit
<1>4. t \in Node /\ d = t.data /\ d \in Data
  <2>1. t \in Node
    BY <1>2
  <2> QED
    BY <2>1 DEF Node
<1>5. CASE UNCHANGED <<daemon, space, retrieve, taken>>
  BY <1>1, <1>5 DEF Kept
<1>6. CASE /\ taken' = [taken EXCEPT ![s] = @ \cup {<<t.data, c>>}]
           /\ Ends(s, "crashed")
  <2>1. \A r \in Spaces \ {s} : taken'[r] = taken[r]
    BY <1>0, <1>6
  <2> QED
    BY <1>1, <1>6, <2>1, EndDiscards
<1>7. CASE /\ taken' = [taken EXCEPT ![s] = @ \cup {<<t.data, c>>}]
           /\ space' = [space EXCEPT ![s] = new]
           /\ retrieve' = [retrieve EXCEPT ![s][c] = b]
           /\ UNCHANGED daemon
  <2>1. \A r \in Spaces \ {s} : Kept(r)
    BY <1>0, <1>1, <1>7 DEF Kept
  <2>2. b.data = d /\ ~b.fault /\ b # Nil
    <3>1. retrieve[s][c] \in Entry \cup {Nil} /\ t.name \in Names /\ t.data \in Data /\ t.pri \in Priorities
      BY <1>0, <1>4 DEF Node
    <3>2. b \in Entry
      BY <3>1, BackupType
    <3> QED
      BY <1>1, <1>4, <3>2, NilAssumption DEF Backup, Guardf
  <2>3. space'[s] = new /\ \A y \in Clients : retrieve'[s][y] = IF y = c THEN b ELSE retrieve[s][y]
    BY <1>0, <1>7
  <2>4. \A j, k \in DOMAIN sp : sp[j].data = sp[k].data => j = k
    BY <1>1 DEF Facts, HoldInv, Contents, ListHolds
  <2>5. /\ \A j \in DOMAIN new : \E k \in DOMAIN sp \ {i} : new[j].data = sp[k].data
        /\ \A k \in DOMAIN sp \ {i} : \E j \in DOMAIN new : new[j].data = sp[k].data
    BY <1>2, <2>4, UnlinkContents
  <2>6. d = sp[i].data
    OBVIOUS
  <2> HIDE DEF new, b, t, i
  <2>7. InList(s, d)
    BY <1>2, <2>6 DEF InList
  <2>8. \A e \in Data : InList(s, e)' <=> InList(s, e) /\ e # d
    <3>1. \A e \in Data : (\E j \in DOMAIN new : new[j].data = e) <=> (\E k \in DOMAIN sp \ {i} : sp[k].data = e)
      BY <2>5
    <3>2. \A e \in Data : (\E k \in DOMAIN sp \ {i} : sp[k].data = e) <=> (\E k \in DOMAIN sp : sp[k].data = e) /\ e # d
      BY <1>2, <2>4, <2>6
    <3> QED
      BY <2>3, <3>1, <3>2 DEF InList
  <2>9. \A e \in Data : ~InHand(s, e) /\ ~InHand(s, e)'
    BY <1>1 DEF InHand
  <2>10. /\ \A e \in Data \ {d}, y \in Clients \ {c} : InEntry(s, e, y)' <=> InEntry(s, e, y)
         /\ \A e \in Data : InEntry(s, e, c)' <=> e = d
    BY <2>2, <2>3 DEF InEntry
  <2>11. WhereMap' = [WhereMap EXCEPT ![s] =
            [e \in Data |-> IF e = d THEN Shadow!Held(c)
                            ELSE IF @[e] = Shadow!Held(c) THEN Shadow!Gone ELSE @[e]]]
    <3>1. /\ Where(s, d)' = Shadow!Held(c)
          /\ \A e \in Data \ {d} :
               Where(s, e)' = IF Where(s, e) = Shadow!Held(c) THEN Shadow!Gone ELSE Where(s, e)
      BY <1>1, <1>4, <2>1, <2>7, <2>8, <2>9, <2>10, Given
    <3> QED
      BY <1>4, <2>1, <3>1, MapGive
  <2>12. WhereMap[s][d].at = "stored" /\ c \notin FencedMap[s]
    BY <1>1, <1>4, <2>7, WhereTells DEF WhereMap, FencedMap
  <2>13. FencedMap' = FencedMap
    <3>1. \A y \in Clients : Guardf(s, y)' <=> Guardf(s, y)
      BY <1>1, <2>2, <2>3 DEF Guardf
    <3>2. \A r \in Spaces, y \in Clients : Guardf(r, y)' <=> Guardf(r, y)
      BY <2>1, <3>1, KeptWhere
    <3> QED
      BY <3>2 DEF FencedMap
  <2>14. Shadow!Placed(s, d)
    BY <1>4, <2>12, <2>13 DEF Shadow!Placed, WhereMap, FencedMap
  <2>15. Shadow!Give(s, d, c)
    BY <1>4, <2>11, <2>12, <2>14 DEF Shadow!Give, WhereMap, FencedMap
  <2> QED
    BY <1>4, <2>15
<1> QED
  BY <1>3, <1>5, <1>6, <1>7

-----------------------------------------------------------------------------
\* Every step of the handlers moves the contents as ShadowTuples allows, or not at all.
LEMMA ShadowStep ==
  ASSUME Facts, Facts', [Next]_vars
  PROVE  Shadow!Next \/ (WhereMap' = WhereMap /\ FencedMap' = FencedMap)
<1> DEFINE Moves == Shadow!Next \/ (WhereMap' = WhereMap /\ FencedMap' = FencedMap)
<1> SUFFICES Moves
  OBVIOUS
<1>1. ASSUME \A t \in Spaces : Kept(t) PROVE Moves
  BY <1>1, NothingMoves
<1>2. CASE UNCHANGED vars
  <2>1. \A t \in Spaces : Kept(t)
    BY <1>2 DEF Kept, vars, tshVars
  <2> QED
    BY <1>1, <2>1
<1>3. ASSUME NEW c \in Clients, Client(c) PROVE Moves
  <2>1. \A t \in Spaces : Kept(t)
    BY <1>3 DEF Client, Call, CallFails, Crash, Suspect, tshVars, Kept
  <2> QED
    BY <1>1, <2>1
<1>4. ASSUME NEW s \in Spaces, Shadow!Discard(s) PROVE Moves
  BY <1>4 DEF Shadow!Next
<1>5. ASSUME NEW s \in Spaces, NEW c \in Clients, Serve(s, c) PROVE Moves
  <2>1. CASE OpPut(s, c)
    <3>1. PICK d : d = call[c].data
      OBVIOUS
    <3>2. d \in Data /\ Shadow!Offer(s, d)
      BY <2>1, <3>1, OpPutOffers
    <3> QED
      BY <3>2 DEF Shadow!Next
  <2>2. CASE OpGetHit(s, c)
    <3>1. PICK d : d = space[s][FindTuple(space[s], call[c].expr)].data
      OBVIOUS
    <3>2. (\A t \in Spaces : Kept(t)) \/ (d \in Data /\ Shadow!Give(s, d, c)) \/ Shadow!Discard(s)
      BY <2>2, <3>1, OpGetHitGives
    <3>3. d \in Data /\ Shadow!Give(s, d, c) => Moves
      BY DEF Shadow!Next
    <3> HIDE DEF Moves
    <3> QED
      BY <1>1, <1>4, <3>2, <3>3
  <2>3. CASE OpRetrieve(s, c)
    <3>1. PICK d : d = retrieve[s][c].data
      OBVIOUS
    <3>2. Shadow!Fence(s, c) \/ (d \in Data /\ Shadow!Recover(s, d, c))
      BY <2>3, <3>1, OpRetrieveRecovers
    <3> QED
      BY <3>2 DEF Shadow!Next
  <2>4. CASE \/ OpGuarded(s, c) \/ OpGetMiss(s, c) \/ OpGetLost(s, c)
             \/ OpTshSot(s, c) \/ OpTshEot(s, c) \/ OpGethostInfo(s, c)
    <3>1. hand[s] = Nil /\ UNCHANGED <<hand, accepted, taken>>
      BY <2>4 DEF OpGuarded, OpGetMiss, OpGetLost, OpTshSot, OpTshEot, OpGethostInfo, tshVars, Hit, Serves, Ready
    <3>2. UNCHANGED <<daemon, space, retrieve>> \/ \E how \in {"exited", "killed"} : Ends(s, how)
      <4>1. CASE OpTshEot(s, c)
        BY <4>1 DEF OpTshEot, SendTidInfo
      <4>2. CASE OpGetLost(s, c)
        BY <4>2, Zenon DEF OpGetLost
      <4> QED
        BY <2>4, <4>1, <4>2 DEF OpGuarded, OpGetMiss, OpTshSot, OpGethostInfo, tshVars
    <3>3. CASE UNCHANGED <<daemon, space, retrieve>>
      <4>1. \A t \in Spaces : Kept(t)
        BY <3>1, <3>3 DEF Kept
      <4> QED
        BY <1>1, <4>1
    <3>4. CASE \E how \in {"exited", "killed"} : Ends(s, how)
      <4>1. Shadow!Discard(s)
        BY <3>1, <3>4, EndDiscards
      <4> HIDE DEF Moves
      <4> QED
        BY <1>4, <4>1
    <3> QED
      BY <3>2, <3>3, <3>4
  <2> HIDE DEF Moves
  <2> QED
    BY <1>5, <2>1, <2>2, <2>3, <2>4 DEF Serve
<1>6. ASSUME NEW s \in Spaces, ConsumeTuple(s) PROVE Moves
  <2>1. PICK d : d = hand[s].data
    OBVIOUS
  <2>2. PICK c : c = queue[s][FindRequest(queue[s], hand[s].name)].client
    OBVIOUS
  <2>3. (\A t \in Spaces : Kept(t)) \/ (d \in Data /\ c \in Clients /\ Shadow!Give(s, d, c))
    BY <1>6, <2>1, <2>2, ConsumeTupleGives
  <2>4. d \in Data /\ c \in Clients /\ Shadow!Give(s, d, c) => Moves
    BY DEF Shadow!Next
  <2> HIDE DEF Moves
  <2> QED
    BY <1>1, <2>3, <2>4
<1>7. ASSUME NEW s \in Spaces, StoreHand(s) PROVE Moves
  <2>1. PICK d : d = hand[s].data
    OBVIOUS
  <2>2. d \in Data /\ Shadow!Store(s, d)
    BY <1>7, <2>1, StoreHandStores
  <2> QED
    BY <2>2 DEF Shadow!Next
<1>8. ASSUME NEW s \in Spaces, OpExit(s) PROVE Moves
  <2>1. Shadow!Discard(s)
    BY <1>8, EndDiscards DEF OpExit, Ready
  <2> HIDE DEF Moves
  <2> QED
    BY <1>4, <2>1
<1> HIDE DEF Moves
<1> QED
  BY <1>2, <1>3, <1>5, <1>6, <1>7, <1>8 DEF Next

\* The handlers start as ShadowTuples does, and with the facts.
LEMMA ShadowInit == Init => Facts /\ Shadow!Init
<1> SUFFICES ASSUME Init PROVE Facts /\ Shadow!Init
  OBVIOUS
<1>1. TypeInv
  BY InitType
<1>2. ListInv
  BY DEF Init, ListInv, WellFormed
<1>3. HoldInv
  <2>1. PutsAreFresh /\ \A s \in Spaces : accepted[s] \subseteq used
    BY DEF Init, PutsAreFresh, Putting
  <2>2. \A s \in Spaces : PutsAreNew(s) /\ Contents(s)
    BY DEF Init, PutsAreNew, Putting, Contents, ListHolds, HandHolds, HoldersHold, EntriesHold, Holder
  <2> QED
    BY <2>1, <2>2 DEF HoldInv
<1>4. DownInv /\ OriginInv /\ FenceInv
  BY DEF Init, DownInv, OriginInv, FenceInv, OnlyDeadSuspected, FencedSuspected, NoStrandedBackup, Guardf
<1>5. Facts
  BY <1>1, <1>2, <1>3, <1>4 DEF Facts
<1>6. \A s \in Spaces, d \in Data : Where(s, d) = Shadow!Unknown
  <2>1. \A s \in Spaces, d \in Data : d \notin accepted[s]
    BY DEF Init
  <2> QED
    BY <1>5, <2>1, WhereTells
<1>7. \A s \in Spaces, c \in Clients : ~Guardf(s, c)
  BY DEF Init, Guardf
<1>8. Shadow!Init
  BY <1>6, <1>7 DEF Shadow!Init
<1> QED
  BY <1>5, <1>8

\* If FDD takes only dead clients for lost, every behaviour of the handlers is a life of
\* shadow tuples: each content is at one place at a time, one that is stored or held is
\* lost only when it is overwritten, replaced by the next content its client takes, or the
\* handler ends; a content goes to one client, none of which is fenced off; and what a
\* fenced client held is offered again.
THEOREM HandlersKeepShadows ==
  ASSUME ~FalseSuspicion
  PROVE  Spec => ShadowTupleLife
<1>1. Init => Facts /\ Shadow!Init
  BY ShadowInit
<1>2. Facts /\ [Next]_vars => Facts'
  BY FactsStep
<1>3. Facts /\ Facts' /\ [Next]_vars => [Shadow!Next]_<<WhereMap, FencedMap>>
  BY ShadowStep
<1> QED
  BY <1>1, <1>2, <1>3, PTL DEF Spec, ShadowTupleLife, Shadow!Spec, WhereMap, FencedMap
=============================================================================
