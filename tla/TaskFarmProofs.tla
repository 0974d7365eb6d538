---------------------------- MODULE TaskFarmProofs ----------------------------
(***************************************************************************)
(* What the bag-of-tasks application of TaskFarm does for any number of    *)
(* workers and tasks, whichever workers die: the two handlers outlive      *)
(* them, tasks are taken in the order they were issued, and none is lost.  *)
(*                                                                         *)
(* The first part says what each operation of TupleSpace does when the     *)
(* programs send what they send here (the ...Effect operators): it rests   *)
(* on the invariants of TupleSpaceProofs, with FitInv added.  The second   *)
(* part proves the two orders of things over these effects: OrderInv       *)
(* (issue, list, first taking) and WorkInv (where a task and its result    *)
(* are).                                                                   *)
(***************************************************************************)
EXTENDS TaskFarm, TupleSpaceProofs

-----------------------------------------------------------------------------
(* The programs and what they send. *)

\* What each handler keeps, and who takes from it.
DataOf(s)   == IF s = Problem THEN {TaskTuple(t) : t \in Tasks} \cup {Sentinel(c) : c \in Clients}
               ELSE {ResultTuple(t, w) : t \in Tasks, w \in Workers}
TakersOf(s) == IF s = Problem THEN Workers ELSE {Master}

\* What each program sends.
CallsOf(c) ==
  {Put(Problem, Sentinel(c))} \cup
  IF c = Master THEN {Put(Problem, TaskTuple(t)) : t \in Tasks} \cup {GetAny(Result)}
  ELSE {Put(Result, ResultTuple(t, c)) : t \in Tasks} \cup {GetAny(Problem)}

\* The constants of the application.
LEMMA Farm ==
  /\ Problem \in Spaces /\ Result \in Spaces /\ Problem # Result
  /\ \A s \in Spaces : s = Problem \/ s = Result
  /\ Master \in Clients /\ Master \notin Workers /\ Master \notin Mortal /\ Workers \subseteq Clients
  /\ \A c \in Clients : c = Master \/ c \in Workers
  /\ Tasks \subseteq Nat \ {0} /\ 1 \in Tasks
  /\ Nil \notin Data /\ Nil \notin Clients /\ Nil \notin Spaces /\ Nil \notin Requests
BY FarmAssumption, NilAssumption, RequestsAssumption DEF Tasks

\* Task tuples are told apart by their number, and by their names.
LEMMA TaskTuples ==
  /\ \A t \in Tasks : TaskTuple(t) \in DataOf(Problem) /\ TaskTuple(t) \in Data /\ TaskTuple(t)[2] = t
  /\ \A t, u \in Tasks : TaskTuple(t) = TaskTuple(u) => t = u
  /\ \A t \in Tasks, c \in Clients : TaskTuple(t) # Sentinel(c)
  /\ \A t \in Tasks, d \in DataOf(Problem) : NameOf(d) = NameOf(TaskTuple(t)) => d = TaskTuple(t)
<1>1. \A t \in Tasks : TaskTuple(t) \in DataOf(Problem) /\ TaskTuple(t)[2] = t
  BY DEF DataOf, TaskTuple
<1>2. \A t \in Tasks : TaskTuple(t) \in Data
  BY ProgramsAssumption DEF FarmData
<1>3. \A t, u \in Tasks : TaskTuple(t) = TaskTuple(u) => t = u
  BY DEF TaskTuple
<1>4. \A t \in Tasks, c \in Clients : TaskTuple(t) # Sentinel(c)
  BY DEF TaskTuple, Sentinel
<1>5. ASSUME NEW t \in Tasks, NEW d \in DataOf(Problem), NameOf(d) = NameOf(TaskTuple(t))
      PROVE  d = TaskTuple(t)
  <2>1. CASE \E u \in Tasks : d = TaskTuple(u)
    BY <1>5, <2>1 DEF TaskTuple, NameOf
  <2>2. CASE \E c \in Clients : d = Sentinel(c)
    BY <1>5, <2>2 DEF TaskTuple, Sentinel, NameOf
  <2> QED
    BY <2>1, <2>2 DEF DataOf
<1> QED
  BY <1>1, <1>2, <1>3, <1>4, <1>5

\* A name tells the task.
LEMMA NamesTell ==
  /\ \A d, e : NameOf(d) = NameOf(e) => d[2] = e[2]
  /\ \A t \in Tasks : \A w : ResultTuple(t, w)[2] = t
BY DEF NameOf, ResultTuple

\* A call of a program is a PUT of its own tuples or a GET of anything.
LEMMA CallsOfPrograms ==
  ASSUME NEW c \in Clients, NEW r \in CallsOf(c)
  PROVE  /\ r \in Requests /\ r.space \in Spaces /\ r.op \in {"PUT", "GET"}
         /\ r.op = "PUT" =>
              /\ r = Put(r.space, r.data)
              /\ r.name = NameOf(r.data) /\ r.data \in DataOf(r.space)
         /\ r.op = "GET" =>
              r = GetAny(r.space) /\ r.expr = Names /\ r.wait /\ c \in TakersOf(r.space)
<1>1. CASE r = Put(Problem, Sentinel(c))
  BY <1>1, Farm, ProgramsAssumption DEF Put, FarmRequests, DataOf
<1>2. CASE c = Master /\ \E t \in Tasks : r = Put(Problem, TaskTuple(t))
  BY <1>2, Farm, ProgramsAssumption DEF Put, FarmRequests, DataOf
<1> DEFINE Goal == /\ r \in Requests /\ r.op = "GET" /\ r.space \in Spaces
                    /\ r = GetAny(r.space) /\ r.expr = Names /\ r.wait /\ c \in TakersOf(r.space)
<1>3. CASE c = Master /\ r = GetAny(Result)
  <2>1. r \in Requests
    BY <1>3, Farm, ProgramsAssumption DEF FarmRequests
  <2>2. r.op = "GET" /\ r.space = Result /\ r.expr = Names
    BY <1>3 DEF GetAny
  <2>3. r.wait
    BY <1>3 DEF GetAny
  <2>4. c \in TakersOf(Result)
    BY <1>3, Farm DEF TakersOf
  <2>5. Goal
    BY <1>3, <2>1, <2>2, <2>3, <2>4, Farm
  <2> QED
    BY <2>5
<1>4. CASE c # Master /\ \E t \in Tasks : r = Put(Result, ResultTuple(t, c))
  BY <1>4, Farm, ProgramsAssumption DEF Put, FarmRequests, DataOf
<1>5. CASE c # Master /\ r = GetAny(Problem)
  <2>1. r \in Requests
    BY <1>5, Farm, ProgramsAssumption DEF FarmRequests
  <2>2. r.op = "GET" /\ r.space = Problem /\ r.expr = Names
    BY <1>5 DEF GetAny
  <2>3. r.wait
    BY <1>5 DEF GetAny
  <2>4. c \in TakersOf(Problem)
    BY <1>5, Farm DEF TakersOf
  <2>5. Goal
    BY <1>5, <2>1, <2>2, <2>3, <2>4, Farm
  <2> QED
    BY <2>5
<1> QED
  BY <1>1, <1>2, <1>3, <1>4, <1>5 DEF CallsOf

\* No program asks for the task map.
LEMMA NoTaskMapAsked == NoTaskMap
BY ProgramsAssumption DEF NoTaskMap, FarmRequests, Put, GetAny

\* All tuples have the same priority, and every GET asks for any name.
LEMMA AnythingIsAsked == RequestsForAnything
<1>1. \A s, d : Put(s, d).op = "PUT"
  BY DEF Put
<1>2. \A s \in Spaces : GetAny(s).expr = Names
  BY DEF GetAny
<1>3. \A r \in Requests : r.op = "GET" => r.expr = Names
  BY <1>1, <1>2, ProgramsAssumption DEF FarmRequests
<1>4. \A p, q \in Priorities : p = q
  BY ProgramsAssumption
<1> QED
  BY <1>3, <1>4 DEF RequestsForAnything

\* What the calls are made of.
LEMMA CallFields ==
  /\ \A s \in Spaces : GetAny(s).op = "GET" /\ GetAny(s).space = s /\ GetAny(s) # Nil
  /\ \A s, d : Put(s, d).op = "PUT" /\ Put(s, d).space = s /\ Put(s, d).data = d
  /\ \A t \in Tasks : Put(Problem, TaskTuple(t)) # Nil
  /\ \A t \in Tasks, w \in Workers : Put(Result, ResultTuple(t, w)) # Nil
<1>1. \A s \in Spaces : GetAny(s).op = "GET" /\ GetAny(s).space = s
  BY DEF GetAny
<1>2. \A s, d : Put(s, d).op = "PUT" /\ Put(s, d).space = s /\ Put(s, d).data = d
  BY DEF Put
<1>3. \A s \in Spaces : GetAny(s) \in Requests
  BY ProgramsAssumption DEF FarmRequests
<1>4. \A t \in Tasks : Put(Problem, TaskTuple(t)) \in Requests
  BY ProgramsAssumption DEF FarmRequests
<1>5. \A t \in Tasks, w \in Workers : Put(Result, ResultTuple(t, w)) \in Requests
  BY ProgramsAssumption DEF FarmRequests
<1> QED
  BY <1>1, <1>2, <1>3, <1>4, <1>5, Farm

-----------------------------------------------------------------------------
(* What holds of the handlers and the programs between two steps. *)

\* A program has only its own calls in flight.
CallsFit == \A c \in Clients : call[c] # Nil => call[c] \in CallsOf(c)

\* Who is blocked waits for anything, at the handler it takes from.
QueuesFit ==
  \A s \in Spaces : \A i \in DOMAIN queue[s] :
    queue[s][i].op = "GET" /\ queue[s][i].expr = Names /\ queue[s][i].client \in TakersOf(s)

\* Each handler has tuples of its own kind, under their names, and has given them to the
\* programs that take from it.
Fits(s, t) == t.data \in DataOf(s) /\ t.name = NameOf(t.data)
TuplesFit ==
  \A s \in Spaces :
    /\ \A i \in DOMAIN space[s] : Fits(s, space[s][i])
    /\ hand[s] # Nil => Fits(s, hand[s])
    /\ \A c \in Clients : retrieve[s][c] # Nil /\ ~retrieve[s][c].fault =>
         Fits(s, retrieve[s][c]) /\ c \in TakersOf(s)

\* The client whose PUT is being placed waits for the reply.
HandIsCall ==
  \A s \in Spaces : hand[s] # Nil /\ hand[s].op = "PUT" =>
    /\ hand[s].client \in Clients /\ call[hand[s].client] # Nil
    /\ call[hand[s].client] = Put(s, hand[s].data)

\* A program that has a tuple to work on has no call in flight.
GotIsFree == \A c \in Clients : got[c] # Nil => call[c] = Nil /\ waiting[c] = Nil

\* What a program has got is of a handler it takes from.
GotFits ==
  \A c \in Clients : got[c] # Nil => \E s \in Spaces : c \in TakersOf(s) /\ got[c].data \in DataOf(s)

\* The master asks for results only when it has issued the tasks.
IssuesFirst ==
  Issued # Tasks =>
    /\ got[Master] = Nil /\ waiting[Master] = Nil
    /\ call[Master] # Nil => call[Master].op = "PUT"

FitInv ==
  /\ CallsFit /\ QueuesFit /\ TuplesFit /\ HandIsCall /\ GotIsFree /\ GotFits /\ IssuesFirst
  /\ Master \in alive /\ HandlersSurvive

\* What the theorems of TupleSpace need and give, for this application.
Handlers == Facts /\ WaitInv /\ NoMissedMatch
Base     == Handlers /\ FitInv

-----------------------------------------------------------------------------
(* What each operation does in this application. *)

\* The types the effects below are read off.
LEMMA BaseTypes ==
  ASSUME Base
  PROVE  /\ \A s \in Spaces : space[s] \in Seq(Node) /\ queue[s] \in Seq(Queued)
         /\ \A s \in Spaces : hand[s] # Nil => hand[s] \in Hand
         /\ \A s \in Spaces, c \in Clients : retrieve[s][c] # Nil => retrieve[s][c] \in Entry
         /\ \A s \in Spaces : daemon[s] = "up"
         /\ call \in [Clients -> Request \cup {Nil}] /\ waiting \in [Clients -> Spaces \cup {Nil}]
         /\ got \in [Clients -> [name: Names, data: Data] \cup [tids: Nat] \cup {Nil}]
         /\ daemon \in [Spaces -> {"up", "exited", "crashed", "killed"}]
         /\ space \in [Spaces -> Seq(Node)]
         /\ queue \in [Spaces -> Seq(Queued)]
         /\ retrieve \in [Spaces -> [Clients -> Entry \cup {Nil}]]
         /\ hand \in [Spaces -> Hand \cup {Nil}]
         /\ taken \in [Spaces -> SUBSET (Data \X Clients)]
         /\ accepted \in [Spaces -> SUBSET Data]
         /\ alive \subseteq Clients
BY DEF Base, Handlers, Facts, TypeInv, TypeOK, FitInv, HandlersSurvive

\* Only the dead are fenced off; the master is not among them.
LEMMA FencedIsDead ==
  ASSUME Base
  PROVE  /\ \A s \in Spaces, c \in Clients : Guardf(s, c) => c \notin alive
         /\ \A s \in Spaces, c \in Clients : Guardf(s, c) => retrieve[s][c].data = Nil
         /\ \A s \in Spaces : hand[s] # Nil /\ hand[s].op = "RETRIEVE" => hand[s].client \notin alive
         /\ \A c \in Clients : c \notin alive => c \in Workers
<1>1. FenceInv /\ Master \in alive
  BY DEF Base, Handlers, Facts, FitInv
<1> QED
  BY <1>1, Farm DEF FenceInv, OnlyDeadSuspected, FencedSuspected, NoStrandedBackup

\* The handlers answer PUT and GET only.
LEMMA ServedCalls ==
  ASSUME Base, NEW s \in Spaces, NEW c \in Clients
  PROVE  /\ ~OpTshSot(s, c) /\ ~OpTshEot(s, c) /\ ~OpGethostInfo(s, c)
         /\ \A ops : Serves(s, c, ops) =>
              /\ call[c] \in CallsOf(c) /\ call[c].space = s /\ call[c] # Nil
              /\ hand[s] = Nil /\ waiting[c] = Nil /\ got[c] = Nil
              /\ call[c].op \in {"PUT", "GET"} /\ call[c].op \in ops
              /\ call[c].op = "PUT" =>
                    /\ call[c] = Put(s, call[c].data)
                    /\ call[c].name = NameOf(call[c].data) /\ call[c].data \in DataOf(s)
              /\ call[c].op = "GET" =>
                   call[c] = GetAny(s) /\ call[c].expr = Names /\ call[c].wait /\ c \in TakersOf(s)
<1>1. CallsFit /\ CallsAreFree /\ GotIsFree
  BY DEF Base, Handlers, FitInv, WaitInv
<1>2. ASSUME NEW ops, Serves(s, c, ops)
      PROVE  /\ call[c] \in CallsOf(c) /\ call[c].space = s /\ call[c] # Nil
             /\ hand[s] = Nil /\ waiting[c] = Nil /\ got[c] = Nil
             /\ call[c].op \in {"PUT", "GET"} /\ call[c].op \in ops
             /\ call[c].op = "PUT" =>
                   /\ call[c] = Put(s, call[c].data)
                   /\ call[c].name = NameOf(call[c].data) /\ call[c].data \in DataOf(s)
             /\ call[c].op = "GET" =>
                   call[c] = GetAny(s) /\ call[c].expr = Names /\ call[c].wait /\ c \in TakersOf(s)
  <2>1. call[c] # Nil /\ call[c].space = s /\ call[c].op \in ops /\ hand[s] = Nil
    BY <1>2 DEF Serves, Ready
  <2>2. call[c] \in CallsOf(c) /\ waiting[c] = Nil /\ got[c] = Nil
    BY <1>1, <2>1 DEF CallsFit, CallsAreFree, GotIsFree
  <2>3. PICK r \in CallsOf(c) : r = call[c]
    BY <2>2
  <2>4. /\ r.op \in {"PUT", "GET"}
        /\ r.op = "PUT" =>
             /\ r = Put(r.space, r.data)
             /\ r.name = NameOf(r.data) /\ r.data \in DataOf(r.space)
        /\ r.op = "GET" =>
             r = GetAny(r.space) /\ r.expr = Names /\ r.wait /\ c \in TakersOf(r.space)
    BY CallsOfPrograms
  <2> QED
    BY <2>1, <2>2, <2>3, <2>4
<1>3. ~Serves(s, c, {"SOT"}) /\ ~Serves(s, c, {"EOT"}) /\ ~Serves(s, c, {"GTS"})
  BY <1>2
<1> QED
  BY <1>2, <1>3 DEF OpTshSot, OpTshEot, OpGethostInfo

\* A dropped request (OpGuarded, OpGetLost) is one of a dead worker, and leaves no trace.
DropEffect(s, c) ==
  /\ c \notin alive /\ call[c].space = s /\ hand[s] = Nil
  /\ \A y \in Clients : call'[y] = IF y = c THEN Nil ELSE call[y]
  /\ UNCHANGED <<tshVars, waiting, got, envVars, accepted, taken>>

\* OpGuarded and OpGetLost drop a request.
LEMMA Drops ==
  ASSUME Base, ~SigPipe, NEW s \in Spaces, NEW c \in Clients, OpGuarded(s, c) \/ OpGetLost(s, c)
  PROVE  DropEffect(s, c)
<1>1. call' = [call EXCEPT ![c] = Nil] /\ call \in [Clients -> Request \cup {Nil}]
  BY BaseTypes DEF OpGuarded, OpGetLost, Answered
<1>2. c \notin alive
  BY FencedIsDead DEF OpGuarded, OpGetLost
<1>3. UNCHANGED <<tshVars, waiting, got, envVars, accepted, taken>>
  BY Zenon DEF OpGuarded, OpGetLost, tshVars
<1>4. call[c].space = s /\ hand[s] = Nil
  BY DEF OpGuarded, OpGetLost, Hit, Serves, Ready
<1> QED
  BY <1>1, <1>2, <1>3, <1>4 DEF DropEffect

\* OpPut takes the content in hand.
PutEffect(s, c) ==
  /\ hand[s] = Nil /\ call[c] # Nil
  /\ call[c] = Put(s, call[c].data) /\ call[c].data \in DataOf(s)
  /\ hand'[s] # Nil /\ hand'[s].op = "PUT" /\ hand'[s].client = c
  /\ hand'[s].data = call[c].data /\ hand'[s].name = NameOf(call[c].data)
  /\ \A z \in Spaces \ {s} : hand'[z] = hand[z] /\ accepted'[z] = accepted[z]
  /\ accepted'[s] = accepted[s] \cup {call[c].data}
  /\ UNCHANGED <<daemon, space, queue, retrieve, info, clientVars, envVars, taken>>

\* OpPut is a PutEffect.
LEMMA Puts ==
  ASSUME Base, NEW s \in Spaces, NEW c \in Clients, OpPut(s, c)
  PROVE  PutEffect(s, c)
<1>1. Serves(s, c, {"PUT"})
  BY DEF OpPut
<1>2. call[c] = Put(s, call[c].data) /\ call[c].name = NameOf(call[c].data)
      /\ call[c].data \in DataOf(s) /\ hand[s] = Nil /\ call[c] # Nil
  BY <1>1, ServedCalls
<1>3. hand' = [hand EXCEPT ![s] = [name |-> call[c].name, data |-> call[c].data,
                                   pri |-> call[c].pri, client |-> c, op |-> "PUT"]]
      /\ accepted' = [accepted EXCEPT ![s] = @ \cup {call[c].data}]
      /\ UNCHANGED <<daemon, space, queue, retrieve, info, clientVars, envVars, taken>>
  BY DEF OpPut
<1>4. hand' \in [Spaces -> Hand \cup {Nil}]
  BY OpPutType DEF Base, Handlers, Facts, TypeInv, TypeOK
<1>5. hand'[s] = [name |-> call[c].name, data |-> call[c].data,
                  pri |-> call[c].pri, client |-> c, op |-> "PUT"]
  BY <1>3, BaseTypes
<1>6. hand'[s] # Nil
  <2>1. call[c].name \in Names /\ call[c].data \in Data /\ call[c].pri \in Priorities
    <3>1. call[c] \in Request /\ call[c].op = "PUT"
      BY <1>1, ServedCalls, BaseTypes
    <3> QED
      BY <3>1, RequestFields
  <2>2. hand'[s] \in Hand
    BY <1>5, <2>1 DEF Hand
  <2> QED
    BY <2>2, NilAssumption
<1> QED
  BY <1>2, <1>3, <1>5, <1>6, BaseTypes DEF PutEffect

\* OpGet without a match blocks the client.
MissEffect(s, c) ==
  /\ call[c] = GetAny(s) /\ c \in TakersOf(s)
  /\ \E r : /\ queue'[s] = Append(queue[s], r) /\ r \in Queued
            /\ r.op = "GET" /\ r.expr = Names /\ r.client = c
  /\ \A z \in Spaces \ {s} : queue'[z] = queue[z]
  /\ \A y \in Clients : /\ call'[y] = IF y = c THEN Nil ELSE call[y]
                        /\ waiting'[y] = IF y = c THEN s ELSE waiting[y]
  /\ UNCHANGED <<daemon, space, retrieve, hand, info, got, envVars, accepted, taken>>

\* OpGetMiss is a MissEffect.
LEMMA Misses ==
  ASSUME Base, NEW s \in Spaces, NEW c \in Clients, OpGetMiss(s, c)
  PROVE  MissEffect(s, c)
<1> DEFINE r == [op |-> call[c].op, expr |-> call[c].expr, client |-> c]
<1>1. Serves(s, c, {"GET", "READ"})
  BY DEF OpGetMiss
<1>2. call[c] = GetAny(s) /\ call[c].op = "GET" /\ call[c].expr = Names /\ call[c].wait /\ c \in TakersOf(s)
  BY <1>1, ServedCalls
<1>3. /\ queue' = [queue EXCEPT ![s] = Append(queue[s], r)]
      /\ waiting' = [waiting EXCEPT ![c] = s]
      /\ call' = [call EXCEPT ![c] = Nil]
      /\ UNCHANGED <<daemon, space, retrieve, hand, info, got, envVars, accepted, taken>>
  BY <1>2, Zenon DEF OpGetMiss, StoreRequest, Answered
<1>4. r \in Queued /\ r.op = "GET" /\ r.expr = Names /\ r.client = c
  BY <1>2 DEF Queued
<1> HIDE DEF r
<1> QED
  BY <1>2, <1>3, <1>4, BaseTypes DEF MissEffect

\* Client c is handed content d, which it will be backed up for; the client it was recovered
\* from is fenced off.
Handed(s, c, d) ==
  /\ c \in TakersOf(s) /\ d \in DataOf(s) /\ ~Guardf(s, c)
  /\ \/ call[c] = GetAny(s) /\ waiting[c] = Nil
     \/ call[c] = Nil /\ waiting[c] = s
  /\ call'[c] = Nil /\ waiting'[c] = Nil
  /\ \A y \in Clients \ {c} : waiting'[y] = waiting[y]
  /\ got[c] = Nil /\ got'[c] # Nil /\ got'[c].data = d
  /\ \A y \in Clients \ {c} : got'[y] = got[y]
  /\ retrieve'[s][c] # Nil /\ ~retrieve'[s][c].fault
  /\ retrieve'[s][c].data = d /\ retrieve'[s][c].name = NameOf(d)
  /\ \A y \in Clients \ {c} :
       \/ retrieve'[s][y] = retrieve[s][y]
       \/ retrieve'[s][y] # Nil /\ retrieve'[s][y].fault /\ retrieve[s][y].data = d
  /\ \A z \in Spaces \ {s} : retrieve'[z] = retrieve[z] /\ taken'[z] = taken[z]
  /\ taken'[s] = taken[s] \cup {<<d, c>>}
  /\ UNCHANGED <<daemon, envVars, accepted>>

\* OpGet with a match hands out the head of the list.
HitEffect(s, c) ==
  /\ space[s] \in Seq(Node) /\ Len(space[s]) > 0
  /\ Handed(s, c, space[s][1].data)
  /\ DOMAIN space'[s] = 1 .. Len(space[s]) - 1
  /\ \A j \in 1 .. Len(space[s]) - 1 :
       space'[s][j].data = space[s][j + 1].data /\ space'[s][j].name = space[s][j + 1].name
  /\ \A z \in Spaces \ {s} : space'[z] = space[z]
  /\ \A y \in Clients \ {c} : call'[y] = call[y]
  /\ hand[s] = Nil /\ call[c] = GetAny(s)
  /\ UNCHANGED <<queue, hand>>

\* OpGetHit is a HitEffect: FindTuple finds the head, and nothing is behind its back pointer.
LEMMA Hits ==
  ASSUME Base, NEW s \in Spaces, NEW c \in Clients, OpGetHit(s, c)
  PROVE  HitEffect(s, c)
<1> DEFINE sp == space[s]
           t  == sp[1]
           b  == Backup(retrieve[s][c], t)
<1>1. Serves(s, c, {"GET", "READ"}) /\ ~Guardf(s, c)
  BY DEF OpGetHit, Hit
<1>2. /\ call[c] = GetAny(s) /\ call[c].op = "GET" /\ call[c].expr = Names /\ c \in TakersOf(s)
      /\ waiting[c] = Nil /\ got[c] = Nil /\ hand[s] = Nil
  BY <1>1, ServedCalls
<1>3. sp \in Seq(Node) /\ sp # <<>>
  <2>1. FindTuple(sp, Names) # 0
    BY <1>2 DEF OpGetHit, Hit
  <2>2. sp \in Seq(Node)
    BY BaseTypes
  <2>3. FindTuple(sp, Names) \in DOMAIN sp
    BY <2>1, <2>2, FindTupleFound
  <2> QED
    BY <2>2, <2>3
<1>4. FindTuple(sp, call[c].expr) = 1 /\ ~DeleteCrashes(sp, 1)
  BY <1>2, <1>3, AnythingIsAsked, HeadIsFound DEF DeleteCrashes
<1>5. Len(sp) \in Nat /\ Len(sp) > 0 /\ 1 \in DOMAIN sp /\ t \in Node
  BY <1>3
<1>6. /\ got' = [got EXCEPT ![c] = [name |-> t.name, data |-> t.data]]
      /\ taken' = [taken EXCEPT ![s] = @ \cup {<<t.data, c>>}]
      /\ space' = [space EXCEPT ![s] = Unlink(sp, 1)]
      /\ retrieve' = [retrieve EXCEPT ![s][c] = b]
      /\ call' = [call EXCEPT ![c] = Nil]
      /\ UNCHANGED <<daemon, queue, hand, waiting, envVars, accepted>>
  BY <1>2, <1>4 DEF OpGetHit, Answered
<1>7. t.name \in Names /\ t.data \in Data /\ t.pri \in Priorities
  BY <1>5 DEF Node
<1>8. t.data \in DataOf(s) /\ t.name = NameOf(t.data)
  BY <1>5 DEF Base, FitInv, TuplesFit, Fits
<1>9. b # Nil /\ ~b.fault /\ b.data = t.data /\ b.name = t.name
  <2>1. retrieve[s][c] \in Entry \cup {Nil}
    BY BaseTypes
  <2>2. b \in Entry
    BY <1>7, <2>1, BackupType
  <2> QED
    BY <1>1, <2>2, NilAssumption DEF Backup, Guardf
<1>10. /\ DOMAIN Unlink(sp, 1) = 1 .. Len(sp) - 1
       /\ \A j \in 1 .. Len(sp) - 1 :
            Unlink(sp, 1)[j].data = sp[j + 1].data /\ Unlink(sp, 1)[j].name = sp[j + 1].name
  BY <1>3, <1>5, UnlinkProperties, UnlinkData
<1>11. got'[c] # Nil /\ got'[c].data = t.data
  <2>1. got'[c] = [name |-> t.name, data |-> t.data]
    BY <1>6, BaseTypes
  <2>2. [name |-> t.name, data |-> t.data] # Nil
    BY <1>7, NilAssumption
  <2> QED
    BY <2>1, <2>2
<1> HIDE DEF b, t, sp
<1>12. retrieve'[s][c] = b /\ taken'[s] = taken[s] \cup {<<t.data, c>>}
       /\ (\A y \in Clients \ {c} : retrieve'[s][y] = retrieve[s][y])
       /\ (\A z \in Spaces \ {s} : retrieve'[z] = retrieve[z] /\ taken'[z] = taken[z])
  BY <1>6, BaseTypes
<1>13. call'[c] = Nil /\ (\A y \in Clients \ {c} : call'[y] = call[y] /\ got'[y] = got[y])
  BY <1>6, BaseTypes
<1>14. Handed(s, c, t.data)
  BY <1>1, <1>2, <1>6, <1>8, <1>9, <1>11, <1>12, <1>13 DEF Handed
<1>15. space'[s] = Unlink(sp, 1) /\ \A z \in Spaces \ {s} : space'[z] = space[z]
  BY <1>6, BaseTypes
<1> QED
  BY <1>2, <1>3, <1>5, <1>6, <1>10, <1>13, <1>14, <1>15 DEF HitEffect, t, sp

\* OpRetrieve takes in hand what a dead client was backed up for, or fences it off.
RecoverEffect(s, c) ==
  /\ hand[s] = Nil /\ c \notin alive /\ ~Guardf(s, c)
  /\ \/ /\ retrieve[s][c] # Nil
        /\ hand'[s] # Nil /\ hand'[s].op = "RETRIEVE" /\ hand'[s].client = c
        /\ hand'[s].data = retrieve[s][c].data /\ hand'[s].name = retrieve[s][c].name
        /\ Fits(s, retrieve[s][c])
        /\ \A z \in Spaces \ {s} : hand'[z] = hand[z]
        /\ UNCHANGED retrieve
     \/ /\ retrieve[s][c] = Nil
        /\ retrieve'[s][c] # Nil /\ retrieve'[s][c].fault
        /\ \A y \in Clients \ {c} : retrieve'[s][y] = retrieve[s][y]
        /\ \A z \in Spaces \ {s} : retrieve'[z] = retrieve[z]
        /\ UNCHANGED hand
  /\ UNCHANGED <<daemon, space, queue, info, clientVars, envVars, accepted, taken>>

\* OpRetrieve is a RecoverEffect.
LEMMA Recovers ==
  ASSUME Base, NEW s \in Spaces, NEW c \in Clients, OpRetrieve(s, c)
  PROVE  RecoverEffect(s, c)
<1> DEFINE e == retrieve[s][c]
           h == [name |-> e.name, data |-> e.data, pri |-> e.pri, client |-> c, op |-> "RETRIEVE"]
           f == [name |-> Nil, data |-> Nil, pri |-> Nil, fault |-> TRUE]
<1>1. /\ hand[s] = Nil /\ c \in suspected /\ ~Guardf(s, c)
      /\ UNCHANGED <<daemon, space, queue, info, clientVars, envVars, accepted, taken>>
  BY DEF OpRetrieve, Ready
<1>2. c \notin alive
  BY <1>1 DEF Base, Handlers, Facts, FenceInv, OnlyDeadSuspected
<1>3. CASE e # Nil
  <2>1. hand' = [hand EXCEPT ![s] = h] /\ UNCHANGED retrieve
    BY <1>3 DEF OpRetrieve
  <2>2. Fits(s, e)
    BY <1>1, <1>3 DEF Base, FitInv, TuplesFit, Guardf
  <2>3. e.name \in Names /\ e.data \in Data /\ e.pri \in Priorities
    BY <1>1, <1>3 DEF Base, Handlers, Facts, TypeInv, EntryFilled, Guardf
  <2>4. h \in Hand
    BY <2>3 DEF Hand
  <2>5. h # Nil
    BY <2>4, NilAssumption
  <2>6. hand'[s] = h /\ \A z \in Spaces \ {s} : hand'[z] = hand[z]
    BY <2>1, BaseTypes
  <2> QED
    BY <1>1, <1>2, <1>3, <2>1, <2>2, <2>5, <2>6 DEF RecoverEffect
<1>4. CASE e = Nil
  <2>1. retrieve' = [retrieve EXCEPT ![s][c] = f] /\ UNCHANGED hand
    BY <1>4 DEF OpRetrieve
  <2>2. retrieve'[s][c] = f
    BY <2>1, BaseTypes
  <2>3. /\ \A y \in Clients \ {c} : retrieve'[s][y] = retrieve[s][y]
        /\ \A z \in Spaces \ {s} : retrieve'[z] = retrieve[z]
    BY <2>1, BaseTypes
  <2>4. f \in Entry
    BY DEF Entry
  <2>5. f # Nil /\ f.fault
    BY <2>4, NilAssumption
  <2> QED
    BY <1>1, <1>2, <1>4, <2>1, <2>2, <2>3, <2>5 DEF RecoverEffect
<1> QED
  BY <1>3, <1>4

\* The operation that made the tuple in hand ends.
Placed(s) ==
  /\ hand[s] # Nil /\ Fits(s, hand[s])
  /\ hand[s].op \in {"PUT", "RETRIEVE"} /\ hand[s].client \in Clients
  /\ hand'[s] = Nil
  /\ \A z \in Spaces \ {s} : hand'[z] = hand[z]
  /\ \A y \in Clients : call'[y] = IF hand[s].op = "PUT" /\ y = hand[s].client THEN Nil ELSE call[y]

\* Finish ends the placing, whatever the backups become.
LEMMA Finishes ==
  ASSUME Base, NEW s \in Spaces, hand[s] # Nil, NEW back, Finish(s, back)
  PROVE  Placed(s)
<1>1. hand[s] \in Hand
  BY BaseTypes
<1>2. hand[s].op \in {"PUT", "RETRIEVE"} /\ hand[s].client \in Clients
  BY <1>1 DEF Hand
<1>3. Fits(s, hand[s])
  BY DEF Base, FitInv, TuplesFit
<1>4. /\ hand' = [hand EXCEPT ![s] = Nil]
      /\ call' = IF hand[s].op = "PUT" THEN [call EXCEPT ![hand[s].client] = Nil] ELSE call
  BY DEF Finish, Answered
<1>5. \A y \in Clients : call'[y] = IF hand[s].op = "PUT" /\ y = hand[s].client THEN Nil ELSE call[y]
  BY <1>2, <1>4, BaseTypes
<1>6. hand'[s] = Nil /\ \A z \in Spaces \ {s} : hand'[z] = hand[z]
  BY <1>4, BaseTypes
<1> QED
  BY <1>2, <1>3, <1>5, <1>6 DEF Placed

\* storeTuple puts the tuple in hand into the list: over the one of its name, at the end
\* (OpPut) or in front (OpRetrieve).
StoredOver(s) ==
  /\ DOMAIN space'[s] = DOMAIN space[s]
  /\ \E k \in DOMAIN space[s] :
       /\ space[s][k].name = hand[s].name
       /\ \A j \in DOMAIN space[s] :
            /\ space'[s][j].name = space[s][j].name
            /\ space'[s][j].data = IF j = k THEN hand[s].data ELSE space[s][j].data
StoredLast(s) ==
  /\ hand[s].op = "PUT"
  /\ DOMAIN space'[s] = 1 .. Len(space[s]) + 1
  /\ space'[s][Len(space[s]) + 1].name = hand[s].name
  /\ space'[s][Len(space[s]) + 1].data = hand[s].data
  /\ \A j \in 1 .. Len(space[s]) : space'[s][j] = space[s][j]
StoredFirst(s) ==
  /\ hand[s].op = "RETRIEVE"
  /\ DOMAIN space'[s] = 1 .. Len(space[s]) + 1
  /\ space'[s][1].name = hand[s].name /\ space'[s][1].data = hand[s].data
  /\ \A j \in 1 .. Len(space[s]) : space'[s][j + 1] = space[s][j]

StoreEffect(s) ==
  /\ Placed(s)
  /\ space[s] \in Seq(Node)
  /\ StoredOver(s) \/ StoredLast(s) \/ StoredFirst(s)
  /\ \A z \in Spaces \ {s} : space'[z] = space[z] /\ retrieve'[z] = retrieve[z]
  /\ \A y \in Clients :
       \/ retrieve'[s][y] = retrieve[s][y]
       \/ retrieve'[s][y] # Nil /\ retrieve'[s][y].fault /\ retrieve[s][y].data = hand[s].data
  /\ UNCHANGED <<daemon, queue, info, waiting, got, envVars, accepted, taken>>

\* The three ways in which storeTuple changes a list.
LEMMA StoredTuple ==
  ASSUME NEW sp \in Seq(Node), WellFormed(sp), NEW t \in Hand, NEW f \in {0, 1}
  PROVE  LET new == StoreTuple(sp, t, f)
         IN  \/ /\ DOMAIN new = DOMAIN sp
                /\ \E k \in DOMAIN sp :
                     /\ sp[k].name = t.name
                     /\ \A j \in DOMAIN sp :
                          /\ new[j].name = sp[j].name
                          /\ new[j].data = IF j = k THEN t.data ELSE sp[j].data
             \/ /\ f = 0
                /\ DOMAIN new = 1 .. Len(sp) + 1
                /\ new[Len(sp) + 1].name = t.name /\ new[Len(sp) + 1].data = t.data
                /\ \A j \in 1 .. Len(sp) : new[j] = sp[j]
             \/ /\ f = 1
                /\ DOMAIN new = 1 .. Len(sp) + 1
                /\ new[1].name = t.name /\ new[1].data = t.data
                /\ \A j \in 1 .. Len(sp) : new[j + 1] = sp[j]
<1> DEFINE node(p) == [name |-> t.name, data |-> t.data, pri |-> t.pri, prev |-> p]
           new == StoreTuple(sp, t, f)
<1>1. \A i \in DOMAIN sp : sp[i] \in Node
  OBVIOUS
<1>2. CASE \E i \in DOMAIN sp : sp[i].name = t.name
  <2>1. new = [i \in DOMAIN sp |->
                 IF sp[i].name = t.name THEN [sp[i] EXCEPT !.data = t.data, !.pri = t.pri] ELSE sp[i]]
    BY <1>2 DEF StoreTuple
  <2>2. PICK k \in DOMAIN sp : sp[k].name = t.name
    BY <1>2
  <2>3. \A j \in DOMAIN sp : sp[j].name = t.name <=> j = k
    BY <2>2 DEF WellFormed
  <2>4. ASSUME NEW j \in DOMAIN sp
        PROVE  new[j].name = sp[j].name /\ new[j].data = IF j = k THEN t.data ELSE sp[j].data
    <3>1. new[j] = IF j = k THEN [sp[j] EXCEPT !.data = t.data, !.pri = t.pri] ELSE sp[j]
      BY <2>1, <2>3
    <3> QED
      BY <1>1, <3>1 DEF Node
  <2> HIDE DEF new
  <2> QED
    BY <2>1, <2>2, <2>4 DEF new
<1>3. CASE ~\E i \in DOMAIN sp : sp[i].name = t.name
  <2>1. PICK p : p = IF sp = <<>> THEN Nil ELSE Last(sp).name
    OBVIOUS
  <2>2. CASE f = 0
    <3>1. new = Append(sp, node(p))
      BY <1>3, <2>1, <2>2 DEF StoreTuple
    <3>2. /\ DOMAIN new = 1 .. Len(sp) + 1 /\ new[Len(sp) + 1] = node(p)
          /\ \A j \in 1 .. Len(sp) : new[j] = sp[j]
      BY <3>1
    <3> QED
      BY <2>2, <3>2
  <2>3. CASE f = 1
    <3>1. new = <<node(Nil)>> \o sp
      BY <1>3, <2>3 DEF StoreTuple
    <3>2. DOMAIN new = 1 .. Len(sp) + 1 /\ new[1] = node(Nil) /\ \A j \in 1 .. Len(sp) : new[j + 1] = sp[j]
      BY <3>1
    <3> QED
      BY <2>3, <3>2
  <2> QED
    BY <2>2, <2>3
<1> QED
  BY <1>2, <1>3

\* StoreHand is a StoreEffect.
LEMMA Stores ==
  ASSUME Base, NEW s \in Spaces, StoreHand(s)
  PROVE  StoreEffect(s)
<1> DEFINE f == IF hand[s].op = "PUT" THEN 0 ELSE 1
<1>1. /\ hand[s] # Nil /\ Finish(s, retrieve[s])
      /\ space' = [space EXCEPT ![s] = StoreTuple(space[s], hand[s], f)]
      /\ UNCHANGED <<daemon, queue, info, waiting, got, envVars, accepted, taken>>
  BY DEF StoreHand
<1>2. Placed(s)
  BY <1>1, Finishes
<1>3. space[s] \in Seq(Node) /\ hand[s] \in Hand /\ WellFormed(space[s]) /\ f \in {0, 1}
  BY <1>1, BaseTypes DEF Base, Handlers, Facts, ListInv
<1>4. f = 0 <=> hand[s].op = "PUT"
  OBVIOUS
<1>5. space'[s] = StoreTuple(space[s], hand[s], f) /\ \A z \in Spaces \ {s} : space'[z] = space[z]
  BY <1>1, BaseTypes
<1> HIDE DEF f
<1>6. hand[s].op \in {"PUT", "RETRIEVE"}
  BY <1>2 DEF Placed
<1>7. StoredOver(s) \/ StoredLast(s) \/ StoredFirst(s)
  BY <1>3, <1>4, <1>5, <1>6, StoredTuple DEF StoredOver, StoredLast, StoredFirst
<1>8. /\ \A z \in Spaces \ {s} : retrieve'[z] = retrieve[z]
      /\ \A y \in Clients :
           \/ retrieve'[s][y] = retrieve[s][y]
           \/ retrieve'[s][y] # Nil /\ retrieve'[s][y].fault /\ retrieve[s][y].data = hand[s].data
  <2>1. TypeInv /\ OriginInv
    BY DEF Base, Handlers, Facts
  <2>2. retrieve[s] \in [Clients -> Entry \cup {Nil}]
    BY BaseTypes
  <2>3. /\ \A z \in Spaces \ {s} : retrieve'[z] = retrieve[z]
        /\ \A y \in Clients : hand[s].op = "PUT" \/ y # hand[s].client => retrieve'[s][y] = retrieve[s][y]
        /\ hand[s].op = "RETRIEVE" =>
             retrieve'[s][hand[s].client] # Nil /\ retrieve'[s][hand[s].client].fault
    BY <1>1, <2>1, <2>2, FinishEffect
  <2>4. hand[s].op = "RETRIEVE" => retrieve[s][hand[s].client].data = hand[s].data
    BY <1>1, <2>1 DEF OriginInv
  <2> QED
    BY <1>6, <2>3, <2>4
<1> QED
  BY <1>1, <1>2, <1>3, <1>5, <1>7, <1>8 DEF StoreEffect

\* consumeTuple passes over a requestor that is dead, or hands the content in hand to one
\* that lives; the list is empty then, for whoever waits would have been given its head.
SkipEffect(s) ==
  /\ \A i \in DOMAIN queue'[s] : \E j \in DOMAIN queue[s] : queue'[s][i] = queue[s][j]
  /\ \A z \in Spaces \ {s} : queue'[z] = queue[z]
  /\ UNCHANGED <<daemon, space, retrieve, hand, info, clientVars, envVars, accepted, taken>>

GiveEffect(s, c) ==
  /\ Placed(s) /\ c \in alive
  /\ Handed(s, c, hand[s].data)
  /\ waiting[c] = s
  /\ \A i \in DOMAIN queue'[s] : \E j \in DOMAIN queue[s] : queue'[s][i] = queue[s][j]
  /\ \A z \in Spaces \ {s} : queue'[z] = queue[z]
  /\ DOMAIN space[s] = {}
  /\ UNCHANGED space

\* ConsumeTuple skips a dead requestor or gives to one that lives.
LEMMA Consumes ==
  ASSUME Base, NEW s \in Spaces, ConsumeTuple(s)
  PROVE  SkipEffect(s) \/ \E c \in Clients : GiveEffect(s, c)
<1> DEFINE h == hand[s]
           k == FindRequest(queue[s], h.name)
           c == queue[s][k].client
           b == Backup(retrieve[s][c], h)
           back == [retrieve[s] EXCEPT ![c] = b]
<1>1. h # Nil /\ h \in Hand /\ queue[s] \in Seq(Queued)
  BY BaseTypes DEF ConsumeTuple
<1>2. k \in DOMAIN queue[s]
  BY <1>1, FindRequestFound DEF ConsumeTuple
<1>3. queue[s][k].op = "GET" /\ queue[s][k].expr = Names /\ c \in TakersOf(s) /\ c \in Clients
  <2>1. queue[s][k] \in Queued
    BY <1>1, <1>2
  <2> QED
    BY <1>2, <2>1 DEF Base, FitInv, QueuesFit, Queued
<1>4. /\ queue' = [queue EXCEPT ![s] = RemoveAt(queue[s], k)]
      /\ IF c \in alive
         THEN /\ waiting' = [waiting EXCEPT ![c] = Nil]
              /\ got' = [got EXCEPT ![c] = [name |-> h.name, data |-> h.data]]
         ELSE UNCHANGED <<waiting, got>>
      /\ IF c \in alive
         THEN /\ taken' = [taken EXCEPT ![s] = @ \cup {<<h.data, c>>}]
              /\ Finish(s, back)
         ELSE UNCHANGED <<info, taken, hand, retrieve, call>>
      /\ UNCHANGED <<daemon, space, envVars, accepted>>
  BY <1>3 DEF ConsumeTuple, SendTuple, DeleteRequest
<1>5. /\ \A i \in DOMAIN queue'[s] : \E j \in DOMAIN queue[s] : queue'[s][i] = queue[s][j]
      /\ \A z \in Spaces \ {s} : queue'[z] = queue[z]
  <2>1. queue'[s] = RemoveAt(queue[s], k) /\ \A z \in Spaces \ {s} : queue'[z] = queue[z]
    BY <1>4, BaseTypes
  <2>2. /\ RemoveAt(queue[s], k) \in Seq(Queued)
        /\ Len(RemoveAt(queue[s], k)) = Len(queue[s]) - 1
        /\ \A j \in 1 .. Len(queue[s]) - 1 :
              RemoveAt(queue[s], k)[j] = IF j < k THEN queue[s][j] ELSE queue[s][j + 1]
    BY <1>1, <1>2, RemoveAtProperties
  <2>3. ASSUME NEW i \in DOMAIN RemoveAt(queue[s], k)
        PROVE  \E j \in DOMAIN queue[s] : RemoveAt(queue[s], k)[i] = queue[s][j]
    BY <1>1, <1>2, <2>2, <2>3
  <2> QED
    BY <2>1, <2>3
<1>6. CASE c \notin alive
  <2>1. SkipEffect(s)
    BY <1>4, <1>5, <1>6 DEF SkipEffect, clientVars
  <2> QED
    BY <2>1
<1>7. CASE c \in alive
  <2>1. waiting[c] = s /\ call[c] = Nil /\ got[c] = Nil
    <3>1. daemon[s] = "up"
      BY BaseTypes
    <3>2. waiting[c] = s
      BY <1>2, <3>1 DEF Base, Handlers, WaitInv, QueueHolds
    <3> QED
      BY <1>3, <3>2, Farm DEF Base, Handlers, FitInv, WaitInv, CallsAreFree, GotIsFree
  <2>2. ~Guardf(s, c) /\ (h.op = "RETRIEVE" => c # h.client)
    BY <1>1, <1>3, <1>7, FencedIsDead
  <2>3. Finish(s, back) /\ Placed(s)
    BY <1>1, <1>4, <1>7, Finishes
  <2>4. Fits(s, h) /\ h.op \in {"PUT", "RETRIEVE"}
    BY <2>3 DEF Placed
  <2>5. h.name \in Names /\ h.data \in Data /\ h.pri \in Priorities
    BY <1>1 DEF Hand
  <2>6. b # Nil /\ ~b.fault /\ b.data = h.data /\ b.name = h.name /\ b \in Entry
    <3>1. retrieve[s][c] \in Entry \cup {Nil}
      BY <1>3, BaseTypes
    <3>2. b \in Entry
      BY <2>5, <3>1, BackupType
    <3> QED
      BY <2>2, <3>2, NilAssumption DEF Backup, Guardf
  <2>7. got'[c] # Nil /\ got'[c].data = h.data /\ \A y \in Clients \ {c} : got'[y] = got[y]
    <3>1. got'[c] = [name |-> h.name, data |-> h.data] /\ \A y \in Clients \ {c} : got'[y] = got[y]
      BY <1>3, <1>4, <1>7, BaseTypes
    <3>2. [name |-> h.name, data |-> h.data] # Nil
      BY <2>5, NilAssumption
    <3> QED
      BY <3>1, <3>2
  <2> HIDE DEF b
  <2>8. /\ back[c] = b /\ \A y \in Clients \ {c} : back[y] = retrieve[s][y]
        /\ back \in [Clients -> Entry \cup {Nil}]
        /\ \A y \in Clients : retrieve[s][y] # Nil => back[y] # Nil
    BY <1>3, <2>6, BaseTypes
  <2> HIDE DEF c, h, k, back
  <2>9. /\ \A z \in Spaces \ {s} : retrieve'[z] = retrieve[z]
        /\ \A y \in Clients : h.op = "PUT" \/ y # h.client => retrieve'[s][y] = back[y]
        /\ h.op = "RETRIEVE" => retrieve'[s][h.client] # Nil /\ retrieve'[s][h.client].fault
    <3>1. TypeInv
      BY DEF Base, Handlers, Facts
    <3> QED
      BY <1>1, <2>3, <2>8, <3>1, FinishEffect DEF h
  <2>10. h.op = "RETRIEVE" => retrieve[s][h.client].data = h.data
    BY <1>1 DEF Base, Handlers, Facts, OriginInv, h
  <2>11. /\ retrieve'[s][c] = b
         /\ \A y \in Clients \ {c} :
              \/ retrieve'[s][y] = retrieve[s][y]
              \/ retrieve'[s][y] # Nil /\ retrieve'[s][y].fault /\ retrieve[s][y].data = h.data
    BY <1>3, <2>2, <2>4, <2>8, <2>9, <2>10
  <2>12. waiting'[c] = Nil /\ (\A y \in Clients \ {c} : waiting'[y] = waiting[y])
    BY <1>3, <1>4, <1>7, BaseTypes
  <2>13. call'[c] = Nil
    BY <1>3, <2>1, <2>3 DEF Placed
  <2>14. taken'[s] = taken[s] \cup {<<h.data, c>>} /\ \A z \in Spaces \ {s} : taken'[z] = taken[z]
    BY <1>4, <1>7, BaseTypes
  <2>15. Handed(s, c, h.data)
    BY <1>3, <1>4, <2>1, <2>2, <2>4, <2>6, <2>7, <2>9, <2>11, <2>12, <2>13, <2>14 DEF Handed, Fits
  <2>16. DOMAIN space[s] = {}
    <3>1. \A j \in DOMAIN space[s] : space[s][j].name \notin queue[s][k].expr
      BY <1>2, BaseTypes DEF Base, Handlers, NoMissedMatch
    <3>2. ASSUME NEW j \in DOMAIN space[s] PROVE space[s][j].name \in Names
      <4>1. space[s][j] \in Node
        BY BaseTypes
      <4> QED
        BY <4>1 DEF Node
    <3> QED
      BY <1>3, <3>1, <3>2
  <2>17. GiveEffect(s, c)
    BY <1>4, <1>5, <1>7, <2>1, <2>3, <2>15, <2>16 DEF GiveEffect, h
  <2> QED
    BY <1>3, <2>17
<1> QED
  BY <1>6, <1>7

-----------------------------------------------------------------------------
(* The steps of the programs. *)

\* A program that is idle sends r.
CallEffect(c, r) ==
  /\ c \in Clients /\ r \in CallsOf(c) /\ c \in alive /\ call[c] = Nil /\ waiting[c] = Nil
  /\ call'[c] = r /\ \A y \in Clients \ {c} : call'[y] = call[y]
  /\ got'[c] = Nil /\ \A y \in Clients \ {c} : got'[y] = got[y]
  /\ used' = IF r.op = "PUT" THEN used \cup {r.data} ELSE used
  /\ UNCHANGED <<tshVars, waiting, alive, suspected, accepted, taken, collected>>

TaskCall(t) ==
  /\ t \in Tasks \ Issued /\ 1 .. (t - 1) \subseteq Issued
  /\ CallEffect(Master, Put(Problem, TaskTuple(t)))
GetCall      == Issued = Tasks /\ got[Master] = Nil /\ CallEffect(Master, GetAny(Result))
SentinelCall == collected = Tasks /\ CallEffect(Master, Put(Problem, Sentinel(Master)))

WorkerGets(w)    == w \in Workers /\ got[w] = Nil /\ CallEffect(w, GetAny(Problem))
WorkerPuts(w, t) ==
  /\ w \in Workers /\ t \in Tasks /\ got[w] # Nil /\ got[w].data = TaskTuple(t)
  /\ CallEffect(w, Put(Result, ResultTuple(t, w)))
WorkerLeaves(w)  ==
  /\ w \in Workers /\ got[w] # Nil /\ \A t \in Tasks : got[w].data # TaskTuple(t)
  /\ CallEffect(w, Put(Problem, Sentinel(w)))

CollectEffect ==
  /\ got[Master] # Nil
  /\ collected' = collected \cup {got[Master].data[2]}
  /\ got'[Master] = Nil /\ \A y \in Clients \ {Master} : got'[y] = got[y]
  /\ UNCHANGED <<tshVars, call, waiting, envVars, accepted, taken>>

\* A worker dies or is found dead.
FailEffect ==
  /\ alive' \subseteq alive /\ (Master \in alive => Master \in alive')
  /\ UNCHANGED <<tshVars, clientVars, used, accepted, taken, collected>>

\* A call of a program is a CallEffect.
LEMMA CallsSent ==
  ASSUME Base, NEW c \in Clients, NEW r \in CallsOf(c), Call(c, r), UNCHANGED collected
  PROVE  CallEffect(c, r)
<1>1. /\ c \in alive /\ call[c] = Nil /\ waiting[c] = Nil
      /\ call' = [call EXCEPT ![c] = r] /\ got' = [got EXCEPT ![c] = Nil]
      /\ used' = IF r.op = "PUT" THEN used \cup {r.data} ELSE used
      /\ UNCHANGED <<tshVars, waiting, alive, suspected, accepted, taken>>
  BY DEF Call, Idle
<1>2. call'[c] = r /\ \A y \in Clients \ {c} : call'[y] = call[y]
  BY <1>1, BaseTypes
<1>3. got'[c] = Nil /\ \A y \in Clients \ {c} : got'[y] = got[y]
  BY <1>1, BaseTypes
<1> QED
  BY <1>1, <1>2, <1>3 DEF CallEffect

\* The steps of the master.
LEMMA MasterSteps ==
  ASSUME Base, MasterStep
  PROVE  (\E t \in Tasks : TaskCall(t)) \/ GetCall \/ SentinelCall \/ CollectEffect
<1>1. CASE PutTask
  <2>1. PICK t \in Tasks \ Issued : 1 .. (t - 1) \subseteq Issued /\ Call(Master, Put(Problem, TaskTuple(t)))
    BY <1>1 DEF PutTask
  <2>2. Put(Problem, TaskTuple(t)) \in CallsOf(Master)
    BY DEF CallsOf
  <2>3. CallEffect(Master, Put(Problem, TaskTuple(t)))
    BY <1>1, <2>1, <2>2, Farm, CallsSent DEF PutTask
  <2> QED
    BY <2>1, <2>3 DEF TaskCall
<1>2. CASE GetResult
  <2>1. GetAny(Result) \in CallsOf(Master)
    BY DEF CallsOf
  <2> QED
    BY <1>2, <2>1, Farm, CallsSent DEF GetResult, GetCall
<1>3. CASE PutSentinel
  <2>1. Put(Problem, Sentinel(Master)) \in CallsOf(Master)
    BY DEF CallsOf
  <2> QED
    BY <1>3, <2>1, Farm, CallsSent DEF PutSentinel, SentinelCall
<1>4. CASE Collect
  <2>1. got' = [got EXCEPT ![Master] = Nil]
    BY <1>4 DEF Collect
  <2>2. got'[Master] = Nil /\ \A y \in Clients \ {Master} : got'[y] = got[y]
    BY <2>1, Farm, BaseTypes
  <2> QED
    BY <1>4, <2>2 DEF Collect, CollectEffect
<1> QED
  BY <1>1, <1>2, <1>3, <1>4 DEF MasterStep

\* The steps of a worker.
LEMMA WorkerSteps ==
  ASSUME Base, NEW w \in Workers, WorkerStep(w)
  PROVE  WorkerGets(w) \/ (\E t \in Tasks : WorkerPuts(w, t)) \/ WorkerLeaves(w)
<1>0. w \in Clients /\ w # Master
  BY Farm
<1>1. CASE GetTask(w)
  <2>1. GetAny(Problem) \in CallsOf(w)
    BY <1>0 DEF CallsOf
  <2> QED
    BY <1>0, <1>1, <2>1, CallsSent DEF GetTask, WorkerGets
<1>2. ASSUME got[w] # Nil
      PROVE  \/ \E t \in Tasks : got[w].data = TaskTuple(t)
             \/ got[w].data[1] = "sentinel" /\ \A t \in Tasks : got[w].data # TaskTuple(t)
  <2>1. got[w].data \in DataOf(Problem)
    BY <1>0, <1>2, Farm DEF Base, FitInv, GotFits, TakersOf
  <2>2. \A c \in Clients : Sentinel(c)[1] = "sentinel"
    BY DEF Sentinel
  <2> QED
    BY <2>1, <2>2, TaskTuples DEF DataOf
<1>3. CASE PutResult(w)
  <2>1. PICK t \in Tasks : got[w].data = TaskTuple(t)
    <3>1. got[w] # Nil /\ got[w].data[1] = "task"
      BY <1>3 DEF PutResult
    <3> QED
      BY <1>2, <3>1
  <2>2. got[w].data[2] = t
    BY <2>1, TaskTuples
  <2>3. Put(Result, ResultTuple(t, w)) \in CallsOf(w)
    BY <1>0 DEF CallsOf
  <2>4. CallEffect(w, Put(Result, ResultTuple(t, w)))
    BY <1>0, <1>3, <2>2, <2>3, CallsSent DEF PutResult
  <2> QED
    BY <1>3, <2>1, <2>4 DEF PutResult, WorkerPuts
<1>4. CASE ReturnSentinel(w)
  <2>1. got[w] # Nil /\ got[w].data[1] = "sentinel"
    BY <1>4 DEF ReturnSentinel
  <2>2. \A t \in Tasks : got[w].data # TaskTuple(t)
    <3>1. \A t \in Tasks : TaskTuple(t)[1] = "task"
      BY DEF TaskTuple
    <3> QED
      BY <2>1, <3>1
  <2>3. Put(Problem, Sentinel(w)) \in CallsOf(w)
    BY DEF CallsOf
  <2>4. CallEffect(w, Put(Problem, Sentinel(w)))
    BY <1>0, <1>4, <2>3, CallsSent DEF ReturnSentinel
  <2> QED
    BY <2>1, <2>2, <2>4 DEF WorkerLeaves
<1> QED
  BY <1>1, <1>3, <1>4 DEF WorkerStep

\* All that a step can do.
ProgramEffect ==
  \/ (\E t \in Tasks : TaskCall(t)) \/ GetCall \/ SentinelCall \/ CollectEffect
  \/ \E w \in Workers : WorkerGets(w) \/ (\E t \in Tasks : WorkerPuts(w, t)) \/ WorkerLeaves(w)
HandlerEffect ==
  \/ \E s \in Spaces, c \in Clients :
        \/ DropEffect(s, c) \/ MissEffect(s, c)
        \/ PutEffect(s, c) \/ RecoverEffect(s, c)
        \/ HitEffect(s, c) \/ GiveEffect(s, c)
  \/ \E s \in Spaces : SkipEffect(s) \/ StoreEffect(s)

\* Every step of the application is one of the effects.
LEMMA Effects ==
  ASSUME Base, ~SigPipe, FarmNext
  PROVE  ProgramEffect \/ FailEffect \/ (HandlerEffect /\ UNCHANGED collected)
<1>1. CASE MasterStep
  BY <1>1, MasterSteps DEF ProgramEffect
<1>2. ASSUME NEW w \in Workers, WorkerStep(w) PROVE ProgramEffect
  BY <1>2, WorkerSteps DEF ProgramEffect
<1>3. ASSUME NEW w \in Workers, FarmCrash(w) \/ FarmSuspect(w) PROVE FailEffect
  BY <1>3, Farm DEF FarmCrash, FarmSuspect, Crash, Suspect, FailEffect, clientVars
<1>4. ASSUME NEW s \in Spaces, NEW c \in Clients, FarmServe(s, c)
      PROVE  HandlerEffect /\ UNCHANGED collected
  <2>1. Serve(s, c) /\ UNCHANGED collected
    BY <1>4 DEF FarmServe
  <2>2. ~OpTshSot(s, c) /\ ~OpTshEot(s, c) /\ ~OpGethostInfo(s, c)
    BY ServedCalls
  <2>3. CASE OpGuarded(s, c) \/ OpGetLost(s, c)
    BY <2>1, <2>3, Drops DEF HandlerEffect
  <2>4. CASE OpPut(s, c)
    BY <2>1, <2>4, Puts DEF HandlerEffect
  <2>5. CASE OpGetMiss(s, c)
    BY <2>1, <2>5, Misses DEF HandlerEffect
  <2>6. CASE OpGetHit(s, c)
    BY <2>1, <2>6, Hits DEF HandlerEffect
  <2>7. CASE OpRetrieve(s, c)
    BY <2>1, <2>7, Recovers DEF HandlerEffect
  <2> QED
    BY <2>1, <2>2, <2>3, <2>4, <2>5, <2>6, <2>7 DEF Serve
<1>5. ASSUME NEW s \in Spaces, FarmPlace(s)
      PROVE  HandlerEffect /\ UNCHANGED collected
  <2>1. CASE ConsumeTuple(s)
    BY <1>5, <2>1, Consumes DEF FarmPlace, HandlerEffect
  <2>2. CASE StoreHand(s)
    BY <1>5, <2>2, Stores DEF FarmPlace, HandlerEffect
  <2> QED
    BY <1>5, <2>1, <2>2 DEF FarmPlace
<1> QED
  BY <1>1, <1>2, <1>3, <1>4, <1>5 DEF FarmNext

-----------------------------------------------------------------------------
(* Every step keeps what the handlers and the programs have in order. *)

\* The invariants of TupleSpace survive the steps of the application.
LEMMA HandlersStep ==
  ASSUME ~FalseSuspicion, Base, FarmNext
  PROVE  Handlers'
<1>0. Facts /\ WaitInv /\ NoMissedMatch /\ TypeInv
  BY DEF Base, Handlers, Facts
<1>1. CASE Next
  BY <1>0, <1>1, FactsStep, WaitStep, MatchStep, NoTaskMapAsked DEF Handlers
<1>2. CASE Collect
  <2>1. /\ got' = [got EXCEPT ![Master] = Nil]
        /\ UNCHANGED <<daemon, space, queue, retrieve, hand, info, call, waiting, alive, suspected,
                       used, accepted, taken>>
    BY <1>2 DEF Collect, tshVars, envVars
  <2>2. TypeInv'
    <3>1. got' \in [Clients -> [name: Names, data: Data] \cup [tids: Nat] \cup {Nil}]
      BY <1>0, <2>1 DEF TypeInv, TypeOK
    <3> QED
      BY <1>0, <2>1, <3>1 DEF TypeInv, TypeOK, EntryFilled, RetrievedHasEntry
  <2>3. \A s \in Spaces : Kept(s)
    BY <2>1 DEF Kept
  <2>4. HoldInv'
    BY <1>0, <2>1, <2>3, QuietHolds DEF Facts, CallsEnd
  <2>5. ListInv' /\ DownInv' /\ OriginInv' /\ FenceInv'
    BY <1>0, <2>1 DEF Facts, ListInv, DownInv, OriginInv, FenceInv, OnlyDeadSuspected,
                      FencedSuspected, NoStrandedBackup, Guardf
  <2>6. WaitInv'
    BY <1>0, <2>1 DEF WaitInv, CallsAreFree, QueueHolds
  <2>7. NoMissedMatch'
    BY <1>0, <2>1 DEF NoMissedMatch
  <2> QED
    BY <2>2, <2>4, <2>5, <2>6, <2>7 DEF Handlers, Facts
<1>3. CASE PutTask \/ GetResult \/ PutSentinel
  <2>1. \E r \in Requests : Call(Master, r)
    BY <1>3, Farm, CallsOfPrograms DEF PutTask, GetResult, PutSentinel, CallsOf
  <2> QED
    BY <1>1, <2>1, Farm DEF Next, Client
<1>4. ASSUME NEW w \in Workers, WorkerStep(w) PROVE Next
  <2>0. w \in Clients
    BY Farm
  <2>1. PICK r : Call(w, r)
    BY <1>4 DEF WorkerStep, GetTask, PutResult, ReturnSentinel
  <2>2. call'[w] = r
    BY <2>0, <2>1, BaseTypes DEF Call
  <2>3. call'[w] \in CallsOf(w)
    BY <1>4, WorkerSteps DEF WorkerGets, WorkerPuts, WorkerLeaves, CallEffect
  <2>4. r \in Requests
    BY <2>0, <2>2, <2>3, CallsOfPrograms
  <2> QED
    BY <2>0, <2>1, <2>4 DEF Next, Client
<1>5. ASSUME NEW w \in Workers, FarmCrash(w) \/ FarmSuspect(w) PROVE Next
  BY <1>5, Farm DEF FarmCrash, FarmSuspect, Next, Client
<1>6. ASSUME NEW s \in Spaces, NEW c \in Clients, FarmServe(s, c) PROVE Next
  BY <1>6 DEF FarmServe, Next
<1>7. ASSUME NEW s \in Spaces, FarmPlace(s) PROVE Next
  BY <1>7 DEF FarmPlace, Next
<1> QED
  BY <1>1, <1>2, <1>3, <1>4, <1>5, <1>6, <1>7 DEF FarmNext, MasterStep

\* A program sends a call.
LEMMA FitCalls ==
  ASSUME Base, NEW c, NEW r, CallEffect(c, r), c = Master => r.op = "PUT" \/ Issued = Tasks
  PROVE  FitInv'
<1>0. /\ CallsFit /\ QueuesFit /\ TuplesFit /\ HandIsCall /\ GotIsFree /\ GotFits /\ IssuesFirst
      /\ Master \in alive /\ HandlersSurvive
  BY DEF Base, FitInv
<1>1. /\ c \in Clients /\ r \in CallsOf(c) /\ call[c] = Nil /\ waiting[c] = Nil
      /\ call'[c] = r /\ \A y \in Clients \ {c} : call'[y] = call[y]
      /\ got'[c] = Nil /\ \A y \in Clients \ {c} : got'[y] = got[y]
      /\ used \subseteq used'
      /\ UNCHANGED <<daemon, space, queue, retrieve, hand, waiting, alive>>
  BY DEF CallEffect, tshVars
<1>2. CallsFit' /\ QueuesFit' /\ TuplesFit'
  BY <1>0, <1>1 DEF CallsFit, QueuesFit, TuplesFit
<1>3. HandIsCall'
  BY <1>0, <1>1 DEF HandIsCall
<1>4. GotIsFree' /\ GotFits'
  BY <1>0, <1>1 DEF GotIsFree, GotFits
<1>5. IssuesFirst'
  <2>1. Issued' # Tasks => Issued # Tasks
    BY <1>1 DEF Issued
  <2> QED
    BY <1>0, <1>1, <2>1, Farm DEF IssuesFirst
<1>6. Master \in alive' /\ HandlersSurvive'
  BY <1>0, <1>1 DEF HandlersSurvive
<1> QED
  BY <1>2, <1>3, <1>4, <1>5, <1>6 DEF FitInv

\* The steps of the programs, and of those who die, keep FitInv.
LEMMA FitPrograms ==
  ASSUME Base, ProgramEffect \/ FailEffect
  PROVE  FitInv'
<1>0. /\ CallsFit /\ QueuesFit /\ TuplesFit /\ HandIsCall /\ GotIsFree /\ GotFits /\ IssuesFirst
      /\ Master \in alive /\ HandlersSurvive
  BY DEF Base, FitInv
<1>1. \A s, d : Put(s, d).op = "PUT"
  BY DEF Put
<1>2. CASE \E t \in Tasks : TaskCall(t)
  BY <1>1, <1>2, FitCalls DEF TaskCall
<1>3. CASE GetCall
  BY <1>3, FitCalls DEF GetCall
<1>4. CASE SentinelCall
  BY <1>1, <1>4, FitCalls DEF SentinelCall
<1>5. ASSUME NEW w \in Workers, WorkerGets(w) \/ (\E t \in Tasks : WorkerPuts(w, t)) \/ WorkerLeaves(w)
      PROVE  FitInv'
  <2>1. w # Master
    BY Farm
  <2>2. \E r : CallEffect(w, r)
    BY <1>5 DEF WorkerGets, WorkerPuts, WorkerLeaves
  <2> QED
    BY <2>1, <2>2, FitCalls
<1>6. CASE CollectEffect
  <2>1. /\ got'[Master] = Nil /\ \A y \in Clients \ {Master} : got'[y] = got[y]
        /\ UNCHANGED <<daemon, space, queue, retrieve, hand, call, waiting, alive, used>>
    BY <1>6 DEF CollectEffect, tshVars, envVars
  <2>2. CallsFit' /\ QueuesFit' /\ TuplesFit' /\ HandIsCall' /\ HandlersSurvive' /\ Master \in alive'
    BY <1>0, <2>1 DEF CallsFit, QueuesFit, TuplesFit, HandIsCall, HandlersSurvive
  <2>3. GotIsFree' /\ GotFits' /\ IssuesFirst'
    BY <1>0, <2>1, Farm DEF GotIsFree, GotFits, IssuesFirst, Issued
  <2> QED
    BY <2>2, <2>3 DEF FitInv
<1>7. CASE FailEffect
  <2>1. UNCHANGED <<daemon, space, queue, retrieve, hand, call, waiting, got, used>> /\ Master \in alive'
    BY <1>0, <1>7 DEF FailEffect, tshVars, clientVars
  <2>2. CallsFit' /\ QueuesFit' /\ TuplesFit' /\ HandIsCall' /\ HandlersSurvive' /\ Master \in alive'
    BY <1>0, <2>1 DEF CallsFit, QueuesFit, TuplesFit, HandIsCall, HandlersSurvive
  <2>3. GotIsFree' /\ GotFits' /\ IssuesFirst'
    BY <1>0, <2>1 DEF GotIsFree, GotFits, IssuesFirst, Issued
  <2> QED
    BY <2>2, <2>3 DEF FitInv
<1> QED
  BY <1>2, <1>3, <1>4, <1>5, <1>6, <1>7 DEF ProgramEffect

\* Answers end calls and make none; what was issued stays issued.
LEMMA FitAnswers ==
  ASSUME Base, UNCHANGED <<daemon, envVars>>,
         \A y \in Clients : call'[y] = call[y] \/ call'[y] = Nil
  PROVE  /\ CallsFit' /\ HandlersSurvive' /\ Master \in alive'
         /\ Issued' = Issued
BY DEF Base, FitInv, CallsFit, HandlersSurvive, Issued, envVars

\* A call that ends is not the one a handler is placing the tuple of.
LEMMA OtherCalls ==
  ASSUME Base, UNCHANGED <<hand>>, NEW s \in Spaces, NEW c \in Clients,
         hand[s] = Nil \/ call[c].op # "PUT" \/ call[c] = Nil,
         call[c] = Nil \/ call[c].space = s,
         \A y \in Clients \ {c} : call'[y] = call[y]
  PROVE  HandIsCall'
<1>1. SUFFICES ASSUME NEW z \in Spaces, hand[z] # Nil, hand[z].op = "PUT"
               PROVE  hand[z].client # c
  BY DEF Base, FitInv, HandIsCall
<1>2. call[hand[z].client] # Nil /\ call[hand[z].client] = Put(z, hand[z].data)
  BY <1>1 DEF Base, FitInv, HandIsCall
<1>3. Put(z, hand[z].data).space = z /\ Put(z, hand[z].data).op = "PUT"
  BY DEF Put
<1> QED
  BY <1>1, <1>2, <1>3

\* Operations that hand nothing out keep FitInv.
LEMMA FitQuiet ==
  ASSUME Base, NEW s \in Spaces, NEW c \in Clients, DropEffect(s, c) \/ SkipEffect(s) \/ MissEffect(s, c)
  PROVE  FitInv'
<1>0. /\ CallsFit /\ QueuesFit /\ TuplesFit /\ HandIsCall /\ GotIsFree /\ GotFits /\ IssuesFirst
      /\ Master \in alive /\ HandlersSurvive
  BY DEF Base, FitInv
<1>1. CASE DropEffect(s, c)
  <2>1. /\ c \notin alive /\ call[c].space = s /\ hand[s] = Nil
        /\ \A y \in Clients : call'[y] = IF y = c THEN Nil ELSE call[y]
        /\ UNCHANGED <<daemon, space, queue, retrieve, hand, waiting, got, envVars>>
    BY <1>1 DEF DropEffect, tshVars
  <2>2. QueuesFit' /\ TuplesFit' /\ GotIsFree' /\ GotFits'
    BY <1>0, <2>1 DEF QueuesFit, TuplesFit, GotIsFree, GotFits
  <2>3. HandIsCall'
    BY <2>1, OtherCalls
  <2>4. CallsFit' /\ HandlersSurvive' /\ Master \in alive' /\ Issued' = Issued
    BY <2>1, FitAnswers
  <2>5. IssuesFirst'
    BY <1>0, <2>1, <2>4, Farm DEF IssuesFirst
  <2> QED
    BY <2>2, <2>3, <2>4, <2>5 DEF FitInv
<1>2. CASE SkipEffect(s)
  <2>1. /\ \A i \in DOMAIN queue'[s] : \E j \in DOMAIN queue[s] : queue'[s][i] = queue[s][j]
        /\ \A z \in Spaces \ {s} : queue'[z] = queue[z]
        /\ UNCHANGED <<daemon, space, retrieve, hand, call, waiting, got, envVars>>
    BY <1>2 DEF SkipEffect, clientVars
  <2>2. QueuesFit'
    BY <1>0, <2>1 DEF QueuesFit
  <2>3. TuplesFit' /\ HandIsCall' /\ GotIsFree' /\ GotFits'
    BY <1>0, <2>1 DEF TuplesFit, HandIsCall, GotIsFree, GotFits
  <2>4. CallsFit' /\ HandlersSurvive' /\ Master \in alive' /\ Issued' = Issued
    BY <2>1, FitAnswers
  <2>5. IssuesFirst'
    BY <1>0, <2>1, <2>4 DEF IssuesFirst
  <2> QED
    BY <2>2, <2>3, <2>4, <2>5 DEF FitInv
<1>3. CASE MissEffect(s, c)
  <2>1. PICK r : /\ queue'[s] = Append(queue[s], r) /\ r \in Queued
                 /\ r.op = "GET" /\ r.expr = Names /\ r.client = c
    BY <1>3 DEF MissEffect
  <2>2. /\ call[c] = GetAny(s) /\ c \in TakersOf(s)
        /\ \A z \in Spaces \ {s} : queue'[z] = queue[z]
        /\ \A y \in Clients : /\ call'[y] = IF y = c THEN Nil ELSE call[y]
                              /\ waiting'[y] = IF y = c THEN s ELSE waiting[y]
        /\ UNCHANGED <<daemon, space, retrieve, hand, got, envVars>>
    BY <1>3 DEF MissEffect
  <2>3. call[c] # Nil /\ call[c].op = "GET" /\ call[c].space = s
    BY <2>2, CallFields
  <2>4. QueuesFit'
    <3>1. ASSUME NEW i \in DOMAIN Append(queue[s], r)
          PROVE  LET q == Append(queue[s], r)[i]
                 IN  q.op = "GET" /\ q.expr = Names /\ q.client \in TakersOf(s)
      <4>1. Append(queue[s], r)[i] = r \/ \E j \in DOMAIN queue[s] : Append(queue[s], r)[i] = queue[s][j]
        BY <3>1, <2>1, BaseTypes
      <4> QED
        BY <1>0, <2>1, <2>2, <4>1 DEF QueuesFit
    <3> QED
      BY <1>0, <2>1, <2>2, <3>1 DEF QueuesFit
  <2>5. TuplesFit'
    BY <1>0, <2>2 DEF TuplesFit
  <2>6. HandIsCall'
    BY <2>2, <2>3, OtherCalls
  <2>7. GotIsFree' /\ GotFits'
    BY <1>0, <2>2, <2>3 DEF GotIsFree, GotFits
  <2>8. CallsFit' /\ HandlersSurvive' /\ Master \in alive' /\ Issued' = Issued
    BY <2>2, FitAnswers
  <2>9. IssuesFirst'
    BY <1>0, <2>2, <2>3, <2>8, Farm DEF IssuesFirst
  <2> QED
    BY <2>4, <2>5, <2>6, <2>7, <2>8, <2>9 DEF FitInv
<1> QED
  BY <1>1, <1>2, <1>3

\* So do those that take a tuple in hand.
LEMMA FitTakes ==
  ASSUME Base, NEW s \in Spaces, NEW c \in Clients, PutEffect(s, c) \/ RecoverEffect(s, c)
  PROVE  FitInv'
<1>0. /\ CallsFit /\ QueuesFit /\ TuplesFit /\ HandIsCall /\ GotIsFree /\ GotFits /\ IssuesFirst
      /\ Master \in alive /\ HandlersSurvive
  BY DEF Base, FitInv
<1>1. UNCHANGED <<daemon, space, queue, call, waiting, got, envVars>>
  BY DEF PutEffect, RecoverEffect, clientVars
<1>2. QueuesFit' /\ GotIsFree' /\ GotFits'
  BY <1>0, <1>1 DEF QueuesFit, GotIsFree, GotFits
<1>3. CallsFit' /\ HandlersSurvive' /\ Master \in alive' /\ Issued' = Issued
  BY <1>1, FitAnswers
<1>4. IssuesFirst'
  BY <1>0, <1>1, <1>3 DEF IssuesFirst
<1>5. CASE PutEffect(s, c)
  <2>1. /\ call[c] = Put(s, call[c].data) /\ call[c].data \in DataOf(s)
        /\ hand'[s].client = c /\ hand'[s].data = call[c].data /\ hand'[s].name = NameOf(call[c].data)
        /\ \A z \in Spaces \ {s} : hand'[z] = hand[z]
        /\ UNCHANGED retrieve
    BY <1>5 DEF PutEffect
  <2>2. call[c] # Nil
    BY <1>5 DEF PutEffect
  <2>3. TuplesFit'
    BY <1>0, <1>1, <2>1 DEF TuplesFit, Fits
  <2>4. HandIsCall'
    BY <1>0, <1>1, <2>1, <2>2 DEF HandIsCall
  <2> QED
    BY <1>2, <1>3, <1>4, <2>3, <2>4 DEF FitInv
<1>6. CASE RecoverEffect(s, c)
  <2>1. CASE retrieve[s][c] # Nil
    <3>1. /\ hand'[s].op = "RETRIEVE" /\ hand'[s].data = retrieve[s][c].data
          /\ hand'[s].name = retrieve[s][c].name /\ Fits(s, retrieve[s][c])
          /\ \A z \in Spaces \ {s} : hand'[z] = hand[z]
          /\ UNCHANGED retrieve
      BY <1>6, <2>1 DEF RecoverEffect
    <3>2. TuplesFit' /\ HandIsCall'
      BY <1>0, <1>1, <3>1 DEF TuplesFit, HandIsCall, Fits
    <3> QED
      BY <1>2, <1>3, <1>4, <3>2 DEF FitInv
  <2>2. CASE retrieve[s][c] = Nil
    <3>1. /\ retrieve'[s][c].fault
          /\ \A y \in Clients \ {c} : retrieve'[s][y] = retrieve[s][y]
          /\ \A z \in Spaces \ {s} : retrieve'[z] = retrieve[z]
          /\ UNCHANGED hand
      BY <1>6, <2>2 DEF RecoverEffect
    <3>2. TuplesFit' /\ HandIsCall'
      BY <1>0, <1>1, <3>1 DEF TuplesFit, HandIsCall, Fits
    <3> QED
      BY <1>2, <1>3, <1>4, <3>2 DEF FitInv
  <2> QED
    BY <2>1, <2>2
<1> QED
  BY <1>5, <1>6

\* A client that is handed a content has it, and is backed up for it.
LEMMA FitHanded ==
  ASSUME Base, NEW s \in Spaces, NEW c \in Clients, NEW d, Handed(s, c, d),
         \A y \in Clients \ {c} : call'[y] = call[y] \/ call'[y] = Nil
  PROVE  /\ GotIsFree' /\ GotFits' /\ IssuesFirst'
         /\ CallsFit' /\ HandlersSurvive' /\ Master \in alive'
         /\ \A z \in Spaces : \A y \in Clients :
              retrieve'[z][y] # Nil /\ ~retrieve'[z][y].fault =>
                Fits(z, retrieve'[z][y]) /\ y \in TakersOf(z)
<1>0. GotIsFree /\ GotFits /\ IssuesFirst /\ TuplesFit
  BY DEF Base, FitInv
<1>1. /\ c \in TakersOf(s) /\ d \in DataOf(s)
      /\ \/ call[c] = GetAny(s) /\ waiting[c] = Nil
         \/ call[c] = Nil /\ waiting[c] = s
      /\ call'[c] = Nil /\ waiting'[c] = Nil
      /\ \A y \in Clients \ {c} : waiting'[y] = waiting[y]
      /\ got'[c] # Nil /\ got'[c].data = d
      /\ \A y \in Clients \ {c} : got'[y] = got[y]
      /\ retrieve'[s][c].data = d /\ retrieve'[s][c].name = NameOf(d)
      /\ \A y \in Clients \ {c} :
           retrieve'[s][y] = retrieve[s][y] \/ (retrieve'[s][y] # Nil /\ retrieve'[s][y].fault)
      /\ \A z \in Spaces \ {s} : retrieve'[z] = retrieve[z]
      /\ UNCHANGED <<daemon, envVars>>
  BY DEF Handed
<1>2. GotIsFree' /\ GotFits'
  BY <1>0, <1>1 DEF GotIsFree, GotFits
<1>3. CallsFit' /\ HandlersSurvive' /\ Master \in alive' /\ Issued' = Issued
  BY <1>1, FitAnswers
<1>4. c = Master => Issued = Tasks
  BY <1>0, <1>1, CallFields, Farm DEF IssuesFirst
<1>5. IssuesFirst'
  BY <1>0, <1>1, <1>3, <1>4, Farm DEF IssuesFirst
<1>6. \A z \in Spaces : \A y \in Clients :
        retrieve'[z][y] # Nil /\ ~retrieve'[z][y].fault =>
          Fits(z, retrieve'[z][y]) /\ y \in TakersOf(z)
  BY <1>0, <1>1 DEF TuplesFit, Fits
<1> QED
  BY <1>2, <1>3, <1>5, <1>6

\* So does a hit.
LEMMA FitHits ==
  ASSUME Base, NEW s \in Spaces, NEW c \in Clients, HitEffect(s, c)
  PROVE  FitInv'
<1>0. QueuesFit /\ TuplesFit
  BY DEF Base, FitInv
<1>1. /\ Handed(s, c, space[s][1].data)
      /\ DOMAIN space'[s] = 1 .. Len(space[s]) - 1 /\ Len(space[s]) \in Nat
      /\ DOMAIN space[s] = 1 .. Len(space[s])
      /\ \A j \in 1 .. Len(space[s]) - 1 :
           space'[s][j].data = space[s][j + 1].data /\ space'[s][j].name = space[s][j + 1].name
      /\ \A z \in Spaces \ {s} : space'[z] = space[z]
      /\ \A y \in Clients \ {c} : call'[y] = call[y]
      /\ call[c] = GetAny(s)
      /\ UNCHANGED <<queue, hand>>
  BY DEF HitEffect
<1>2. /\ GotIsFree' /\ GotFits' /\ IssuesFirst'
      /\ CallsFit' /\ HandlersSurvive' /\ Master \in alive'
      /\ \A z \in Spaces : \A y \in Clients :
           retrieve'[z][y] # Nil /\ ~retrieve'[z][y].fault =>
             Fits(z, retrieve'[z][y]) /\ y \in TakersOf(z)
  BY <1>1, FitHanded
<1>3. QueuesFit'
  BY <1>0, <1>1 DEF QueuesFit
<1>4. HandIsCall'
  BY <1>1, CallFields, OtherCalls
<1>5. \A z \in Spaces : \A i \in DOMAIN space'[z] : Fits(z, space'[z][i])
  BY <1>0, <1>1 DEF TuplesFit, Fits
<1>6. TuplesFit'
  BY <1>0, <1>1, <1>2, <1>5 DEF TuplesFit
<1> QED
  BY <1>2, <1>3, <1>4, <1>6 DEF FitInv

\* When an operation ends, the other handlers place for other clients.
LEMMA PlacedCalls ==
  ASSUME Base, NEW s \in Spaces, Placed(s)
  PROVE  HandIsCall' /\ \A y \in Clients : call'[y] = call[y] \/ call'[y] = Nil
<1>1. /\ hand'[s] = Nil /\ hand[s] # Nil
      /\ \A z \in Spaces \ {s} : hand'[z] = hand[z]
      /\ \A y \in Clients : call'[y] = IF hand[s].op = "PUT" /\ y = hand[s].client THEN Nil ELSE call[y]
  BY DEF Placed
<1>2. ASSUME NEW z \in Spaces, hand'[z] # Nil, hand'[z].op = "PUT"
      PROVE  /\ hand'[z].client \in Clients /\ call'[hand'[z].client] # Nil
             /\ call'[hand'[z].client] = Put(z, hand'[z].data)
  <2>1. z # s /\ hand'[z] = hand[z]
    BY <1>1, <1>2
  <2>2. /\ hand[z].client \in Clients /\ call[hand[z].client] # Nil
        /\ call[hand[z].client] = Put(z, hand[z].data)
    BY <1>2, <2>1 DEF Base, FitInv, HandIsCall
  <2>3. hand[s].op = "PUT" => call[hand[s].client] = Put(s, hand[s].data)
    BY <1>1 DEF Base, FitInv, HandIsCall
  <2>4. ~(hand[s].op = "PUT" /\ hand[z].client = hand[s].client)
    BY <2>1, <2>2, <2>3, CallFields
  <2> QED
    BY <1>1, <2>1, <2>2, <2>4
<1> QED
  BY <1>1, <1>2 DEF HandIsCall

\* So does a tuple given to a client that waits.
LEMMA FitGives ==
  ASSUME Base, NEW s \in Spaces, NEW c \in Clients, GiveEffect(s, c)
  PROVE  FitInv'
<1>0. QueuesFit /\ TuplesFit
  BY DEF Base, FitInv
<1>1. /\ Placed(s) /\ Handed(s, c, hand[s].data)
      /\ \A i \in DOMAIN queue'[s] : \E j \in DOMAIN queue[s] : queue'[s][i] = queue[s][j]
      /\ \A z \in Spaces \ {s} : queue'[z] = queue[z]
      /\ UNCHANGED space
  BY DEF GiveEffect
<1>2. HandIsCall' /\ \A y \in Clients : call'[y] = call[y] \/ call'[y] = Nil
  BY <1>1, PlacedCalls
<1>3. /\ GotIsFree' /\ GotFits' /\ IssuesFirst'
      /\ CallsFit' /\ HandlersSurvive' /\ Master \in alive'
      /\ \A z \in Spaces : \A y \in Clients :
           retrieve'[z][y] # Nil /\ ~retrieve'[z][y].fault =>
             Fits(z, retrieve'[z][y]) /\ y \in TakersOf(z)
  BY <1>1, <1>2, FitHanded
<1>4. QueuesFit'
  BY <1>0, <1>1 DEF QueuesFit
<1>5. hand'[s] = Nil /\ \A z \in Spaces \ {s} : hand'[z] = hand[z]
  BY <1>1 DEF Placed
<1>6. TuplesFit'
  BY <1>0, <1>1, <1>3, <1>5 DEF TuplesFit
<1> QED
  BY <1>2, <1>3, <1>4, <1>6 DEF FitInv

\* So does a tuple stored.
LEMMA FitStores ==
  ASSUME Base, NEW s \in Spaces, StoreEffect(s)
  PROVE  FitInv'
<1>0. QueuesFit /\ TuplesFit /\ GotIsFree /\ GotFits /\ IssuesFirst
  BY DEF Base, FitInv
<1>1. /\ Placed(s)
      /\ \A z \in Spaces \ {s} : space'[z] = space[z] /\ retrieve'[z] = retrieve[z]
      /\ \A y \in Clients :
           retrieve'[s][y] = retrieve[s][y] \/ (retrieve'[s][y] # Nil /\ retrieve'[s][y].fault)
      /\ UNCHANGED <<daemon, queue, waiting, got, envVars>>
  BY DEF StoreEffect
<1>2. HandIsCall' /\ \A y \in Clients : call'[y] = call[y] \/ call'[y] = Nil
  BY <1>1, PlacedCalls
<1>3. QueuesFit' /\ GotIsFree' /\ GotFits'
  BY <1>0, <1>1, <1>2 DEF QueuesFit, GotIsFree, GotFits
<1>4. CallsFit' /\ HandlersSurvive' /\ Master \in alive' /\ Issued' = Issued
  BY <1>1, <1>2, FitAnswers
<1>5. IssuesFirst'
  BY <1>0, <1>1, <1>2, <1>4, Farm DEF IssuesFirst
<1>6. hand'[s] = Nil /\ Fits(s, hand[s]) /\ \A z \in Spaces \ {s} : hand'[z] = hand[z]
  BY <1>1 DEF Placed
<1>7. \A i \in DOMAIN space'[s] : Fits(s, space'[s][i])
  <2>0. /\ space[s] \in Seq(Node) /\ Len(space[s]) \in Nat /\ DOMAIN space[s] = 1 .. Len(space[s])
        /\ \A i \in DOMAIN space[s] : Fits(s, space[s][i])
    BY <1>0 DEF StoreEffect, TuplesFit
  <2>1. CASE StoredOver(s)
    BY <1>6, <2>0, <2>1 DEF StoredOver, Fits
  <2>2. CASE StoredLast(s)
    <3>1. ASSUME NEW i \in DOMAIN space'[s] PROVE i = Len(space[s]) + 1 \/ i \in 1 .. Len(space[s])
      BY <2>0, <2>2 DEF StoredLast
    <3> QED
      BY <1>6, <2>0, <2>2, <3>1 DEF StoredLast, Fits
  <2>3. CASE StoredFirst(s)
    <3>1. ASSUME NEW i \in DOMAIN space'[s] PROVE Fits(s, space'[s][i])
      <4>1. CASE i = 1
        BY <1>6, <2>3, <4>1 DEF StoredFirst, Fits
      <4>2. CASE i # 1
        <5>1. i - 1 \in 1 .. Len(space[s]) /\ i = (i - 1) + 1
          BY <2>0, <2>3, <3>1, <4>2 DEF StoredFirst
        <5>2. space'[s][(i - 1) + 1] = space[s][i - 1]
          BY <2>3, <5>1 DEF StoredFirst
        <5> QED
          BY <2>0, <5>1, <5>2
      <4> QED
        BY <4>1, <4>2
    <3> QED
      BY <3>1
  <2> QED
    BY <2>1, <2>2, <2>3 DEF StoreEffect
<1>8. TuplesFit'
  BY <1>0, <1>1, <1>6, <1>7 DEF TuplesFit
<1> QED
  BY <1>2, <1>3, <1>4, <1>5, <1>8 DEF FitInv

\* The inductive invariant of the handlers and the programs.
LEMMA BaseStep ==
  ASSUME ~FalseSuspicion, ~SigPipe, Base, [FarmNext]_farmVars
  PROVE  Base'
<1>1. CASE FarmNext
  <2>1. ProgramEffect \/ FailEffect \/ HandlerEffect
    BY <1>1, Effects
  <2>2. FitInv'
    <3>1. CASE ProgramEffect \/ FailEffect
      BY <3>1, FitPrograms
    <3>2. CASE HandlerEffect
      <4>1. ASSUME NEW s \in Spaces, NEW c \in Clients,
                   \/ DropEffect(s, c) \/ MissEffect(s, c) \/ SkipEffect(s)
                   \/ PutEffect(s, c) \/ RecoverEffect(s, c)
                   \/ HitEffect(s, c) \/ GiveEffect(s, c) \/ StoreEffect(s)
            PROVE  FitInv'
        BY <4>1, FitQuiet, FitTakes, FitHits, FitGives, FitStores
      <4>2. Master \in Clients
        BY Farm
      <4> QED
        BY <3>2, <4>1, <4>2 DEF HandlerEffect
    <3> QED
      BY <2>1, <3>1, <3>2
  <2> QED
    BY <1>1, <2>2, HandlersStep DEF Base
<1>2. CASE UNCHANGED farmVars
  <2>1. UNCHANGED vars
    BY <1>2 DEF farmVars
  <2>2. Handlers'
    BY <2>1, FactsStep, WaitStep, MatchStep, NoTaskMapAsked DEF Base, Handlers, Facts
  <2>3. /\ UNCHANGED <<daemon, space, queue, retrieve, hand, call, waiting, got, used, alive>>
    BY <2>1 DEF vars, tshVars, clientVars, envVars
  <2>4. CallsFit' /\ QueuesFit' /\ TuplesFit' /\ HandIsCall' /\ HandlersSurvive' /\ Master \in alive'
    BY <2>3 DEF Base, FitInv, CallsFit, QueuesFit, TuplesFit, HandIsCall, HandlersSurvive
  <2>5. GotIsFree' /\ GotFits' /\ IssuesFirst'
    BY <2>3 DEF Base, FitInv, GotIsFree, GotFits, IssuesFirst, Issued
  <2> QED
    BY <2>2, <2>4, <2>5 DEF Base, FitInv
<1> QED
  BY <1>1, <1>2

\* All of it holds when the daemons have been started.
LEMMA BaseInit == FarmInit => Base
<1> SUFFICES ASSUME FarmInit PROVE Base
  OBVIOUS
<1>1. Init
  BY DEF FarmInit
<1>2. Facts
  BY <1>1, ShadowInit
<1>3. WaitInv /\ NoMissedMatch
  BY <1>1, Farm DEF Init, WaitInv, CallsAreFree, QueueHolds, NoMissedMatch
<1>4. CallsFit /\ QueuesFit /\ TuplesFit /\ HandIsCall /\ HandlersSurvive
  BY <1>1 DEF Init, CallsFit, QueuesFit, TuplesFit, HandIsCall, HandlersSurvive
<1>5. GotIsFree /\ GotFits /\ IssuesFirst /\ Master \in alive
  BY <1>1, Farm DEF Init, GotIsFree, GotFits, IssuesFirst
<1> QED
  BY <1>2, <1>3, <1>4, <1>5 DEF Base, Handlers, FitInv

\* With two handlers whose programs take the head of a list, a back pointer is never followed,
\* and no write raises a signal: neither handler ever ends, whoever dies and whoever FDD finds
\* dead (deleteTuple, OpGet, OpRetrieve of tsh.c).
THEOREM HandlersOutliveWorkers ==
  ASSUME ~FalseSuspicion, ~SigPipe
  PROVE  FarmSpec => []HandlersSurvive
<1>1. FarmInit => Base
  BY BaseInit
<1>2. Base /\ [FarmNext]_farmVars => Base'
  BY BaseStep
<1>3. Base => HandlersSurvive
  BY DEF Base, FitInv
<1> QED
  BY <1>1, <1>2, <1>3, PTL DEF FarmSpec

-----------------------------------------------------------------------------
(* The order in which the tasks are taken. *)

\* A worker has been handed task t.
Seen(t) == \E w \in Workers : <<TaskTuple(t), w>> \in taken[Problem]

\* The master issues the tasks in order.
IssuedInOrder ==
  \A t, u \in Tasks : t < u /\ TaskTuple(u) \in used => TaskTuple(t) \in used

\* An issued task is with the handler, but for the one that is on its way.
IssuedIsAccepted ==
  \A t \in Tasks : TaskTuple(t) \in used =>
    TaskTuple(t) \in accepted[Problem] \/ call[Master] = Put(Problem, TaskTuple(t))

\* A task that nobody has taken is in the list, or is being put there.
UnseenIsListed ==
  \A t \in Tasks : TaskTuple(t) \in accepted[Problem] /\ ~Seen(t) =>
    \/ InList(Problem, TaskTuple(t))
    \/ hand[Problem] # Nil /\ hand[Problem].op = "PUT" /\ hand[Problem].data = TaskTuple(t)

\* Those before an untaken task have been taken, or are before it in the list.
ListIsInOrder ==
  \A i \in DOMAIN space[Problem], t, u \in Tasks :
    space[Problem][i].data = TaskTuple(u) /\ ~Seen(u) /\ t < u =>
      Seen(t) \/ \E j \in DOMAIN space[Problem] : j < i /\ space[Problem][j].data = TaskTuple(t)

\* Those before a task that is being put have been taken, or are in the list.
HandIsBehind ==
  \A t, u \in Tasks :
    hand[Problem] # Nil /\ hand[Problem].op = "PUT" /\ hand[Problem].data = TaskTuple(u) /\ t < u =>
      Seen(t) \/ InList(Problem, TaskTuple(t))

SeenInOrder == \A t, u \in Tasks : t < u /\ Seen(u) => Seen(t)

OrderInv ==
  /\ IssuedInOrder /\ IssuedIsAccepted
  /\ UnseenIsListed /\ ListIsInOrder /\ HandIsBehind /\ SeenInOrder

\* What a handler holds, from the invariants of TupleSpaceProofs.
LEMMA Holds ==
  ASSUME Base
  PROVE  /\ \A s \in Spaces : hand[s] # Nil =>
              /\ hand[s].data \in accepted[s]
              /\ \A i \in DOMAIN space[s] : space[s][i].data # hand[s].data
              /\ hand[s].op = "RETRIEVE" =>
                   /\ hand[s].client \in TakersOf(s)
                   /\ <<hand[s].data, hand[s].client>> \in taken[s]
         /\ \A c \in Clients : call[c] # Nil /\ call[c].op = "PUT" => call[c].data \in used
<1>1. HoldInv /\ OriginInv /\ TuplesFit
  BY DEF Base, Handlers, Facts, FitInv
<1>2. ASSUME NEW s \in Spaces, hand[s] # Nil
      PROVE  /\ hand[s].data \in accepted[s]
             /\ \A i \in DOMAIN space[s] : space[s][i].data # hand[s].data
             /\ hand[s].op = "RETRIEVE" =>
                  /\ hand[s].client \in TakersOf(s)
                  /\ <<hand[s].data, hand[s].client>> \in taken[s]
  <2>1. Contents(s)
    BY <1>1, BaseTypes DEF HoldInv
  <2>2. CASE hand[s].op = "RETRIEVE"
    <3>1. ~retrieve[s][hand[s].client].fault /\ retrieve[s][hand[s].client].data = hand[s].data
      BY <1>1, <1>2, <2>2 DEF OriginInv
    <3>2. retrieve[s][hand[s].client] # Nil /\ hand[s].client \in Clients
      <4>1. hand[s] \in Hand
        BY <1>2, BaseTypes
      <4> QED
        BY <1>2, <2>2, <4>1 DEF Base, Handlers, Facts, TypeInv, RetrievedHasEntry, Hand
    <3>3. <<hand[s].data, hand[s].client>> \in taken[s]
      BY <2>1, <3>1, <3>2 DEF Contents, EntriesHold
    <3>4. hand[s].client \in TakersOf(s)
      BY <1>1, <3>1, <3>2 DEF TuplesFit
    <3> QED
      BY <1>2, <2>1, <3>3, <3>4 DEF Contents, HandHolds
  <2>3. CASE hand[s].op # "RETRIEVE"
    BY <1>2, <2>1, <2>3 DEF Contents, HandHolds
  <2> QED
    BY <2>2, <2>3
<1>3. \A c \in Clients : call[c] # Nil /\ call[c].op = "PUT" => call[c].data \in used
  BY <1>1 DEF HoldInv, PutsAreFresh, Putting
<1> QED
  BY <1>2, <1>3

\* A task is put by the master alone.
LEMMA TaskCalls ==
  ASSUME NEW c \in Clients, NEW r \in CallsOf(c), NEW t \in Tasks, r.op = "PUT", r.data = TaskTuple(t),
         r.space = Problem
  PROVE  c = Master /\ r = Put(Problem, TaskTuple(t))
<1>1. r # Put(Problem, Sentinel(c))
  BY CallFields, TaskTuples
<1>2. \A u \in Tasks : r # Put(Result, ResultTuple(u, c))
  BY CallFields, Farm
<1>3. r # GetAny(Problem) /\ r # GetAny(Result)
  BY CallFields, Farm
<1>4. c = Master /\ \E u \in Tasks : r = Put(Problem, TaskTuple(u))
  BY <1>1, <1>2, <1>3 DEF CallsOf
<1> QED
  BY <1>4, CallFields

\* A call that issues no task leaves the order alone.
LEMMA OrderCalls ==
  ASSUME Base, OrderInv, NEW c, NEW r, CallEffect(c, r),
         c # Master \/ ~\E t \in Tasks : r = Put(Problem, TaskTuple(t))
  PROVE  OrderInv'
<1>1. /\ c \in Clients /\ r \in CallsOf(c) /\ call[c] = Nil
      /\ call'[c] = r /\ \A y \in Clients \ {c} : call'[y] = call[y]
      /\ used' = IF r.op = "PUT" THEN used \cup {r.data} ELSE used
      /\ UNCHANGED <<space, hand, accepted, taken>>
  BY DEF CallEffect, tshVars
<1>2. \A t \in Tasks : TaskTuple(t) \in used' <=> TaskTuple(t) \in used
  <2>1. SUFFICES ASSUME NEW t \in Tasks, r.op = "PUT" PROVE r.data # TaskTuple(t)
    BY <1>1
  <2>2. r.space \in Spaces /\ r = Put(r.space, r.data) /\ r.data \in DataOf(r.space)
    BY <1>1, <2>1, CallsOfPrograms
  <2>3. CASE r.space = Problem
    BY <1>1, <2>1, <2>3, TaskCalls
  <2>4. CASE r.space = Result
    <3>1. PICK u \in Tasks, w \in Workers : r.data = ResultTuple(u, w)
      BY <2>2, <2>4, Farm DEF DataOf
    <3> QED
      BY <3>1 DEF ResultTuple, TaskTuple
  <2> QED
    BY <2>2, <2>3, <2>4, Farm
<1>3. IssuedInOrder'
  BY <1>2 DEF OrderInv, IssuedInOrder
<1>4. IssuedIsAccepted'
  BY <1>1, <1>2, Farm, CallFields DEF OrderInv, IssuedIsAccepted
<1>5. UnseenIsListed' /\ ListIsInOrder' /\ HandIsBehind' /\ SeenInOrder'
  BY <1>1 DEF OrderInv, UnseenIsListed, ListIsInOrder, HandIsBehind, SeenInOrder, Seen, InList
<1> QED
  BY <1>3, <1>4, <1>5 DEF OrderInv

\* A task is issued after those before it.
LEMMA OrderTaskCalls ==
  ASSUME Base, OrderInv, NEW t \in Tasks, TaskCall(t)
  PROVE  OrderInv'
<1>1. /\ 1 .. (t - 1) \subseteq Issued
      /\ call[Master] = Nil /\ call'[Master] = Put(Problem, TaskTuple(t))
      /\ used' = used \cup {TaskTuple(t)}
      /\ UNCHANGED <<space, hand, accepted, taken>>
  BY CallFields DEF TaskCall, CallEffect, tshVars
<1>2. IssuedInOrder'
  <2>1. SUFFICES ASSUME NEW u \in Tasks, NEW v \in Tasks, u < v, TaskTuple(v) \in used'
                 PROVE  TaskTuple(u) \in used'
    BY DEF IssuedInOrder
  <2>2. CASE TaskTuple(v) \in used
    BY <1>1, <2>1, <2>2 DEF OrderInv, IssuedInOrder
  <2>3. CASE v = t
    <3>1. u \in 1 .. (t - 1)
      BY <2>1, <2>3, Farm
    <3> QED
      BY <1>1, <3>1 DEF Issued
  <2> QED
    BY <1>1, <2>1, <2>2, <2>3, TaskTuples
<1>3. IssuedIsAccepted'
  <2>1. ASSUME NEW u \in Tasks, TaskTuple(u) \in used PROVE TaskTuple(u) \in accepted[Problem]
    BY <1>1, <2>1, CallFields DEF OrderInv, IssuedIsAccepted
  <2> QED
    BY <1>1, <2>1, TaskTuples DEF IssuedIsAccepted
<1>4. UnseenIsListed' /\ ListIsInOrder' /\ HandIsBehind' /\ SeenInOrder'
  <2>1. (UnseenIsListed /\ ListIsInOrder /\ HandIsBehind /\ SeenInOrder) = TRUE
    BY DEF OrderInv
  <2>2. UNCHANGED <<space, hand, accepted, taken>>
    BY <1>1
  <2> QED
    BY <2>1, <2>2 DEF UnseenIsListed, ListIsInOrder, HandIsBehind, SeenInOrder, Seen, InList
<1> QED
  BY <1>2, <1>3, <1>4 DEF OrderInv

\* A call that ends is answered or dropped after its task was accepted.
LEMMA AcceptedStays ==
  ASSUME Base, OrderInv, used' = used, accepted[Problem] \subseteq accepted'[Problem],
         \/ call'[Master] = call[Master]
         \/ \A t \in Tasks : call[Master] = Put(Problem, TaskTuple(t)) => TaskTuple(t) \in accepted[Problem]
  PROVE  IssuedInOrder' /\ IssuedIsAccepted'
BY DEF OrderInv, IssuedInOrder, IssuedIsAccepted

\* The call that a PUT answers is of a content that was accepted.
LEMMA PlacedIsAccepted ==
  ASSUME Base, NEW s \in Spaces, Placed(s)
  PROVE  \/ call'[Master] = call[Master]
         \/ \A t \in Tasks : call[Master] = Put(Problem, TaskTuple(t)) => TaskTuple(t) \in accepted[Problem]
<1>1. /\ hand[s] # Nil
      /\ \A y \in Clients : call'[y] = IF hand[s].op = "PUT" /\ y = hand[s].client THEN Nil ELSE call[y]
  BY DEF Placed
<1>2. hand[s].op = "PUT" => call[hand[s].client] = Put(s, hand[s].data)
  BY <1>1 DEF Base, FitInv, HandIsCall
<1>3. hand[s].data \in accepted[s]
  BY <1>1, Holds
<1> QED
  BY <1>1, <1>2, <1>3, CallFields, Farm

\* Steps of other handlers.
LEMMA OrderElsewhere ==
  ASSUME OrderInv, IssuedInOrder', IssuedIsAccepted',
         taken'[Problem] = taken[Problem], space'[Problem] = space[Problem],
         accepted'[Problem] = accepted[Problem],
         \/ hand'[Problem] = hand[Problem]
         \/ hand[Problem] = Nil /\ hand'[Problem].op # "PUT"
  PROVE  OrderInv'
<1>1. (UnseenIsListed /\ ListIsInOrder /\ HandIsBehind /\ SeenInOrder) = TRUE
  BY DEF OrderInv
<1>2. UnseenIsListed'
  BY <1>1 DEF UnseenIsListed, Seen, InList
<1>3. ListIsInOrder' /\ SeenInOrder'
  BY <1>1 DEF ListIsInOrder, SeenInOrder, Seen
<1>4. HandIsBehind'
  BY <1>1 DEF HandIsBehind, Seen, InList
<1> QED
  BY <1>2, <1>3, <1>4 DEF OrderInv

\* Operations that move no task leave the order alone.
LEMMA OrderQuiet ==
  ASSUME Base, OrderInv, NEW s \in Spaces, NEW c \in Clients,
         DropEffect(s, c) \/ SkipEffect(s) \/ MissEffect(s, c) \/ RecoverEffect(s, c)
  PROVE  OrderInv'
<1>0. Master \in Clients /\ Master \in alive
  BY Farm DEF Base, FitInv
<1>1. UNCHANGED <<space, used, accepted, taken>>
  BY DEF DropEffect, SkipEffect, MissEffect, RecoverEffect, tshVars, envVars
<1>2. \/ hand'[Problem] = hand[Problem]
      \/ hand[Problem] = Nil /\ hand'[Problem].op # "PUT"
  BY Farm DEF DropEffect, SkipEffect, MissEffect, RecoverEffect, tshVars
<1>3. \/ call'[Master] = call[Master]
      \/ \A t \in Tasks : call[Master] = Put(Problem, TaskTuple(t)) => TaskTuple(t) \in accepted[Problem]
  <2>1. CASE DropEffect(s, c)
    BY <1>0, <2>1 DEF DropEffect
  <2>2. CASE SkipEffect(s) \/ RecoverEffect(s, c)
    BY <2>2 DEF SkipEffect, RecoverEffect, clientVars
  <2>3. CASE MissEffect(s, c)
    BY <1>0, <2>3, CallFields DEF MissEffect
  <2> QED
    BY <2>1, <2>2, <2>3
<1>4. IssuedInOrder' /\ IssuedIsAccepted'
  BY <1>1, <1>3, AcceptedStays
<1> QED
  BY <1>1, <1>2, <1>4, OrderElsewhere

\* The task that is put is the last of those issued.
LEMMA OrderPuts ==
  ASSUME Base, OrderInv, NEW s \in Spaces, NEW c \in Clients, PutEffect(s, c)
  PROVE  OrderInv'
<1>1. /\ hand[s] = Nil /\ call[c] # Nil /\ call[c] = Put(s, call[c].data)
      /\ hand'[s] # Nil /\ hand'[s].op = "PUT" /\ hand'[s].data = call[c].data
      /\ \A z \in Spaces \ {s} : hand'[z] = hand[z] /\ accepted'[z] = accepted[z]
      /\ accepted'[s] = accepted[s] \cup {call[c].data}
      /\ UNCHANGED <<space, call, used, taken>>
  BY DEF PutEffect, clientVars, envVars
<1>2. accepted[Problem] \subseteq accepted'[Problem]
  BY <1>1, Farm
<1>3. IssuedInOrder' /\ IssuedIsAccepted'
  BY <1>1, <1>2, AcceptedStays
<1>4. CASE s # Problem
  <2>1. hand'[Problem] = hand[Problem] /\ accepted'[Problem] = accepted[Problem]
    BY <1>1, <1>4, Farm
  <2> QED
    BY <1>1, <1>3, <2>1, OrderElsewhere
<1>5. CASE s = Problem
  <2>0. (UnseenIsListed /\ ListIsInOrder /\ HandIsBehind /\ SeenInOrder) = TRUE
    BY DEF OrderInv
  <2>1. \A t \in Tasks : (Seen(t)' <=> Seen(t)) /\ (InList(Problem, TaskTuple(t))' <=> InList(Problem, TaskTuple(t)))
    BY <1>1 DEF Seen, InList
  <2>2. UnseenIsListed'
    BY <1>1, <1>5, <2>0, <2>1 DEF UnseenIsListed
  <2>3. ListIsInOrder' /\ SeenInOrder'
    BY <1>1, <2>0 DEF ListIsInOrder, SeenInOrder, Seen
  <2>4. HandIsBehind'
    <3>1. SUFFICES ASSUME NEW t \in Tasks, NEW u \in Tasks, call[c].data = TaskTuple(u), t < u
                   PROVE  Seen(t) \/ InList(Problem, TaskTuple(t))
      BY <1>1, <1>5, <2>1 DEF HandIsBehind
    <3>2. call[c].op = "PUT" /\ call[c].space = Problem /\ call[c] \in CallsOf(c)
      BY <1>1, <1>5, CallFields DEF Base, FitInv, CallsFit
    <3>3. c = Master /\ call[Master] = Put(Problem, TaskTuple(u))
      BY <3>1, <3>2, TaskCalls
    <3>4. TaskTuple(u) \in used
      BY <1>1, <3>1, <3>2, Holds
    <3>5. TaskTuple(t) \in used
      BY <3>1, <3>4 DEF OrderInv, IssuedInOrder
    <3>6. call[Master] # Put(Problem, TaskTuple(t))
      <4>1. TaskTuple(t) # TaskTuple(u)
        BY <3>1, TaskTuples, Farm
      <4> QED
        BY <3>3, <4>1, CallFields
    <3>7. TaskTuple(t) \in accepted[Problem]
      BY <3>5, <3>6 DEF OrderInv, IssuedIsAccepted
    <3> QED
      BY <1>1, <1>5, <2>0, <3>7 DEF UnseenIsListed
  <2> QED
    BY <1>3, <2>2, <2>3, <2>4 DEF OrderInv
<1> QED
  BY <1>4, <1>5

\* The head of the list is the first task not taken, or has been taken before.
LEMMA OrderHits ==
  ASSUME Base, OrderInv, NEW s \in Spaces, NEW c \in Clients, HitEffect(s, c)
  PROVE  OrderInv'
<1> DEFINE sp == space[s]
           d == sp[1].data
<1>1. /\ Handed(s, c, d) /\ sp \in Seq(Node) /\ Len(sp) > 0
      /\ DOMAIN space'[s] = 1 .. Len(sp) - 1
      /\ \A j \in 1 .. Len(sp) - 1 : space'[s][j].data = sp[j + 1].data
      /\ \A z \in Spaces \ {s} : space'[z] = space[z]
      /\ \A y \in Clients \ {c} : call'[y] = call[y]
      /\ hand[s] = Nil /\ call[c] = GetAny(s) /\ UNCHANGED hand
  BY DEF HitEffect
<1>2. /\ taken'[s] = taken[s] \cup {<<d, c>>} /\ c \in TakersOf(s)
      /\ \A z \in Spaces \ {s} : taken'[z] = taken[z]
      /\ UNCHANGED <<used, accepted>>
  BY <1>1 DEF Handed, envVars
<1>3. IssuedInOrder' /\ IssuedIsAccepted'
  BY <1>1, <1>2, AcceptedStays, CallFields, Farm
<1>4. CASE s # Problem
  <2>1. taken'[Problem] = taken[Problem] /\ space'[Problem] = space[Problem]
    BY <1>1, <1>2, <1>4, Farm
  <2> QED
    BY <1>1, <1>2, <1>3, <2>1, OrderElsewhere
<1>5. CASE s = Problem
  <2>0. /\ (UnseenIsListed /\ ListIsInOrder /\ HandIsBehind /\ SeenInOrder) = TRUE
        /\ Len(sp) \in Nat /\ DOMAIN sp = 1 .. Len(sp)
    BY <1>1 DEF OrderInv
  <2>1. ASSUME NEW t \in Tasks PROVE Seen(t)' <=> Seen(t) \/ TaskTuple(t) = d
    <3>1. c \in Workers
      BY <1>2, <1>5 DEF TakersOf
    <3> QED
      BY <1>2, <1>5, <3>1 DEF Seen
  <2> HIDE DEF d
  <2>2. ASSUME NEW j \in DOMAIN sp, j # 1
        PROVE  j - 1 \in DOMAIN space'[s] /\ space'[s][j - 1].data = sp[j].data
    BY <1>1, <2>0, <2>2
  <2>3. sp[1].data = d /\ 1 \in DOMAIN sp
    BY <1>1, <2>0 DEF d
  <2>4. UnseenIsListed'
    <3>1. SUFFICES ASSUME NEW t \in Tasks, TaskTuple(t) \in accepted[Problem], ~Seen(t), TaskTuple(t) # d
                   PROVE  InList(Problem, TaskTuple(t))'
      BY <1>2, <2>1 DEF UnseenIsListed
    <3>2. PICK j \in DOMAIN sp : sp[j].data = TaskTuple(t)
      BY <1>1, <1>5, <2>0, <3>1 DEF UnseenIsListed, InList
    <3> QED
      BY <1>5, <2>2, <2>3, <3>1, <3>2 DEF InList
  <2>5. ListIsInOrder'
    <3>1. SUFFICES ASSUME NEW i \in DOMAIN space'[s], NEW t \in Tasks, NEW u \in Tasks,
                          space'[s][i].data = TaskTuple(u), ~Seen(u), t < u,
                          ~Seen(t), TaskTuple(t) # d
                   PROVE  \E j \in DOMAIN space'[s] : j < i /\ space'[s][j].data = TaskTuple(t)
      BY <1>5, <2>1 DEF ListIsInOrder
    <3>2. i + 1 \in DOMAIN sp /\ sp[i + 1].data = TaskTuple(u)
      BY <1>1, <2>0, <3>1
    <3>3. PICK k \in DOMAIN sp : k < i + 1 /\ sp[k].data = TaskTuple(t)
      BY <1>5, <2>0, <3>1, <3>2 DEF ListIsInOrder
    <3>4. k # 1
      BY <2>3, <3>1, <3>3
    <3>5. k - 1 \in DOMAIN space'[s] /\ space'[s][k - 1].data = TaskTuple(t)
      BY <2>2, <3>3, <3>4
    <3>6. k - 1 < i
      BY <1>1, <2>0, <3>1, <3>3
    <3> QED
      BY <3>5, <3>6
  <2>6. HandIsBehind'
    BY <1>1, <1>5 DEF HandIsBehind
  <2>7. SeenInOrder'
    <3>1. ASSUME NEW t \in Tasks, NEW u \in Tasks, t < u, TaskTuple(u) = d, ~Seen(u) PROVE Seen(t)
      <4>1. ~\E j \in DOMAIN sp : j < 1
        BY <2>0
      <4> QED
        BY <1>5, <2>0, <2>3, <3>1, <4>1 DEF ListIsInOrder
    <3> QED
      BY <2>0, <2>1, <3>1 DEF SeenInOrder
  <2> QED
    BY <1>3, <2>4, <2>5, <2>6, <2>7 DEF OrderInv
<1> QED
  BY <1>4, <1>5

\* A task given to a waiting worker finds the list empty.
LEMMA OrderGives ==
  ASSUME Base, OrderInv, NEW s \in Spaces, NEW c \in Clients, GiveEffect(s, c)
  PROVE  OrderInv'
<1> DEFINE d == hand[s].data
<1>1. /\ Placed(s) /\ Handed(s, c, d) /\ DOMAIN space[s] = {} /\ UNCHANGED space
  BY DEF GiveEffect
<1>2. /\ taken'[s] = taken[s] \cup {<<d, c>>} /\ c \in TakersOf(s)
      /\ \A z \in Spaces \ {s} : taken'[z] = taken[z]
      /\ UNCHANGED <<used, accepted>>
  BY <1>1 DEF Handed, envVars
<1>3. /\ hand[s] # Nil /\ hand[s].op \in {"PUT", "RETRIEVE"} /\ hand'[s] = Nil
      /\ \A z \in Spaces \ {s} : hand'[z] = hand[z]
  BY <1>1 DEF Placed
<1>4. IssuedInOrder' /\ IssuedIsAccepted'
  BY <1>1, <1>2, AcceptedStays, PlacedIsAccepted
<1>5. CASE s # Problem
  <2>1. taken'[Problem] = taken[Problem] /\ hand'[Problem] = hand[Problem]
    BY <1>2, <1>3, <1>5, Farm
  <2> QED
    BY <1>1, <1>2, <1>4, <2>1, OrderElsewhere
<1>6. CASE s = Problem
  <2>0. (UnseenIsListed /\ ListIsInOrder /\ HandIsBehind /\ SeenInOrder) = TRUE
    BY DEF OrderInv
  <2>1. ASSUME NEW t \in Tasks PROVE Seen(t)' <=> Seen(t) \/ TaskTuple(t) = d
    <3>1. c \in Workers
      BY <1>2, <1>6 DEF TakersOf
    <3> QED
      BY <1>2, <1>6, <3>1 DEF Seen
  <2>2. \A t \in Tasks : ~InList(Problem, TaskTuple(t))
    BY <1>1, <1>6 DEF InList
  <2>3. UnseenIsListed'
    BY <1>2, <1>6, <2>0, <2>1, <2>2 DEF UnseenIsListed
  <2>4. ListIsInOrder' /\ HandIsBehind'
    BY <1>1, <1>3, <1>6 DEF ListIsInOrder, HandIsBehind
  <2>5. SeenInOrder'
    <3>1. ASSUME NEW t \in Tasks, NEW u \in Tasks, t < u, TaskTuple(u) = d, ~Seen(u) PROVE Seen(t)
      <4>1. hand[s].op = "PUT"
        <5>1. SUFFICES ASSUME hand[s].op = "RETRIEVE" PROVE FALSE
          BY <1>3
        <5>2. hand[s].client \in Workers /\ <<d, hand[s].client>> \in taken[s]
          BY <1>3, <1>6, <5>1, Holds DEF TakersOf
        <5> QED
          BY <1>6, <3>1, <5>2 DEF Seen
      <4> QED
        BY <1>3, <1>6, <2>0, <2>2, <3>1, <4>1 DEF HandIsBehind
    <3> QED
      BY <2>0, <2>1, <3>1 DEF SeenInOrder
  <2> QED
    BY <1>4, <2>3, <2>4, <2>5 DEF OrderInv
<1> QED
  BY <1>5, <1>6

\* storeTuple over a tuple of the same name touches no task: a task's name is its own.
LEMMA NoTaskIsOverwritten ==
  ASSUME Base, Placed(Problem), StoredOver(Problem), NEW t \in Tasks
  PROVE  /\ hand[Problem].data # TaskTuple(t)
         /\ \A j \in DOMAIN space[Problem] :
              space'[Problem][j].data = TaskTuple(t) <=> space[Problem][j].data = TaskTuple(t)
<1> DEFINE sp == space[Problem]
           h  == hand[Problem]
<1>1. PICK k \in DOMAIN sp :
        /\ sp[k].name = h.name
        /\ \A j \in DOMAIN sp : space'[Problem][j].data = IF j = k THEN h.data ELSE sp[j].data
  BY DEF StoredOver
<1>2. h # Nil /\ h.data \in DataOf(Problem) /\ h.name = NameOf(h.data)
  BY DEF Placed, Fits
<1>3. sp[k].data \in DataOf(Problem) /\ sp[k].name = NameOf(sp[k].data)
  BY Farm DEF Base, FitInv, TuplesFit, Fits
<1>4. sp[k].data # h.data
  BY <1>2, Farm, Holds
<1>5. h.data # TaskTuple(t) /\ sp[k].data # TaskTuple(t)
  BY <1>1, <1>2, <1>3, <1>4, TaskTuples
<1> QED
  BY <1>1, <1>5

\* A task is stored behind the others, or in front when it has been taken before.
LEMMA OrderStores ==
  ASSUME Base, OrderInv, NEW s \in Spaces, StoreEffect(s)
  PROVE  OrderInv'
<1> DEFINE sp == space[s]
           d == hand[s].data
<1>1. /\ Placed(s) /\ sp \in Seq(Node)
      /\ StoredOver(s) \/ StoredLast(s) \/ StoredFirst(s)
      /\ \A z \in Spaces \ {s} : space'[z] = space[z]
      /\ UNCHANGED <<used, accepted, taken>>
  BY DEF StoreEffect, envVars
<1>2. /\ hand[s] # Nil /\ hand[s].op \in {"PUT", "RETRIEVE"} /\ hand'[s] = Nil
      /\ \A z \in Spaces \ {s} : hand'[z] = hand[z]
  BY <1>1 DEF Placed
<1>3. IssuedInOrder' /\ IssuedIsAccepted'
  BY <1>1, AcceptedStays, PlacedIsAccepted
<1>4. CASE s # Problem
  <2>1. space'[Problem] = space[Problem] /\ hand'[Problem] = hand[Problem]
    BY <1>1, <1>2, <1>4, Farm
  <2> QED
    BY <1>1, <1>3, <2>1, OrderElsewhere
<1>5. CASE s = Problem
  <2>0. /\ (UnseenIsListed /\ ListIsInOrder /\ HandIsBehind /\ SeenInOrder) = TRUE
        /\ Len(sp) \in Nat /\ DOMAIN sp = 1 .. Len(sp)
    BY <1>1 DEF OrderInv
  <2>1. \A t \in Tasks : Seen(t)' <=> Seen(t)
    BY <1>1 DEF Seen
  <2>2. HandIsBehind'
    BY <1>2, <1>5 DEF HandIsBehind
  <2>3. SeenInOrder'
    BY <2>0, <2>1 DEF SeenInOrder
  <2>4. CASE StoredOver(s)
    <3>1. \A t \in Tasks : /\ d # TaskTuple(t)
                           /\ \A j \in DOMAIN sp : space'[s][j].data = TaskTuple(t) <=> sp[j].data = TaskTuple(t)
      BY <1>1, <1>5, <2>4, NoTaskIsOverwritten
    <3>2. DOMAIN space'[s] = DOMAIN sp
      BY <2>4 DEF StoredOver
    <3>3. UnseenIsListed'
      <4>1. SUFFICES ASSUME NEW t \in Tasks, TaskTuple(t) \in accepted[Problem], ~Seen(t)
                     PROVE  InList(Problem, TaskTuple(t))'
        BY <1>1, <2>1 DEF UnseenIsListed
      <4>2. PICK j \in DOMAIN sp : sp[j].data = TaskTuple(t)
        BY <1>5, <2>0, <3>1, <4>1 DEF UnseenIsListed, InList
      <4> QED
        BY <1>5, <3>1, <3>2, <4>2 DEF InList
    <3>4. ListIsInOrder'
      BY <1>5, <2>0, <2>1, <3>1, <3>2 DEF ListIsInOrder
    <3> QED
      BY <1>3, <2>2, <2>3, <3>3, <3>4 DEF OrderInv
  <2>5. CASE StoredLast(s)
    <3> DEFINE n == Len(sp)
    <3>1. /\ hand[s].op = "PUT" /\ DOMAIN space'[s] = 1 .. n + 1
          /\ space'[s][n + 1].data = d /\ \A j \in 1 .. n : space'[s][j] = sp[j]
      BY <2>5 DEF StoredLast
    <3>2. UnseenIsListed'
      <4>1. SUFFICES ASSUME NEW t \in Tasks, TaskTuple(t) \in accepted[Problem], ~Seen(t)
                     PROVE  InList(Problem, TaskTuple(t))'
        BY <1>1, <2>1 DEF UnseenIsListed
      <4>2. CASE d = TaskTuple(t)
        BY <1>5, <2>0, <3>1, <4>2 DEF InList
      <4>3. CASE d # TaskTuple(t)
        <5>1. PICK j \in DOMAIN sp : sp[j].data = TaskTuple(t)
          BY <1>5, <2>0, <4>1, <4>3 DEF UnseenIsListed, InList
        <5>2. j \in DOMAIN space'[s] /\ space'[s][j].data = TaskTuple(t)
          BY <2>0, <3>1, <5>1
        <5> QED
          BY <1>5, <5>2 DEF InList
      <4> QED
        BY <4>2, <4>3
    <3>3. ListIsInOrder'
      <4>1. SUFFICES ASSUME NEW i \in DOMAIN space'[s], NEW t \in Tasks, NEW u \in Tasks,
                            space'[s][i].data = TaskTuple(u), ~Seen(u), t < u, ~Seen(t)
                     PROVE  \E j \in DOMAIN space'[s] : j < i /\ space'[s][j].data = TaskTuple(t)
        BY <1>5, <2>1 DEF ListIsInOrder
      <4>2. PICK j \in DOMAIN sp : j < i /\ sp[j].data = TaskTuple(t)
        <5>1. CASE i = n + 1
          <6>1. InList(Problem, TaskTuple(t))
            BY <1>2, <1>5, <2>0, <3>1, <4>1, <5>1 DEF HandIsBehind
          <6> QED
            BY <1>5, <2>0, <5>1, <6>1 DEF InList
        <5>2. CASE i # n + 1
          <6>1. i \in DOMAIN sp /\ sp[i].data = TaskTuple(u)
            BY <2>0, <3>1, <4>1, <5>2
          <6> QED
            BY <1>5, <2>0, <4>1, <6>1 DEF ListIsInOrder
        <5> QED
          BY <5>1, <5>2
      <4>3. j \in DOMAIN space'[s] /\ space'[s][j].data = TaskTuple(t)
        BY <2>0, <3>1, <4>2
      <4> QED
        BY <4>2, <4>3
    <3> QED
      BY <1>3, <2>2, <2>3, <3>2, <3>3 DEF OrderInv
  <2>6. CASE StoredFirst(s)
    <3> DEFINE n == Len(sp)
    <3>1. /\ hand[s].op = "RETRIEVE" /\ DOMAIN space'[s] = 1 .. n + 1
          /\ space'[s][1].data = d /\ \A j \in 1 .. n : space'[s][j + 1] = sp[j]
      BY <2>6 DEF StoredFirst
    <3>2. ASSUME NEW j \in DOMAIN sp PROVE j + 1 \in DOMAIN space'[s] /\ space'[s][j + 1].data = sp[j].data
      BY <2>0, <3>1, <3>2
    <3>3. UnseenIsListed'
      <4>1. SUFFICES ASSUME NEW t \in Tasks, TaskTuple(t) \in accepted[Problem], ~Seen(t)
                     PROVE  InList(Problem, TaskTuple(t))'
        BY <1>1, <2>1 DEF UnseenIsListed
      <4>2. PICK j \in DOMAIN sp : sp[j].data = TaskTuple(t)
        BY <1>5, <2>0, <3>1, <4>1 DEF UnseenIsListed, InList
      <4> QED
        BY <1>5, <3>2, <4>2 DEF InList
    <3>4. ListIsInOrder'
      <4>1. SUFFICES ASSUME NEW i \in DOMAIN space'[s], NEW t \in Tasks, NEW u \in Tasks,
                            space'[s][i].data = TaskTuple(u), ~Seen(u), t < u, ~Seen(t)
                     PROVE  \E j \in DOMAIN space'[s] : j < i /\ space'[s][j].data = TaskTuple(t)
        BY <1>5, <2>1 DEF ListIsInOrder
      <4>2. i # 1
        <5>1. SUFFICES ASSUME d = TaskTuple(u) PROVE FALSE
          BY <3>1, <4>1
        <5>2. hand[s].client \in Workers /\ <<d, hand[s].client>> \in taken[s]
          BY <1>2, <1>5, <3>1, Holds DEF TakersOf
        <5> QED
          BY <1>5, <4>1, <5>1, <5>2 DEF Seen
      <4>3. i - 1 \in 1 .. n /\ i = (i - 1) + 1
        BY <2>0, <3>1, <4>1, <4>2
      <4>4. sp[i - 1].data = TaskTuple(u)
        <5>1. space'[s][(i - 1) + 1] = sp[i - 1]
          BY <3>1, <4>3
        <5> QED
          BY <4>1, <4>3, <5>1
      <4>5. PICK k \in DOMAIN sp : k < i - 1 /\ sp[k].data = TaskTuple(t)
        BY <1>5, <2>0, <4>1, <4>3, <4>4 DEF ListIsInOrder
      <4>6. k + 1 \in DOMAIN space'[s] /\ space'[s][k + 1].data = TaskTuple(t) /\ k + 1 < i
        BY <2>0, <3>2, <4>3, <4>5
      <4> QED
        BY <4>6
    <3> QED
      BY <1>3, <2>2, <2>3, <3>3, <3>4 DEF OrderInv
  <2> QED
    BY <1>1, <2>4, <2>5, <2>6
<1> QED
  BY <1>4, <1>5

\* Every step keeps the order.
LEMMA OrderStep ==
  ASSUME ~FalseSuspicion, ~SigPipe, Base, OrderInv, [FarmNext]_farmVars
  PROVE  OrderInv'
<1>1. ASSUME NEW s \in Spaces, NEW c \in Clients,
             \/ DropEffect(s, c) \/ MissEffect(s, c) \/ SkipEffect(s)
             \/ PutEffect(s, c) \/ RecoverEffect(s, c)
             \/ HitEffect(s, c) \/ GiveEffect(s, c) \/ StoreEffect(s)
      PROVE  OrderInv'
  BY <1>1, OrderQuiet, OrderPuts, OrderHits, OrderGives, OrderStores
<1>2. CASE HandlerEffect
  BY <1>1, <1>2, Farm DEF HandlerEffect
<1>3. CASE UNCHANGED <<space, hand, call, used, accepted, taken>>
  <2>1. IssuedInOrder' /\ IssuedIsAccepted'
    BY <1>3, AcceptedStays
  <2> QED
    BY <1>3, <2>1, OrderElsewhere
<1>4. CASE CollectEffect \/ FailEffect
  BY <1>3, <1>4 DEF CollectEffect, FailEffect, tshVars, clientVars, envVars
<1>5. CASE \E t \in Tasks : TaskCall(t)
  BY <1>5, OrderTaskCalls
<1>6. CASE GetCall \/ SentinelCall
  <2>1. PICK r \in {GetAny(Result), Put(Problem, Sentinel(Master))} : CallEffect(Master, r)
    BY <1>6 DEF GetCall, SentinelCall
  <2>2. ~\E t \in Tasks : r = Put(Problem, TaskTuple(t))
    BY CallFields, TaskTuples, Farm
  <2> QED
    BY <2>1, <2>2, OrderCalls
<1>7. ASSUME NEW w \in Workers, WorkerGets(w) \/ (\E t \in Tasks : WorkerPuts(w, t)) \/ WorkerLeaves(w)
      PROVE  OrderInv'
  <2>1. w # Master /\ \E r : CallEffect(w, r)
    BY <1>7, Farm DEF WorkerGets, WorkerPuts, WorkerLeaves
  <2> QED
    BY <2>1, OrderCalls
<1>8. CASE FarmNext
  BY <1>2, <1>4, <1>5, <1>6, <1>7, <1>8, Effects DEF ProgramEffect
<1>9. CASE UNCHANGED farmVars
  BY <1>3, <1>9 DEF farmVars, vars, tshVars, clientVars, envVars
<1> QED
  BY <1>8, <1>9

\* If FDD takes only dead workers for lost and no write raises SIGPIPE, tasks are first taken
\* in the order they were issued, however many workers die holding one and whatever the
\* handlers recover in between (storeTuple appends what is new and puts what is recovered in
\* front; findTuple takes the first of equals).
THEOREM TasksAreTakenInOrder ==
  ASSUME ~FalseSuspicion, ~SigPipe
  PROVE  FarmSpec => []TakenInIssueOrder
<1>1. FarmInit => Base /\ OrderInv
  <2> SUFFICES ASSUME FarmInit PROVE OrderInv
    BY BaseInit
  <2>1. Init
    BY DEF FarmInit
  <2>2. IssuedInOrder /\ IssuedIsAccepted
    BY <2>1 DEF Init, IssuedInOrder, IssuedIsAccepted
  <2>3. UnseenIsListed /\ ListIsInOrder /\ HandIsBehind /\ SeenInOrder
    BY <2>1, Farm DEF Init, UnseenIsListed, ListIsInOrder, HandIsBehind, SeenInOrder, Seen
  <2> QED
    BY <2>2, <2>3 DEF OrderInv
<1>2. Base /\ OrderInv /\ [FarmNext]_farmVars => (Base /\ OrderInv)'
  BY BaseStep, OrderStep
<1>3. OrderInv => TakenInIssueOrder
  BY DEF OrderInv, SeenInOrder, Seen, TakenInIssueOrder
<1> QED
  BY <1>1, <1>2, <1>3, PTL DEF FarmSpec

-----------------------------------------------------------------------------
(* No task is lost. *)

\* Worker w is backed up for task t.
HeldBy(t, w) ==
  /\ retrieve[Problem][w] # Nil /\ ~retrieve[Problem][w].fault
  /\ retrieve[Problem][w].data = TaskTuple(t)

\* Worker w is computing task t (or has died over it), or its result is on the way.
WorkingOn(t, w) ==
  \/ /\ call[w] = Nil /\ waiting[w] = Nil
     /\ w \in alive => got[w] # Nil /\ got[w].data = TaskTuple(t)
  \/ call[w] = Put(Result, ResultTuple(t, w))

\* A worker that asks for its next tuple has put the result of the last.
HeldIsWorkedOn ==
  \A w \in Workers, t \in Tasks : HeldBy(t, w) => ResultThere(t) \/ WorkingOn(t, w)

TaskIsThere(t) ==
  \/ InHand(Problem, TaskTuple(t)) \/ InList(Problem, TaskTuple(t))
  \/ \E c \in Clients : InEntry(Problem, TaskTuple(t), c)
TasksAreThere ==
  \A t \in Tasks : TaskTuple(t) \in accepted[Problem] => ResultThere(t) \/ TaskIsThere(t)

WorkInv == HeldIsWorkedOn /\ TasksAreThere

\* Results are not lost on their way from the result handler's hand and list to the master.
LEMMA ResultStaysPut ==
  ASSUME collected \subseteq collected', got'[Master] = got[Master],
         space'[Result] = space[Result], hand[Result] = Nil \/ hand'[Result] = hand[Result],
         NEW t, ResultThere(t)
  PROVE  ResultThere(t)'
BY DEF ResultThere

\* No call loses a result.
LEMMA ResultStaysInCalls ==
  ASSUME Base, ProgramEffect \/ FailEffect, NEW t \in Tasks, ResultThere(t)
  PROVE  ResultThere(t)'
<1>1. CASE CollectEffect
  BY <1>1 DEF CollectEffect, ResultThere, tshVars
<1>2. CASE FailEffect
  BY <1>2, ResultStaysPut DEF FailEffect, tshVars, clientVars
<1>3. ASSUME NEW c, NEW r, CallEffect(c, r), c # Master \/ got[Master] = Nil \/ t \in collected
      PROVE  ResultThere(t)'
  <2>1. /\ got'[c] = Nil /\ \A y \in Clients \ {c} : got'[y] = got[y]
        /\ UNCHANGED <<space, hand, collected>>
    BY <1>3 DEF CallEffect, tshVars
  <2>2. CASE t \in collected
    BY <2>1, <2>2 DEF ResultThere
  <2>3. CASE got'[Master] = got[Master]
    BY <2>1, <2>3, ResultStaysPut
  <2> QED
    BY <1>3, <2>1, <2>2, <2>3, Farm
<1>4. CASE \E u \in Tasks : TaskCall(u)
  <2>1. got[Master] = Nil
    BY <1>4 DEF TaskCall, Base, FitInv, IssuesFirst
  <2> QED
    BY <1>3, <1>4, <2>1 DEF TaskCall
<1>5. CASE GetCall \/ SentinelCall
  BY <1>3, <1>5 DEF GetCall, SentinelCall
<1>6. ASSUME NEW w \in Workers, WorkerGets(w) \/ (\E u \in Tasks : WorkerPuts(w, u)) \/ WorkerLeaves(w)
      PROVE  ResultThere(t)'
  <2>1. w # Master /\ \E r : CallEffect(w, r)
    BY <1>6, Farm DEF WorkerGets, WorkerPuts, WorkerLeaves
  <2> QED
    BY <1>3, <2>1
<1> QED
  BY <1>1, <1>2, <1>4, <1>5, <1>6 DEF ProgramEffect

\* No operation of a handler loses a result.
LEMMA ResultStaysInHandler ==
  ASSUME Base, UNCHANGED collected, NEW s \in Spaces, NEW c \in Clients,
         \/ DropEffect(s, c) \/ MissEffect(s, c) \/ SkipEffect(s)
         \/ PutEffect(s, c) \/ RecoverEffect(s, c)
         \/ HitEffect(s, c) \/ GiveEffect(s, c) \/ StoreEffect(s),
         NEW t \in Tasks, ResultThere(t)
  PROVE  ResultThere(t)'
<1>1. CASE DropEffect(s, c) \/ SkipEffect(s) \/ MissEffect(s, c)
  BY <1>1, ResultStaysPut DEF DropEffect, SkipEffect, MissEffect, tshVars, clientVars
<1>2. CASE PutEffect(s, c)
  BY <1>2, ResultStaysPut, Farm DEF PutEffect, clientVars
<1>3. CASE RecoverEffect(s, c)
  <2>1. got' = got /\ space' = space /\ (hand[Result] = Nil \/ hand'[Result] = hand[Result])
    BY <1>3, Farm DEF RecoverEffect, clientVars
  <2> QED
    BY <2>1, ResultStaysPut
<1>4. ASSUME NEW d, Handed(s, c, d), s = Problem PROVE got'[Master] = got[Master]
  BY <1>4, Farm DEF Handed, TakersOf
<1>5. ASSUME NEW d, Handed(s, c, d), s = Result
      PROVE  c = Master /\ got[Master] = Nil /\ got'[Master] # Nil /\ got'[Master].data = d
  BY <1>5, Farm DEF Handed, TakersOf
<1>6. CASE HitEffect(s, c)
  <2> DEFINE sp == space[s]
  <2>1. /\ Handed(s, c, sp[1].data) /\ sp \in Seq(Node) /\ DOMAIN sp = 1 .. Len(sp) /\ Len(sp) \in Nat
        /\ DOMAIN space'[s] = 1 .. Len(sp) - 1
        /\ \A j \in 1 .. Len(sp) - 1 : space'[s][j].data = sp[j + 1].data
        /\ \A z \in Spaces \ {s} : space'[z] = space[z]
        /\ UNCHANGED hand
    BY <1>6 DEF HitEffect
  <2>2. CASE s = Problem
    <3>1. got'[Master] = got[Master] /\ space'[Result] = space[Result]
      BY <1>4, <2>1, <2>2, Farm
    <3> QED
      BY <2>1, <3>1, ResultStaysPut
  <2>3. CASE s = Result
    <3>1. got[Master] = Nil /\ got'[Master] # Nil /\ got'[Master].data = sp[1].data
      BY <1>5, <2>1, <2>3
    <3>2. CASE t \in collected \/ (hand[Result] # Nil /\ hand[Result].data[2] = t)
      BY <2>1, <3>2 DEF ResultThere
    <3>3. CASE \E i \in DOMAIN space[Result] : space[Result][i].data[2] = t
      <4>1. PICK i \in DOMAIN sp : sp[i].data[2] = t
        BY <2>3, <3>3
      <4>2. CASE i = 1
        BY <3>1, <4>1, <4>2 DEF ResultThere
      <4>3. CASE i # 1
        <5>1. i - 1 \in DOMAIN space'[s] /\ space'[s][i - 1].data = sp[i].data
          BY <2>1, <4>1, <4>3
        <5> QED
          BY <2>3, <4>1, <5>1 DEF ResultThere
      <4> QED
        BY <4>2, <4>3
    <3> QED
      BY <3>1, <3>2, <3>3 DEF ResultThere
  <2> QED
    BY <2>2, <2>3, Farm
<1>7. CASE GiveEffect(s, c)
  <2>1. /\ Placed(s) /\ Handed(s, c, hand[s].data) /\ DOMAIN space[s] = {} /\ UNCHANGED space
    BY <1>7 DEF GiveEffect
  <2>2. \A z \in Spaces \ {s} : hand'[z] = hand[z]
    BY <2>1 DEF Placed
  <2>3. CASE s = Problem
    BY <1>4, <2>1, <2>2, <2>3, ResultStaysPut, Farm
  <2>4. CASE s = Result
    <3>1. got[Master] = Nil /\ got'[Master] # Nil /\ got'[Master].data = hand[Result].data
      BY <1>5, <2>1, <2>4
    <3> QED
      BY <2>1, <2>4, <3>1 DEF ResultThere
  <2> QED
    BY <2>3, <2>4, Farm
<1>8. CASE StoreEffect(s)
  <2> DEFINE sp == space[s]
  <2>1. /\ Placed(s) /\ sp \in Seq(Node) /\ DOMAIN sp = 1 .. Len(sp) /\ Len(sp) \in Nat
        /\ StoredOver(s) \/ StoredLast(s) \/ StoredFirst(s)
        /\ \A z \in Spaces \ {s} : space'[z] = space[z]
        /\ UNCHANGED got
    BY <1>8 DEF StoreEffect
  <2>2. hand[s] # Nil /\ Fits(s, hand[s]) /\ \A z \in Spaces \ {s} : hand'[z] = hand[z]
    BY <2>1 DEF Placed
  <2>3. CASE s = Problem
    BY <2>1, <2>2, <2>3, ResultStaysPut, Farm
  <2>4. CASE s = Result
    <3>1. CASE t \in collected \/ (got[Master] # Nil /\ got[Master].data[2] = t)
      BY <2>1, <3>1 DEF ResultThere
    <3>2. CASE hand[s].data[2] = t
      <4>1. \E i \in DOMAIN space'[s] : space'[s][i].data = hand[s].data
        <5>1. CASE StoredOver(s)
          BY <5>1 DEF StoredOver
        <5>2. CASE StoredLast(s)
          BY <2>1, <5>2 DEF StoredLast
        <5>3. CASE StoredFirst(s)
          BY <2>1, <5>3 DEF StoredFirst
        <5> QED
          BY <2>1, <5>1, <5>2, <5>3
      <4> QED
        BY <2>4, <3>2, <4>1 DEF ResultThere
    <3>3. CASE \E i \in DOMAIN space[Result] : space[Result][i].data[2] = t
      <4>1. PICK i \in DOMAIN sp : sp[i].data[2] = t
        BY <2>4, <3>3
      <4>2. \E j \in DOMAIN space'[s] : space'[s][j].data[2] = t
        <5>1. CASE StoredOver(s)
          <6>1. PICK k \in DOMAIN sp :
                  /\ sp[k].name = hand[s].name
                  /\ \A j \in DOMAIN sp : space'[s][j].data = IF j = k THEN hand[s].data ELSE sp[j].data
            BY <5>1 DEF StoredOver
          <6>2. NameOf(sp[k].data) = NameOf(hand[s].data)
            BY <2>2, <6>1 DEF Fits, Base, FitInv, TuplesFit
          <6>3. sp[k].data[2] = hand[s].data[2]
            BY <6>2, NamesTell
          <6>4. space'[s][i].data[2] = t
            BY <4>1, <6>1, <6>3
          <6> QED
            BY <5>1, <6>4 DEF StoredOver
        <5>2. CASE StoredLast(s)
          <6>1. i \in DOMAIN space'[s] /\ space'[s][i] = sp[i]
            BY <2>1, <4>1, <5>2 DEF StoredLast
          <6> QED
            BY <4>1, <6>1
        <5>3. CASE StoredFirst(s)
          <6>1. i + 1 \in DOMAIN space'[s] /\ space'[s][i + 1] = sp[i]
            BY <2>1, <4>1, <5>3 DEF StoredFirst
          <6> QED
            BY <4>1, <6>1
        <5> QED
          BY <2>1, <5>1, <5>2, <5>3
      <4> QED
        BY <2>4, <4>2 DEF ResultThere
    <3> QED
      BY <2>2, <2>4, <3>1, <3>2, <3>3 DEF ResultThere
  <2> QED
    BY <2>3, <2>4, Farm
<1> QED
  BY <1>1, <1>2, <1>3, <1>6, <1>7, <1>8

\* A worker that is handed a task works on no other.
LEMMA HandedIsDone ==
  ASSUME Base, NEW c \in Workers, NEW d, Handed(Problem, c, d), NEW t \in Tasks
  PROVE  ~WorkingOn(t, c)
<1>1. \/ call[c] = GetAny(Problem) /\ waiting[c] = Nil
      \/ call[c] = Nil /\ waiting[c] = Problem
  BY DEF Handed
<1>2. call[c] # Put(Result, ResultTuple(t, c))
  BY <1>1, CallFields, Farm
<1> QED
  BY <1>1, <1>2, CallFields, Farm DEF WorkingOn

\* Backups after a content has been handed out.
LEMMA HandedBackups ==
  ASSUME Base, NEW s \in Spaces, NEW c \in Clients, NEW d, Handed(s, c, d)
  PROVE  /\ s = Result => UNCHANGED <<retrieve[Problem]>>
         /\ s = Problem => c \in Workers
         /\ s = Problem => \A t \in Tasks : HeldBy(t, c)' => d = TaskTuple(t)
         /\ \A w \in Workers \ {c}, t \in Tasks : HeldBy(t, w)' => HeldBy(t, w)
<1>1. /\ c \in TakersOf(s) /\ retrieve'[s][c].data = d
      /\ \A y \in Clients \ {c} :
           retrieve'[s][y] = retrieve[s][y] \/ (retrieve'[s][y] # Nil /\ retrieve'[s][y].fault)
      /\ \A z \in Spaces \ {s} : retrieve'[z] = retrieve[z]
  BY DEF Handed
<1> QED
  BY <1>1, Farm DEF HeldBy, TakersOf

\* Calls keep who is backed up at work.
LEMMA HeldInCalls ==
  ASSUME Base, HeldIsWorkedOn, ProgramEffect \/ FailEffect
  PROVE  HeldIsWorkedOn'
<1>1. SUFFICES ASSUME NEW w \in Workers, NEW t \in Tasks, HeldBy(t, w)', ~ResultThere(t)
               PROVE  WorkingOn(t, w)'
  BY ResultStaysInCalls DEF HeldIsWorkedOn
<1>2. UNCHANGED <<retrieve, waiting>>
  BY DEF ProgramEffect, FailEffect, TaskCall, GetCall, SentinelCall, CollectEffect, WorkerGets,
         WorkerPuts, WorkerLeaves, CallEffect, tshVars, clientVars
<1>3. WorkingOn(t, w)
  BY <1>1, <1>2 DEF HeldIsWorkedOn, HeldBy
<1>4. w \in Clients /\ w # Master
  BY Farm
<1>5. CASE FailEffect
  BY <1>3, <1>5 DEF FailEffect, WorkingOn, clientVars
<1>6. CASE call'[w] = call[w] /\ got'[w] = got[w] /\ alive' = alive
  BY <1>2, <1>3, <1>6 DEF WorkingOn
<1>7. CASE CollectEffect
  BY <1>4, <1>6, <1>7 DEF CollectEffect, envVars
<1>8. ASSUME NEW c, NEW r, CallEffect(c, r), c # w PROVE WorkingOn(t, w)'
  BY <1>4, <1>6, <1>8 DEF CallEffect
<1>9. CASE (\E u \in Tasks : TaskCall(u)) \/ GetCall \/ SentinelCall
  BY <1>4, <1>8, <1>9 DEF TaskCall, GetCall, SentinelCall
<1>10. ASSUME NEW v \in Workers, WorkerGets(v) \/ (\E u \in Tasks : WorkerPuts(v, u)) \/ WorkerLeaves(v)
       PROVE  WorkingOn(t, w)'
  <2>1. CASE v # w
    BY <1>8, <1>10, <2>1 DEF WorkerGets, WorkerPuts, WorkerLeaves
  <2>2. CASE v = w
    <3>1. call[w] = Nil /\ w \in alive
      BY <1>10, <2>2 DEF WorkerGets, WorkerPuts, WorkerLeaves, CallEffect
    <3>2. got[w] # Nil /\ got[w].data = TaskTuple(t)
      BY <1>3, <3>1, CallFields DEF WorkingOn
    <3>3. PICK u \in Tasks : WorkerPuts(w, u)
      BY <1>10, <2>2, <3>2 DEF WorkerGets, WorkerLeaves
    <3>4. u = t /\ call'[w] = Put(Result, ResultTuple(u, w))
      BY <3>2, <3>3, TaskTuples DEF WorkerPuts, CallEffect
    <3> QED
      BY <3>4 DEF WorkingOn
  <2> QED
    BY <2>1, <2>2
<1> QED
  BY <1>5, <1>7, <1>9, <1>10 DEF ProgramEffect

\* A PUT that is answered is of a result that has arrived.
LEMMA PlacedWork ==
  ASSUME Base, NEW s \in Spaces, Placed(s), NEW w \in Workers, NEW t \in Tasks, ~ResultThere(t),
         waiting'[w] = waiting[w], got'[w] = got[w], alive' = alive, WorkingOn(t, w)
  PROVE  WorkingOn(t, w)'
<1>1. /\ hand[s] # Nil /\ w \in Clients
      /\ \A y \in Clients : call'[y] = IF hand[s].op = "PUT" /\ y = hand[s].client THEN Nil ELSE call[y]
  BY Farm DEF Placed
<1>2. CASE call[w] = Nil
  BY <1>1, <1>2, CallFields DEF WorkingOn
<1>3. CASE call[w] = Put(Result, ResultTuple(t, w))
  <2>1. ASSUME hand[s].op = "PUT", hand[s].client = w PROVE FALSE
    <3>1. call[w] = Put(s, hand[s].data)
      BY <1>1, <2>1 DEF Base, FitInv, HandIsCall
    <3>2. s = Result /\ hand[s].data = ResultTuple(t, w)
      <4>1. Put(s, hand[s].data) = Put(Result, ResultTuple(t, w))
        BY <1>3, <3>1
      <4>2. Put(s, hand[s].data).space = s /\ Put(s, hand[s].data).data = hand[s].data
        BY CallFields
      <4>3. /\ Put(Result, ResultTuple(t, w)).space = Result
            /\ Put(Result, ResultTuple(t, w)).data = ResultTuple(t, w)
        BY CallFields, Farm
      <4> QED
        BY <4>1, <4>2, <4>3
    <3>3. hand[Result].data[2] = t
      BY <3>2, NamesTell
    <3> QED
      BY <1>1, <3>2, <3>3 DEF ResultThere
  <2> QED
    BY <1>1, <1>3, <2>1 DEF WorkingOn
<1> QED
  BY <1>2, <1>3 DEF WorkingOn

\* Operations of the handlers keep who is backed up at work.
LEMMA HeldInHandlers ==
  ASSUME Base, HeldIsWorkedOn, UNCHANGED collected, NEW s \in Spaces, NEW c \in Clients,
         \/ DropEffect(s, c) \/ MissEffect(s, c) \/ SkipEffect(s)
         \/ PutEffect(s, c) \/ RecoverEffect(s, c)
         \/ HitEffect(s, c) \/ GiveEffect(s, c) \/ StoreEffect(s)
  PROVE  HeldIsWorkedOn'
<1>1. SUFFICES ASSUME NEW w \in Workers, NEW t \in Tasks, HeldBy(t, w)', ~ResultThere(t)
               PROVE  WorkingOn(t, w)'
  BY ResultStaysInHandler DEF HeldIsWorkedOn
<1>2. w \in Clients /\ w # Master
  BY Farm
<1>3. ASSUME HeldBy(t, w) PROVE WorkingOn(t, w)
  BY <1>1, <1>3 DEF HeldIsWorkedOn
<1>4. CASE SkipEffect(s) \/ PutEffect(s, c)
  <2>1. UNCHANGED <<retrieve, call, waiting, got, alive>>
    BY <1>4 DEF SkipEffect, PutEffect, clientVars, envVars
  <2>2. HeldBy(t, w)
    BY <1>1, <2>1 DEF HeldBy
  <2> QED
    BY <1>3, <2>1, <2>2 DEF WorkingOn
<1>5. CASE RecoverEffect(s, c)
  <2>1. UNCHANGED <<call, waiting, got, alive>>
    BY <1>5 DEF RecoverEffect, clientVars, envVars
  <2>2. HeldBy(t, w)
    BY <1>1, <1>2, <1>5, Farm DEF RecoverEffect, HeldBy
  <2> QED
    BY <1>3, <2>1, <2>2 DEF WorkingOn
<1>6. CASE DropEffect(s, c)
  <2>1. /\ c \notin alive /\ \A y \in Clients : call'[y] = IF y = c THEN Nil ELSE call[y]
        /\ UNCHANGED <<retrieve, waiting, got, alive>>
    BY <1>6 DEF DropEffect, tshVars, envVars
  <2>2. HeldBy(t, w)
    BY <1>1, <2>1 DEF HeldBy
  <2>3. WorkingOn(t, w)
    BY <1>3, <2>2
  <2>4. CASE w # c
    BY <1>2, <2>1, <2>3, <2>4 DEF WorkingOn
  <2>5. CASE w = c
    <3>1. waiting[w] = Nil
      BY <1>2, <2>3, CallFields DEF WorkingOn, Base, Handlers, WaitInv, CallsAreFree
    <3> QED
      BY <1>2, <2>1, <2>5, <3>1 DEF WorkingOn
  <2> QED
    BY <2>4, <2>5
<1>7. CASE MissEffect(s, c)
  <2>1. /\ call[c] = GetAny(s)
        /\ \A y \in Clients : /\ call'[y] = IF y = c THEN Nil ELSE call[y]
                              /\ waiting'[y] = IF y = c THEN s ELSE waiting[y]
        /\ UNCHANGED <<retrieve, got, alive>>
    BY <1>7 DEF MissEffect, envVars
  <2>2. HeldBy(t, w)
    BY <1>1, <2>1 DEF HeldBy
  <2>3. WorkingOn(t, w)
    BY <1>3, <2>2
  <2>4. w # c
    BY <2>1, <2>3, CallFields DEF WorkingOn
  <2> QED
    BY <1>2, <2>1, <2>3, <2>4 DEF WorkingOn
<1>8. ASSUME NEW d, Handed(s, c, d), w = c PROVE WorkingOn(t, w)'
  <2>1. s = Problem
    BY <1>2, <1>8, Farm DEF Handed, TakersOf
  <2>2. d = TaskTuple(t)
    BY <1>1, <1>8, <2>1, HandedBackups
  <2>3. call'[c] = Nil /\ waiting'[c] = Nil /\ got'[c] # Nil /\ got'[c].data = d
    BY <1>8 DEF Handed
  <2> QED
    BY <1>8, <2>2, <2>3 DEF WorkingOn
<1>9. ASSUME NEW d, Handed(s, c, d), w # c
      PROVE  WorkingOn(t, w) /\ waiting'[w] = waiting[w] /\ got'[w] = got[w] /\ alive' = alive
  <2>1. HeldBy(t, w)
    BY <1>1, <1>9, HandedBackups
  <2> QED
    BY <1>2, <1>3, <1>9, <2>1 DEF Handed, envVars
<1>10. CASE HitEffect(s, c)
  <2>1. Handed(s, c, space[s][1].data) /\ \A y \in Clients \ {c} : call'[y] = call[y]
    BY <1>10 DEF HitEffect
  <2>2. CASE w = c
    BY <1>8, <2>1, <2>2
  <2>3. CASE w # c
    <3>1. WorkingOn(t, w) /\ waiting'[w] = waiting[w] /\ got'[w] = got[w] /\ alive' = alive
      BY <1>9, <2>1, <2>3
    <3> QED
      BY <1>2, <2>1, <2>3, <3>1 DEF WorkingOn
  <2> QED
    BY <2>2, <2>3
<1>11. CASE GiveEffect(s, c)
  <2>1. Placed(s) /\ Handed(s, c, hand[s].data)
    BY <1>11 DEF GiveEffect
  <2>2. CASE w = c
    BY <1>8, <2>1, <2>2
  <2>3. CASE w # c
    <3>1. WorkingOn(t, w) /\ waiting'[w] = waiting[w] /\ got'[w] = got[w] /\ alive' = alive
      BY <1>9, <2>1, <2>3
    <3> QED
      BY <1>1, <2>1, <3>1, PlacedWork
  <2> QED
    BY <2>2, <2>3
<1>12. CASE StoreEffect(s)
  <2>1. /\ Placed(s)
        /\ \A z \in Spaces \ {s} : retrieve'[z] = retrieve[z]
        /\ \A y \in Clients :
             retrieve'[s][y] = retrieve[s][y] \/ (retrieve'[s][y] # Nil /\ retrieve'[s][y].fault)
        /\ UNCHANGED <<waiting, got, alive>>
    BY <1>12 DEF StoreEffect, envVars
  <2>2. HeldBy(t, w)
    BY <1>1, <1>2, <2>1, Farm DEF HeldBy
  <2> QED
    BY <1>1, <1>3, <2>1, <2>2, PlacedWork
<1> QED
  BY <1>4, <1>5, <1>6, <1>7, <1>10, <1>11, <1>12

\* A content that has been handed out is in the entry of the client that has it; no other
\* entry for a task that is still to be computed is touched.
LEMMA HandedEntries ==
  ASSUME Base, HeldIsWorkedOn, NEW c \in Clients, NEW d, Handed(Problem, c, d),
         NEW t \in Tasks, ~ResultThere(t),
         d = TaskTuple(t) \/ \E y \in Clients : InEntry(Problem, TaskTuple(t), y)
  PROVE  \E y \in Clients : InEntry(Problem, TaskTuple(t), y)'
<1>1. /\ c \in Workers /\ retrieve'[Problem][c] # Nil /\ retrieve'[Problem][c].data = d
      /\ \A y \in Clients \ {c} :
           retrieve'[Problem][y] = retrieve[Problem][y] \/ retrieve[Problem][y].data = d
      /\ ~Guardf(Problem, c)
  BY DEF Handed, TakersOf
<1>2. CASE d = TaskTuple(t)
  BY <1>1, <1>2 DEF InEntry
<1>3. ASSUME NEW y \in Clients, InEntry(Problem, TaskTuple(t), y), d # TaskTuple(t)
      PROVE  InEntry(Problem, TaskTuple(t), y)'
  <2>1. y # c
    <3>1. SUFFICES ASSUME y = c PROVE FALSE
      OBVIOUS
    <3>2. HeldBy(t, c)
      BY <1>1, <1>3, <3>1 DEF HeldBy, InEntry, Guardf
    <3>3. WorkingOn(t, c)
      BY <1>1, <3>2 DEF HeldIsWorkedOn
    <3> QED
      BY <1>1, <3>3, HandedIsDone
  <2> QED
    BY <1>1, <1>3, <2>1 DEF InEntry
<1> QED
  BY <1>2, <1>3

\* No operation of a handler loses a task.
LEMMA TasksInHandlers ==
  ASSUME Base, WorkInv, UNCHANGED collected, NEW s \in Spaces, NEW c \in Clients,
         \/ DropEffect(s, c) \/ MissEffect(s, c) \/ SkipEffect(s)
         \/ PutEffect(s, c) \/ RecoverEffect(s, c)
         \/ HitEffect(s, c) \/ GiveEffect(s, c) \/ StoreEffect(s)
  PROVE  TasksAreThere'
<1> DEFINE d == hand[s].data
<1>1. SUFFICES ASSUME NEW t \in Tasks, TaskTuple(t) \in accepted'[Problem], ~ResultThere(t)
               PROVE  TaskIsThere(t)'
  BY ResultStaysInHandler DEF TasksAreThere
<1>2. TaskTuple(t) \in accepted[Problem] => TaskIsThere(t)
  BY <1>1 DEF WorkInv, TasksAreThere
<1>3. HeldIsWorkedOn
  BY DEF WorkInv
\* The problem handler has what it had.
<1>4. ASSUME /\ space'[Problem] = space[Problem] /\ hand'[Problem] = hand[Problem]
             /\ retrieve'[Problem] = retrieve[Problem] /\ accepted'[Problem] = accepted[Problem]
      PROVE  TaskIsThere(t)'
  BY <1>1, <1>2, <1>4 DEF TaskIsThere, InHand, InList, InEntry
<1>5. CASE DropEffect(s, c) \/ SkipEffect(s) \/ MissEffect(s, c)
  <2>1. UNCHANGED <<space, hand, retrieve, accepted>>
    BY <1>5 DEF DropEffect, SkipEffect, MissEffect, tshVars
  <2> QED
    BY <1>4, <2>1
<1>6. CASE PutEffect(s, c)
  <2>1. /\ hand[s] = Nil /\ hand'[s] # Nil /\ hand'[s].data = call[c].data
        /\ \A z \in Spaces \ {s} : hand'[z] = hand[z] /\ accepted'[z] = accepted[z]
        /\ accepted'[s] = accepted[s] \cup {call[c].data}
        /\ UNCHANGED <<space, retrieve>>
    BY <1>6 DEF PutEffect
  <2>2. CASE s # Problem
    BY <1>4, <2>1, <2>2, Farm
  <2>3. CASE s = Problem /\ call[c].data = TaskTuple(t)
    BY <2>1, <2>3 DEF TaskIsThere, InHand
  <2>4. CASE s = Problem /\ call[c].data # TaskTuple(t)
    BY <1>1, <1>2, <2>1, <2>4 DEF TaskIsThere, InHand, InList, InEntry
  <2> QED
    BY <2>2, <2>3, <2>4
<1>7. CASE RecoverEffect(s, c)
  <2>1. /\ hand[s] = Nil /\ UNCHANGED <<space, accepted>>
        /\ \A z \in Spaces : z # s => hand'[z] = hand[z] /\ retrieve'[z] = retrieve[z]
        /\ \A y \in Clients : retrieve[s][y] # Nil => retrieve'[s][y] = retrieve[s][y]
    BY <1>7 DEF RecoverEffect
  <2>2. CASE s # Problem
    BY <1>4, <2>1, <2>2, Farm
  <2>3. CASE s = Problem
    BY <1>1, <1>2, <2>1, <2>3 DEF TaskIsThere, InHand, InList, InEntry
  <2> QED
    BY <2>2, <2>3
<1>8. ASSUME NEW x, Handed(s, c, x)
      PROVE  /\ accepted' = accepted /\ (s # Problem => retrieve'[Problem] = retrieve[Problem])
             /\ s = Problem /\ (x = TaskTuple(t) \/ \E y \in Clients : InEntry(Problem, TaskTuple(t), y))
                  => TaskIsThere(t)'
  <2>1. accepted' = accepted /\ (s # Problem => retrieve'[Problem] = retrieve[Problem])
    BY <1>8, Farm DEF Handed
  <2>2. ASSUME s = Problem, x = TaskTuple(t) \/ \E y \in Clients : InEntry(Problem, TaskTuple(t), y)
        PROVE  TaskIsThere(t)'
    <3>1. \E y \in Clients : InEntry(Problem, TaskTuple(t), y)'
      BY <1>1, <1>3, <1>8, <2>2, HandedEntries
    <3> QED
      BY <3>1 DEF TaskIsThere
  <2> QED
    BY <2>1, <2>2
<1>9. CASE HitEffect(s, c)
  <2> DEFINE sp == space[s]
  <2>1. /\ sp \in Seq(Node) /\ Len(sp) \in Nat /\ DOMAIN sp = 1 .. Len(sp)
        /\ Handed(s, c, sp[1].data)
        /\ DOMAIN space'[s] = 1 .. Len(sp) - 1
        /\ \A j \in 1 .. Len(sp) - 1 : space'[s][j].data = sp[j + 1].data
        /\ \A z \in Spaces \ {s} : space'[z] = space[z]
        /\ UNCHANGED hand
    BY <1>9 DEF HitEffect
  <2>2. CASE s # Problem
    BY <1>4, <1>8, <2>1, <2>2, Farm
  <2>3. CASE s = Problem
    <3>1. TaskIsThere(t)
      BY <1>1, <1>2, <1>8, <2>1
    <3>2. CASE InHand(Problem, TaskTuple(t))
      BY <2>1, <3>2 DEF TaskIsThere, InHand
    <3>3. CASE \E y \in Clients : InEntry(Problem, TaskTuple(t), y)
      BY <1>8, <2>1, <2>3, <3>3
    <3>4. CASE InList(Problem, TaskTuple(t))
      <4>1. PICK i \in DOMAIN sp : sp[i].data = TaskTuple(t)
        BY <2>3, <3>4 DEF InList
      <4>2. CASE i = 1
        BY <1>8, <2>1, <2>3, <4>1, <4>2
      <4>3. CASE i # 1
        <5>1. i - 1 \in DOMAIN space'[s] /\ space'[s][i - 1].data = TaskTuple(t)
          BY <2>1, <4>1, <4>3
        <5> QED
          BY <2>3, <5>1 DEF TaskIsThere, InList
      <4> QED
        BY <4>2, <4>3
    <3> QED
      BY <3>1, <3>2, <3>3, <3>4 DEF TaskIsThere
  <2> QED
    BY <2>2, <2>3
<1>10. CASE GiveEffect(s, c)
  <2>1. Placed(s) /\ Handed(s, c, d) /\ DOMAIN space[s] = {} /\ UNCHANGED space
    BY <1>10 DEF GiveEffect
  <2>2. \A z \in Spaces \ {s} : hand'[z] = hand[z]
    BY <2>1 DEF Placed
  <2>3. CASE s # Problem
    BY <1>4, <1>8, <2>1, <2>2, <2>3, Farm
  <2>4. CASE s = Problem
    <3>1. TaskIsThere(t)
      BY <1>1, <1>2, <1>8, <2>1
    <3>2. CASE InHand(Problem, TaskTuple(t))
      BY <1>8, <2>1, <2>4, <3>2 DEF InHand
    <3>3. CASE \E y \in Clients : InEntry(Problem, TaskTuple(t), y)
      BY <1>8, <2>1, <2>4, <3>3
    <3>4. ~InList(Problem, TaskTuple(t))
      BY <2>1, <2>4 DEF InList
    <3> QED
      BY <3>1, <3>2, <3>3, <3>4 DEF TaskIsThere
  <2> QED
    BY <2>3, <2>4
<1>11. CASE StoreEffect(s)
  <2> DEFINE sp == space[s]
  <2>1. /\ Placed(s) /\ sp \in Seq(Node) /\ Len(sp) \in Nat /\ DOMAIN sp = 1 .. Len(sp)
        /\ StoredOver(s) \/ StoredLast(s) \/ StoredFirst(s)
        /\ \A z \in Spaces \ {s} : space'[z] = space[z] /\ retrieve'[z] = retrieve[z]
        /\ \A y \in Clients : retrieve'[s][y] = retrieve[s][y] \/ retrieve[s][y].data = d
        /\ UNCHANGED accepted
    BY <1>11 DEF StoreEffect
  <2>2. \A z \in Spaces \ {s} : hand'[z] = hand[z]
    BY <2>1 DEF Placed
  <2>3. CASE s # Problem
    BY <1>4, <2>1, <2>2, <2>3, Farm
  <2>4. CASE s = Problem
    <3>1. TaskIsThere(t)
      BY <1>1, <1>2, <2>1
    <3>2. CASE d = TaskTuple(t)
      <4>1. ~StoredOver(s)
        BY <2>1, <2>4, <3>2, NoTaskIsOverwritten
      <4>2. \E i \in DOMAIN space'[s] : space'[s][i].data = d
        BY <2>1, <4>1 DEF StoredLast, StoredFirst
      <4> QED
        BY <2>4, <3>2, <4>2 DEF TaskIsThere, InList
    <3>3. CASE d # TaskTuple(t) /\ \E y \in Clients : InEntry(Problem, TaskTuple(t), y)
      BY <2>1, <2>4, <3>3 DEF TaskIsThere, InEntry
    <3>4. CASE InList(Problem, TaskTuple(t))
      <4>1. PICK i \in DOMAIN sp : sp[i].data = TaskTuple(t)
        BY <2>4, <3>4 DEF InList
      <4>2. \E j \in DOMAIN space'[s] : space'[s][j].data = TaskTuple(t)
        <5>1. CASE StoredOver(s)
          <6>1. space'[s][i].data = TaskTuple(t)
            BY <2>1, <2>4, <4>1, <5>1, NoTaskIsOverwritten
          <6> QED
            BY <4>1, <5>1, <6>1 DEF StoredOver
        <5>2. CASE StoredLast(s)
          <6>1. i \in DOMAIN space'[s] /\ space'[s][i] = sp[i]
            BY <2>1, <4>1, <5>2 DEF StoredLast
          <6> QED
            BY <4>1, <6>1
        <5>3. CASE StoredFirst(s)
          <6>1. i + 1 \in DOMAIN space'[s] /\ space'[s][i + 1] = sp[i]
            BY <2>1, <4>1, <5>3 DEF StoredFirst
          <6> QED
            BY <4>1, <6>1
        <5> QED
          BY <2>1, <5>1, <5>2, <5>3
      <4> QED
        BY <2>4, <4>2 DEF TaskIsThere, InList
    <3> QED
      BY <2>4, <3>1, <3>2, <3>3, <3>4 DEF TaskIsThere, InHand
  <2> QED
    BY <2>3, <2>4
<1> QED
  BY <1>5, <1>6, <1>7, <1>9, <1>10, <1>11

\* No call loses a task.
LEMMA TasksInCalls ==
  ASSUME Base, WorkInv, ProgramEffect \/ FailEffect
  PROVE  TasksAreThere'
<1>1. UNCHANGED <<space, hand, retrieve, accepted>>
  BY DEF ProgramEffect, FailEffect, TaskCall, GetCall, SentinelCall, CollectEffect, WorkerGets,
         WorkerPuts, WorkerLeaves, CallEffect, tshVars
<1>2. SUFFICES ASSUME NEW t \in Tasks, TaskTuple(t) \in accepted[Problem], ~ResultThere(t)
               PROVE  TaskIsThere(t)'
  BY <1>1, ResultStaysInCalls DEF TasksAreThere
<1>3. TaskIsThere(t)
  BY <1>2 DEF WorkInv, TasksAreThere
<1> QED
  BY <1>1, <1>3 DEF TaskIsThere, InHand, InList, InEntry

\* Every step keeps WorkInv.
LEMMA WorkStep ==
  ASSUME ~SigPipe, Base, WorkInv, [FarmNext]_farmVars
  PROVE  WorkInv'
<1>1. CASE ProgramEffect \/ FailEffect
  BY <1>1, HeldInCalls, TasksInCalls DEF WorkInv
<1>2. CASE HandlerEffect /\ UNCHANGED collected
  <2>1. PICK s \in Spaces, c \in Clients :
          \/ DropEffect(s, c) \/ MissEffect(s, c) \/ SkipEffect(s)
          \/ PutEffect(s, c) \/ RecoverEffect(s, c)
          \/ HitEffect(s, c) \/ GiveEffect(s, c) \/ StoreEffect(s)
    BY <1>2, Farm DEF HandlerEffect
  <2> QED
    BY <1>2, <2>1, HeldInHandlers, TasksInHandlers DEF WorkInv
<1>3. CASE UNCHANGED farmVars
  BY <1>3 DEF farmVars, vars, tshVars, clientVars, envVars, WorkInv, HeldIsWorkedOn, HeldBy, WorkingOn,
              ResultThere, TasksAreThere, TaskIsThere, InHand, InList, InEntry
<1> QED
  BY <1>1, <1>2, <1>3, Effects

\* Where a task is, in the terms of NoTaskLost.
LEMMA WorkIsSomewhere ==
  ASSUME Base, WorkInv
  PROVE  NoTaskLost
<1>1. SUFFICES ASSUME NEW t \in Tasks, TaskTuple(t) \in accepted[Problem], ~ResultThere(t)
               PROVE  \E p \in Places(Problem, TaskTuple(t)) : p.at = "held" => ~Guardf(Problem, p.by)
  BY DEF NoTaskLost
<1> DEFINE d == TaskTuple(t)
           inHand == hand[Problem] # Nil /\ hand[Problem].data = d
           origin == IF inHand /\ hand[Problem].op = "RETRIEVE" THEN hand[Problem].client ELSE Nil
<1>2. TaskIsThere(t) /\ d \in Data
  BY <1>1, TaskTuples DEF WorkInv, TasksAreThere
<1>3. CASE inHand
  <2>1. [at |-> "offered", by |-> origin] \in Places(Problem, d)
    BY <1>3 DEF Places
  <2> QED
    BY <2>1
<1>4. CASE InList(Problem, d)
  <2>1. [at |-> "stored", by |-> Nil] \in Places(Problem, d)
    BY <1>4 DEF Places, InList
  <2> QED
    BY <2>1
<1>5. ASSUME NEW c \in Clients, InEntry(Problem, d, c), ~inHand
      PROVE  \E p \in Places(Problem, d) : p.at = "held" => ~Guardf(Problem, p.by)
  <2>1. c \in Clients \ {origin}
    BY <1>5, Farm
  <2>2. [at |-> "held", by |-> c] \in Places(Problem, d)
    BY <1>5, <2>1 DEF Places, InEntry
  <2>3. ~Guardf(Problem, c)
    BY <1>2, <1>5, Farm, FencedIsDead DEF InEntry
  <2> QED
    BY <2>2, <2>3
<1> QED
  BY <1>2, <1>3, <1>4, <1>5 DEF TaskIsThere, InHand

\* If FDD takes only dead workers for lost and no write raises SIGPIPE, no task is lost: every
\* task that the problem handler has accepted is in its hand, in its list or backed up for a
\* worker that is not fenced off, until a result of it is with the result handler or the
\* master, whichever workers die and whenever (OpGet, OpPut and OpRetrieve of tsh.c).
THEOREM NoTaskIsLost ==
  ASSUME ~FalseSuspicion, ~SigPipe
  PROVE  FarmSpec => []NoTaskLost
<1>1. FarmInit => Base /\ WorkInv
  <2> SUFFICES ASSUME FarmInit PROVE WorkInv
    BY BaseInit
  <2>1. Init
    BY DEF FarmInit
  <2>2. HeldIsWorkedOn
    BY <2>1, Farm DEF Init, HeldIsWorkedOn, HeldBy
  <2>3. TasksAreThere
    BY <2>1, Farm DEF Init, TasksAreThere
  <2> QED
    BY <2>2, <2>3 DEF WorkInv
<1>2. Base /\ WorkInv /\ [FarmNext]_farmVars => (Base /\ WorkInv)'
  BY BaseStep, WorkStep
<1>3. Base /\ WorkInv => NoTaskLost
  BY WorkIsSomewhere
<1> QED
  BY <1>1, <1>2, <1>3, PTL DEF FarmSpec
=============================================================================
