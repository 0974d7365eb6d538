------------------------------- MODULE TaskFarm -------------------------------
(***************************************************************************)
(* The "bag of tasks" application Synergy is made for                      *)
(* (Getting-started.txt:243-247, 305-323): a master puts tasks into a      *)
(* problem space and gets their results from a result space; workers get,  *)
(* compute and put until they meet a termination sentinel, which they put  *)
(* back before they leave.  The master issues the sentinel only after the  *)
(* results are complete.  Workers may die at any point; FDD then sends     *)
(* RETRIEVE to both handlers.                                              *)
(*                                                                         *)
(* The handlers are those of TupleSpace; the programs restrict its clients *)
(* to these calls.                                                         *)
(***************************************************************************)
EXTENDS TupleSpace

CONSTANTS Workers, Master, Problem, Result, NumTasks

ASSUME FarmAssumption ==
  /\ Spaces = {Problem, Result} /\ Problem # Result
  /\ Clients = Workers \cup {Master} /\ Master \notin Workers \cup Mortal
  /\ NumTasks \in Nat \ {0}

VARIABLES
  collected,  \* the tasks whose result the master has got
  leaving     \* the workers that have put the sentinel back, or are about to exit

farmVars == <<vars, collected, leaving>>

Tasks == 1 .. NumTasks

\* Contents are <<kind, task, author>>, the first two of which are the tuple's name.
TaskTuple(t)      == <<"task", t, Master>>
ResultTuple(t, w) == <<"result", t, w>>
Sentinel(c)       == <<"sentinel", 0, c>>
NameOf(d)         == <<d[1], d[2]>>

FarmNames == {<<k, t>> : k \in {"task", "result"}, t \in Tasks} \cup {<<"sentinel", 0>>}
FarmData  == {TaskTuple(t) : t \in Tasks}
             \cup {ResultTuple(t, w) : t \in Tasks, w \in Workers}
             \cup {Sentinel(c) : c \in Clients}

Put(s, d) == [op |-> "PUT", space |-> s, name |-> NameOf(d), data |-> d, pri |-> 1]
GetAny(s) == [op |-> "GET", space |-> s, expr |-> Names, wait |-> TRUE]

\* All that the programs ask for, and what they ask it with.
FarmRequests ==
  {Put(Problem, TaskTuple(t)) : t \in Tasks} \cup {Put(Problem, Sentinel(c)) : c \in Clients}
  \cup {Put(Result, ResultTuple(t, w)) : t \in Tasks, w \in Workers} \cup {GetAny(s) : s \in Spaces}

ASSUME ProgramsAssumption ==
  Names = FarmNames /\ Data = FarmData /\ Priorities = {1} /\ Requests = FarmRequests

FarmInit == Init /\ collected = {} /\ leaving = {}

Issued == {t \in Tasks : TaskTuple(t) \in used}

-----------------------------------------------------------------------------
(* The master. *)

\* The tasks are put in order.
PutTask ==
  /\ \E t \in Tasks \ Issued :
        /\ 1 .. (t - 1) \subseteq Issued
        /\ Call(Master, Put(Problem, TaskTuple(t)))
  /\ UNCHANGED <<collected, leaving>>

\* Results are collected until there is one for each task.
GetResult ==
  /\ Issued = Tasks
  /\ collected # Tasks
  /\ got[Master] = Nil
  /\ Call(Master, GetAny(Result))
  /\ UNCHANGED <<collected, leaving>>

Collect ==
  /\ Idle(Master)
  /\ got[Master] # Nil
  /\ collected' = collected \cup {got[Master].data[2]}
  /\ got' = [got EXCEPT ![Master] = Nil]
  /\ UNCHANGED <<tshVars, call, waiting, envVars, accepted, taken, leaving>>

PutSentinel ==
  /\ collected = Tasks
  /\ Call(Master, Put(Problem, Sentinel(Master)))
  /\ UNCHANGED <<collected, leaving>>

MasterStep == PutTask \/ GetResult \/ Collect \/ PutSentinel

-----------------------------------------------------------------------------
(* A worker: got[w] is the tuple it is working on. *)

GetTask(w) ==
  /\ w \notin leaving
  /\ got[w] = Nil
  /\ Call(w, GetAny(Problem))
  /\ UNCHANGED <<collected, leaving>>

PutResult(w) ==
  /\ got[w] # Nil
  /\ got[w].data[1] = "task"
  /\ Call(w, Put(Result, ResultTuple(got[w].data[2], w)))
  /\ UNCHANGED <<collected, leaving>>

ReturnSentinel(w) ==
  /\ got[w] # Nil
  /\ got[w].data[1] = "sentinel"
  /\ Call(w, Put(Problem, Sentinel(w)))
  /\ leaving' = leaving \cup {w}
  /\ UNCHANGED collected

WorkerStep(w) == GetTask(w) \/ PutResult(w) \/ ReturnSentinel(w)

-----------------------------------------------------------------------------
(* The rest of the system takes the steps of TupleSpace. *)
FarmServe(s, c) == Serve(s, c) /\ UNCHANGED <<collected, leaving>>
FarmPlace(s)    == (ConsumeTuple(s) \/ StoreHand(s)) /\ UNCHANGED <<collected, leaving>>
FarmCrash(w)    == Crash(w) /\ UNCHANGED <<collected, leaving>>
FarmSuspect(w)  == Suspect(w) /\ UNCHANGED <<collected, leaving>>

FarmNext ==
  \/ MasterStep
  \/ \E w \in Workers : WorkerStep(w) \/ FarmCrash(w) \/ FarmSuspect(w)
  \/ \E s \in Spaces, c \in Clients : FarmServe(s, c)
  \/ \E s \in Spaces : FarmPlace(s)

FarmSpec == FarmInit /\ [][FarmNext]_farmVars

\* Live programs go on, the daemons serve (Fairness of TupleSpace) and FDD's endless
\* ping loop finds a dead worker (fdd.c:108).
FarmFairness ==
  /\ WF_farmVars(MasterStep)
  /\ \A w \in Workers : WF_farmVars(WorkerStep(w))
  /\ \A w \in Workers : WF_farmVars(FarmSuspect(w) /\ w \notin alive)
  /\ \A s \in Spaces : WF_farmVars(FarmPlace(s))
  /\ \A s \in Spaces, c \in Clients : SF_farmVars(FarmServe(s, c))

FairFarmSpec == FarmSpec /\ FarmFairness

-----------------------------------------------------------------------------
\* A result of task t is with the result handler or the master.
ResultThere(t) ==
  \/ t \in collected
  \/ got[Master] # Nil /\ got[Master].data[2] = t
  \/ hand[Result] # Nil /\ hand[Result].data[2] = t
  \/ \E i \in DOMAIN space[Result] : space[Result][i].data[2] = t

\* Every task the problem handler has accepted is still there to be computed (offered,
\* stored, or shadowed for a holder that is not fenced off) until a result of it has
\* arrived: deaths and recovery never lose a task (Getting-started.txt:94).
NoTaskLost ==
  \A t \in Tasks : TaskTuple(t) \in accepted[Problem] =>
    \/ ResultThere(t)
    \/ \E p \in Places(Problem, TaskTuple(t)) :
         p.at = "held" => ~Guardf(Problem, p.by)

\* A worker's death does not take a handler down with it: the only fault in the system is
\* one of a worker, and those are protected (Getting-started.txt:94).
HandlersSurvive == \A s \in Spaces : daemon[s] = "up"

\* Tasks are first taken in the order the master issued them, whoever takes them and
\* whatever is recovered in between: the FIFO order the sentinel protocol relies on
\* (Getting-started.txt:307).
TakenInIssueOrder ==
  LET TakenOnce(t) == \E w \in Workers : <<TaskTuple(t), w>> \in taken[Problem]
  IN  \A t, u \in Tasks : t < u /\ TakenOnce(u) => TakenOnce(t)

\* The application completes: if a worker survives, the master gets a result of every
\* task, and the surviving workers meet the sentinel and leave.
Completes ==
  <>(collected = Tasks /\ Workers \ Mortal \subseteq leaving)
=============================================================================
