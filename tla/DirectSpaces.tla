----------------------------- MODULE DirectSpaces -----------------------------
(***************************************************************************)
(* The direct tuple spaces that the CIDs keep for an application (cid.c,   *)
(* OpPut, OpGet, OpZap, OpVTUpd; iolib/cnf_dput.c, cnf_dget.c, cnf_dread.c,*)
(* cnf_dzap.c).  A program puts a tuple at a CID of its choice and takes   *)
(* or reads at its own.  scan_send puts a tuple at the own CID and a       *)
(* virtual tuple, which says where the real one is, at all others; who is  *)
(* given a virtual tuple asks the CID of its owner.                        *)
(***************************************************************************)
EXTENDS Integers, Sequences, SequencesExt, FiniteSets, Sublists

CONSTANTS
  Sites,      \* hosts, each with a CID
  Tasks,      \* programs of the application
  SiteOf,     \* SiteOf[t]: where task t runs
  Senders,    \* the tasks that put
  Labels,     \* tuple names
  AnyLabel,   \* the expression "*"
  MaxPuts     \* bound on the tuples that are put

ASSUME DirectAssumption ==
  /\ SiteOf \in [Tasks -> Sites] /\ Senders \subseteq Tasks
  /\ AnyLabel \notin Labels /\ MaxPuts \in Nat

VARIABLES
  store,   \* store[s]: the tuples of the CID at s, in list order
  asked,   \* asked[s]: the queue of requests that wait there
  task,    \* task[t]: where task t is
  puts,    \* how many tuples have been put; the n-th has the value n
  taken,   \* taken[v]: how often value v has been given to a GET
  gone     \* values that were overwritten or zapped

directVars == <<store, asked, task, puts, taken, gone>>

\* A real tuple of value v at site s, and a virtual one, of which the real one is at s.
Real(n, v, s) == [name |-> n, val |-> v, site |-> s, pri |-> 1]
Virtual(n, s) == [name |-> n, val |-> 0, site |-> s, pri |-> 0]

Idle          == [at |-> "idle"]
Blocked       == [at |-> "blocked"]
Fetching(op, x) == [at |-> "fetching", op |-> op, site |-> x.site, name |-> x.name]
Scanning(n, S)  == [at |-> "scanning", name |-> n, left |-> S]
Dead          == [at |-> "dead"]

DirectInit ==
  /\ store = [s \in Sites |-> <<>>] /\ asked = [s \in Sites |-> <<>>]
  /\ task = [t \in Tasks |-> Idle]
  /\ puts = 0 /\ taken = [v \in 1 .. MaxPuts |-> 0] /\ gone = {}

-----------------------------------------------------------------------------
(* The list and the queue. *)

matches(expr, n) == expr = AnyLabel \/ expr = n

\* A tuple of the same name is overwritten where it stands.
storeDirect(l, x) ==
  IF \E k \in DOMAIN l : l[k].name = x.name
  THEN [k \in DOMAIN l |-> IF l[k].name = x.name THEN x ELSE l[k]]
  ELSE Append(l, x)
Overwrites(l, x) == {l[k].val : k \in {j \in DOMAIN l : l[j].name = x.name /\ l[j].pri = 1}}

\* A further match takes the place of the one found whenever their priorities differ, be it
\* higher or lower, as the else belongs to the inner if: what is found is the first of those
\* matches behind which all have its priority.
findTuple(l, expr) ==
  LET m == {k \in DOMAIN l : matches(expr, l[k].name)}
      h == {k \in m : \A j \in m : k <= j => l[j].pri = l[k].pri}
  IN {l[k] : k \in {j \in h : \A i \in h : j <= i}}
deleteTuple(l, x) == Sublist(l, {k \in DOMAIN l : l[k].name # x.name})

\* Those a new tuple is sent to, in turn: all readers up to the first living task that gets
\* it.  The requests of those that cannot be reached are deleted as they are met.
Alive(t)   == task[t].at # "dead"
Getters(q, x) ==
  {k \in DOMAIN q : matches(q[k].expr, x.name) /\ q[k].op = "GET" /\ Alive(q[k].by)}
\* Mutant of Met: the search ends with the first reader.
MetFirst(q, x) ==
  {k \in DOMAIN q : matches(q[k].expr, x.name) /\ \A g \in DOMAIN q : matches(q[g].expr, x.name) => k <= g}
Met(q, x) ==
  {k \in DOMAIN q : matches(q[k].expr, x.name) /\ \A g \in Getters(q, x) : k <= g}
Served(q, x) == {q[k] : k \in {j \in Met(q, x) : Alive(q[j].by)}}
Without(q, S) == Sublist(q, DOMAIN q \ S)

\* Whoever is sent a tuple goes on, or to the owner of a virtual one.
Delivered(r, x) == IF x.pri = 0 THEN Fetching(r.op, x) ELSE Idle

\* consumeTuple and storeTuple: a put of x at site s, by task t who goes on to next.
\* Mutant of Consumes: who reads it consumes it too.
ConsumesRead(q, x) == Served(q, x) # {}
Consumes(q, x) == \E r \in Served(q, x) : r.op = "GET"
Put(s, x, t, next) ==
  LET to == Served(asked[s], x) IN
  /\ asked' = [asked EXCEPT ![s] = Without(@, Met(@, x))]
  /\ task' = [u \in Tasks |->
       IF u = t THEN next
       ELSE IF \E r \in to : r.by = u THEN Delivered(CHOOSE r \in to : r.by = u, x)
       ELSE task[u]]
  /\ IF Consumes(asked[s], x)
     THEN /\ taken' = IF x.pri = 1 /\ \E r \in to : r.op = "GET"
                      THEN [taken EXCEPT ![x.val] = @ + 1] ELSE taken
          /\ UNCHANGED <<store, gone>>
     ELSE /\ store' = [store EXCEPT ![s] = storeDirect(@, x)]
          /\ gone' = gone \cup Overwrites(store[s], x)
          /\ UNCHANGED taken

-----------------------------------------------------------------------------
(* Calls of task t. *)

Free(t) == task[t] = Idle
OpPut(s, n, t, next) ==
  /\ puts < MaxPuts /\ puts' = puts + 1
  /\ Put(s, Real(n, puts + 1, s), t, next)

cnf_dput(t) ==
  /\ Free(t) /\ t \in Senders
  /\ \E s \in Sites, n \in Labels : OpPut(s, n, t, Idle)

\* The virtual tuples go out one by one.
scan_send(t) ==
  /\ Free(t) /\ t \in Senders
  /\ \E n \in Labels : OpPut(SiteOf[t], n, t, Scanning(n, Sites \ {SiteOf[t]}))
send_info_to(t) ==
  /\ task[t].at = "scanning"
  /\ \E s \in task[t].left :
       LET left == task[t].left \ {s} IN
       Put(s, Virtual(task[t].name, SiteOf[t]), t,
           IF left = {} THEN Idle ELSE Scanning(task[t].name, left))
  /\ UNCHANGED puts

\* The tuple is given to task t, and deleted when the acknowledgement of a GET has come.
Gives(op, s, x) ==
  /\ store' = IF op = "GET" THEN [store EXCEPT ![s] = deleteTuple(@, x)] ELSE store
  /\ taken' = IF op = "GET" /\ x.pri = 1 THEN [taken EXCEPT ![x.val] = @ + 1] ELSE taken
  /\ UNCHANGED <<asked, puts, gone>>
\* Not found: the request waits.
Queues(t, op, expr) ==
  /\ asked' = [asked EXCEPT ![SiteOf[t]] = Append(@, [by |-> t, expr |-> expr, op |-> op])]
  /\ task' = [task EXCEPT ![t] = Blocked]
  /\ UNCHANGED <<store, puts, taken, gone>>
OpGet(t, op, expr) ==
  /\ Free(t)
  /\ IF findTuple(store[SiteOf[t]], expr) = {} THEN Queues(t, op, expr)
     ELSE \E x \in findTuple(store[SiteOf[t]], expr) :
            Gives(op, SiteOf[t], x) /\ task' = [task EXCEPT ![t] = Delivered([op |-> op], x)]
cnf_dget(t)  == \E e \in Labels \cup {AnyLabel} : OpGet(t, "GET", e)
cnf_dread(t) == \E e \in Labels \cup {AnyLabel} : OpGet(t, "READ", e)

\* At the owner of a virtual tuple; a program that does not find it there exits.
getRealTuple(t) ==
  LET f == task[t] IN
  /\ f.at = "fetching"
  /\ IF findTuple(store[f.site], f.name) = {}
     THEN /\ task' = [task EXCEPT ![t] = Dead]
          /\ UNCHANGED <<store, asked, puts, taken, gone>>
     ELSE \E x \in findTuple(store[f.site], f.name) :
            Gives(f.op, f.site, x) /\ task' = [task EXCEPT ![t] = Idle]

cnf_dzap(t) ==
  /\ Free(t) /\ t \in Senders
  /\ gone' = gone \cup {x.val : x \in {y \in ToSet(store[SiteOf[t]]) : y.pri = 1}}
  /\ store' = [store EXCEPT ![SiteOf[t]] = <<>>]
  /\ UNCHANGED <<asked, task, puts, taken>>

TaskDies(t) ==
  /\ t \notin Senders /\ Alive(t) /\ task' = [task EXCEPT ![t] = Dead]
  /\ UNCHANGED <<store, asked, puts, taken, gone>>

DirectNext ==
  \E t \in Tasks :
    \/ cnf_dput(t) \/ scan_send(t) \/ send_info_to(t)
    \/ cnf_dget(t) \/ cnf_dread(t) \/ getRealTuple(t) \/ cnf_dzap(t) \/ TaskDies(t)

DirectSpec == DirectInit /\ [][DirectNext]_directVars

-----------------------------------------------------------------------------
(* Properties. *)

\* No task waits for a tuple that its CID has: each put serves the requests that match, also
\* behind those that read and those of the dead (cid.c:3332).
NoWaitBesideMatch ==
  \A s \in Sites : \A r \in ToSet(asked[s]), x \in ToSet(store[s]) : ~matches(r.expr, x.name)

\* A value is given to one GET at most, at its own CID, in answer to a waiting request or by
\* way of a virtual tuple; and until it is, it is in a list, unless it has been overwritten
\* or zapped: tasks that read, and tasks that die while they wait, lose none
\* (cid.c:3243, 3332, 3410; netlib.c:257).
PutsAccounted ==
  \A v \in 1 .. puts :
    /\ taken[v] <= 1
    /\ \/ \E s \in Sites : \E x \in ToSet(store[s]) : x.pri = 1 /\ x.val = v
       \/ taken[v] = 1 \/ v \in gone
=============================================================================
