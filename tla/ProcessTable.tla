---------------------------- MODULE ProcessTable ----------------------------
(***************************************************************************)
(* The process side of the CID daemons (cid/cid.c), one per host: a table  *)
(* of the programs started for applications, the SIGCHLD handler that      *)
(* reports their ends to the application controller (DAC), and the         *)
(* operations of DAC, FDD and the user on the table.                       *)
(*                                                                         *)
(* A CID serves one connection at a time, but its SIGCHLD handler runs     *)
(* between any two steps, also between those of an EXEC: the slot is       *)
(* filled, the child is forked, and only then is its pid entered.          *)
(***************************************************************************)
EXTENDS Naturals, Sequences, FiniteSets

CONSTANTS
  Hosts,      \* the hosts, each with its CID
  Slots,      \* slots of a process table: 1 .. TABLE_SIZE
  Procs,      \* names of the processes of the application
  Handlers,   \* names of its tuple space and file handlers
  Callers,    \* programs that call a CID
  Watched,    \* DAC was started with FDD_ALIVE
  Doubtful,   \* names whose EXEC the CID may refuse: no login, or not executable
  EarlyExits, \* a program may end before its first exchange with DAC
  Nil

Names == Procs \cup Handlers

ASSUME TableAssumption ==
  /\ IsFiniteSet(Slots) /\ Slots = 1 .. Cardinality(Slots) /\ Slots # {}
  /\ Procs \cap Handlers = {} /\ Doubtful \subseteq Names
  /\ Watched \in BOOLEAN /\ EarlyExits \in BOOLEAN
  /\ Nil \notin Names \cup [by : Callers, slot : Slots, pid : Nat]
  /\ Nil \notin [op : {"ANSWER"}, ok : BOOLEAN, value : Nat]

VARIABLES
  up,        \* up[h]: the CID of host h runs
  table,     \* table[h][i]: slot i of its process table
  starting,  \* starting[h]: the EXEC under way at h, or Nil
  child,     \* the programs forked so far, in order: a pid is an index
  call,      \* call[c]: the request of caller c to a CID, its answer, or Nil
  listening, \* DAC's port is open
  inbox      \* connections to DAC's port, in order, that DAC has not accepted

cidVars == <<up, table, starting, child, call, listening, inbox>>

Statuses == {"EXITTED", "FAILED", "KILLED"}
Pids     == 1 .. Len(child)
Alive    == {"new", "up", "term"}  \* term: SIGTERM is on its way

Entry == [used : BOOLEAN, dead : BOOLEAN, pid : Nat, name : Names \cup {Nil}, port : BOOLEAN]
Child == [name : Names, host : Hosts, at : Alive \cup {"zombie", "gone"},
          status : Statuses \cup {Nil}]

Exec(h, n)    == [op |-> "EXEC", host |-> h, name |-> n]
Verify(h, n)  == [op |-> "VERIFY", host |-> h, name |-> n]
Kill(h, n)    == [op |-> "KILL", host |-> h, name |-> n]
KillApp(h)    == [op |-> "KILL_APP", host |-> h]
Detect(h, p)  == [op |-> "DETECT_PROC", host |-> h, pid |-> p]
Answer(ok, v) == [op |-> "ANSWER", ok |-> ok, value |-> v]
NoAnswer      == [op |-> "NO_ANSWER"]
Report(n, s)  == [op |-> "EXIT_PROCESS", name |-> n, status |-> s]

Pending(c) == call[c] # Nil /\ call[c].op \notin {"ANSWER", "NO_ANSWER"}
Reply(c, a) == call' = [call EXCEPT ![c] = a]

CidInit ==
  /\ up = [h \in Hosts |-> TRUE]
  /\ table = [h \in Hosts |-> [i \in Slots |->
       [used |-> FALSE, dead |-> FALSE, pid |-> 0, name |-> Nil, port |-> FALSE]]]
  /\ starting = [h \in Hosts |-> Nil]
  /\ child = <<>>
  /\ call = [c \in Callers |-> Nil]
  /\ listening = TRUE
  /\ inbox = <<>>

-----------------------------------------------------------------------------
(* The table. *)

Used(h)       == {i \in Slots : table[h][i].used}
\* Mutant of Free: a slot in use may be taken again.
FreeInUse(h)  == {i \in Slots : ~table[h][i].dead}
Free(h)       == {i \in Slots : ~table[h][i].used /\ ~table[h][i].dead}
Lowest(S)     == CHOOSE i \in S : \A j \in S : i <= j
getSlot(h)    == Lowest(Free(h))
ungetSlot(e)  == [e EXCEPT !.used = FALSE, !.dead = FALSE]
SlotsOf(h, n) == {i \in Used(h) : table[h][i].name = n}

\* kill(2): a program that still runs has SIGTERM to die of.
Signalled(pids) ==
  [p \in Pids |-> IF p \in pids /\ child[p].at \in {"new", "up"}
                    THEN [child[p] EXCEPT !.at = "term"] ELSE child[p]]

\* The CID of h is at its accept loop and takes the request of c.
Accepts(h, c, op) ==
  /\ up[h] /\ starting[h] = Nil
  /\ Pending(c) /\ call[c].op = op /\ call[c].host = h

-----------------------------------------------------------------------------
(* OpVerifyProcess, OpVerifyHandler; OpExecComponent and OpExecTsh. *)

OpVerify(h, c) ==
  /\ Accepts(h, c, "VERIFY")
  /\ \E ok \in BOOLEAN :
       /\ ~ok => call[c].name \in Doubtful
       /\ Reply(c, Answer(ok, 0))
  /\ UNCHANGED <<up, table, starting, child, listening, inbox>>

OpExecRefused(h, c) ==
  /\ Accepts(h, c, "EXEC")
  /\ call[c].name \in Doubtful \/ Free(h) = {}
  /\ Reply(c, Answer(FALSE, 0))
  /\ UNCHANGED <<up, table, starting, child, listening, inbox>>

\* Mutant of FillSlot: the entry is left without the port to report to.
FillSlotNoPort(h, c) ==
  /\ Accepts(h, c, "EXEC") /\ Free(h) # {}
  /\ LET i == getSlot(h) IN
       /\ table' = [table EXCEPT ![h][i].used = TRUE, ![h][i].name = call[c].name]
       /\ starting' = [starting EXCEPT ![h] = [by |-> c, slot |-> i, pid |-> 0]]
  /\ UNCHANGED <<up, child, call, listening, inbox>>

\* Only processes have the port of DAC in their entry; the pid is still the old one.
FillSlot(h, c) ==
  /\ Accepts(h, c, "EXEC") /\ Free(h) # {}
  /\ LET i == getSlot(h) IN
       /\ table' = [table EXCEPT ![h][i].used = TRUE, ![h][i].name = call[c].name,
                                 ![h][i].port = call[c].name \in Procs]
       /\ starting' = [starting EXCEPT ![h] = [by |-> c, slot |-> i, pid |-> 0]]
  /\ UNCHANGED <<up, child, call, listening, inbox>>

Fork(h) ==
  /\ up[h] /\ starting[h] # Nil /\ starting[h].pid = 0
  /\ child' = Append(child, [name |-> table[h][starting[h].slot].name, host |-> h,
                             at |-> "new", status |-> Nil])
  /\ starting' = [starting EXCEPT ![h].pid = Len(child')]
  /\ UNCHANGED <<up, table, call, listening, inbox>>

EnterPid(h) ==
  /\ up[h] /\ starting[h] # Nil /\ starting[h].pid # 0
  /\ table' = [table EXCEPT ![h][starting[h].slot].pid = starting[h].pid]
  /\ Reply(starting[h].by, Answer(TRUE, starting[h].pid))
  /\ starting' = [starting EXCEPT ![h] = Nil]
  /\ UNCHANGED <<up, child, listening, inbox>>

-----------------------------------------------------------------------------
(* SIGCHLD.  The entry is found by pid among those in use; it stays in use, and an *)
(* abnormal end is marked for FDD. *)
sigchldHandler(h, p) ==
  /\ up[h] /\ p \in Pids /\ child[p].host = h /\ child[p].at = "zombie"
  /\ child' = [child EXCEPT ![p].at = "gone"]
  /\ LET mine == {i \in Used(h) : table[h][i].pid = p} IN
     IF mine = {} THEN UNCHANGED <<table, inbox>>
     ELSE LET i == Lowest(mine) IN
       /\ table' = IF child[p].status # "EXITTED" /\ Watched
                     THEN [table EXCEPT ![h][i].dead = TRUE] ELSE table
       /\ inbox' = IF table[h][i].port /\ listening
                     THEN Append(inbox, Report(table[h][i].name, child[p].status)) ELSE inbox
  /\ UNCHANGED <<up, starting, call, listening>>

\* The first entry of that name is killed and freed at once.
OpKill(h, c) ==
  /\ Accepts(h, c, "KILL")
  /\ IF SlotsOf(h, call[c].name) = {}
     THEN /\ Reply(c, Answer(FALSE, 0))
          /\ UNCHANGED <<table, child>>
     ELSE LET i == Lowest(SlotsOf(h, call[c].name)) IN
          /\ child' = Signalled({table[h][i].pid})
          /\ table' = [table EXCEPT ![h][i] = ungetSlot(@)]
          /\ Reply(c, Answer(TRUE, 0))
  /\ UNCHANGED <<up, starting, listening, inbox>>

OpKillApp(h, c) ==
  /\ Accepts(h, c, "KILL_APP")
  /\ child' = Signalled({table[h][i].pid : i \in Used(h)})
  /\ table' = [table EXCEPT ![h] = [i \in Slots |->
                 IF i \in Used(h) THEN ungetSlot(@[i]) ELSE @[i]]]
  /\ Reply(c, Answer(Used(h) # {}, Cardinality(Used(h))))
  /\ UNCHANGED <<up, starting, listening, inbox>>

\* FDD's question.  The death mark is cleared as it is reported.
OpDetectProc(h, c) ==
  /\ Accepts(h, c, "DETECT_PROC")
  /\ LET mine == {i \in Slots : table[h][i].pid = call[c].pid /\ table[h][i].name # Nil} IN
     IF mine # {} /\ table[h][Lowest(mine)].dead
     THEN /\ table' = [table EXCEPT ![h][Lowest(mine)].dead = FALSE]
          /\ Reply(c, Answer(FALSE, 0))
     ELSE UNCHANGED table /\ Reply(c, Answer(TRUE, 0))
  /\ UNCHANGED <<up, starting, child, listening, inbox>>

-----------------------------------------------------------------------------
(* The environment. *)

\* A program ends, by itself or of a signal; a handler runs until it is told to exit.
Ends(p, s) ==
  /\ p \in Pids
  /\ \/ child[p].at = "up" /\ child[p].name \in Procs
     \/ child[p].at = "new" /\ EarlyExits
     \/ child[p].at = "term" /\ s = "KILLED"
  /\ child' = [child EXCEPT ![p].at = "zombie", ![p].status = s]
  /\ UNCHANGED <<up, table, starting, call, listening, inbox>>

\* A host goes down with its CID and all it runs.
HostCrash(h) ==
  /\ up[h]
  /\ up' = [up EXCEPT ![h] = FALSE]
  /\ starting' = [starting EXCEPT ![h] = Nil]
  /\ child' = [p \in Pids |-> IF child[p].host = h /\ child[p].at # "gone"
                                THEN [child[p] EXCEPT !.at = "gone", !.status = "KILLED"]
                                ELSE child[p]]
  /\ call' = [c \in Callers |-> IF Pending(c) /\ call[c].host = h THEN NoAnswer ELSE call[c]]
  /\ UNCHANGED <<table, listening, inbox>>

\* No connection, or no port at the host's port mapper.
CallFails(c) ==
  /\ Pending(c) /\ ~up[call[c].host]
  /\ Reply(c, NoAnswer)
  /\ UNCHANGED <<up, table, starting, child, listening, inbox>>

CidTypeOK ==
  /\ up \in [Hosts -> BOOLEAN]
  /\ table \in [Hosts -> [Slots -> Entry]]
  /\ \A h \in Hosts : starting[h] # Nil => starting[h].slot \in Used(h)
  /\ child \in Seq(Child)
  /\ DOMAIN call = Callers
  /\ listening \in BOOLEAN
=============================================================================
