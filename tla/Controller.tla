----------------------------- MODULE Controller -----------------------------
(***************************************************************************)
(* The distributed application controller, DAC (dac/dac.c): it starts the  *)
(* handlers and the processes that wait for nobody, starts the others when *)
(* the CIDs report the end of their precedents, kills on request, and ends *)
(* when no process is active.                                              *)
(*                                                                         *)
(* DAC serves one connection at a time and waits for a CID's answer while  *)
(* it does: dac.at says where it is in an operation.  SIGTERM comes at any *)
(* of these places: its handler kills what DAC knows to run, and exits.    *)
(***************************************************************************)
EXTENDS ProcessTable

CONSTANTS
  ProcList,     \* the processes in the order of process_list
  HandlerList,  \* the handlers in the order of handler_list
  HostOf,       \* HostOf[n]: the host of process or handler n
  Precedents    \* Precedents[p]: the processes that must end before p starts

ASSUME ControllerAssumption ==
  /\ {"dac", "left"} \subseteq Callers /\ Procs # {} /\ Nil # "SIGTERM"
  /\ ProcList \in Seq(Procs) /\ {ProcList[i] : i \in DOMAIN ProcList} = Procs
  /\ HandlerList \in Seq(Handlers) /\ {HandlerList[i] : i \in DOMAIN HandlerList} = Handlers
  /\ \A i, j \in DOMAIN HandlerList : HandlerList[i] = HandlerList[j] => i = j
  /\ HostOf \in [Names -> Hosts]
  /\ Precedents \in [Procs -> SUBSET Procs]

VARIABLES
  state,      \* state[p] of a process
  prcd,       \* prcd[p]: what is left of its precedence list
  hstate,     \* hstate[h] of a handler
  proc_id,    \* proc_id[n]: pid the CID answered for n, 0 before
  start_flag,
  app_status, \* the last status DAC sent to the CID's list of applications
  dac,        \* [at, on, why]: where DAC is, about whom, in which operation
  cut,        \* where SIGTERM has interrupted DAC, or Nil
  prun        \* what prun, which started DAC, has been told

dacVars == <<state, prcd, hstate, proc_id, start_flag, app_status, dac, cut, prun>>
ctlVars == <<cidVars, dacVars>>

States == {"WAITING", "READY", "RUNNING", "EXITTED", "FAILED", "KILLED"}
\* Mutant of Active: whatever did not exit by itself keeps the application alive.
ActiveUnlessExited == States \ {"EXITTED"}
Active == {"WAITING", "READY", "RUNNING"}

At(place, who, op) == [at |-> place, on |-> who, why |-> op]
Serving == At("serve", Nil, Nil)
Op(o)      == [op |-> o]
OpOn(o, n) == [op |-> o, name |-> n]

\* The file of the application: a process without precedents is ready.
readPrcd ==
  /\ prcd = Precedents
  /\ state = [p \in Procs |-> IF Precedents[p] = {} THEN "READY" ELSE "WAITING"]
readHandler == hstate = [h \in Handlers |-> "READY"]
DacInit ==
  /\ readPrcd /\ readHandler
  /\ proc_id = [n \in Names |-> 0]
  /\ start_flag = FALSE
  /\ app_status = "APP_NOT_READY"
  /\ dac = Serving /\ cut = Nil
  /\ prun = "begins"

\* The first process of the list that satisfies P.
FirstOf(S) == ProcList[CHOOSE i \in DOMAIN ProcList :
                 ProcList[i] \in S /\ \A j \in 1 .. (i - 1) : ProcList[j] \notin S]
Ready   == {p \in Procs : state[p] = "READY"}
Running == {p \in Procs : state[p] = "RUNNING"}

\* DAC takes the next connection; r is what it reads from it.
Takes(r) == dac = Serving /\ listening /\ inbox # <<>> /\ r = Head(inbox) /\ inbox' = Tail(inbox)
Asks(rq, place) == Reply("dac", rq) /\ dac' = place
Answered == call["dac"] # Nil /\ ~Pending("dac")
Succeeded == call["dac"].op = "ANSWER" /\ call["dac"].ok
Hangup == Reply("dac", Nil)

-----------------------------------------------------------------------------
(* OpVerifyApp: the CIDs are asked for all processes, then for all handlers. *)

Components == ProcList \o HandlerList

OpVerifyApp ==
  /\ Takes(Op("VERIFY_APP"))
  /\ dac' = At("verify", 1, "VERIFY_APP")
  /\ UNCHANGED <<up, table, starting, child, call, listening,
                 state, prcd, hstate, proc_id, start_flag, app_status, prun, cut>>

NotReady(n) ==
  /\ prun' = "left"
  /\ app_status' = IF n \in Procs THEN "APP_PROC_NOT_READY" ELSE "APP_OBJ_NOT_READY"
  /\ dac' = Serving

VerifyNext ==
  /\ dac.at = "verify" /\ dac.on \in DOMAIN Components
  /\ LET n == Components[dac.on] IN
       IF up[HostOf[n]]
       THEN /\ Asks(Verify(HostOf[n], n), At("verifyCid", dac.on, dac.why))
            /\ UNCHANGED <<prun, app_status>>
       ELSE NotReady(n) /\ UNCHANGED call
  /\ UNCHANGED <<up, table, starting, child, listening, inbox,
                 state, prcd, hstate, proc_id, start_flag, cut>>

VerifyAnswered ==
  /\ dac.at = "verifyCid" /\ Answered
  /\ IF Succeeded
     THEN dac' = At("verify", dac.on + 1, dac.why) /\ UNCHANGED <<prun, app_status>>
     ELSE NotReady(Components[dac.on])
  /\ Hangup
  /\ UNCHANGED <<up, table, starting, child, listening, inbox,
                 state, prcd, hstate, proc_id, start_flag, cut>>

Verified ==
  /\ dac.at = "verify" /\ dac.on \notin DOMAIN Components
  /\ prun' = "verified" /\ app_status' = "APP_READY" /\ dac' = Serving
  /\ UNCHANGED <<cidVars, state, prcd, hstate, proc_id, start_flag, cut>>

-----------------------------------------------------------------------------
(* OpStart. *)

OpStart ==
  /\ Takes(Op("START"))
  /\ IF start_flag
     THEN /\ prun' = "refused"
          /\ app_status' = "APP_RUNNING"
          /\ UNCHANGED dac
     ELSE dac' = At("handlers", 1, "START") /\ UNCHANGED <<prun, app_status>>
  /\ UNCHANGED <<up, table, starting, child, call, listening,
                 state, prcd, hstate, proc_id, start_flag, cut>>

StartFailed ==
  /\ prun' = "refused"
  /\ app_status' = "APP_RUNNING"
  /\ dac' = Serving

\* execAllHandlers: the port of the CID is looked up ...
ExecHandler ==
  /\ dac.at = "handlers" /\ dac.on \in DOMAIN HandlerList
  /\ LET n == HandlerList[dac.on] IN
       IF up[HostOf[n]]
       THEN /\ Asks(Exec(HostOf[n], n), At("handlerCid", dac.on, dac.why))
            /\ UNCHANGED <<prun, app_status>>
       ELSE StartFailed /\ UNCHANGED call  \* return 0, no handler is killed
  /\ UNCHANGED <<up, table, starting, child, listening, inbox,
                 state, prcd, hstate, proc_id, start_flag, cut>>

\* ... and the handler answers over the connection the CID passes to it, or the start fails.
HandlerAnswers ==
  /\ dac.at = "handlerCid" /\ Answered
  /\ LET n == HandlerList[dac.on]
         p == call["dac"].value
     IN IF Succeeded /\ child[p].at = "new"
        THEN /\ child' = [child EXCEPT ![p].at = "up"]
             /\ hstate' = [hstate EXCEPT ![n] = "STARTED"]
             /\ proc_id' = [proc_id EXCEPT ![n] = p]
             /\ dac' = At("handlers", dac.on + 1, dac.why)
             /\ UNCHANGED <<prun, app_status>>
        ELSE /\ dac' = At("killHandlers", 1, dac.why)
             /\ UNCHANGED <<child, hstate, proc_id, prun, app_status>>
  /\ Hangup
  /\ UNCHANGED <<up, table, starting, listening, inbox, state, prcd, start_flag, cut>>

HandlersStarted ==
  /\ dac.at = "handlers" /\ dac.on \notin DOMAIN HandlerList
  /\ start_flag' = TRUE
  /\ dac' = At("exec", Nil, "START")
  /\ UNCHANGED <<cidVars, state, prcd, hstate, proc_id, app_status, prun, cut>>

-----------------------------------------------------------------------------
(* execReadyProcesses: a process is FAILED until it has answered. *)

ExecProcess ==
  /\ dac.at = "exec" /\ Ready # {}
  /\ LET p == FirstOf(Ready) IN
       /\ state' = [state EXCEPT ![p] = "FAILED"]
       /\ IF up[HostOf[p]] THEN Asks(Exec(HostOf[p], p), At("execCid", p, dac.why))
                           ELSE UNCHANGED <<call, dac>>
  /\ UNCHANGED <<up, table, starting, child, listening, inbox,
                 prcd, hstate, proc_id, start_flag, app_status, prun, cut>>

ProcessForked ==
  /\ dac.at = "execCid" /\ Answered
  /\ IF Succeeded
     THEN /\ proc_id' = [proc_id EXCEPT ![dac.on] = call["dac"].value]
          /\ dac' = [dac EXCEPT !.at = "execHello"]
     ELSE dac' = At("exec", Nil, dac.why) /\ UNCHANGED proc_id
  /\ Hangup
  /\ UNCHANGED <<up, table, starting, child, listening, inbox,
                 state, prcd, hstate, start_flag, app_status, prun, cut>>

\* sendToProcess: the process gets its links and answers, or its end closes the connection.
ProcessAnswers ==
  /\ dac.at = "execHello"
  /\ LET p == proc_id[dac.on] IN
       IF child[p].at \in {"new", "term"}
       THEN /\ child' = [child EXCEPT ![p].at = IF @ = "new" THEN "up" ELSE @]
            /\ state' = [state EXCEPT ![dac.on] = "RUNNING"]
       ELSE UNCHANGED <<child, state>>
  /\ dac' = At("exec", Nil, dac.why)
  /\ UNCHANGED <<up, table, starting, call, listening, inbox,
                 prcd, hstate, proc_id, start_flag, app_status, prun, cut>>

ExecDone ==
  /\ dac.at = "exec" /\ Ready = {}
  /\ IF dac.why = "START" THEN prun' = "started" /\ app_status' = "APP_RUNNING"
                          ELSE UNCHANGED <<prun, app_status>>
  /\ dac' = Serving
  /\ UNCHANGED <<cidVars, state, prcd, hstate, proc_id, start_flag, cut>>

-----------------------------------------------------------------------------
(* OpExitProcess. *)

\* Mutant of FreedBy: the end of one precedent is enough.
FreedByFirst(left, st) == {p \in Procs : left[p] # prcd[p] /\ st[p] = "WAITING"}
\* What modifyPrcd makes ready, given the lists it has shortened and the states.
FreedBy(left, st) == {p \in Procs : left[p] = {} /\ st[p] = "WAITING"}

OpExitProcess ==
  /\ \E n \in Procs, s \in Statuses :
       LET st    == [state EXCEPT ![n] = IF @ = "KILLED" THEN @ ELSE s]
           left  == [p \in Procs |-> prcd[p] \ {n}]
           freed == FreedBy(left, st)
       IN
       /\ Takes(Report(n, s))
       /\ prcd' = left
       /\ state' = [p \in Procs |-> IF p \in freed THEN "READY" ELSE st[p]]
       /\ CASE freed # {} -> dac' = At("exec", Nil, "EXIT_PROCESS") /\ UNCHANGED app_status
            [] freed = {} /\ \A p \in Procs : st[p] \notin Active ->
                 dac' = At("killAll", Nil, "TERM") /\ app_status' = "APP_EXITTED"
            [] OTHER -> UNCHANGED <<dac, app_status>>
  /\ UNCHANGED <<up, table, starting, child, call, listening,
                 hstate, proc_id, start_flag, prun, cut>>

-----------------------------------------------------------------------------
(* Kills. *)

OpKillProcess ==
  /\ \E n \in Procs :
       /\ Takes(OpOn("KILL", n))
       /\ IF state[n] = "RUNNING" /\ up[HostOf[n]]
          THEN Asks(Kill(HostOf[n], n), At("killCid", n, "KILL")) /\ UNCHANGED state
          ELSE /\ state' = [state EXCEPT ![n] = IF @ = "EXITTED" THEN @ ELSE "KILLED"]
               /\ UNCHANGED <<call, dac>>
  /\ UNCHANGED <<up, table, starting, child, listening,
                 prcd, hstate, proc_id, start_flag, app_status, prun, cut>>

\* KILL_ALL of exit_app and EXIT of prun.
OpKillAll ==
  /\ \/ Takes(Op("KILL_ALL")) /\ dac' = At("killAll", Nil, "KILL_ALL")
     \/ Takes(Op("EXIT")) /\ dac' = At("killAll", Nil, "EXIT")
  /\ UNCHANGED <<up, table, starting, child, call, listening,
                 state, prcd, hstate, proc_id, start_flag, app_status, prun, cut>>

\* SIGTERM, wherever DAC is.  What DAC has asked a CID for and is not answered yet stays behind
\* as the call of "left": the CID serves it, and nobody takes the answer.
sigtermHandler ==
  /\ dac.at # "over" /\ dac.why # "SIGTERM"
  /\ dac' = At("killAll", Nil, "SIGTERM") /\ cut' = dac
  /\ call' = [call EXCEPT !["dac"] = Nil, !["left"] = IF Pending("dac") THEN call["dac"] ELSE Nil]
  /\ starting' = [h \in Hosts |-> IF starting[h] # Nil /\ starting[h].by = "dac"
                                   THEN [starting[h] EXCEPT !.by = "left"] ELSE starting[h]]
  /\ UNCHANGED <<up, table, child, listening, inbox,
                 state, prcd, hstate, proc_id, start_flag, app_status, prun>>

\* A program whose start SIGTERM has interrupted, and which DAC does not know to run, goes on
\* with what DAC has sent it, or without once DAC is gone and the connection with it.
GoesOnAlone(p) ==
  /\ p \in Pids /\ child[p].at = "new"
  /\ dac.why = "SIGTERM" /\ (dac.at = "over" \/ call["left"] = Nil)
  /\ child' = [child EXCEPT ![p].at = "up"]
  /\ UNCHANGED <<up, table, starting, call, listening, inbox, dacVars>>

\* killAllProcesses: each running process in turn.
KillNext ==
  /\ dac.at = "killAll" /\ Running # {}
  /\ LET p == FirstOf(Running) IN
       IF up[HostOf[p]]
       THEN Asks(Kill(HostOf[p], p), At("killCid", p, dac.why)) /\ UNCHANGED state
       ELSE state' = [state EXCEPT ![p] = "KILLED"] /\ UNCHANGED <<call, dac>>
  /\ UNCHANGED <<up, table, starting, child, listening, inbox,
                 prcd, hstate, proc_id, start_flag, app_status, prun, cut>>

Killed ==
  /\ dac.at = "killCid" /\ Answered
  /\ state' = [state EXCEPT ![dac.on] = "KILLED"]
  /\ dac' = IF dac.why = "KILL" THEN Serving ELSE At("killAll", Nil, dac.why)
  /\ Hangup
  /\ UNCHANGED <<up, table, starting, child, listening, inbox,
                 prcd, hstate, proc_id, start_flag, app_status, prun, cut>>

\* The rest is KILLED too.
ProcessesKilled ==
  /\ dac.at = "killAll" /\ Running = {}
  /\ state' = [p \in Procs |-> IF state[p] = "EXITTED" THEN "EXITTED" ELSE "KILLED"]
  /\ dac' = At("killHandlers", 1, dac.why)
  /\ UNCHANGED <<cidVars, prcd, hstate, proc_id, start_flag, app_status, prun, cut>>

\* killAllHandlers: those STARTED in front of the first that is not are told to exit.
\* Mutant of HandlerIsNext: the last of the list is left out.
HandlerIsNextButLast ==
  dac.on \in DOMAIN HandlerList /\ dac.on < Len(HandlerList) /\ hstate[HandlerList[dac.on]] = "STARTED"
HandlerIsNext == dac.on \in DOMAIN HandlerList /\ hstate[HandlerList[dac.on]] = "STARTED"
KillHandler ==
  /\ dac.at = "killHandlers" /\ HandlerIsNext
  /\ LET n == HandlerList[dac.on] IN
       /\ hstate' = [hstate EXCEPT ![n] = "KILLED"]
       /\ child' = [p \in Pids |->
            IF child[p].at = "up" /\ child[p].name = n /\ proc_id[n] = p
              THEN [child[p] EXCEPT !.at = "zombie", !.status = "EXITTED"] ELSE child[p]]
  /\ dac' = [dac EXCEPT !.on = @ + 1]
  /\ UNCHANGED <<up, table, starting, call, listening, inbox,
                 state, prcd, proc_id, start_flag, app_status, prun, cut>>

\* The start has failed ...
HandlersKilled ==
  /\ dac.at = "killHandlers" /\ ~HandlerIsNext /\ dac.why = "START"
  /\ StartFailed
  /\ UNCHANGED <<cidVars, state, prcd, hstate, proc_id, start_flag, cut>>

\* ... or DAC ends.
End ==
  /\ dac.at = "killHandlers" /\ ~HandlerIsNext /\ dac.why # "START"
  /\ app_status' = IF dac.why = "TERM" THEN app_status ELSE "APP_KILLED"
  /\ prun' = IF dac.why = "SIGTERM" \/ prun = "left" THEN prun ELSE "told"
  /\ dac' = At("over", Nil, dac.why)
  /\ listening' = FALSE /\ inbox' = <<>>
  /\ UNCHANGED <<up, table, starting, child, call,
                 state, prcd, hstate, proc_id, start_flag, cut>>

\* FDD has lost a process; pid 0 is that of every process not started yet.
OpFddChangeProc ==
  /\ \E h \in Hosts, q \in Pids \cup {0} :
       /\ Takes([op |-> "FDDCHANGE_PROC", host |-> h, pid |-> q])
       /\ state' = [p \in Procs |->
            IF HostOf[p] = h /\ proc_id[p] = q /\ state[p] \notin {"EXITTED", "FAILED"}
              THEN "KILLED" ELSE state[p]]
  /\ UNCHANGED <<up, table, starting, child, call, listening,
                 prcd, hstate, proc_id, start_flag, app_status, dac, prun, cut>>

DacTypeOK ==
  /\ state \in [Procs -> States]
  /\ prcd \in [Procs -> SUBSET Procs]
  /\ hstate \in [Handlers -> {"READY", "STARTED", "KILLED"}]
  /\ proc_id \in [Names -> Nat]
  /\ start_flag \in BOOLEAN
=============================================================================
