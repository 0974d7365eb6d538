----------------------------- MODULE Application -----------------------------
(***************************************************************************)
(* A distributed application under prun (ssh/prun.c): the controller, the  *)
(* CIDs of the hosts with the programs they run, the fault detector, and   *)
(* what happens from outside: pcheck's kills (ssh/pcheck.c), SIGTERM to    *)
(* DAC, an operator's KILL_APP at a CID, and the loss of a host.           *)
(***************************************************************************)
EXTENDS FaultDetector

CONSTANTS
  Outside,   \* what may happen from outside, each once
  MaxOutside, \* bound on how many of them happen
  Outcomes   \* how programs end by themselves

ASSUME ApplicationAssumption ==
  /\ {"fdd", "user"} \subseteq Callers
  /\ DacHost \in Hosts /\ DacHost \notin {e.on : e \in {x \in Outside : x.op = "CRASH"}}
  /\ Outcomes \subseteq Statuses /\ MaxOutside \in Nat

VARIABLE done  \* what has happened from outside

appVars == <<cidVars, dacVars, fddVars, done>>

Init == CidInit /\ DacInit /\ FddInit /\ done = {}

-----------------------------------------------------------------------------
(* prun: START once DAC has verified the application, EXIT if it is refused. *)
(* If it is not verified prun leaves, without a word to DAC. *)

Request(r) ==
  /\ listening
  /\ inbox' = Append(inbox, r)
  /\ UNCHANGED <<up, table, starting, child, call, listening, fddVars>>

SendVerify ==
  /\ prun = "begins"
  /\ Request(Op("VERIFY_APP"))
  /\ prun' = "verifies"
  /\ UNCHANGED <<state, prcd, hstate, proc_id, start_flag, app_status, dac, cut, done>>

SendStart ==
  /\ prun = "verified"
  /\ Request(Op("START"))
  /\ prun' = "asked"
  /\ UNCHANGED <<state, prcd, hstate, proc_id, start_flag, app_status, dac, cut, done>>

SendExit ==
  /\ prun = "refused"
  /\ Request(Op("EXIT"))
  /\ prun' = "exits"
  /\ UNCHANGED <<state, prcd, hstate, proc_id, start_flag, app_status, dac, cut, done>>

-----------------------------------------------------------------------------
(* From outside. *)

Event(o, n) == [op |-> o, on |-> n]
Happens(e) ==
  /\ e \in Outside \ done /\ Cardinality(done) < MaxOutside
  /\ done' = done \cup {e}

kill_process(n) == Happens(Event("KILL", n)) /\ Request(OpOn("KILL", n)) /\ UNCHANGED dacVars
exit_app        == Happens(Event("KILL_ALL", Nil)) /\ Request(Op("KILL_ALL")) /\ UNCHANGED dacVars
Terminate       == Happens(Event("SIGTERM", Nil)) /\ sigtermHandler /\ UNCHANGED fddVars
HostLost(h)     == Happens(Event("CRASH", h)) /\ HostCrash(h) /\ UNCHANGED <<dacVars, fddVars>>
kill_app(h) ==
  /\ Happens(Event("KILL_APP", h))
  /\ call["user"] = Nil /\ Reply("user", KillApp(h))
  /\ UNCHANGED <<up, table, starting, child, listening, inbox, dacVars, fddVars>>

FromOutside ==
  \/ \E n \in Procs : kill_process(n)
  \/ exit_app \/ Terminate
  \/ \E h \in Hosts : HostLost(h) \/ kill_app(h)

-----------------------------------------------------------------------------

Rest == UNCHANGED <<dacVars, fddVars, done>>
Kept == UNCHANGED <<fddVars, done>>

CidServes(h, c) ==
  \/ OpVerify(h, c) /\ Rest
  \/ OpExecRefused(h, c) /\ Rest
  \/ FillSlot(h, c) /\ Rest
  \/ OpKill(h, c) /\ Rest
  \/ OpKillApp(h, c) /\ Rest
  \/ OpDetectProc(h, c) /\ Rest
CidStarts(h) ==
  \/ Fork(h) /\ Rest
  \/ EnterPid(h) /\ Rest
Fail(c) == CallFails(c) /\ Rest
Death(h) == \E p \in Pids : sigchldHandler(h, p) /\ Rest
Program(p, s) == Ends(p, s) /\ Rest
Alone(p) == GoesOnAlone(p) /\ Kept

Dac ==
  \/ OpVerifyApp /\ Kept
  \/ VerifyNext /\ Kept
  \/ VerifyAnswered /\ Kept
  \/ Verified /\ Kept
  \/ OpStart /\ Kept
  \/ ExecHandler /\ Kept
  \/ HandlerAnswers /\ Kept
  \/ HandlersStarted /\ Kept
  \/ ExecProcess /\ Kept
  \/ ProcessForked /\ Kept
  \/ ProcessAnswers /\ Kept
  \/ ExecDone /\ Kept
  \/ OpExitProcess /\ Kept
  \/ OpKillProcess /\ Kept
  \/ OpKillAll /\ Kept
  \/ KillNext /\ Kept
  \/ Killed /\ Kept
  \/ ProcessesKilled /\ Kept
  \/ KillHandler /\ Kept
  \/ HandlersKilled /\ Kept
  \/ End /\ Kept
  \/ OpFddChangeProc /\ Kept
  \/ OpGetCpulist /\ UNCHANGED done

Prun ==
  \/ SendVerify
  \/ SendStart
  \/ SendExit
  \/ start_fdd /\ UNCHANGED done
  \/ StopFdd /\ UNCHANGED done

Fdd ==
  \/ InitFails /\ UNCHANGED done
  \/ Ping /\ UNCHANGED done
  \/ Pinged /\ UNCHANGED done
  \/ TellDac /\ UNCHANGED done
  \/ Tfddretrievetuple /\ UNCHANGED done

Next ==
  \/ \E h \in Hosts, c \in Callers : CidServes(h, c)
  \/ \E h \in Hosts : CidStarts(h) \/ Death(h)
  \/ \E c \in Callers : Fail(c)
  \/ \E p \in Pids, s \in Outcomes \cup {"KILLED"} : Program(p, s)
  \/ \E p \in Pids : Alone(p)
  \/ Dac
  \/ Prun
  \/ Fdd
  \/ FromOutside

Spec == Init /\ [][Next]_appVars

\* Daemons, the kernel and prun go on, a CID accepts DAC and FDD in turn, and a program that
\* runs comes to an end.  (Of the operator and of what DAC has left nothing is supposed.)
FairSpec ==
  /\ Spec
  /\ \A h \in Hosts, c \in {"dac", "fdd"} : WF_appVars(CidServes(h, c))
  /\ \A h \in Hosts : WF_appVars(CidStarts(h)) /\ WF_appVars(Death(h))
  /\ \A c \in {"dac", "fdd"} : WF_appVars(Fail(c))
  /\ WF_appVars(Dac) /\ WF_appVars(Prun) /\ WF_appVars(Fdd)
  /\ \A p \in 1 .. Cardinality(Names) :
       WF_appVars(\E s \in Outcomes \cup {"KILLED"} : Program(p, s))

-----------------------------------------------------------------------------

\* The type invariant of the composition.
AppTypeOK ==
  /\ CidTypeOK /\ DacTypeOK /\ FddTypeOK
  /\ done \subseteq Outside
  /\ \A c \in Callers : Pending(c) => call[c].host \in Hosts

Ended(p)  == child[p].at \in {"zombie", "gone"}
PidsOf(n) == {p \in Pids : child[p].name = n}

\* The promise of DAC (dac.c:923, 1498, 1721): a process is asked for only after all before it
\* have really ended, one at a time, and none after DAC has closed its port; it is forked once.
\* SIGTERM may leave one that is asked for, which its CID then forks without DAC.
AskedFor(n) == \E c \in {"dac", "left"} : Pending(c) /\ call[c].op = "EXEC" /\ call[c].name = n
Graph == INSTANCE JobGraph WITH
  job  <- [n \in Procs |-> IF PidsOf(n) = {} THEN IF AskedFor(n) THEN "asked" ELSE "idle"
                           ELSE IF \A p \in PidsOf(n) : Ended(p) THEN "over" ELSE "active"],
  open <- listening
ImplementsJobGraph == Graph!Spec

\* The programs that DAC's SIGTERM handler does not know to run (dac.c:603): a process that is
\* FAILED until it has answered, a handler that has not answered yet (execAllHandlers), and those
\* behind the first of the list when killAllHandlers, which stops at one that is KILLED, was
\* interrupted.
CutShort(n) ==
  /\ dac.why = "SIGTERM"
  /\ \/ cut.at \in {"execCid", "execHello"} /\ n = cut.on
     \/ cut.at = "handlerCid" /\ n = HandlerList[cut.on]
     \/ /\ cut.at = "killHandlers"
        /\ \E i \in DOMAIN HandlerList : 1 < cut.on /\ cut.on <= i /\ n = HandlerList[i]

\* When DAC has ended (dac.c:720, 603), every program it had started has ended or has its
\* signal to die of, but for those of which SIGTERM has interrupted the start or the end.
NoOrphans ==
  dac.at = "over" =>
    \A p \in Pids : child[p].at \in {"new", "up"} => CutShort(child[p].name)

\* What the notes of the SIGTERM handler say: all processes and handlers associated with the
\* application are killed (dac.c:596).
TermKillsAll ==
  dac.at = "over" /\ dac.why = "SIGTERM" => \A p \in Pids : child[p].at # "up"

\* A report of an end waiting at DAC's port (cid.c:1657) is about a process that has ended.
\* (Once SIGTERM has come DAC takes none.)
ReportsAreTrue ==
  dac.why # "SIGTERM" => \A i \in DOMAIN inbox : inbox[i].op = "EXIT_PROCESS" =>
    \E p \in PidsOf(inbox[i].name) : Ended(p)

\* While DAC holds a process for running and takes reports, its end is not forgotten: the signal
\* is still to be handled, the report is on its way, or a kill has freed its entry (cid.c:1609).
NoLostExit ==
  \A n \in Procs :
    state[n] = "RUNNING" /\ Ended(proc_id[n]) /\ up[HostOf[n]] /\ dac.at # "over" /\ dac.why # "SIGTERM" =>
      \/ child[proc_id[n]].at = "zombie"
      \/ \E i \in DOMAIN inbox : inbox[i].op = "EXIT_PROCESS" /\ inbox[i].name = n
      \/ dac.at = "killCid" /\ dac.on = n
      \/ Event("KILL_APP", HostOf[n]) \in done

\* A process that was refused, or of which the SIGCHLD came before the CID had entered its
\* pid (cid.c:1657), so that nobody tells DAC of its end.
Unreported(n) ==
  /\ dac = Serving /\ state[n] = "FAILED"
  /\ \/ proc_id[n] = 0
     \/ /\ child[proc_id[n]].at = "gone"
        /\ ~\E i \in DOMAIN inbox : inbox[i].op = "EXIT_PROCESS" /\ inbox[i].name = n

\* DAC ends, unless prun has left it (prun.c:226), a process is killed or lost, is refused,
\* or ends before its CID knows it (dac.c:700, 955).
Disturbed ==
  \/ prun = "left"
  \/ {e.op : e \in done} \cap {"KILL", "KILL_APP", "CRASH"} # {}
  \/ \E n \in Procs : Unreported(n)
AppEnds == <>(dac.at = "over" \/ Disturbed)

\* A process on FDD's list that dies without being killed by an entry of the table being
\* freed: its tuples are recovered while FDD and DAC last (fdd.c:100, cid.c:3146).
Lost(i) ==
  /\ i \in DOMAIN host_list /\ host_list[i].pid # 0 /\ state[ProcList[i]] # "FAILED"
  /\ Ended(host_list[i].pid) /\ child[host_list[i].pid].status # "EXITTED"
LossRecovered ==
  \A i \in DOMAIN ProcList :
    (Watching /\ Lost(i)) ~> \/ Lost(i) /\ host_list[i].pid \in recovered
                             \/ dac.at = "over"
                             \/ {e.op : e \in done} \cap {"KILL", "KILL_APP"} # {}
=============================================================================
