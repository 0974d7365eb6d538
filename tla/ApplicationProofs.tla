-------------------------- MODULE ApplicationProofs --------------------------
(***************************************************************************)
(* Proofs about an application under its controller (Application), for     *)
(* any hosts, processes, handlers, precedence graph and number of events:  *)
(* until SIGTERM comes to DAC, what DAC believes of a process agrees with  *)
(* what runs on its host (AppInv), so that reports of ends are true, none  *)
(* is lost, and processes are started in the order of the graph.  What     *)
(* holds from SIGTERM on, and the theorems, are in TerminationProofs.      *)
(***************************************************************************)
EXTENDS Application, ListProofs

\* What the theorems suppose of the kills from outside: none frees a slot that a process
\* could still be given, so that a slot never holds the pid of one program and the name of
\* another (cid.c:1751, 1631).  A process that is killed shares its host only with
\* processes that wait for nobody; one whose host has its application killed is alone there.
KillsLeaveHosts ==
  /\ \A n, m \in Procs : Event("KILL", n) \in Outside /\ m # n /\ HostOf[m] = HostOf[n] => Precedents[m] = {}
  /\ \A m \in Procs, n \in Names : Event("KILL_APP", HostOf[m]) \in Outside /\ n # m => HostOf[n] # HostOf[m]

-----------------------------------------------------------------------------
(* The invariant.                                                           *)

CidPlaces  == {"verifyCid", "handlerCid", "execCid", "killCid"}
ExecPlaces == {"exec", "execCid", "execHello"}
Places == CidPlaces \cup ExecPlaces \cup {"serve", "verify", "handlers", "killAll", "killHandlers", "over"}
Messages ==
  [op : {"VERIFY_APP", "START", "EXIT", "KILL_ALL", "GET_CPULIST"}]
    \cup [op : {"KILL"}, name : Procs]
    \cup [op : {"EXIT_PROCESS"}, name : Procs, status : Statuses]
    \cup [op : {"FDDCHANGE_PROC"}, host : Hosts, pid : Nat]

\* Where DAC is, and about whom.
DacShape ==
  /\ dac = At(dac.at, dac.on, dac.why) /\ dac.at \in Places
  /\ dac.why # "SIGTERM"
  /\ dac.at \in {"verify", "handlers", "killHandlers"} => dac.on \in Nat \ {0}
  /\ dac.at = "verifyCid" => dac.on \in DOMAIN Components
  /\ dac.at = "handlerCid" => dac.on \in DOMAIN HandlerList
  /\ dac.at \in {"execCid", "execHello", "killCid"} => dac.on \in Procs
  /\ dac.at \in {"killAll", "killCid"} => dac.why # "START"
  /\ dac.at \in {"killAll", "killHandlers"} => dac.why # "KILL"
  /\ dac.at \in {"handlers", "handlerCid"} => dac.why = "START"
  /\ dac.at \in {"handlers", "handlerCid"} \/ (dac.at = "killHandlers" /\ dac.why = "START") => ~start_flag
  /\ listening <=> dac.at # "over"

\* Whom DAC asks the CID about.
Asked == IF dac.at = "verifyCid" THEN Components[dac.on]
         ELSE IF dac.at = "handlerCid" THEN HandlerList[dac.on] ELSE dac.on
Asking(n) == dac.at = "execCid" /\ dac.on = n /\ Pending("dac")

\* Who asks a CID what: DAC for the component it is about, FDD for the process it watches,
\* the operator for what he is known to have done.
CallsFit ==
  /\ \A c \in Callers \ {"dac", "fdd", "user"} : call[c] = Nil
  /\ dac.at \notin CidPlaces => call["dac"] = Nil
  /\ Pending("dac") =>
       /\ call["dac"].host = HostOf[Asked]
       /\ call["dac"] =
            IF dac.at = "verifyCid" THEN Verify(HostOf[Asked], Asked)
            ELSE IF dac.at = "killCid" THEN Kill(HostOf[Asked], Asked) ELSE Exec(HostOf[Asked], Asked)
  /\ Answered /\ call["dac"].op = "ANSWER" => call["dac"].ok \in BOOLEAN /\ call["dac"].value \in Nat
  /\ call["fdd"] # Nil => fdd.at = "answer"
  /\ Pending("fdd") => call["fdd"] = Detect(Watch.host, Watch.pid)
  /\ Pending("user") => \E h \in Hosts : call["user"] = KillApp(h) /\ Event("KILL_APP", h) \in done

\* An EXEC under way at a CID is the one DAC waits for; its entry stands in the table.
StartFits(h) ==
  starting[h] # Nil =>
    /\ starting[h] \in [by : {"dac"}, slot : Slots, pid : Nat]
    /\ up[h] /\ Pending("dac") /\ call["dac"].op = "EXEC" /\ call["dac"].host = h
    /\ table[h][starting[h].slot].used /\ table[h][starting[h].slot].name = Asked
    /\ Asked \in Procs => table[h][starting[h].slot].pid = 0
    /\ starting[h].pid # 0 => starting[h].pid \in PidsOf(Asked)
StartingFits == DOMAIN starting = Hosts /\ \A h \in Hosts : StartFits(h)

\* The entry of a process holds the pid of that process, once it is entered.
BeingFilled(h, i) == starting[h] # Nil /\ starting[h].slot = i
EntryFits(h, i) ==
  LET e == table[h][i] IN
    /\ e.pid \in Pids \cup {0}
    /\ e.used => e.name \in Names /\ HostOf[e.name] = h /\ (e.port <=> e.name \in Procs)
    /\ e.used /\ ~BeingFilled(h, i) => e.pid \in PidsOf(e.name)
    /\ e.dead => e.pid # 0 /\ (child[e.pid].name \in Procs => Ended(e.pid))
TableFits == \A h \in Hosts : up[h] => \A i \in Slots : EntryFits(h, i)

\* The application ends: DAC starts nothing any more.
Ending ==
  \/ dac.at \in {"killAll", "over"}
  \/ dac.at = "killCid" /\ dac.why # "KILL"
  \/ dac.at = "killHandlers" /\ dac.why # "START"

\* Where a slot was freed with a pid in it, no process is started any more.
Stale(h) == \E i \in Slots : ~table[h][i].used /\ table[h][i].pid # 0
SlotsAreFresh ==
  \A n \in Procs : up[HostOf[n]] /\ Stale(HostOf[n]) =>
    \/ Ending
    \/ state[n] \notin {"WAITING", "READY"} /\ ~(Asking(n) /\ starting[HostOf[n]] = Nil)

\* Programs.  One of a process that still runs or was not waited for has its entry, or is
\* being entered, or was killed by way of its entry.
Live(p)  == child[p].at \in {"new", "up"}
Freed(n) == Event("KILL_APP", HostOf[n]) \in done \/ state[n] = "KILLED" \/ (dac.at = "killCid" /\ dac.on = n)
ChildFits(p) ==
  /\ child[p].host = HostOf[child[p].name]
  /\ ~up[child[p].host] => child[p].at = "gone"
  /\ child[p].at = "zombie" => child[p].status \in Statuses
  /\ child[p].name \in Procs => start_flag
  /\ child[p].at # "gone" /\ child[p].name \in Procs =>
       \/ \E i \in SlotsOf(child[p].host, child[p].name) : table[child[p].host][i].pid = p
       \/ starting[child[p].host] # Nil /\ starting[child[p].host].pid = p
       \/ ~Live(p) /\ Freed(child[p].name)
ChildrenFit == \A p \in Pids : ChildFits(p)

\* Processes.
OverProc(n)  == PidsOf(n) # {} /\ \A p \in PidsOf(n) : Ended(p)
LiveProc(n)  == \E p \in PidsOf(n) : Live(p)
ProcessFits(n) ==
  /\ \A p, q \in PidsOf(n) : p = q
  /\ proc_id[n] \in PidsOf(n) \cup {0}
  /\ state[n] \in {"WAITING", "READY"} => PidsOf(n) = {} /\ SlotsOf(HostOf[n], n) = {}
  /\ state[n] = "RUNNING" => proc_id[n] # 0
  /\ LiveProc(n) => state[n] = "RUNNING" \/ (dac.at \in {"execCid", "execHello"} /\ dac.on = n)
ProcessLife == \A n \in Procs : ProcessFits(n)

\* The process DAC starts.
ExecFits ==
  /\ dac.at \in {"execCid", "execHello"} =>
       /\ state[dac.on] = "FAILED" /\ prcd[dac.on] = {}
       /\ \A p \in PidsOf(dac.on) : child[p].at # "up"
  /\ dac.at = "execCid" =>
       /\ Pending("dac") /\ starting[HostOf[dac.on]] = Nil =>
            PidsOf(dac.on) = {} /\ SlotsOf(HostOf[dac.on], dac.on) = {}
       /\ Pending("dac") => \A h \in Hosts : starting[h] # Nil => PidsOf(dac.on) \subseteq {starting[h].pid}
       /\ Answered /\ Succeeded => call["dac"].value \in PidsOf(dac.on)
       /\ Answered /\ ~Succeeded => ~LiveProc(dac.on)
  /\ dac.at = "execHello" => proc_id[dac.on] # 0
  /\ dac.at \in ExecPlaces => start_flag

\* The process DAC kills.
KillFits ==
  dac.at = "killCid" =>
    /\ state[dac.on] = "RUNNING"
    /\ Answered => ~LiveProc(dac.on)
    /\ dac.why = "KILL" => Event("KILL", dac.on) \in Outside

\* The processes are dealt with before the handlers.
EndingFits ==
  dac.at = "killHandlers" /\ dac.why # "START" => \A n \in Procs : state[n] \in {"EXITTED", "KILLED"}

\* Precedence: what has been taken off a list has ended, and nobody waits for nothing.
OrderFits(n) ==
  /\ \A q \in Precedents[n] \ prcd[n] : OverProc(q)
  /\ state[n] = "READY" => prcd[n] = {}
  /\ state[n] = "WAITING" => Precedents[n] # {}
  /\ start_flag /\ dac.at \notin ExecPlaces => state[n] # "READY"
OrderKept == \A n \in Procs : OrderFits(n)

\* Handlers.
HandlersFit ==
  /\ \A p \in Pids : child[p].name \in Handlers =>
       /\ child[p].at = "up" => hstate[child[p].name] = "STARTED" /\ proc_id[child[p].name] = p
       /\ child[p].at = "new" =>
            /\ dac.at = "handlerCid" /\ Asked = child[p].name
            /\ \/ Pending("dac") /\ \E h \in Hosts : starting[h] # Nil /\ starting[h].pid = p
               \/ Answered /\ Succeeded /\ call["dac"].value = p
  /\ dac.at = "handlerCid" /\ Answered /\ Succeeded => call["dac"].value \in PidsOf(Asked)
  /\ \A i, j \in DOMAIN HandlerList : j < i /\ hstate[HandlerList[i]] = "STARTED" =>
       \/ hstate[HandlerList[j]] = "STARTED"
       \/ dac.at = "killHandlers" /\ j < dac.on
  /\ dac.at = "killHandlers" =>
       \A j \in DOMAIN HandlerList : hstate[HandlerList[j]] = "STARTED" => dac.on <= j
  /\ dac.at \in {"handlers", "handlerCid"} =>
       \A j \in DOMAIN HandlerList : hstate[HandlerList[j]] = "STARTED" <=> j < dac.on

\* prun sends VERIFY_APP and START once each, FDD its request.
NotStarted == \A n \in Handlers : hstate[n] = "READY"
StartUnderWay == dac.at \in {"handlers", "handlerCid"} \/ (dac.at = "killHandlers" /\ dac.why = "START")
Sent(op)   == \E i \in DOMAIN inbox : inbox[i].op = op
PrunFits ==
  /\ \A i, j \in DOMAIN inbox : inbox[i].op = inbox[j].op /\ inbox[i].op \in {"VERIFY_APP", "START", "GET_CPULIST"} => i = j
  /\ Sent("VERIFY_APP") => prun = "verifies" /\ dac.at \notin {"verify", "verifyCid"}
  /\ dac.at \in {"verify", "verifyCid"} => prun = "verifies"
  /\ prun \in {"begins", "verifies", "verified"} \/ Sent("START") =>
       NotStarted /\ ~start_flag /\ ~StartUnderWay
  /\ prun \in {"begins", "verifies", "verified"} => ~Sent("START")
  /\ Sent("GET_CPULIST") => fdd.at = "init"
  /\ ~listening => inbox = <<>>
  /\ prun = "told" => ~listening

\* What is on its way to DAC is true: a process reported has ended, one that FDD calls lost
\* has ended or its host is down; and who is to be killed was named from outside.
LostProc(h, q) == ~up[h] \/ (q \in Pids /\ Ended(q))
NewsIsTrue(m) ==
  /\ m.op = "EXIT_PROCESS" => OverProc(m.name)
  /\ m.op = "FDDCHANGE_PROC" => LostProc(m.host, m.pid)
  /\ m.op = "KILL" => Event("KILL", m.name) \in Outside
NewsAreTrue == inbox \in Seq(Messages) /\ \A i \in DOMAIN inbox : NewsIsTrue(inbox[i])

\* FDD.
FddFits ==
  /\ Watching => Len(host_list) = Len(ProcList)
  /\ \A i \in DOMAIN host_list : host_list[i].pid # 0 =>
       host_list[i].pid \in Pids /\ child[host_list[i].pid].name \in Procs
  /\ call["fdd"] # Nil /\ ~Pending("fdd") /\ ~(call["fdd"].op = "ANSWER" /\ call["fdd"].ok) =>
       LostProc(Watch.host, Watch.pid)
  /\ fdd.at = "tell" => LostProc(Watch.host, Watch.pid)

\* The invariant until SIGTERM comes to DAC.
AppInv ==
  /\ AppTypeOK /\ DacShape /\ CallsFit /\ StartingFits /\ TableFits /\ SlotsAreFresh
  /\ ChildrenFit /\ ProcessLife /\ ExecFits /\ KillFits /\ EndingFits /\ OrderKept /\ HandlersFit /\ PrunFits
  /\ NewsAreTrue /\ FddFits /\ NoOrphans /\ NoLostExit

-----------------------------------------------------------------------------
(* Sets, lists, and who calls whom.                                         *)

\* Lowest picks a slot of the set (getSlot, and the first entry of a name or a pid).
LEMMA LowestIn == \A S \in SUBSET Slots : S # {} => Lowest(S) \in S
<1> SUFFICES ASSUME NEW S \in SUBSET Slots, S # {} PROVE Lowest(S) \in S
  OBVIOUS
<1>1. Cardinality(Slots) \in Nat
  BY TableAssumption, FS_CardinalityType
<1>2. S \subseteq Nat
  BY <1>1, TableAssumption
<1>3. \E i \in S : \A j \in S : i <= j
  BY <1>2, LeastIn
<1> QED
  BY <1>3 DEF Lowest

\* FirstOf picks a process of the set.
LEMMA FirstIn == \A S \in SUBSET Procs : S # {} => FirstOf(S) \in S
<1> SUFFICES ASSUME NEW S \in SUBSET Procs, S # {} PROVE FirstOf(S) \in S
  OBVIOUS
<1> DEFINE D == {i \in DOMAIN ProcList : ProcList[i] \in S}
<1>1. D \subseteq Nat /\ D # {}
  BY ControllerAssumption
<1>2. PICK i \in D : \A j \in D : i <= j
  BY <1>1, LeastIn
<1>3. ProcList[i] \in S /\ \A j \in 1 .. (i - 1) : ProcList[j] \notin S
  <2>1. SUFFICES ASSUME NEW j \in 1 .. (i - 1), ProcList[j] \in S PROVE FALSE
    BY <1>2
  <2>2. i \in 1 .. Len(ProcList) /\ Len(ProcList) \in Nat
    BY <1>2, ControllerAssumption
  <2>3. j \in DOMAIN ProcList /\ j < i
    BY <2>2, ControllerAssumption
  <2>4. i <= j
    BY <1>2, <2>1, <2>3
  <2> QED
    BY <2>2, <2>3, <2>4
<1> QED
  BY <1>3 DEF FirstOf

\* The components and the handlers by their numbers.
LEMMA Listed ==
  /\ \A i \in DOMAIN Components : Components[i] \in Names
  /\ \A i \in DOMAIN HandlerList : HandlerList[i] \in Handlers
  /\ \A n \in Handlers : n \notin Procs
<1>1. Components \in Seq(Names)
  BY ControllerAssumption DEF Components, Names
<1>2. HandlerList \in Seq(Handlers)
  BY ControllerAssumption
<1> QED
  BY <1>1, <1>2, ElementOfSeq, TableAssumption

\* DAC asks about a component of the application.
LEMMA AskedIsNamed ==
  ASSUME AppInv, dac.at \in CidPlaces
  PROVE  /\ Asked \in Names /\ HostOf[Asked] \in Hosts
         /\ dac.at = "handlerCid" => Asked \in Handlers /\ Asked \notin Procs
         /\ dac.at \in {"execCid", "killCid"} => Asked = dac.on /\ Asked \in Procs
<1>1. Asked \in Names
  BY Listed DEF AppInv, DacShape, Asked, CidPlaces, Names
<1>2. HostOf[Asked] \in Hosts
  BY <1>1, ControllerAssumption
<1>3. dac.at = "handlerCid" => Asked \in Handlers /\ Asked \notin Procs
  BY Listed DEF AppInv, DacShape, Asked
<1> QED
  BY <1>1, <1>2, <1>3 DEF AppInv, DacShape, Asked

\* Who has a call pending, and which.
LEMMA WhoCalls ==
  ASSUME AppInv, NEW c \in Callers, Pending(c)
  PROVE  \/ /\ c = "dac" /\ dac.at \in CidPlaces /\ call[c].name = Asked /\ call[c].host = HostOf[Asked]
            /\ call[c].op = IF dac.at = "verifyCid" THEN "VERIFY" ELSE IF dac.at = "killCid" THEN "KILL" ELSE "EXEC"
         \/ c = "fdd" /\ fdd.at = "answer" /\ call[c] = Detect(Watch.host, Watch.pid) /\ call[c].op = "DETECT_PROC"
         \/ /\ c = "user" /\ call[c].op = "KILL_APP" /\ call[c].host \in Hosts
            /\ Event("KILL_APP", call[c].host) \in done
<1>1. c \in {"dac", "fdd", "user"}
  BY DEF AppInv, CallsFit, Pending
<1>2. CASE c = "dac"
  <2>1. dac.at \in CidPlaces
    BY <1>2 DEF AppInv, CallsFit, Pending
  <2> QED
    BY <1>2, <2>1 DEF AppInv, CallsFit, Verify, Kill, Exec
<1>3. CASE c = "fdd"
  BY <1>3 DEF AppInv, CallsFit, Pending, Detect
<1>4. CASE c = "user"
  <2>1. PICK h \in Hosts : call["user"] = KillApp(h) /\ Event("KILL_APP", h) \in done
    BY <1>4 DEF AppInv, CallsFit
  <2>2. call["user"].op = "KILL_APP" /\ call["user"].host = h
    BY <2>1 DEF KillApp
  <2> QED
    BY <1>4, <2>1, <2>2
<1> QED
  BY <1>1, <1>2, <1>3, <1>4

-----------------------------------------------------------------------------
(* The kinds of steps.                                                      *)

\* Steps of the CIDs and of what runs on the hosts, ...
CidStep ==
  \/ \E h \in Hosts, c \in Callers : CidServes(h, c)
  \/ \E h \in Hosts : CidStarts(h) \/ Death(h) \/ HostLost(h)
  \/ \E c \in Callers : Fail(c)
  \/ \E p \in Pids, s \in Outcomes \cup {"KILLED"} : Program(p, s)
\* ... those that send DAC a message, ...
NewsStep ==
  \/ SendVerify \/ SendStart \/ SendExit \/ exit_app \/ \E n \in Procs : kill_process(n)
  \/ (start_fdd \/ TellDac) /\ UNCHANGED done
\* ... and those of FDD and the operator that do not.
AsideStep ==
  \/ (InitFails \/ Ping \/ Pinged \/ Tfddretrievetuple \/ StopFdd) /\ UNCHANGED done
  \/ \E h \in Hosts : kill_app(h)
DacStep == Dac
\* Of DAC's, those after the last process it kills.
Closing == ProcessesKilled \/ KillHandler \/ HandlersKilled \/ End
\* All but SIGTERM, and what goes on without DAC after it.
AppStep == CidStep \/ NewsStep \/ AsideStep \/ DacStep \/ UNCHANGED appVars

\* A step is one of a CID, one that adds to DAC's messages, one that adds nothing, or one of DAC.
LEMMA Steps == AppStep => CidStep \/ NewsStep \/ AsideStep \/ DacStep \/ UNCHANGED appVars
BY DEF AppStep

\* There is no other until SIGTERM comes.
LEMMA AllSteps ==
  /\ [Next]_appVars => AppStep \/ Terminate \/ \E p \in Pids : Alone(p)
  /\ AppInv => ~\E p \in Pids : Alone(p)
<1>1. [Next]_appVars => AppStep \/ Terminate \/ \E p \in Pids : Alone(p)
  BY DEF Next, AppStep, CidStep, NewsStep, AsideStep, DacStep, Prun, Fdd, FromOutside
<1>2. AppInv => ~\E p \in Pids : Alone(p)
  BY DEF AppInv, DacShape, Alone, GoesOnAlone
<1> QED
  BY <1>1, <1>2

\* A CID changes nothing of DAC, prun and FDD.
LEMMA CidFrame ==
  CidStep => UNCHANGED <<dacVars, fddVars, listening>> /\ done \subseteq done'
<1>1. ASSUME NEW h \in Hosts, NEW c \in Callers, CidServes(h, c)
      PROVE  UNCHANGED <<dacVars, fddVars, listening, done>>
  BY <1>1 DEF CidServes, Rest, OpVerify, OpExecRefused, FillSlot, OpKill, OpKillApp, OpDetectProc
<1>2. ASSUME NEW h \in Hosts, CidStarts(h) \/ Death(h)
      PROVE  UNCHANGED <<dacVars, fddVars, listening, done>>
  BY <1>2 DEF CidStarts, Death, Rest, Fork, EnterPid, sigchldHandler
<1>3. ASSUME NEW h \in Hosts, HostLost(h)
      PROVE  UNCHANGED <<dacVars, fddVars, listening>> /\ done \subseteq done'
  BY <1>3 DEF HostLost, HostCrash, Happens
<1>4. ASSUME NEW c \in Callers, Fail(c) PROVE UNCHANGED <<dacVars, fddVars, listening, done>>
  BY <1>4 DEF Fail, CallFails, Rest
<1>5. ASSUME NEW p \in Pids, NEW s, Program(p, s) PROVE UNCHANGED <<dacVars, fddVars, listening, done>>
  BY <1>5 DEF Program, Ends, Rest
<1> QED
  BY <1>1, <1>2, <1>3, <1>4, <1>5 DEF CidStep

\* A message leaves all but DAC's port, prun and FDD alone.
LEMMA NewsFrame ==
  NewsStep => /\ UNCHANGED <<up, table, starting, child, call, listening>>
              /\ UNCHANGED <<state, prcd, hstate, proc_id, start_flag, dac, host_list, recovered>>
              /\ done \subseteq done'
<1>1. SendVerify \/ SendStart \/ SendExit \/ exit_app \/ (\E n \in Procs : kill_process(n)) =>
        UNCHANGED <<up, table, starting, child, call, listening, host_list, recovered>>
  BY DEF SendVerify, SendStart, SendExit, exit_app, kill_process, Request, fddVars
<1>2. SendVerify \/ SendStart \/ SendExit \/ exit_app \/ (\E n \in Procs : kill_process(n)) =>
        UNCHANGED <<state, prcd, hstate, proc_id, start_flag, dac>> /\ done \subseteq done'
  BY DEF SendVerify, SendStart, SendExit, exit_app, kill_process, Happens, dacVars
<1>3. start_fdd \/ TellDac =>
        /\ UNCHANGED <<up, table, starting, child, call, listening, host_list, recovered>>
        /\ UNCHANGED <<state, prcd, hstate, proc_id, start_flag, dac>>
  BY DEF start_fdd, TellDac, dacVars
<1> QED
  BY <1>1, <1>2, <1>3 DEF NewsStep

\* The rest of FDD and the operator touch only their own calls.
LEMMA AsideFrame ==
  AsideStep => UNCHANGED <<up, table, starting, child, listening, inbox, dacVars>> /\ done \subseteq done'
BY DEF AsideStep, InitFails, Ping, Pinged, Tfddretrievetuple, StopFdd, kill_app, cidVars, Happens

\* DAC touches no table.
LEMMA DacFrame ==
  DacStep => UNCHANGED <<up, table, starting>> /\ done \subseteq done'
<1>1. OpVerifyApp \/ VerifyNext \/ VerifyAnswered \/ Verified \/ OpStart \/ ExecHandler \/ HandlerAnswers
        \/ HandlersStarted \/ ExecProcess \/ ProcessForked => UNCHANGED <<up, table, starting>>
  BY DEF OpVerifyApp, VerifyNext, VerifyAnswered, Verified, OpStart, ExecHandler, HandlerAnswers,
         HandlersStarted, ExecProcess, ProcessForked, cidVars
<1>2. ProcessAnswers \/ ExecDone \/ OpExitProcess \/ OpKillProcess \/ OpKillAll \/ KillNext \/ Killed
        \/ OpFddChangeProc \/ OpGetCpulist => UNCHANGED <<up, table, starting>>
  BY DEF ProcessAnswers, ExecDone, OpExitProcess, OpKillProcess, OpKillAll, KillNext, Killed,
         OpFddChangeProc, OpGetCpulist, cidVars
<1>3. ProcessesKilled \/ KillHandler \/ HandlersKilled \/ End => UNCHANGED <<up, table, starting>>
  BY DEF ProcessesKilled, KillHandler, HandlersKilled, End, cidVars
<1> QED
  BY <1>1, <1>2, <1>3 DEF DacStep, Dac, Kept

-----------------------------------------------------------------------------
(* Programs.                                                                *)

\* A program keeps its name and its host; once it has ended it stays so, and one that
\* has its signal to die of does not run on.
Course(a, b) ==
  /\ a \in {"zombie", "gone"} => b \in {"zombie", "gone"}
  /\ a = "gone" => b = "gone"
  /\ b \in {"new", "up"} => a \in {"new", "up"}
  /\ b = "new" => a = "new"
GoesOn(p) ==
  /\ child'[p].name = child[p].name /\ child'[p].host = child[p].host
  /\ Course(child[p].at, child'[p].at)
  /\ child'[p].at = "zombie" => \/ child[p].at = "zombie" /\ child'[p].status = child[p].status
                                \/ child'[p].status \in Statuses

\* The programs as a list.
LEMMA ChildTypes ==
  ASSUME AppTypeOK
  PROVE  /\ child \in Seq(Child) /\ Len(child) \in Nat /\ DOMAIN child = Pids /\ Pids \subseteq Nat \ {0}
         /\ \A p \in Pids : /\ child[p] \in Child /\ child[p].name \in Names /\ child[p].host \in Hosts
                            /\ child[p].at \in {"new", "up", "term", "zombie", "gone"}
                            /\ child[p].status \in Statuses \cup {Nil}
<1>1. child \in Seq(Child)
  BY DEF AppTypeOK, CidTypeOK
<1>2. Len(child) \in Nat /\ DOMAIN child = Pids /\ Pids \subseteq Nat \ {0}
  BY <1>1 DEF Pids
<1>3. \A p \in Pids : child[p] \in Child
  BY <1>1, <1>2, ElementOfSeq DEF Pids
<1> QED
  BY <1>1, <1>2, <1>3 DEF Child, Alive

\* A list of as many programs.
LEMMA SamePids ==
  ASSUME AppTypeOK, child' \in [Pids -> Child]
  PROVE  child' \in Seq(Child) /\ Pids' = Pids
<1>1. Len(child) \in Nat
  BY ChildTypes
<1>2. child' \in [1 .. Len(child) -> Child]
  BY DEF Pids
<1>3. child' \in Seq(Child) /\ Len(child') = Len(child)
  BY <1>1, <1>2
<1> QED
  BY <1>3 DEF Pids

\* Signals.
LEMMA SignalsGoOn ==
  ASSUME AppTypeOK, NEW S, child' = Signalled(S)
  PROVE  /\ child' \in Seq(Child) /\ Pids' = Pids
         /\ \A p \in Pids : /\ GoesOn(p) /\ (child'[p].at = "up" => child[p].at = "up")
                            /\ p \in S => child'[p].at \notin {"new", "up"}
<1> DEFINE F(p) == IF p \in S /\ child[p].at \in {"new", "up"}
                     THEN [child[p] EXCEPT !.at = "term"] ELSE child[p]
<1>1. \A p \in Pids : F(p) \in Child
  BY ChildTypes DEF Child, Alive
<1>2. child' = [p \in Pids |-> F(p)]
  BY DEF Signalled
<1>3. child' \in Seq(Child) /\ Pids' = Pids /\ \A p \in Pids : child'[p] = F(p)
  <2> HIDE DEF F
  <2>1. child' \in [Pids -> Child]
    BY <1>1, <1>2
  <2> QED
    BY <1>2, <2>1, SamePids
<1>4. SUFFICES ASSUME NEW p \in Pids
               PROVE  /\ GoesOn(p) /\ (child'[p].at = "up" => child[p].at = "up")
                      /\ p \in S => child'[p].at \notin {"new", "up"}
  BY <1>3
<1>5. child'[p] = F(p) /\ child[p] \in Child
  BY <1>3, ChildTypes
<1> QED
  BY <1>5 DEF GoesOn, Course, Child

\* The fields of an entry of the list.
LEMMA ChildFields ==
  ASSUME NEW e \in Child, NEW a, NEW s
  PROVE  [e EXCEPT !.at = a, !.status = s] = [name |-> e.name, host |-> e.host, at |-> a, status |-> s]
<1> DEFINE f == [e EXCEPT !.at = a]
<1>1. e = [name |-> e.name, host |-> e.host, at |-> e.at, status |-> e.status]
  BY DEF Child
<1>2. f = [name |-> e.name, host |-> e.host, at |-> a, status |-> e.status]
  BY <1>1
<1>3. [e EXCEPT !.at = a, !.status = s] = [f EXCEPT !.status = s]
  OBVIOUS
<1> HIDE DEF f
<1>4. [f EXCEPT !.status = s] = [name |-> e.name, host |-> e.host, at |-> a, status |-> s]
  BY <1>2
<1> QED
  BY <1>3, <1>4

\* One program goes on.
LEMMA OneGoesOn ==
  ASSUME AppTypeOK, NEW p \in Pids, NEW a \in {"up", "zombie", "gone"}, NEW s \in Statuses \cup {Nil},
         child' = [child EXCEPT ![p].at = a, ![p].status = s]
  PROVE  /\ child' \in Seq(Child) /\ Pids' = Pids
         /\ child'[p] = [name |-> child[p].name, host |-> child[p].host, at |-> a, status |-> s]
         /\ \A q \in Pids : q # p => child'[q] = child[q]
<1> DEFINE new == [name |-> child[p].name, host |-> child[p].host, at |-> a, status |-> s]
           F(q) == IF q = p THEN new ELSE child[q]
<1>1. new \in Child /\ \A q \in Pids : F(q) \in Child
  BY ChildTypes DEF Child, Alive
<1>2. child' = [q \in Pids |-> F(q)]
  <2>1. DOMAIN child = Pids /\ child[p] \in Child
    BY ChildTypes
  <2>2. [child[p] EXCEPT !.at = a, !.status = s] = new
    BY <2>1, ChildFields
  <2>3. child' = [q \in DOMAIN child |-> IF q = p THEN [child[p] EXCEPT !.at = a, !.status = s] ELSE child[q]]
    <3> HIDE DEF new, F
    <3> DEFINE mid == [child EXCEPT ![p].at = a]
    <3>1. child' = [mid EXCEPT ![p].status = s]
      OBVIOUS
    <3>2. DOMAIN mid = Pids /\ mid[p] = [child[p] EXCEPT !.at = a]
      BY <2>1
    <3>3. \A q \in Pids : q # p => mid[q] = child[q]
      BY <2>1
    <3> QED
      BY <2>1, <3>1, <3>2, <3>3
  <2> QED
    BY <2>1, <2>2, <2>3
<1>3. child' \in Seq(Child) /\ Pids' = Pids /\ \A q \in Pids : child'[q] = F(q)
  <2> HIDE DEF F
  <2>1. child' \in [Pids -> Child]
    BY <1>1, <1>2
  <2> QED
    BY <1>2, <2>1, SamePids
<1> QED
  BY <1>3

\* A handler that is told to exit does; nothing else happens to a program.
LEMMA ExitsGoOn ==
  ASSUME AppTypeOK, KillHandler
  PROVE  /\ child' \in Seq(Child) /\ Pids' = Pids
         /\ \A p \in Pids : /\ GoesOn(p) /\ (child[p].name \in Procs => child'[p] = child[p])
                            /\ child'[p].at = "up" => child[p].at = "up" /\ child'[p] = child[p]
                            /\ child'[p].at = "up" /\ child[p].name = HandlerList[dac.on] => proc_id[child[p].name] # p
<1> DEFINE Told(p) == child[p].at = "up" /\ child[p].name = HandlerList[dac.on] /\ proc_id[HandlerList[dac.on]] = p
           F(p) == IF Told(p) THEN [child[p] EXCEPT !.at = "zombie", !.status = "EXITTED"] ELSE child[p]
<1>1. ASSUME NEW p \in Pids, Told(p)
      PROVE  F(p) = [name |-> child[p].name, host |-> child[p].host, at |-> "zombie", status |-> "EXITTED"]
  <2>1. child[p] \in Child
    BY ChildTypes
  <2>2. F(p) = [child[p] EXCEPT !.at = "zombie", !.status = "EXITTED"]
    BY <1>1
  <2> HIDE DEF F
  <2> QED
    BY <2>1, <2>2, ChildFields
<1>2. \A p \in Pids : F(p) \in Child
  <2> SUFFICES ASSUME NEW p \in Pids PROVE F(p) \in Child
    OBVIOUS
  <2>1. CASE Told(p)
    <3>1. F(p) = [name |-> child[p].name, host |-> child[p].host, at |-> "zombie", status |-> "EXITTED"]
      BY <1>1, <2>1
    <3>2. child[p].name \in Names /\ child[p].host \in Hosts
      BY ChildTypes
    <3> HIDE DEF F
    <3> QED
      BY <3>1, <3>2 DEF Child, Alive, Statuses
  <2>2. CASE ~Told(p)
    BY <2>2, ChildTypes
  <2> QED
    BY <2>1, <2>2
<1>3. child' = [p \in Pids |-> F(p)]
  BY DEF KillHandler
<1>4. child' \in Seq(Child) /\ Pids' = Pids /\ \A p \in Pids : child'[p] = F(p)
  <2> HIDE DEF F
  <2>1. child' \in [Pids -> Child]
    BY <1>2, <1>3
  <2> QED
    BY <1>3, <2>1, SamePids
<1>5. SUFFICES ASSUME NEW p \in Pids
               PROVE  /\ GoesOn(p) /\ (child[p].name \in Procs => child'[p] = child[p])
                      /\ child'[p].at = "up" => child[p].at = "up" /\ child'[p] = child[p]
                      /\ child'[p].at = "up" /\ child[p].name = HandlerList[dac.on] => proc_id[child[p].name] # p
  BY <1>4
<1>6. HandlerList[dac.on] \in Handlers /\ \A n \in Handlers : n \notin Procs
  BY Listed DEF KillHandler, HandlerIsNext
<1>7. CASE Told(p)
  <2>1. child'[p] = [name |-> child[p].name, host |-> child[p].host, at |-> "zombie", status |-> "EXITTED"]
    BY <1>1, <1>4, <1>7
  <2> QED
    BY <2>1, <1>6, <1>7 DEF GoesOn, Course, Statuses
<1>8. CASE ~Told(p)
  <2>1. child'[p] = child[p]
    BY <1>4, <1>8
  <2> QED
    BY <2>1, <1>8 DEF GoesOn, Course
<1> QED
  BY <1>7, <1>8

\* All that runs on a host that is lost is gone.
LEMMA CrashGoOn ==
  ASSUME AppTypeOK, NEW h \in Hosts, HostCrash(h)
  PROVE  /\ child' \in Seq(Child) /\ Pids' = Pids
         /\ \A p \in Pids : /\ GoesOn(p) /\ (child[p].host = h => child'[p].at = "gone")
                            /\ child[p].host # h => child'[p] = child[p]
                            /\ child'[p].at = "up" => child[p].at = "up"
<1> DEFINE Hit(p) == child[p].host = h /\ child[p].at # "gone"
           F(p) == IF Hit(p) THEN [child[p] EXCEPT !.at = "gone", !.status = "KILLED"] ELSE child[p]
<1>1. ASSUME NEW p \in Pids, Hit(p)
      PROVE  F(p) = [name |-> child[p].name, host |-> child[p].host, at |-> "gone", status |-> "KILLED"]
  <2>1. child[p] \in Child
    BY ChildTypes
  <2> QED
    BY <1>1, <2>1, ChildFields
<1>2. \A p \in Pids : F(p) \in Child
  <2> SUFFICES ASSUME NEW p \in Pids PROVE F(p) \in Child
    OBVIOUS
  <2>1. CASE Hit(p)
    <3>1. F(p) = [name |-> child[p].name, host |-> child[p].host, at |-> "gone", status |-> "KILLED"]
      BY <1>1, <2>1
    <3>2. child[p].name \in Names /\ child[p].host \in Hosts
      BY ChildTypes
    <3> HIDE DEF F
    <3> QED
      BY <3>1, <3>2 DEF Child, Alive, Statuses
  <2>2. CASE ~Hit(p)
    BY <2>2, ChildTypes
  <2> QED
    BY <2>1, <2>2
<1>3. child' = [p \in Pids |-> F(p)]
  BY DEF HostCrash
<1>4. child' \in Seq(Child) /\ Pids' = Pids /\ \A p \in Pids : child'[p] = F(p)
  <2> HIDE DEF F
  <2>1. child' \in [Pids -> Child]
    BY <1>2, <1>3
  <2> QED
    BY <1>3, <2>1, SamePids
<1>5. SUFFICES ASSUME NEW p \in Pids
               PROVE  /\ GoesOn(p) /\ (child[p].host = h => child'[p].at = "gone")
                      /\ child[p].host # h => child'[p] = child[p]
                      /\ child'[p].at = "up" => child[p].at = "up"
  BY <1>4
<1>6. CASE Hit(p)
  <2>1. child'[p] = [name |-> child[p].name, host |-> child[p].host, at |-> "gone", status |-> "KILLED"]
    BY <1>1, <1>4, <1>6
  <2> QED
    BY <2>1, <1>6 DEF GoesOn, Course
<1>7. CASE ~Hit(p)
  <2>1. child'[p] = child[p]
    BY <1>4, <1>7
  <2> QED
    BY <2>1, <1>7 DEF GoesOn, Course
<1> QED
  BY <1>6, <1>7

\* The EXEC under way at a CID is that of the component DAC starts; a process is forked
\* only then, and for the first time.
LEMMA Starting ==
  ASSUME AppInv, NEW h \in Hosts, starting[h] # Nil
  PROVE  /\ Pending("dac") /\ dac.at \in {"handlerCid", "execCid"} /\ up[h] /\ h = HostOf[Asked]
         /\ starting[h].slot \in Slots /\ starting[h].pid \in Nat /\ starting[h].by = "dac"
         /\ table[h][starting[h].slot].used /\ table[h][starting[h].slot].name = Asked
         /\ Asked \in Procs => table[h][starting[h].slot].pid = 0
         /\ starting[h].pid # 0 => starting[h].pid \in PidsOf(Asked)
         /\ Asked \in Procs => dac.at = "execCid" /\ Asked = dac.on /\ start_flag
                               /\ PidsOf(Asked) \subseteq {starting[h].pid}
         /\ \A g \in Hosts : starting[g] # Nil => g = h
<1>1. \A g \in Hosts : starting[g] # Nil =>
        /\ starting[g] \in [by : {"dac"}, slot : Slots, pid : Nat]
        /\ up[g] /\ Pending("dac") /\ call["dac"].op = "EXEC" /\ call["dac"].host = g
        /\ table[g][starting[g].slot].used /\ table[g][starting[g].slot].name = Asked
        /\ Asked \in Procs => table[g][starting[g].slot].pid = 0
        /\ starting[g].pid # 0 => starting[g].pid \in PidsOf(Asked)
  BY DEF AppInv, StartingFits, StartFits
<1>2. Pending("dac") /\ "dac" \in Callers
  BY <1>1, ControllerAssumption
<1>3. dac.at \in CidPlaces /\ call["dac"].host = HostOf[Asked]
        /\ call["dac"].op = IF dac.at = "verifyCid" THEN "VERIFY" ELSE IF dac.at = "killCid" THEN "KILL" ELSE "EXEC"
  BY <1>2, WhoCalls
<1>4. dac.at \in {"handlerCid", "execCid"}
  BY <1>1, <1>3 DEF CidPlaces
<1>5. Asked \in Procs => dac.at = "execCid" /\ Asked = dac.on
  BY <1>3, <1>4, AskedIsNamed
<1>6. dac.at = "execCid" => start_flag /\ PidsOf(dac.on) \subseteq {starting[h].pid}
  BY <1>2 DEF AppInv, ExecFits, ExecPlaces
<1> QED
  BY <1>1, <1>3, <1>4, <1>5, <1>6

\* A fork adds the program DAC has asked for.
LEMMA Forks ==
  ASSUME AppInv, NEW h \in Hosts, Fork(h)
  PROVE  /\ child' \in Seq(Child) /\ Pids' = Pids \cup {Len(child) + 1} /\ Len(child) + 1 \notin Pids
         /\ child'[Len(child) + 1] = [name |-> Asked, host |-> h, at |-> "new", status |-> Nil]
         /\ \A p \in Pids : child'[p] = child[p]
         /\ starting' = [starting EXCEPT ![h].pid = Len(child) + 1] /\ starting[h].pid = 0
         /\ Pending("dac") /\ h = HostOf[Asked] /\ Asked \in Names /\ up[h]
         /\ Asked \in Procs => dac.at = "execCid" /\ Asked = dac.on /\ start_flag /\ PidsOf(Asked) = {}
         /\ Asked \notin Procs => dac.at = "handlerCid"
<1> DEFINE new == [name |-> Asked, host |-> h, at |-> "new", status |-> Nil]
<1>1. starting[h] # Nil /\ starting[h].pid = 0
  BY DEF Fork
<1>2. child' = Append(child, new)
  BY <1>1, Starting DEF Fork
<1>3. /\ child \in Seq(Child) /\ Len(child) \in Nat /\ Pids \subseteq Nat \ {0}
      /\ Len(child) + 1 \notin Pids /\ Pids = 1 .. Len(child)
  BY ChildTypes DEF AppInv, Pids
<1>4. dac.at \in CidPlaces /\ Asked \in Names
  BY <1>1, Starting, AskedIsNamed DEF CidPlaces
<1>5. new \in Child
  BY <1>4 DEF Child, Alive
<1>6. child' \in Seq(Child) /\ Len(child') = Len(child) + 1 /\ child'[Len(child) + 1] = new
        /\ \A p \in 1 .. Len(child) : child'[p] = child[p]
  <2> HIDE DEF new
  <2> QED
    BY <1>2, <1>3, <1>5, AppendProperties
<1>7. Pids' = Pids \cup {Len(child) + 1}
  <2>1. Pids' = 1 .. Len(child')
    BY DEF Pids
  <2> QED
    BY <1>3, <1>6, <2>1
<1>8. starting' = [starting EXCEPT ![h].pid = Len(child) + 1]
  BY <1>6 DEF Fork
<1>9. Asked \in Procs => PidsOf(Asked) = {}
  BY <1>1, <1>3, Starting DEF PidsOf
<1>10. Asked \notin Procs => dac.at = "handlerCid"
  BY <1>1, <1>4, Starting, AskedIsNamed
<1> QED
  BY <1>1, <1>3, <1>4, <1>6, <1>7, <1>8, <1>9, <1>10, Starting

\* A CID lets no program run that did not run before, and only its fork adds one.
LEMMA HostsGoOn ==
  ASSUME AppTypeOK, CidStep, \A h \in Hosts : ~Fork(h)
  PROVE  /\ child' \in Seq(Child) /\ Pids' = Pids
         /\ \A p \in Pids : GoesOn(p) /\ (child'[p].at = "up" => child[p].at = "up")
<1> DEFINE Goal == /\ child' \in Seq(Child) /\ Pids' = Pids
                   /\ \A p \in Pids : GoesOn(p) /\ (child'[p].at = "up" => child[p].at = "up")
<1> SUFFICES Goal
  OBVIOUS
<1>1. AppTypeOK
  OBVIOUS
<1>2. ASSUME child' = child PROVE Goal
  BY <1>1, <1>2, ChildTypes DEF GoesOn, Course, Pids
<1>3. ASSUME NEW S, child' = Signalled(S) PROVE Goal
  BY <1>1, <1>3, SignalsGoOn
<1>4. ASSUME NEW h \in Hosts, NEW c \in Callers, CidServes(h, c) PROVE Goal
  <2>1. child' = child \/ \E S : child' = Signalled(S)
    BY <1>4 DEF CidServes, OpVerify, OpExecRefused, FillSlot, OpKill, OpKillApp, OpDetectProc
  <2> HIDE DEF Goal
  <2> QED
    BY <1>2, <1>3, <2>1
<1>6. ASSUME NEW h \in Hosts, EnterPid(h) PROVE Goal
  <2>1. child' = child
    BY <1>6 DEF EnterPid
  <2> HIDE DEF Goal
  <2> QED
    BY <1>2, <2>1
<1>7. ASSUME NEW p \in Pids, NEW a \in {"zombie", "gone"}, NEW s \in Statuses \cup {Nil},
             child' = [child EXCEPT ![p].at = a, ![p].status = s],
             child[p].at # "gone", child[p].at = "zombie" => a = "gone", a = "zombie" => s \in Statuses
      PROVE  Goal
  <2>1. /\ child' \in Seq(Child) /\ Pids' = Pids
        /\ child'[p] = [name |-> child[p].name, host |-> child[p].host, at |-> a, status |-> s]
        /\ \A q \in Pids : q # p => child'[q] = child[q]
    <3>1. child' = [child EXCEPT ![p].at = a, ![p].status = s]
      BY <1>7
    <3>2. a \in {"up", "zombie", "gone"}
      OBVIOUS
    <3> HIDE DEF Goal
    <3> QED
      BY <1>1, <3>1, <3>2, OneGoesOn, Zenon
  <2>2. ASSUME NEW q \in Pids PROVE GoesOn(q) /\ (child'[q].at = "up" => child[q].at = "up")
    <3>1. CASE q = p
      BY <1>7, <2>1, <3>1 DEF GoesOn, Course
    <3>2. CASE q # p
      BY <2>1, <3>2 DEF GoesOn, Course
    <3> QED
      BY <3>1, <3>2
  <2> QED
    BY <2>1, <2>2
<1>8. ASSUME NEW h \in Hosts, NEW p \in Pids, sigchldHandler(h, p) PROVE Goal
  <2>1. child[p].at = "zombie" /\ child' = [child EXCEPT ![p].at = "gone"] /\ child \in Seq(Child)
    BY <1>8 DEF sigchldHandler, AppTypeOK, CidTypeOK
  <2>2. child[p].status \in Statuses \cup {Nil} /\ DOMAIN child = Pids /\ child[p] \in Child
    BY <1>1, ChildTypes
  <2>3. [child[p] EXCEPT !.at = "gone"] = [child[p] EXCEPT !.at = "gone", !.status = child[p].status]
    <3>1. [child[p] EXCEPT !.at = "gone"] =
            [name |-> child[p].name, host |-> child[p].host, at |-> "gone", status |-> child[p].status]
      BY <2>2 DEF Child
    <3> QED
      BY <2>2, <3>1, ChildFields
  <2>4. child' = [child EXCEPT ![p].at = "gone", ![p].status = child[p].status]
    BY <2>1, <2>2, <2>3
  <2> HIDE DEF Goal
  <2> QED
    BY <1>7, <2>1, <2>2, <2>4
<1>9. ASSUME NEW h \in Hosts, HostCrash(h) PROVE Goal
  BY <1>1, <1>9, CrashGoOn
<1>10. ASSUME NEW p \in Pids, NEW s \in Outcomes \cup {"KILLED"}, Ends(p, s) PROVE Goal
  <2>1. child' = [child EXCEPT ![p].at = "zombie", ![p].status = s] /\ child[p].at \notin {"zombie", "gone"}
    BY <1>10 DEF Ends
  <2>2. s \in Statuses
    BY ApplicationAssumption DEF Statuses
  <2> HIDE DEF Goal
  <2> QED
    BY <1>7, <2>1, <2>2
<1>11. ASSUME NEW c \in Callers, CallFails(c) PROVE Goal
  <2>1. child' = child
    BY <1>11 DEF CallFails
  <2> HIDE DEF Goal
  <2> QED
    BY <1>2, <2>1
<1> HIDE DEF Goal
<1> QED
  BY <1>4, <1>6, <1>8, <1>9, <1>10, <1>11 DEF CidStep, CidStarts, Death, HostLost, Fail, Program

\* So it is until SIGTERM comes.
LEMMA CidChildren ==
  ASSUME AppInv, CidStep
  PROVE  /\ child' \in Seq(Child) /\ Pids \subseteq Pids'
         /\ \A p \in Pids : GoesOn(p) /\ (child'[p].at = "up" => child[p].at = "up")
         /\ (\A h \in Hosts : ~Fork(h)) => Pids' = Pids
<1>1. CASE \A h \in Hosts : ~Fork(h)
  BY <1>1, HostsGoOn DEF AppInv
<1>2. ASSUME NEW h \in Hosts, Fork(h)
      PROVE  /\ child' \in Seq(Child) /\ Pids \subseteq Pids'
             /\ \A p \in Pids : GoesOn(p) /\ (child'[p].at = "up" => child[p].at = "up")
  <2>1. /\ child' \in Seq(Child) /\ Pids' = Pids \cup {Len(child) + 1}
        /\ \A p \in Pids : child'[p] = child[p]
    BY <1>2, Forks
  <2> QED
    BY <2>1 DEF GoesOn, Course
<1> QED
  BY <1>1, <1>2

\* DAC lets the programs it has greeted run, and tells handlers to exit.
LEMMA DacChildren ==
  ASSUME AppInv, DacStep
  PROVE  child' \in Seq(Child) /\ Pids' = Pids /\ \A p \in Pids : GoesOn(p)
<1> DEFINE Goal == child' \in Seq(Child) /\ Pids' = Pids /\ \A p \in Pids : GoesOn(p)
<1> SUFFICES Goal
  OBVIOUS
<1>1. AppTypeOK
  BY DEF AppInv
<1>2. ASSUME child' = child PROVE Goal
  BY <1>1, <1>2, ChildTypes DEF GoesOn, Course, Pids
<1>3. ASSUME KillHandler PROVE Goal
  BY <1>1, <1>3, ExitsGoOn
<1>4. ASSUME NEW p \in Pids, child[p].at \in {"new", "term"},
             child' = [child EXCEPT ![p].at = IF @ = "new" THEN "up" ELSE @]
      PROVE  Goal
  <2>1. child[p] \in Child /\ DOMAIN child = Pids
    BY <1>1, ChildTypes
  <2>2. CASE child[p].at = "new"
    <3>1. [child[p] EXCEPT !.at = "up"] = [child[p] EXCEPT !.at = "up", !.status = child[p].status]
      <4>1. [child[p] EXCEPT !.at = "up"] =
              [name |-> child[p].name, host |-> child[p].host, at |-> "up", status |-> child[p].status]
        BY <2>1 DEF Child
      <4> QED
        BY <2>1, <4>1, ChildFields
    <3>2. child' = [child EXCEPT ![p].at = "up", ![p].status = child[p].status]
      BY <1>4, <2>1, <2>2, <3>1
    <3>3. child[p].status \in Statuses \cup {Nil}
      BY <1>1, ChildTypes
    <3>4. /\ child' \in Seq(Child) /\ Pids' = Pids
          /\ child'[p] = [name |-> child[p].name, host |-> child[p].host, at |-> "up", status |-> child[p].status]
          /\ \A q \in Pids : q # p => child'[q] = child[q]
      BY <1>1, <3>2, <3>3, OneGoesOn
    <3> QED
      BY <2>2, <3>4 DEF GoesOn, Course
  <2>3. CASE child[p].at = "term"
    <3>1. child' = child
      <4>1. [child[p] EXCEPT !.at = child[p].at] = child[p]
        BY <2>1 DEF Child
      <4> QED
        BY <1>1, <1>4, <2>1, <2>3, <4>1, ChildTypes
    <3> HIDE DEF Goal
    <3> QED
      BY <1>2, <3>1
  <2> QED
    BY <1>4, <2>2, <2>3
<1>5. HandlerAnswers => Goal
  <2> SUFFICES ASSUME HandlerAnswers PROVE Goal
    OBVIOUS
  <2> DEFINE p == call["dac"].value
  <2>1. CASE Succeeded /\ child[p].at = "new"
    <3>1. dac.at = "handlerCid" /\ Answered
      BY DEF HandlerAnswers
    <3>2. p \in Pids
      BY <2>1, <3>1 DEF AppInv, HandlersFit, PidsOf
    <3>3. child' = [child EXCEPT ![p].at = "up"]
      BY <2>1 DEF HandlerAnswers
    <3>4. child' = [child EXCEPT ![p].at = IF @ = "new" THEN "up" ELSE @]
      BY <2>1, <3>3
    <3> HIDE DEF Goal, p
    <3> QED
      BY <1>4, <2>1, <3>2, <3>4
  <2>2. CASE ~(Succeeded /\ child[p].at = "new")
    <3>1. child' = child
      BY <2>2 DEF HandlerAnswers
    <3> HIDE DEF Goal
    <3> QED
      BY <1>2, <3>1
  <2> QED
    BY <2>1, <2>2
<1>6. ProcessAnswers => Goal
  <2> SUFFICES ASSUME ProcessAnswers PROVE Goal
    OBVIOUS
  <2> DEFINE p == proc_id[dac.on]
  <2>1. CASE child[p].at \in {"new", "term"}
    <3>1. dac.at = "execHello"
      BY DEF ProcessAnswers
    <3>2. dac.on \in Procs /\ p # 0
      BY <3>1 DEF AppInv, ExecFits, DacShape
    <3>3. p \in Pids
      BY <3>2 DEF AppInv, ProcessLife, ProcessFits, PidsOf
    <3>4. child' = [child EXCEPT ![p].at = IF @ = "new" THEN "up" ELSE @]
      BY <2>1 DEF ProcessAnswers
    <3> HIDE DEF Goal, p
    <3> QED
      BY <1>4, <2>1, <3>3, <3>4
  <2>2. CASE child[p].at \notin {"new", "term"}
    BY <1>2, <2>2 DEF ProcessAnswers
  <2> QED
    BY <2>1, <2>2
<1>7. ProcessesKilled \/ HandlersKilled \/ End => child' = child
  BY DEF ProcessesKilled, HandlersKilled, End, cidVars
<1>8. OpVerifyApp \/ VerifyNext \/ VerifyAnswered \/ Verified \/ OpStart \/ ExecHandler
        \/ HandlersStarted \/ ExecProcess \/ ProcessForked => child' = child
  BY DEF OpVerifyApp, VerifyNext, VerifyAnswered, Verified, OpStart, ExecHandler,
         HandlersStarted, ExecProcess, ProcessForked, cidVars
<1>9. ExecDone \/ OpExitProcess \/ OpKillProcess \/ OpKillAll \/ KillNext \/ Killed
        \/ OpFddChangeProc \/ OpGetCpulist => child' = child
  BY DEF ExecDone, OpExitProcess, OpKillProcess, OpKillAll, KillNext, Killed,
         OpFddChangeProc, OpGetCpulist, cidVars
<1> HIDE DEF Goal
<1> QED
  BY <1>2, <1>3, <1>5, <1>6, <1>7, <1>8, <1>9 DEF DacStep, Dac

\* Whatever happens, every program goes on.
LEMMA ChildrenGoOn ==
  ASSUME AppInv, AppStep
  PROVE  /\ child' \in Seq(Child) /\ Pids \subseteq Pids' /\ \A p \in Pids : GoesOn(p)
         /\ (\A h \in Hosts : ~Fork(h)) => Pids' = Pids
<1>1. CASE CidStep
  BY <1>1, CidChildren
<1>2. CASE DacStep
  BY <1>2, DacChildren
<1>3. CASE NewsStep \/ AsideStep \/ UNCHANGED appVars
  <2>1. child' = child
    BY <1>3, NewsFrame, AsideFrame DEF appVars, cidVars
  <2> QED
    BY <2>1, ChildTypes DEF GoesOn, Course, Pids, AppInv
<1> QED
  BY <1>1, <1>2, <1>3, Steps

\* What that means for the programs of a name.
LEMMA PidsGoOn ==
  ASSUME AppInv, AppStep, NEW n \in Names
  PROVE  /\ PidsOf(n) \subseteq (PidsOf(n))' /\ \A p \in PidsOf(n) : (Ended(p) => (Ended(p))') /\ ((Live(p))' => Live(p))
         /\ (\A h \in Hosts : Fork(h) => Asked # n) => (PidsOf(n))' = PidsOf(n)
         /\ n \in Procs /\ OverProc(n) => (OverProc(n))'
         /\ (\A h \in Hosts : Fork(h) => Asked # n) /\ (LiveProc(n))' => LiveProc(n)
<1>1. /\ child' \in Seq(Child) /\ Pids \subseteq Pids' /\ \A p \in Pids : GoesOn(p)
      /\ (\A h \in Hosts : ~Fork(h)) => Pids' = Pids
  BY ChildrenGoOn
<1>2. PidsOf(n) \subseteq (PidsOf(n))'
  BY <1>1 DEF PidsOf, GoesOn
<1>3. \A p \in PidsOf(n) : (Ended(p) => (Ended(p))') /\ ((Live(p))' => Live(p))
  BY <1>1 DEF PidsOf, GoesOn, Course, Ended, Live
<1>4. ASSUME \A h \in Hosts : Fork(h) => Asked # n PROVE (PidsOf(n))' = PidsOf(n)
  <2>1. CASE \A h \in Hosts : ~Fork(h)
    BY <1>1, <2>1 DEF PidsOf, GoesOn
  <2>2. ASSUME NEW h \in Hosts, Fork(h) PROVE (PidsOf(n))' = PidsOf(n)
    <3>1. /\ Pids' = Pids \cup {Len(child) + 1}
          /\ child'[Len(child) + 1] = [name |-> Asked, host |-> h, at |-> "new", status |-> Nil]
          /\ \A p \in Pids : child'[p] = child[p]
      BY <2>2, Forks, Zenon
    <3>2. Asked # n
      BY <1>4, <2>2
    <3>3. child'[Len(child) + 1].name # n
      BY <3>1, <3>2
    <3> QED
      BY <3>1, <3>3 DEF PidsOf
  <2> QED
    BY <2>1, <2>2
<1>5. ASSUME n \in Procs, OverProc(n) PROVE \A h \in Hosts : Fork(h) => Asked # n
  BY <1>5, Forks DEF OverProc
<1>6. ASSUME n \in Procs, OverProc(n) PROVE (OverProc(n))'
  <2>1. (PidsOf(n))' = PidsOf(n)
    BY <1>4, <1>5, <1>6
  <2>2. PidsOf(n) # {} /\ \A p \in PidsOf(n) : (Ended(p))'
    BY <1>3, <1>6 DEF OverProc
  <2> QED
    BY <2>1, <2>2 DEF OverProc
<1>7. ASSUME \A h \in Hosts : Fork(h) => Asked # n, (LiveProc(n))' PROVE LiveProc(n)
  <2>1. PICK p \in (PidsOf(n))' : (Live(p))'
    BY <1>7 DEF LiveProc
  <2>2. p \in PidsOf(n) /\ Live(p)
    BY <1>3, <1>4, <1>7, <2>1
  <2> QED
    BY <2>2 DEF LiveProc
<1> QED
  BY <1>2, <1>3, <1>4, <1>6, <1>7

-----------------------------------------------------------------------------
(* Calls.                                                                   *)

Answers == [op : {"ANSWER"}, ok : BOOLEAN, value : Nat]

\* Where DAC is at each of its steps.
LEMMA DacGuards ==
  ASSUME AppInv
  PROVE  /\ VerifyNext \/ Verified => dac.at = "verify"
         /\ ExecHandler \/ HandlersStarted => dac.at = "handlers"
         /\ ExecProcess \/ ExecDone => dac.at = "exec"
         /\ ProcessAnswers => dac.at = "execHello"
         /\ KillNext \/ ProcessesKilled => dac.at = "killAll"
         /\ KillHandler \/ HandlersKilled \/ End => dac.at = "killHandlers"
         /\ VerifyAnswered => dac.at = "verifyCid" /\ Answered
         /\ HandlerAnswers => dac.at = "handlerCid" /\ Answered
         /\ ProcessForked => dac.at = "execCid" /\ Answered
         /\ Killed => dac.at = "killCid" /\ Answered
         /\ OpVerifyApp \/ OpStart \/ OpExitProcess \/ OpKillProcess \/ OpKillAll \/ OpFddChangeProc
              \/ OpGetCpulist => dac = Serving /\ dac.at = "serve" /\ listening
         /\ DacStep /\ ~Answered => dac.at \in {"verify", "handlers", "exec", "execHello", "killAll", "killHandlers", "serve"}
<1>1. /\ VerifyNext \/ Verified => dac.at = "verify"
      /\ ExecHandler \/ HandlersStarted => dac.at = "handlers"
      /\ ExecProcess \/ ExecDone => dac.at = "exec"
      /\ ProcessAnswers => dac.at = "execHello"
      /\ KillNext \/ ProcessesKilled => dac.at = "killAll"
      /\ KillHandler \/ HandlersKilled \/ End => dac.at = "killHandlers"
  BY DEF VerifyNext, Verified, ExecHandler, HandlersStarted, ExecProcess, ExecDone, ProcessAnswers, KillNext,
         ProcessesKilled, KillHandler, HandlersKilled, End
<1>2. /\ VerifyAnswered => dac.at = "verifyCid" /\ Answered
      /\ HandlerAnswers => dac.at = "handlerCid" /\ Answered
      /\ ProcessForked => dac.at = "execCid" /\ Answered
      /\ Killed => dac.at = "killCid" /\ Answered
  BY DEF VerifyAnswered, HandlerAnswers, ProcessForked, Killed
<1>3. OpVerifyApp \/ OpStart \/ OpExitProcess \/ OpKillProcess \/ OpKillAll \/ OpFddChangeProc
        \/ OpGetCpulist => dac = Serving /\ listening
  BY DEF OpVerifyApp, OpStart, OpExitProcess, OpKillProcess, OpKillAll, OpFddChangeProc,
         OpGetCpulist, Takes
<1>4. Serving.at = "serve"
  BY DEF Serving, At
<1>5. DacStep /\ ~Answered => dac.at \in {"verify", "handlers", "exec", "execHello", "killAll", "killHandlers", "serve"}
  BY <1>1, <1>2, <1>3, <1>4 DEF DacStep, Dac
<1> QED
  BY <1>1, <1>2, <1>3, <1>4, <1>5

\* How DAC closes.
LEMMA Closes ==
  ASSUME AppInv, Closing
  PROVE  /\ dac.at \in {"killAll", "killHandlers"} /\ dac'.at \in {"killHandlers", "serve", "over"}
         /\ UNCHANGED <<up, table, starting, call, prcd, proc_id, start_flag>>
         /\ \A n \in Procs : state'[n] = state[n] \/ state'[n] = "KILLED"
         /\ dac'.at = "killHandlers" => dac' = At("killHandlers", dac'.on, dac.why)
         /\ dac'.at = "serve" => dac.at = "killHandlers" /\ dac.why = "START"
<1>1. dac = At(dac.at, dac.on, dac.why)
  BY DEF AppInv, DacShape
<1>2. dac.at \in {"killAll", "killHandlers"}
  BY DacGuards DEF Closing
<1>3. UNCHANGED <<up, table, starting, call, prcd, proc_id, start_flag>>
  BY DEF Closing, ProcessesKilled, KillHandler, HandlersKilled, End, cidVars
<1>4. \A n \in Procs : state'[n] = state[n] \/ state'[n] = "KILLED"
  BY DEF Closing, ProcessesKilled, KillHandler, HandlersKilled, End
<1>5. ProcessesKilled => dac' = At("killHandlers", 1, dac.why)
  BY DEF ProcessesKilled
<1>6. KillHandler => dac' = At("killHandlers", dac.on + 1, dac.why)
  BY <1>1, DacGuards DEF KillHandler, At
<1>7. HandlersKilled => dac'.at = "serve" /\ dac.at = "killHandlers" /\ dac.why = "START"
  BY DEF HandlersKilled, StartFailed, Serving, At
<1>8. End => dac'.at = "over"
  BY DEF End, At
<1>9. /\ ProcessesKilled \/ KillHandler => dac'.at = "killHandlers" /\ dac' = At("killHandlers", dac'.on, dac.why)
  BY <1>5, <1>6 DEF At
<1> QED
  BY <1>2, <1>3, <1>4, <1>7, <1>8, <1>9 DEF Closing

\* While DAC steps, no CID is busy for it.
LEMMA DacAlone ==
  ASSUME AppInv, DacStep
  PROVE  ~Pending("dac") /\ \A h \in Hosts : starting[h] = Nil
<1>1. dac.at \notin CidPlaces => call["dac"] = Nil
  BY DEF AppInv, CallsFit
<1>2. DacStep /\ ~Answered => dac.at \notin CidPlaces
  BY DacGuards DEF CidPlaces
<1>3. ~Pending("dac")
  BY <1>1, <1>2 DEF Answered, Pending
<1> QED
  BY <1>3, Starting

\* A CID only answers those who have called it.
LEMMA CidCalls ==
  ASSUME AppInv, CidStep
  PROVE  /\ DOMAIN call' = Callers
         /\ \A c \in Callers : call'[c] = call[c] \/ (Pending(c) /\ call'[c] \in Answers \cup {NoAnswer})
<1> DEFINE Goal == /\ DOMAIN call' = Callers
                   /\ \A c \in Callers : call'[c] = call[c] \/ (Pending(c) /\ call'[c] \in Answers \cup {NoAnswer})
<1> SUFFICES Goal
  OBVIOUS
<1>1. DOMAIN call = Callers
  BY DEF AppInv, AppTypeOK, CidTypeOK
<1>2. ASSUME call' = call PROVE Goal
  BY <1>1, <1>2
<1>3. ASSUME NEW c \in Callers, Pending(c), NEW a \in Answers \cup {NoAnswer}, Reply(c, a) PROVE Goal
  BY <1>1, <1>3 DEF Reply
<1>4. \A b \in BOOLEAN, v \in Nat : Answer(b, v) \in Answers \cup {NoAnswer}
  BY DEF Answer, Answers
<1>5. ASSUME NEW h \in Hosts, NEW c \in Callers, CidServes(h, c) PROVE Goal
  <2>1. CASE OpVerify(h, c)
    <3>1. Pending(c) /\ \E ok \in BOOLEAN : Reply(c, Answer(ok, 0))
      BY <2>1 DEF OpVerify, Accepts
    <3> HIDE DEF Goal
    <3> QED
      BY <1>3, <1>4, <3>1
  <2>2. CASE OpExecRefused(h, c)
    <3>1. Pending(c) /\ Reply(c, Answer(FALSE, 0))
      BY <2>2 DEF OpExecRefused, Accepts
    <3> HIDE DEF Goal
    <3> QED
      BY <1>3, <1>4, <3>1
  <2>3. CASE FillSlot(h, c)
    <3>1. call' = call
      BY <2>3 DEF FillSlot
    <3> HIDE DEF Goal
    <3> QED
      BY <1>2, <3>1
  <2>4. CASE OpKill(h, c)
    <3>1. Pending(c) /\ \E ok \in BOOLEAN : Reply(c, Answer(ok, 0))
      BY <2>4 DEF OpKill, Accepts
    <3> HIDE DEF Goal
    <3> QED
      BY <1>3, <1>4, <3>1
  <2>5. CASE OpKillApp(h, c)
    <3>1. Pending(c) /\ Reply(c, Answer(Used(h) # {}, Cardinality(Used(h))))
      BY <2>5 DEF OpKillApp, Accepts
    <3>2. IsFiniteSet(Slots) /\ Used(h) \subseteq Slots
      BY TableAssumption DEF Used
    <3>3. Cardinality(Used(h)) \in Nat
      BY <3>2, FS_Subset, FS_CardinalityType
    <3> HIDE DEF Goal
    <3> QED
      BY <1>3, <1>4, <3>1, <3>3
  <2>6. CASE OpDetectProc(h, c)
    <3>1. Pending(c) /\ \E ok \in BOOLEAN : Reply(c, Answer(ok, 0))
      BY <2>6 DEF OpDetectProc, Accepts
    <3> HIDE DEF Goal
    <3> QED
      BY <1>3, <1>4, <3>1
  <2> HIDE DEF Goal
  <2> QED
    BY <1>5, <2>1, <2>2, <2>3, <2>4, <2>5, <2>6 DEF CidServes
<1>6. ASSUME NEW h \in Hosts, EnterPid(h) PROVE Goal
  <2>1. starting[h] # Nil /\ Reply(starting[h].by, Answer(TRUE, starting[h].pid))
    BY <1>6 DEF EnterPid
  <2>2. Pending("dac") /\ starting[h].by = "dac" /\ starting[h].pid \in Nat /\ "dac" \in Callers
    BY <2>1, Starting, ControllerAssumption
  <2> HIDE DEF Goal
  <2> QED
    BY <1>3, <1>4, <2>1, <2>2
<1>7. ASSUME NEW h \in Hosts, HostCrash(h) PROVE Goal
  BY <1>1, <1>7 DEF HostCrash
<1>8. ASSUME NEW c \in Callers, CallFails(c) PROVE Goal
  <2>1. Pending(c) /\ Reply(c, NoAnswer)
    BY <1>8 DEF CallFails
  <2> HIDE DEF Goal
  <2> QED
    BY <1>3, <2>1
<1>9. (\E h \in Hosts : Fork(h) \/ \E p \in Pids : sigchldHandler(h, p))
        \/ (\E p \in Pids, s \in Outcomes \cup {"KILLED"} : Ends(p, s)) => call' = call
  BY DEF Fork, sigchldHandler, Ends
<1> HIDE DEF Goal
<1> QED
  BY <1>2, <1>5, <1>6, <1>7, <1>8, <1>9 DEF CidStep, CidStarts, Death, HostLost, Fail, Program

\* What a CID answers is no call.
LEMMA AnswersEnd ==
  \A c \in Callers : call'[c] \in Answers \cup {NoAnswer} => ~(Pending(c))'
BY DEF Answers, NoAnswer, Pending

\* DAC's call is not touched while it does not step, but for the answer.
LEMMA DacCall ==
  ASSUME AppInv, CidStep \/ NewsStep \/ AsideStep
  PROVE  /\ dac' = dac /\ DOMAIN call' = Callers /\ (Asked)' = Asked
         /\ call'["dac"] = call["dac"] \/ (Pending("dac") /\ ~(Pending("dac"))' /\ call'["dac"] \in Answers \cup {NoAnswer})
         /\ (Pending("dac"))' => Pending("dac") /\ call'["dac"] = call["dac"]
<1>1. DOMAIN call = Callers /\ "dac" \in Callers
  BY ControllerAssumption DEF AppInv, AppTypeOK, CidTypeOK
<1>2. dac' = dac
  BY CidFrame, NewsFrame, AsideFrame DEF dacVars
<1>3. CASE CidStep
  <2>1. DOMAIN call' = Callers
          /\ (call'["dac"] = call["dac"] \/ (Pending("dac") /\ call'["dac"] \in Answers \cup {NoAnswer}))
    BY <1>1, <1>3, CidCalls
  <2>2. call'["dac"] \in Answers \cup {NoAnswer} => ~(Pending("dac"))'
    BY <1>1, AnswersEnd
  <2> QED
    BY <1>2, <2>1, <2>2 DEF Asked, Pending
<1>4. CASE NewsStep
  BY <1>1, <1>2, <1>4, NewsFrame DEF Asked, Pending
<1>5. CASE AsideStep
  <2>1. DOMAIN call' = Callers /\ call'["dac"] = call["dac"]
    BY <1>1, <1>5 DEF AsideStep, InitFails, Ping, Pinged, Tfddretrievetuple, StopFdd, kill_app, Reply, cidVars
  <2> QED
    BY <1>2, <2>1 DEF Asked, Pending
<1> QED
  BY <1>3, <1>4, <1>5

-----------------------------------------------------------------------------
(* The tables.                                                              *)

Tables == [Hosts -> [Slots -> Entry]]

\* The tables of the CIDs and what their entries are made of.
LEMMA TableTypes ==
  ASSUME AppInv
  PROVE  /\ table \in Tables /\ up \in [Hosts -> BOOLEAN] /\ DOMAIN starting = Hosts
         /\ \A h \in Hosts, i \in Slots : /\ table[h][i] \in Entry
              /\ table[h][i].used \in BOOLEAN /\ table[h][i].dead \in BOOLEAN /\ table[h][i].port \in BOOLEAN
              /\ table[h][i].pid \in Nat /\ table[h][i].name \in Names \cup {Nil}
         /\ \A n \in Names : n # Nil
<1>1. table \in Tables /\ up \in [Hosts -> BOOLEAN] /\ DOMAIN starting = Hosts
  BY DEF AppInv, AppTypeOK, CidTypeOK, StartingFits, Tables
<1>2. ASSUME NEW h \in Hosts, NEW i \in Slots PROVE table[h][i] \in Entry
  BY <1>1 DEF Tables
<1>3. \A n \in Names : n # Nil
  BY TableAssumption
<1> QED
  BY <1>1, <1>2, <1>3 DEF Entry

\* A table in which an entry is taken, gets its name, its port or its pid, is marked or
\* cleared of its mark.
Taken(t, h, i)       == [t EXCEPT ![h][i].used = TRUE]
Named(t, h, i, n)    == [t EXCEPT ![h][i].name = n]
Ported(t, h, i, n)   == [t EXCEPT ![h][i].port = n \in Procs]
Entered(t, h, i, p)  == [t EXCEPT ![h][i].pid = p]
Marked(t, h, i)      == [t EXCEPT ![h][i].dead = TRUE]
Unmarked(t, h, i)    == [t EXCEPT ![h][i].dead = FALSE]

\* What is changed is as told, and the rest of the tables is as before: for an entry taken, ...
LEMMA TakenFits ==
  \A t \in Tables, h \in Hosts, i \in Slots :
    /\ Taken(t, h, i) \in Tables
    /\ Taken(t, h, i)[h][i].used
    /\ Taken(t, h, i)[h][i].dead = t[h][i].dead
    /\ Taken(t, h, i)[h][i].pid = t[h][i].pid
    /\ Taken(t, h, i)[h][i].name = t[h][i].name
    /\ Taken(t, h, i)[h][i].port = t[h][i].port
    /\ \A g \in Hosts, j \in Slots : ~(g = h /\ j = i) => Taken(t, h, i)[g][j] = t[g][j]
<1> SUFFICES ASSUME NEW t \in Tables, NEW h \in Hosts, NEW i \in Slots
             PROVE  /\ Taken(t, h, i) \in Tables
                    /\ Taken(t, h, i)[h][i].used
                    /\ Taken(t, h, i)[h][i].dead = t[h][i].dead
                    /\ Taken(t, h, i)[h][i].pid = t[h][i].pid
                    /\ Taken(t, h, i)[h][i].name = t[h][i].name
                    /\ Taken(t, h, i)[h][i].port = t[h][i].port
                    /\ \A g \in Hosts, j \in Slots : ~(g = h /\ j = i) => Taken(t, h, i)[g][j] = t[g][j]
  OBVIOUS
<1> DEFINE e == [t[h][i] EXCEPT !.used = TRUE]
<1>1. t[h] \in [Slots -> Entry] /\ t[h][i] \in Entry
  BY DEF Tables
<1>2. e \in Entry /\ e.used /\ e.dead = t[h][i].dead /\ e.pid = t[h][i].pid /\ e.name = t[h][i].name /\ e.port = t[h][i].port
  BY <1>1 DEF Entry
<1>3. Taken(t, h, i) = [t EXCEPT ![h] = [t[h] EXCEPT ![i] = e]]
  BY DEF Taken
<1> HIDE DEF e
<1> QED
  BY <1>1, <1>2, <1>3 DEF Tables

\* ... named, ...
LEMMA NamedFits ==
  \A t \in Tables, h \in Hosts, i \in Slots, n \in Names :
    /\ Named(t, h, i, n) \in Tables
    /\ Named(t, h, i, n)[h][i].name = n
    /\ Named(t, h, i, n)[h][i].used = t[h][i].used
    /\ Named(t, h, i, n)[h][i].dead = t[h][i].dead
    /\ Named(t, h, i, n)[h][i].pid = t[h][i].pid
    /\ Named(t, h, i, n)[h][i].port = t[h][i].port
    /\ \A g \in Hosts, j \in Slots : ~(g = h /\ j = i) => Named(t, h, i, n)[g][j] = t[g][j]
<1> SUFFICES ASSUME NEW t \in Tables, NEW h \in Hosts, NEW i \in Slots, NEW n \in Names
             PROVE  /\ Named(t, h, i, n) \in Tables
                    /\ Named(t, h, i, n)[h][i].name = n
                    /\ Named(t, h, i, n)[h][i].used = t[h][i].used
                    /\ Named(t, h, i, n)[h][i].dead = t[h][i].dead
                    /\ Named(t, h, i, n)[h][i].pid = t[h][i].pid
                    /\ Named(t, h, i, n)[h][i].port = t[h][i].port
                    /\ \A g \in Hosts, j \in Slots : ~(g = h /\ j = i) => Named(t, h, i, n)[g][j] = t[g][j]
  OBVIOUS
<1> DEFINE e == [t[h][i] EXCEPT !.name = n]
<1>1. t[h] \in [Slots -> Entry] /\ t[h][i] \in Entry
  BY DEF Tables
<1>2. e \in Entry /\ e.name = n /\ e.used = t[h][i].used /\ e.dead = t[h][i].dead /\ e.pid = t[h][i].pid /\ e.port = t[h][i].port
  BY <1>1 DEF Entry
<1>3. Named(t, h, i, n) = [t EXCEPT ![h] = [t[h] EXCEPT ![i] = e]]
  BY DEF Named
<1> HIDE DEF e
<1> QED
  BY <1>1, <1>2, <1>3 DEF Tables

\* ... given its port, ...
LEMMA PortedFits ==
  \A t \in Tables, h \in Hosts, i \in Slots, n \in Names :
    /\ Ported(t, h, i, n) \in Tables
    /\ (Ported(t, h, i, n)[h][i].port <=> n \in Procs)
    /\ Ported(t, h, i, n)[h][i].used = t[h][i].used
    /\ Ported(t, h, i, n)[h][i].dead = t[h][i].dead
    /\ Ported(t, h, i, n)[h][i].pid = t[h][i].pid
    /\ Ported(t, h, i, n)[h][i].name = t[h][i].name
    /\ \A g \in Hosts, j \in Slots : ~(g = h /\ j = i) => Ported(t, h, i, n)[g][j] = t[g][j]
<1> SUFFICES ASSUME NEW t \in Tables, NEW h \in Hosts, NEW i \in Slots, NEW n \in Names
             PROVE  /\ Ported(t, h, i, n) \in Tables
                    /\ (Ported(t, h, i, n)[h][i].port <=> n \in Procs)
                    /\ Ported(t, h, i, n)[h][i].used = t[h][i].used
                    /\ Ported(t, h, i, n)[h][i].dead = t[h][i].dead
                    /\ Ported(t, h, i, n)[h][i].pid = t[h][i].pid
                    /\ Ported(t, h, i, n)[h][i].name = t[h][i].name
                    /\ \A g \in Hosts, j \in Slots : ~(g = h /\ j = i) => Ported(t, h, i, n)[g][j] = t[g][j]
  OBVIOUS
<1> DEFINE e == [t[h][i] EXCEPT !.port = (n \in Procs)]
<1>1. t[h] \in [Slots -> Entry] /\ t[h][i] \in Entry
  BY DEF Tables
<1>2. e \in Entry /\ (e.port <=> n \in Procs) /\ e.used = t[h][i].used
        /\ e.dead = t[h][i].dead /\ e.pid = t[h][i].pid /\ e.name = t[h][i].name
  <2>1. CASE n \in Procs
    <3>1. e = [t[h][i] EXCEPT !.port = TRUE]
      BY <2>1
    <3> HIDE DEF e
    <3> QED
      BY <1>1, <2>1, <3>1 DEF Entry
  <2>2. CASE n \notin Procs
    <3>0. (n \in Procs) = FALSE
      BY <2>2
    <3>1. e = [t[h][i] EXCEPT !.port = FALSE]
      BY <3>0
    <3> HIDE DEF e
    <3> QED
      BY <1>1, <2>2, <3>1 DEF Entry
  <2> QED
    BY <2>1, <2>2
<1>3. Ported(t, h, i, n) = [t EXCEPT ![h] = [t[h] EXCEPT ![i] = e]]
  BY DEF Ported
<1> HIDE DEF e
<1> QED
  BY <1>1, <1>2, <1>3 DEF Tables

\* ... given its pid, ...
LEMMA EnteredFits ==
  \A t \in Tables, h \in Hosts, i \in Slots, p \in Nat :
    /\ Entered(t, h, i, p) \in Tables
    /\ Entered(t, h, i, p)[h][i].pid = p
    /\ Entered(t, h, i, p)[h][i].used = t[h][i].used
    /\ Entered(t, h, i, p)[h][i].dead = t[h][i].dead
    /\ Entered(t, h, i, p)[h][i].name = t[h][i].name
    /\ Entered(t, h, i, p)[h][i].port = t[h][i].port
    /\ \A g \in Hosts, j \in Slots : ~(g = h /\ j = i) => Entered(t, h, i, p)[g][j] = t[g][j]
<1> SUFFICES ASSUME NEW t \in Tables, NEW h \in Hosts, NEW i \in Slots, NEW p \in Nat
             PROVE  /\ Entered(t, h, i, p) \in Tables
                    /\ Entered(t, h, i, p)[h][i].pid = p
                    /\ Entered(t, h, i, p)[h][i].used = t[h][i].used
                    /\ Entered(t, h, i, p)[h][i].dead = t[h][i].dead
                    /\ Entered(t, h, i, p)[h][i].name = t[h][i].name
                    /\ Entered(t, h, i, p)[h][i].port = t[h][i].port
                    /\ \A g \in Hosts, j \in Slots : ~(g = h /\ j = i) => Entered(t, h, i, p)[g][j] = t[g][j]
  OBVIOUS
<1> DEFINE e == [t[h][i] EXCEPT !.pid = p]
<1>1. t[h] \in [Slots -> Entry] /\ t[h][i] \in Entry
  BY DEF Tables
<1>2. e \in Entry /\ e.pid = p /\ e.used = t[h][i].used /\ e.dead = t[h][i].dead /\ e.name = t[h][i].name /\ e.port = t[h][i].port
  BY <1>1 DEF Entry
<1>3. Entered(t, h, i, p) = [t EXCEPT ![h] = [t[h] EXCEPT ![i] = e]]
  BY DEF Entered
<1> HIDE DEF e
<1> QED
  BY <1>1, <1>2, <1>3 DEF Tables

\* ... marked, ...
LEMMA MarkedFits ==
  \A t \in Tables, h \in Hosts, i \in Slots :
    /\ Marked(t, h, i) \in Tables
    /\ Marked(t, h, i)[h][i].dead
    /\ Marked(t, h, i)[h][i].used = t[h][i].used
    /\ Marked(t, h, i)[h][i].pid = t[h][i].pid
    /\ Marked(t, h, i)[h][i].name = t[h][i].name
    /\ Marked(t, h, i)[h][i].port = t[h][i].port
    /\ \A g \in Hosts, j \in Slots : ~(g = h /\ j = i) => Marked(t, h, i)[g][j] = t[g][j]
<1> SUFFICES ASSUME NEW t \in Tables, NEW h \in Hosts, NEW i \in Slots
             PROVE  /\ Marked(t, h, i) \in Tables
                    /\ Marked(t, h, i)[h][i].dead
                    /\ Marked(t, h, i)[h][i].used = t[h][i].used
                    /\ Marked(t, h, i)[h][i].pid = t[h][i].pid
                    /\ Marked(t, h, i)[h][i].name = t[h][i].name
                    /\ Marked(t, h, i)[h][i].port = t[h][i].port
                    /\ \A g \in Hosts, j \in Slots : ~(g = h /\ j = i) => Marked(t, h, i)[g][j] = t[g][j]
  OBVIOUS
<1> DEFINE e == [t[h][i] EXCEPT !.dead = TRUE]
<1>1. t[h] \in [Slots -> Entry] /\ t[h][i] \in Entry
  BY DEF Tables
<1>2. e \in Entry /\ e.dead /\ e.used = t[h][i].used /\ e.pid = t[h][i].pid /\ e.name = t[h][i].name /\ e.port = t[h][i].port
  BY <1>1 DEF Entry
<1>3. Marked(t, h, i) = [t EXCEPT ![h] = [t[h] EXCEPT ![i] = e]]
  BY DEF Marked
<1> HIDE DEF e
<1> QED
  BY <1>1, <1>2, <1>3 DEF Tables

\* ... and unmarked.
LEMMA UnmarkedFits ==
  \A t \in Tables, h \in Hosts, i \in Slots :
    /\ Unmarked(t, h, i) \in Tables
    /\ ~Unmarked(t, h, i)[h][i].dead
    /\ Unmarked(t, h, i)[h][i].used = t[h][i].used
    /\ Unmarked(t, h, i)[h][i].pid = t[h][i].pid
    /\ Unmarked(t, h, i)[h][i].name = t[h][i].name
    /\ Unmarked(t, h, i)[h][i].port = t[h][i].port
    /\ \A g \in Hosts, j \in Slots : ~(g = h /\ j = i) => Unmarked(t, h, i)[g][j] = t[g][j]
<1> SUFFICES ASSUME NEW t \in Tables, NEW h \in Hosts, NEW i \in Slots
             PROVE  /\ Unmarked(t, h, i) \in Tables
                    /\ ~Unmarked(t, h, i)[h][i].dead
                    /\ Unmarked(t, h, i)[h][i].used = t[h][i].used
                    /\ Unmarked(t, h, i)[h][i].pid = t[h][i].pid
                    /\ Unmarked(t, h, i)[h][i].name = t[h][i].name
                    /\ Unmarked(t, h, i)[h][i].port = t[h][i].port
                    /\ \A g \in Hosts, j \in Slots : ~(g = h /\ j = i) => Unmarked(t, h, i)[g][j] = t[g][j]
  OBVIOUS
<1> DEFINE e == [t[h][i] EXCEPT !.dead = FALSE]
<1>1. t[h] \in [Slots -> Entry] /\ t[h][i] \in Entry
  BY DEF Tables
<1>2. e \in Entry /\ ~e.dead /\ e.used = t[h][i].used /\ e.pid = t[h][i].pid /\ e.name = t[h][i].name /\ e.port = t[h][i].port
  BY <1>1 DEF Entry
<1>3. Unmarked(t, h, i) = [t EXCEPT ![h] = [t[h] EXCEPT ![i] = e]]
  BY DEF Unmarked
<1> HIDE DEF e
<1> QED
  BY <1>1, <1>2, <1>3 DEF Tables

\* FillSlot takes a free slot for the component DAC asks for, when no other EXEC is under way.
LEMMA Filled ==
  ASSUME AppInv, NEW h \in Hosts, NEW c \in Callers, FillSlot(h, c), NEW i, i = getSlot(h)
  PROVE  /\ i \in Slots /\ ~table[h][i].used /\ ~table[h][i].dead
         /\ Pending("dac") /\ dac.at \in {"handlerCid", "execCid"} /\ h = HostOf[Asked] /\ Asked \in Names
         /\ (\A g \in Hosts : starting[g] = Nil) /\ up[h] /\ call["dac"].op = "EXEC"
         /\ Asked \in Procs => dac.at = "execCid" /\ Asked = dac.on
         /\ table' \in Tables
         /\ table'[h][i].used /\ ~table'[h][i].dead /\ table'[h][i].pid = table[h][i].pid
         /\ table'[h][i].name = Asked /\ (table'[h][i].port <=> Asked \in Procs)
         /\ \A g \in Hosts, j \in Slots : ~(g = h /\ j = i) => table'[g][j] = table[g][j]
         /\ starting' = [starting EXCEPT ![h] = [by |-> "dac", slot |-> i, pid |-> 0]]
         /\ UNCHANGED <<up, child, call, listening, inbox>>
<1>1. Accepts(h, c, "EXEC") /\ Free(h) # {}
  BY DEF FillSlot
<1>2. Pending(c) /\ call[c].op = "EXEC" /\ call[c].host = h /\ starting[h] = Nil /\ up[h]
  BY <1>1 DEF Accepts
<1>3. c = "dac" /\ dac.at \in CidPlaces /\ call[c].name = Asked /\ h = HostOf[Asked]
        /\ call[c].op = IF dac.at = "verifyCid" THEN "VERIFY" ELSE IF dac.at = "killCid" THEN "KILL" ELSE "EXEC"
  BY <1>2, WhoCalls
<1>4. dac.at \in {"handlerCid", "execCid"} /\ Asked \in Names
        /\ (Asked \in Procs => dac.at = "execCid" /\ Asked = dac.on)
  BY <1>2, <1>3, AskedIsNamed DEF CidPlaces
<1>5. \A g \in Hosts : starting[g] = Nil
  BY <1>2, <1>3, Starting
<1>6. i \in Free(h)
  BY <1>1, LowestIn DEF getSlot, Free
<1>7. i \in Slots /\ ~table[h][i].used /\ ~table[h][i].dead /\ table[h][i].dead \in BOOLEAN
  BY <1>6, TableTypes DEF Free
<1> DEFINE T1 == Taken(table, h, i)
           T2 == Named(T1, h, i, Asked)
           T3 == Ported(T2, h, i, Asked)
<1>8. table' = T3
  BY <1>3 DEF FillSlot, Taken, Named, Ported
<1>9. /\ T1 \in Tables /\ T1[h][i].used
      /\ T1[h][i].dead = table[h][i].dead /\ T1[h][i].pid = table[h][i].pid
      /\ \A g \in Hosts, j \in Slots : ~(g = h /\ j = i) => T1[g][j] = table[g][j]
  BY <1>7, TableTypes, TakenFits
<1> HIDE DEF T1
<1>10. /\ T2 \in Tables /\ T2[h][i].used /\ T2[h][i].name = Asked
       /\ T2[h][i].dead = table[h][i].dead /\ T2[h][i].pid = table[h][i].pid
       /\ \A g \in Hosts, j \in Slots : ~(g = h /\ j = i) => T2[g][j] = table[g][j]
  BY <1>4, <1>7, <1>9, NamedFits
<1> HIDE DEF T2
<1>11. /\ T3 \in Tables /\ T3[h][i].used /\ T3[h][i].name = Asked /\ (T3[h][i].port <=> Asked \in Procs)
       /\ T3[h][i].dead = table[h][i].dead /\ T3[h][i].pid = table[h][i].pid
       /\ \A g \in Hosts, j \in Slots : ~(g = h /\ j = i) => T3[g][j] = table[g][j]
  BY <1>4, <1>7, <1>10, PortedFits
<1>12. starting' = [starting EXCEPT ![h] = [by |-> "dac", slot |-> i, pid |-> 0]]
         /\ UNCHANGED <<up, child, call, listening, inbox>>
  BY <1>3 DEF FillSlot
<1> QED
  BY <1>2, <1>3, <1>4, <1>5, <1>7, <1>8, <1>11, <1>12

\* An entry that is given back keeps its pid, its name and its port.
LEMMA EntryGivenBack ==
  \A e \in Entry : /\ ungetSlot(e) \in Entry /\ ~ungetSlot(e).used /\ ~ungetSlot(e).dead
                   /\ ungetSlot(e).pid = e.pid /\ ungetSlot(e).name = e.name /\ ungetSlot(e).port = e.port
<1> SUFFICES ASSUME NEW e \in Entry
             PROVE  /\ ungetSlot(e) \in Entry /\ ~ungetSlot(e).used /\ ~ungetSlot(e).dead
                    /\ ungetSlot(e).pid = e.pid /\ ungetSlot(e).name = e.name /\ ungetSlot(e).port = e.port
  OBVIOUS
<1> DEFINE f == [e EXCEPT !.used = FALSE]
           g == [f EXCEPT !.dead = FALSE]
<1>1. f \in Entry /\ ~f.used /\ f.pid = e.pid /\ f.name = e.name /\ f.port = e.port
  BY DEF Entry
<1>2. g \in Entry /\ ~g.used /\ ~g.dead /\ g.pid = e.pid /\ g.name = e.name /\ g.port = e.port
  <2> HIDE DEF f
  <2> QED
    BY <1>1 DEF Entry
<1>3. ungetSlot(e) = g
  BY DEF ungetSlot
<1> HIDE DEF f, g
<1> QED
  BY <1>2, <1>3

\* EnterPid enters the pid of the program forked, and answers DAC.
LEMMA EntersPid ==
  ASSUME AppInv, NEW h \in Hosts, EnterPid(h)
  PROVE  /\ starting[h] # Nil /\ Pending("dac") /\ h = HostOf[Asked] /\ table' \in Tables
         /\ \E i \in Slots, p \in PidsOf(Asked) :
              /\ i = starting[h].slot /\ p = starting[h].pid /\ p \in Nat \ {0}
              /\ table'[h][i].pid = p
              /\ table'[h][i].used = table[h][i].used /\ table'[h][i].dead = table[h][i].dead
              /\ table'[h][i].name = table[h][i].name /\ table'[h][i].port = table[h][i].port
              /\ \A g \in Hosts, j \in Slots : ~(g = h /\ j = i) => table'[g][j] = table[g][j]
              /\ call' = [call EXCEPT !["dac"] = Answer(TRUE, p)]
         /\ starting' = [starting EXCEPT ![h] = Nil]
         /\ UNCHANGED <<up, child, listening, inbox>>
<1>a. starting[h] # Nil /\ starting[h].pid \in Nat
  BY Starting DEF EnterPid
<1>b. PICK i : i = starting[h].slot
  OBVIOUS
<1>c. PICK p \in Nat : p = starting[h].pid
  BY <1>a
<1>1. starting[h] # Nil /\ p # 0
  BY <1>c DEF EnterPid
<1>2. i \in Slots /\ p \in PidsOf(Asked) /\ p \in Nat \ {0} /\ Pending("dac") /\ h = HostOf[Asked]
        /\ starting[h].by = "dac"
  BY <1>1, <1>b, <1>c, Starting
<1>3. table' = Entered(table, h, i, p)
  BY <1>b, <1>c DEF EnterPid, Entered
<1>4. table \in Tables /\ i \in Slots /\ p \in Nat
  BY <1>2, TableTypes
<1>5. /\ table' \in Tables /\ table'[h][i].pid = p
      /\ table'[h][i].used = table[h][i].used /\ table'[h][i].dead = table[h][i].dead
      /\ table'[h][i].name = table[h][i].name /\ table'[h][i].port = table[h][i].port
      /\ \A g \in Hosts, j \in Slots : ~(g = h /\ j = i) => table'[g][j] = table[g][j]
  <2> DEFINE T == Entered(table, h, i, p)
  <2>1. /\ T \in Tables /\ T[h][i].pid = p
        /\ T[h][i].used = table[h][i].used /\ T[h][i].dead = table[h][i].dead
        /\ T[h][i].name = table[h][i].name /\ T[h][i].port = table[h][i].port
        /\ \A g \in Hosts, j \in Slots : ~(g = h /\ j = i) => T[g][j] = table[g][j]
    <3>1. T \in Tables
      BY <1>4, EnteredFits
    <3>2. T[h][i].pid = p
      BY <1>4, EnteredFits
    <3>3. T[h][i].used = table[h][i].used
      BY <1>4, EnteredFits
    <3>4. T[h][i].dead = table[h][i].dead
      BY <1>4, EnteredFits
    <3>5. T[h][i].name = table[h][i].name /\ T[h][i].port = table[h][i].port
      BY <1>4, EnteredFits
    <3>6. \A g \in Hosts, j \in Slots : ~(g = h /\ j = i) => T[g][j] = table[g][j]
      BY <1>4, EnteredFits
    <3> QED
      BY <3>1, <3>2, <3>3, <3>4, <3>5, <3>6
  <2> HIDE DEF T
  <2>2. table' = T
    BY <1>3 DEF T
  <2> QED
    BY <2>1, <2>2
<1>6. /\ call' = [call EXCEPT !["dac"] = Answer(TRUE, p)]
      /\ starting' = [starting EXCEPT ![h] = Nil]
      /\ UNCHANGED <<up, child, listening, inbox>>
  BY <1>2, <1>c DEF EnterPid, Reply
<1> QED
  BY <1>1, <1>2, <1>5, <1>6, <1>b, <1>c

\* The SIGCHLD handler marks at most an entry with the pid of the dead, and reports.
LEMMA Dies ==
  ASSUME AppInv, NEW h \in Hosts, NEW p \in Pids, sigchldHandler(h, p)
  PROVE  /\ up[h] /\ child[p].host = h /\ child[p].at = "zombie" /\ child[p].status \in Statuses \cup {Nil}
         /\ Pids' = Pids /\ child'[p].at = "gone" /\ \A q \in Pids : q # p => child'[q] = child[q]
         /\ table' \in Tables
         /\ \A g \in Hosts, j \in Slots :
              /\ table'[g][j].used = table[g][j].used /\ table'[g][j].pid = table[g][j].pid
              /\ table'[g][j].name = table[g][j].name /\ table'[g][j].port = table[g][j].port
              /\ table'[g][j].dead => table[g][j].dead \/ (g = h /\ table[g][j].pid = p)
         /\ \/ inbox' = inbox /\ \A i \in Slots : ~(table[h][i].used /\ table[h][i].pid = p)
            \/ \E i \in Slots : /\ table[h][i].used /\ table[h][i].pid = p
                                /\ inbox' = IF table[h][i].port /\ listening
                                              THEN Append(inbox, Report(table[h][i].name, child[p].status)) ELSE inbox
         /\ UNCHANGED <<up, starting, call, listening>>
<1>1. /\ up[h] /\ child[p].host = h /\ child[p].at = "zombie" /\ child' = [child EXCEPT ![p].at = "gone"]
      /\ UNCHANGED <<up, starting, call, listening>>
  BY DEF sigchldHandler
<1>2. child \in Seq(Child) /\ DOMAIN child = Pids /\ child[p] \in Child /\ child[p].status \in Statuses \cup {Nil}
  BY ChildTypes DEF AppInv
<1>3. [child[p] EXCEPT !.at = "gone"].at = "gone"
  BY <1>2 DEF Child
<1>4. child'[p].at = "gone" /\ \A q \in Pids : q # p => child'[q] = child[q]
  BY <1>1, <1>2, <1>3
<1>5. Pids' = Pids
  <2>1. Len(child') = Len(child)
    BY <1>1, <1>2, ExceptSeq
  <2> QED
    BY <2>1 DEF Pids
<1>6. table \in Tables
  BY TableTypes
<1> DEFINE mine == {i \in Used(h) : table[h][i].pid = p}
<1>7. CASE mine = {}
  <2>1. UNCHANGED <<table, inbox>>
    BY <1>7 DEF sigchldHandler
  <2>2. \A i \in Slots : ~(table[h][i].used /\ table[h][i].pid = p)
    BY <1>7 DEF Used
  <2> QED
    BY <1>1, <1>2, <1>4, <1>5, <1>6, <2>1, <2>2
<1>8. CASE mine # {}
  <2>1. PICK i \in mine : i = Lowest(mine)
    <3>1. mine \in SUBSET Slots
      BY DEF Used
    <3> HIDE DEF mine
    <3> QED
      BY <1>8, <3>1, LowestIn
  <2>2. i \in Slots /\ table[h][i].used /\ table[h][i].pid = p
    BY <2>1 DEF Used
  <2>3. /\ table' = IF child[p].status # "EXITTED" /\ Watched THEN Marked(table, h, i) ELSE table
        /\ inbox' = IF table[h][i].port /\ listening
                      THEN Append(inbox, Report(table[h][i].name, child[p].status)) ELSE inbox
    BY <1>8, <2>1 DEF sigchldHandler, Marked
  <2>4. /\ table' \in Tables
        /\ \A g \in Hosts, j \in Slots :
             /\ table'[g][j].used = table[g][j].used /\ table'[g][j].pid = table[g][j].pid
             /\ table'[g][j].name = table[g][j].name /\ table'[g][j].port = table[g][j].port
             /\ table'[g][j].dead => table[g][j].dead \/ (g = h /\ table[g][j].pid = p)
    <3>1. CASE table' = table
      BY <1>6, <3>1
    <3>2. CASE table' = Marked(table, h, i)
      <4>1. /\ table' \in Tables /\ \A g \in Hosts, j \in Slots : ~(g = h /\ j = i) => table'[g][j] = table[g][j]
            /\ table'[h][i].used = table[h][i].used /\ table'[h][i].pid = table[h][i].pid
            /\ table'[h][i].name = table[h][i].name /\ table'[h][i].port = table[h][i].port
        <5>1. /\ Marked(table, h, i) \in Tables
              /\ \A g \in Hosts, j \in Slots : ~(g = h /\ j = i) => Marked(table, h, i)[g][j] = table[g][j]
              /\ Marked(table, h, i)[h][i].used = table[h][i].used /\ Marked(table, h, i)[h][i].pid = table[h][i].pid
              /\ Marked(table, h, i)[h][i].name = table[h][i].name /\ Marked(table, h, i)[h][i].port = table[h][i].port
          BY <1>6, <2>2, MarkedFits
        <5> QED
          BY <3>2, <5>1
      <4> QED
        BY <2>2, <4>1
    <3> QED
      BY <2>3, <3>1, <3>2
  <2> QED
    BY <1>1, <1>2, <1>4, <1>5, <2>2, <2>3, <2>4
<1> QED
  BY <1>7, <1>8

\* A kill frees the entry of the process DAC kills, whose program gets its signal.
LEMMA Kills ==
  ASSUME AppInv, NEW h \in Hosts, NEW c \in Callers, OpKill(h, c)
  PROVE  /\ Pending("dac") /\ dac.at = "killCid" /\ dac.on \in Procs /\ h = HostOf[dac.on]
         /\ up[h] /\ \A g \in Hosts : starting[g] = Nil
         /\ table' \in Tables
         /\ \A g \in Hosts, j \in Slots :
              /\ table'[g][j].pid = table[g][j].pid /\ table'[g][j].name = table[g][j].name
              /\ table'[g][j].port = table[g][j].port
              /\ (table'[g][j].used => table[g][j].used) /\ (table'[g][j].dead => table[g][j].dead)
         /\ \/ table' = table /\ child' = child /\ SlotsOf(h, dac.on) = {}
            \/ \E i \in SlotsOf(h, dac.on) :
                 /\ child' = Signalled({table[h][i].pid})
                 /\ \A g \in Hosts, j \in Slots : ~(g = h /\ j = i) => table'[g][j] = table[g][j]
         /\ \E ok \in BOOLEAN : call' = [call EXCEPT !["dac"] = Answer(ok, 0)]
         /\ UNCHANGED <<up, starting, listening, inbox>>
<1>1. Pending(c) /\ call[c].op = "KILL" /\ call[c].host = h /\ starting[h] = Nil /\ up[h]
  BY DEF OpKill, Accepts
<1>2. /\ c = "dac" /\ dac.at \in CidPlaces /\ call[c].name = Asked /\ h = HostOf[Asked]
      /\ call[c].op = IF dac.at = "verifyCid" THEN "VERIFY" ELSE IF dac.at = "killCid" THEN "KILL" ELSE "EXEC"
  BY <1>1, WhoCalls
<1>3. dac.at = "killCid" /\ dac.on \in Procs /\ Asked = dac.on
  BY <1>1, <1>2, AskedIsNamed DEF CidPlaces
<1>4. \A g \in Hosts : starting[g] = Nil
  BY <1>3, Starting
<1>5. \E ok \in BOOLEAN : call' = [call EXCEPT !["dac"] = Answer(ok, 0)]
  BY <1>2 DEF OpKill, Reply
<1>6. UNCHANGED <<up, starting, listening, inbox>>
  BY DEF OpKill
<1>7. table \in Tables
  BY TableTypes
<1> DEFINE Goal ==
         /\ table' \in Tables
         /\ \A g \in Hosts, j \in Slots :
              /\ table'[g][j].pid = table[g][j].pid /\ table'[g][j].name = table[g][j].name
              /\ table'[g][j].port = table[g][j].port
              /\ (table'[g][j].used => table[g][j].used) /\ (table'[g][j].dead => table[g][j].dead)
         /\ \/ table' = table /\ child' = child /\ SlotsOf(h, dac.on) = {}
            \/ \E i \in SlotsOf(h, dac.on) :
                 /\ child' = Signalled({table[h][i].pid})
                 /\ \A g \in Hosts, j \in Slots : ~(g = h /\ j = i) => table'[g][j] = table[g][j]
<1>8. CASE SlotsOf(h, dac.on) = {}
  <2>1. table' = table /\ child' = child
    BY <1>2, <1>3, <1>8 DEF OpKill
  <2>2. Goal
    BY <1>7, <1>8, <2>1
  <2> HIDE DEF Goal
  <2> QED
    BY <1>1, <1>2, <1>3, <1>4, <1>5, <1>6, <2>2 DEF Goal
<1>9. CASE SlotsOf(h, dac.on) # {}
  <2>1. PICK i \in SlotsOf(h, dac.on) : i = Lowest(SlotsOf(h, dac.on))
    <3>1. SlotsOf(h, dac.on) \in SUBSET Slots
      BY DEF SlotsOf, Used
    <3> QED
      BY <1>9, <3>1, LowestIn
  <2>2. i \in Slots /\ table[h][i].used
    BY <2>1 DEF SlotsOf, Used
  <2>3. child' = Signalled({table[h][i].pid}) /\ table' = [table EXCEPT ![h][i] = ungetSlot(@)]
    BY <1>2, <1>3, <1>9, <2>1 DEF OpKill
  <2> DEFINE e == ungetSlot(table[h][i])
  <2>4. table[h] \in [Slots -> Entry] /\ table[h][i] \in Entry
    BY <1>7, <2>2 DEF Tables
  <2>5. e \in Entry /\ ~e.used /\ ~e.dead
          /\ e.pid = table[h][i].pid /\ e.name = table[h][i].name /\ e.port = table[h][i].port
    BY <2>4, EntryGivenBack
  <2>6. table' = [table EXCEPT ![h] = [table[h] EXCEPT ![i] = e]]
    BY <2>3
  <2>7. table' \in Tables /\ table'[h][i] = e
          /\ \A g \in Hosts, j \in Slots : ~(g = h /\ j = i) => table'[g][j] = table[g][j]
    <3> HIDE DEF e
    <3> QED
      BY <1>7, <2>2, <2>4, <2>5, <2>6 DEF Tables
  <2>8. Goal
    <3> HIDE DEF e
    <3> QED
      BY <2>1, <2>2, <2>3, <2>5, <2>7
  <2> HIDE DEF Goal
  <2> QED
    BY <1>1, <1>2, <1>3, <1>4, <1>5, <1>6, <2>8 DEF Goal
<1> QED
  BY <1>8, <1>9

\* The operator's kill frees all entries of its host, whose programs get their signals.
LEMMA KillsApp ==
  ASSUME AppInv, NEW h \in Hosts, NEW c \in Callers, OpKillApp(h, c)
  PROVE  /\ c = "user" /\ Event("KILL_APP", h) \in done /\ up[h] /\ starting[h] = Nil
         /\ table' \in Tables /\ \A j \in Slots : ~table'[h][j].used
         /\ \A g \in Hosts, j \in Slots :
              /\ table'[g][j].pid = table[g][j].pid /\ table'[g][j].name = table[g][j].name
              /\ table'[g][j].port = table[g][j].port /\ (table'[g][j].dead => table[g][j].dead)
              /\ table'[g][j].used => table[g][j].used
         /\ \A g \in Hosts : g # h => table'[g] = table[g]
         /\ \A j \in Slots : ~table[h][j].used => table'[h][j] = table[h][j]
         /\ child' = Signalled({table[h][i].pid : i \in Used(h)})
         /\ UNCHANGED <<up, starting, listening, inbox>> 
         /\ \A x \in Callers : x # "user" => call'[x] = call[x]
<1>1. Pending(c) /\ call[c].op = "KILL_APP" /\ call[c].host = h /\ starting[h] = Nil /\ up[h]
  BY DEF OpKillApp, Accepts
<1>2. c = "user" /\ Event("KILL_APP", h) \in done
  BY <1>1, WhoCalls
<1>3. /\ child' = Signalled({table[h][i].pid : i \in Used(h)}) /\ UNCHANGED <<up, starting, listening, inbox>>
      /\ Reply(c, Answer(Used(h) # {}, Cardinality(Used(h))))
  BY DEF OpKillApp
<1>4. table \in [Hosts -> [Slots -> Entry]]
  BY TableTypes DEF Tables
<1> DEFINE Row == [i \in Slots |-> IF i \in Used(h) THEN ungetSlot(table[h][i]) ELSE table[h][i]]
<1>5. table' = [table EXCEPT ![h] = Row]
  BY <1>4 DEF OpKillApp
<1>6. \A j \in Slots : Row[j] \in Entry /\ ~Row[j].used /\ Row[j].pid = table[h][j].pid
        /\ Row[j].name = table[h][j].name /\ Row[j].port = table[h][j].port /\ (Row[j].dead => table[h][j].dead)
        /\ (~table[h][j].used => Row[j] = table[h][j])
  <2> SUFFICES ASSUME NEW j \in Slots
               PROVE  Row[j] \in Entry /\ ~Row[j].used /\ Row[j].pid = table[h][j].pid
                        /\ Row[j].name = table[h][j].name /\ Row[j].port = table[h][j].port
                        /\ (Row[j].dead => table[h][j].dead) /\ (~table[h][j].used => Row[j] = table[h][j])
    OBVIOUS
  <2>1. table[h][j] \in Entry
    BY <1>4
  <2>2. CASE table[h][j].used
    <3>1. Row[j] = ungetSlot(table[h][j])
      BY <2>2 DEF Used
    <3> HIDE DEF Row
    <3> QED
      BY <2>1, <2>2, <3>1, EntryGivenBack
  <2>3. CASE ~table[h][j].used
    <3>1. Row[j] = table[h][j]
      BY <2>3 DEF Used
    <3> HIDE DEF Row
    <3> QED
      BY <2>1, <2>3, <3>1
  <2> QED
    BY <2>2, <2>3
<1>7. Row \in [Slots -> Entry]
  <2>1. Row = [j \in Slots |-> Row[j]]
    OBVIOUS
  <2> HIDE DEF Row
  <2> QED
    BY <1>6, <2>1
<1> HIDE DEF Row
<1>8. table' \in [Hosts -> [Slots -> Entry]] /\ table'[h] = Row /\ \A g \in Hosts : g # h => table'[g] = table[g]
  BY <1>4, <1>5, <1>7
<1>9. \A x \in Callers : x # "user" => call'[x] = call[x]
  <2>1. "user" \in Callers /\ DOMAIN call = Callers
    BY ApplicationAssumption DEF AppInv, AppTypeOK, CidTypeOK
  <2> QED
    BY <1>2, <1>3, <2>1 DEF Reply
<1>10. \A g \in Hosts, j \in Slots :
         /\ table'[g][j].pid = table[g][j].pid /\ table'[g][j].name = table[g][j].name
         /\ table'[g][j].port = table[g][j].port /\ (table'[g][j].dead => table[g][j].dead)
         /\ table'[g][j].used => table[g][j].used
  BY <1>6, <1>8
<1> QED
  BY <1>1, <1>2, <1>3, <1>6, <1>8, <1>9, <1>10 DEF Tables

\* FDD's question clears at most a mark; when it is answered with no, the process is marked.
LEMMA Detects ==
  ASSUME AppInv, NEW h \in Hosts, NEW c \in Callers, OpDetectProc(h, c)
  PROVE  /\ c = "fdd" /\ fdd.at = "answer" /\ h = Watch.host /\ up[h] /\ starting[h] = Nil
         /\ table' \in Tables
         /\ \A g \in Hosts, j \in Slots :
              /\ table'[g][j].used = table[g][j].used /\ table'[g][j].pid = table[g][j].pid
              /\ table'[g][j].name = table[g][j].name /\ table'[g][j].port = table[g][j].port
              /\ table'[g][j].dead => table[g][j].dead
         /\ \/ call' = [call EXCEPT !["fdd"] = Answer(TRUE, 0)]
            \/ /\ call' = [call EXCEPT !["fdd"] = Answer(FALSE, 0)]
               /\ \E i \in Slots : table[h][i].dead /\ table[h][i].pid = Watch.pid
         /\ UNCHANGED <<up, starting, child, listening, inbox>>
<1>1. Pending(c) /\ call[c].op = "DETECT_PROC" /\ call[c].host = h /\ starting[h] = Nil /\ up[h]
  BY DEF OpDetectProc, Accepts
<1>2. c = "fdd" /\ fdd.at = "answer" /\ call[c] = Detect(Watch.host, Watch.pid)
  BY <1>1, WhoCalls
<1>3. h = Watch.host /\ call[c].pid = Watch.pid
  BY <1>1, <1>2 DEF Detect
<1>4. table \in Tables
  BY TableTypes
<1>5. UNCHANGED <<up, starting, child, listening, inbox>>
  BY DEF OpDetectProc
<1> DEFINE mine == {i \in Slots : table[h][i].pid = call[c].pid /\ table[h][i].name # Nil}
<1>6. CASE mine # {} /\ table[h][Lowest(mine)].dead
  <2>1. PICK i \in mine : i = Lowest(mine)
    <3>1. mine \in SUBSET Slots
      OBVIOUS
    <3> HIDE DEF mine
    <3> QED
      BY <1>6, <3>1, LowestIn
  <2>2. i \in Slots /\ table[h][i].dead /\ table[h][i].pid = Watch.pid
    BY <1>3, <1>6, <2>1
  <2>3. table' = Unmarked(table, h, i) /\ call' = [call EXCEPT !["fdd"] = Answer(FALSE, 0)]
    BY <1>2, <1>6, <2>1 DEF OpDetectProc, Unmarked, Reply
  <2>4. /\ table' \in Tables /\ \A g \in Hosts, j \in Slots : ~(g = h /\ j = i) => table'[g][j] = table[g][j]
        /\ table'[h][i].used = table[h][i].used /\ table'[h][i].pid = table[h][i].pid
        /\ table'[h][i].name = table[h][i].name /\ table'[h][i].port = table[h][i].port /\ ~table'[h][i].dead
    BY <1>4, <2>2, <2>3, UnmarkedFits
  <2>5. \A g \in Hosts, j \in Slots :
          /\ table'[g][j].used = table[g][j].used /\ table'[g][j].pid = table[g][j].pid
          /\ table'[g][j].name = table[g][j].name /\ table'[g][j].port = table[g][j].port
          /\ table'[g][j].dead => table[g][j].dead
    BY <2>4
  <2> QED
    BY <1>1, <1>2, <1>3, <1>5, <2>2, <2>3, <2>4, <2>5
<1>7. CASE ~(mine # {} /\ table[h][Lowest(mine)].dead)
  <2>1. table' = table /\ call' = [call EXCEPT !["fdd"] = Answer(TRUE, 0)]
    BY <1>2, <1>7 DEF OpDetectProc, Reply
  <2> QED
    BY <1>1, <1>2, <1>3, <1>4, <1>5, <2>1
<1> QED
  BY <1>6, <1>7

\* A CID that answers DAC at once is not busy, and touches nothing else.
LEMMA AnswersDac ==
  ASSUME AppInv, NEW h \in Hosts, NEW c \in Callers, OpVerify(h, c) \/ OpExecRefused(h, c)
  PROVE  /\ Pending("dac") /\ h = HostOf[Asked] /\ up[h] /\ \A g \in Hosts : starting[g] = Nil
         /\ UNCHANGED <<up, table, starting, child, listening, inbox>>
         /\ dac.at \in {"verifyCid", "handlerCid", "execCid"}
         /\ \E ok \in BOOLEAN : /\ call' = [call EXCEPT !["dac"] = Answer(ok, 0)]
                                /\ dac.at # "verifyCid" => ~ok
<1>1. Pending(c) /\ call[c].op \in {"VERIFY", "EXEC"} /\ call[c].host = h /\ starting[h] = Nil /\ up[h]
        /\ (OpExecRefused(h, c) => call[c].op = "EXEC") /\ (OpVerify(h, c) => call[c].op = "VERIFY")
  BY DEF OpVerify, OpExecRefused, Accepts
<1>2. /\ c = "dac" /\ dac.at \in CidPlaces /\ h = HostOf[Asked]
      /\ call[c].op = IF dac.at = "verifyCid" THEN "VERIFY" ELSE IF dac.at = "killCid" THEN "KILL" ELSE "EXEC"
  BY <1>1, WhoCalls
<1>3. dac.at \in {"verifyCid", "handlerCid", "execCid"} /\ (OpVerify(h, c) => dac.at = "verifyCid")
  BY <1>1, <1>2 DEF CidPlaces
<1>4. \A g \in Hosts : starting[g] = Nil
  BY <1>1, <1>2, Starting
<1>5. UNCHANGED <<up, table, starting, child, listening, inbox>>
  BY DEF OpVerify, OpExecRefused
<1>6. \E ok \in BOOLEAN : call' = [call EXCEPT !["dac"] = Answer(ok, 0)] /\ (dac.at # "verifyCid" => ~ok)
  BY <1>2, <1>3 DEF OpVerify, OpExecRefused, Reply
<1> QED
  BY <1>1, <1>2, <1>3, <1>4, <1>5, <1>6

-----------------------------------------------------------------------------
(* EXECs under way.                                                         *)

\* One that is left alone still fits.
LEMMA StartStays ==
  ASSUME AppInv, AppStep, NEW h \in Hosts, (Asked)' = Asked,
         starting[h] # Nil => /\ up'[h] /\ call'["dac"] = call["dac"]
                              /\ table'[h][starting[h].slot].used
                              /\ table'[h][starting[h].slot].name = table[h][starting[h].slot].name
                              /\ table'[h][starting[h].slot].pid = table[h][starting[h].slot].pid,
         starting'[h] = starting[h]
  PROVE  (StartFits(h))'
<1> SUFFICES ASSUME starting[h] # Nil PROVE (StartFits(h))'
  BY DEF StartFits
<1>1. StartFits(h) /\ Asked \in Names
  <2>1. Pending("dac") /\ dac.at \in CidPlaces
    BY Starting DEF CidPlaces
  <2> QED
    BY <2>1, AskedIsNamed DEF AppInv, StartingFits
<1>2. PidsOf(Asked) \subseteq (PidsOf(Asked))'
  <2>1. PICK n \in Names : n = Asked
    BY <1>1
  <2>2. PidsOf(n) \subseteq (PidsOf(n))'
    BY PidsGoOn
  <2>3. (PidsOf(n))' = (PidsOf(Asked))'
    BY <2>1 DEF PidsOf
  <2> QED
    BY <2>1, <2>2, <2>3
<1>3. (Pending("dac"))'
  BY <1>1 DEF StartFits, Pending
<1> QED
  BY <1>1, <1>2, <1>3 DEF StartFits

\* The EXECs under way fit DAC's call and the tables.
LEMMA StartingKept ==
  ASSUME AppInv, AppStep
  PROVE  StartingFits'
<1>1. table \in Tables /\ up \in [Hosts -> BOOLEAN] /\ DOMAIN starting = Hosts /\ DOMAIN call = Callers
        /\ "dac" \in Callers
  BY TableTypes, ControllerAssumption DEF AppInv, AppTypeOK, CidTypeOK
<1>2. ASSUME starting' = starting, \A h \in Hosts : (StartFits(h))' PROVE StartingFits'
  BY <1>1, <1>2 DEF StartingFits
<1>3. ASSUME starting' = starting, \A h \in Hosts : starting[h] = Nil PROVE StartingFits'
  <2>1. \A h \in Hosts : (StartFits(h))'
    BY <1>3 DEF StartFits
  <2> QED
    BY <1>2, <1>3, <2>1
<1>4. ASSUME DOMAIN starting' = Hosts, \A h \in Hosts : (StartFits(h))' PROVE StartingFits'
  BY <1>4 DEF StartingFits
<1>5. ASSUME NEW h \in Hosts, NEW c \in Callers, CidServes(h, c) PROVE StartingFits'
  <2>1. CASE OpVerify(h, c) \/ OpExecRefused(h, c)
    BY <1>3, <2>1, AnswersDac
  <2>2. CASE OpKill(h, c)
    BY <1>3, <2>2, Kills
  <2>3. CASE FillSlot(h, c)
    <3> DEFINE i == getSlot(h)
    <3>1. /\ i \in Slots /\ ~table[h][i].used
          /\ Pending("dac") /\ dac.at \in {"handlerCid", "execCid"} /\ h = HostOf[Asked] /\ Asked \in Names
          /\ (\A g \in Hosts : starting[g] = Nil) /\ up[h] /\ call["dac"].op = "EXEC"
          /\ Asked \in Procs => dac.at = "execCid" /\ Asked = dac.on
          /\ table'[h][i].used /\ table'[h][i].pid = table[h][i].pid /\ table'[h][i].name = Asked
          /\ starting' = [starting EXCEPT ![h] = [by |-> "dac", slot |-> i, pid |-> 0]]
          /\ UNCHANGED <<up, child, call>>
      <4> HIDE DEF i
      <4>1. i = getSlot(h)
        BY DEF i
      <4> QED
        BY <2>3, <4>1, Filled
    <3> HIDE DEF i
    <3>2. UNCHANGED <<dac, state>> /\ (Asked)' = Asked
      <4>1. CidStep
        BY <1>5 DEF CidStep
      <4> QED
        BY <4>1, CidFrame DEF dacVars, Asked
    <3>3. call["dac"].host = h
      BY <3>1, <1>1, WhoCalls
    <3>4. Asked \in Procs => table[h][i].pid = 0
      <4> SUFFICES ASSUME Asked \in Procs PROVE table[h][i].pid = 0
        OBVIOUS
      <4>1. dac.at = "execCid" /\ Asked = dac.on
        BY <3>1
      <4>2. Asking(dac.on) /\ starting[HostOf[dac.on]] = Nil /\ ~Ending
        BY <3>1, <4>1 DEF Asking, Ending
      <4>3. ~Stale(h)
        BY <3>1, <4>1, <4>2 DEF AppInv, SlotsAreFresh
      <4> QED
        BY <3>1, <4>3 DEF Stale
    <3>5. (StartFits(h))'
      <4>1. starting'[h] = [by |-> "dac", slot |-> i, pid |-> 0]
        BY <1>1, <3>1
      <4>2. starting'[h] \in [by : {"dac"}, slot : Slots, pid : Nat]
              /\ starting'[h].slot = i /\ starting'[h].pid = 0
        BY <3>1, <4>1
      <4>3. (Pending("dac"))'
        BY <3>1 DEF Pending
      <4> QED
        BY <3>1, <3>2, <3>3, <3>4, <4>2, <4>3 DEF StartFits
    <3>6. \A g \in Hosts : g # h => (StartFits(g))'
      BY <1>1, <3>1 DEF StartFits
    <3>7. DOMAIN starting' = Hosts
      BY <1>1, <3>1
    <3> QED
      BY <3>5, <3>6, <3>7 DEF StartingFits
  <2>4. CidStep
    BY <1>5 DEF CidStep
  <2>5. (Asked)' = Asked
    BY <2>4, DacCall
  <2>6. CASE OpKillApp(h, c)
    <3>1. /\ starting' = starting /\ up' = up /\ starting[h] = Nil
          /\ \A g \in Hosts : g # h => table'[g] = table[g]
      BY <2>6, KillsApp
    <3>2. call'["dac"] = call["dac"]
      BY <1>1, <2>6, KillsApp
    <3>3. ASSUME NEW g \in Hosts PROVE (StartFits(g))'
      BY <2>5, <3>1, <3>2, Starting, StartStays
    <3> QED
      BY <1>2, <3>1, <3>3
  <2>7. CASE OpDetectProc(h, c)
    <3>1. /\ starting' = starting /\ up' = up
          /\ \A g \in Hosts, j \in Slots : /\ table'[g][j].used = table[g][j].used
                                           /\ table'[g][j].pid = table[g][j].pid
                                           /\ table'[g][j].name = table[g][j].name
      BY <2>7, Detects
    <3>2. call'["dac"] = call["dac"]
      BY <1>1, <2>7, Detects
    <3>3. ASSUME NEW g \in Hosts PROVE (StartFits(g))'
      BY <2>5, <3>1, <3>2, Starting, StartStays
    <3> QED
      BY <1>2, <3>1, <3>3
  <2> QED
    BY <1>5, <2>1, <2>2, <2>3, <2>6, <2>7 DEF CidServes
<1>6. ASSUME NEW h \in Hosts, Fork(h), CidStep PROVE StartingFits'
  <2>1. starting[h] # Nil /\ UNCHANGED <<up, table, call>>
    BY <1>6 DEF Fork
  <2>2. /\ starting' = [starting EXCEPT ![h].pid = Len(child) + 1] /\ starting[h].pid = 0
        /\ Pids' = Pids \cup {Len(child) + 1} /\ Asked \in Names /\ Len(child) + 1 \in Nat
        /\ child'[Len(child) + 1] = [name |-> Asked, host |-> h, at |-> "new", status |-> Nil]
    BY <1>6, Forks, ChildTypes DEF AppInv
  <2>3. \A g \in Hosts : starting[g] # Nil => g = h
    BY <2>1, Starting
  <2>4. (Asked)' = Asked
    BY <1>6, DacCall
  <2>5. starting'[h] = [starting[h] EXCEPT !.pid = Len(child) + 1] /\ starting[h] \in [by : {"dac"}, slot : Slots, pid : Nat]
    BY <1>1, <2>1, <2>2 DEF AppInv, StartingFits, StartFits
  <2>6. starting'[h] \in [by : {"dac"}, slot : Slots, pid : Nat] /\ starting'[h].slot = starting[h].slot
          /\ starting'[h].pid = Len(child) + 1
    BY <2>2, <2>5
  <2>7. Len(child) + 1 \in (PidsOf(Asked))'
    BY <2>2, <2>4 DEF PidsOf
  <2>8. (StartFits(h))'
    <3>1. StartFits(h)
      BY DEF AppInv, StartingFits
    <3>2. (Pending("dac"))' <=> Pending("dac")
      BY <2>1 DEF Pending
    <3> QED
      BY <2>1, <2>4, <2>6, <2>7, <3>1, <3>2 DEF StartFits
  <2>9. \A g \in Hosts : g # h => (StartFits(g))'
    BY <1>1, <2>2, <2>3 DEF StartFits
  <2>10. DOMAIN starting' = Hosts
    BY <1>1, <2>2
  <2> QED
    BY <2>8, <2>9, <2>10 DEF StartingFits
<1>7. ASSUME NEW h \in Hosts, starting[h] # Nil, starting' = [starting EXCEPT ![h] = Nil] PROVE StartingFits'
  <2>1. \A g \in Hosts : starting'[g] = Nil
    BY <1>1, <1>7, Starting
  <2>2. DOMAIN starting' = Hosts
    BY <1>1, <1>7
  <2> QED
    BY <2>1, <2>2 DEF StartingFits, StartFits
<1>8. ASSUME NEW h \in Hosts, EnterPid(h) PROVE StartingFits'
  <2>1. starting[h] # Nil /\ starting' = [starting EXCEPT ![h] = Nil]
    BY <1>8 DEF EnterPid
  <2> QED
    BY <1>7, <2>1
<1>9. ASSUME NEW h \in Hosts, NEW p \in Pids, sigchldHandler(h, p), CidStep PROVE StartingFits'
  <2>1. /\ UNCHANGED <<starting, up, call>>
        /\ \A g \in Hosts, j \in Slots : /\ table'[g][j].used = table[g][j].used
                                         /\ table'[g][j].pid = table[g][j].pid
                                         /\ table'[g][j].name = table[g][j].name
    BY <1>9, Dies
  <2>2. (Asked)' = Asked
    BY <1>9, DacCall
  <2>3. ASSUME NEW g \in Hosts PROVE (StartFits(g))'
    BY <2>1, <2>2, Starting, StartStays
  <2> QED
    BY <1>2, <2>1, <2>3
<1>10. ASSUME NEW h \in Hosts, HostCrash(h), CidStep PROVE StartingFits'
  <2>1. UNCHANGED table /\ starting' = [starting EXCEPT ![h] = Nil] /\ up' = [up EXCEPT ![h] = FALSE]
        /\ call' = [c \in Callers |-> IF Pending(c) /\ call[c].host = h THEN NoAnswer ELSE call[c]]
    BY <1>10 DEF HostCrash
  <2>2. (Asked)' = Asked
    BY <1>10, DacCall
  <2>3. CASE starting[h] # Nil
    BY <1>7, <2>1, <2>3
  <2>4. CASE starting[h] = Nil
    <3>1. DOMAIN starting' = Hosts /\ \A g \in Hosts : starting'[g] = starting[g]
      BY <1>1, <2>1, <2>4
    <3>2. ASSUME NEW g \in Hosts PROVE (StartFits(g))'
      <4>1. starting[g] # Nil => g # h /\ up[g] /\ call["dac"].host = g
        BY <2>4 DEF AppInv, StartingFits, StartFits
      <4>2. starting[g] # Nil => up'[g] /\ call'["dac"] = call["dac"] /\ starting[g].slot \in Slots
              /\ table[g][starting[g].slot].used
        BY <1>1, <2>1, <4>1, Starting
      <4> QED
        BY <2>1, <2>2, <3>1, <4>2, StartStays
    <3> QED
      BY <1>4, <3>1, <3>2
  <2> QED
    BY <2>3, <2>4
<1>11. CASE CidStep
  <2>1. ASSUME NEW p \in Pids, NEW s, Ends(p, s) PROVE StartingFits'
    <3>1. UNCHANGED <<up, table, starting, call>>
      BY <2>1 DEF Ends
    <3>2. (Asked)' = Asked
      BY <1>11, DacCall
    <3>3. ASSUME NEW g \in Hosts PROVE (StartFits(g))'
      BY <3>1, <3>2, Starting, StartStays
    <3> QED
      BY <1>2, <3>1, <3>3
  <2>2. ASSUME NEW c \in Callers, CallFails(c) PROVE StartingFits'
    <3>1. UNCHANGED <<up, table, starting>> /\ Pending(c) /\ ~up[call[c].host] /\ call' = [call EXCEPT ![c] = NoAnswer]
      BY <2>2 DEF CallFails, Reply
    <3>2. (Asked)' = Asked
      BY <1>11, DacCall
    <3>3. CASE c = "dac"
      <4>1. \A h \in Hosts : starting[h] = Nil
        BY <3>1, <3>3, Starting, WhoCalls
      <4> QED
        BY <1>3, <3>1, <4>1
    <3>4. CASE c # "dac"
      <4>1. call'["dac"] = call["dac"]
        BY <1>1, <3>1, <3>4
      <4>2. ASSUME NEW g \in Hosts PROVE (StartFits(g))'
        BY <3>1, <3>2, <4>1, Starting, StartStays
      <4> QED
        BY <1>2, <3>1, <4>2
    <3> QED
      BY <3>3, <3>4
  <2> QED
    BY <1>5, <1>6, <1>8, <1>9, <1>10, <1>11, <2>1, <2>2 DEF CidStep, CidStarts, Death, HostLost, Fail, Program
<1>12. CASE NewsStep \/ AsideStep
  <2>1. UNCHANGED <<up, table, starting>>
    BY <1>12, NewsFrame, AsideFrame
  <2>2. (Asked)' = Asked
    BY <1>12, DacCall
  <2>3. call'["dac"] = call["dac"]
    <3>1. CASE NewsStep
      BY <3>1, NewsFrame
    <3>2. CASE AsideStep
      BY <1>1, <3>2 DEF AsideStep, InitFails, Ping, Pinged, Tfddretrievetuple, StopFdd, kill_app, Reply, cidVars
    <3> QED
      BY <1>12, <3>1, <3>2
  <2>4. ASSUME NEW g \in Hosts PROVE (StartFits(g))'
    BY <2>1, <2>2, <2>3, Starting, StartStays
  <2> QED
    BY <1>2, <2>1, <2>4
<1>13. CASE DacStep
  BY <1>3, <1>13, DacAlone, DacFrame
<1>14. CASE UNCHANGED appVars
  <2>1. UNCHANGED <<up, table, starting, call, dac>>
    BY <1>14 DEF appVars, cidVars, dacVars
  <2>2. (Asked)' = Asked
    BY <2>1 DEF Asked
  <2>3. ASSUME NEW g \in Hosts PROVE (StartFits(g))'
    BY <2>1, <2>2, Starting, StartStays
  <2> QED
    BY <1>2, <2>1, <2>3
<1> QED
  BY <1>11, <1>12, <1>13, <1>14, Steps

-----------------------------------------------------------------------------
(* Types.                                                                   *)

\* The tables stay tables.
LEMMA TablesStay ==
  ASSUME AppInv, AppStep
  PROVE  table' \in Tables /\ up' \in [Hosts -> BOOLEAN] /\ (\A h \in Hosts : up'[h] => up[h])
<1>1. table \in Tables /\ up \in [Hosts -> BOOLEAN]
  BY TableTypes
<1>2. ASSUME table' = table, up' = up
      PROVE  table' \in Tables /\ up' \in [Hosts -> BOOLEAN] /\ (\A h \in Hosts : up'[h] => up[h])
  BY <1>1, <1>2
<1>3. CASE CidStep
  <2>1. ASSUME NEW h \in Hosts, NEW c \in Callers, CidServes(h, c) PROVE table' \in Tables /\ up' = up
    <3>1. CASE OpVerify(h, c) \/ OpExecRefused(h, c)
      BY <1>1, <3>1, AnswersDac
    <3>2. CASE FillSlot(h, c)
      BY <3>2, Filled
    <3>3. CASE OpKill(h, c)
      BY <3>3, Kills
    <3>4. CASE OpKillApp(h, c)
      BY <3>4, KillsApp
    <3>5. CASE OpDetectProc(h, c)
      BY <3>5, Detects
    <3> QED
      BY <2>1, <3>1, <3>2, <3>3, <3>4, <3>5 DEF CidServes
  <2>2. ASSUME NEW h \in Hosts, EnterPid(h) PROVE table' \in Tables /\ up' = up
    <3>1. starting[h] # Nil /\ starting[h].pid \in Nat
      BY <2>2, Starting DEF EnterPid
    <3> QED
      BY <2>2, <3>1, EntersPid
  <2>3. ASSUME NEW h \in Hosts, NEW p \in Pids, sigchldHandler(h, p) PROVE table' \in Tables /\ up' = up
    BY <2>3, Dies
  <2>4. ASSUME NEW h \in Hosts, HostCrash(h)
        PROVE  table' = table /\ up' \in [Hosts -> BOOLEAN] /\ (\A g \in Hosts : up'[g] => up[g])
    BY <1>1, <2>4 DEF HostCrash
  <2>5. (\E h \in Hosts : Fork(h)) \/ (\E c \in Callers : CallFails(c))
          \/ (\E p \in Pids, s \in Outcomes \cup {"KILLED"} : Ends(p, s)) => table' = table /\ up' = up
    BY DEF Fork, CallFails, Ends
  <2> QED
    BY <1>1, <1>3, <2>1, <2>2, <2>3, <2>4, <2>5 DEF CidStep, CidStarts, Death, HostLost, Fail, Program
<1>4. CASE NewsStep \/ AsideStep \/ DacStep \/ UNCHANGED appVars
  <2>1. table' = table /\ up' = up
    BY <1>4, NewsFrame, AsideFrame, DacFrame DEF appVars, cidVars
  <2> QED
    BY <1>2, <2>1
<1> QED
  BY <1>3, <1>4, Steps

\* What DAC keeps of its processes is of its types.
LEMMA DacTypesKept ==
  ASSUME AppInv, AppStep
  PROVE  DacTypeOK'
<1>1. DacTypeOK
  BY DEF AppInv, AppTypeOK
<1>2. ASSUME UNCHANGED <<state, prcd, hstate, proc_id, start_flag>> PROVE DacTypeOK'
  BY <1>1, <1>2 DEF DacTypeOK
<1>3. CASE CidStep \/ NewsStep \/ AsideStep \/ UNCHANGED appVars
  <2>1. UNCHANGED <<state, prcd, hstate, proc_id, start_flag>>
    BY <1>3, CidFrame, NewsFrame, AsideFrame DEF appVars, dacVars
  <2> QED
    BY <1>2, <2>1
<1>4. CASE DacStep
  <2>1. CASE OpVerifyApp \/ VerifyNext \/ VerifyAnswered \/ Verified \/ OpStart \/ ExecHandler \/ ExecDone
               \/ OpKillAll \/ OpGetCpulist \/ HandlersKilled \/ End
    <3>1. UNCHANGED <<state, prcd, hstate, proc_id, start_flag>>
      BY <2>1 DEF OpVerifyApp, VerifyNext, VerifyAnswered, Verified, OpStart, ExecHandler, ExecDone,
                  OpKillAll, OpGetCpulist, HandlersKilled, End, dacVars
    <3> QED
      BY <1>2, <3>1
  <2>2. CASE HandlerAnswers
    <3>1. UNCHANGED <<state, prcd, start_flag>>
      BY <2>2 DEF HandlerAnswers
    <3>2. dac.at = "handlerCid" /\ Answered
      BY <2>2 DEF HandlerAnswers
    <3>3. HandlerList[dac.on] \in Handlers
      BY <3>2, Listed DEF AppInv, DacShape
    <3>4. Succeeded => call["dac"].value \in Nat
      BY <3>2 DEF AppInv, CallsFit, Succeeded
    <3>5. hstate' \in [Handlers -> {"READY", "STARTED", "KILLED"}] /\ proc_id' \in [Names -> Nat]
      <4>1. CASE Succeeded /\ child[call["dac"].value].at = "new"
        BY <1>1, <2>2, <3>3, <3>4, <4>1 DEF HandlerAnswers, DacTypeOK, Names
      <4>2. CASE ~(Succeeded /\ child[call["dac"].value].at = "new")
        BY <1>1, <2>2, <4>2 DEF HandlerAnswers, DacTypeOK
      <4> QED
        BY <4>1, <4>2
    <3> QED
      BY <1>1, <3>1, <3>5 DEF DacTypeOK
  <2>3. CASE HandlersStarted
    BY <1>1, <2>3 DEF HandlersStarted, DacTypeOK
  <2>4. CASE ProcessForked
    <3>1. dac.on \in Names
      BY <2>4 DEF ProcessForked, AppInv, DacShape, Names
    <3>2. Succeeded => call["dac"].value \in Nat
      BY <2>4 DEF ProcessForked, AppInv, CallsFit, Succeeded
    <3> QED
      BY <1>1, <2>4, <3>1, <3>2 DEF ProcessForked, DacTypeOK
  <2>5. CASE ExecProcess
    BY <1>1, <2>5 DEF ExecProcess, DacTypeOK, States
  <2>6. CASE ProcessAnswers
    BY <1>1, <2>6 DEF ProcessAnswers, DacTypeOK, States
  <2>7. CASE OpExitProcess
    <3>1. PICK n \in Procs, s \in Statuses :
            /\ prcd' = [p \in Procs |-> prcd[p] \ {n}]
            /\ state' = [p \in Procs |->
                 IF p \in FreedBy([q \in Procs |-> prcd[q] \ {n}], [state EXCEPT ![n] = IF @ = "KILLED" THEN @ ELSE s])
                   THEN "READY" ELSE [state EXCEPT ![n] = IF @ = "KILLED" THEN @ ELSE s][p]]
      BY <2>7 DEF OpExitProcess
    <3> DEFINE st == [state EXCEPT ![n] = IF @ = "KILLED" THEN @ ELSE s]
    <3>2. st \in [Procs -> States]
      BY <1>1 DEF DacTypeOK, States, Statuses
    <3>3. \A p \in Procs : st[p] \in States
      BY <3>2
    <3>4. state' \in [Procs -> States]
      <4> HIDE DEF st
      <4>1. \A p \in Procs : state'[p] \in States /\ DOMAIN state' = Procs
        BY <3>1, <3>3 DEF st, States
      <4>2. state' = [p \in Procs |-> state'[p]]
        BY <3>1
      <4> QED
        BY <4>1, <4>2
    <3>5. prcd' \in [Procs -> SUBSET Procs]
      BY <1>1, <3>1 DEF DacTypeOK
    <3>6. UNCHANGED <<hstate, proc_id, start_flag>>
      BY <2>7 DEF OpExitProcess
    <3> QED
      BY <1>1, <3>4, <3>5, <3>6 DEF DacTypeOK
  <2>8. CASE OpKillProcess \/ KillNext \/ Killed
    <3>1. UNCHANGED <<prcd, hstate, proc_id, start_flag>>
      BY <2>8 DEF OpKillProcess, KillNext, Killed
    <3>2. state' \in [Procs -> States]
      BY <1>1, <2>8 DEF OpKillProcess, KillNext, Killed, DacTypeOK, States
    <3> QED
      BY <1>1, <3>1, <3>2 DEF DacTypeOK
  <2>9. CASE ProcessesKilled \/ KillHandler
    BY <1>1, <2>9 DEF ProcessesKilled, KillHandler, DacTypeOK, States
  <2>10. CASE OpFddChangeProc
    BY <1>1, <2>10 DEF OpFddChangeProc, DacTypeOK, States
  <2> QED
    BY <1>4, <2>1, <2>2, <2>3, <2>4, <2>5, <2>6, <2>7, <2>8, <2>9, <2>10 DEF DacStep, Dac
<1> QED
  BY <1>3, <1>4, Steps

-----------------------------------------------------------------------------
(* FDD.                                                                     *)

\* Only its own steps and DAC's answer change FDD.
LEMMA FddFrame ==
  ASSUME AppStep
  PROVE  \/ UNCHANGED fddVars
         \/ start_fdd \/ InitFails \/ Ping \/ Pinged \/ TellDac \/ Tfddretrievetuple \/ StopFdd \/ OpGetCpulist
<1>1. CASE CidStep
  BY <1>1, CidFrame
<1>2. CASE NewsStep
  BY <1>2 DEF NewsStep, SendVerify, SendStart, SendExit, exit_app, kill_process, Request
<1>3. CASE AsideStep
  BY <1>3 DEF AsideStep, kill_app
<1>4. CASE DacStep
  BY <1>4 DEF DacStep, Dac, Kept
<1>5. CASE UNCHANGED appVars
  BY <1>5 DEF appVars
<1> QED
  BY <1>1, <1>2, <1>3, <1>4, <1>5, Steps

FddEntry == [host : Hosts, pid : Nat, fault_flag : BOOLEAN]

\* FDD looks at an entry of its list, and so it does next.
LEMMA ListFits ==
  ASSUME FddTypeOK, Watching => Len(host_list) = Len(ProcList)
  PROVE  /\ fdd.on \in 1 .. Len(ProcList) /\ Len(ProcList) \in Nat /\ 1 \in 1 .. Len(ProcList)
         /\ Watching => /\ NextEntry \in 1 .. Len(ProcList) /\ fdd.on \in DOMAIN host_list
                        /\ Watch \in FddEntry
<1>1. fdd.on \in 1 .. Len(ProcList) /\ host_list \in Seq(FddEntry)
  BY DEF FddTypeOK, FddEntry
<1>2. Len(ProcList) \in Nat
  BY ControllerAssumption
<1>3. 1 \in 1 .. Len(ProcList)
  BY <1>1, <1>2
<1>4. ASSUME Watching
      PROVE  /\ NextEntry \in 1 .. Len(ProcList) /\ fdd.on \in DOMAIN host_list
             /\ Watch \in FddEntry
  <2>1. Len(host_list) = Len(ProcList)
    BY <1>4
  <2>2. fdd.on \in DOMAIN host_list /\ fdd.on \in 1 .. Len(host_list)
    BY <1>1, <2>1
  <2>3. Watch \in FddEntry
    BY <1>1, <2>2, ElementOfSeq DEF Watch
  <2>4. \A n, l \in Nat : l > 0 => (n % l) + 1 \in 1 .. l
    OBVIOUS
  <2>5. NextEntry \in 1 .. Len(ProcList)
    BY <1>1, <1>2, <1>3, <2>1, <2>4 DEF NextEntry
  <2> QED
    BY <2>2, <2>3, <2>5
<1> QED
  BY <1>1, <1>2, <1>3, <1>4

LEMMA WatchFits ==
  ASSUME AppInv
  PROVE  /\ fdd.on \in 1 .. Len(ProcList) /\ Len(ProcList) \in Nat /\ 1 \in 1 .. Len(ProcList)
         /\ Watching => /\ NextEntry \in 1 .. Len(ProcList) /\ fdd.on \in DOMAIN host_list
                        /\ Watch \in FddEntry
BY ListFits DEF AppInv, AppTypeOK, FddFits

\* A list in which one entry is flagged.
Flagged(l, i) == [l EXCEPT ![i].fault_flag = TRUE]
\* It keeps hosts and pids.
LEMMA FlaggedFits ==
  \A l \in Seq(FddEntry), i \in Nat :
    i \in DOMAIN l =>
      /\ Flagged(l, i) \in Seq(FddEntry) /\ Len(Flagged(l, i)) = Len(l)
      /\ \A j \in DOMAIN l : Flagged(l, i)[j].host = l[j].host /\ Flagged(l, i)[j].pid = l[j].pid
<1> SUFFICES ASSUME NEW l \in Seq(FddEntry), NEW i \in DOMAIN l
             PROVE  /\ Flagged(l, i) \in Seq(FddEntry) /\ Len(Flagged(l, i)) = Len(l)
                    /\ \A j \in DOMAIN l : Flagged(l, i)[j].host = l[j].host /\ Flagged(l, i)[j].pid = l[j].pid
  OBVIOUS
<1> DEFINE e == [l[i] EXCEPT !.fault_flag = TRUE]
<1>1. i \in 1 .. Len(l)
  OBVIOUS
<1>0. l[i] \in FddEntry
  BY <1>1, ElementOfSeq
<1>2. e \in FddEntry /\ e.host = l[i].host /\ e.pid = l[i].pid
  BY <1>0 DEF FddEntry
<1>3. Flagged(l, i) = [l EXCEPT ![i] = e]
  BY DEF Flagged
<1> HIDE DEF e
<1>4. Flagged(l, i) \in Seq(FddEntry) /\ Len(Flagged(l, i)) = Len(l)
  BY <1>2, <1>3
<1>5. \A j \in DOMAIN l : Flagged(l, i)[j] = IF j = i THEN e ELSE l[j]
  BY <1>3
<1> QED
  BY <1>2, <1>4, <1>5

\* What FDD's steps make of its list and of where it is.
LEMMA FddTypesGoOn ==
  ASSUME FddTypeOK, DacTypeOK, Watching => Len(host_list) = Len(ProcList), AppStep
  PROVE  FddTypeOK'
<1>1. host_list \in Seq(FddEntry) /\ recovered \subseteq Nat /\ fdd.on \in 1 .. Len(ProcList)
  BY DEF FddTypeOK, FddEntry
<1>2. SUFFICES host_list' \in Seq(FddEntry) /\ recovered' \subseteq Nat /\ fdd'.on \in 1 .. Len(ProcList)
  BY DEF FddTypeOK, FddEntry
<1>3. CASE UNCHANGED fddVars
  BY <1>1, <1>3 DEF fddVars
<1>4. CASE start_fdd \/ InitFails \/ StopFdd
  <2>1. fdd'.on = 1 /\ UNCHANGED <<host_list, recovered>>
    BY <1>4 DEF start_fdd, InitFails, StopFdd, FddAt
  <2> QED
    BY <1>1, <2>1, ListFits
<1>5. CASE Ping
  BY <1>1, <1>5, ListFits DEF Ping, FddAt, Watching
<1>6. CASE Pinged
  <2>1. Watching /\ fdd.on \in DOMAIN host_list
    BY <1>6, ListFits DEF Pinged, Watching
  <2>2. host_list' \in Seq(FddEntry)
    BY <1>1, <1>6, <2>1, FlaggedFits DEF Pinged, Flagged
  <2> QED
    BY <1>1, <1>6, <2>1, <2>2, ListFits DEF Pinged, FddAt
<1>7. CASE TellDac
  BY <1>1, <1>7, ListFits DEF TellDac, FddAt
<1>8. CASE Tfddretrievetuple
  <2>1. Watching
    BY <1>8 DEF Tfddretrievetuple, Watching
  <2>2. Watch.pid \in Nat /\ NextEntry \in 1 .. Len(ProcList)
    BY <2>1, ListFits DEF FddEntry
  <2>3. host_list' = host_list /\ recovered' \in {recovered, recovered \cup {Watch.pid}} /\ fdd'.on \in {NextEntry, 1}
    BY <1>8 DEF Tfddretrievetuple, FddAt
  <2> QED
    BY <1>1, <2>2, <2>3, ListFits
<1>9. CASE OpGetCpulist
  <2>1. host_list' = gethostlist /\ recovered' = recovered /\ fdd'.on = 1
    BY <1>9 DEF OpGetCpulist, FddAt
  <2>2. \A i \in DOMAIN ProcList : ProcList[i] \in Procs /\ HostOf[ProcList[i]] \in Hosts /\ proc_id[ProcList[i]] \in Nat
    BY ControllerAssumption, ElementOfSeq DEF DacTypeOK, Names
  <2>3. \A i \in 1 .. Len(ProcList) :
          [host |-> HostOf[ProcList[i]], pid |-> proc_id[ProcList[i]], fault_flag |-> FALSE] \in FddEntry
    BY <2>2, ControllerAssumption DEF FddEntry
  <2>4. gethostlist \in [1 .. Len(ProcList) -> FddEntry]
    BY <2>3, ControllerAssumption DEF gethostlist
  <2>5. gethostlist \in Seq(FddEntry)
    BY <2>4, ListFits
  <2> QED
    BY <1>1, <2>1, <2>5, ListFits
<1> QED
  BY <1>3, <1>4, <1>5, <1>6, <1>7, <1>8, <1>9, FddFrame

LEMMA FddTypesKept ==
  ASSUME AppInv, AppStep
  PROVE  FddTypeOK'
BY FddTypesGoOn DEF AppInv, AppTypeOK, FddFits

\* DAC calls for itself.
LEMMA DacCallsOnly ==
  ASSUME AppInv, DacStep
  PROVE  DOMAIN call' = Callers /\ \A c \in Callers : c # "dac" => call'[c] = call[c]
<1> DEFINE Goal == DOMAIN call' = Callers /\ \A c \in Callers : c # "dac" => call'[c] = call[c]
<1> SUFFICES Goal
  OBVIOUS
<1>1. DOMAIN call = Callers
  BY DEF AppInv, AppTypeOK, CidTypeOK
<1>2. ASSUME call' = call PROVE Goal
  BY <1>1, <1>2
<1>3. ASSUME NEW a, Reply("dac", a) PROVE Goal
  BY <1>1, <1>3 DEF Reply
<1>4. OpVerifyApp \/ Verified \/ OpStart \/ HandlersStarted \/ ProcessAnswers \/ ExecDone \/ OpExitProcess
        \/ OpKillAll \/ ProcessesKilled \/ KillHandler \/ HandlersKilled \/ End \/ OpFddChangeProc
        \/ OpGetCpulist => call' = call
  BY DEF OpVerifyApp, Verified, OpStart, HandlersStarted, ProcessAnswers, ExecDone, OpExitProcess,
         OpKillAll, ProcessesKilled, KillHandler, HandlersKilled, End, OpFddChangeProc, OpGetCpulist, cidVars
<1>5. VerifyAnswered \/ HandlerAnswers \/ ProcessForked \/ Killed => Reply("dac", Nil)
  BY DEF VerifyAnswered, HandlerAnswers, ProcessForked, Killed, Hangup
<1>6. VerifyNext => call' = call \/ \E a : Reply("dac", a)
  BY DEF VerifyNext, Asks
<1>7. ExecHandler => call' = call \/ \E a : Reply("dac", a)
  BY DEF ExecHandler, Asks
<1>8. ExecProcess => call' = call \/ \E a : Reply("dac", a)
  BY DEF ExecProcess, Asks
<1>9. OpKillProcess => call' = call \/ \E a : Reply("dac", a)
  BY DEF OpKillProcess, Asks
<1>10. KillNext => call' = call \/ \E a : Reply("dac", a)
  BY DEF KillNext, Asks
<1> HIDE DEF Goal
<1> QED
  BY <1>2, <1>3, <1>4, <1>5, <1>6, <1>7, <1>8, <1>9, <1>10 DEF DacStep, Dac

\* A host that is down and a program that has ended stay so.
LEMMA LostStays ==
  ASSUME AppInv, AppStep, NEW h \in Hosts, NEW q, LostProc(h, q)
  PROVE  (LostProc(h, q))'
<1>1. (up'[h] => up[h]) /\ Pids \subseteq Pids' /\ \A p \in Pids : GoesOn(p)
  BY TablesStay, ChildrenGoOn
<1>2. q \in Pids /\ Ended(q) => (Ended(q))'
  BY <1>1 DEF Ended, GoesOn, Course
<1> QED
  BY <1>1, <1>2 DEF LostProc

\* A process that the CID calls dead, or whose host does not answer, is lost.
LEMMA FddAnswered ==
  ASSUME AppInv, CidStep, call'["fdd"] # call["fdd"]
  PROVE  /\ Pending("fdd") /\ ~(Pending("fdd"))'
         /\ (call'["fdd"].op = "ANSWER" /\ call'["fdd"].ok) \/ (LostProc(Watch.host, Watch.pid))'
<1>0. DOMAIN call = Callers /\ "fdd" \in Callers /\ "dac" \in Callers /\ AppStep
  BY ApplicationAssumption, ControllerAssumption DEF AppInv, AppTypeOK, CidTypeOK, AppStep
<1>1. Pending("fdd") /\ call'["fdd"] \in Answers \cup {NoAnswer} /\ ~(Pending("fdd"))'
  BY <1>0, CidCalls, AnswersEnd
<1>2. fdd.at = "answer" /\ call["fdd"] = Detect(Watch.host, Watch.pid) /\ call["fdd"].host = Watch.host
  BY <1>0, <1>1, WhoCalls DEF Detect
<1>3. Watching
  BY <1>2 DEF Watching
<1>4. Watch.host \in Hosts /\ fdd.on \in DOMAIN host_list
  BY <1>3, WatchFits DEF FddEntry
<1> DEFINE Goal == (call'["fdd"].op = "ANSWER" /\ call'["fdd"].ok) \/ (LostProc(Watch.host, Watch.pid))'
<1>5. UNCHANGED <<fdd, host_list>>
  BY CidFrame DEF fddVars
<1>6. SUFFICES Goal
  BY <1>1
<1>7. ASSUME ~up'[Watch.host] PROVE Goal
  BY <1>5, <1>7 DEF LostProc, Watch
<1>8. ASSUME NEW h \in Hosts, NEW c \in Callers, CidServes(h, c) PROVE Goal
  <2>1. CASE OpVerify(h, c) \/ OpExecRefused(h, c)
    <3>1. call'["fdd"] = call["fdd"]
      BY <1>0, <2>1, AnswersDac
    <3> QED
      BY <3>1
  <2>2. CASE FillSlot(h, c)
    BY <2>2 DEF FillSlot
  <2>3. CASE OpKill(h, c)
    <3>1. call'["fdd"] = call["fdd"]
      BY <1>0, <2>3, Kills
    <3> QED
      BY <3>1
  <2>4. CASE OpKillApp(h, c)
    <3>1. call'["fdd"] = call["fdd"]
      BY <1>0, <2>4, KillsApp
    <3> QED
      BY <3>1
  <2>5. CASE OpDetectProc(h, c)
    <3>1. h = Watch.host /\ up[h] /\ child' = child
      BY <2>5, Detects
    <3>2. CASE call' = [call EXCEPT !["fdd"] = Answer(TRUE, 0)]
      BY <1>0, <3>2 DEF Answer
    <3>3. ASSUME NEW i \in Slots, table[h][i].dead, table[h][i].pid = Watch.pid PROVE Goal
      <4>1. EntryFits(h, i)
        BY <3>1 DEF AppInv, TableFits
      <4>2. Watch.pid # 0 /\ (child[Watch.pid].name \in Procs => Ended(Watch.pid))
        BY <3>3, <4>1 DEF EntryFits
      <4>3. host_list[fdd.on].pid # 0 => Watch.pid \in Pids /\ child[Watch.pid].name \in Procs
        BY <1>4 DEF AppInv, FddFits, Watch
      <4>4. Watch.pid \in Pids /\ Ended(Watch.pid)
        BY <4>2, <4>3 DEF Watch
      <4> QED
        BY <1>5, <3>1, <4>4 DEF LostProc, Watch, Pids, Ended
    <3> HIDE DEF Goal
    <3> QED
      BY <2>5, <3>2, <3>3, Detects
  <2> HIDE DEF Goal
  <2> QED
    BY <1>8, <2>1, <2>2, <2>3, <2>4, <2>5 DEF CidServes
<1>9. ASSUME NEW h \in Hosts, EnterPid(h) PROVE Goal
  <2>1. starting[h] # Nil /\ starting[h].pid \in Nat
    BY <1>9, Starting DEF EnterPid
  <2>2. call'["fdd"] = call["fdd"]
    BY <1>0, <1>9, <2>1, EntersPid
  <2> QED
    BY <2>2
<1>10. ASSUME NEW h \in Hosts, HostCrash(h) PROVE Goal
  <2>1. call' = [c \in Callers |-> IF Pending(c) /\ call[c].host = h THEN NoAnswer ELSE call[c]] /\ up' = [up EXCEPT ![h] = FALSE]
    BY <1>10 DEF HostCrash
  <2>2. call["fdd"].host = h
    BY <1>0, <2>1
  <2>3. ~up'[Watch.host]
    BY <1>2, <1>4, <2>1, <2>2, TableTypes
  <2> QED
    BY <1>7, <2>3
<1>11. ASSUME NEW c \in Callers, CallFails(c) PROVE Goal
  <2>1. ~up[call[c].host] /\ call' = [call EXCEPT ![c] = NoAnswer] /\ up' = up
    BY <1>11 DEF CallFails, Reply
  <2>2. c = "fdd"
    BY <1>0, <2>1
  <2>3. ~up'[Watch.host]
    BY <1>2, <2>1, <2>2
  <2> QED
    BY <1>7, <2>3
<1>12. (\E h \in Hosts : Fork(h) \/ \E p \in Pids : sigchldHandler(h, p))
        \/ (\E p \in Pids, s \in Outcomes \cup {"KILLED"} : Ends(p, s)) => call' = call
  BY DEF Fork, sigchldHandler, Ends
<1> HIDE DEF Goal
<1> QED
  BY <1>8, <1>9, <1>10, <1>11, <1>12 DEF CidStep, CidStarts, Death, HostLost, Fail, Program

\* Outside its own steps FDD's call is left to the CIDs.
LEMMA FddCall ==
  ASSUME AppInv, AppStep, UNCHANGED fddVars
  PROVE  \/ call'["fdd"] = call["fdd"]
         \/ /\ Pending("fdd") /\ ~(Pending("fdd"))'
            /\ (call'["fdd"].op = "ANSWER" /\ call'["fdd"].ok) \/ (LostProc(Watch.host, Watch.pid))'
<1>1. "fdd" \in Callers /\ "fdd" # "dac" /\ "fdd" # "user" /\ DOMAIN call = Callers
  BY ApplicationAssumption DEF AppInv, AppTypeOK, CidTypeOK
<1>2. CASE CidStep
  BY <1>2, FddAnswered
<1>3. CASE NewsStep
  BY <1>3, NewsFrame
<1>4. CASE AsideStep
  <2>1. CASE InitFails \/ Tfddretrievetuple
    BY <2>1 DEF InitFails, Tfddretrievetuple, cidVars
  <2>2. CASE Ping
    <3>1. Watch.fault_flag
      <4>1. SUFFICES ASSUME ~Watch.fault_flag PROVE FALSE
        OBVIOUS
      <4>2. fdd.at = "ping" /\ fdd' = FddAt("answer", fdd.on)
        BY <2>2, <4>1 DEF Ping
      <4>3. fdd'.at = "answer" /\ fdd' = fdd
        BY <4>2 DEF FddAt, fddVars
      <4> QED
        BY <4>2, <4>3
    <3> QED
      BY <2>2, <3>1 DEF Ping
  <2>3. CASE Pinged
    <3>1. fdd.at = "answer" /\ fdd'.at # "answer" /\ fdd' = fdd
      BY <2>3 DEF Pinged, FddAt, fddVars
    <3> QED
      BY <3>1
  <2>4. CASE StopFdd
    <3>1. fdd.at # "over" /\ fdd'.at = "over" /\ fdd' = fdd
      BY <2>4 DEF StopFdd, FddAt, fddVars
    <3> QED
      BY <3>1
  <2>5. ASSUME NEW h \in Hosts, kill_app(h) PROVE call'["fdd"] = call["fdd"]
    BY <1>1, <2>5 DEF kill_app, Reply
  <2> QED
    BY <1>4, <2>1, <2>2, <2>3, <2>4, <2>5 DEF AsideStep
<1>5. CASE DacStep
  BY <1>1, <1>5, DacCallsOnly
<1>6. CASE UNCHANGED appVars
  BY <1>6 DEF appVars, cidVars
<1> QED
  BY <1>2, <1>3, <1>4, <1>5, <1>6, Steps

\* GET_CPULIST is served while FDD waits for it.
LEMMA ListAsked == AppInv /\ OpGetCpulist => fdd.at = "init"
<1> SUFFICES ASSUME AppInv, OpGetCpulist PROVE fdd.at = "init"
  OBVIOUS
<1>1. inbox # <<>> /\ Head(inbox) = Op("GET_CPULIST") /\ inbox \in Seq(Messages)
  BY DEF OpGetCpulist, Takes, AppInv, NewsAreTrue
<1>2. 1 \in DOMAIN inbox /\ inbox[1] = Op("GET_CPULIST")
  BY <1>1
<1>3. Sent("GET_CPULIST")
  BY <1>2 DEF Sent, Op
<1> QED
  BY <1>3 DEF AppInv, PrunFits

\* What FDD holds stays true.
LEMMA FddKept ==
  ASSUME AppInv, AppStep
  PROVE  FddFits'
<1> DEFINE NotAlive == call["fdd"] # Nil /\ ~Pending("fdd") /\ ~(call["fdd"].op = "ANSWER" /\ call["fdd"].ok)
<1>1. Pids \subseteq Pids' /\ \A p \in Pids : child'[p].name = child[p].name
  BY ChildrenGoOn DEF GoesOn
<1>2. FddFits
  BY DEF AppInv
<1>3. ASSUME DOMAIN host_list' = DOMAIN host_list, \A i \in DOMAIN host_list : host_list'[i].pid = host_list[i].pid
      PROVE  \A i \in DOMAIN host_list' : host_list'[i].pid # 0 =>
               host_list'[i].pid \in Pids' /\ child'[host_list'[i].pid].name \in Procs
  BY <1>1, <1>2, <1>3 DEF FddFits
<1>4. fdd.at # "answer" => call["fdd"] = Nil
  BY DEF AppInv, CallsFit
<1>5. Watching => Watch.host \in Hosts
  BY WatchFits DEF FddEntry
<1>6. CASE UNCHANGED fddVars
  <2>1. UNCHANGED <<fdd, host_list>>
    BY <1>6 DEF fddVars
  <2>2. fdd.at = "tell" => (LostProc(Watch.host, Watch.pid))'
    <3> SUFFICES ASSUME fdd.at = "tell" PROVE (LostProc(Watch.host, Watch.pid))'
      OBVIOUS
    <3>1. LostProc(Watch.host, Watch.pid) /\ Watch.host \in Hosts
      BY <1>2, <1>5 DEF FddFits, Watching
    <3> QED
      BY <2>1, <3>1, LostStays DEF Watch
  <2>3. NotAlive' => (LostProc(Watch.host, Watch.pid))'
    <3> SUFFICES ASSUME NotAlive' PROVE (LostProc(Watch.host, Watch.pid))'
      OBVIOUS
    <3>1. CASE call'["fdd"] = call["fdd"]
      <4>1. NotAlive
        BY <3>1 DEF Pending
      <4>2. LostProc(Watch.host, Watch.pid) /\ Watch.host \in Hosts
        BY <1>2, <1>4, <1>5, <4>1 DEF FddFits, Watching
      <4> QED
        BY <2>1, <4>2, LostStays DEF Watch
    <3>2. CASE call'["fdd"] # call["fdd"]
      BY <1>6, <3>2, FddCall
    <3> QED
      BY <3>1, <3>2
  <2> QED
    BY <1>2, <1>3, <2>1, <2>2, <2>3 DEF FddFits, Watching
<1>7. CASE start_fdd \/ InitFails \/ StopFdd
  <2>1. fdd'.at \in {"init", "over"} /\ host_list' = host_list
    BY <1>7 DEF start_fdd, InitFails, StopFdd, FddAt
  <2>2. call'["fdd"] = Nil
    <3>1. StopFdd => call'["fdd"] = Nil
      BY ApplicationAssumption DEF StopFdd, Reply, AppInv, AppTypeOK, CidTypeOK
    <3>2. start_fdd \/ InitFails => call'["fdd"] = call["fdd"] /\ fdd.at # "answer"
      BY DEF start_fdd, InitFails, cidVars
    <3> QED
      BY <1>4, <1>7, <3>1, <3>2
  <2> QED
    BY <1>3, <2>1, <2>2 DEF FddFits, Watching
<1>8. CASE Ping
  <2>1. fdd.at = "ping" /\ fdd'.at \in {"ping", "answer"} /\ host_list' = host_list
    BY <1>8 DEF Ping, FddAt
  <2>2. call'["fdd"] = Nil \/ (Pending("fdd"))'
    <3>1. call'["fdd"] = Nil \/ call'["fdd"] = Detect(Watch.host, Watch.pid)
      BY <1>4, <1>8, <2>1, ApplicationAssumption DEF Ping, Reply, AppInv, AppTypeOK, CidTypeOK
    <3> QED
      BY <3>1 DEF Pending, Detect
  <2> QED
    BY <1>2, <1>3, <2>1, <2>2 DEF FddFits, Watching
<1>9. CASE Pinged
  <2>1. fdd.at = "answer" /\ call["fdd"] # Nil /\ ~Pending("fdd") /\ fdd'.at \in {"ping", "over", "tell"}
          /\ (fdd'.at = "tell" => NotAlive /\ fdd'.on = fdd.on)
          /\ host_list' \in {host_list, Flagged(host_list, fdd.on)}
    BY <1>9 DEF Pinged, FddAt, Flagged
  <2>2. call'["fdd"] = Nil
    BY <1>9, ApplicationAssumption DEF Pinged, Reply, AppInv, AppTypeOK, CidTypeOK
  <2>3. Watching /\ fdd.on \in DOMAIN host_list /\ host_list \in Seq(FddEntry) /\ fdd.on \in Nat
    BY <2>1, WatchFits DEF Watching, AppInv, AppTypeOK, FddTypeOK, FddEntry
  <2>4. /\ Len(host_list') = Len(host_list) /\ DOMAIN host_list' = DOMAIN host_list
        /\ \A i \in DOMAIN host_list : host_list'[i].pid = host_list[i].pid /\ host_list'[i].host = host_list[i].host
    <3>1. /\ Flagged(host_list, fdd.on) \in Seq(FddEntry) /\ Len(Flagged(host_list, fdd.on)) = Len(host_list)
          /\ \A j \in DOMAIN host_list : Flagged(host_list, fdd.on)[j].host = host_list[j].host
                                         /\ Flagged(host_list, fdd.on)[j].pid = host_list[j].pid
      BY <2>3, FlaggedFits
    <3> QED
      BY <2>1, <2>3, <3>1
  <2>5. fdd'.at = "tell" => (LostProc(Watch.host, Watch.pid))'
    <3> SUFFICES ASSUME fdd'.at = "tell" PROVE (LostProc(Watch.host, Watch.pid))'
      OBVIOUS
    <3>1. LostProc(Watch.host, Watch.pid) /\ Watch.host \in Hosts
      BY <1>2, <1>5, <2>1, <2>3 DEF FddFits
    <3>2. host_list'[fdd'.on].host = Watch.host /\ host_list'[fdd'.on].pid = Watch.pid
      BY <2>1, <2>3, <2>4 DEF Watch
    <3> DEFINE h == Watch.host
               q == Watch.pid
    <3>3. (LostProc(host_list[fdd.on].host, host_list[fdd.on].pid))' <=>
            (~up'[h] \/ (q \in Pids' /\ child'[q].at \in {"zombie", "gone"}))
      BY <3>2 DEF LostProc, Ended
    <3>4. ~up'[h] \/ (q \in Pids' /\ child'[q].at \in {"zombie", "gone"})
      <4>1. (up'[h] => up[h]) /\ Pids \subseteq Pids' /\ \A p \in Pids : GoesOn(p)
        BY <3>1, TablesStay, ChildrenGoOn
      <4> QED
        BY <3>1, <4>1 DEF LostProc, Ended, GoesOn, Course
    <3> QED
      BY <3>3, <3>4 DEF Watch
  <2> QED
    BY <1>2, <1>3, <2>1, <2>2, <2>3, <2>4, <2>5 DEF FddFits
<1>10. CASE TellDac \/ Tfddretrievetuple
  <2>1. fdd.at \in {"tell", "retrieve"} /\ fdd'.at \in {"retrieve", "over", "ping"} /\ host_list' = host_list
          /\ call'["fdd"] = call["fdd"]
    BY <1>10 DEF TellDac, Tfddretrievetuple, FddAt, cidVars
  <2> QED
    BY <1>2, <1>3, <1>4, <2>1 DEF FddFits, Watching
<1>11. CASE OpGetCpulist
  <2>1. fdd'.at \in {"ping", "over"} /\ host_list' = gethostlist /\ call'["fdd"] = call["fdd"] /\ child' = child
    BY <1>11 DEF OpGetCpulist, FddAt
  <2>2. call["fdd"] = Nil
    BY <1>4, <1>11, ListAsked
  <2>3. DOMAIN ProcList = 1 .. Len(ProcList) /\ \A i \in DOMAIN ProcList : ProcList[i] \in Procs
    BY ControllerAssumption
  <2>4. Len(gethostlist) = Len(ProcList) /\ DOMAIN gethostlist = DOMAIN ProcList
    BY <2>3, WatchFits DEF gethostlist
  <2>5. \A i \in DOMAIN ProcList : gethostlist[i].pid = proc_id[ProcList[i]]
    BY DEF gethostlist
  <2>6. \A n \in Procs : proc_id[n] # 0 => proc_id[n] \in Pids /\ child[proc_id[n]].name \in Procs
    BY DEF AppInv, ProcessLife, ProcessFits, PidsOf
  <2>7. Pids' = Pids
    BY <2>1 DEF Pids
  <2> QED
    BY <2>1, <2>2, <2>3, <2>4, <2>5, <2>6, <2>7 DEF FddFits
<1> QED
  BY <1>6, <1>7, <1>8, <1>9, <1>10, <1>11, FddFrame

-----------------------------------------------------------------------------
(* Where DAC goes.                                                          *)

\* DAC after its step: whether it has asked a CID, and for what.
Question(at, n) == IF at = "verifyCid" THEN Verify(HostOf[n], n)
                   ELSE IF at = "killCid" THEN Kill(HostOf[n], n) ELSE Exec(HostOf[n], n)
DacCallFits ==
  \/ dac.at \notin CidPlaces /\ call["dac"] = Nil
  \/ dac.at \in CidPlaces /\ call["dac"] = Question(dac.at, Asked)

\* Wherever a step takes DAC, it has a shape that fits, and has asked the CID it waits for.
LEMMA DacMoves ==
  ASSUME AppInv, DacStep
  PROVE  DacShape' /\ DacCallFits'
<1> DEFINE Goal == DacShape' /\ DacCallFits'
<1> SUFFICES Goal
  OBVIOUS
<1>1. DacShape /\ (dac.at \notin CidPlaces => call["dac"] = Nil)
  BY DEF AppInv, CallsFit
<1>2. DOMAIN call = Callers /\ "dac" \in Callers
  BY ControllerAssumption DEF AppInv, AppTypeOK, CidTypeOK
<1>3. \A n \in Procs : HostOf[n] \in Hosts
  BY ControllerAssumption DEF Names
<1>4. ASSUME dac = Serving, dac' = dac, UNCHANGED <<call, listening, start_flag>> PROVE Goal
  BY <1>1, <1>4 DEF DacShape, DacCallFits, Serving, At, CidPlaces
<1>5. ASSUME NEW p \in Places \ CidPlaces, NEW n, NEW y, dac' = At(p, n, y), call'["dac"] = Nil,
             p \in {"verify", "handlers", "killHandlers"} => n \in Nat \ {0}, p \in {"execHello"} => n \in Procs,
             y # "SIGTERM", p = "killAll" => y \notin {"KILL", "START"}, p = "killHandlers" => y # "KILL",
             p = "handlers" => y = "START", p = "handlers" \/ (p = "killHandlers" /\ y = "START") => ~start_flag',
             listening' <=> p # "over"
      PROVE  Goal
  <2>1. dac'.at = p /\ dac'.on = n /\ dac'.why = y
    BY <1>5 DEF At
  <2>2. p \notin {"verifyCid", "handlerCid", "execCid", "killCid"}
    BY <1>5 DEF CidPlaces
  <2> QED
    BY <1>5, <2>1, <2>2 DEF DacShape, DacCallFits
<1>6. ASSUME NEW p \in CidPlaces, NEW n, NEW y, NEW a, dac' = At(p, n, y), Reply("dac", a),
             a = Question(p, IF p = "verifyCid" THEN Components[n] ELSE IF p = "handlerCid" THEN HandlerList[n] ELSE n),
             p = "verifyCid" => n \in DOMAIN Components, p = "handlerCid" => n \in DOMAIN HandlerList /\ ~start_flag' /\ y = "START",
             p \in {"execCid", "killCid"} => n \in Procs, listening', y # "SIGTERM", p = "killCid" => y # "START"
      PROVE  Goal
  <2>1. dac'.at = p /\ dac'.on = n /\ dac'.why = y
    BY <1>6 DEF At
  <2>2. call'["dac"] = a
    BY <1>2, <1>6 DEF Reply
  <2>3. DacShape'
    BY <1>6, <2>1 DEF DacShape, Places, CidPlaces
  <2>4. (Asked)' = IF p = "verifyCid" THEN Components[n] ELSE IF p = "handlerCid" THEN HandlerList[n] ELSE n
    BY <2>1 DEF Asked
  <2> QED
    BY <1>6, <2>1, <2>2, <2>3, <2>4 DEF DacCallFits
<1>7. /\ listening <=> dac.at # "over"
      /\ dac.why # "SIGTERM" /\ (dac.at \in {"handlers", "handlerCid"} => dac.why = "START")
      /\ dac.at \in {"killAll", "killCid"} => dac.why # "START"
      /\ Serving = At("serve", Nil, Nil) /\ Nil # "SIGTERM"
  BY <1>1, ControllerAssumption DEF DacShape, Serving
<1>8. OpVerifyApp => Goal
  <2> SUFFICES ASSUME OpVerifyApp PROVE Goal
    OBVIOUS
  <2>1. dac' = At("verify", 1, "VERIFY_APP") /\ call' = call /\ listening' /\ call["dac"] = Nil
    BY <1>1, DacGuards DEF OpVerifyApp, Takes, CidPlaces
  <2> HIDE DEF Goal
  <2> QED
    BY <1>5, <1>7, <2>1 DEF Places, CidPlaces, ExecPlaces
<1>9. VerifyNext => Goal
  <2> SUFFICES ASSUME VerifyNext PROVE Goal
    OBVIOUS
  <2>1. dac.at = "verify" /\ listening' /\ call["dac"] = Nil /\ dac.on \in DOMAIN Components
    BY <1>1, <1>7 DEF VerifyNext, CidPlaces
  <2>2. CASE up[HostOf[Components[dac.on]]]
    <3> DEFINE n == Components[dac.on]
               m == dac.on
    <3>1. Reply("dac", Verify(HostOf[n], n)) /\ dac' = At("verifyCid", m, dac.why)
      BY <2>2 DEF VerifyNext, Asks
    <3>2. Verify(HostOf[n], n) = Question("verifyCid", n)
      BY DEF Question
    <3> HIDE DEF Goal
    <3> QED
      BY <1>6, <1>7, <2>1, <3>1, <3>2 DEF CidPlaces
  <2>3. CASE ~up[HostOf[Components[dac.on]]]
    <3>1. dac' = Serving /\ call' = call
      BY <2>3 DEF VerifyNext, NotReady
    <3> HIDE DEF Goal
    <3> QED
      BY <1>5, <1>7, <2>1, <3>1 DEF Places, CidPlaces, ExecPlaces, Serving
  <2> QED
    BY <2>2, <2>3
<1>10. VerifyAnswered => Goal
  <2> SUFFICES ASSUME VerifyAnswered PROVE Goal
    OBVIOUS
  <2>1. call'["dac"] = Nil /\ listening' /\ dac.on \in DOMAIN Components
    BY <1>1, <1>2, <1>7 DEF VerifyAnswered, Hangup, Reply, DacShape
  <2>2. dac.on + 1 \in Nat \ {0}
    <3>1. DOMAIN Components \subseteq Nat
      BY ControllerAssumption DEF Components
    <3> QED
      BY <2>1, <3>1
  <2>3. dac' = At("verify", dac.on + 1, dac.why) \/ dac' = Serving
    BY DEF VerifyAnswered, NotReady
  <2> HIDE DEF Goal
  <2>4. CASE dac' = At("verify", dac.on + 1, dac.why)
    BY <1>5, <1>7, <2>1, <2>2, <2>4 DEF Places, CidPlaces, ExecPlaces
  <2>5. CASE dac' = Serving
    BY <1>5, <1>7, <2>1, <2>5 DEF Places, CidPlaces, ExecPlaces, Serving
  <2> QED
    BY <2>3, <2>4, <2>5
<1>11. Verified \/ ExecDone => Goal
  <2> SUFFICES ASSUME Verified \/ ExecDone PROVE Goal
    OBVIOUS
  <2>1. dac' = Serving /\ call'["dac"] = Nil /\ listening'
    BY <1>1, <1>7 DEF Verified, ExecDone, cidVars, CidPlaces
  <2> HIDE DEF Goal
  <2> QED
    BY <1>5, <1>7, <2>1 DEF Places, CidPlaces, ExecPlaces, Serving
<1>12. OpStart => Goal
  <2> SUFFICES ASSUME OpStart PROVE Goal
    OBVIOUS
  <2>1. dac = Serving /\ call' = call /\ listening' = listening /\ listening /\ start_flag' = start_flag /\ call["dac"] = Nil
    BY <1>1, DacGuards DEF OpStart, CidPlaces
  <2> HIDE DEF Goal
  <2>2. CASE start_flag
    BY <1>4, <2>1, <2>2 DEF OpStart
  <2>3. CASE ~start_flag
    <3>1. dac' = At("handlers", 1, "START")
      BY <2>3 DEF OpStart
    <3> QED
      BY <1>5, <1>7, <2>1, <2>3, <3>1 DEF Places, CidPlaces, ExecPlaces
  <2> QED
    BY <2>2, <2>3
<1>13. ExecHandler => Goal
  <2> SUFFICES ASSUME ExecHandler PROVE Goal
    OBVIOUS
  <2>1. dac.at = "handlers" /\ listening' /\ call["dac"] = Nil /\ dac.on \in DOMAIN HandlerList
    BY <1>1, <1>7 DEF ExecHandler, CidPlaces
  <2>2. ~start_flag'
    BY <1>1, <2>1 DEF ExecHandler, DacShape
  <2>3. CASE up[HostOf[HandlerList[dac.on]]]
    <3> DEFINE n == HandlerList[dac.on]
               m == dac.on
    <3>1. Reply("dac", Exec(HostOf[n], n)) /\ dac' = At("handlerCid", m, dac.why)
      BY <2>3 DEF ExecHandler, Asks
    <3>2. Exec(HostOf[n], n) = Question("handlerCid", n)
      BY DEF Question
    <3> HIDE DEF Goal
    <3> QED
      BY <1>6, <1>7, <2>1, <2>2, <3>1, <3>2 DEF CidPlaces
  <2>4. CASE ~up[HostOf[HandlerList[dac.on]]]
    <3>1. dac' = Serving /\ call' = call
      BY <2>4 DEF ExecHandler, StartFailed
    <3> HIDE DEF Goal
    <3> QED
      BY <1>5, <1>7, <2>1, <3>1 DEF Places, CidPlaces, ExecPlaces, Serving
  <2> QED
    BY <2>3, <2>4
<1>14. HandlerAnswers => Goal
  <2> SUFFICES ASSUME HandlerAnswers PROVE Goal
    OBVIOUS
  <2>1. call'["dac"] = Nil /\ listening' /\ dac.on \in DOMAIN HandlerList /\ ~start_flag'
    BY <1>1, <1>2, <1>7 DEF HandlerAnswers, Hangup, Reply, DacShape
  <2>2. dac.on + 1 \in Nat \ {0}
    <3>1. DOMAIN HandlerList \subseteq Nat
      BY ControllerAssumption
    <3> QED
      BY <2>1, <3>1
  <2>3. dac' = At("handlers", dac.on + 1, dac.why) \/ dac' = At("killHandlers", 1, dac.why)
    BY DEF HandlerAnswers
  <2>6. dac.why = "START"
    BY <1>7 DEF HandlerAnswers
  <2> HIDE DEF Goal
  <2>4. CASE dac' = At("handlers", dac.on + 1, dac.why)
    BY <1>5, <1>7, <2>1, <2>2, <2>4, <2>6 DEF Places, CidPlaces, ExecPlaces
  <2>5. CASE dac' = At("killHandlers", 1, dac.why)
    BY <1>5, <1>7, <2>1, <2>5, <2>6 DEF Places, CidPlaces, ExecPlaces
  <2> QED
    BY <2>3, <2>4, <2>5
<1>15. HandlersStarted \/ ProcessAnswers => Goal
  <2> SUFFICES ASSUME HandlersStarted \/ ProcessAnswers PROVE Goal
    OBVIOUS
  <2>1. (\E y : y # "SIGTERM" /\ dac' = At("exec", Nil, y)) /\ call'["dac"] = Nil /\ listening'
    BY <1>1, <1>7 DEF HandlersStarted, ProcessAnswers, cidVars, CidPlaces
  <2> HIDE DEF Goal
  <2> QED
    BY <1>5, <1>7, <2>1 DEF Places, CidPlaces, ExecPlaces
<1>16. ExecProcess => Goal
  <2> SUFFICES ASSUME ExecProcess PROVE Goal
    OBVIOUS
  <2> DEFINE n == FirstOf(Ready)
  <2>1. dac.at = "exec" /\ listening' /\ call["dac"] = Nil
    BY <1>1, <1>7 DEF ExecProcess, CidPlaces
  <2>2. n \in Procs
    BY FirstIn DEF ExecProcess, Ready
  <2>3. CASE up[HostOf[n]]
    <3>1. Reply("dac", Exec(HostOf[n], n)) /\ dac' = At("execCid", n, dac.why)
      BY <2>3 DEF ExecProcess, Asks
    <3>2. Exec(HostOf[n], n) = Question("execCid", n)
      BY DEF Question
    <3> HIDE DEF Goal, n
    <3> QED
      BY <1>6, <1>7, <2>1, <2>2, <3>1, <3>2 DEF CidPlaces
  <2>4. CASE ~up[HostOf[n]]
    <3>1. dac' = dac /\ call' = call
      BY <2>4 DEF ExecProcess
    <3>2. dac = At("exec", dac.on, dac.why)
      BY <1>1, <2>1 DEF DacShape
    <3> HIDE DEF Goal, n
    <3> QED
      BY <1>5, <1>7, <2>1, <3>1, <3>2 DEF Places, CidPlaces, ExecPlaces
  <2> QED
    BY <2>3, <2>4
<1>17. ProcessForked => Goal
  <2> SUFFICES ASSUME ProcessForked PROVE Goal
    OBVIOUS
  <2>1. call'["dac"] = Nil /\ listening' /\ dac.on \in Procs /\ dac = At(dac.at, dac.on, dac.why)
    BY <1>1, <1>2, <1>7 DEF ProcessForked, Hangup, Reply, DacShape
  <2>2. dac' = [dac EXCEPT !.at = "execHello"] \/ dac' = At("exec", Nil, dac.why)
    BY DEF ProcessForked
  <2>3. [dac EXCEPT !.at = "execHello"] = At("execHello", dac.on, dac.why)
    BY <2>1 DEF At
  <2> HIDE DEF Goal
  <2>4. CASE dac' = At("execHello", dac.on, dac.why)
    BY <1>5, <1>7, <2>1, <2>4 DEF Places, CidPlaces, ExecPlaces
  <2>5. CASE dac' = At("exec", Nil, dac.why)
    BY <1>5, <1>7, <2>1, <2>5 DEF Places, CidPlaces, ExecPlaces
  <2> QED
    BY <2>2, <2>3, <2>4, <2>5
<1>18. OpExitProcess => Goal
  <2> SUFFICES ASSUME OpExitProcess PROVE Goal
    OBVIOUS
  <2>1. dac = Serving /\ call' = call /\ listening' = listening /\ listening /\ start_flag' = start_flag /\ call["dac"] = Nil
    BY <1>1, DacGuards DEF OpExitProcess, CidPlaces
  <2>2. dac' = dac \/ dac' = At("exec", Nil, "EXIT_PROCESS") \/ dac' = At("killAll", Nil, "TERM")
    BY DEF OpExitProcess
  <2> HIDE DEF Goal
  <2>3. CASE dac' = At("exec", Nil, "EXIT_PROCESS")
    BY <1>5, <1>7, <2>1, <2>3 DEF Places, CidPlaces, ExecPlaces
  <2>4. CASE dac' = At("killAll", Nil, "TERM")
    BY <1>5, <1>7, <2>1, <2>4 DEF Places, CidPlaces, ExecPlaces
  <2> QED
    BY <1>4, <2>1, <2>2, <2>3, <2>4
<1>19. OpKillProcess => Goal
  <2> SUFFICES ASSUME OpKillProcess PROVE Goal
    OBVIOUS
  <2>1. dac = Serving /\ UNCHANGED <<listening, start_flag>> /\ listening
    BY DacGuards DEF OpKillProcess
  <2>2. PICK n \in Procs : (Asks(Kill(HostOf[n], n), At("killCid", n, "KILL"))) \/ UNCHANGED <<call, dac>>
    BY DEF OpKillProcess
  <2>3. Kill(HostOf[n], n) = Question("killCid", n)
    BY DEF Question
  <2> HIDE DEF Goal
  <2> QED
    BY <1>4, <1>6, <1>7, <2>1, <2>2, <2>3 DEF CidPlaces, Asks
<1>20. OpKillAll => Goal
  <2> SUFFICES ASSUME OpKillAll PROVE Goal
    OBVIOUS
  <2>1. (\E y \in {"KILL_ALL", "EXIT"} : dac' = At("killAll", Nil, y)) /\ call'["dac"] = Nil /\ listening'
    BY <1>1, DacGuards DEF OpKillAll, cidVars, CidPlaces
  <2> HIDE DEF Goal
  <2> QED
    BY <1>5, <1>7, <2>1 DEF Places, CidPlaces, ExecPlaces
<1>21. KillNext => Goal
  <2> SUFFICES ASSUME KillNext PROVE Goal
    OBVIOUS
  <2> DEFINE n == FirstOf(Running)
  <2>1. dac.at = "killAll" /\ listening' /\ call["dac"] = Nil /\ dac.why # "KILL"
    BY <1>1, <1>7 DEF KillNext, CidPlaces, DacShape
  <2>2. n \in Procs
    BY FirstIn DEF KillNext, Running
  <2>3. CASE up[HostOf[n]]
    <3>1. Reply("dac", Kill(HostOf[n], n)) /\ dac' = At("killCid", n, dac.why)
      BY <2>3 DEF KillNext, Asks
    <3>2. Kill(HostOf[n], n) = Question("killCid", n)
      BY DEF Question
    <3> HIDE DEF Goal, n
    <3> QED
      BY <1>6, <1>7, <2>1, <2>2, <3>1, <3>2 DEF CidPlaces
  <2>4. CASE ~up[HostOf[n]]
    <3>1. dac' = dac /\ call' = call
      BY <2>4 DEF KillNext
    <3>2. dac = At("killAll", dac.on, dac.why)
      BY <1>1, <2>1 DEF DacShape
    <3> HIDE DEF Goal, n
    <3> QED
      BY <1>5, <1>7, <2>1, <3>1, <3>2 DEF Places, CidPlaces, ExecPlaces
  <2> QED
    BY <2>3, <2>4
<1>22. Killed => Goal
  <2> SUFFICES ASSUME Killed PROVE Goal
    OBVIOUS
  <2>1. call'["dac"] = Nil /\ listening'
    BY <1>1, <1>2, <1>7 DEF Killed, Hangup, Reply
  <2>2. dac' = Serving \/ (dac.why \notin {"KILL", "START"} /\ dac' = At("killAll", Nil, dac.why))
    BY <1>7 DEF Killed
  <2> HIDE DEF Goal
  <2>3. CASE dac' = Serving
    BY <1>5, <1>7, <2>1, <2>3 DEF Places, CidPlaces, ExecPlaces, Serving
  <2> QED
    BY <1>5, <1>7, <2>1, <2>2, <2>3 DEF Places, CidPlaces, ExecPlaces
<1>23. ProcessesKilled => Goal
  <2> SUFFICES ASSUME ProcessesKilled PROVE Goal
    OBVIOUS
  <2>1. dac' = At("killHandlers", 1, dac.why) /\ call'["dac"] = Nil /\ listening' /\ dac.why \notin {"KILL", "START"}
    BY <1>1, <1>7 DEF ProcessesKilled, cidVars, CidPlaces, DacShape
  <2> HIDE DEF Goal
  <2> QED
    BY <1>5, <1>7, <2>1 DEF Places, CidPlaces, ExecPlaces
<1>24. KillHandler => Goal
  <2> SUFFICES ASSUME KillHandler PROVE Goal
    OBVIOUS
  <2>1. dac.at = "killHandlers" /\ dac.on \in Nat \ {0} /\ call'["dac"] = Nil /\ listening' /\ dac.why # "KILL"
    BY <1>1, <1>7 DEF KillHandler, CidPlaces, DacShape
  <2>2. dac' = At("killHandlers", dac.on + 1, dac.why)
    BY <1>1, <2>1 DEF KillHandler, DacShape, At
  <2>3. dac.why = "START" => ~start_flag'
    BY <1>1, <2>1 DEF KillHandler, DacShape
  <2> HIDE DEF Goal
  <2> QED
    BY <1>5, <1>7, <2>1, <2>2, <2>3 DEF Places, CidPlaces, ExecPlaces
<1>25. HandlersKilled => Goal
  <2> SUFFICES ASSUME HandlersKilled PROVE Goal
    OBVIOUS
  <2>1. dac' = At("serve", Nil, Nil) /\ call'["dac"] = Nil /\ listening'
    BY <1>1, <1>7 DEF HandlersKilled, StartFailed, cidVars, CidPlaces
  <2> HIDE DEF Goal
  <2> QED
    BY <1>5, <1>7, <2>1 DEF Places, CidPlaces, ExecPlaces
<1>26. End => Goal
  <2> SUFFICES ASSUME End PROVE Goal
    OBVIOUS
  <2>1. dac' = At("over", Nil, dac.why) /\ call'["dac"] = Nil /\ ~listening'
    BY <1>1 DEF End, CidPlaces
  <2> HIDE DEF Goal
  <2> QED
    BY <1>5, <1>7, <2>1 DEF Places, CidPlaces, ExecPlaces
<1>27. OpFddChangeProc \/ OpGetCpulist => Goal
  <2> SUFFICES ASSUME OpFddChangeProc \/ OpGetCpulist PROVE Goal
    OBVIOUS
  <2>1. dac = Serving /\ dac' = dac /\ UNCHANGED <<call, listening, start_flag>>
    BY DacGuards DEF OpFddChangeProc, OpGetCpulist, dacVars
  <2> QED
    BY <1>4, <2>1
<1> HIDE DEF Goal
<1> QED
  BY <1>8, <1>9, <1>10, <1>11, <1>12, <1>13, <1>14, <1>15, <1>16, <1>17, <1>18, <1>19, <1>20, <1>21,
     <1>22, <1>23, <1>24, <1>25, <1>26, <1>27 DEF DacStep, Dac

\* DAC keeps its shape.
LEMMA DacShapeKept ==
  ASSUME AppInv, AppStep
  PROVE  DacShape'
<1>1. CASE DacStep
  BY <1>1, DacMoves
<1>2. CASE CidStep \/ NewsStep \/ AsideStep \/ UNCHANGED appVars
  <2>1. UNCHANGED <<dac, listening, start_flag>>
    BY <1>2, CidFrame, NewsFrame, AsideFrame DEF appVars, cidVars, dacVars
  <2> QED
    BY <2>1 DEF AppInv, DacShape
<1> QED
  BY <1>1, <1>2, Steps

\* DAC asks a CID only about what it is at, and gets an answer of the kind.
LEMMA DacCallKept ==
  ASSUME AppInv, AppStep
  PROVE  /\ dac'.at \notin CidPlaces => call'["dac"] = Nil
         /\ (Pending("dac"))' => call'["dac"] = Question(dac'.at, (Asked)')
         /\ (Answered)' /\ call'["dac"].op = "ANSWER" => call'["dac"].ok \in BOOLEAN /\ call'["dac"].value \in Nat
<1> DEFINE Goal == /\ dac'.at \notin CidPlaces => call'["dac"] = Nil
                   /\ (Pending("dac"))' => call'["dac"] = Question(dac'.at, (Asked)')
                   /\ (Answered)' /\ call'["dac"].op = "ANSWER" => call'["dac"].ok \in BOOLEAN /\ call'["dac"].value \in Nat
<1> SUFFICES Goal
  OBVIOUS
<1>0. /\ dac.at \notin CidPlaces => call["dac"] = Nil
      /\ Pending("dac") => call["dac"] = Question(dac.at, Asked)
      /\ Answered /\ call["dac"].op = "ANSWER" => call["dac"].ok \in BOOLEAN /\ call["dac"].value \in Nat
  BY DEF AppInv, CallsFit, Question
<1>1. CASE DacStep
  <2>1. \/ dac'.at \notin CidPlaces /\ call'["dac"] = Nil
        \/ dac'.at \in CidPlaces /\ call'["dac"] = Question(dac'.at, (Asked)')
    BY <1>1, DacMoves DEF DacCallFits
  <2>2. \A p, n : Question(p, n).op \notin {"ANSWER", "NO_ANSWER"}
    BY DEF Question, Verify, Kill, Exec
  <2> QED
    BY <2>1, <2>2 DEF Answered, Pending
<1>2. CASE CidStep \/ NewsStep \/ AsideStep
  <2>1. dac' = dac /\ (Asked)' = Asked
    BY <1>2, DacCall
  <2>2. CASE call'["dac"] = call["dac"]
    BY <1>0, <2>1, <2>2 DEF Answered, Pending
  <2>3. CASE Pending("dac") /\ ~(Pending("dac"))' /\ call'["dac"] \in Answers \cup {NoAnswer}
    <3>1. dac.at \in CidPlaces
      BY <1>0, <2>3 DEF Pending
    <3>2. call'["dac"].op = "ANSWER" => call'["dac"].ok \in BOOLEAN /\ call'["dac"].value \in Nat
      BY <2>3 DEF Answers, NoAnswer
    <3> QED
      BY <2>1, <2>3, <3>1, <3>2
  <2> QED
    BY <1>2, <2>2, <2>3, DacCall
<1>3. CASE UNCHANGED appVars
  BY <1>0, <1>3 DEF appVars, cidVars, dacVars, Answered, Pending, Asked
<1> QED
  BY <1>1, <1>2, <1>3, Steps

\* So does FDD.
LEMMA FddCallKept ==
  ASSUME AppInv, AppStep
  PROVE  /\ call'["fdd"] # Nil => fdd'.at = "answer"
         /\ (Pending("fdd"))' => call'["fdd"] = (Detect(Watch.host, Watch.pid))'
<1>0. /\ call["fdd"] # Nil => fdd.at = "answer"
      /\ Pending("fdd") => call["fdd"] = Detect(Watch.host, Watch.pid)
      /\ "fdd" \in Callers /\ DOMAIN call = Callers
  BY ApplicationAssumption DEF AppInv, CallsFit, AppTypeOK, CidTypeOK
<1>1. CASE UNCHANGED fddVars
  <2>1. UNCHANGED <<fdd, host_list>>
    BY <1>1 DEF fddVars
  <2>2. call'["fdd"] = call["fdd"] \/ (Pending("fdd") /\ ~(Pending("fdd"))')
    BY <1>1, FddCall
  <2>3. (Detect(Watch.host, Watch.pid))' = Detect(Watch.host, Watch.pid)
    BY <2>1 DEF Watch
  <2> QED
    BY <1>0, <2>1, <2>2, <2>3 DEF Pending
<1>2. CASE start_fdd \/ InitFails \/ TellDac \/ Tfddretrievetuple
  <2>1. fdd.at # "answer" /\ call' = call
    BY <1>2 DEF start_fdd, InitFails, TellDac, Tfddretrievetuple, cidVars
  <2> QED
    BY <1>0, <2>1 DEF Pending
<1>3. CASE OpGetCpulist
  <2>1. call' = call
    BY <1>3 DEF OpGetCpulist
  <2> QED
    BY <1>0, <1>3, <2>1, ListAsked DEF Pending
<1>4. CASE Pinged \/ StopFdd
  BY <1>0, <1>4 DEF Pinged, StopFdd, Reply, Pending
<1>5. CASE Ping
  <2>1. fdd.at = "ping"
    BY <1>5 DEF Ping
  <2>2. CASE Watch.fault_flag
    <3>1. call' = call
      BY <1>5, <2>2 DEF Ping
    <3> QED
      BY <1>0, <2>1, <3>1 DEF Pending
  <2>3. CASE ~Watch.fault_flag
    <3>1. call'["fdd"] = Detect(Watch.host, Watch.pid) /\ fdd' = FddAt("answer", fdd.on) /\ host_list' = host_list
      BY <1>0, <1>5, <2>3 DEF Ping, Reply
    <3>2. fdd'.at = "answer" /\ fdd'.on = fdd.on
      BY <3>1 DEF FddAt
    <3>3. (Watch)' = Watch
      BY <3>1, <3>2 DEF Watch
    <3> QED
      BY <3>1, <3>2, <3>3
  <2> QED
    BY <2>2, <2>3
<1> QED
  BY <1>1, <1>2, <1>3, <1>4, <1>5, FddFrame

\* The operator's calls are his deeds.
LEMMA UserCallKept ==
  ASSUME AppInv, AppStep
  PROVE  /\ \A c \in Callers \ {"dac", "fdd", "user"} : call'[c] = Nil
         /\ (Pending("user"))' => \E h \in Hosts : call'["user"] = KillApp(h) /\ Event("KILL_APP", h) \in done'
         /\ DOMAIN call' = Callers /\ done' \subseteq Outside
<1> DEFINE Goal == /\ \A c \in Callers \ {"dac", "fdd", "user"} : call'[c] = Nil
                   /\ (Pending("user"))' => \E h \in Hosts : call'["user"] = KillApp(h) /\ Event("KILL_APP", h) \in done'
                   /\ DOMAIN call' = Callers /\ done' \subseteq Outside
<1> SUFFICES Goal
  OBVIOUS
<1>0. /\ \A c \in Callers \ {"dac", "fdd", "user"} : call[c] = Nil
      /\ Pending("user") => \E h \in Hosts : call["user"] = KillApp(h) /\ Event("KILL_APP", h) \in done
      /\ DOMAIN call = Callers /\ "user" \in Callers /\ "user" # "fdd" /\ "user" # "dac"
  BY ApplicationAssumption DEF AppInv, CallsFit, AppTypeOK, CidTypeOK
<1>1. done \subseteq done' /\ done' \subseteq Outside
  <2>1. CASE CidStep
    <3>1. done' = done \/ \E h \in Hosts : HostLost(h)
      BY <2>1 DEF CidStep, CidServes, CidStarts, Death, Fail, Program, Rest
    <3> QED
      BY <3>1 DEF HostLost, Happens, AppInv, AppTypeOK
  <2>2. CASE NewsStep
    BY <2>2 DEF NewsStep, SendVerify, SendStart, SendExit, exit_app, kill_process, Happens, AppInv, AppTypeOK
  <2>3. CASE AsideStep
    BY <2>3 DEF AsideStep, kill_app, Happens, AppInv, AppTypeOK
  <2>4. CASE DacStep
    BY <2>4 DEF DacStep, Dac, Kept, Happens, AppInv, AppTypeOK
  <2>5. CASE UNCHANGED appVars
    BY <2>5 DEF appVars, AppInv, AppTypeOK
  <2> QED
    BY <2>1, <2>2, <2>3, <2>4, <2>5, Steps
<1>2. ASSUME DOMAIN call' = Callers, call'["user"] = call["user"], \A c \in Callers \ {"dac", "fdd", "user"} : call'[c] = call[c]
      PROVE  Goal
  BY <1>0, <1>1, <1>2 DEF Pending
<1>3. CASE CidStep
  <2>1. DOMAIN call' = Callers
    BY <1>3, CidCalls
  <2>2. \A c \in Callers : call'[c] = call[c] \/ (Pending(c) /\ ~(Pending(c))')
    BY <1>3, CidCalls, AnswersEnd
  <2>3. \A c \in Callers \ {"dac", "fdd", "user"} : ~Pending(c)
    BY <1>0 DEF Pending
  <2> QED
    BY <1>0, <1>1, <2>1, <2>2, <2>3 DEF Pending
<1>4. CASE NewsStep
  <2>1. call' = call
    BY <1>4, NewsFrame
  <2> HIDE DEF Goal
  <2> QED
    BY <1>0, <1>2, <2>1
<1>5. CASE AsideStep
  <2>1. CASE InitFails \/ Tfddretrievetuple \/ Ping \/ Pinged \/ StopFdd
    <3>1. call' = call \/ \E a : call' = [call EXCEPT !["fdd"] = a]
      BY <2>1 DEF InitFails, Tfddretrievetuple, Ping, Pinged, StopFdd, Reply, cidVars
    <3> HIDE DEF Goal
    <3> QED
      BY <1>0, <1>2, <3>1
  <2>2. ASSUME NEW h \in Hosts, kill_app(h) PROVE Goal
    <3>1. call' = [call EXCEPT !["user"] = KillApp(h)] /\ Event("KILL_APP", h) \in done'
      BY <2>2 DEF kill_app, Reply, Happens
    <3> QED
      BY <1>0, <1>1, <3>1
  <2> HIDE DEF Goal
  <2> QED
    BY <1>5, <2>1, <2>2 DEF AsideStep
<1>6. CASE DacStep
  <2>1. DOMAIN call' = Callers /\ \A c \in Callers : c # "dac" => call'[c] = call[c]
    BY <1>6, DacCallsOnly
  <2> HIDE DEF Goal
  <2> QED
    BY <1>0, <1>2, <2>1
<1>7. CASE UNCHANGED appVars
  <2>1. call' = call
    BY <1>7 DEF appVars, cidVars
  <2> HIDE DEF Goal
  <2> QED
    BY <1>0, <1>2, <2>1
<1> HIDE DEF Goal
<1> QED
  BY <1>3, <1>4, <1>5, <1>6, <1>7, Steps

\* What is asked of a CID, and its answer, fit who asks.
LEMMA CallsKept ==
  ASSUME AppInv, AppStep
  PROVE  CallsFit'
<1>1. (Pending("dac"))' => call'["dac"].host = HostOf[(Asked)']
  BY DacCallKept DEF Question, Verify, Kill, Exec
<1>2. (Pending("dac"))' => call'["dac"] =
        IF dac'.at = "verifyCid" THEN Verify(HostOf[(Asked)'], (Asked)')
        ELSE IF dac'.at = "killCid" THEN Kill(HostOf[(Asked)'], (Asked)') ELSE Exec(HostOf[(Asked)'], (Asked)')
  BY DacCallKept DEF Question
<1>3. /\ dac'.at \notin CidPlaces => call'["dac"] = Nil
      /\ (Answered)' /\ call'["dac"].op = "ANSWER" => call'["dac"].ok \in BOOLEAN /\ call'["dac"].value \in Nat
  BY DacCallKept
<1>4. /\ \A c \in Callers \ {"dac", "fdd", "user"} : call'[c] = Nil
      /\ (Pending("user"))' => \E h \in Hosts : call'["user"] = KillApp(h) /\ Event("KILL_APP", h) \in done'
  BY UserCallKept
<1>5. /\ call'["fdd"] # Nil => fdd'.at = "answer"
      /\ (Pending("fdd"))' => call'["fdd"] = (Detect(Watch.host, Watch.pid))'
  BY FddCallKept
<1> QED
  BY <1>1, <1>2, <1>3, <1>4, <1>5 DEF CallsFit

\* The types.
LEMMA TypesKept ==
  ASSUME AppInv, AppStep
  PROVE  AppTypeOK'
<1>1. DacTypeOK' /\ FddTypeOK'
  BY DacTypesKept, FddTypesKept
<1>2. DOMAIN call' = Callers /\ done' \subseteq Outside
  BY UserCallKept
<1>3. listening' \in BOOLEAN
  <2>1. CASE CidStep \/ NewsStep \/ AsideStep \/ UNCHANGED appVars
    <3>1. listening' = listening
      BY <2>1, CidFrame, NewsFrame, AsideFrame DEF appVars, cidVars
    <3> QED
      BY <3>1 DEF AppInv, AppTypeOK, CidTypeOK
  <2>2. CASE DacStep
    <3>1. listening' = listening \/ listening' = FALSE
      <4>1. OpVerifyApp \/ VerifyNext \/ VerifyAnswered \/ Verified \/ OpStart \/ ExecHandler \/ HandlerAnswers
              \/ HandlersStarted \/ ExecProcess \/ ProcessForked => listening' = listening
        BY DEF OpVerifyApp, VerifyNext, VerifyAnswered, Verified, OpStart, ExecHandler, HandlerAnswers,
               HandlersStarted, ExecProcess, ProcessForked, cidVars
      <4>2. ProcessAnswers \/ ExecDone \/ OpExitProcess \/ OpKillProcess \/ OpKillAll \/ KillNext \/ Killed
              \/ OpFddChangeProc \/ OpGetCpulist => listening' = listening
        BY DEF ProcessAnswers, ExecDone, OpExitProcess, OpKillProcess, OpKillAll, KillNext, Killed,
               OpFddChangeProc, OpGetCpulist, cidVars
      <4>3. Closing => listening' = listening \/ listening' = FALSE
        BY DEF Closing, ProcessesKilled, KillHandler, HandlersKilled, End, cidVars
      <4> QED
        BY <2>2, <4>1, <4>2, <4>3 DEF DacStep, Dac, Closing
    <3> QED
      BY <3>1 DEF AppInv, AppTypeOK, CidTypeOK
  <2> QED
    BY <2>1, <2>2, Steps
<1>4. \A h \in Hosts : starting'[h] # Nil => starting'[h].slot \in (Used(h))'
  BY StartingKept DEF StartingFits, StartFits, Used
<1>5. CidTypeOK'
  BY <1>2, <1>3, <1>4, TablesStay, ChildrenGoOn DEF CidTypeOK, Tables
<1>6. \A c \in Callers : (Pending(c))' => call'[c].host \in Hosts
  <2> SUFFICES ASSUME NEW c \in Callers, (Pending(c))' PROVE call'[c].host \in Hosts
    OBVIOUS
  <2>1. CASE c \in Callers \ {"dac", "fdd", "user"}
    BY <2>1, UserCallKept DEF Pending
  <2>2. CASE c = "user"
    <3>1. PICK h \in Hosts : call'["user"] = KillApp(h)
      BY <2>2, UserCallKept
    <3> QED
      BY <2>2, <3>1 DEF KillApp
  <2>3. CASE c = "dac"
    <3>1. call'["dac"] = Question(dac'.at, (Asked)') /\ dac'.at \in CidPlaces
      BY <2>3, DacCallKept DEF Pending
    <3>2. (Asked)' \in Names
      <4>1. DacShape'
        BY DacShapeKept
      <4> QED
        BY <3>1, <4>1, Listed DEF DacShape, Asked, CidPlaces, Names
    <3>3. HostOf[(Asked)'] \in Hosts
      BY <3>2, ControllerAssumption
    <3> QED
      BY <2>3, <3>1, <3>3 DEF Question, Verify, Kill, Exec
  <2>4. CASE c = "fdd"
    <3>1. call'["fdd"] = (Detect(Watch.host, Watch.pid))' /\ fdd'.at = "answer"
      BY <2>4, FddCallKept DEF Pending
    <3>2. Len(host_list') = Len(ProcList)
      BY <3>1, FddKept DEF FddFits, Watching
    <3>3. fdd'.on \in 1 .. Len(ProcList) /\ host_list' \in Seq(FddEntry)
      BY <1>1 DEF FddTypeOK, FddEntry
    <3>4. host_list'[fdd'.on] \in FddEntry
      BY <3>2, <3>3, ElementOfSeq
    <3> QED
      BY <2>4, <3>1, <3>4 DEF Watch, Detect, FddEntry
  <2> QED
    BY <2>1, <2>2, <2>3, <2>4
<1> QED
  BY <1>1, <1>2, <1>5, <1>6 DEF AppTypeOK

-----------------------------------------------------------------------------
(* The entries.                                                             *)

\* An entry that keeps its pid and its name.
LEMMA EntryStays ==
  ASSUME AppInv, AppStep, NEW h \in Hosts, up[h], NEW i \in Slots,
         table'[h][i].pid = table[h][i].pid, table'[h][i].name = table[h][i].name,
         table'[h][i].port = table[h][i].port, table'[h][i].used => table[h][i].used,
         table'[h][i].dead => table[h][i].dead \/ (table[h][i].pid \in Pids /\ child'[table[h][i].pid].at = "gone"),
         table'[h][i].used /\ BeingFilled(h, i) => (BeingFilled(h, i))'
  PROVE  (EntryFits(h, i))'
<1> DEFINE e == table[h][i]
<1>1. EntryFits(h, i)
  BY DEF AppInv, TableFits
<1>2. Pids \subseteq Pids' /\ \A p \in Pids : GoesOn(p)
  BY ChildrenGoOn
<1>3. table'[h][i].pid \in Pids' \cup {0}
  BY <1>1, <1>2 DEF EntryFits
<1>4. table'[h][i].used => /\ table'[h][i].name \in Names /\ HostOf[table'[h][i].name] = h
                           /\ (table'[h][i].port <=> table'[h][i].name \in Procs)
  BY <1>1 DEF EntryFits
<1>5. table'[h][i].used /\ ~(BeingFilled(h, i))' => table'[h][i].pid \in Pids' /\ child'[table'[h][i].pid].name = table'[h][i].name
  BY <1>1, <1>2 DEF EntryFits, PidsOf, GoesOn
<1>6. table'[h][i].dead => table'[h][i].pid # 0
                           /\ (child'[table'[h][i].pid].name \in Procs => child'[table'[h][i].pid].at \in {"zombie", "gone"})
  <2> SUFFICES ASSUME table'[h][i].dead
               PROVE  e.pid # 0 /\ (child'[e.pid].name \in Procs => child'[e.pid].at \in {"zombie", "gone"})
    OBVIOUS
  <2>1. CASE e.dead
    <3>1. e.pid # 0 /\ e.pid \in Pids /\ (child[e.pid].name \in Procs => child[e.pid].at \in {"zombie", "gone"})
      BY <1>1, <2>1 DEF EntryFits, Ended
    <3> HIDE DEF e
    <3> QED
      BY <1>2, <3>1 DEF GoesOn, Course
  <2>2. CASE ~e.dead
    <3>1. e.pid \in Pids /\ child'[e.pid].at = "gone"
      BY <2>2
    <3>2. 0 \notin Pids
      BY DEF Pids
    <3> QED
      BY <3>1, <3>2
  <2> QED
    BY <2>1, <2>2
<1> QED
  BY <1>3, <1>4, <1>5, <1>6 DEF EntryFits, PidsOf, Ended

\* The entries of the tables stay true of the programs.
LEMMA TableKept ==
  ASSUME AppInv, AppStep
  PROVE  TableFits'
<1>1. SUFFICES ASSUME NEW h \in Hosts, up'[h], NEW i \in Slots PROVE (EntryFits(h, i))'
  BY DEF TableFits
<1>2. up[h]
  BY <1>1, TablesStay
<1>3. DOMAIN starting = Hosts
  BY TableTypes
<1>4. ASSUME UNCHANGED <<table, starting>> PROVE (EntryFits(h, i))'
  <2>1. table'[h][i] = table[h][i] /\ ((BeingFilled(h, i))' <=> BeingFilled(h, i))
    BY <1>4 DEF BeingFilled
  <2> QED
    BY <1>2, <2>1, EntryStays
<1>5. CASE NewsStep \/ AsideStep \/ DacStep \/ UNCHANGED appVars
  BY <1>4, <1>5, NewsFrame, AsideFrame, DacFrame DEF appVars, cidVars
<1>6. ASSUME NEW g \in Hosts, NEW c \in Callers, CidServes(g, c) PROVE (EntryFits(h, i))'
  <2>1. CASE OpVerify(g, c) \/ OpExecRefused(g, c)
    BY <1>4, <2>1, AnswersDac
  <2>2. CASE FillSlot(g, c)
    <3>1. PICK f : f = getSlot(g)
      OBVIOUS
    <3>2. /\ f \in Slots /\ g = HostOf[Asked] /\ Asked \in Names /\ (\A x \in Hosts : starting[x] = Nil)
          /\ table'[g][f].used /\ ~table'[g][f].dead /\ table'[g][f].pid = table[g][f].pid
          /\ table'[g][f].name = Asked /\ (table'[g][f].port <=> Asked \in Procs)
      BY <2>2, <3>1, Filled
    <3>3. \A x \in Hosts, j \in Slots : ~(x = g /\ j = f) => table'[x][j] = table[x][j]
      BY <2>2, <3>1, Filled
    <3>4. starting' = [starting EXCEPT ![g] = [by |-> "dac", slot |-> f, pid |-> 0]]
      BY <2>2, <3>1, Filled
    <3>5. CASE h = g /\ i = f
      <4>1. starting'[h] = [by |-> "dac", slot |-> f, pid |-> 0]
        BY <1>3, <3>4, <3>5
      <4>2. [by |-> "dac", slot |-> f, pid |-> 0] # Nil
        BY <3>2, TableAssumption, ControllerAssumption
      <4>3. (BeingFilled(h, i))'
        BY <3>5, <4>1, <4>2 DEF BeingFilled
      <4>4. table[h][i].pid \in Pids \cup {0}
        BY <1>2 DEF AppInv, TableFits, EntryFits
      <4>5. Pids \subseteq Pids'
        BY ChildrenGoOn
      <4> QED
        BY <3>2, <3>5, <4>3, <4>4, <4>5 DEF EntryFits
    <3>6. CASE ~(h = g /\ i = f)
      <4>1. table'[h][i] = table[h][i] /\ ~BeingFilled(h, i)
        BY <3>2, <3>3, <3>6 DEF BeingFilled
      <4> QED
        BY <1>2, <4>1, EntryStays
    <3> QED
      BY <3>5, <3>6
  <2>3. CASE OpKill(g, c)
    <3>1. /\ table'[h][i].pid = table[h][i].pid /\ table'[h][i].name = table[h][i].name
          /\ table'[h][i].port = table[h][i].port /\ (table'[h][i].used => table[h][i].used)
          /\ (table'[h][i].dead => table[h][i].dead) /\ ~BeingFilled(h, i)
      BY <2>3, Kills DEF BeingFilled
    <3> QED
      BY <1>2, <3>1, EntryStays
  <2>4. CASE OpKillApp(g, c)
    <3>1. /\ table'[h][i].pid = table[h][i].pid /\ table'[h][i].name = table[h][i].name
          /\ table'[h][i].port = table[h][i].port /\ (table'[h][i].used => table[h][i].used)
          /\ (table'[h][i].dead => table[h][i].dead) /\ ((BeingFilled(h, i))' <=> BeingFilled(h, i))
      BY <2>4, KillsApp DEF BeingFilled
    <3> QED
      BY <1>2, <3>1, EntryStays
  <2>5. CASE OpDetectProc(g, c)
    <3>1. /\ table'[h][i].pid = table[h][i].pid /\ table'[h][i].name = table[h][i].name
          /\ table'[h][i].port = table[h][i].port /\ (table'[h][i].used => table[h][i].used)
          /\ (table'[h][i].dead => table[h][i].dead) /\ ((BeingFilled(h, i))' <=> BeingFilled(h, i))
      BY <2>5, Detects DEF BeingFilled
    <3> QED
      BY <1>2, <3>1, EntryStays
  <2> QED
    BY <1>6, <2>1, <2>2, <2>3, <2>4, <2>5 DEF CidServes
<1>7. ASSUME NEW g \in Hosts, Fork(g) PROVE (EntryFits(h, i))'
  <2>1. table' = table /\ starting[g] # Nil
    BY <1>7 DEF Fork
  <2>2. starting' = [starting EXCEPT ![g].pid = Len(child) + 1]
    BY <1>7, Forks
  <2>3. starting[g] \in [by : {"dac"}, slot : Slots, pid : Nat]
    BY <2>1 DEF AppInv, StartingFits, StartFits
  <2>4. starting'[g].slot = starting[g].slot /\ \A x \in Hosts : x # g => starting'[x] = starting[x]
    BY <1>3, <2>2, <2>3
  <2>5. starting'[g] # Nil
    <3>1. starting'[g] = [starting[g] EXCEPT !.pid = Len(child) + 1]
      BY <1>3, <2>2
    <3>2. Len(child) + 1 \in Nat
      BY ChildTypes DEF AppInv
    <3>3. starting'[g] \in [by : {"dac"}, slot : Slots, pid : Nat]
      BY <2>3, <3>1, <3>2
    <3> QED
      BY <3>3, TableAssumption, ControllerAssumption
  <2>6. (BeingFilled(h, i))' <=> BeingFilled(h, i)
    BY <2>1, <2>4, <2>5 DEF BeingFilled
  <2> QED
    BY <1>2, <2>1, <2>6, EntryStays
<1>8. ASSUME NEW g \in Hosts, EnterPid(g) PROVE (EntryFits(h, i))'
  <2>1. starting[g] # Nil
    BY <1>8, EntersPid
  <2>2. PICK f \in Slots, p \in PidsOf(Asked) :
              /\ f = starting[g].slot /\ p = starting[g].pid /\ p \in Nat \ {0}
              /\ table'[g][f].pid = p
              /\ table'[g][f].used = table[g][f].used /\ table'[g][f].dead = table[g][f].dead
              /\ table'[g][f].name = table[g][f].name /\ table'[g][f].port = table[g][f].port
              /\ \A x \in Hosts, j \in Slots : ~(x = g /\ j = f) => table'[x][j] = table[x][j]
    BY <1>8, EntersPid
  <2>3. child' = child /\ starting' = [starting EXCEPT ![g] = Nil]
    BY <1>8, EntersPid
  <2>5. /\ table[g][f].used /\ table[g][f].name = Asked /\ (Asked \in Procs => table[g][f].pid = 0)
        /\ \A x \in Hosts : starting[x] # Nil => x = g
    BY <2>1, <2>2, Starting
  <2>6. CASE h = g /\ i = f
    <3>1. EntryFits(h, i)
      BY <1>2 DEF AppInv, TableFits
    <3>2. child[p].name = Asked /\ p \in Pids
      BY <2>2 DEF PidsOf
    <3>3. table[h][i].dead => Asked \notin Procs
      BY <2>5, <2>6, <3>1 DEF EntryFits
    <3> QED
      BY <2>2, <2>3, <2>5, <2>6, <3>1, <3>2, <3>3, SMTT(60) DEF EntryFits, PidsOf, Pids
  <2>7. CASE ~(h = g /\ i = f)
    <3>1. table'[h][i] = table[h][i] /\ ~BeingFilled(h, i)
      BY <2>2, <2>5, <2>7 DEF BeingFilled
    <3> QED
      BY <1>2, <3>1, EntryStays
  <2> QED
    BY <2>6, <2>7
<1>9. ASSUME NEW g \in Hosts, NEW p \in Pids, sigchldHandler(g, p) PROVE (EntryFits(h, i))'
  <2>1. /\ table'[h][i].pid = table[h][i].pid /\ table'[h][i].name = table[h][i].name
        /\ table'[h][i].port = table[h][i].port /\ table'[h][i].used = table[h][i].used
        /\ (table'[h][i].dead => table[h][i].dead \/ table[h][i].pid = p) /\ child'[p].at = "gone"
        /\ starting' = starting
    BY <1>9, Dies
  <2> QED
    BY <1>2, <2>1, EntryStays DEF BeingFilled
<1>10. ASSUME NEW g \in Hosts, HostCrash(g) PROVE (EntryFits(h, i))'
  <2>1. h # g /\ table' = table /\ starting'[h] = starting[h]
    BY <1>1, <1>3, <1>10, TableTypes DEF HostCrash
  <2> QED
    BY <1>2, <2>1, EntryStays DEF BeingFilled
<1>11. (\E c \in Callers : CallFails(c)) \/ (\E p \in Pids, s \in Outcomes \cup {"KILLED"} : Ends(p, s)) =>
         UNCHANGED <<table, starting>>
  BY DEF CallFails, Ends
<1>12. CASE CidStep
  BY <1>4, <1>6, <1>7, <1>8, <1>9, <1>10, <1>11, <1>12 DEF CidStep, CidStarts, Death, HostLost, Fail, Program
<1> QED
  BY <1>5, <1>12, Steps

-----------------------------------------------------------------------------
(* The slots.                                                               *)

\* Only a kill frees a slot.
LEMMA SlotsFreed ==
  ASSUME AppInv, AppStep, NEW h \in Hosts, ~Stale(h), (Stale(h))'
  PROVE  CidStep /\ \E c \in Callers : OpKill(h, c) \/ OpKillApp(h, c)
<1>1. PICK i \in Slots : ~table'[h][i].used /\ table'[h][i].pid # 0
  BY DEF Stale
<1>2. table[h][i].used \/ table[h][i].pid = 0
  BY DEF Stale
<1>3. ~(table'[h][i].used = table[h][i].used /\ table'[h][i].pid = table[h][i].pid)
  BY <1>1, <1>2
<1>4. table' # table
  BY <1>3
<1>5. CidStep
  BY <1>4, Steps, NewsFrame, AsideFrame, DacFrame DEF appVars, cidVars
<1>6. ASSUME NEW g \in Hosts, NEW c \in Callers, CidServes(g, c)
      PROVE  g = h /\ (OpKill(g, c) \/ OpKillApp(g, c))
  <2>1. CASE OpVerify(g, c) \/ OpExecRefused(g, c)
    BY <1>4, <2>1, AnswersDac
  <2>2. CASE FillSlot(g, c)
    <3>1. PICK f : f = getSlot(g)
      OBVIOUS
    <3>2. f \in Slots /\ table'[g][f].used
      BY <2>2, <3>1, Filled
    <3>3. \A x \in Hosts, j \in Slots : ~(x = g /\ j = f) => table'[x][j] = table[x][j]
      BY <2>2, <3>1, Filled
    <3> QED
      BY <1>1, <1>3, <3>2, <3>3
  <2>3. CASE OpKill(g, c)
    <3>1. /\ \E k \in Slots : \A x \in Hosts, j \in Slots : ~(x = g /\ j = k) => table'[x][j] = table[x][j]
          /\ g = HostOf[dac.on]
      BY <1>4, <2>3, Kills DEF SlotsOf, Used
    <3> QED
      BY <1>3, <2>3, <3>1
  <2>4. CASE OpKillApp(g, c)
    <3>1. \A x \in Hosts : x # g => table'[x] = table[x]
      BY <2>4, KillsApp
    <3> QED
      BY <1>3, <2>4, <3>1
  <2>5. CASE OpDetectProc(g, c)
    BY <1>3, <2>5, Detects
  <2> QED
    BY <1>6, <2>1, <2>2, <2>3, <2>4, <2>5 DEF CidServes
<1>7. ASSUME NEW g \in Hosts, EnterPid(g) PROVE FALSE
  <2>1. starting[g] # Nil
    BY <1>7, EntersPid
  <2>2. PICK f \in Slots : /\ f = starting[g].slot /\ table'[g][f].used = table[g][f].used
                           /\ \A x \in Hosts, j \in Slots : ~(x = g /\ j = f) => table'[x][j] = table[x][j]
    BY <1>7, EntersPid
  <2>3. table[g][f].used
    BY <2>1, <2>2, Starting
  <2> QED
    BY <1>1, <1>3, <2>2, <2>3
<1>8. ASSUME NEW g \in Hosts, NEW p \in Pids, sigchldHandler(g, p) PROVE FALSE
  BY <1>3, <1>8, Dies
<1>9. (\E g \in Hosts : Fork(g) \/ HostCrash(g)) \/ (\E c \in Callers : CallFails(c))
        \/ (\E p \in Pids, s \in Outcomes \cup {"KILLED"} : Ends(p, s)) => table' = table
  BY DEF Fork, HostCrash, CallFails, Ends
<1> QED
  BY <1>4, <1>5, <1>6, <1>7, <1>8, <1>9 DEF CidStep, CidStarts, Death, HostLost, Fail, Program

\* An EXEC that is under way ends with an answer, or with its host.
LEMMA StartingEnds ==
  ASSUME AppInv, CidStep, NEW h \in Hosts, starting[h] # Nil, starting'[h] = Nil
  PROVE  ~(Pending("dac"))' \/ ~up'[h]
<1>0. DOMAIN starting = Hosts /\ DOMAIN call = Callers /\ "dac" \in Callers
  BY TableTypes, ControllerAssumption DEF AppInv, AppTypeOK, CidTypeOK
<1>1. ASSUME NEW g \in Hosts, NEW c \in Callers, CidServes(g, c) PROVE FALSE
  <2>1. CASE FillSlot(g, c)
    BY <2>1, Filled
  <2>2. CASE OpVerify(g, c) \/ OpExecRefused(g, c) \/ OpKill(g, c) \/ OpKillApp(g, c) \/ OpDetectProc(g, c)
    BY <2>2 DEF OpVerify, OpExecRefused, OpKill, OpKillApp, OpDetectProc
  <2> QED
    BY <1>1, <2>1, <2>2 DEF CidServes
<1>2. ASSUME NEW g \in Hosts, Fork(g) PROVE FALSE
  <2>1. (StartingFits)' /\ AppStep
    BY StartingKept DEF AppStep
  <2>2. starting[g] # Nil
    BY <1>2 DEF Fork
  <2>3. g = h
    BY <2>2, Starting
  <2>4. starting[g] \in [by : {"dac"}, slot : Slots, pid : Nat]
    BY <2>2 DEF AppInv, StartingFits, StartFits
  <2>8. starting' = [starting EXCEPT ![g].pid = Len(child) + 1]
    BY <1>2, Forks
  <2>5. starting'[g] = [starting[g] EXCEPT !.pid = Len(child) + 1]
    BY <1>0, <2>8
  <2>6. Len(child) + 1 \in Nat
    BY ChildTypes DEF AppInv
  <2>7. starting'[g] \in [by : {"dac"}, slot : Slots, pid : Nat]
    BY <2>4, <2>5, <2>6
  <2> QED
    BY <2>3, <2>7, TableAssumption, ControllerAssumption
<1>3. ASSUME NEW g \in Hosts, EnterPid(g) PROVE ~(Pending("dac"))'
  <2>1. \E p : call' = [call EXCEPT !["dac"] = Answer(TRUE, p)]
    BY <1>3, EntersPid
  <2> QED
    BY <1>0, <2>1 DEF Pending, Answer
<1>4. ASSUME NEW g \in Hosts, HostCrash(g) PROVE ~up'[h]
  BY <1>0, <1>4, TableTypes DEF HostCrash
<1>5. (\E c \in Callers : CallFails(c)) \/ (\E g \in Hosts, p \in Pids : sigchldHandler(g, p))
        \/ (\E p \in Pids, s \in Outcomes \cup {"KILLED"} : Ends(p, s)) => starting' = starting
  BY DEF CallFails, sigchldHandler, Ends
<1> QED
  BY <1>1, <1>2, <1>3, <1>4, <1>5 DEF CidStep, CidStarts, Death, HostLost, Fail, Program

\* An application that ends goes on to its end.
LEMMA EndingGoesOn ==
  ASSUME AppInv, AppStep, Ending
  PROVE  Ending'
<1>1. CASE CidStep \/ NewsStep \/ AsideStep \/ UNCHANGED appVars
  <2>1. dac' = dac
    BY <1>1, CidFrame, NewsFrame, AsideFrame DEF appVars, dacVars
  <2> QED
    BY <2>1 DEF Ending
<1>2. CASE DacStep
  <2>1. /\ dac.at \in {"killAll", "killCid", "killHandlers", "over"} /\ dac = At(dac.at, dac.on, dac.why)
        /\ dac.at = "killAll" => dac.why \notin {"KILL", "START"}
        /\ dac.at = "killHandlers" => dac.why # "START"
    BY DEF Ending, AppInv, DacShape
  <2>2. KillNext \/ Closing \/ Killed
    BY <1>2, <2>1, DacGuards DEF DacStep, Dac, Closing
  <2>3. KillNext => dac'.at = "killAll" \/ (dac'.at = "killCid" /\ dac'.why # "KILL")
    <3>1. KillNext => dac.at = "killAll" /\ (dac' = dac \/ \E n : dac' = At("killCid", n, dac.why))
      BY DEF KillNext, Asks
    <3> QED
      BY <2>1, <3>1 DEF At
  <2>4. Closing => dac'.at = "over" \/ (dac'.at = "killHandlers" /\ dac'.why # "START")
    BY <2>1, Closes DEF At
  <2>5. Killed => dac'.at = "killAll"
    BY DEF Killed, At, Ending
  <2> QED
    BY <2>2, <2>3, <2>4, <2>5 DEF Ending
<1> QED
  BY <1>1, <1>2, Steps

\* A process that has left WAITING and READY does not come back.
LEMMA NotAgain ==
  ASSUME AppInv, AppStep, NEW n \in Procs, state'[n] \in {"WAITING", "READY"}
  PROVE  state[n] \in {"WAITING", "READY"} /\ (state'[n] = "WAITING" => state[n] = "WAITING")
<1>1. state \in [Procs -> States]
  BY DEF AppInv, AppTypeOK, DacTypeOK
<1>2. CASE CidStep \/ NewsStep \/ AsideStep \/ UNCHANGED appVars
  <2>1. state' = state
    BY <1>2, CidFrame, NewsFrame, AsideFrame DEF appVars, dacVars
  <2> QED
    BY <2>1
<1>3. CASE DacStep
  <2>1. OpVerifyApp \/ VerifyNext \/ VerifyAnswered \/ Verified \/ OpStart \/ ExecHandler \/ HandlerAnswers
          \/ HandlersStarted \/ ProcessForked \/ ExecDone \/ OpKillAll \/ OpGetCpulist =>
          state' = state
    BY DEF OpVerifyApp, VerifyNext, VerifyAnswered, Verified, OpStart, ExecHandler, HandlerAnswers,
           HandlersStarted, ProcessForked, ExecDone, OpKillAll, OpGetCpulist, dacVars
  <2>2. ASSUME ExecProcess \/ ProcessAnswers \/ KillNext \/ Killed PROVE state'[n] = state[n] \/ state'[n] \in {"FAILED", "RUNNING", "KILLED"}
    BY <1>1, <2>2 DEF ExecProcess, ProcessAnswers, KillNext, Killed
  <2>3. ASSUME OpKillProcess \/ Closing \/ OpFddChangeProc PROVE state'[n] = state[n] \/ state'[n] \in {"EXITTED", "KILLED"}
    BY <1>1, <2>3, Closes DEF OpKillProcess, OpFddChangeProc
  <2>4. ASSUME OpExitProcess PROVE state[n] \in {"WAITING", "READY"} /\ (state'[n] = "WAITING" => state[n] = "WAITING")
    <3>1. PICK m \in Procs, s \in Statuses :
            state' = [p \in Procs |->
                 IF p \in FreedBy([q \in Procs |-> prcd[q] \ {m}], [state EXCEPT ![m] = IF @ = "KILLED" THEN @ ELSE s])
                   THEN "READY" ELSE [state EXCEPT ![m] = IF @ = "KILLED" THEN @ ELSE s][p]]
      BY <2>4 DEF OpExitProcess
    <3> DEFINE st == [state EXCEPT ![m] = IF @ = "KILLED" THEN @ ELSE s]
               l  == [q \in Procs |-> prcd[q] \ {m}]
    <3>2. st[n] = state[n] \/ st[n] \in {"KILLED", "EXITTED", "FAILED"}
      BY <1>1 DEF Statuses
    <3> HIDE DEF st, l
    <3>3. state'[n] = IF n \in FreedBy(l, st) THEN "READY" ELSE st[n]
      BY <3>1 DEF st, l
    <3>4. n \in FreedBy(l, st) => st[n] = "WAITING"
      BY DEF FreedBy
    <3> QED
      BY <3>2, <3>3, <3>4
  <2> QED
    BY <1>3, <2>1, <2>2, <2>3, <2>4 DEF DacStep, Dac, Closing
<1> QED
  BY <1>2, <1>3, Steps

\* DAC asks for a process that was ready.
LEMMA AskedWasReady ==
  ASSUME AppInv, DacStep, NEW n \in Procs, (Asking(n))'
  PROVE  ExecProcess /\ n = FirstOf(Ready) /\ state[n] = "READY" /\ up[HostOf[n]]
<1>1. dac'.at = "execCid" /\ dac'.on = n
  BY DEF Asking
<1>2. OpVerifyApp \/ VerifyNext \/ VerifyAnswered \/ Verified \/ OpStart \/ ExecHandler \/ HandlerAnswers => dac'.at # "execCid"
  <2>1. OpVerifyApp \/ VerifyNext \/ VerifyAnswered \/ Verified => dac'.at \in {"verify", "verifyCid", "serve"}
    BY DEF OpVerifyApp, VerifyNext, VerifyAnswered, Verified, Asks, NotReady, At, Serving
  <2>2. OpStart \/ ExecHandler \/ HandlerAnswers => dac'.at \in {"handlers", "handlerCid", "killHandlers", "serve"}
    <3>1. OpStart => dac'.at \in {"handlers", "serve"}
      BY DEF OpStart, At, Serving, Takes
    <3>2. ExecHandler \/ HandlerAnswers => dac'.at \in {"handlers", "handlerCid", "killHandlers", "serve"}
      BY DEF ExecHandler, HandlerAnswers, Asks, StartFailed, At, Serving
    <3> QED
      BY <3>1, <3>2
  <2> QED
    BY <2>1, <2>2
<1>3. HandlersStarted \/ ProcessForked \/ ProcessAnswers \/ ExecDone => dac'.at # "execCid"
  <2>1. HandlersStarted \/ ProcessAnswers \/ ExecDone => dac'.at \in {"exec", "serve"}
    BY DEF HandlersStarted, ProcessAnswers, ExecDone, At, Serving
  <2>2. ProcessForked => dac'.at \in {"exec", "execHello"}
    <3>1. ProcessForked => dac' = [dac EXCEPT !.at = "execHello"] \/ dac' = At("exec", Nil, dac.why)
      BY DEF ProcessForked
    <3>2. dac = At(dac.at, dac.on, dac.why)
      BY DEF AppInv, DacShape
    <3>3. [dac EXCEPT !.at = "execHello"] = At("execHello", dac.on, dac.why)
      BY <3>2 DEF At
    <3> QED
      BY <3>1, <3>3 DEF At
  <2> QED
    BY <2>1, <2>2
<1>4. OpExitProcess \/ OpKillProcess \/ OpKillAll \/ KillNext \/ Killed \/ Closing => dac'.at # "execCid"
  <2>1. OpExitProcess => dac'.at \in {"exec", "killAll", "serve"}
    <3>1. OpExitProcess => dac = Serving /\ (dac' = dac \/ dac' = At("exec", Nil, "EXIT_PROCESS") \/ dac' = At("killAll", Nil, "TERM"))
      BY DEF OpExitProcess, Takes
    <3> QED
      BY <3>1 DEF At, Serving
  <2>2. OpKillProcess \/ OpKillAll \/ Killed \/ Closing => dac'.at \in {"serve", "killCid", "killAll", "killHandlers", "over"}
    <3>1. OpKillProcess => dac = Serving /\ (dac' = dac \/ \E m : dac' = At("killCid", m, "KILL"))
      BY DEF OpKillProcess, Takes, Asks
    <3>2. OpKillAll \/ Killed \/ Closing => dac'.at \in {"serve", "killCid", "killAll", "killHandlers", "over"}
      BY Closes DEF OpKillAll, Killed, At, Serving
    <3> QED
      BY <3>1, <3>2 DEF At, Serving
  <2>3. KillNext => dac'.at \in {"killAll", "killCid"}
    <3>1. KillNext => dac.at = "killAll" /\ (dac' = dac \/ \E m : dac' = At("killCid", m, dac.why))
      BY DEF KillNext, Asks
    <3> QED
      BY <3>1 DEF At
  <2> QED
    BY <2>1, <2>2, <2>3
<1>5. OpFddChangeProc \/ OpGetCpulist => dac'.at # "execCid"
  <2>1. OpFddChangeProc \/ OpGetCpulist => dac' = dac /\ dac = Serving
    BY DEF OpFddChangeProc, OpGetCpulist, Takes, dacVars
  <2> QED
    BY <2>1 DEF Serving, At
<1>6. ExecProcess
  BY <1>1, <1>2, <1>3, <1>4, <1>5 DEF DacStep, Dac, Closing
<1>7. FirstOf(Ready) \in Ready
  BY <1>6, FirstIn DEF ExecProcess, Ready
<1>8. up[HostOf[FirstOf(Ready)]] /\ n = FirstOf(Ready)
  <2>1. CASE up[HostOf[FirstOf(Ready)]]
    <3>1. dac' = At("execCid", FirstOf(Ready), dac.why)
      BY <1>6, <2>1 DEF ExecProcess, Asks
    <3> QED
      BY <1>1, <2>1, <3>1 DEF At
  <2>2. CASE ~up[HostOf[FirstOf(Ready)]]
    <3>1. dac' = dac /\ dac.at = "exec"
      BY <1>6, <2>2 DEF ExecProcess
    <3> QED
      BY <1>1, <3>1
  <2> QED
    BY <2>1, <2>2
<1> QED
  BY <1>6, <1>7, <1>8 DEF Ready

\* A process that DAC holds for RUNNING has been forked, so that the application has started.
LEMMA RunningStarted ==
  ASSUME AppInv, NEW n \in Procs, PidsOf(n) # {} \/ state[n] = "RUNNING"
  PROVE  start_flag /\ PidsOf(n) # {}
<1>1. PidsOf(n) # {}
  BY DEF AppInv, ProcessLife, ProcessFits
<1>2. PICK p \in Pids : child[p].name = n
  BY <1>1 DEF PidsOf
<1> QED
  BY <1>1, <1>2 DEF AppInv, ChildrenFit, ChildFits

\* No process is started into a slot that holds the pid of another.
LEMMA SlotsKept ==
  ASSUME AppInv, AppStep, KillsLeaveHosts
  PROVE  SlotsAreFresh'
<1> SUFFICES ASSUME NEW n \in Procs, NEW h, h = HostOf[n], up'[h], (Stale(h))'
             PROVE  Ending' \/ (state'[n] \notin {"WAITING", "READY"} /\ ~((Asking(n))' /\ starting'[h] = Nil))
  BY DEF SlotsAreFresh
<1>1. h \in Hosts /\ up[h] /\ n \in Names
  BY TablesStay, ControllerAssumption DEF Names
<1>2. ASSUME Stale(h), ~Ending
      PROVE  state'[n] \notin {"WAITING", "READY"} /\ ~((Asking(n))' /\ starting'[h] = Nil)
  <2>1. state[n] \notin {"WAITING", "READY"} /\ ~(Asking(n) /\ starting[h] = Nil)
    BY <1>1, <1>2 DEF AppInv, SlotsAreFresh
  <2>2. state'[n] \notin {"WAITING", "READY"}
    BY <2>1, NotAgain
  <2>3. ASSUME (Asking(n))', starting'[h] = Nil PROVE FALSE
    <3>1. CASE DacStep
      BY <2>1, <2>3, <3>1, AskedWasReady
    <3>2. CASE CidStep \/ NewsStep \/ AsideStep
      <4>1. Asking(n)
        BY <2>3, <3>2, DacCall DEF Asking
      <4>2. starting[h] # Nil
        BY <2>1, <4>1
      <4>3. CidStep
        BY <2>3, <3>2, <4>2, NewsFrame, AsideFrame
      <4> QED
        BY <1>1, <2>3, <4>2, <4>3, StartingEnds DEF Asking
    <3>3. CASE UNCHANGED appVars
      BY <2>1, <2>3, <3>3 DEF appVars, cidVars, dacVars, Asking, Pending
    <3> QED
      BY <3>1, <3>2, <3>3, Steps
  <2> QED
    BY <2>2, <2>3
<1>3. ASSUME ~Stale(h), ~Ending
      PROVE  state'[n] \notin {"WAITING", "READY"} /\ ~((Asking(n))' /\ starting'[h] = Nil)
  <2>1. PICK c \in Callers : OpKill(h, c) \/ OpKillApp(h, c)
    BY <1>1, <1>3, SlotsFreed
  <2>2. CidStep /\ UNCHANGED <<dac, state>>
    BY <1>1, <1>3, SlotsFreed, CidFrame DEF dacVars
  <2>3. CASE OpKill(h, c)
    <3>1. dac.at = "killCid" /\ dac.on \in Procs /\ h = HostOf[dac.on]
      BY <1>1, <2>3, Kills
    <3>2. dac.why = "KILL"
      BY <1>3, <3>1 DEF Ending
    <3>3. Event("KILL", dac.on) \in Outside /\ state[dac.on] = "RUNNING"
      BY <3>1, <3>2 DEF AppInv, KillFits
    <3>4. n # dac.on => Precedents[n] = {}
      BY <3>1, <3>3 DEF KillsLeaveHosts
    <3>5. start_flag /\ dac.at \notin ExecPlaces
      BY <3>1, <3>3, RunningStarted DEF ExecPlaces
    <3>6. state[n] \notin {"WAITING", "READY"}
      BY <3>3, <3>4, <3>5 DEF AppInv, OrderKept, OrderFits
    <3> QED
      BY <2>2, <3>1, <3>6 DEF Asking
  <2>4. CASE OpKillApp(h, c)
    <3>1. /\ Event("KILL_APP", h) \in Outside /\ starting[h] = Nil
          /\ \A j \in Slots : table'[h][j].pid = table[h][j].pid
          /\ \A j \in Slots : ~table[h][j].used => table'[h][j] = table[h][j]
      BY <1>1, <2>4, KillsApp DEF AppInv, AppTypeOK
    <3>2. PICK i \in Slots : ~table'[h][i].used /\ table'[h][i].pid # 0
      BY <1>3 DEF Stale
    <3>3. table[h][i].used
      BY <1>3, <3>1, <3>2 DEF Stale
    <3>4. table[h][i].name \in Names /\ HostOf[table[h][i].name] = h
      BY <1>1, <3>3 DEF AppInv, TableFits, EntryFits
    <3>5. table[h][i].name = n
      BY <3>1, <3>4 DEF KillsLeaveHosts
    <3>6. SlotsOf(h, n) # {}
      BY <3>3, <3>5 DEF SlotsOf, Used
    <3>7. state[n] \notin {"WAITING", "READY"}
      BY <3>6 DEF AppInv, ProcessLife, ProcessFits
    <3>8. ~Asking(n)
      BY <3>1, <3>6 DEF AppInv, ExecFits, Asking
    <3>9. ~(Asking(n))'
      BY <2>2, <3>8, DacCall DEF Asking
    <3> QED
      BY <2>2, <3>7, <3>9
  <2> QED
    BY <2>1, <2>3, <2>4
<1> QED
  BY <1>2, <1>3, EndingGoesOn

-----------------------------------------------------------------------------
(* Programs and their entries.                                              *)

\* An application that has started has.
LEMMA StartedStays ==
  ASSUME AppInv, AppStep
  PROVE  (start_flag => start_flag') /\ (~HandlersStarted => start_flag' = start_flag)
<1>1. CASE CidStep \/ NewsStep \/ AsideStep \/ UNCHANGED appVars
  BY <1>1, CidFrame, NewsFrame, AsideFrame DEF appVars, dacVars
<1>2. CASE DacStep
  <2>1. OpVerifyApp \/ VerifyNext \/ VerifyAnswered \/ Verified \/ OpStart \/ ExecHandler \/ HandlerAnswers
          \/ ExecProcess \/ ProcessForked => start_flag' = start_flag
    BY DEF OpVerifyApp, VerifyNext, VerifyAnswered, Verified, OpStart, ExecHandler, HandlerAnswers,
           ExecProcess, ProcessForked
  <2>2. ProcessAnswers \/ ExecDone \/ OpExitProcess \/ OpKillProcess \/ OpKillAll \/ KillNext \/ Killed
          \/ Closing \/ OpFddChangeProc \/ OpGetCpulist => start_flag' = start_flag
    BY Closes DEF ProcessAnswers, ExecDone, OpExitProcess, OpKillProcess, OpKillAll, KillNext, Killed,
           OpFddChangeProc, OpGetCpulist, dacVars
  <2>3. HandlersStarted => start_flag'
    BY DEF HandlersStarted
  <2> QED
    BY <1>2, <2>1, <2>2, <2>3 DEF DacStep, Dac, Closing
<1> QED
  BY <1>1, <1>2, Steps

\* How the state of a process changes when DAC serves the report of an end.
LEMMA ExitStates ==
  ASSUME AppInv, OpExitProcess
  PROVE  \E m \in Procs, s \in Statuses :
           /\ Takes(Report(m, s)) /\ prcd' = [p \in Procs |-> prcd[p] \ {m}]
           /\ \A n \in Procs :
                \/ state'[n] = state[n] /\ (n # m \/ state[n] = "KILLED") /\ (state[n] = "WAITING" => prcd'[n] # {})
                \/ n = m /\ state[n] # "KILLED" /\ state'[n] = s
                \/ state[n] = "WAITING" /\ state'[n] = "READY" /\ n # m /\ prcd'[n] = {}
           /\ (\E n \in Procs : state'[n] = "READY" /\ state[n] = "WAITING") => dac' = At("exec", Nil, "EXIT_PROCESS")
<1>1. state \in [Procs -> States]
  BY DEF AppInv, AppTypeOK, DacTypeOK
<1>2. PICK m \in Procs, s \in Statuses :
        LET st    == [state EXCEPT ![m] = IF @ = "KILLED" THEN @ ELSE s]
            left  == [p \in Procs |-> prcd[p] \ {m}]
            freed == FreedBy(left, st)
        IN /\ Takes(Report(m, s))
           /\ prcd' = left
           /\ state' = [p \in Procs |-> IF p \in freed THEN "READY" ELSE st[p]]
           /\ freed # {} => dac' = At("exec", Nil, "EXIT_PROCESS")
  BY DEF OpExitProcess
<1> DEFINE st == [state EXCEPT ![m] = IF @ = "KILLED" THEN @ ELSE s]
           left == [p \in Procs |-> prcd[p] \ {m}]
<1>3. /\ Takes(Report(m, s)) /\ prcd' = left
      /\ state' = [p \in Procs |-> IF p \in FreedBy(left, st) THEN "READY" ELSE st[p]]
      /\ FreedBy(left, st) # {} => dac' = At("exec", Nil, "EXIT_PROCESS")
  BY <1>2
<1>4. \A n \in Procs : n # m => st[n] = state[n]
  BY <1>1
<1>5. st[m] = IF state[m] = "KILLED" THEN "KILLED" ELSE s
  BY <1>1
<1>6. prcd' = [p \in Procs |-> prcd[p] \ {m}]
  BY <1>3
<1> HIDE DEF st, left
<1>7. \A n \in Procs : n \in FreedBy(left, st) <=> prcd'[n] = {} /\ st[n] = "WAITING"
  BY <1>3 DEF FreedBy
<1>8. \A n \in Procs : state'[n] = IF n \in FreedBy(left, st) THEN "READY" ELSE st[n]
  BY <1>3
<1>9. s # "WAITING" /\ s # "READY"
  BY DEF Statuses
<1>10. ASSUME NEW n \in Procs
       PROVE  \/ state'[n] = state[n] /\ (n # m \/ state[n] = "KILLED") /\ (state[n] = "WAITING" => prcd'[n] # {})
              \/ n = m /\ state[n] # "KILLED" /\ state'[n] = s
              \/ state[n] = "WAITING" /\ state'[n] = "READY" /\ n # m /\ prcd'[n] = {}
  BY <1>4, <1>5, <1>7, <1>8, <1>9
<1>11. (\E n \in Procs : state'[n] = "READY" /\ state[n] = "WAITING") => FreedBy(left, st) # {}
  BY <1>4, <1>5, <1>8, <1>9
<1>12. Takes(Report(m, s))
  BY <1>3
<1>13. (\E n \in Procs : state'[n] = "READY" /\ state[n] = "WAITING") => dac' = At("exec", Nil, "EXIT_PROCESS")
  BY <1>3, <1>11
<1> WITNESS m \in Procs, s \in Statuses
<1> QED
  BY <1>6, <1>10, <1>12, <1>13

\* A process that has been killed stays so.
LEMMA FreedStays ==
  ASSUME AppInv, AppStep, NEW n \in Procs, Freed(n)
  PROVE  (Freed(n))'
<1>1. CASE Event("KILL_APP", HostOf[n]) \in done
  BY <1>1, Steps, CidFrame, NewsFrame, AsideFrame, DacFrame DEF Freed, appVars
<1>2. CASE CidStep \/ NewsStep \/ AsideStep \/ UNCHANGED appVars
  <2>1. UNCHANGED <<dac, state>> /\ done \subseteq done'
    BY <1>2, CidFrame, NewsFrame, AsideFrame DEF appVars, dacVars
  <2> QED
    BY <2>1 DEF Freed
<1>3. CASE DacStep /\ state[n] = "KILLED"
  <2>0. state \in [Procs -> States]
    BY DEF AppInv, AppTypeOK, DacTypeOK
  <2>1. OpVerifyApp \/ VerifyNext \/ VerifyAnswered \/ Verified \/ OpStart \/ ExecHandler \/ HandlerAnswers
          \/ HandlersStarted \/ ProcessForked \/ ExecDone \/ OpKillAll \/ OpGetCpulist =>
          state' = state
    BY DEF OpVerifyApp, VerifyNext, VerifyAnswered, Verified, OpStart, ExecHandler, HandlerAnswers,
           HandlersStarted, ProcessForked, ExecDone, OpKillAll, OpGetCpulist, dacVars
  <2>2. ExecProcess => state'[n] = "KILLED"
    <3>1. ExecProcess => FirstOf(Ready) \in Ready /\ state' = [state EXCEPT ![FirstOf(Ready)] = "FAILED"]
      BY FirstIn DEF ExecProcess, Ready
    <3> QED
      BY <1>3, <2>0, <3>1 DEF Ready
  <2>3. ProcessAnswers => state'[n] = "KILLED"
    <3>1. ProcessAnswers => dac.at = "execHello" /\ state[dac.on] = "FAILED"
      BY DEF ProcessAnswers, AppInv, ExecFits
    <3> QED
      BY <1>3, <2>0, <3>1 DEF ProcessAnswers
  <2>4. KillNext \/ Killed \/ OpKillProcess \/ Closing \/ OpFddChangeProc => state'[n] = "KILLED"
    BY <1>3, <2>0, Closes DEF KillNext, Killed, OpKillProcess, OpFddChangeProc
  <2>5. OpExitProcess => state'[n] = "KILLED"
    <3> SUFFICES ASSUME OpExitProcess PROVE state'[n] = "KILLED"
      OBVIOUS
    <3>1. PICK m \in Procs, s \in Statuses :
            \A x \in Procs :
                \/ state'[x] = state[x] /\ (x # m \/ state[x] = "KILLED") /\ (state[x] = "WAITING" => prcd'[x] # {})
                \/ x = m /\ state[x] # "KILLED" /\ state'[x] = s
                \/ state[x] = "WAITING" /\ state'[x] = "READY" /\ x # m /\ prcd'[x] = {}
      BY ExitStates
    <3> QED
      BY <1>3, <3>1
  <2> QED
    BY <1>3, <2>1, <2>2, <2>3, <2>4, <2>5 DEF DacStep, Dac, Closing, Freed
<1>4. CASE DacStep /\ dac.at = "killCid" /\ dac.on = n
  <2>1. Killed
    BY <1>4, DacGuards DEF DacStep, Dac, Closing
  <2> QED
    BY <1>4, <2>1 DEF Killed, Freed, AppInv, AppTypeOK, DacTypeOK
<1> QED
  BY <1>1, <1>2, <1>3, <1>4, Steps DEF Freed

\* A program keeps its entry while it runs and is not killed.
LEMMA ChildKept ==
  ASSUME AppInv, AppStep, NEW p \in Pids
  PROVE  (ChildFits(p))'
<1>a. PICK n \in Names : n = child[p].name
  BY ChildTypes DEF AppInv
<1>b. PICK h \in Hosts : h = child[p].host
  BY ChildTypes DEF AppInv
<1> DEFINE Found(t) == \E i \in Slots : t[h][i].used /\ t[h][i].name = n /\ t[h][i].pid = p
<1>0. child[p].name = n /\ child[p].host = h /\ h = HostOf[n]
  BY <1>a, <1>b DEF AppInv, ChildrenFit, ChildFits
<1>1. ChildFits(p) /\ GoesOn(p) /\ child'[p].name = n /\ child'[p].host = h
  BY <1>0, ChildrenGoOn DEF AppInv, ChildrenFit, GoesOn
<1>2. child'[p].at = "zombie" => child'[p].status \in Statuses
  BY <1>1 DEF ChildFits, GoesOn
<1>3. n \in Procs => start_flag'
  BY <1>0, <1>1, StartedStays DEF ChildFits
<1>4. ~up'[h] => child'[p].at = "gone"
  <2>1. ~up[h] => child'[p].at = "gone"
    BY <1>0, <1>1 DEF ChildFits, GoesOn, Course
  <2>2. ASSUME up[h], ~up'[h] PROVE child'[p].at = "gone"
    <3>1. CidStep
      BY <2>2, Steps, NewsFrame, AsideFrame, DacFrame DEF appVars, cidVars
    <3>2. \E g \in Hosts : HostCrash(g)
      <4>1. (\E g \in Hosts, c \in Callers : CidServes(g, c)) => up' = up
        <5> SUFFICES ASSUME NEW g \in Hosts, NEW c \in Callers, CidServes(g, c) PROVE up' = up
          OBVIOUS
        <5>1. OpVerify(g, c) \/ OpExecRefused(g, c) \/ FillSlot(g, c) => up' = up
          BY DEF OpVerify, OpExecRefused, FillSlot
        <5>2. OpKill(g, c) \/ OpKillApp(g, c) \/ OpDetectProc(g, c) => up' = up
          BY DEF OpKill, OpKillApp, OpDetectProc
        <5> QED
          BY <5>1, <5>2 DEF CidServes
      <4>2. (\E g \in Hosts : CidStarts(g) \/ Death(g)) => up' = up
        BY DEF CidStarts, Death, Fork, EnterPid, sigchldHandler
      <4>3. (\E c \in Callers : Fail(c)) \/ (\E q \in Pids, s \in Outcomes \cup {"KILLED"} : Program(q, s)) => up' = up
        BY DEF Fail, CallFails, Program, Ends
      <4> QED
        BY <2>2, <3>1, <4>1, <4>2, <4>3 DEF CidStep, HostLost
    <3>3. PICK g \in Hosts : HostCrash(g)
      BY <3>2
    <3>4. g = h
      BY <1>0, <2>2, <3>3, TableTypes DEF HostCrash
    <3> QED
      BY <1>0, <3>3, <3>4, CrashGoOn DEF AppInv
  <2> QED
    BY <2>1, <2>2
<1>5. SUFFICES ASSUME child'[p].at # "gone", n \in Procs
               PROVE  \/ Found(table')
                      \/ starting'[h] # Nil /\ starting'[h].pid = p
                      \/ child'[p].at \notin {"new", "up"} /\ (Freed(n))'
  BY <1>0, <1>1, <1>2, <1>3, <1>4 DEF ChildFits, SlotsOf, Used, Live, Freed
<1>6. child[p].at # "gone" /\ up[h] /\ up'[h]
  BY <1>0, <1>1, <1>4, <1>5 DEF GoesOn, Course, ChildFits
<1> DEFINE Goal == \/ Found(table')
                   \/ starting'[h] # Nil /\ starting'[h].pid = p
                   \/ child'[p].at \notin {"new", "up"} /\ (Freed(n))'
<1>7. \/ Found(table)
      \/ starting[h] # Nil /\ starting[h].pid = p
      \/ ~Live(p) /\ Freed(n)
  BY <1>0, <1>1, <1>5, <1>6 DEF ChildFits, SlotsOf, Used
<1>8. CASE ~Live(p) /\ Freed(n)
  BY <1>1, <1>5, <1>8, FreedStays DEF Live, GoesOn, Course
<1>9. CASE starting[h] # Nil /\ starting[h].pid = p
  <2>1. CASE starting'[h] = starting[h]
    BY <1>9, <2>1
  <2>2. CASE starting'[h] # starting[h]
    <3>1. CidStep
      BY <2>2, Steps, NewsFrame, AsideFrame, DacFrame DEF appVars, cidVars
    <3>2. DOMAIN starting = Hosts /\ p # 0
      BY TableTypes, ChildTypes DEF AppInv
    <3>3. EnterPid(h)
      <4>1. ASSUME NEW g \in Hosts, NEW c \in Callers, CidServes(g, c) PROVE FALSE
        <5>1. CASE FillSlot(g, c)
          BY <1>0, <1>9, <5>1, Filled
        <5>2. CASE OpVerify(g, c) \/ OpExecRefused(g, c) \/ OpKill(g, c) \/ OpKillApp(g, c) \/ OpDetectProc(g, c)
          BY <2>2, <5>2 DEF OpVerify, OpExecRefused, OpKill, OpKillApp, OpDetectProc
        <5> QED
          BY <4>1, <5>1, <5>2 DEF CidServes
      <4>2. ASSUME NEW g \in Hosts, Fork(g) PROVE FALSE
        <5>1. starting[g] # Nil /\ starting[g].pid = 0
          BY <4>2 DEF Fork
        <5>2. g = h
          BY <1>0, <1>9, <5>1, Starting
        <5> QED
          BY <1>9, <3>2, <5>1, <5>2
      <4>3. ASSUME NEW g \in Hosts, EnterPid(g) PROVE g = h
        BY <1>0, <1>9, <4>3, Starting DEF EnterPid
      <4>4. ASSUME NEW g \in Hosts, HostCrash(g) PROVE FALSE
        BY <1>0, <1>6, <2>2, <3>2, <4>4, TableTypes DEF HostCrash
      <4>5. (\E c \in Callers : CallFails(c)) \/ (\E g \in Hosts, q \in Pids : sigchldHandler(g, q))
              \/ (\E q \in Pids, s \in Outcomes \cup {"KILLED"} : Ends(q, s)) => starting' = starting
        BY DEF CallFails, sigchldHandler, Ends
      <4> QED
        BY <2>2, <3>1, <4>1, <4>2, <4>3, <4>4, <4>5 DEF CidStep, CidStarts, Death, HostLost, Fail, Program
    <3>4. PICK f \in Slots, q \in PidsOf(Asked) :
              /\ f = starting[h].slot /\ q = starting[h].pid /\ q \in Nat \ {0}
              /\ table'[h][f].pid = q
              /\ table'[h][f].used = table[h][f].used /\ table'[h][f].dead = table[h][f].dead
              /\ table'[h][f].name = table[h][f].name /\ table'[h][f].port = table[h][f].port
              /\ \A x \in Hosts, j \in Slots : ~(x = h /\ j = f) => table'[x][j] = table[x][j]
      BY <3>3, EntersPid
    <3>5. table[h][f].used /\ table[h][f].name = Asked /\ p \in PidsOf(Asked)
      BY <1>0, <1>9, <3>2, <3>4, Starting
    <3>6. table'[h][f].used /\ table'[h][f].name = n /\ table'[h][f].pid = p
      BY <1>0, <1>9, <3>4, <3>5 DEF PidsOf
    <3> QED
      BY <3>6
  <2> QED
    BY <2>1, <2>2
<1>10. ASSUME NEW i \in Slots, table[h][i].used, table[h][i].name = n, table[h][i].pid = p
       PROVE  Goal
  <2> DEFINE e == table[h][i]
  <2>1. ASSUME table'[h][i].used = table[h][i].used, table'[h][i].name = table[h][i].name, table'[h][i].pid = table[h][i].pid
        PROVE  Goal
    BY <1>10, <2>1
  <2>2. ASSUME NEW g \in Hosts, NEW c \in Callers, CidServes(g, c), CidStep PROVE Goal
    <3>1. CASE OpVerify(g, c) \/ OpExecRefused(g, c)
      <4>1. table' = table
        BY <3>1, AnswersDac
      <4> HIDE DEF Goal
      <4> QED
        BY <2>1, <4>1
    <3>2. CASE FillSlot(g, c)
      <4>1. PICK f : f = getSlot(g)
        OBVIOUS
      <4>2. f \in Slots /\ ~table[g][f].used
        BY <3>2, <4>1, Filled
      <4>3. \A x \in Hosts, j \in Slots : ~(x = g /\ j = f) => table'[x][j] = table[x][j]
        BY <3>2, <4>1, Filled
      <4>4. table'[h][i] = table[h][i]
        BY <1>0, <1>10, <4>2, <4>3
      <4> HIDE DEF Goal
      <4> QED
        BY <2>1, <4>4
    <3>3. CASE OpKill(g, c)
      <4>1. CASE table' = table
        BY <2>1, <4>1
      <4>2. CASE table' # table
        <5>1. PICK k \in SlotsOf(g, dac.on) :
                 /\ child' = Signalled({table[g][k].pid})
                 /\ \A x \in Hosts, j \in Slots : ~(x = g /\ j = k) => table'[x][j] = table[x][j]
          BY <3>3, <4>2, Kills
        <5>2. CASE g = h /\ k = i
          <6>1. child'[p].at \notin {"new", "up"}
            BY <1>10, <5>1, <5>2, SignalsGoOn DEF AppInv
          <6>2. dac.on = n /\ dac.at = "killCid"
            BY <1>10, <3>3, <5>1, <5>2, Kills DEF SlotsOf
          <6>3. dac' = dac
            BY <2>2, CidFrame DEF dacVars
          <6> QED
            BY <6>1, <6>2, <6>3 DEF Freed
        <5>3. CASE ~(g = h /\ k = i)
          <6>1. table'[h][i] = table[h][i]
            BY <1>0, <5>1, <5>3
          <6> HIDE DEF Goal
          <6> QED
            BY <2>1, <6>1
        <5> QED
          BY <5>2, <5>3
      <4> QED
        BY <4>1, <4>2
    <3>4. CASE OpKillApp(g, c)
      <4>1. CASE g = h
        <5>1. child' = Signalled({table[h][j].pid : j \in Used(h)}) /\ Event("KILL_APP", h) \in done
          BY <3>4, <4>1, KillsApp
        <5>2. p \in {table[h][j].pid : j \in Used(h)}
          BY <1>10 DEF Used
        <5>3. child'[p].at \notin {"new", "up"}
          BY <5>1, <5>2, SignalsGoOn DEF AppInv
        <5>4. done \subseteq done'
          BY <2>2, CidFrame
        <5> QED
          BY <1>0, <5>1, <5>3, <5>4 DEF Freed
      <4>2. CASE g # h
        <5>0. \A x \in Hosts : x # g => table'[x] = table[x]
          BY <3>4, KillsApp
        <5>1. table'[h] = table[h]
          BY <4>2, <5>0
        <5> HIDE DEF Goal
        <5> QED
          BY <2>1, <5>1
      <4> QED
        BY <4>1, <4>2
    <3>5. CASE OpDetectProc(g, c)
      <4>1. table'[h][i].used = table[h][i].used /\ table'[h][i].name = table[h][i].name /\ table'[h][i].pid = table[h][i].pid
        <5>1. \A x \in Hosts, j \in Slots :
                /\ table'[x][j].used = table[x][j].used /\ table'[x][j].name = table[x][j].name
                /\ table'[x][j].pid = table[x][j].pid
          BY <3>5, Detects
        <5> QED
          BY <1>0, <5>1
      <4> HIDE DEF Goal
      <4> QED
        BY <2>1, <4>1
    <3> HIDE DEF Goal
    <3> QED
      BY <2>2, <3>1, <3>2, <3>3, <3>4, <3>5 DEF CidServes
  <2>3. ASSUME NEW g \in Hosts, EnterPid(g) PROVE Goal
    <3>1. PICK f \in Slots : /\ f = starting[g].slot
                             /\ \A x \in Hosts, j \in Slots : ~(x = g /\ j = f) => table'[x][j] = table[x][j]
      BY <2>3, EntersPid
    <3>2. starting[g] # Nil
      BY <2>3, EntersPid
    <3>3. ~(g = h /\ f = i)
      <4>1. SUFFICES ASSUME g = h, f = i PROVE FALSE
        OBVIOUS
      <4>2. table[h][i].name = Asked /\ (Asked \in Procs => table[h][i].pid = 0)
        BY <3>1, <3>2, <4>1, Starting
      <4>3. p # 0
        BY ChildTypes DEF AppInv
      <4> QED
        BY <1>5, <1>10, <4>2, <4>3
    <3>4. table'[h][i] = table[h][i]
      BY <1>0, <3>1, <3>3
    <3> HIDE DEF Goal
    <3> QED
      BY <2>1, <3>4
  <2>4. ASSUME NEW g \in Hosts, NEW q \in Pids, sigchldHandler(g, q) PROVE Goal
    <3>1. table'[h][i].used = table[h][i].used /\ table'[h][i].name = table[h][i].name /\ table'[h][i].pid = table[h][i].pid
      BY <1>0, <2>4, Dies
    <3> HIDE DEF Goal
    <3> QED
      BY <2>1, <3>1
  <2>5. (\E g \in Hosts : Fork(g) \/ HostCrash(g)) \/ (\E c \in Callers : CallFails(c))
          \/ (\E q \in Pids, s \in Outcomes \cup {"KILLED"} : Ends(q, s)) => table' = table
    BY DEF Fork, HostCrash, CallFails, Ends
  <2>6. ASSUME table' = table PROVE Goal
    BY <2>1, <2>6
  <2> HIDE DEF Goal
  <2>7. CASE CidStep
    BY <2>2, <2>3, <2>4, <2>5, <2>6, <2>7 DEF CidStep, CidStarts, Death, HostLost, Fail, Program
  <2>8. CASE NewsStep \/ AsideStep \/ DacStep \/ UNCHANGED appVars
    BY <2>6, <2>8, NewsFrame, AsideFrame, DacFrame DEF appVars, cidVars
  <2> QED
    BY <2>7, <2>8, Steps
<1> QED
  BY <1>7, <1>8, <1>9, <1>10

\* Programs stay known to the tables while their end is still to be handled.
LEMMA ChildrenKept ==
  ASSUME AppInv, AppStep
  PROVE  ChildrenFit'
<1>1. ASSUME NEW g \in Hosts, Fork(g), NEW p, p = Len(child) + 1 PROVE (ChildFits(p))'
  <2>1. /\ p \in Pids' /\ child'[p] = [name |-> Asked, host |-> g, at |-> "new", status |-> Nil]
        /\ starting' = [starting EXCEPT ![g].pid = p] /\ g = HostOf[Asked] /\ up[g]
        /\ Asked \in Procs => start_flag
    BY <1>1, Forks
  <2>2. starting[g] # Nil /\ up' = up
    BY <1>1 DEF Fork
  <2>3. starting[g] \in [by : {"dac"}, slot : Slots, pid : Nat] /\ DOMAIN starting = Hosts
    BY <2>2 DEF AppInv, StartingFits, StartFits
  <2>4. p \in Nat
    BY <1>1, ChildTypes DEF AppInv
  <2>5. starting'[g] \in [by : {"dac"}, slot : Slots, pid : Nat] /\ starting'[g].pid = p
    <3>1. starting'[g] = [starting[g] EXCEPT !.pid = p]
      BY <2>1, <2>3
    <3> QED
      BY <2>3, <2>4, <3>1
  <2>6. starting'[g] # Nil
    BY <2>5, TableAssumption, ControllerAssumption
  <2> QED
    BY <2>1, <2>2, <2>5, <2>6, StartedStays DEF ChildFits
<1>2. ASSUME NEW p \in Pids' PROVE (ChildFits(p))'
  <2>1. CASE p \in Pids
    BY <2>1, ChildKept
  <2>2. CASE p \notin Pids
    <3>1. PICK g \in Hosts : Fork(g)
      BY <1>2, <2>2, ChildrenGoOn
    <3>2. p = Len(child) + 1
      BY <1>2, <2>2, <3>1, Forks
    <3> QED
      BY <1>1, <3>1, <3>2
  <2> QED
    BY <2>1, <2>2
<1> QED
  BY <1>2 DEF ChildrenFit

-----------------------------------------------------------------------------
(* Processes.                                                               *)

\* The message DAC takes is true, and was one on its way.
LEMMA HeadTrue ==
  ASSUME AppInv, NEW r, Takes(r)
  PROVE  /\ NewsIsTrue(r) /\ r \in Messages /\ 1 \in DOMAIN inbox /\ inbox[1] = r
         /\ inbox' \in Seq(Messages) /\ Len(inbox') = Len(inbox) - 1 /\ Len(inbox) \in Nat
         /\ \A i \in DOMAIN inbox' : i + 1 \in DOMAIN inbox /\ i + 1 # 1 /\ inbox'[i] = inbox[i + 1]
<1>1. inbox \in Seq(Messages) /\ inbox # <<>> /\ r = Head(inbox) /\ inbox' = Tail(inbox)
  BY DEF Takes, AppInv, NewsAreTrue
<1>2. 1 \in DOMAIN inbox /\ inbox[1] = r /\ r \in Messages
  BY <1>1
<1>3. NewsIsTrue(r)
  BY <1>2 DEF AppInv, NewsAreTrue
<1>4. /\ inbox' \in Seq(Messages) /\ Len(inbox') = Len(inbox) - 1 /\ Len(inbox) \in Nat
      /\ \A i \in DOMAIN inbox' : i + 1 \in DOMAIN inbox /\ i + 1 # 1 /\ inbox'[i] = inbox[i + 1]
  BY <1>1
<1> QED
  BY <1>2, <1>3, <1>4

\* Nothing runs on a host that is down.
LEMMA DownGone ==
  ASSUME AppInv, NEW n \in Procs, ~up[HostOf[n]]
  PROVE  ~LiveProc(n)
BY DEF AppInv, ChildrenFit, ChildFits, LiveProc, PidsOf, Live

\* A process that DAC holds for RUNNING no longer does not run.
LEMMA RunningLeft ==
  ASSUME AppInv, DacStep, NEW n \in Procs, state[n] = "RUNNING", state'[n] # "RUNNING"
  PROVE  ~LiveProc(n)
<1>0. state \in [Procs -> States]
  BY DEF AppInv, AppTypeOK, DacTypeOK
<1>1. OpVerifyApp \/ VerifyNext \/ VerifyAnswered \/ Verified \/ OpStart \/ ExecHandler \/ HandlerAnswers
        \/ HandlersStarted \/ ProcessForked \/ ExecDone \/ OpKillAll \/ OpGetCpulist =>
        state' = state
  BY DEF OpVerifyApp, VerifyNext, VerifyAnswered, Verified, OpStart, ExecHandler, HandlerAnswers,
         HandlersStarted, ProcessForked, ExecDone, OpKillAll, OpGetCpulist, dacVars
<1>2. CASE ExecProcess
  <2>1. FirstOf(Ready) \in Ready /\ state' = [state EXCEPT ![FirstOf(Ready)] = "FAILED"]
    BY <1>2, FirstIn DEF ExecProcess, Ready
  <2> QED
    BY <1>0, <2>1 DEF Ready
<1>3. CASE ProcessAnswers
  BY <1>0, <1>3 DEF ProcessAnswers
<1>4. CASE OpExitProcess
  <2>1. PICK m \in Procs, s \in Statuses :
           /\ Takes(Report(m, s))
           /\ \A x \in Procs :
                \/ state'[x] = state[x] /\ (x # m \/ state[x] = "KILLED") /\ (state[x] = "WAITING" => prcd'[x] # {})
                \/ x = m /\ state[x] # "KILLED" /\ state'[x] = s
                \/ state[x] = "WAITING" /\ state'[x] = "READY" /\ x # m /\ prcd'[x] = {}
    BY <1>4, ExitStates
  <2>2. n = m
    BY <2>1
  <2>3. NewsIsTrue(Report(m, s))
    BY <2>1, HeadTrue
  <2>4. OverProc(n)
    BY <2>2, <2>3 DEF NewsIsTrue, Report
  <2> QED
    BY <2>4 DEF OverProc, LiveProc, Ended, Live
<1>5. CASE OpKillProcess
  <2>1. ~up[HostOf[n]]
    BY <1>0, <1>5 DEF OpKillProcess
  <2> QED
    BY <2>1, DownGone
<1>6. CASE KillNext
  <2>1. ~up[HostOf[n]]
    BY <1>0, <1>6 DEF KillNext
  <2> QED
    BY <2>1, DownGone
<1>7. CASE Killed
  <2>1. n = dac.on /\ dac.at = "killCid" /\ Answered
    BY <1>0, <1>7 DEF Killed
  <2> QED
    BY <2>1 DEF AppInv, KillFits
<1>8. CASE Closing
  BY <1>8 DEF Closing, ProcessesKilled, KillHandler, HandlersKilled, End, Running
<1>9. CASE OpFddChangeProc
  <2>1. PICK h \in Hosts, q \in Pids \cup {0} :
          /\ Takes([op |-> "FDDCHANGE_PROC", host |-> h, pid |-> q])
          /\ state' = [p \in Procs |->
               IF HostOf[p] = h /\ proc_id[p] = q /\ state[p] \notin {"EXITTED", "FAILED"}
                 THEN "KILLED" ELSE state[p]]
    BY <1>9 DEF OpFddChangeProc
  <2>2. HostOf[n] = h /\ proc_id[n] = q
    BY <2>1
  <2>3. NewsIsTrue([op |-> "FDDCHANGE_PROC", host |-> h, pid |-> q])
    BY <2>1, HeadTrue
  <2>4. LostProc(h, q)
    BY <2>3 DEF NewsIsTrue
  <2>5. CASE ~up[h]
    BY <2>2, <2>5, DownGone
  <2>6. CASE q \in Pids /\ Ended(q)
    <3>1. q \in PidsOf(n) /\ \A x, y \in PidsOf(n) : x = y
      <4>1. ProcessFits(n) /\ 0 \notin Pids
        BY DEF AppInv, ProcessLife, Pids
      <4> QED
        BY <2>2, <2>6, <4>1 DEF ProcessFits
    <3> QED
      BY <2>6, <3>1 DEF LiveProc, Ended, Live
  <2> QED
    BY <2>4, <2>5, <2>6 DEF LostProc
<1> QED
  BY <1>1, <1>2, <1>3, <1>4, <1>5, <1>6, <1>7, <1>8, <1>9 DEF DacStep, Dac, Closing

\* A component gets an entry when DAC asks for it.
LEMMA SlotsGrow ==
  ASSUME AppInv, AppStep, NEW h \in Hosts, NEW n \in Names, (SlotsOf(h, n))' # {}, SlotsOf(h, n) = {}
  PROVE  /\ CidStep /\ dac.at \in {"handlerCid", "execCid"} /\ Asked = n /\ h = HostOf[n]
         /\ starting'[h] # Nil /\ Pending("dac") /\ \A g \in Hosts : starting[g] = Nil
<1>1. PICK i \in Slots : table'[h][i].used /\ table'[h][i].name = n
  BY DEF SlotsOf, Used
<1>2. ~(table[h][i].used /\ table[h][i].name = n)
  BY DEF SlotsOf, Used
<1>3. ~(table'[h][i].used = table[h][i].used /\ table'[h][i].name = table[h][i].name)
  BY <1>1, <1>2
<1>4. CidStep
  BY <1>3, Steps, NewsFrame, AsideFrame, DacFrame DEF appVars, cidVars
<1>5. ASSUME NEW g \in Hosts, NEW c \in Callers, FillSlot(g, c)
      PROVE  /\ dac.at \in {"handlerCid", "execCid"} /\ Asked = n /\ h = HostOf[n] /\ starting'[h] # Nil
             /\ Pending("dac") /\ \A x \in Hosts : starting[x] = Nil
  <2>1. PICK f : f = getSlot(g)
    OBVIOUS
  <2>2. /\ f \in Slots /\ table'[g][f].name = Asked /\ dac.at \in {"handlerCid", "execCid"} /\ g = HostOf[Asked]
        /\ starting' = [starting EXCEPT ![g] = [by |-> "dac", slot |-> f, pid |-> 0]]
        /\ Pending("dac") /\ \A x \in Hosts : starting[x] = Nil
    BY <1>5, <2>1, Filled
  <2>3. \A x \in Hosts, j \in Slots : ~(x = g /\ j = f) => table'[x][j] = table[x][j]
    BY <1>5, <2>1, Filled
  <2>4. h = g /\ i = f
    BY <1>3, <2>3
  <2>5. starting'[g] = [by |-> "dac", slot |-> f, pid |-> 0] /\ starting'[g] # Nil
    BY <2>2, TableTypes, TableAssumption, ControllerAssumption
  <2> QED
    BY <1>1, <2>2, <2>4, <2>5
<1>6. ASSUME NEW g \in Hosts, NEW c \in Callers, CidServes(g, c) PROVE FillSlot(g, c)
  <2>1. CASE OpVerify(g, c) \/ OpExecRefused(g, c)
    BY <1>3, <2>1, AnswersDac
  <2>2. CASE OpKill(g, c)
    BY <1>1, <1>2, <2>2, Kills
  <2>3. CASE OpKillApp(g, c)
    BY <1>1, <1>2, <2>3, KillsApp
  <2>4. CASE OpDetectProc(g, c)
    BY <1>3, <2>4, Detects
  <2> QED
    BY <1>6, <2>1, <2>2, <2>3, <2>4 DEF CidServes
<1>7. ASSUME NEW g \in Hosts, EnterPid(g) PROVE FALSE
  <2>1. PICK f \in Slots, p \in PidsOf(Asked) :
              /\ f = starting[g].slot /\ p = starting[g].pid /\ p \in Nat \ {0}
              /\ table'[g][f].pid = p
              /\ table'[g][f].used = table[g][f].used /\ table'[g][f].dead = table[g][f].dead
              /\ table'[g][f].name = table[g][f].name /\ table'[g][f].port = table[g][f].port
              /\ \A x \in Hosts, j \in Slots : ~(x = g /\ j = f) => table'[x][j] = table[x][j]
    BY <1>7, EntersPid
  <2> QED
    BY <1>3, <2>1
<1>8. ASSUME NEW g \in Hosts, NEW p \in Pids, sigchldHandler(g, p) PROVE FALSE
  BY <1>3, <1>8, Dies
<1>9. (\E g \in Hosts : Fork(g) \/ HostCrash(g)) \/ (\E c \in Callers : CallFails(c))
        \/ (\E p \in Pids, s \in Outcomes \cup {"KILLED"} : Ends(p, s)) => table' = table
  BY DEF Fork, HostCrash, CallFails, Ends
<1>10. \E g \in Hosts, c \in Callers : FillSlot(g, c)
  BY <1>3, <1>4, <1>6, <1>7, <1>8, <1>9 DEF CidStep, CidStarts, Death, HostLost, Fail, Program
<1> QED
  BY <1>4, <1>5, <1>10

\* Only some of DAC's steps change the state of a process, ...
LEMMA StateFrame ==
  ASSUME AppStep, state' # state
  PROVE  /\ DacStep
         /\ ExecProcess \/ ProcessAnswers \/ OpExitProcess \/ OpKillProcess \/ KillNext \/ Killed \/ Closing \/ OpFddChangeProc
<1>1. DacStep
  BY Steps, CidFrame, NewsFrame, AsideFrame DEF appVars, dacVars
<1>2. OpVerifyApp \/ VerifyNext \/ VerifyAnswered \/ Verified \/ OpStart \/ ExecHandler \/ HandlerAnswers
        \/ HandlersStarted \/ ProcessForked \/ ExecDone \/ OpKillAll \/ OpGetCpulist =>
        state' = state
  BY DEF OpVerifyApp, VerifyNext, VerifyAnswered, Verified, OpStart, ExecHandler, HandlerAnswers,
         HandlersStarted, ProcessForked, ExecDone, OpKillAll, OpGetCpulist, dacVars
<1> QED
  BY <1>1, <1>2 DEF DacStep, Dac, Closing

\* ... and only two enter a pid.
LEMMA ProcIdFrame ==
  ASSUME AppStep, proc_id' # proc_id
  PROVE  ProcessForked \/ HandlerAnswers
<1>1. DacStep
  BY Steps, CidFrame, NewsFrame, AsideFrame DEF appVars, dacVars
<1>2. OpVerifyApp \/ VerifyNext \/ VerifyAnswered \/ Verified \/ OpStart \/ ExecHandler \/ ExecProcess
        \/ HandlersStarted \/ ProcessAnswers \/ ExecDone \/ OpKillAll \/ OpGetCpulist =>
        proc_id' = proc_id
  BY DEF OpVerifyApp, VerifyNext, VerifyAnswered, Verified, OpStart, ExecHandler, ExecProcess,
         HandlersStarted, ProcessAnswers, ExecDone, OpKillAll, OpGetCpulist, dacVars
<1>3. OpExitProcess \/ OpKillProcess \/ KillNext \/ Killed \/ Closing \/ OpFddChangeProc => proc_id' = proc_id
  BY DEF OpExitProcess, OpKillProcess, KillNext, Killed, OpFddChangeProc,
         Closing, ProcessesKilled, KillHandler, HandlersKilled, End, cidVars
<1> QED
  BY <1>1, <1>2, <1>3 DEF DacStep, Dac, Closing

\* A process that is held for RUNNING from now on has just answered.
LEMMA RunningNew ==
  ASSUME AppInv, AppStep, NEW n \in Procs, state'[n] = "RUNNING", state[n] # "RUNNING"
  PROVE  ProcessAnswers /\ n = dac.on /\ dac.at = "execHello"
<1>0. state \in [Procs -> States]
  BY DEF AppInv, AppTypeOK, DacTypeOK
<1>1. ExecProcess \/ ProcessAnswers \/ OpExitProcess \/ OpKillProcess \/ KillNext \/ Killed \/ Closing \/ OpFddChangeProc
  BY StateFrame
<1>2. ExecProcess \/ OpKillProcess \/ KillNext \/ Killed \/ Closing \/ OpFddChangeProc => FALSE
  BY <1>0 DEF ExecProcess, OpKillProcess, KillNext, Killed, OpFddChangeProc,
         Closing, ProcessesKilled, KillHandler, HandlersKilled, End, cidVars
<1>3. ASSUME OpExitProcess PROVE FALSE
  <2>1. PICK m \in Procs, s \in Statuses :
           \A x \in Procs :
                \/ state'[x] = state[x] /\ (x # m \/ state[x] = "KILLED") /\ (state[x] = "WAITING" => prcd'[x] # {})
                \/ x = m /\ state[x] # "KILLED" /\ state'[x] = s
                \/ state[x] = "WAITING" /\ state'[x] = "READY" /\ x # m /\ prcd'[x] = {}
    BY <1>3, ExitStates
  <2> QED
    BY <2>1 DEF Statuses
<1> QED
  BY <1>0, <1>1, <1>2, <1>3 DEF ProcessAnswers

\* A process has one program at most.
LEMMA OneProgram ==
  ASSUME AppInv, AppStep, NEW n \in Procs
  PROVE  \A p, q \in (PidsOf(n))' : p = q
<1>0. n \in Names /\ \A p, q \in PidsOf(n) : p = q
  BY DEF AppInv, ProcessLife, ProcessFits, Names
<1>1. CASE \A h \in Hosts : Fork(h) => Asked # n
  <2>1. (PidsOf(n))' = PidsOf(n)
    BY <1>0, <1>1, PidsGoOn
  <2> QED
    BY <1>0, <2>1
<1>2. CASE \E h \in Hosts : Fork(h) /\ Asked = n
  <2>1. PICK h \in Hosts : Fork(h) /\ Asked = n
    BY <1>2
  <2>2. /\ Pids' = Pids \cup {Len(child) + 1} /\ PidsOf(n) = {}
        /\ \A p \in Pids : child'[p] = child[p]
    BY <2>1, Forks
  <2>3. (PidsOf(n))' \subseteq {Len(child) + 1}
    BY <2>2 DEF PidsOf
  <2> QED
    BY <2>3
<1> QED
  BY <1>1, <1>2

\* Its number is that of its program.
LEMMA ProcIdKept ==
  ASSUME AppInv, AppStep, NEW n \in Procs
  PROVE  /\ proc_id'[n] \in (PidsOf(n))' \cup {0}
         /\ state'[n] = "RUNNING" => proc_id'[n] # 0
<1>0. /\ n \in Names /\ proc_id[n] \in PidsOf(n) \cup {0} /\ (state[n] = "RUNNING" => proc_id[n] # 0)
      /\ proc_id \in [Names -> Nat]
  BY DEF AppInv, ProcessLife, ProcessFits, Names, AppTypeOK, DacTypeOK
<1>1. PidsOf(n) \subseteq (PidsOf(n))'
  BY <1>0, PidsGoOn
<1>2. ASSUME proc_id'[n] # proc_id[n]
      PROVE  ProcessForked /\ Succeeded /\ n = dac.on /\ proc_id'[n] = call["dac"].value
  <2>1. ProcessForked \/ HandlerAnswers
    BY <1>2, ProcIdFrame
  <2>2. ASSUME HandlerAnswers PROVE FALSE
    <3>1. dac.at = "handlerCid"
      BY <2>2, DacGuards
    <3>2. HandlerList[dac.on] \in Handlers /\ HandlerList[dac.on] # n
      BY <3>1, Listed DEF AppInv, DacShape
    <3> QED
      BY <1>0, <1>2, <2>2, <3>2 DEF HandlerAnswers
  <2> QED
    BY <1>0, <1>2, <2>1, <2>2 DEF ProcessForked
<1>3. ASSUME proc_id'[n] # proc_id[n] PROVE proc_id'[n] \in PidsOf(n)
  <2>1. dac.at = "execCid" /\ Answered
    BY <1>2, <1>3, DacGuards
  <2> QED
    BY <1>2, <1>3, <2>1 DEF AppInv, ExecFits
<1>4. 0 \notin Pids
  BY DEF Pids
<1>5. state'[n] = "RUNNING" => proc_id'[n] # 0
  <2>1. CASE state[n] = "RUNNING"
    BY <1>0, <1>3, <1>4, <2>1 DEF PidsOf
  <2>2. CASE state[n] # "RUNNING" /\ state'[n] = "RUNNING"
    <3>1. ProcessAnswers /\ n = dac.on /\ dac.at = "execHello"
      BY <2>2, RunningNew
    <3>2. proc_id[n] # 0
      BY <3>1 DEF AppInv, ExecFits
    <3> QED
      BY <1>3, <1>4, <3>2 DEF PidsOf
  <2> QED
    BY <2>1, <2>2
<1> QED
  BY <1>0, <1>1, <1>3, <1>5

\* It has none, and no entry, before DAC starts it.
LEMMA NoneBefore ==
  ASSUME AppInv, AppStep, NEW n \in Procs, state'[n] \in {"WAITING", "READY"}
  PROVE  (PidsOf(n))' = {} /\ (SlotsOf(HostOf[n], n))' = {}
<1>0. n \in Names /\ HostOf[n] \in Hosts /\ state[n] \in {"WAITING", "READY"}
  BY NotAgain, ControllerAssumption DEF Names
<1>1. PidsOf(n) = {} /\ SlotsOf(HostOf[n], n) = {}
  BY <1>0 DEF AppInv, ProcessLife, ProcessFits
<1>2. ~(dac.at = "execCid" /\ dac.on = n)
  BY <1>0 DEF AppInv, ExecFits
<1>3. (PidsOf(n))' = {}
  <2>1. \A h \in Hosts : Fork(h) => Asked # n
    BY <1>2, Forks
  <2> QED
    BY <1>0, <1>1, <2>1, PidsGoOn
<1>4. ASSUME (SlotsOf(HostOf[n], n))' # {} PROVE FALSE
  <2>1. PICK h \in Hosts : h = HostOf[n]
    BY <1>0
  <2>2. dac.at \in {"handlerCid", "execCid"} /\ Asked = n
    BY <1>0, <1>1, <1>4, <2>1, SlotsGrow
  <2> QED
    BY <1>2, <2>2, AskedIsNamed DEF CidPlaces
<1> QED
  BY <1>3, <1>4

\* While it lives, DAC holds it for RUNNING or is starting it.
LEMMA LiveIsKnown ==
  ASSUME AppInv, AppStep, NEW n \in Procs, (LiveProc(n))'
  PROVE  state'[n] = "RUNNING" \/ (dac'.at \in {"execCid", "execHello"} /\ dac'.on = n)
<1>0. n \in Names
  BY DEF Names
<1>1. CASE \E h \in Hosts : Fork(h) /\ Asked = n
  <2>1. dac.at = "execCid" /\ dac.on = n
    BY <1>1, Forks
  <2>2. dac' = dac
    <3>1. CidStep
      <4>1. ~DacStep
        BY <1>1, DacAlone DEF Fork
      <4> QED
        BY <1>1, <4>1, Steps, NewsFrame, AsideFrame DEF appVars, cidVars, Fork
    <3> QED
      BY <3>1, CidFrame DEF dacVars
  <2> QED
    BY <2>1, <2>2
<1>2. CASE \A h \in Hosts : Fork(h) => Asked # n
  <2>1. LiveProc(n)
    BY <1>0, <1>2, PidsGoOn
  <2>2. state[n] = "RUNNING" \/ (dac.at \in {"execCid", "execHello"} /\ dac.on = n)
    BY <2>1 DEF AppInv, ProcessLife, ProcessFits
  <2>3. CASE state[n] = "RUNNING"
    BY <2>1, <2>3, StateFrame, RunningLeft
  <2>4. CASE dac.at \in {"execCid", "execHello"} /\ dac.on = n /\ ~DacStep
    <3>1. dac' = dac
      BY <2>4, Steps, CidFrame, NewsFrame, AsideFrame DEF appVars, dacVars
    <3> QED
      BY <2>4, <3>1
  <2>5. CASE dac.at \in {"execCid", "execHello"} /\ dac.on = n /\ ProcessForked
    <3>1. Answered /\ dac.at = "execCid"
      BY <2>5, DacGuards
    <3>2. Succeeded
      BY <2>1, <2>5, <3>1 DEF AppInv, ExecFits
    <3>3. dac' = [dac EXCEPT !.at = "execHello"]
      BY <2>5, <3>2 DEF ProcessForked
    <3>4. dac = At(dac.at, dac.on, dac.why)
      BY DEF AppInv, DacShape
    <3>5. [dac EXCEPT !.at = "execHello"] = At("execHello", dac.on, dac.why)
      BY <3>4 DEF At
    <3> QED
      BY <2>5, <3>3, <3>5 DEF At
  <2>6. CASE dac.at \in {"execCid", "execHello"} /\ dac.on = n /\ ProcessAnswers
    <3>1. dac.at = "execHello"
      BY <2>6, DacGuards
    <3>2. proc_id[n] \in PidsOf(n) /\ (\A p, q \in PidsOf(n) : p = q) /\ \A p \in PidsOf(n) : child[p].at # "up"
      BY <2>6, <3>1 DEF AppInv, ExecFits, ProcessLife, ProcessFits
    <3>3. child[proc_id[n]].at = "new"
      BY <2>1, <3>2 DEF LiveProc, Live
    <3> QED
      BY <2>6, <3>3 DEF ProcessAnswers, AppInv, AppTypeOK, DacTypeOK
  <2> QED
    BY <2>2, <2>3, <2>4, <2>5, <2>6, DacGuards DEF DacStep, Dac, Closing
<1> QED
  BY <1>1, <1>2

\* A process has a life: it waits, is started, runs, and is over.
LEMMA LifeKept ==
  ASSUME AppInv, AppStep
  PROVE  ProcessLife'
<1> SUFFICES ASSUME NEW n \in Procs PROVE (ProcessFits(n))'
  BY DEF ProcessLife
<1>1. \A p, q \in (PidsOf(n))' : p = q
  BY OneProgram
<1>2. proc_id'[n] \in (PidsOf(n))' \cup {0} /\ (state'[n] = "RUNNING" => proc_id'[n] # 0)
  BY ProcIdKept
<1>3. state'[n] \in {"WAITING", "READY"} => (PidsOf(n))' = {} /\ (SlotsOf(HostOf[n], n))' = {}
  BY NoneBefore
<1>4. (LiveProc(n))' => state'[n] = "RUNNING" \/ (dac'.at \in {"execCid", "execHello"} /\ dac'.on = n)
  BY LiveIsKnown
<1> QED
  BY <1>1, <1>2, <1>3, <1>4 DEF ProcessFits

-----------------------------------------------------------------------------
(* The process DAC starts.                                                  *)

\* Only a CID answers DAC; nobody else touches DAC's call while DAC waits.
LEMMA DacCallElse ==
  ASSUME AppInv, NewsStep \/ AsideStep \/ UNCHANGED appVars
  PROVE  call'["dac"] = call["dac"] /\ dac' = dac /\ starting' = starting /\ child' = child /\ table' = table /\ up' = up
<1>1. CASE NewsStep \/ UNCHANGED appVars
  BY <1>1, NewsFrame DEF appVars, dacVars, cidVars
<1>2. CASE AsideStep
  <2>1. DOMAIN call = Callers /\ "dac" \in Callers
    BY ControllerAssumption DEF AppInv, AppTypeOK, CidTypeOK
  <2>2. InitFails \/ Ping \/ Pinged \/ Tfddretrievetuple \/ StopFdd => call'["dac"] = call["dac"]
    BY <2>1 DEF InitFails, Ping, Pinged, Tfddretrievetuple, StopFdd, cidVars, Reply
  <2>3. \A h \in Hosts : kill_app(h) => call'["dac"] = call["dac"]
    BY <2>1 DEF kill_app, Reply
  <2> QED
    BY <1>2, <2>2, <2>3, AsideFrame DEF AsideStep, dacVars
<1> QED
  BY <1>1, <1>2

\* A CID answers an EXEC with the pid it has entered; otherwise it has started nothing,
\* or it is down.
LEMMA ExecAnswered ==
  ASSUME AppInv, CidStep, dac.at \in {"execCid", "handlerCid"}, call'["dac"] # call["dac"]
  PROVE  /\ Pending("dac") /\ ~(Pending("dac"))' /\ Pids' = Pids
         /\ \/ \E p \in PidsOf(Asked) : /\ call'["dac"] = Answer(TRUE, p) /\ child' = child
                                        /\ \E h \in Hosts : starting[h] # Nil /\ starting[h].pid = p
            \/ /\ ~(Succeeded)'
               /\ (child' = child /\ \A g \in Hosts : starting[g] = Nil) \/ ~up'[HostOf[Asked]]
<1>0. DOMAIN call = Callers /\ "dac" \in Callers
  BY ControllerAssumption DEF AppInv, AppTypeOK, CidTypeOK
<1>1. Pending("dac") /\ ~(Pending("dac"))'
  BY DacCall
<1>2. ASSUME NEW h \in Hosts, NEW c \in Callers, CidServes(h, c)
      PROVE  /\ child' = child /\ \A g \in Hosts : starting[g] = Nil
             /\ ~(Succeeded)'
  <2>1. CASE OpVerify(h, c) \/ OpExecRefused(h, c)
    <3>1. PICK ok \in BOOLEAN : call' = [call EXCEPT !["dac"] = Answer(ok, 0)] /\ ~ok
      BY <2>1, AnswersDac
    <3> QED
      BY <1>0, <2>1, <3>1, AnswersDac DEF Succeeded, Answer
  <2>2. CASE FillSlot(h, c)
    BY <2>2 DEF FillSlot
  <2>3. CASE OpKill(h, c)
    BY <2>3, Kills
  <2>4. CASE OpKillApp(h, c)
    BY <1>0, <2>4, KillsApp
  <2>5. CASE OpDetectProc(h, c)
    <3>1. \E a : call' = [call EXCEPT !["fdd"] = a]
      BY <2>5, Detects
    <3> QED
      BY <1>0, <3>1
  <2> QED
    BY <1>2, <2>1, <2>2, <2>3, <2>4, <2>5 DEF CidServes
<1>3. ASSUME NEW h \in Hosts, EnterPid(h)
      PROVE  \E p \in PidsOf(Asked) : /\ call'["dac"] = Answer(TRUE, p) /\ child' = child
                                      /\ \E g \in Hosts : starting[g] # Nil /\ starting[g].pid = p
  <2>1. starting[h] # Nil /\ child' = child
    BY <1>3, EntersPid
  <2>2. PICK p \in PidsOf(Asked) : p = starting[h].pid /\ call' = [call EXCEPT !["dac"] = Answer(TRUE, p)]
    BY <1>3, EntersPid
  <2> QED
    BY <1>0, <2>1, <2>2
<1>4. ASSUME NEW h \in Hosts, HostCrash(h) PROVE ~(Succeeded)' /\ ~up'[HostOf[Asked]]
  <2>1. call["dac"].host = h /\ call'["dac"] = NoAnswer
    BY <1>0, <1>4 DEF HostCrash
  <2>2. h = HostOf[Asked]
    BY <1>1, <2>1 DEF AppInv, CallsFit
  <2>3. ~up'[h]
    BY <1>4, TableTypes DEF HostCrash
  <2>4. ~(Succeeded)'
    BY <2>1 DEF Succeeded, NoAnswer
  <2> QED
    BY <2>2, <2>3, <2>4
<1>5. ASSUME NEW c \in Callers, CallFails(c) PROVE ~(Succeeded)' /\ ~up'[HostOf[Asked]]
  <2>1. c = "dac" /\ call'["dac"] = NoAnswer /\ ~up[call["dac"].host] /\ up' = up
    BY <1>0, <1>5 DEF CallFails, Reply
  <2>2. call["dac"].host = HostOf[Asked]
    BY <1>1 DEF AppInv, CallsFit
  <2> QED
    BY <2>1, <2>2 DEF Succeeded, NoAnswer
<1>6. (\E h \in Hosts : Fork(h)) \/ (\E h \in Hosts, p \in Pids : sigchldHandler(h, p))
        \/ (\E p \in Pids, s \in Outcomes \cup {"KILLED"} : Ends(p, s)) => FALSE
  BY DEF Fork, sigchldHandler, Ends
<1>7. Pids' = Pids
  BY <1>6, CidChildren
<1> QED
  BY <1>1, <1>2, <1>3, <1>4, <1>5, <1>6, <1>7 DEF CidStep, CidStarts, Death, HostLost, Fail, Program

\* An EXEC that stays under way is at the same point, or has forked.
LEMMA StartFrame ==
  ASSUME AppInv, CidStep, NEW h \in Hosts, starting[h] # Nil, starting'[h] # Nil
  PROVE  starting'[h] = starting[h] \/ Fork(h)
<1>0. DOMAIN starting = Hosts
  BY TableTypes
<1>1. ASSUME NEW g \in Hosts, NEW c \in Callers, CidServes(g, c) PROVE starting' = starting
  <2>1. CASE FillSlot(g, c)
    BY <2>1, Filled
  <2>2. CASE OpVerify(g, c) \/ OpExecRefused(g, c) \/ OpKill(g, c) \/ OpKillApp(g, c) \/ OpDetectProc(g, c)
    BY <2>2 DEF OpVerify, OpExecRefused, OpKill, OpKillApp, OpDetectProc
  <2> QED
    BY <1>1, <2>1, <2>2 DEF CidServes
<1>2. ASSUME NEW g \in Hosts, Fork(g) PROVE g = h
  BY <1>2, Starting DEF Fork
<1>3. ASSUME NEW g \in Hosts, EnterPid(g) PROVE FALSE
  BY <1>0, <1>3, Starting DEF EnterPid
<1>4. ASSUME NEW g \in Hosts, HostCrash(g) PROVE starting'[h] = starting[h]
  BY <1>0, <1>4 DEF HostCrash
<1>5. (\E c \in Callers : CallFails(c)) \/ (\E g \in Hosts, p \in Pids : sigchldHandler(g, p))
        \/ (\E p \in Pids, s \in Outcomes \cup {"KILLED"} : Ends(p, s)) => starting' = starting
  BY DEF CallFails, sigchldHandler, Ends
<1> QED
  BY <1>1, <1>2, <1>3, <1>4, <1>5 DEF CidStep, CidStarts, Death, HostLost, Fail, Program

\* How DAC comes to start processes.
LEMMA ExecMoves ==
  ASSUME AppInv, DacStep, dac'.at \in ExecPlaces
  PROVE  /\ HandlersStarted \/ dac.at \in ExecPlaces \/ OpExitProcess
         /\ dac'.at = "execHello" => ProcessForked /\ Succeeded /\ dac'.on = dac.on
         /\ dac'.at = "execCid" => ExecProcess
<1>0. dac = At(dac.at, dac.on, dac.why)
  BY DEF AppInv, DacShape
<1>1. OpVerifyApp \/ VerifyNext \/ VerifyAnswered \/ Verified => dac'.at \in {"verify", "verifyCid", "serve"}
  BY DEF OpVerifyApp, VerifyNext, VerifyAnswered, Verified, Asks, NotReady, At, Serving
<1>2. OpStart => dac'.at \in {"handlers", "serve"}
  BY DEF OpStart, At, Serving, Takes
<1>3. ExecHandler \/ HandlerAnswers => dac'.at \in {"handlers", "handlerCid", "killHandlers", "serve"}
  BY DEF ExecHandler, HandlerAnswers, Asks, StartFailed, At, Serving
<1>4. HandlersStarted \/ ProcessAnswers => dac'.at = "exec"
  BY DEF HandlersStarted, ProcessAnswers, At
<1>5. ExecDone => dac'.at = "serve"
  BY DEF ExecDone, At, Serving
<1>6. ProcessForked => dac'.at = "exec" \/ (dac'.at = "execHello" /\ Succeeded /\ dac'.on = dac.on)
  <2>1. ProcessForked => (Succeeded /\ dac' = [dac EXCEPT !.at = "execHello"]) \/ dac' = At("exec", Nil, dac.why)
    BY DEF ProcessForked
  <2>2. [dac EXCEPT !.at = "execHello"] = At("execHello", dac.on, dac.why)
    BY <1>0 DEF At
  <2> QED
    BY <2>1, <2>2 DEF At
<1>7. OpExitProcess => dac'.at \in {"exec", "killAll", "serve"}
  <2>1. OpExitProcess => dac = Serving /\ (dac' = dac \/ dac' = At("exec", Nil, "EXIT_PROCESS") \/ dac' = At("killAll", Nil, "TERM"))
    BY DEF OpExitProcess, Takes
  <2> QED
    BY <2>1 DEF At, Serving
<1>8. OpKillProcess \/ OpKillAll \/ Killed \/ Closing => dac'.at \in {"serve", "killCid", "killAll", "killHandlers", "over"}
  <2>1. OpKillProcess => dac = Serving /\ (dac' = dac \/ \E m : dac' = At("killCid", m, "KILL"))
    BY DEF OpKillProcess, Takes, Asks
  <2>2. OpKillAll \/ Killed \/ Closing => dac'.at \in {"serve", "killCid", "killAll", "killHandlers", "over"}
    BY Closes DEF OpKillAll, Killed, At, Serving
  <2> QED
    BY <2>1, <2>2 DEF At, Serving
<1>9. KillNext => dac'.at \in {"killAll", "killCid"}
  <2>1. KillNext => dac.at = "killAll" /\ (dac' = dac \/ \E m : dac' = At("killCid", m, dac.why))
    BY DEF KillNext, Asks
  <2> QED
    BY <2>1 DEF At
<1>10. OpFddChangeProc \/ OpGetCpulist => dac'.at \in {"serve", "killAll"}
  <2>1. OpFddChangeProc \/ OpGetCpulist => dac' = dac /\ dac = Serving
    BY DEF OpFddChangeProc, OpGetCpulist, Takes, dacVars
  <2> QED
    BY <2>1 DEF Serving, At
<1>11. ExecProcess => dac'.at \in {"exec", "execCid"}
  <2>1. ExecProcess => dac.at = "exec" /\ (dac' = dac \/ \E m : dac' = At("execCid", m, dac.why))
    BY DEF ExecProcess, Asks
  <2> QED
    BY <2>1 DEF At
<1>12. HandlersStarted \/ ExecProcess \/ ProcessForked \/ ProcessAnswers \/ OpExitProcess
  BY <1>1, <1>2, <1>3, <1>5, <1>8, <1>9, <1>10 DEF DacStep, Dac, Closing, ExecPlaces
<1> QED
  BY <1>4, <1>6, <1>7, <1>11, <1>12, DacGuards DEF ExecPlaces

\* While DAC waits for the EXEC of a process, what the CID does about it fits.
LEMMA ExecWaits ==
  ASSUME AppInv, AppStep, dac' = dac, dac.at = "execCid", (Pending("dac"))'
  PROVE  /\ starting'[HostOf[dac.on]] = Nil =>
              (PidsOf(dac.on))' = {} /\ (SlotsOf(HostOf[dac.on], dac.on))' = {}
         /\ \A h \in Hosts : starting'[h] # Nil => (PidsOf(dac.on))' \subseteq {starting'[h].pid}
<1>1. PICK n \in Procs : n = dac.on
  BY DEF AppInv, DacShape
<1>2. n \in Names /\ HostOf[n] \in Hosts /\ Asked = n
  BY <1>1, ControllerAssumption, AskedIsNamed DEF Names, CidPlaces
<1>3. ~DacStep /\ Pending("dac") /\ call'["dac"] = call["dac"]
  <2>1. ~DacStep
    <3>1. DacStep => ProcessForked
      BY DacGuards DEF DacStep, Dac, Closing
    <3>2. ProcessForked => dac'.at # "execCid"
      <4>1. ProcessForked => dac' = [dac EXCEPT !.at = "execHello"] \/ dac' = At("exec", Nil, dac.why)
        BY DEF ProcessForked
      <4>2. dac = At(dac.at, dac.on, dac.why)
        BY DEF AppInv, DacShape
      <4>3. [dac EXCEPT !.at = "execHello"] = At("execHello", dac.on, dac.why)
        BY <4>2 DEF At
      <4> QED
        BY <4>1, <4>3 DEF At
    <3> QED
      BY <3>1, <3>2
  <2>2. CASE CidStep \/ NewsStep \/ AsideStep
    BY <2>1, <2>2, DacCall
  <2>3. CASE UNCHANGED appVars
    BY <2>1, <2>3 DEF appVars, cidVars, Pending
  <2> QED
    BY <2>1, <2>2, <2>3, Steps
<1>4. ASSUME starting[HostOf[n]] = Nil PROVE PidsOf(n) = {} /\ SlotsOf(HostOf[n], n) = {}
  BY <1>1, <1>3, <1>4 DEF AppInv, ExecFits
<1>5. ASSUME NEW h \in Hosts, starting[h] # Nil PROVE PidsOf(n) \subseteq {starting[h].pid} /\ h = HostOf[n]
  BY <1>1, <1>2, <1>3, <1>5, Starting DEF AppInv, ExecFits
<1>6. ASSUME NEW h \in Hosts, starting'[h] # Nil PROVE h = HostOf[n]
  <2>1. call'["dac"].host = h
    BY <1>6, StartingKept DEF StartingFits, StartFits
  <2>2. call["dac"].host = HostOf[n]
    BY <1>2, <1>3 DEF AppInv, CallsFit
  <2> QED
    BY <1>3, <2>1, <2>2
<1>7. ASSUME NEW h \in Hosts, Fork(h) PROVE h = HostOf[n] /\ starting[h] # Nil
  BY <1>2, <1>7, Forks DEF Fork
<1>8. ASSUME \A h \in Hosts : ~Fork(h) PROVE (PidsOf(n))' = PidsOf(n)
  BY <1>2, <1>8, PidsGoOn
<1>9. ASSUME starting'[HostOf[n]] = Nil PROVE (PidsOf(n))' = {} /\ (SlotsOf(HostOf[n], n))' = {}
  <2>1. PICK h \in Hosts : h = HostOf[n]
    BY <1>2
  <2>2. starting[h] = Nil
    <3> SUFFICES ASSUME starting[h] # Nil PROVE FALSE
      OBVIOUS
    <3>1. CidStep
      BY <1>3, <1>9, <2>1, Steps, DacCallElse
    <3>2. ~up'[h]
      BY <1>9, <2>1, <3>1, StartingEnds
    <3>3. up[h]
      BY DEF AppInv, StartingFits, StartFits
    <3>4. HostCrash(h)
      <4>1. ASSUME NEW g \in Hosts, NEW c \in Callers, CidServes(g, c) PROVE up' = up
        <5>1. OpVerify(g, c) \/ OpExecRefused(g, c) \/ FillSlot(g, c) => up' = up
          BY DEF OpVerify, OpExecRefused, FillSlot
        <5>2. OpKill(g, c) \/ OpKillApp(g, c) \/ OpDetectProc(g, c) => up' = up
          BY DEF OpKill, OpKillApp, OpDetectProc
        <5> QED
          BY <4>1, <5>1, <5>2 DEF CidServes
      <4>2. (\E g \in Hosts : Fork(g) \/ EnterPid(g)) \/ (\E c \in Callers : CallFails(c))
              \/ (\E g \in Hosts, p \in Pids : sigchldHandler(g, p))
              \/ (\E p \in Pids, s \in Outcomes \cup {"KILLED"} : Ends(p, s)) => up' = up
        BY DEF Fork, EnterPid, CallFails, sigchldHandler, Ends
      <4>3. \A g \in Hosts : HostCrash(g) /\ g # h => up'[h] = up[h]
        BY TableTypes DEF HostCrash
      <4> QED
        BY <3>1, <3>2, <3>3, <4>1, <4>2, <4>3 DEF CidStep, CidStarts, Death, HostLost, Fail, Program
    <3>5. DOMAIN call = Callers /\ "dac" \in Callers /\ call["dac"].host = h
      BY <1>2, <1>3, <2>1, ControllerAssumption DEF AppInv, AppTypeOK, CidTypeOK, CallsFit
    <3>6. call'["dac"] = NoAnswer
      BY <1>3, <3>4, <3>5 DEF HostCrash
    <3> QED
      BY <3>6 DEF Pending, NoAnswer
  <2>3. (PidsOf(n))' = {}
    <3>1. \A g \in Hosts : ~Fork(g)
      BY <1>7, <2>1, <2>2
    <3> QED
      BY <1>4, <1>8, <2>1, <2>2, <3>1
  <2>4. SlotsOf(h, n) = {}
    BY <1>4, <2>1, <2>2
  <2>5. (SlotsOf(h, n))' = {}
    BY <1>2, <1>9, <2>1, <2>4, SlotsGrow
  <2> QED
    BY <2>1, <2>3, <2>5
<1>10. ASSUME NEW h \in Hosts, starting'[h] # Nil PROVE (PidsOf(n))' \subseteq {starting'[h].pid}
  <2>0. h = HostOf[n]
    BY <1>6, <1>10
  <2>1. CASE Fork(h)
    <3>1. /\ Pids' = Pids \cup {Len(child) + 1} /\ PidsOf(n) = {}
          /\ \A p \in Pids : child'[p] = child[p]
          /\ starting' = [starting EXCEPT ![h].pid = Len(child) + 1]
      BY <1>2, <2>1, Forks
    <3>2. starting[h] # Nil
      BY <2>1 DEF Fork
    <3>3. starting[h] \in [by : {"dac"}, slot : Slots, pid : Nat] /\ DOMAIN starting = Hosts
      BY <3>2 DEF AppInv, StartingFits, StartFits
    <3>4. starting'[h] = [starting[h] EXCEPT !.pid = Len(child) + 1]
      BY <3>1, <3>3
    <3>5. starting'[h].pid = Len(child) + 1
      BY <3>3, <3>4
    <3>6. (PidsOf(n))' \subseteq {Len(child) + 1}
      BY <3>1 DEF PidsOf
    <3> QED
      BY <3>5, <3>6
  <2>2. CASE ~Fork(h)
    <3>1. (PidsOf(n))' = PidsOf(n)
      BY <1>7, <1>8, <2>0, <2>2
    <3>2. CASE starting[h] = Nil
      BY <1>4, <2>0, <3>1, <3>2
    <3>3. CASE starting[h] # Nil
      <4>1. starting'[h] = starting[h]
        <5>1. CASE CidStep
          BY <1>10, <2>2, <3>3, <5>1, StartFrame
        <5>2. CASE ~CidStep
          BY <1>3, <5>2, Steps, DacCallElse
        <5> QED
          BY <5>1, <5>2
      <4> QED
        BY <1>5, <3>1, <3>3, <4>1
    <3> QED
      BY <3>2, <3>3
  <2> QED
    BY <2>1, <2>2
<1> QED
  BY <1>1, <1>9, <1>10

\* What DAC knows of the process it starts stays true while a CID is at work for it.
LEMMA ExecStays ==
  ASSUME AppInv, AppStep, ~DacStep, dac.at = "execCid"
  PROVE  /\ (Answered)' /\ (Succeeded)' => call'["dac"].value \in (PidsOf(dac.on))'
         /\ (Answered)' /\ ~(Succeeded)' => ~(LiveProc(dac.on))'
<1>0. dac' = dac
  BY Steps, CidFrame, NewsFrame, AsideFrame DEF appVars, dacVars
<1>1. PICK n \in Procs : n = dac.on /\ n = dac'.on
  BY <1>0 DEF AppInv, DacShape
<1>2. n \in Names /\ HostOf[n] \in Hosts /\ Asked = n
  BY <1>1, ControllerAssumption, AskedIsNamed DEF Names, CidPlaces
<1>3. PidsOf(n) \subseteq (PidsOf(n))'
  BY <1>2, PidsGoOn
<1>4. CASE call'["dac"] = call["dac"] /\ Answered
  <2>1. \A h \in Hosts : Fork(h) => Asked # n
    BY <1>4, Forks DEF Answered
  <2>2. (LiveProc(n))' => LiveProc(n)
    BY <1>2, <2>1, PidsGoOn
  <2>3. (Succeeded)' = Succeeded
    BY <1>4 DEF Succeeded
  <2>4. Succeeded => call["dac"].value \in PidsOf(n)
    BY <1>1, <1>4 DEF AppInv, ExecFits
  <2>5. ~Succeeded => ~LiveProc(n)
    BY <1>1, <1>4 DEF AppInv, ExecFits
  <2> QED
    BY <1>1, <1>3, <1>4, <2>2, <2>3, <2>4, <2>5
<1>5. CASE call'["dac"] = call["dac"] /\ ~Answered
  BY <1>5 DEF Answered, Pending
<1>6. CASE call'["dac"] # call["dac"]
  <2>1. CidStep
    BY <1>6, DacCallElse, Steps
  <2>2. Pids' = Pids /\ Pending("dac")
    BY <1>6, <2>1, ExecAnswered
  <2>3. ASSUME NEW p \in PidsOf(n), call'["dac"] = Answer(TRUE, p)
        PROVE  (Succeeded)' /\ call'["dac"].value \in (PidsOf(n))'
    BY <1>3, <2>3 DEF Succeeded, Answer
  <2>4. ASSUME child' = child, \A g \in Hosts : starting[g] = Nil PROVE ~(LiveProc(n))'
    <3>1. PidsOf(n) = {}
      BY <1>1, <1>2, <2>2, <2>4 DEF AppInv, ExecFits
    <3> QED
      BY <2>4, <3>1 DEF LiveProc, PidsOf, Pids
  <2>5. ASSUME ~up'[HostOf[n]] PROVE ~(LiveProc(n))'
    BY <2>5, ChildrenKept DEF ChildrenFit, ChildFits, LiveProc, PidsOf, Live
  <2>6. \/ \E p \in PidsOf(n) : call'["dac"] = Answer(TRUE, p)
        \/ ~(Succeeded)' /\ ((child' = child /\ \A g \in Hosts : starting[g] = Nil) \/ ~up'[HostOf[n]])
    BY <1>1, <1>2, <1>6, <2>1, ExecAnswered
  <2> QED
    BY <1>1, <2>3, <2>4, <2>5, <2>6
<1> QED
  BY <1>4, <1>5, <1>6

\* The process DAC starts has not run, has nothing in front of it, and is started once.
LEMMA ExecKept ==
  ASSUME AppInv, AppStep
  PROVE  ExecFits'
<1>1. CASE ~DacStep
  <2>1. dac' = dac /\ state' = state /\ prcd' = prcd /\ start_flag' = start_flag /\ proc_id' = proc_id
    BY <1>1, Steps, CidFrame, NewsFrame, AsideFrame DEF appVars, dacVars
  <2>5. PICK n : n = dac.on /\ n = dac'.on
    BY <2>1
  <2>2. ASSUME dac.at \in {"execCid", "execHello"}, NEW p \in (PidsOf(n))'
        PROVE  child'[p].at # "up"
    <3>0. p \in Pids' /\ child'[p].name = n
      BY <2>2 DEF PidsOf
    <3>1. CASE p \in Pids
      <4>1. GoesOn(p) /\ p \in PidsOf(n)
        BY <3>0, <3>1, ChildrenGoOn DEF PidsOf, GoesOn
      <4>2. child'[p].at = "up" => child[p].at = "up"
        <5>1. CASE CidStep
          BY <3>1, <5>1, CidChildren
        <5>2. CASE ~CidStep
          BY <1>1, <5>2, Steps, DacCallElse
        <5> QED
          BY <5>1, <5>2
      <4> QED
        BY <2>2, <2>5, <4>1, <4>2 DEF AppInv, ExecFits
    <3>2. CASE p \notin Pids
      <4>1. PICK h \in Hosts : Fork(h)
        BY <3>0, <3>2, ChildrenGoOn
      <4>3. Pids' = Pids \cup {Len(child) + 1}
        BY <4>1, Forks
      <4>4. child'[Len(child) + 1] = [name |-> Asked, host |-> h, at |-> "new", status |-> Nil]
        BY <4>1, Forks
      <4>2. p = Len(child) + 1 /\ child'[Len(child) + 1].at = "new"
        BY <3>0, <3>2, <4>3, <4>4
      <4> QED
        BY <4>2
    <3> QED
      BY <3>1, <3>2
  <2>3. dac.at = "execCid" =>
          /\ (Pending("dac"))' /\ starting'[HostOf[dac.on]] = Nil =>
               (PidsOf(dac.on))' = {} /\ (SlotsOf(HostOf[dac.on], dac.on))' = {}
          /\ (Pending("dac"))' => \A h \in Hosts : starting'[h] # Nil => (PidsOf(dac.on))' \subseteq {starting'[h].pid}
    BY <2>1, ExecWaits
  <2>4. dac.at = "execCid" =>
          /\ (Answered)' /\ (Succeeded)' => call'["dac"].value \in (PidsOf(dac.on))'
          /\ (Answered)' /\ ~(Succeeded)' => ~(LiveProc(dac.on))'
    BY <1>1, ExecStays
  <2>6. dac'.at \in {"execCid", "execHello"} =>
          state'[n] = "FAILED" /\ prcd'[n] = {} /\ \A p \in (PidsOf(n))' : child'[p].at # "up"
    BY <2>1, <2>2, <2>5 DEF AppInv, ExecFits
  <2>7. dac'.at = "execHello" => proc_id'[n] # 0
    BY <2>1, <2>5 DEF AppInv, ExecFits
  <2>8. dac'.at \in ExecPlaces => start_flag'
    BY <2>1 DEF AppInv, ExecFits
  <2>9. dac'.at = "execCid" =>
          /\ (Pending("dac"))' /\ starting'[HostOf[n]] = Nil => (PidsOf(n))' = {} /\ (SlotsOf(HostOf[n], n))' = {}
          /\ (Pending("dac"))' => \A h \in Hosts : starting'[h] # Nil => (PidsOf(n))' \subseteq {starting'[h].pid}
    BY <2>1, <2>3, <2>5
  <2>10. dac'.at = "execCid" =>
          /\ (Answered)' /\ (Succeeded)' => call'["dac"].value \in (PidsOf(n))'
          /\ (Answered)' /\ ~(Succeeded)' => ~(LiveProc(n))'
    BY <2>1, <2>4, <2>5
  <2> QED
    BY <2>5, <2>6, <2>7, <2>8, <2>9, <2>10 DEF ExecFits
<1>2. CASE DacStep
  <2>1. starting' = starting /\ (\A h \in Hosts : starting[h] = Nil) /\ (start_flag => start_flag') /\ ~Pending("dac")
    BY <1>2, DacFrame, DacAlone, StartedStays
  <2>2. dac'.at \in ExecPlaces => start_flag'
    <3> SUFFICES ASSUME dac'.at \in ExecPlaces PROVE start_flag'
      OBVIOUS
    <3>1. CASE HandlersStarted
      BY <3>1 DEF HandlersStarted
    <3>2. CASE dac.at \in ExecPlaces
      BY <2>1, <3>2 DEF AppInv, ExecFits
    <3>3. CASE OpExitProcess
      <4>1. PICK m \in Procs, s \in Statuses : Takes(Report(m, s))
        BY <3>3, ExitStates
      <4>2. NewsIsTrue(Report(m, s))
        BY <4>1, HeadTrue
      <4>3. PidsOf(m) # {}
        BY <4>2 DEF NewsIsTrue, Report, OverProc
      <4> QED
        BY <2>1, <4>3, RunningStarted
    <3> QED
      BY <1>2, <3>1, <3>2, <3>3, ExecMoves
  <2>3. CASE dac'.at = "execCid"
    <3>1. ExecProcess
      BY <1>2, <2>3, ExecMoves DEF ExecPlaces
    <3>2. ~(Answered)'
      <4>1. DacCallFits'
        BY <1>2, DacMoves
      <4>2. call'["dac"] = (Question(dac.at, Asked))'
        BY <2>3, <4>1 DEF DacCallFits, CidPlaces
      <4>3. call'["dac"] = Exec((HostOf[Asked])', (Asked)')
        BY <2>3, <4>2 DEF Question
      <4>4. call'["dac"].op = "EXEC"
        BY <4>3 DEF Exec
      <4> QED
        BY <4>4 DEF Pending, Answered
    <3>3. FirstOf(Ready) \in Ready
      BY <3>1, FirstIn DEF ExecProcess, Ready
    <3>4. PICK n \in Procs : n = FirstOf(Ready) /\ state[n] = "READY" /\ dac'.on = n
      <4>1. dac.at = "exec" /\ (dac' = dac \/ dac' = At("execCid", FirstOf(Ready), dac.why))
        BY <3>1 DEF ExecProcess, Asks
      <4>2. dac'.on = FirstOf(Ready)
        BY <2>3, <4>1 DEF At
      <4> QED
        BY <3>3, <4>2 DEF Ready
    <3>5. child' = child /\ prcd' = prcd /\ table' = table /\ state' = [state EXCEPT ![n] = "FAILED"]
      BY <3>1, <3>4 DEF ExecProcess
    <3>6. PidsOf(n) = {} /\ SlotsOf(HostOf[n], n) = {} /\ prcd[n] = {}
      BY <3>4 DEF AppInv, ProcessLife, ProcessFits, OrderKept, OrderFits
    <3>7. (PidsOf(n))' = {} /\ (SlotsOf(HostOf[n], n))' = {} /\ prcd'[n] = {}
      BY <3>5, <3>6 DEF PidsOf, Pids, SlotsOf, Used
    <3>8. state'[n] = "FAILED"
      BY <3>5 DEF AppInv, AppTypeOK, DacTypeOK
    <3> QED
      BY <2>1, <2>2, <2>3, <3>2, <3>4, <3>7, <3>8 DEF ExecFits
  <2>4. CASE dac'.at = "execHello"
    <3>1. ProcessForked /\ Succeeded /\ dac'.on = dac.on
      BY <1>2, <2>4, ExecMoves DEF ExecPlaces
    <3>2. dac.at = "execCid" /\ Answered
      BY <3>1, DacGuards
    <3>3. PICK n \in Procs : n = dac.on
      BY <3>2 DEF AppInv, DacShape
    <3>4. child' = child /\ prcd' = prcd /\ state' = state /\ proc_id' = [proc_id EXCEPT ![n] = call["dac"].value]
      BY <3>1, <3>3 DEF ProcessForked
    <3>5. /\ state[n] = "FAILED" /\ prcd[n] = {} /\ (\A p \in PidsOf(n) : child[p].at # "up")
          /\ call["dac"].value \in PidsOf(n)
      BY <3>1, <3>2, <3>3 DEF AppInv, ExecFits
    <3>6. proc_id'[n] = call["dac"].value
      BY <3>4 DEF AppInv, AppTypeOK, DacTypeOK, Names
    <3>7. proc_id'[n] # 0
      BY <3>5, <3>6 DEF PidsOf, Pids
    <3>8. \A p \in (PidsOf(n))' : child'[p].at # "up"
      BY <3>4, <3>5 DEF PidsOf, Pids
    <3> QED
      BY <2>2, <2>4, <3>1, <3>3, <3>4, <3>5, <3>7, <3>8 DEF ExecFits
  <2>5. CASE dac'.at \notin {"execCid", "execHello"}
    BY <2>2, <2>5 DEF ExecFits
  <2> QED
    BY <2>3, <2>4, <2>5
<1> QED
  BY <1>1, <1>2

-----------------------------------------------------------------------------
(* The process DAC kills.                                                   *)

\* How DAC comes to kill a process.
LEMMA KillMoves ==
  ASSUME AppInv, DacStep, dac'.at = "killCid"
  PROVE  /\ OpKillProcess \/ KillNext
         /\ state[dac'.on] = "RUNNING" /\ state' = state
         /\ dac'.why = "KILL" => Event("KILL", dac'.on) \in Outside
<1>1. OpVerifyApp \/ VerifyNext \/ VerifyAnswered \/ Verified => dac'.at # "killCid"
  BY DEF OpVerifyApp, VerifyNext, VerifyAnswered, Verified, Asks, NotReady, At, Serving
<1>2. OpStart \/ ExecHandler \/ HandlerAnswers => dac'.at # "killCid"
  <2>1. OpStart => dac'.at \in {"handlers", "serve"}
    BY DEF OpStart, At, Serving, Takes
  <2>2. ExecHandler \/ HandlerAnswers => dac'.at \in {"handlers", "handlerCid", "killHandlers", "serve"}
    BY DEF ExecHandler, HandlerAnswers, Asks, StartFailed, At, Serving
  <2> QED
    BY <2>1, <2>2
<1>3. HandlersStarted \/ ProcessAnswers \/ ExecDone \/ OpKillAll \/ Killed \/ Closing => dac'.at # "killCid"
  BY Closes DEF HandlersStarted, ProcessAnswers, ExecDone, OpKillAll, Killed, At, Serving
<1>4. ExecProcess \/ ProcessForked => dac'.at # "killCid"
  <2>1. ExecProcess => dac.at = "exec" /\ (dac' = dac \/ \E m : dac' = At("execCid", m, dac.why))
    BY DEF ExecProcess, Asks
  <2>2. ProcessForked => dac' = [dac EXCEPT !.at = "execHello"] \/ dac' = At("exec", Nil, dac.why)
    BY DEF ProcessForked
  <2>3. [dac EXCEPT !.at = "execHello"] = At("execHello", dac.on, dac.why)
    BY DEF At, AppInv, DacShape
  <2>4. ExecProcess => dac'.at # "killCid"
    BY <2>1 DEF At
  <2>5. ProcessForked => dac'.at # "killCid"
    <3>1. \A x, y : At("execHello", x, y).at # "killCid" /\ At("exec", x, y).at # "killCid"
      BY DEF At
    <3> QED
      BY <2>2, <2>3, <3>1
  <2> QED
    BY <2>4, <2>5
<1>5. OpExitProcess => dac'.at # "killCid"
  <2>1. OpExitProcess => dac = Serving /\ (dac' = dac \/ dac' = At("exec", Nil, "EXIT_PROCESS") \/ dac' = At("killAll", Nil, "TERM"))
    BY DEF OpExitProcess, Takes
  <2> QED
    BY <2>1 DEF At, Serving
<1>6. OpFddChangeProc \/ OpGetCpulist => dac'.at # "killCid"
  <2>1. OpFddChangeProc \/ OpGetCpulist => dac' = dac /\ dac = Serving
    BY DEF OpFddChangeProc, OpGetCpulist, Takes, dacVars
  <2> QED
    BY <2>1 DEF Serving, At
<1>7. ASSUME OpKillProcess
      PROVE  state[dac'.on] = "RUNNING" /\ state' = state /\ Event("KILL", dac'.on) \in Outside
  <2>1. PICK n \in Procs :
          /\ Takes(OpOn("KILL", n))
          /\ IF state[n] = "RUNNING" /\ up[HostOf[n]]
             THEN Asks(Kill(HostOf[n], n), At("killCid", n, "KILL")) /\ UNCHANGED state
             ELSE UNCHANGED dac
    BY <1>7 DEF OpKillProcess
  <2>2. dac = Serving
    BY <2>1 DEF Takes
  <2>3. state[n] = "RUNNING" /\ dac' = At("killCid", n, "KILL") /\ state' = state
    BY <2>1, <2>2 DEF Serving, At, Asks
  <2>4. NewsIsTrue(OpOn("KILL", n))
    BY <2>1, HeadTrue
  <2>5. Event("KILL", n) \in Outside
    BY <2>4 DEF NewsIsTrue, OpOn
  <2> QED
    BY <2>3, <2>5 DEF At
<1>8. ASSUME KillNext
      PROVE  state[dac'.on] = "RUNNING" /\ state' = state /\ dac'.why # "KILL"
  <2>1. Running # {} /\ dac.at = "killAll"
    BY <1>8 DEF KillNext
  <2>2. FirstOf(Running) \in Running
    BY <2>1, FirstIn DEF Running
  <2>3. dac' = dac \/ (dac' = At("killCid", FirstOf(Running), dac.why) /\ state' = state)
    BY <1>8 DEF KillNext, Asks
  <2>4. dac.why # "KILL"
    BY <2>1 DEF AppInv, DacShape
  <2> QED
    BY <2>1, <2>2, <2>3, <2>4 DEF At, Running
<1>9. OpKillProcess \/ KillNext
  BY <1>1, <1>2, <1>3, <1>4, <1>5, <1>6 DEF DacStep, Dac, Closing
<1> QED
  BY <1>7, <1>8, <1>9

\* A process that DAC holds for RUNNING has one program at most, and while it lives its
\* entry is in the table, unless it has been killed.
LEMMA LiveEntry ==
  ASSUME AppInv, NEW n \in Procs, state[n] = "RUNNING", dac.at = "killCid", dac.on = n, Pending("dac"),
         NEW p \in PidsOf(n), Live(p)
  PROVE  \E i \in SlotsOf(HostOf[n], n) : table[HostOf[n]][i].pid = p
<1>1. child[p].host = HostOf[n] /\ child[p].at # "gone" /\ child[p].name = n
  BY DEF AppInv, ChildrenFit, ChildFits, PidsOf, Live
<1>2. starting[HostOf[n]] = Nil
  <2>1. HostOf[n] \in Hosts
    BY ControllerAssumption DEF Names
  <2> QED
    BY <2>1, Starting
<1> QED
  BY <1>1, <1>2 DEF AppInv, ChildrenFit, ChildFits, PidsOf

\* The process that a CID has killed for DAC does not live.
LEMMA KillAnswered ==
  ASSUME AppInv, AppStep, ~DacStep, dac.at = "killCid", (Answered)'
  PROVE  ~(LiveProc(dac.on))'
<1>0. dac' = dac
  BY Steps, CidFrame, NewsFrame, AsideFrame DEF appVars, dacVars
<1>1. PICK n \in Procs : n = dac.on /\ n = dac'.on /\ Asked = n
  BY <1>0, AskedIsNamed DEF AppInv, DacShape, CidPlaces
<1>2. n \in Names /\ HostOf[n] \in Hosts /\ DOMAIN call = Callers /\ "dac" \in Callers /\ state[n] = "RUNNING"
  BY <1>1, ControllerAssumption DEF Names, AppInv, KillFits, AppTypeOK, CidTypeOK
<1>3. \A h \in Hosts : ~Fork(h)
  BY <1>1, Forks
<1>4. (LiveProc(n))' => LiveProc(n)
  BY <1>2, <1>3, PidsGoOn
<1>5. CASE call'["dac"] = call["dac"]
  <2>1. Answered
    BY <1>5 DEF Answered, Pending
  <2> QED
    BY <1>1, <1>4, <2>1 DEF AppInv, KillFits
<1>6. CASE call'["dac"] # call["dac"]
  <2>1. CidStep
    BY <1>6, DacCallElse, Steps
  <2>2. Pending("dac")
    BY <1>6, <2>1, DacCall
  <2>3. ASSUME NEW h \in Hosts, NEW c \in Callers, CidServes(h, c) PROVE OpKill(h, c)
    <3>1. ~OpVerify(h, c) /\ ~OpExecRefused(h, c)
      BY <1>1, AnswersDac
    <3>2. ~FillSlot(h, c)
      BY <1>6 DEF FillSlot
    <3>3. ~OpKillApp(h, c)
      BY <1>2, <1>6, KillsApp
    <3>4. ~OpDetectProc(h, c)
      <4>1. OpDetectProc(h, c) => \E a : call' = [call EXCEPT !["fdd"] = a]
        BY Detects
      <4> QED
        BY <1>2, <1>6, <4>1
    <3> QED
      BY <2>3, <3>1, <3>2, <3>3, <3>4 DEF CidServes
  <2>4. ASSUME NEW h \in Hosts, NEW c \in Callers, OpKill(h, c) PROVE ~(LiveProc(n))'
    <3> SUFFICES ASSUME NEW p \in PidsOf(n), (Live(p))' PROVE FALSE
      <4>1. (PidsOf(n))' = PidsOf(n)
        BY <1>2, <1>3, PidsGoOn
      <4> QED
        BY <4>1 DEF LiveProc
    <3>1. Live(p)
      BY <1>2, PidsGoOn
    <3>2. PICK i \in SlotsOf(HostOf[n], n) : table[HostOf[n]][i].pid = p
      BY <1>1, <1>2, <2>2, <3>1, LiveEntry
    <3>3. h = HostOf[n] /\ \/ SlotsOf(h, n) = {}
                           \/ \E k \in SlotsOf(h, n) : child' = Signalled({table[h][k].pid})
      BY <1>1, <2>4, Kills
    <3>4. PICK k \in SlotsOf(h, n) : child' = Signalled({table[h][k].pid})
      BY <3>2, <3>3
    <3>5. table[h][k].pid = p
      <4>1. table[h][k].used /\ table[h][k].name = n /\ up[h] /\ k \in Slots
        BY <2>4, <3>4, Kills DEF SlotsOf, Used
      <4>2. starting[h] = Nil
        BY <2>4, Kills
      <4>3. EntryFits(h, k)
        BY <4>1 DEF AppInv, TableFits
      <4>4. ~BeingFilled(h, k)
        BY <4>2 DEF BeingFilled
      <4>5. table[h][k].pid \in PidsOf(n)
        BY <4>1, <4>3, <4>4 DEF EntryFits
      <4> QED
        BY <4>5 DEF AppInv, ProcessLife, ProcessFits
    <3>6. p \in Pids /\ child'[p].at \notin {"new", "up"}
      BY <3>4, <3>5, SignalsGoOn DEF PidsOf, AppInv
    <3> QED
      BY <3>6 DEF Live
  <2>5. ASSUME NEW h \in Hosts, HostCrash(h) PROVE ~up'[HostOf[n]]
    <3>1. call["dac"].host = h
      BY <1>2, <1>6, <2>5 DEF HostCrash
    <3>2. h = HostOf[n]
      BY <1>1, <2>2, <3>1 DEF AppInv, CallsFit
    <3> QED
      BY <2>5, <3>2, TableTypes DEF HostCrash
  <2>6. ASSUME NEW c \in Callers, CallFails(c) PROVE ~up'[HostOf[n]]
    <3>1. c = "dac" /\ ~up[call["dac"].host] /\ up' = up
      BY <1>2, <1>6, <2>6 DEF CallFails, Reply
    <3>2. call["dac"].host = HostOf[n]
      BY <1>1, <2>2 DEF AppInv, CallsFit
    <3> QED
      BY <3>1, <3>2
  <2>7. ASSUME ~up'[HostOf[n]] PROVE ~(LiveProc(n))'
    BY <2>7, ChildrenKept DEF ChildrenFit, ChildFits, LiveProc, PidsOf, Live
  <2>8. (\E h \in Hosts : Fork(h)) \/ (\E h \in Hosts, p \in Pids : sigchldHandler(h, p))
          \/ (\E p \in Pids, s \in Outcomes \cup {"KILLED"} : Ends(p, s)) => FALSE
    BY <1>6 DEF Fork, sigchldHandler, Ends
  <2>9. ASSUME NEW h \in Hosts, EnterPid(h) PROVE FALSE
    BY <1>1, <2>9, EntersPid, Starting
  <2> QED
    BY <1>1, <2>1, <2>3, <2>4, <2>5, <2>6, <2>7, <2>8, <2>9 DEF CidStep, CidStarts, Death, HostLost, Fail, Program
<1> QED
  BY <1>5, <1>6

\* The kill is of a process that ran, and leaves it dead.
LEMMA KillKept ==
  ASSUME AppInv, AppStep
  PROVE  KillFits'
<1>1. CASE ~DacStep
  <2>1. dac' = dac /\ state' = state
    BY <1>1, Steps, CidFrame, NewsFrame, AsideFrame DEF appVars, dacVars
  <2>2. PICK n : n = dac.on /\ n = dac'.on
    BY <2>1
  <2>3. dac'.at = "killCid" => state'[n] = "RUNNING" /\ (dac'.why = "KILL" => Event("KILL", n) \in Outside)
    BY <2>1, <2>2 DEF AppInv, KillFits
  <2>4. dac'.at = "killCid" /\ (Answered)' => ~(LiveProc(n))'
    BY <1>1, <2>1, <2>2, KillAnswered
  <2> QED
    BY <2>2, <2>3, <2>4 DEF KillFits
<1>2. CASE DacStep /\ dac'.at = "killCid"
  <2>1. /\ state'[dac'.on] = "RUNNING"
        /\ dac'.why = "KILL" => Event("KILL", dac'.on) \in Outside
    BY <1>2, KillMoves
  <2>2. ~(Answered)'
    <3>1. DacCallFits'
      BY <1>2, DacMoves
    <3>2. call'["dac"] = (Question(dac.at, Asked))'
      BY <1>2, <3>1 DEF DacCallFits, CidPlaces
    <3>3. call'["dac"] = Kill((HostOf[Asked])', (Asked)')
      BY <1>2, <3>2 DEF Question
    <3>4. call'["dac"].op = "KILL"
      BY <3>3 DEF Kill
    <3> QED
      BY <3>4 DEF Pending, Answered
  <2> QED
    BY <2>1, <2>2 DEF KillFits
<1>3. CASE dac'.at # "killCid"
  BY <1>3 DEF KillFits
<1> QED
  BY <1>1, <1>2, <1>3

-----------------------------------------------------------------------------
(* Precedence.                                                              *)

\* Only the report of an end shortens a list.
LEMMA PrcdFrame ==
  ASSUME AppStep, prcd' # prcd
  PROVE  OpExitProcess
<1>1. DacStep
  BY Steps, CidFrame, NewsFrame, AsideFrame DEF appVars, dacVars
<1>2. OpVerifyApp \/ VerifyNext \/ VerifyAnswered \/ Verified \/ OpStart \/ ExecHandler \/ ExecProcess
        \/ HandlersStarted \/ ProcessAnswers \/ ExecDone \/ OpKillAll \/ OpGetCpulist =>
        prcd' = prcd
  BY DEF OpVerifyApp, VerifyNext, VerifyAnswered, Verified, OpStart, ExecHandler, ExecProcess,
         HandlersStarted, ProcessAnswers, ExecDone, OpKillAll, OpGetCpulist, dacVars
<1>3. ProcessForked \/ HandlerAnswers \/ OpKillProcess \/ KillNext \/ Killed \/ Closing \/ OpFddChangeProc => prcd' = prcd
  BY DEF ProcessForked, HandlerAnswers, OpKillProcess, KillNext, Killed, OpFddChangeProc,
         Closing, ProcessesKilled, KillHandler, HandlersKilled, End
<1> QED
  BY <1>1, <1>2, <1>3 DEF DacStep, Dac, Closing

\* A process is made ready by the end of the last before it, and is started at once.
LEMMA MadeReady ==
  ASSUME AppInv, AppStep, NEW n \in Procs, state'[n] = "READY", state[n] # "READY"
  PROVE  OpExitProcess /\ prcd'[n] = {} /\ dac' = At("exec", Nil, "EXIT_PROCESS")
<1>0. state \in [Procs -> States] /\ state[n] = "WAITING"
  BY NotAgain DEF AppInv, AppTypeOK, DacTypeOK
<1>1. ExecProcess \/ ProcessAnswers \/ OpExitProcess \/ OpKillProcess \/ KillNext \/ Killed \/ Closing \/ OpFddChangeProc
  BY StateFrame
<1>2. ExecProcess \/ OpKillProcess \/ KillNext \/ Killed \/ Closing \/ OpFddChangeProc \/ ProcessAnswers => FALSE
  BY <1>0, Closes DEF ExecProcess, OpKillProcess, KillNext, Killed, OpFddChangeProc, ProcessAnswers
<1>3. OpExitProcess
  BY <1>1, <1>2
<1>4. PICK m \in Procs, s \in Statuses :
        /\ \A x \in Procs :
             \/ state'[x] = state[x] /\ (x # m \/ state[x] = "KILLED") /\ (state[x] = "WAITING" => prcd'[x] # {})
             \/ x = m /\ state[x] # "KILLED" /\ state'[x] = s
             \/ state[x] = "WAITING" /\ state'[x] = "READY" /\ x # m /\ prcd'[x] = {}
        /\ (\E x \in Procs : state'[x] = "READY" /\ state[x] = "WAITING") => dac' = At("exec", Nil, "EXIT_PROCESS")
  BY <1>3, ExitStates
<1>5. prcd'[n] = {}
  BY <1>0, <1>4 DEF Statuses
<1> QED
  BY <1>0, <1>3, <1>4, <1>5

\* DAC goes back to its port only when nobody is ready.
LEMMA ExecLeft ==
  ASSUME AppInv, AppStep, dac.at \in ExecPlaces, dac'.at \notin ExecPlaces
  PROVE  ExecDone
<1>1. DacStep
  BY Steps, CidFrame, NewsFrame, AsideFrame DEF appVars, dacVars
<1>2. ExecProcess \/ ProcessForked \/ ProcessAnswers \/ ExecDone
  BY <1>1, DacGuards DEF DacStep, Dac, Closing, ExecPlaces
<1>3. ProcessAnswers => dac'.at = "exec"
  BY DEF ProcessAnswers, At
<1>4. ExecProcess => dac'.at \in {"exec", "execCid"}
  <2>1. ExecProcess => dac.at = "exec" /\ (dac' = dac \/ \E m : dac' = At("execCid", m, dac.why))
    BY DEF ExecProcess, Asks
  <2> QED
    BY <2>1 DEF At
<1>5. ProcessForked => dac'.at \in {"exec", "execHello"}
  <2>1. ProcessForked => dac' = [dac EXCEPT !.at = "execHello"] \/ dac' = At("exec", Nil, dac.why)
    BY DEF ProcessForked
  <2>2. [dac EXCEPT !.at = "execHello"] = At("execHello", dac.on, dac.why)
    BY DEF At, AppInv, DacShape
  <2>3. \A x, y : At("execHello", x, y).at = "execHello" /\ At("exec", x, y).at = "exec"
    BY DEF At
  <2> QED
    BY <2>1, <2>2, <2>3
<1> QED
  BY <1>2, <1>3, <1>4, <1>5 DEF ExecPlaces

\* What is off a list has ended, and nobody stays ready.
LEMMA OrderStays ==
  ASSUME AppInv, AppStep
  PROVE  OrderKept'
<1> SUFFICES ASSUME NEW n \in Procs PROVE (OrderFits(n))'
  BY DEF OrderKept
<1>0. OrderFits(n) /\ Precedents[n] \subseteq Procs /\ prcd \in [Procs -> SUBSET Procs]
  BY ControllerAssumption DEF AppInv, OrderKept, AppTypeOK, DacTypeOK
<1>1. ASSUME NEW q \in Precedents[n] \ prcd'[n] PROVE (OverProc(q))'
  <2>0. q \in Procs /\ q \in Names
    BY <1>0, <1>1 DEF Names
  <2>1. CASE q \notin prcd[n]
    <3>1. OverProc(q)
      BY <1>0, <1>1, <2>1 DEF OrderFits
    <3> QED
      BY <2>0, <3>1, PidsGoOn
  <2>2. CASE q \in prcd[n]
    <3>1. OpExitProcess
      BY <1>1, <2>2, PrcdFrame
    <3>2. PICK m \in Procs, s \in Statuses :
            Takes(Report(m, s)) /\ prcd' = [p \in Procs |-> prcd[p] \ {m}]
      BY <3>1, ExitStates
    <3>3. q = m
      BY <1>1, <2>2, <3>2
    <3>4. NewsIsTrue(Report(m, s))
      BY <3>2, HeadTrue
    <3>5. OverProc(q)
      BY <3>3, <3>4 DEF NewsIsTrue, Report
    <3> QED
      BY <2>0, <3>5, PidsGoOn
  <2> QED
    BY <2>1, <2>2
<1>2. ASSUME state'[n] = "READY" PROVE prcd'[n] = {}
  <2>1. CASE state[n] = "READY"
    <3>1. prcd[n] = {}
      BY <1>0, <2>1 DEF OrderFits
    <3>2. prcd' = prcd \/ \E m \in Procs : prcd' = [p \in Procs |-> prcd[p] \ {m}]
      BY PrcdFrame, ExitStates
    <3> QED
      BY <3>1, <3>2
  <2>2. CASE state[n] # "READY"
    BY <1>2, <2>2, MadeReady
  <2> QED
    BY <2>1, <2>2
<1>3. ASSUME state'[n] = "WAITING" PROVE Precedents[n] # {}
  <2>1. state[n] = "WAITING"
    BY <1>3, NotAgain
  <2> QED
    BY <1>0, <2>1 DEF OrderFits
<1>4. ASSUME start_flag', dac'.at \notin ExecPlaces, state'[n] = "READY" PROVE FALSE
  <2>1. state[n] = "READY"
    BY <1>4, MadeReady DEF At, ExecPlaces
  <2>2. start_flag
    <3>1. HandlersStarted => dac'.at = "exec"
      BY DEF HandlersStarted, At
    <3> QED
      BY <1>4, <3>1, StartedStays DEF ExecPlaces
  <2>3. dac.at \in ExecPlaces
    BY <1>0, <2>1, <2>2 DEF OrderFits
  <2>4. ExecDone
    BY <1>4, <2>3, ExecLeft
  <2> QED
    BY <2>1, <2>4 DEF ExecDone, Ready
<1> QED
  BY <1>1, <1>2, <1>3, <1>4 DEF OrderFits

-----------------------------------------------------------------------------
(* Handlers.                                                                *)

\* DAC changes a program when it greets it, and when it ends the handlers.
LEMMA DacFrames ==
  ASSUME DacStep
  PROVE  /\ child' = child \/ HandlerAnswers \/ ProcessAnswers \/ KillHandler
         /\ hstate' = hstate \/ HandlerAnswers \/ KillHandler
<1>1. OpVerifyApp \/ VerifyNext \/ VerifyAnswered \/ Verified \/ OpStart \/ ExecHandler \/ ExecProcess
        \/ HandlersStarted \/ ExecDone \/ OpKillAll \/ OpGetCpulist =>
        child' = child /\ hstate' = hstate
  BY DEF OpVerifyApp, VerifyNext, VerifyAnswered, Verified, OpStart, ExecHandler, ExecProcess,
         HandlersStarted, ExecDone, OpKillAll, OpGetCpulist, dacVars, cidVars
<1>2. ProcessForked \/ OpKillProcess \/ KillNext \/ Killed \/ OpFddChangeProc \/ OpExitProcess =>
        child' = child /\ hstate' = hstate
  BY DEF ProcessForked, OpKillProcess, KillNext, Killed, OpFddChangeProc, OpExitProcess
<1>3. ProcessAnswers => hstate' = hstate
  BY DEF ProcessAnswers
<1>4. ProcessesKilled \/ HandlersKilled \/ End => child' = child /\ hstate' = hstate
  BY DEF ProcessesKilled, HandlersKilled, End, cidVars
<1> QED
  BY <1>1, <1>2, <1>3, <1>4 DEF DacStep, Dac

\* How DAC comes to start handlers.
LEMMA HandlerMoves ==
  ASSUME AppInv, DacStep, dac'.at \in {"handlers", "handlerCid"}
  PROVE  \/ OpStart /\ dac' = At("handlers", 1, "START") /\ Takes(Op("START"))
         \/ ExecHandler /\ dac'.on = dac.on
         \/ HandlerAnswers /\ dac' = At("handlers", dac.on + 1, dac.why)
<1>0. dac = At(dac.at, dac.on, dac.why)
  BY DEF AppInv, DacShape
<1>1. OpVerifyApp \/ VerifyNext \/ VerifyAnswered \/ Verified => dac'.at \in {"verify", "verifyCid", "serve"}
  BY DEF OpVerifyApp, VerifyNext, VerifyAnswered, Verified, Asks, NotReady, At, Serving
<1>2. OpStart => Takes(Op("START")) /\ (dac' = At("handlers", 1, "START") \/ dac'.at = "serve")
  BY DEF OpStart, At, Serving, Takes
<1>3. ExecHandler => dac' = At("handlerCid", dac.on, dac.why) \/ dac'.at = "serve"
  BY DEF ExecHandler, Asks, StartFailed, At, Serving
<1>4. HandlerAnswers => dac' = At("handlers", dac.on + 1, dac.why) \/ dac'.at = "killHandlers"
  BY DEF HandlerAnswers, At
<1>5. HandlersStarted \/ ProcessAnswers \/ ExecDone => dac'.at \in {"exec", "serve"}
  BY DEF HandlersStarted, ProcessAnswers, ExecDone, At, Serving
<1>6. ProcessForked => dac'.at \in {"exec", "execHello"}
  <2>1. ProcessForked => dac' = [dac EXCEPT !.at = "execHello"] \/ dac' = At("exec", Nil, dac.why)
    BY DEF ProcessForked
  <2>2. [dac EXCEPT !.at = "execHello"] = At("execHello", dac.on, dac.why)
    BY <1>0 DEF At
  <2>3. \A x, y : At("execHello", x, y).at = "execHello" /\ At("exec", x, y).at = "exec"
    BY DEF At
  <2> QED
    BY <2>1, <2>2, <2>3
<1>7. OpExitProcess => dac'.at \in {"exec", "killAll", "serve"}
  <2>1. OpExitProcess => dac = Serving /\ (dac' = dac \/ dac' = At("exec", Nil, "EXIT_PROCESS") \/ dac' = At("killAll", Nil, "TERM"))
    BY DEF OpExitProcess, Takes
  <2> QED
    BY <2>1 DEF At, Serving
<1>8. OpKillProcess \/ OpKillAll \/ Killed \/ Closing => dac'.at \in {"serve", "killCid", "killAll", "killHandlers", "over"}
  <2>1. OpKillProcess => dac = Serving /\ (dac' = dac \/ \E m : dac' = At("killCid", m, "KILL"))
    BY DEF OpKillProcess, Takes, Asks
  <2>2. OpKillAll \/ Killed \/ Closing => dac'.at \in {"serve", "killCid", "killAll", "killHandlers", "over"}
    BY Closes DEF OpKillAll, Killed, At, Serving
  <2> QED
    BY <2>1, <2>2 DEF At, Serving
<1>9. KillNext => dac'.at \in {"killAll", "killCid"}
  <2>1. KillNext => dac.at = "killAll" /\ (dac' = dac \/ \E m : dac' = At("killCid", m, dac.why))
    BY DEF KillNext, Asks
  <2> QED
    BY <2>1 DEF At
<1>10. OpFddChangeProc \/ OpGetCpulist => dac'.at \in {"serve", "killAll"}
  <2>1. OpFddChangeProc \/ OpGetCpulist => dac' = dac /\ dac = Serving
    BY DEF OpFddChangeProc, OpGetCpulist, Takes, dacVars
  <2> QED
    BY <2>1 DEF Serving, At
<1>11. ExecProcess => dac'.at \in {"exec", "execCid"}
  <2>1. ExecProcess => dac.at = "exec" /\ (dac' = dac \/ \E m : dac' = At("execCid", m, dac.why))
    BY DEF ExecProcess, Asks
  <2> QED
    BY <2>1 DEF At
<1>12. OpStart \/ ExecHandler \/ HandlerAnswers
  BY <1>1, <1>5, <1>6, <1>7, <1>8, <1>9, <1>10, <1>11 DEF DacStep, Dac, Closing
<1>13. ExecHandler => dac'.on = dac.on
  BY <1>3 DEF At
<1> QED
  BY <1>2, <1>4, <1>12, <1>13

\* The handlers that are STARTED are those in front, so that none is left when DAC has come
\* to one that is not.
LEMMA NoneStarted ==
  ASSUME AppInv, dac.at = "killHandlers", ~HandlerIsNext
  PROVE  \A n \in Handlers : hstate[n] # "STARTED"
<1> SUFFICES ASSUME NEW n \in Handlers, hstate[n] = "STARTED" PROVE FALSE
  OBVIOUS
<1>1. PICK i \in DOMAIN HandlerList : HandlerList[i] = n
  BY ControllerAssumption
<1>2. DOMAIN HandlerList = 1 .. Len(HandlerList) /\ Len(HandlerList) \in Nat /\ dac.on \in Nat \ {0}
  BY ControllerAssumption DEF AppInv, DacShape
<1>3. dac.on <= i
  BY <1>1 DEF AppInv, HandlersFit
<1>4. dac.on \in DOMAIN HandlerList
  BY <1>1, <1>2, <1>3
<1>5. hstate[HandlerList[dac.on]] = "STARTED"
  <2>1. CASE dac.on = i
    BY <1>1, <2>1
  <2>2. CASE dac.on < i
    BY <1>1, <1>2, <1>4, <2>2 DEF AppInv, HandlersFit
  <2> QED
    BY <1>2, <1>3, <2>1, <2>2
<1> QED
  BY <1>4, <1>5 DEF HandlerIsNext

\* A handler that has not answered yet is the one that DAC starts, and DAC will hear of it.
Fresh(p) ==
  /\ dac.at = "handlerCid" /\ Asked = child[p].name
  /\ \/ Pending("dac") /\ \E h \in Hosts : starting[h] # Nil /\ starting[h].pid = p
     \/ Answered /\ Succeeded /\ call["dac"].value = p
\* That stays so until DAC goes on.
LEMMA FreshStays ==
  ASSUME AppInv, AppStep, ~DacStep, NEW p \in Pids', child'[p].name \in Handlers, child'[p].at = "new"
  PROVE  Fresh(p)'
<1>0. dac' = dac /\ (Asked)' = Asked /\ DOMAIN starting = Hosts
  <2>1. dac' = dac
    BY Steps, CidFrame, NewsFrame, AsideFrame DEF appVars, dacVars
  <2> QED
    BY <2>1, TableTypes DEF Asked
<1>1. CASE p \in Pids
  <2>1. GoesOn(p)
    BY <1>1, ChildrenGoOn
  <2>2. child[p].at = "new" /\ child[p].name = child'[p].name
    BY <2>1 DEF GoesOn, Course
  <2>3. dac.at = "handlerCid" /\ Asked = child[p].name
    BY <1>1, <2>2 DEF AppInv, HandlersFit
  <2>4. \/ Pending("dac") /\ \E h \in Hosts : starting[h] # Nil /\ starting[h].pid = p
        \/ Answered /\ Succeeded /\ call["dac"].value = p
    BY <1>1, <2>2 DEF AppInv, HandlersFit
  <2>5. HostOf[Asked] \in Hosts /\ up'[HostOf[Asked]]
    <3>1. (ChildFits(p))'
      BY ChildrenKept DEF ChildrenFit
    <3>2. up'[HostOf[child'[p].name]]
      BY <3>1 DEF ChildFits
    <3> QED
      BY <2>2, <2>3, <3>2, AskedIsNamed DEF CidPlaces
  <2>6. CASE Answered /\ Succeeded /\ call["dac"].value = p
    <3>1. call'["dac"] = call["dac"]
      <4>1. ~Pending("dac")
        BY <2>6 DEF Answered
      <4> QED
        BY <4>1, DacCall, DacCallElse, Steps
    <3>2. (Answered)' /\ (Succeeded)'
      BY <2>6, <3>1 DEF Answered, Succeeded, Pending
    <3> QED
      BY <1>0, <2>2, <2>3, <2>6, <3>1, <3>2 DEF Fresh
  <2>7. CASE Pending("dac") /\ \E h \in Hosts : starting[h] # Nil /\ starting[h].pid = p
    <3>1. PICK h \in Hosts : starting[h] # Nil /\ starting[h].pid = p
      BY <2>7
    <3>2. h = HostOf[Asked] /\ \A g \in Hosts : starting[g] # Nil => g = h
      BY <3>1, Starting
    <3>3. CASE call'["dac"] = call["dac"]
      <4>1. (Pending("dac"))'
        BY <2>7, <3>3 DEF Pending
      <4>2. starting'[h] # Nil /\ starting'[h].pid = p
        <5>1. CASE CidStep
          <6>1. starting'[h] # Nil
            BY <2>5, <3>1, <3>2, <4>1, <5>1, StartingEnds
          <6>2. ~Fork(h)
            <7>1. p # 0
              BY <1>1 DEF Pids
            <7> QED
              BY <3>1, <7>1, Forks
          <6> QED
            BY <3>1, <5>1, <6>1, <6>2, StartFrame
        <5>2. CASE ~CidStep
          BY <3>1, <5>2, Steps, DacCallElse
        <5> QED
          BY <5>1, <5>2
      <4> QED
        BY <1>0, <2>2, <2>3, <4>1, <4>2 DEF Fresh
    <3>4. CASE call'["dac"] # call["dac"]
      <4>1. CidStep
        BY <3>4, DacCallElse, Steps
      <4>2. call'["dac"] = Answer(TRUE, p)
        <5>1. \/ \E q \in PidsOf(Asked) : /\ call'["dac"] = Answer(TRUE, q)
                                          /\ \E g \in Hosts : starting[g] # Nil /\ starting[g].pid = q
              \/ (\A g \in Hosts : starting[g] = Nil) \/ ~up'[HostOf[Asked]]
          BY <2>3, <3>4, <4>1, ExecAnswered
        <5> QED
          BY <2>5, <3>1, <3>2, <5>1
      <4>3. ~(Pending("dac"))'
        BY <2>3, <3>4, <4>1, ExecAnswered
      <4>4. call'["dac"] # Nil
        <5>1. Answer(TRUE, p) \in [op : {"ANSWER"}, ok : BOOLEAN, value : Nat]
          BY <1>1 DEF Answer, Pids
        <5> QED
          BY <4>2, <5>1, TableAssumption
      <4>5. (Answered)' /\ (Succeeded)' /\ call'["dac"].value = p
        BY <4>2, <4>3, <4>4 DEF Answered, Succeeded, Answer
      <4> QED
        BY <1>0, <2>2, <2>3, <4>5 DEF Fresh
    <3> QED
      BY <3>3, <3>4
  <2> QED
    BY <2>4, <2>6, <2>7
<1>2. CASE p \notin Pids
  <2>1. PICK h \in Hosts : Fork(h)
    BY <1>2, ChildrenGoOn
  <2>2. Pids' = Pids \cup {Len(child) + 1}
    BY <2>1, Forks
  <2>3. child'[Len(child) + 1] = [name |-> Asked, host |-> h, at |-> "new", status |-> Nil]
    BY <2>1, Forks
  <2>4. p = Len(child) + 1 /\ child'[p].name = Asked
    BY <1>2, <2>2, <2>3
  <2>5. dac.at = "handlerCid" /\ Pending("dac")
    <3>1. Asked \notin Procs
      BY <2>4, Listed
    <3> QED
      BY <2>1, <3>1, Forks
  <2>6. (Pending("dac"))'
    BY <2>1, <2>5 DEF Fork, Pending
  <2>7. starting' = [starting EXCEPT ![h].pid = p] /\ starting[h] # Nil
    BY <2>1, <2>4, Forks DEF Fork
  <2>8. starting[h] \in [by : {"dac"}, slot : Slots, pid : Nat]
    BY <2>7 DEF AppInv, StartingFits, StartFits
  <2>9. starting'[h] = [starting[h] EXCEPT !.pid = p]
    BY <1>0, <2>7
  <2>10. p \in Nat
    BY <2>4, ChildTypes DEF AppInv
  <2>11. starting'[h] \in [by : {"dac"}, slot : Slots, pid : Nat] /\ starting'[h].pid = p
    BY <2>8, <2>9, <2>10
  <2>12. starting'[h] # Nil
    BY <2>11, TableAssumption, ControllerAssumption
  <2> QED
    BY <1>0, <2>4, <2>5, <2>6, <2>11, <2>12 DEF Fresh
<1> QED
  BY <1>1, <1>2

\* What DAC knows of its handlers stays true while it does not step, ...
LEMMA HandlersStay ==
  ASSUME AppInv, AppStep, ~DacStep
  PROVE  HandlersFit'
<1>1. dac' = dac /\ hstate' = hstate /\ proc_id' = proc_id /\ (Asked)' = Asked
  <2>1. dac' = dac /\ hstate' = hstate /\ proc_id' = proc_id
    BY Steps, CidFrame, NewsFrame, AsideFrame DEF appVars, dacVars
  <2> QED
    BY <2>1 DEF Asked
<1>2. ASSUME NEW p \in Pids', child'[p].name \in Handlers, child'[p].at = "up"
      PROVE  hstate'[child'[p].name] = "STARTED" /\ proc_id'[child'[p].name] = p
  <2>1. p \in Pids
    <3> SUFFICES ASSUME p \notin Pids PROVE FALSE
      OBVIOUS
    <3>1. PICK h \in Hosts : Fork(h)
      BY ChildrenGoOn
    <3>2. Pids' = Pids \cup {Len(child) + 1}
      BY <3>1, Forks
    <3>3. child'[Len(child) + 1] = [name |-> Asked, host |-> h, at |-> "new", status |-> Nil]
      BY <3>1, Forks
    <3> QED
      BY <1>2, <3>2, <3>3
  <2>2. child[p].at = "up"
    <3>1. CASE CidStep
      BY <1>2, <2>1, <3>1, CidChildren
    <3>2. CASE ~CidStep
      BY <1>2, <3>2, Steps, DacCallElse
    <3> QED
      BY <3>1, <3>2
  <2>3. child'[p].name = child[p].name
    BY <2>1, ChildrenGoOn DEF GoesOn
  <2>4. hstate[child[p].name] = "STARTED" /\ proc_id[child[p].name] = p
    BY <1>2, <2>1, <2>2, <2>3 DEF AppInv, HandlersFit
  <2> QED
    BY <1>1, <2>3, <2>4
<1>3. ASSUME NEW p \in Pids', child'[p].name \in Handlers, child'[p].at = "new" PROVE Fresh(p)'
  BY <1>3, FreshStays
<1>4. ASSUME dac'.at = "handlerCid", (Answered)', (Succeeded)' PROVE call'["dac"].value \in (PidsOf(Asked))'
  <2>0. Asked \in Names /\ PidsOf(Asked) \subseteq (PidsOf(Asked))'
    <3>1. PICK n \in Names : n = Asked
      BY <1>1, <1>4, AskedIsNamed DEF CidPlaces
    <3>2. PidsOf(n) \subseteq (PidsOf(n))'
      BY PidsGoOn
    <3> QED
      BY <1>1, <3>1, <3>2
  <2>1. CASE call'["dac"] = call["dac"]
    <3>1. Answered /\ Succeeded
      BY <1>4, <2>1 DEF Answered, Succeeded, Pending
    <3>2. call["dac"].value \in PidsOf(Asked)
      BY <1>1, <1>4, <3>1 DEF AppInv, HandlersFit
    <3> QED
      BY <2>0, <2>1, <3>2
  <2>2. CASE call'["dac"] # call["dac"]
    <3>1. CidStep
      BY <2>2, DacCallElse, Steps
    <3>2. PICK p \in PidsOf(Asked) : call'["dac"] = Answer(TRUE, p)
      BY <1>1, <1>4, <2>2, <3>1, ExecAnswered
    <3> QED
      BY <2>0, <3>2 DEF Answer
  <2> QED
    BY <2>1, <2>2
<1>5. \A i, j \in DOMAIN HandlerList : j < i /\ hstate'[HandlerList[i]] = "STARTED" =>
        hstate'[HandlerList[j]] = "STARTED" \/ (dac'.at = "killHandlers" /\ j < dac'.on)
  BY <1>1 DEF AppInv, HandlersFit
<1>6. dac'.at \in {"handlers", "handlerCid"} =>
        \A j \in DOMAIN HandlerList : hstate'[HandlerList[j]] = "STARTED" <=> j < dac'.on
  BY <1>1 DEF AppInv, HandlersFit
<1>7. dac'.at = "killHandlers" =>
        \A j \in DOMAIN HandlerList : hstate'[HandlerList[j]] = "STARTED" => dac'.on <= j
  BY <1>1 DEF AppInv, HandlersFit
<1> QED
  BY <1>2, <1>3, <1>4, <1>5, <1>6, <1>7 DEF HandlersFit, Fresh

\* ... while DAC greets the handler that has answered, ...
LEMMA HandlerGreeted ==
  ASSUME AppInv, HandlerAnswers
  PROVE  \/ /\ child' = child /\ hstate' = hstate /\ proc_id' = proc_id /\ dac' = At("killHandlers", 1, dac.why)
            /\ \A p \in Pids : child[p].at = "new" /\ child[p].name \in Handlers => FALSE
         \/ \E n \in Handlers, p \in Pids :
              /\ n = HandlerList[dac.on] /\ dac.on \in DOMAIN HandlerList /\ child[p].name = n
              /\ Pids' = Pids /\ child'[p].at = "up" /\ \A q \in Pids : q # p => child'[q] = child[q]
              /\ hstate' = [hstate EXCEPT ![n] = "STARTED"] /\ proc_id' = [proc_id EXCEPT ![n] = p]
              /\ \A q \in Pids : child[q].at = "new" /\ child[q].name \in Handlers => q = p
              /\ dac' = At("handlers", dac.on + 1, dac.why)
<1>0. dac.at = "handlerCid" /\ Answered /\ ~Pending("dac")
  BY DacGuards DEF Answered
<1>1. dac.on \in DOMAIN HandlerList /\ Asked = HandlerList[dac.on] /\ Asked \in Handlers
  BY <1>0, Listed DEF AppInv, DacShape, Asked
<1>2. \A q \in Pids : child[q].at = "new" /\ child[q].name \in Handlers => Succeeded /\ call["dac"].value = q
  BY <1>0 DEF AppInv, HandlersFit
<1>3. CASE Succeeded /\ child[call["dac"].value].at = "new"
  <2>1. PICK p \in Pids : p = call["dac"].value /\ child[p].name = Asked
    BY <1>0, <1>3 DEF AppInv, HandlersFit, PidsOf
  <2>2. PICK n \in Handlers : n = Asked
    BY <1>1
  <2>3. /\ child' = [child EXCEPT ![p].at = "up"] /\ hstate' = [hstate EXCEPT ![n] = "STARTED"]
        /\ proc_id' = [proc_id EXCEPT ![n] = p] /\ dac' = At("handlers", dac.on + 1, dac.why)
    BY <1>1, <1>3, <2>1, <2>2 DEF HandlerAnswers
  <2>4. child \in Seq(Child) /\ DOMAIN child = Pids /\ child[p] \in Child
    BY <2>1, ChildTypes DEF AppInv
  <2>5. child' = [q \in Pids |-> IF q = p THEN [child[p] EXCEPT !.at = "up"] ELSE child[q]]
    BY <2>3, <2>4
  <2>6. child'[p].at = "up" /\ \A q \in Pids : q # p => child'[q] = child[q]
    BY <2>4, <2>5 DEF Child
  <2>7. Pids' = Pids
    BY <2>3, <2>4 DEF Pids
  <2>8. \A q \in Pids : child[q].at = "new" /\ child[q].name \in Handlers => q = p
    BY <1>2, <2>1
  <2>9. n = HandlerList[dac.on] /\ dac.on \in DOMAIN HandlerList /\ child[p].name = n
    BY <1>1, <2>1, <2>2
  <2> QED
    BY <2>3, <2>6, <2>7, <2>8, <2>9
<1>4. CASE ~(Succeeded /\ child[call["dac"].value].at = "new")
  <2>1. child' = child /\ hstate' = hstate /\ proc_id' = proc_id /\ dac' = At("killHandlers", 1, dac.why)
    BY <1>4 DEF HandlerAnswers
  <2> QED
    BY <1>2, <1>4, <2>1
<1> QED
  BY <1>3, <1>4

\* DAC comes to kill the handlers after its processes, or when one does not answer.
LEMMA OthersSpare ==
  ASSUME AppInv, DacStep, ~Closing, ~HandlerAnswers
  PROVE  dac.at # "killHandlers" /\ dac'.at # "killHandlers"
<1>0. dac = At(dac.at, dac.on, dac.why)
  BY DEF AppInv, DacShape
<1>1. dac.at # "killHandlers"
  BY DacGuards DEF DacStep, Dac, Closing
<1>2. dac' = dac \/ \E a \in Places \ {"killHandlers"} : \E n, w : dac' = At(a, n, w)
  <2>1. OpVerifyApp \/ VerifyNext \/ VerifyAnswered \/ Verified =>
          \E a \in {"verify", "verifyCid", "serve"} : \E n, w : dac' = At(a, n, w)
    BY DEF OpVerifyApp, VerifyNext, VerifyAnswered, Verified, Asks, NotReady, Serving
  <2>2. OpStart \/ ExecHandler \/ HandlersStarted \/ ProcessAnswers \/ ExecDone =>
          dac' = dac \/ \E a \in {"handlers", "handlerCid", "exec", "serve"} : \E n, w : dac' = At(a, n, w)
    BY DEF OpStart, ExecHandler, HandlersStarted, ProcessAnswers, ExecDone, Asks, StartFailed, Serving
  <2>3. ExecProcess => dac' = dac \/ \E n, w : dac' = At("execCid", n, w)
    BY DEF ExecProcess, Asks
  <2>4. ProcessForked => \E a \in {"exec", "execHello"} : \E n, w : dac' = At(a, n, w)
    <3>1. [dac EXCEPT !.at = "execHello"] = At("execHello", dac.on, dac.why)
      BY <1>0 DEF At
    <3> QED
      BY <3>1 DEF ProcessForked
  <2>5. OpExitProcess => dac' = dac \/ \E a \in {"exec", "killAll"} : \E n, w : dac' = At(a, n, w)
    BY DEF OpExitProcess
  <2>6. OpKillProcess \/ OpKillAll \/ KillNext \/ Killed =>
          dac' = dac \/ \E a \in {"killCid", "killAll", "serve"} : \E n, w : dac' = At(a, n, w)
    BY DEF OpKillProcess, OpKillAll, KillNext, Killed, Asks, Serving
  <2>7. OpFddChangeProc \/ OpGetCpulist => dac' = dac
    BY DEF OpFddChangeProc, OpGetCpulist, dacVars
  <2> QED
    BY <2>1, <2>2, <2>3, <2>4, <2>5, <2>6, <2>7 DEF DacStep, Dac, Closing, Places, CidPlaces, ExecPlaces
<1> QED
  BY <1>1, <1>2 DEF At

\* ... and in its other steps.
LEMMA HandlersMove ==
  ASSUME AppInv, AppStep, DacStep
  PROVE  HandlersFit'
<1>1. Pids' = Pids /\ \A p \in Pids : GoesOn(p)
  BY DacChildren
<1>2. ~(dac'.at = "handlerCid" /\ (Answered)')
  <2> SUFFICES ASSUME dac'.at = "handlerCid" PROVE ~(Answered)'
    OBVIOUS
  <2>1. DacCallFits'
    BY DacMoves
  <2>2. call'["dac"] = (Question(dac.at, Asked))'
    BY <2>1 DEF DacCallFits, CidPlaces
  <2>3. call'["dac"] = Exec((HostOf[Asked])', (Asked)')
    BY <2>2 DEF Question
  <2>4. call'["dac"].op = "EXEC"
    BY <2>3 DEF Exec
  <2> QED
    BY <2>4 DEF Pending, Answered
<1>3. hstate \in [Handlers -> {"READY", "STARTED", "KILLED"}] /\ proc_id \in [Names -> Nat]
  BY DEF AppInv, AppTypeOK, DacTypeOK
<1>4. \A i, j \in DOMAIN HandlerList : j < i /\ hstate[HandlerList[i]] = "STARTED" =>
        hstate[HandlerList[j]] = "STARTED" \/ (dac.at = "killHandlers" /\ j < dac.on)
  BY DEF AppInv, HandlersFit
<1>0. DOMAIN HandlerList = 1 .. Len(HandlerList) /\ Len(HandlerList) \in Nat
  BY ControllerAssumption
<1>5. CASE Closing
  <2>1. dac.at # "handlerCid" /\ dac'.at \notin {"handlers", "handlerCid"}
    BY <1>5, Closes
  <2>2. ASSUME NEW p \in Pids, child'[p].name \in Handlers, child'[p].at = "new" PROVE FALSE
    <3>1. child[p].name \in Handlers /\ child[p].at = "new"
      BY <1>1, <2>2 DEF GoesOn, Course
    <3> QED
      BY <2>1, <3>1 DEF AppInv, HandlersFit
  <2>3. CASE ~KillHandler
    <3>1. UNCHANGED <<child, hstate, proc_id>>
      BY <1>5, <2>3 DEF Closing, ProcessesKilled, HandlersKilled, End, cidVars
    <3>2. \A p \in Pids : child'[p].name \in Handlers /\ child'[p].at = "up" =>
            hstate'[child'[p].name] = "STARTED" /\ proc_id'[child'[p].name] = p
      BY <3>1 DEF AppInv, HandlersFit
    <3>3. CASE ProcessesKilled
      <4>1. dac.at = "killAll" /\ dac' = At("killHandlers", 1, dac.why)
        BY <3>3 DEF ProcessesKilled
      <4>2. dac'.at = "killHandlers" /\ dac'.on = 1
        BY <4>1 DEF At
      <4>3. \A i, j \in DOMAIN HandlerList : j < i /\ hstate'[HandlerList[i]] = "STARTED" =>
              hstate'[HandlerList[j]] = "STARTED"
        BY <1>4, <3>1, <4>1
      <4> QED
        BY <1>0, <1>1, <1>2, <2>1, <2>2, <3>2, <4>2, <4>3 DEF HandlersFit
    <3>4. CASE HandlersKilled \/ End
      <4>1. dac.at = "killHandlers" /\ ~HandlerIsNext
        BY <3>4 DEF HandlersKilled, End
      <4>2. \A n \in Handlers : hstate'[n] # "STARTED"
        BY <3>1, <4>1, NoneStarted
      <4>3. \A i \in DOMAIN HandlerList : hstate'[HandlerList[i]] # "STARTED"
        BY <4>2, Listed
      <4> QED
        BY <1>1, <1>2, <2>1, <2>2, <3>2, <4>3 DEF HandlersFit
    <3> QED
      BY <1>5, <2>3, <3>3, <3>4 DEF Closing
  <2>4. CASE KillHandler
    <3>1. PICK k \in DOMAIN HandlerList : k = dac.on /\ hstate[HandlerList[k]] = "STARTED"
      BY <2>4 DEF KillHandler, HandlerIsNext
    <3>2. PICK n \in Handlers : n = HandlerList[k]
      BY Listed
    <3>3. hstate' = [hstate EXCEPT ![n] = "KILLED"] /\ UNCHANGED proc_id /\ dac.at = "killHandlers"
      BY <2>4, <3>1, <3>2 DEF KillHandler
    <3>4. dac'.at = "killHandlers" /\ dac'.on = k + 1
      <4>1. dac = At(dac.at, dac.on, dac.why) /\ dac' = [dac EXCEPT !.on = @ + 1]
        BY <2>4 DEF AppInv, DacShape, KillHandler
      <4> QED
        BY <3>1, <3>3, <4>1 DEF At
    <3>5. hstate'[n] = "KILLED" /\ \A m \in Handlers : m # n => hstate'[m] = hstate[m]
      BY <1>3, <3>3
    <3>6. \A i \in DOMAIN HandlerList : i # k => HandlerList[i] # n /\ HandlerList[i] \in Handlers
      BY <3>2, ControllerAssumption, Listed
    <3>7. \A i \in DOMAIN HandlerList : hstate'[HandlerList[i]] = "STARTED" => hstate[HandlerList[i]] = "STARTED" /\ i # k
      BY <3>2, <3>5, <3>6
    <3>8. \A i \in DOMAIN HandlerList : hstate[HandlerList[i]] = "STARTED" => k <= i
      BY <3>1, <3>3 DEF AppInv, HandlersFit
    <3>9. \A i \in DOMAIN HandlerList : hstate'[HandlerList[i]] = "STARTED" => k + 1 <= i
      BY <1>0, <3>7, <3>8
    <3>10. ASSUME NEW i \in DOMAIN HandlerList, NEW j \in DOMAIN HandlerList, j < i,
                  hstate'[HandlerList[i]] = "STARTED"
           PROVE  hstate'[HandlerList[j]] = "STARTED" \/ j < k + 1
      <4>1. hstate[HandlerList[j]] = "STARTED" \/ j < k
        BY <1>4, <3>1, <3>7, <3>10
      <4> QED
        BY <1>0, <3>5, <3>6, <4>1
    <3>11. ASSUME NEW p \in Pids, child'[p].name \in Handlers, child'[p].at = "up"
           PROVE  hstate'[child'[p].name] = "STARTED" /\ proc_id'[child'[p].name] = p
      <4>1. /\ child[p].at = "up" /\ child'[p] = child[p]
            /\ child[p].name = n => proc_id[child[p].name] # p
        BY <2>4, <3>1, <3>2, <3>11, ExitsGoOn DEF AppInv
      <4>2. hstate[child[p].name] = "STARTED" /\ proc_id[child[p].name] = p
        BY <3>11, <4>1 DEF AppInv, HandlersFit
      <4> QED
        BY <3>3, <3>5, <3>11, <4>1, <4>2
    <3> QED
      BY <1>1, <1>2, <2>1, <2>2, <3>4, <3>9, <3>10, <3>11 DEF HandlersFit
  <2> QED
    BY <2>3, <2>4
<1>8. CASE HandlerAnswers /\ hstate' = hstate
  <2>1. /\ child' = child /\ hstate' = hstate /\ proc_id' = proc_id /\ dac' = At("killHandlers", 1, dac.why)
        /\ \A p \in Pids : child[p].at = "new" /\ child[p].name \in Handlers => FALSE
    <3> SUFFICES ASSUME NEW n \in Handlers, n = HandlerList[dac.on], dac.on \in DOMAIN HandlerList,
                        hstate' = [hstate EXCEPT ![n] = "STARTED"]
                 PROVE  FALSE
      BY <1>8, HandlerGreeted
    <3>1. hstate[n] = "STARTED"
      BY <1>3, <1>8
    <3>2. dac.at = "handlerCid"
      BY <1>8, DacGuards
    <3>3. dac.on < dac.on
      BY <3>1, <3>2 DEF AppInv, HandlersFit
    <3> QED
      BY <1>0, <3>3
  <2>2. dac'.at = "killHandlers" /\ dac'.on = 1
    BY <2>1 DEF At
  <2>3. dac.at = "handlerCid"
    BY <1>8, DacGuards
  <2>4. \A i, j \in DOMAIN HandlerList : j < i /\ hstate'[HandlerList[i]] = "STARTED" =>
          hstate'[HandlerList[j]] = "STARTED"
    BY <1>4, <2>1, <2>3
  <2>5. \A p \in Pids : child'[p].name \in Handlers /\ child'[p].at = "up" =>
          hstate'[child'[p].name] = "STARTED" /\ proc_id'[child'[p].name] = p
    BY <2>1 DEF AppInv, HandlersFit
  <2>6. \A p \in Pids : ~(child'[p].at = "new" /\ child'[p].name \in Handlers)
    BY <2>1
  <2> QED
    BY <1>0, <1>1, <1>2, <2>2, <2>4, <2>5, <2>6 DEF HandlersFit
<1>6. CASE HandlerAnswers /\ hstate' # hstate
  <2>1. PICK n \in Handlers, p \in Pids :
              /\ n = HandlerList[dac.on] /\ dac.on \in DOMAIN HandlerList /\ child[p].name = n
              /\ Pids' = Pids /\ child'[p].at = "up" /\ \A q \in Pids : q # p => child'[q] = child[q]
              /\ hstate' = [hstate EXCEPT ![n] = "STARTED"] /\ proc_id' = [proc_id EXCEPT ![n] = p]
              /\ \A q \in Pids : child[q].at = "new" /\ child[q].name \in Handlers => q = p
              /\ dac' = At("handlers", dac.on + 1, dac.why)
    BY <1>6, HandlerGreeted
  <2>2. \A j \in DOMAIN HandlerList : hstate[HandlerList[j]] = "STARTED" <=> j < dac.on
    BY <1>6, DacGuards DEF AppInv, HandlersFit
  <2>3. DOMAIN HandlerList \subseteq Nat /\ n \in Names /\ child'[p].name = n
    BY <1>1, <2>1, ControllerAssumption DEF Names, GoesOn
  <2>4. hstate'[n] = "STARTED" /\ proc_id'[n] = p
    BY <1>3, <2>1, <2>3
  <2>5. ASSUME NEW q \in Pids, child'[q].name \in Handlers, child'[q].at = "up"
        PROVE  hstate'[child'[q].name] = "STARTED" /\ proc_id'[child'[q].name] = q
    <3>1. CASE q = p
      BY <2>3, <2>4, <3>1
    <3>2. CASE q # p
      <4>1. child'[q] = child[q]
        BY <2>1, <3>2
      <4>2. hstate[child[q].name] = "STARTED" /\ proc_id[child[q].name] = q
        BY <2>5, <4>1 DEF AppInv, HandlersFit
      <4>3. child[q].name # n
        BY <2>1, <2>2, <2>3, <4>2
      <4> QED
        BY <1>3, <2>1, <2>3, <2>5, <4>1, <4>2, <4>3 DEF Names
    <3> QED
      BY <3>1, <3>2
  <2>6. ASSUME NEW q \in Pids, child'[q].name \in Handlers, child'[q].at = "new" PROVE FALSE
    <3>1. child[q].name \in Handlers /\ child[q].at = "new"
      BY <1>1, <2>6 DEF GoesOn, Course
    <3> QED
      BY <2>1, <2>6, <3>1
  <2>7. ASSUME NEW j \in DOMAIN HandlerList PROVE hstate'[HandlerList[j]] = "STARTED" <=> j < dac.on + 1
    <3>1. CASE j = dac.on
      BY <2>1, <2>3, <2>4, <3>1
    <3>2. CASE j # dac.on
      <4>1. HandlerList[j] # n /\ HandlerList[j] \in Handlers
        BY <2>1, <3>2, ControllerAssumption, Listed
      <4>2. hstate'[HandlerList[j]] = hstate[HandlerList[j]]
        BY <1>3, <2>1, <4>1
      <4> QED
        BY <2>1, <2>2, <2>3, <3>2, <4>2
    <3> QED
      BY <3>1, <3>2
  <2>8. dac'.at = "handlers" /\ dac'.on = dac.on + 1
    BY <2>1 DEF At
  <2>9. \A i, j \in DOMAIN HandlerList : j < i /\ hstate'[HandlerList[i]] = "STARTED" => hstate'[HandlerList[j]] = "STARTED"
    BY <2>1, <2>3, <2>7
  <2> QED
    BY <1>1, <1>2, <2>5, <2>6, <2>7, <2>8, <2>9 DEF HandlersFit
<1>7. CASE ~HandlerAnswers /\ ~Closing
  <2>1. hstate' = hstate
    BY <1>7, DacFrames DEF Closing
  <2>2. ASSUME NEW p \in Pids, child'[p].name \in Handlers PROVE child'[p] = child[p]
    <3>1. CASE ProcessAnswers
      <4>1. child[p].name \in Handlers
        BY <1>1, <2>2 DEF GoesOn
      <4>2. dac.on \in Procs /\ proc_id[dac.on] \in PidsOf(dac.on) \cup {0}
        BY <3>1, DacGuards DEF AppInv, DacShape, ProcessLife, ProcessFits
      <4>3. p # proc_id[dac.on]
        BY <4>1, <4>2, Listed DEF PidsOf, Pids
      <4>4. child' = child \/ \E a : child' = [child EXCEPT ![proc_id[dac.on]] = a]
        BY <3>1 DEF ProcessAnswers
      <4>5. DOMAIN child = Pids
        BY ChildTypes DEF AppInv
      <4> QED
        BY <4>3, <4>4, <4>5
    <3> QED
      BY <1>7, <3>1, DacFrames DEF Closing
  <2>3. ASSUME NEW n \in Handlers PROVE proc_id'[n] = proc_id[n]
    <3>1. CASE ProcessForked
      <4>1. dac.on \in Procs
        BY <3>1, DacGuards DEF AppInv, DacShape
      <4>2. proc_id' = proc_id \/ \E a : proc_id' = [proc_id EXCEPT ![dac.on] = a]
        BY <3>1 DEF ProcessForked
      <4>3. n # dac.on /\ n \in Names
        BY <4>1, Listed DEF Names
      <4> QED
        BY <1>3, <4>2, <4>3
    <3> QED
      BY <1>7, <3>1, ProcIdFrame
  <2>4. ASSUME NEW p \in Pids, child'[p].name \in Handlers, child'[p].at = "up"
        PROVE  hstate'[child'[p].name] = "STARTED" /\ proc_id'[child'[p].name] = p
    <3>1. child'[p] = child[p]
      BY <2>2, <2>4
    <3>2. hstate[child[p].name] = "STARTED" /\ proc_id[child[p].name] = p
      BY <2>4, <3>1 DEF AppInv, HandlersFit
    <3> QED
      BY <2>1, <2>3, <2>4, <3>1, <3>2
  <2>5. ASSUME NEW p \in Pids, child'[p].name \in Handlers, child'[p].at = "new" PROVE FALSE
    <3>1. child'[p] = child[p]
      BY <2>2, <2>5
    <3>2. dac.at = "handlerCid" /\ (Pending("dac") \/ Answered)
      BY <2>5, <3>1 DEF AppInv, HandlersFit
    <3>3. HandlerAnswers
      BY <3>2, DacGuards, DacAlone DEF DacStep, Dac, Closing
    <3> QED
      BY <1>7, <3>3
  <2>8. dac.at # "killHandlers" /\ dac'.at # "killHandlers"
    BY <1>7, OthersSpare
  <2>6. \A i, j \in DOMAIN HandlerList : j < i /\ hstate'[HandlerList[i]] = "STARTED" => hstate'[HandlerList[j]] = "STARTED"
    BY <1>4, <2>1, <2>8
  <2>7. ASSUME dac'.at \in {"handlers", "handlerCid"}, NEW j \in DOMAIN HandlerList
        PROVE  hstate'[HandlerList[j]] = "STARTED" <=> j < dac'.on
    <3>1. CASE dac'.on = dac.on /\ ExecHandler
      <4>1. dac.at = "handlers"
        BY <3>1, DacGuards
      <4> QED
        BY <2>1, <3>1, <4>1 DEF AppInv, HandlersFit
    <3>2. CASE OpStart /\ dac' = At("handlers", 1, "START") /\ Takes(Op("START"))
      <4>1. inbox[1].op = "START" /\ 1 \in DOMAIN inbox
        BY <3>2, HeadTrue DEF Op
      <4>2. NotStarted
        BY <4>1 DEF AppInv, PrunFits, Sent
      <4>3. HandlerList[j] \in Handlers
        BY Listed
      <4>4. hstate'[HandlerList[j]] = "READY"
        BY <2>1, <4>2, <4>3 DEF NotStarted
      <4>5. dac'.on = 1 /\ j \in Nat \ {0}
        BY <3>2, ControllerAssumption DEF At
      <4> QED
        BY <4>4, <4>5
    <3> QED
      BY <1>7, <2>7, <3>1, <3>2, HandlerMoves
  <2> QED
    BY <1>1, <1>2, <2>4, <2>5, <2>6, <2>7, <2>8 DEF HandlersFit
<1> QED
  BY <1>5, <1>6, <1>7, <1>8

\* The handlers.
LEMMA HandlersKept ==
  ASSUME AppInv, AppStep
  PROVE  HandlersFit'
BY HandlersStay, HandlersMove

\* The processes are dealt with before the handlers.
LEMMA EndingKept ==
  ASSUME AppInv, AppStep
  PROVE  EndingFits'
<1> SUFFICES ASSUME dac'.at = "killHandlers", dac'.why # "START", NEW n \in Procs
             PROVE  state'[n] \in {"EXITTED", "KILLED"}
  BY DEF EndingFits
<1>1. CASE ~DacStep
  <2>1. dac' = dac /\ state' = state
    BY <1>1, Steps, CidFrame, NewsFrame, AsideFrame DEF appVars, dacVars
  <2> QED
    BY <2>1 DEF AppInv, EndingFits
<1>2. CASE HandlerAnswers
  <2>1. dac.at = "handlerCid"
    BY <1>2, DacGuards
  <2>2. dac'.why = dac.why
    BY <1>2 DEF HandlerAnswers, At
  <2> QED
    BY <2>1, <2>2 DEF AppInv, DacShape
<1>3. CASE ProcessesKilled
  BY <1>3 DEF ProcessesKilled
<1>4. CASE KillHandler
  <2>1. state' = state /\ dac.at = "killHandlers" /\ dac'.why = dac.why
    BY <1>4, Closes DEF KillHandler, Closing, At
  <2> QED
    BY <2>1 DEF AppInv, EndingFits
<1>5. HandlersKilled \/ End => dac'.at # "killHandlers"
  BY DEF HandlersKilled, StartFailed, End, Serving, At
<1> QED
  BY <1>1, <1>2, <1>3, <1>4, <1>5, OthersSpare DEF Closing

-----------------------------------------------------------------------------
(* The messages.                                                            *)

\* What a message says stays true.
LEMMA NewsStays ==
  ASSUME AppInv, AppStep, NEW r \in Messages, NewsIsTrue(r)
  PROVE  (NewsIsTrue(r))'
<1>1. ASSUME r.op = "EXIT_PROCESS" PROVE (OverProc(r.name))'
  <2>1. PICK n \in Procs : n = r.name
    BY <1>1 DEF Messages
  <2>2. OverProc(n) /\ n \in Names
    BY <1>1, <2>1 DEF NewsIsTrue, Names
  <2>3. (OverProc(n))'
    BY <2>2, PidsGoOn
  <2> QED
    BY <2>1, <2>3
<1>2. ASSUME r.op = "FDDCHANGE_PROC" PROVE (LostProc(r.host, r.pid))'
  <2>1. PICK h \in Hosts : h = r.host
    BY <1>2 DEF Messages
  <2>2. PICK q : q = r.pid
    OBVIOUS
  <2>3. LostProc(h, q)
    BY <1>2, <2>1, <2>2 DEF NewsIsTrue
  <2>4. (LostProc(h, q))'
    BY <2>3, LostStays
  <2> QED
    BY <2>1, <2>2, <2>4
<1> QED
  BY <1>1, <1>2 DEF NewsIsTrue

\* A list with one more message, and with one less.
LEMMA OneMore ==
  ASSUME inbox \in Seq(Messages), NEW r \in Messages, inbox' = Append(inbox, r)
  PROVE  /\ inbox' \in Seq(Messages) /\ Len(inbox) \in Nat
         /\ DOMAIN inbox' = DOMAIN inbox \cup {Len(inbox) + 1} /\ inbox'[Len(inbox) + 1] = r
         /\ \A i \in DOMAIN inbox : inbox'[i] = inbox[i]
OBVIOUS

\* A program that is reported is that of a process, and has ended.
LEMMA DeathTold ==
  ASSUME AppInv, AppStep, NEW h \in Hosts, NEW p \in Pids, sigchldHandler(h, p), inbox' # inbox
  PROVE  \E n \in Procs : /\ inbox' = Append(inbox, Report(n, child[p].status)) /\ listening
                          /\ p \in PidsOf(n) /\ child[p].status \in Statuses /\ (OverProc(n))'
<1>1. child[p].host = h /\ child[p].at = "zombie" /\ Pids' = Pids /\ child'[p].at = "gone" /\ up[h]
  BY Dies
<1>2. PICK i \in Slots : /\ table[h][i].used /\ table[h][i].pid = p
                         /\ inbox' = IF table[h][i].port /\ listening
                                       THEN Append(inbox, Report(table[h][i].name, child[p].status)) ELSE inbox
  BY Dies
<1>3. table[h][i].port /\ listening /\ inbox' = Append(inbox, Report(table[h][i].name, child[p].status))
  BY <1>2
<1>4. EntryFits(h, i)
  BY <1>1 DEF AppInv, TableFits
<1>5. PICK n \in Procs : n = table[h][i].name
  BY <1>2, <1>3, <1>4 DEF EntryFits
<1>6. ~BeingFilled(h, i)
  <2> SUFFICES ASSUME BeingFilled(h, i) PROVE FALSE
    OBVIOUS
  <2>1. starting[h] # Nil /\ starting[h].slot = i
    BY DEF BeingFilled
  <2>2. table[h][i].name = Asked /\ (Asked \in Procs => table[h][i].pid = 0)
    BY <2>1, Starting
  <2> QED
    BY <1>2, <1>5, <2>2 DEF Pids
<1>7. p \in PidsOf(n)
  BY <1>2, <1>4, <1>5, <1>6 DEF EntryFits
<1>8. child[p].status \in Statuses
  BY <1>1 DEF AppInv, ChildrenFit, ChildFits
<1>9. (OverProc(n))'
  <2>1. \A q \in (PidsOf(n))' : q = p
    <3>1. \A g \in Hosts : ~Fork(g)
      BY <1>3, <1>2, TableTypes DEF Fork, sigchldHandler
    <3> QED
      BY <1>7, OneProgram, PidsGoOn DEF Names
  <2>2. PidsOf(n) \subseteq (PidsOf(n))'
    BY PidsGoOn DEF Names
  <2> QED
    BY <1>1, <1>7, <2>1, <2>2 DEF OverProc, Ended
<1> QED
  BY <1>3, <1>5, <1>7, <1>8, <1>9

\* What happens to DAC's messages: one is added, which is true, the first is taken, or DAC
\* has closed its port.
Origin(r) ==
  /\ r.op = "VERIFY_APP" => SendVerify
  /\ r.op = "START" => SendStart
  /\ r.op = "GET_CPULIST" => start_fdd
\* Messages to DAC are true when they are sent.
LEMMA InboxMoves ==
  ASSUME AppInv, AppStep
  PROVE  \/ inbox' = inbox
         \/ \E r \in Messages : inbox' = Append(inbox, r) /\ listening /\ (NewsIsTrue(r))' /\ Origin(r)
         \/ DacStep /\ \E r : Takes(r)
         \/ End /\ inbox' = <<>>
<1>1. CASE CidStep
  <2>1. ASSUME NEW h \in Hosts, NEW p \in Pids, sigchldHandler(h, p), inbox' # inbox
        PROVE  \E r \in Messages : inbox' = Append(inbox, r) /\ listening /\ (NewsIsTrue(r))' /\ Origin(r)
    <3>1. PICK n \in Procs : /\ inbox' = Append(inbox, Report(n, child[p].status)) /\ listening
                             /\ child[p].status \in Statuses /\ (OverProc(n))'
      BY <2>1, DeathTold
    <3>2. PICK r : r = Report(n, child[p].status)
      OBVIOUS
    <3>3. r \in Messages /\ r.op = "EXIT_PROCESS" /\ r.name = n
      BY <3>1, <3>2 DEF Report, Messages
    <3>4. (NewsIsTrue(r))'
      BY <3>1, <3>3 DEF NewsIsTrue
    <3>5. Origin(r)
      BY <3>3 DEF Origin
    <3> QED
      BY <3>1, <3>2, <3>3, <3>4, <3>5
  <2>2. ASSUME NEW h \in Hosts, NEW c \in Callers, CidServes(h, c) PROVE inbox' = inbox
    <3>1. OpVerify(h, c) \/ OpExecRefused(h, c) \/ FillSlot(h, c) => inbox' = inbox
      BY DEF OpVerify, OpExecRefused, FillSlot
    <3>2. OpKill(h, c) \/ OpKillApp(h, c) \/ OpDetectProc(h, c) => inbox' = inbox
      BY DEF OpKill, OpKillApp, OpDetectProc
    <3> QED
      BY <2>2, <3>1, <3>2 DEF CidServes
  <2>3. (\E h \in Hosts : Fork(h) \/ EnterPid(h) \/ HostCrash(h)) \/ (\E c \in Callers : CallFails(c))
          \/ (\E p \in Pids, s \in Outcomes \cup {"KILLED"} : Ends(p, s)) => inbox' = inbox
    BY DEF Fork, EnterPid, HostCrash, CallFails, Ends
  <2> QED
    BY <1>1, <2>1, <2>2, <2>3 DEF CidStep, CidStarts, Death, HostLost, Fail, Program
<1>2. CASE NewsStep
  <2>1. ASSUME SendVerify \/ SendStart \/ SendExit \/ exit_app \/ start_fdd, inbox' # inbox
        PROVE  \E r \in Messages : inbox' = Append(inbox, r) /\ listening /\ (NewsIsTrue(r))' /\ Origin(r)
    <3>1. PICK o \in {"VERIFY_APP", "START", "EXIT", "KILL_ALL", "GET_CPULIST"} :
            /\ inbox' = Append(inbox, Op(o)) /\ listening
            /\ o = "VERIFY_APP" => SendVerify
            /\ o = "START" => SendStart
            /\ o = "GET_CPULIST" => start_fdd
      BY <2>1 DEF SendVerify, SendStart, SendExit, exit_app, start_fdd, Request
    <3>2. PICK r : r = Op(o)
      OBVIOUS
    <3>3. r \in Messages /\ r.op = o
      BY <3>1, <3>2 DEF Op, Messages
    <3>4. (NewsIsTrue(r))'
      BY <3>1, <3>3 DEF NewsIsTrue
    <3>5. Origin(r)
      BY <3>1, <3>3 DEF Origin
    <3> QED
      BY <3>1, <3>2, <3>3, <3>4, <3>5
  <2>2. ASSUME NEW n \in Procs, kill_process(n)
        PROVE  \E r \in Messages : inbox' = Append(inbox, r) /\ listening /\ (NewsIsTrue(r))' /\ Origin(r)
    <3>1. inbox' = Append(inbox, OpOn("KILL", n)) /\ listening /\ Event("KILL", n) \in Outside
      BY <2>2 DEF kill_process, Happens, Request
    <3>2. PICK r : r = OpOn("KILL", n)
      OBVIOUS
    <3>3. r \in Messages /\ r.op = "KILL" /\ r.name = n
      BY <3>2 DEF OpOn, Messages
    <3>4. (NewsIsTrue(r))'
      BY <3>1, <3>3 DEF NewsIsTrue
    <3>5. Origin(r)
      BY <3>3 DEF Origin
    <3> QED
      BY <3>1, <3>2, <3>3, <3>4, <3>5
  <2>3. ASSUME TellDac, inbox' # inbox
        PROVE  \E r \in Messages : inbox' = Append(inbox, r) /\ listening /\ (NewsIsTrue(r))' /\ Origin(r)
    <3>1. /\ inbox' = Append(inbox, [op |-> "FDDCHANGE_PROC", host |-> Watch.host, pid |-> Watch.pid])
          /\ listening /\ fdd.at = "tell"
      BY <2>3 DEF TellDac
    <3>2. LostProc(Watch.host, Watch.pid) /\ Watch \in FddEntry
      BY <3>1, WatchFits DEF AppInv, FddFits, Watching
    <3>3. PICK h \in Hosts : h = Watch.host
      BY <3>2 DEF FddEntry
    <3>4. PICK q \in Nat : q = Watch.pid
      BY <3>2 DEF FddEntry
    <3>5. PICK r : r = [op |-> "FDDCHANGE_PROC", host |-> h, pid |-> q]
      OBVIOUS
    <3>6. r \in Messages /\ r.op = "FDDCHANGE_PROC" /\ r.host = h /\ r.pid = q
      BY <3>5 DEF Messages
    <3>7. (LostProc(h, q))'
      BY <3>2, <3>3, <3>4, LostStays
    <3>8. (NewsIsTrue(r))' /\ Origin(r)
      BY <3>6, <3>7 DEF NewsIsTrue, Origin
    <3> QED
      BY <3>1, <3>3, <3>4, <3>5, <3>6, <3>8
  <2> QED
    BY <1>2, <2>1, <2>2, <2>3 DEF NewsStep
<1>3. CASE AsideStep \/ UNCHANGED appVars
  BY <1>3, AsideFrame DEF appVars, cidVars
<1>4. CASE DacStep
  <2>1. OpVerifyApp \/ OpStart \/ OpExitProcess \/ OpKillProcess \/ OpKillAll \/ OpFddChangeProc \/ OpGetCpulist
          => \E r : Takes(r)
    BY DEF OpVerifyApp, OpStart, OpExitProcess, OpKillProcess, OpKillAll, OpFddChangeProc, OpGetCpulist
  <2>2. VerifyNext \/ VerifyAnswered \/ Verified \/ ExecHandler \/ HandlerAnswers \/ HandlersStarted
          \/ ExecProcess \/ ProcessForked \/ ProcessAnswers \/ ExecDone => inbox' = inbox
    BY DEF VerifyNext, VerifyAnswered, Verified, ExecHandler, HandlerAnswers, HandlersStarted,
           ExecProcess, ProcessForked, ProcessAnswers, ExecDone, cidVars
  <2>3. KillNext \/ Killed => inbox' = inbox
    BY DEF KillNext, Killed, cidVars
  <2>4. End => inbox' = <<>>
    BY DEF End
  <2>5. ProcessesKilled \/ KillHandler \/ HandlersKilled => inbox' = inbox
    BY DEF ProcessesKilled, KillHandler, HandlersKilled, cidVars
  <2> QED
    BY <1>4, <2>1, <2>2, <2>3, <2>4, <2>5 DEF DacStep, Dac, Closing
<1> QED
  BY <1>1, <1>2, <1>3, <1>4, Steps

\* What is on its way to DAC is true.
LEMMA NewsKept ==
  ASSUME AppInv, AppStep
  PROVE  NewsAreTrue'
<1>0. inbox \in Seq(Messages) /\ \A i \in DOMAIN inbox : inbox[i] \in Messages /\ NewsIsTrue(inbox[i])
  BY DEF AppInv, NewsAreTrue
<1>1. ASSUME NEW i \in DOMAIN inbox PROVE \E r \in Messages : r = inbox[i] /\ (NewsIsTrue(r))'
  BY <1>0, NewsStays
<1>2. CASE inbox' = inbox
  <2>1. ASSUME NEW i \in DOMAIN inbox' PROVE (NewsIsTrue(inbox[i]))'
    <3>1. PICK r \in Messages : r = inbox[i] /\ (NewsIsTrue(r))'
      BY <1>1, <1>2, <2>1
    <3> QED
      BY <1>2, <3>1
  <2> QED
    BY <1>0, <1>2, <2>1 DEF NewsAreTrue
<1>3. CASE \E r \in Messages : inbox' = Append(inbox, r) /\ (NewsIsTrue(r))'
  <2>1. PICK r \in Messages : inbox' = Append(inbox, r) /\ (NewsIsTrue(r))'
    BY <1>3
  <2>2. /\ inbox' \in Seq(Messages) /\ DOMAIN inbox' = DOMAIN inbox \cup {Len(inbox) + 1} /\ inbox'[Len(inbox) + 1] = r
        /\ \A i \in DOMAIN inbox : inbox'[i] = inbox[i]
    BY <1>0, <2>1, OneMore
  <2>3. ASSUME NEW i \in DOMAIN inbox' PROVE (NewsIsTrue(inbox[i]))'
    <3>1. CASE i \in DOMAIN inbox
      <4>1. PICK m \in Messages : m = inbox[i] /\ (NewsIsTrue(m))'
        BY <1>1, <3>1
      <4> QED
        BY <2>2, <3>1, <4>1
    <3>2. CASE i = Len(inbox) + 1
      BY <2>1, <2>2, <3>2
    <3> QED
      BY <2>2, <2>3, <3>1, <3>2
  <2> QED
    BY <2>2, <2>3 DEF NewsAreTrue
<1>4. CASE \E r : Takes(r)
  <2>1. PICK r : Takes(r)
    BY <1>4
  <2>2. inbox' \in Seq(Messages) /\ \A i \in DOMAIN inbox' : i + 1 \in DOMAIN inbox /\ inbox'[i] = inbox[i + 1]
    BY <2>1, HeadTrue
  <2>3. ASSUME NEW i \in DOMAIN inbox' PROVE (NewsIsTrue(inbox[i]))'
    <3>1. PICK m \in Messages : m = inbox[i + 1] /\ (NewsIsTrue(m))'
      BY <1>1, <2>2, <2>3
    <3> QED
      BY <2>2, <2>3, <3>1
  <2> QED
    BY <2>2, <2>3 DEF NewsAreTrue
<1>5. CASE inbox' = <<>>
  BY <1>5 DEF NewsAreTrue
<1> QED
  BY <1>2, <1>3, <1>4, <1>5, InboxMoves

-----------------------------------------------------------------------------
(* prun.                                                                    *)

\* Only End closes DAC's port.
LEMMA ListeningFrame ==
  ASSUME AppStep
  PROVE  listening' = listening \/ (End /\ ~listening' /\ inbox' = <<>>)
<1>1. CASE CidStep \/ NewsStep \/ AsideStep \/ UNCHANGED appVars
  BY <1>1, CidFrame, NewsFrame, AsideFrame DEF appVars, cidVars
<1>2. CASE DacStep
  <2>1. OpVerifyApp \/ OpStart \/ OpExitProcess \/ OpKillProcess \/ OpKillAll \/ OpFddChangeProc \/ OpGetCpulist
          => listening' = listening
    BY DEF OpVerifyApp, OpStart, OpExitProcess, OpKillProcess, OpKillAll, OpFddChangeProc, OpGetCpulist
  <2>2. VerifyNext \/ VerifyAnswered \/ Verified \/ ExecHandler \/ HandlerAnswers \/ HandlersStarted
          \/ ExecProcess \/ ProcessForked \/ ProcessAnswers \/ ExecDone => listening' = listening
    BY DEF VerifyNext, VerifyAnswered, Verified, ExecHandler, HandlerAnswers, HandlersStarted,
           ExecProcess, ProcessForked, ProcessAnswers, ExecDone, cidVars
  <2>3. KillNext \/ Killed => listening' = listening
    BY DEF KillNext, Killed, cidVars
  <2>4. End => ~listening' /\ inbox' = <<>>
    BY DEF End
  <2>5. ProcessesKilled \/ KillHandler \/ HandlersKilled => listening' = listening
    BY DEF ProcessesKilled, KillHandler, HandlersKilled, cidVars
  <2> QED
    BY <1>2, <2>1, <2>2, <2>3, <2>4, <2>5 DEF DacStep, Dac, Closing
<1> QED
  BY <1>1, <1>2, Steps

\* How prun goes on.
LEMMA PrunMoves ==
  ASSUME AppInv, AppStep, prun' # prun
  PROVE  \/ SendVerify /\ prun = "begins" /\ prun' = "verifies" /\ dac' = dac
         \/ SendStart /\ prun = "verified" /\ prun' = "asked" /\ dac' = dac
         \/ SendExit /\ prun = "refused" /\ prun' = "exits" /\ dac' = dac
         \/ dac.at \in {"verify", "verifyCid"} /\ prun' \in {"left", "verified"} /\ dac' = Serving
         \/ OpStart /\ Takes(Op("START")) /\ prun' = "refused"
         \/ dac.at \in {"handlers", "handlerCid", "exec"} /\ prun' \in {"refused", "started"}
         \/ HandlersKilled /\ prun' = "refused"
         \/ End /\ prun' = "told" /\ ~listening' /\ inbox' = <<>>
<1>1. CASE CidStep \/ AsideStep \/ UNCHANGED appVars
  BY <1>1, CidFrame, AsideFrame DEF appVars, dacVars
<1>2. CASE NewsStep
  <2>1. SendVerify => prun = "begins" /\ prun' = "verifies" /\ dac' = dac
    BY DEF SendVerify
  <2>2. SendStart => prun = "verified" /\ prun' = "asked" /\ dac' = dac
    BY DEF SendStart
  <2>3. SendExit => prun = "refused" /\ prun' = "exits" /\ dac' = dac
    BY DEF SendExit
  <2>4. exit_app \/ (\E n \in Procs : kill_process(n)) \/ start_fdd \/ TellDac => prun' = prun
    BY DEF exit_app, kill_process, start_fdd, TellDac, dacVars
  <2> QED
    BY <1>2, <2>1, <2>2, <2>3, <2>4 DEF NewsStep
<1>3. CASE DacStep
  <2>1. VerifyNext \/ VerifyAnswered \/ Verified =>
          dac.at \in {"verify", "verifyCid"} /\ (prun' = prun \/ (prun' \in {"left", "verified"} /\ dac' = Serving))
    BY DEF VerifyNext, VerifyAnswered, Verified, NotReady
  <2>2. OpStart => Takes(Op("START")) /\ (prun' = prun \/ prun' = "refused")
    BY DEF OpStart
  <2>3. ExecHandler \/ HandlerAnswers => dac.at \in {"handlers", "handlerCid"} /\ (prun' = prun \/ prun' = "refused")
    BY DEF ExecHandler, HandlerAnswers, StartFailed
  <2>4. ExecDone => dac.at = "exec" /\ (prun' = prun \/ prun' = "started")
    BY DEF ExecDone
  <2>5. End => (prun' = prun \/ prun' = "told") /\ ~listening' /\ inbox' = <<>>
    BY DEF End
  <2>6. OpVerifyApp \/ HandlersStarted \/ ExecProcess \/ ProcessForked \/ ProcessAnswers => prun' = prun
    BY DEF OpVerifyApp, HandlersStarted, ExecProcess, ProcessForked, ProcessAnswers
  <2>7. OpExitProcess \/ OpKillProcess \/ OpKillAll \/ KillNext \/ Killed \/ OpFddChangeProc
          \/ OpGetCpulist => prun' = prun
    BY DEF OpExitProcess, OpKillProcess, OpKillAll, KillNext, Killed, OpFddChangeProc, OpGetCpulist, dacVars
  <2>8. HandlersKilled => prun' = "refused"
    BY DEF HandlersKilled, StartFailed
  <2>9. ProcessesKilled \/ KillHandler => prun' = prun
    BY DEF ProcessesKilled, KillHandler
  <2> QED
    BY <1>3, <2>1, <2>2, <2>3, <2>4, <2>5, <2>6, <2>7, <2>8, <2>9 DEF DacStep, Dac
<1> QED
  BY <1>1, <1>2, <1>3, Steps

\* How DAC comes to verify the application.
LEMMA VerifyMoves ==
  ASSUME AppInv, AppStep, dac'.at \in {"verify", "verifyCid"}, dac' # dac
  PROVE  /\ DacStep /\ prun' = prun
         /\ Takes(Op("VERIFY_APP")) \/ dac.at \in {"verify", "verifyCid"}
<1>1. DacStep
  BY Steps, CidFrame, NewsFrame, AsideFrame DEF appVars, dacVars
<1>2. OpVerifyApp => Takes(Op("VERIFY_APP")) /\ prun' = prun
  BY DEF OpVerifyApp
<1>3. VerifyNext \/ VerifyAnswered \/ Verified =>
        dac.at \in {"verify", "verifyCid"} /\ (prun' = prun \/ dac' = Serving)
  BY DEF VerifyNext, VerifyAnswered, Verified, NotReady
<1>4. OpStart \/ ExecHandler \/ HandlerAnswers => dac'.at \in {"handlers", "handlerCid", "killHandlers", "serve"}
  <2>1. OpStart => dac'.at \in {"handlers", "serve"}
    BY DEF OpStart, At, Serving, Takes
  <2>2. ExecHandler \/ HandlerAnswers => dac'.at \in {"handlers", "handlerCid", "killHandlers", "serve"}
    BY DEF ExecHandler, HandlerAnswers, Asks, StartFailed, At, Serving
  <2> QED
    BY <2>1, <2>2
<1>5. HandlersStarted \/ ProcessAnswers \/ ExecDone \/ OpKillAll \/ Killed \/ Closing =>
        dac'.at \in {"exec", "serve", "killAll", "killHandlers", "over"}
  BY Closes DEF HandlersStarted, ProcessAnswers, ExecDone, OpKillAll, Killed, At, Serving
<1>6. ExecProcess \/ ProcessForked => dac'.at \in ExecPlaces
  <2>1. ExecProcess \/ ProcessForked => dac.at \in ExecPlaces /\ ~ExecDone
    <3>1. ExecProcess \/ ProcessForked => dac.at \in {"exec", "execCid"} /\ (dac.at = "exec" => Ready # {})
      BY DEF ExecProcess, ProcessForked
    <3> QED
      BY <3>1 DEF ExecDone, ExecPlaces
  <2> QED
    BY <2>1, ExecLeft
<1>7. OpExitProcess => dac'.at \in {"exec", "killAll", "serve"}
  <2>1. OpExitProcess => dac = Serving /\ (dac' = dac \/ dac' = At("exec", Nil, "EXIT_PROCESS") \/ dac' = At("killAll", Nil, "TERM"))
    BY DEF OpExitProcess, Takes
  <2> QED
    BY <2>1 DEF At, Serving
<1>8. OpKillProcess => dac'.at \in {"serve", "killCid"}
  <2>1. OpKillProcess => dac = Serving /\ (dac' = dac \/ \E m : dac' = At("killCid", m, "KILL"))
    BY DEF OpKillProcess, Takes, Asks
  <2> QED
    BY <2>1 DEF At, Serving
<1>9. KillNext => dac'.at \in {"killAll", "killCid"}
  <2>1. KillNext => dac.at = "killAll" /\ (dac' = dac \/ \E m : dac' = At("killCid", m, dac.why))
    BY DEF KillNext, Asks
  <2> QED
    BY <2>1 DEF At
<1>10. OpFddChangeProc \/ OpGetCpulist => dac'.at \in {"serve", "killAll"}
  <2>1. OpFddChangeProc \/ OpGetCpulist => dac' = dac /\ dac = Serving
    BY DEF OpFddChangeProc, OpGetCpulist, Takes, dacVars
  <2> QED
    BY <2>1 DEF Serving, At
<1>11. OpVerifyApp \/ VerifyNext \/ VerifyAnswered \/ Verified
  BY <1>1, <1>4, <1>5, <1>6, <1>7, <1>8, <1>9, <1>10 DEF DacStep, Dac, Closing, ExecPlaces
<1> QED
  BY <1>1, <1>2, <1>3, <1>11 DEF Serving, At

\* A message that has been sent is on its way until DAC takes it.
LEMMA SentMoves ==
  ASSUME AppInv, AppStep, NEW o, (Sent(o))'
  PROVE  \/ Sent(o) /\ (o \in {"VERIFY_APP", "START", "GET_CPULIST"} => ~\E r : Takes(r) /\ r.op = o)
         \/ listening /\ \E r \in Messages : inbox' = Append(inbox, r) /\ r.op = o /\ Origin(r)
<1>0. inbox \in Seq(Messages)
  BY DEF AppInv, NewsAreTrue
<1>1. PICK i \in DOMAIN inbox' : inbox'[i].op = o
  BY DEF Sent
<1>2. ASSUME NEW r, Takes(r)
      PROVE  Sent(o) /\ (o \in {"VERIFY_APP", "START", "GET_CPULIST"} => r.op # o)
  <2>1. /\ 1 \in DOMAIN inbox /\ inbox[1] = r /\ i + 1 \in DOMAIN inbox /\ i + 1 # 1 /\ inbox'[i] = inbox[i + 1]
    BY <1>1, <1>2, HeadTrue
  <2>2. inbox[i + 1].op = o
    BY <1>1, <2>1
  <2>3. o \in {"VERIFY_APP", "START", "GET_CPULIST"} /\ inbox[1].op = o => FALSE
    BY <2>1, <2>2 DEF AppInv, PrunFits
  <2> QED
    BY <2>1, <2>2, <2>3 DEF Sent
<1>3. CASE \E r : Takes(r)
  <2>1. PICK r : Takes(r)
    BY <1>3
  <2>2. \A x : Takes(x) => x = r
    BY <2>1 DEF Takes
  <2> QED
    BY <1>2, <2>1, <2>2
<1>4. CASE inbox' = inbox /\ ~\E r : Takes(r)
  BY <1>1, <1>4 DEF Sent
<1>5. CASE \E r \in Messages : inbox' = Append(inbox, r) /\ listening /\ Origin(r)
  <2>1. PICK r \in Messages : inbox' = Append(inbox, r) /\ listening /\ Origin(r)
    BY <1>5
  <2>2. /\ inbox' \in Seq(Messages) /\ Len(inbox) \in Nat
        /\ DOMAIN inbox' = DOMAIN inbox \cup {Len(inbox) + 1} /\ inbox'[Len(inbox) + 1] = r
        /\ \A j \in DOMAIN inbox : inbox'[j] = inbox[j]
    BY <1>0, <2>1, OneMore
  <2>3. CASE i \in DOMAIN inbox
    <3>1. ~\E x : Takes(x)
      <4>1. ASSUME NEW x, Takes(x) PROVE FALSE
        <5>1. Len(inbox') = Len(inbox) - 1 /\ Len(inbox) \in Nat
          BY <4>1, HeadTrue
        <5>2. Len(inbox') = Len(inbox) + 1
          BY <1>0, <2>1
        <5> QED
          BY <5>1, <5>2
      <4> QED
        BY <4>1
    <3> QED
      BY <1>1, <2>2, <2>3, <3>1 DEF Sent
  <2>4. CASE i = Len(inbox) + 1
    BY <1>1, <2>1, <2>2, <2>4
  <2> QED
    BY <1>1, <2>2, <2>3, <2>4
<1>6. CASE inbox' = <<>>
  BY <1>1, <1>6
<1> QED
  BY <1>3, <1>4, <1>5, <1>6, InboxMoves

\* prun's own messages are sent once.
Unique(s) == \A i, j \in DOMAIN s : s[i].op = s[j].op /\ s[i].op \in {"VERIFY_APP", "START", "GET_CPULIST"} => i = j
\* prun sends none of its messages twice.
LEMMA SentOnce ==
  ASSUME AppInv, AppStep
  PROVE  Unique(inbox')
<1>0. inbox \in Seq(Messages) /\ Unique(inbox)
  BY DEF AppInv, NewsAreTrue, PrunFits, Unique
<1>1. CASE inbox' = inbox
  BY <1>0, <1>1
<1>2. CASE \E r \in Messages : inbox' = Append(inbox, r) /\ Origin(r)
  <2>1. PICK r \in Messages : inbox' = Append(inbox, r) /\ Origin(r)
    BY <1>2
  <2>2. /\ inbox' \in Seq(Messages) /\ Len(inbox) \in Nat
        /\ DOMAIN inbox' = DOMAIN inbox \cup {Len(inbox) + 1} /\ inbox'[Len(inbox) + 1] = r
        /\ \A i \in DOMAIN inbox : inbox'[i] = inbox[i]
    BY <1>0, <2>1, OneMore
  <2>3. ASSUME r.op \in {"VERIFY_APP", "START", "GET_CPULIST"} PROVE ~Sent(r.op)
    <3>1. CASE r.op = "VERIFY_APP"
      <4>1. prun = "begins"
        BY <2>1, <3>1 DEF Origin, SendVerify
      <4> QED
        BY <3>1, <4>1 DEF AppInv, PrunFits
    <3>2. CASE r.op = "START"
      <4>1. prun = "verified"
        BY <2>1, <3>2 DEF Origin, SendStart
      <4> QED
        BY <3>2, <4>1 DEF AppInv, PrunFits
    <3>3. CASE r.op = "GET_CPULIST"
      <4>1. fdd.at = "off"
        BY <2>1, <3>3 DEF Origin, start_fdd
      <4> QED
        BY <3>3, <4>1 DEF AppInv, PrunFits
    <3> QED
      BY <2>3, <3>1, <3>2, <3>3
  <2>4. ASSUME NEW i \in DOMAIN inbox, r.op \in {"VERIFY_APP", "START", "GET_CPULIST"} PROVE inbox[i].op # r.op
    BY <2>3, <2>4 DEF Sent
  <2> QED
    BY <1>0, <2>2, <2>4 DEF Unique
<1>3. CASE \E r : Takes(r)
  <2>1. PICK r : Takes(r)
    BY <1>3
  <2>2. inbox' \in Seq(Messages) /\ \A i \in DOMAIN inbox' : i + 1 \in DOMAIN inbox /\ inbox'[i] = inbox[i + 1]
    BY <2>1, HeadTrue
  <2> SUFFICES ASSUME NEW i \in DOMAIN inbox', NEW j \in DOMAIN inbox', inbox'[i].op = inbox'[j].op,
                      inbox'[i].op \in {"VERIFY_APP", "START", "GET_CPULIST"}
               PROVE  i = j
    BY DEF Unique
  <2>3. i + 1 = j + 1
    BY <1>0, <2>2 DEF Unique
  <2>4. i \in Nat /\ j \in Nat
    BY <2>2
  <2> QED
    BY <2>3, <2>4
<1>4. CASE inbox' = <<>>
  BY <1>4 DEF Unique
<1> QED
  BY <1>1, <1>2, <1>3, <1>4, InboxMoves

\* Until START is served, no handler has been started.
LEMMA NoneBeforeStart ==
  ASSUME AppInv, AppStep, prun' \in {"begins", "verifies", "verified"} \/ (Sent("START"))'
  PROVE  /\ NotStarted' /\ ~start_flag' /\ ~StartUnderWay'
         /\ prun' \in {"begins", "verifies", "verified"} => prun \in {"begins", "verifies", "verified"}
<1>1. prun' \in {"begins", "verifies", "verified"} => prun \in {"begins", "verifies", "verified"}
  <2>1. CASE prun' = prun
    BY <2>1
  <2>2. CASE prun' # prun /\ dac.at \in {"verify", "verifyCid"}
    BY <2>2 DEF AppInv, PrunFits
  <2>3. CASE prun' # prun /\ dac.at \notin {"verify", "verifyCid"}
    BY <2>3, PrunMoves
  <2> QED
    BY <2>1, <2>2, <2>3
<1>2. prun \in {"begins", "verifies", "verified"} \/ Sent("START")
  <2>1. CASE (Sent("START"))'
    <3>1. Sent("START") \/ SendStart
      <4>1. Sent("START") \/ \E r \in Messages : r.op = "START" /\ Origin(r)
        BY <2>1, SentMoves
      <4> QED
        BY <4>1 DEF Origin
    <3> QED
      BY <3>1 DEF SendStart
  <2> QED
    BY <1>1, <2>1
<1>3. /\ NotStarted /\ ~start_flag /\ dac.at \notin {"handlers", "handlerCid"}
      /\ ~(dac.at = "killHandlers" /\ dac.why = "START")
  BY <1>2 DEF AppInv, PrunFits, StartUnderWay
<1>4. hstate' = hstate
  <2>1. CASE ~DacStep
    BY <2>1, Steps, CidFrame, NewsFrame, AsideFrame DEF appVars, dacVars
  <2>2. ~KillHandler
    <3>1. KillHandler => \E n \in Handlers : hstate[n] = "STARTED"
      BY Listed DEF KillHandler, HandlerIsNext
    <3> QED
      BY <1>3, <3>1 DEF NotStarted
  <2>3. ~HandlerAnswers
    BY <1>3, DacGuards
  <2> QED
    BY <2>1, <2>2, <2>3, DacFrames
<1>5. ~start_flag'
  <2>1. ~HandlersStarted
    BY <1>3, DacGuards
  <2> QED
    BY <1>3, <2>1, StartedStays
<1>6. dac'.at \notin {"handlers", "handlerCid"}
  <2> SUFFICES ASSUME dac'.at \in {"handlers", "handlerCid"} PROVE FALSE
    OBVIOUS
  <2>1. DacStep
    BY <1>3, Steps, CidFrame, NewsFrame, AsideFrame DEF appVars, dacVars
  <2>2. Takes(Op("START")) /\ OpStart
    BY <1>3, <2>1, HandlerMoves, DacGuards
  <2>3. Sent("START") /\ ~(Sent("START"))'
    <3>1. Sent("START")
      BY <2>2, HeadTrue DEF Sent, Op
    <3>2. Op("START").op = "START"
      BY DEF Op
    <3>3. ~\E r \in Messages : inbox' = Append(inbox, r)
      <4>1. inbox \in Seq(Messages) /\ inbox # <<>> /\ inbox' = Tail(inbox)
        BY <2>2 DEF Takes, AppInv, NewsAreTrue
      <4>2. Len(inbox') = Len(inbox) - 1 /\ Len(inbox) \in Nat
        BY <4>1
      <4>3. ASSUME NEW r \in Messages, inbox' = Append(inbox, r) PROVE FALSE
        <5>1. Len(inbox') = Len(inbox) + 1
          BY <4>1, <4>3
        <5> QED
          BY <4>2, <5>1
      <4> QED
        BY <4>3
    <3> QED
      BY <2>2, <3>1, <3>2, <3>3, SentMoves
  <2>4. prun \notin {"begins", "verifies", "verified"}
    BY <2>3 DEF AppInv, PrunFits
  <2> QED
    BY <1>1, <2>3, <2>4
<1>7. NotStarted'
  BY <1>3, <1>4 DEF NotStarted
<1>8. ~(dac'.at = "killHandlers" /\ dac'.why = "START")
  <2> SUFFICES ASSUME dac'.at = "killHandlers", dac'.why = "START" PROVE FALSE
    OBVIOUS
  <2>1. DacStep
    BY <1>3, Steps, CidFrame, NewsFrame, AsideFrame DEF appVars, dacVars
  <2>2. Closing
    BY <1>3, <2>1, OthersSpare, DacGuards
  <2>3. dac.at \in {"killAll", "killHandlers"} /\ dac.why = "START"
    BY <2>2, Closes DEF At
  <2> QED
    BY <1>3, <2>3 DEF AppInv, DacShape
<1> QED
  BY <1>1, <1>5, <1>6, <1>7, <1>8 DEF StartUnderWay

\* What prun and FDD have been told, and what they have sent.
LEMMA PrunKept ==
  ASSUME AppInv, AppStep
  PROVE  PrunFits'
<1>1. \A i, j \in DOMAIN inbox' : inbox'[i].op = inbox'[j].op /\ inbox'[i].op \in {"VERIFY_APP", "START", "GET_CPULIST"} => i = j
  BY SentOnce DEF Unique
<1>2. ASSUME dac'.at \in {"verify", "verifyCid"} PROVE prun' = "verifies"
  <2>1. prun = "verifies"
    <3>1. CASE dac.at \in {"verify", "verifyCid"}
      BY <3>1 DEF AppInv, PrunFits
    <3>2. CASE Takes(Op("VERIFY_APP"))
      <4>1. Sent("VERIFY_APP")
        BY <3>2, HeadTrue DEF Sent, Op
      <4> QED
        BY <4>1 DEF AppInv, PrunFits
    <3> QED
      BY <1>2, <3>1, <3>2, VerifyMoves
  <2>2. CASE dac' # dac
    BY <1>2, <2>1, <2>2, VerifyMoves
  <2>3. CASE dac' = dac
    <3>1. prun' # prun => FALSE
      <4>1. dac' # Serving /\ ~End /\ ~HandlersKilled /\ ~OpStart
        <5>1. dac' # Serving
          BY <1>2 DEF Serving, At
        <5>2. ~End /\ ~HandlersKilled /\ ~OpStart
          BY <1>2, <2>3, DacGuards
        <5> QED
          BY <5>1, <5>2
      <4> QED
        BY <1>2, <2>1, <2>3, <4>1, PrunMoves
    <3> QED
      BY <2>1, <3>1
  <2> QED
    BY <2>2, <2>3
<1>3. ASSUME (Sent("VERIFY_APP"))' PROVE prun' = "verifies" /\ dac'.at \notin {"verify", "verifyCid"}
  <2>1. CASE SendVerify
    <3>1. prun = "begins" /\ prun' = "verifies" /\ dac' = dac
      BY <2>1 DEF SendVerify
    <3> QED
      BY <3>1 DEF AppInv, PrunFits
  <2>2. CASE Sent("VERIFY_APP") /\ ~\E r : Takes(r) /\ r.op = "VERIFY_APP"
    <3>1. prun = "verifies" /\ dac.at \notin {"verify", "verifyCid"}
      BY <2>2 DEF AppInv, PrunFits
    <3>2. dac'.at \notin {"verify", "verifyCid"}
      <4>1. Op("VERIFY_APP").op = "VERIFY_APP"
        BY DEF Op
      <4> QED
        BY <2>2, <3>1, <4>1, VerifyMoves
    <3>3. ~start_flag /\ dac.at \notin {"handlers", "handlerCid"} /\ ~Sent("START") /\ ~HandlersKilled
      BY <3>1 DEF AppInv, PrunFits, StartUnderWay, HandlersKilled
    <3>4. dac.at # "exec"
      BY <3>3 DEF AppInv, ExecFits, ExecPlaces
    <3>5. ~Takes(Op("START"))
      <4>1. Takes(Op("START")) => Sent("START")
        BY HeadTrue DEF Sent, Op
      <4> QED
        BY <3>3, <4>1
    <3>6. inbox' # <<>>
      BY <1>3 DEF Sent
    <3>7. prun' = prun
      BY <3>1, <3>3, <3>4, <3>5, <3>6, PrunMoves
    <3> QED
      BY <3>1, <3>2, <3>7
  <2>3. SendVerify \/ (Sent("VERIFY_APP") /\ ~\E r : Takes(r) /\ r.op = "VERIFY_APP")
    <3>1. \/ Sent("VERIFY_APP") /\ ~\E r : Takes(r) /\ r.op = "VERIFY_APP"
          \/ \E r \in Messages : r.op = "VERIFY_APP" /\ Origin(r)
      BY <1>3, SentMoves
    <3> QED
      BY <3>1 DEF Origin
  <2> QED
    BY <2>1, <2>2, <2>3
<1>4. prun' \in {"begins", "verifies", "verified"} \/ (Sent("START"))' =>
        NotStarted' /\ ~start_flag' /\ ~StartUnderWay'
  BY NoneBeforeStart
<1>5. ASSUME prun' \in {"begins", "verifies", "verified"}, (Sent("START"))' PROVE FALSE
  <2>1. ~Sent("START")
    BY <1>5, NoneBeforeStart DEF AppInv, PrunFits
  <2>2. SendStart
    <3>1. \E r \in Messages : r.op = "START" /\ Origin(r)
      BY <1>5, <2>1, SentMoves
    <3> QED
      BY <3>1 DEF Origin
  <2> QED
    BY <1>5, <2>2 DEF SendStart
<1>6. ASSUME (Sent("GET_CPULIST"))' PROVE fdd'.at = "init"
  <2>1. CASE start_fdd
    BY <1>6, <2>1, SentMoves DEF start_fdd, FddAt, AppInv, PrunFits
  <2>2. CASE Sent("GET_CPULIST") /\ ~\E r : Takes(r) /\ r.op = "GET_CPULIST"
    <3>1. fdd.at = "init" /\ inbox # <<>> /\ listening /\ prun # "told"
      BY <2>2 DEF AppInv, PrunFits, Sent
    <3>2. ~InitFails /\ ~StopFdd /\ ~start_fdd /\ ~Ping /\ ~Pinged /\ ~TellDac /\ ~Tfddretrievetuple
      BY <3>1 DEF InitFails, StopFdd, start_fdd, Ping, Pinged, TellDac, Tfddretrievetuple
    <3>3. ~OpGetCpulist
      BY <2>2 DEF OpGetCpulist, Op
    <3> QED
      BY <3>1, <3>2, <3>3, FddFrame DEF fddVars
  <2>3. start_fdd \/ (Sent("GET_CPULIST") /\ ~\E r : Takes(r) /\ r.op = "GET_CPULIST")
    <3>1. \/ Sent("GET_CPULIST") /\ ~\E r : Takes(r) /\ r.op = "GET_CPULIST"
          \/ \E r \in Messages : r.op = "GET_CPULIST" /\ Origin(r)
      BY <1>6, SentMoves
    <3> QED
      BY <3>1 DEF Origin
  <2> QED
    BY <2>1, <2>2, <2>3
<1>7. ASSUME ~listening' PROVE inbox' = <<>>
  <2>1. CASE listening
    BY <1>7, <2>1, ListeningFrame
  <2>2. CASE ~listening
    <3>1. inbox = <<>>
      BY <2>2 DEF AppInv, PrunFits
    <3>2. ~\E r : Takes(r)
      BY <2>2 DEF Takes
    <3> QED
      BY <2>2, <3>1, <3>2, InboxMoves
  <2> QED
    BY <2>1, <2>2
<1>8. ASSUME prun' = "told" PROVE ~listening'
  <2>1. CASE prun = "told"
    BY <2>1, ListeningFrame DEF AppInv, PrunFits
  <2>2. CASE prun # "told"
    BY <1>8, <2>2, PrunMoves
  <2> QED
    BY <2>1, <2>2
<1> QED
  BY <1>1, <1>2, <1>3, <1>4, <1>5, <1>6, <1>7, <1>8 DEF PrunFits

-----------------------------------------------------------------------------
(* Ends.                                                                    *)

\* When DAC has ended, no program is left that runs on.
LEMMA OrphansKept ==
  ASSUME AppInv, AppStep
  PROVE  NoOrphans'
<1> SUFFICES ASSUME dac'.at = "over", NEW p \in Pids' PROVE child'[p].at \notin {"new", "up"}
  BY DEF NoOrphans
<1>0. child'[p].name \in Names
  <2>1. child' \in Seq(Child) /\ p \in 1 .. Len(child')
    BY ChildrenGoOn DEF Pids
  <2>2. child'[p] \in Child
    BY <2>1
  <2> QED
    BY <2>2 DEF Child
<1>1. CASE dac.at = "over"
  <2>1. ~DacStep
    BY <1>1, DacGuards, DacAlone DEF DacStep, Dac, Closing, CallsFit, AppInv, CidPlaces, Answered
  <2>2. \A h \in Hosts : ~Fork(h)
    BY <1>1, Starting DEF Fork
  <2>3. p \in Pids /\ GoesOn(p)
    BY <2>2, ChildrenGoOn
  <2>4. child[p].at \notin {"new", "up"}
    BY <1>1, <2>3 DEF AppInv, NoOrphans, DacShape, CutShort
  <2> QED
    BY <2>3, <2>4 DEF GoesOn, Course
<1>2. CASE dac.at # "over"
  <2>1. End
    <3>1. listening /\ ~listening'
      BY <1>2, DacShapeKept DEF AppInv, DacShape
    <3> QED
      BY <3>1, ListeningFrame
  <2>2. CASE child'[p].name \in Procs
    <3>1. PICK n \in Procs : n = child'[p].name
      BY <2>2
    <3>2. state'[n] # "RUNNING"
      <4>1. state' = state /\ dac.at = "killHandlers" /\ dac.why # "START"
        BY <2>1 DEF End
      <4> QED
        BY <4>1 DEF AppInv, EndingFits
    <3>3. ~(LiveProc(n))'
      BY <3>2, LifeKept DEF ProcessLife, ProcessFits
    <3> QED
      BY <3>1, <3>3 DEF LiveProc, Live, PidsOf
  <2>3. CASE child'[p].name \in Handlers
    <3>1. hstate'[child'[p].name] # "STARTED" /\ dac'.at # "handlerCid"
      BY <2>1, <2>3, NoneStarted DEF End
    <3> QED
      BY <2>3, <3>1, HandlersKept DEF HandlersFit
  <2> QED
    BY <1>0, <2>2, <2>3 DEF Names
<1> QED
  BY <1>1, <1>2

\* A program leaves the host's table of processes when its CID has handled its end.
LEMMA GoneHow ==
  ASSUME AppInv, AppStep, NEW p \in Pids, child'[p].at = "gone", child[p].at # "gone", up'[child[p].host]
  PROVE  CidStep /\ \E h \in Hosts : sigchldHandler(h, p)
<1>0. child \in Seq(Child) /\ DOMAIN child = Pids /\ child[p] \in Child
  BY ChildTypes DEF AppInv
<1>1. ASSUME NEW S, child' = Signalled(S) PROVE FALSE
  BY <1>0, <1>1 DEF Signalled, Child
<1>2. ASSUME KillHandler PROVE FALSE
  BY <1>0, <1>2 DEF KillHandler, Child
<1>3. ASSUME DacStep PROVE FALSE
  <2>1. HandlerAnswers => FALSE
    <3>1. ASSUME HandlerAnswers PROVE FALSE
      <4>1. PICK q \in Pids : child'[q].at = "up" /\ \A x \in Pids : x # q => child'[x] = child[x]
        BY <1>2, <3>1, HandlerGreeted
      <4> QED
        BY <4>1
    <3> QED
      BY <3>1
  <2>2. ProcessAnswers => FALSE
    <3>1. ProcessAnswers => child' = child \/ child' = [child EXCEPT ![proc_id[dac.on]].at = IF @ = "new" THEN "up" ELSE @]
      BY DEF ProcessAnswers
    <3>2. ASSUME child' = [child EXCEPT ![proc_id[dac.on]].at = IF @ = "new" THEN "up" ELSE @] PROVE FALSE
      <4>1. CASE proc_id[dac.on] = p
        <5>1. child'[p] = [child[p] EXCEPT !.at = IF @ = "new" THEN "up" ELSE @]
          BY <1>0, <3>2, <4>1
        <5>2. child'[p].at = IF child[p].at = "new" THEN "up" ELSE child[p].at
          BY <1>0, <5>1 DEF Child
        <5> QED
          BY <5>2
      <4>2. CASE proc_id[dac.on] # p
        <5>1. child'[p] = child[p]
          BY <1>0, <3>2, <4>2
        <5> QED
          BY <5>1
      <4> QED
        BY <4>1, <4>2
    <3> QED
      BY <3>1, <3>2
  <2> QED
    BY <1>2, <1>3, <2>1, <2>2, DacFrames
<1>4. CidStep
  BY <1>3, Steps, DacCallElse
<1>5. ASSUME NEW h \in Hosts, NEW c \in Callers, CidServes(h, c) PROVE FALSE
  <2>1. OpVerify(h, c) \/ OpExecRefused(h, c) \/ FillSlot(h, c) \/ OpDetectProc(h, c) => child' = child
    BY DEF OpVerify, OpExecRefused, FillSlot, OpDetectProc
  <2>2. OpKill(h, c) => child' = child \/ \E S : child' = Signalled(S)
    BY DEF OpKill
  <2>3. OpKillApp(h, c) => \E S : child' = Signalled(S)
    BY DEF OpKillApp
  <2> QED
    BY <1>1, <1>5, <2>1, <2>2, <2>3 DEF CidServes
<1>6. ASSUME NEW h \in Hosts, Fork(h) PROVE FALSE
  BY <1>6, Forks
<1>7. (\E h \in Hosts : EnterPid(h)) \/ (\E c \in Callers : CallFails(c)) => FALSE
  BY DEF EnterPid, CallFails
<1>8. ASSUME NEW h \in Hosts, HostCrash(h) PROVE FALSE
  <2>1. CASE child[p].host = h
    BY <1>8, <2>1, TableTypes DEF HostCrash
  <2>2. CASE child[p].host # h
    <3>1. child'[p] = child[p]
      BY <1>8, <2>2, CrashGoOn DEF AppInv
    <3> QED
      BY <3>1
  <2> QED
    BY <2>1, <2>2
<1>9. ASSUME NEW q \in Pids, NEW s \in Outcomes \cup {"KILLED"}, Ends(q, s) PROVE FALSE
  <2>1. s \in Statuses
    BY ApplicationAssumption DEF Statuses
  <2>2. child' = [child EXCEPT ![q].at = "zombie", ![q].status = s]
    BY <1>9 DEF Ends
  <2>3. child'[q] = [name |-> child[q].name, host |-> child[q].host, at |-> "zombie", status |-> s]
        /\ \A x \in Pids : x # q => child'[x] = child[x]
    BY <2>1, <2>2, OneGoesOn DEF AppInv
  <2> QED
    BY <2>3
<1>10. ASSUME NEW h \in Hosts, NEW q \in Pids, sigchldHandler(h, q) PROVE q = p
  <2>1. \A x \in Pids : x # q => child'[x] = child[x]
    BY <1>10, Dies
  <2> QED
    BY <2>1
<1> QED
  BY <1>4, <1>5, <1>6, <1>7, <1>8, <1>9, <1>10 DEF CidStep, CidStarts, Death, HostLost, Fail, Program

\* The end of a process that DAC holds for RUNNING is reported, unless it has been killed.
LEMMA DeathHeard ==
  ASSUME AppInv, AppStep, NEW n \in Procs, NEW p \in Pids, NEW h \in Hosts, sigchldHandler(h, p),
         child[p].name = n, state[n] = "RUNNING", listening
  PROVE  inbox' = Append(inbox, Report(n, child[p].status)) \/ Freed(n)
<1>0. p \in PidsOf(n) /\ child[p].name = n
  BY DEF PidsOf
<1>1. child[p].host = h /\ child[p].at = "zombie" /\ up[h]
  BY Dies
<1>2. start_flag /\ ~(dac.at = "execCid" /\ dac.on = n)
  BY <1>0, RunningStarted DEF AppInv, ExecFits
<1>3. \A g \in Hosts : starting[g] # Nil => Asked \in Procs
  <2>1. dac.at # "handlerCid"
    BY <1>2 DEF AppInv, DacShape
  <2> QED
    BY <2>1, Starting, AskedIsNamed DEF CidPlaces
<1>4. ChildFits(p)
  BY <1>0 DEF AppInv, ChildrenFit
<1>5. CASE starting[h] # Nil /\ starting[h].pid = p
  <2>1. p # 0
    BY <1>0 DEF Pids
  <2>2. dac.at = "execCid" /\ Asked = dac.on /\ p \in PidsOf(Asked)
    BY <1>3, <1>5, <2>1, Starting
  <2>3. dac.on = n
    BY <1>0, <2>2 DEF PidsOf
  <2> QED
    BY <1>2, <2>2, <2>3
<1>6. CASE \E i \in SlotsOf(h, n) : table[h][i].pid = p
  <2>0. PICK j \in Slots : table[h][j].used /\ table[h][j].pid = p
    BY <1>6 DEF SlotsOf, Used
  <2>1. PICK i \in Slots : /\ table[h][i].used /\ table[h][i].pid = p
                           /\ inbox' = IF table[h][i].port /\ listening
                                         THEN Append(inbox, Report(table[h][i].name, child[p].status)) ELSE inbox
    <3> DEFINE mine == {x \in Used(h) : table[h][x].pid = p}
    <3>1. mine # {} /\ mine \in SUBSET Slots
      BY <2>0 DEF Used
    <3>2. PICK i \in mine : i = Lowest(mine)
      <4> HIDE DEF mine
      <4> QED
        BY <3>1, LowestIn
    <3>3. inbox' = IF table[h][i].port /\ listening
                    THEN Append(inbox, Report(table[h][i].name, child[p].status)) ELSE inbox
      BY <3>1, <3>2 DEF sigchldHandler
    <3>4. i \in Slots /\ table[h][i].used /\ table[h][i].pid = p
      BY <3>2 DEF Used
    <3> QED
      BY <3>3, <3>4
  <2>2. EntryFits(h, i)
    BY <1>1 DEF AppInv, TableFits
  <2>3. ~BeingFilled(h, i)
    <3> SUFFICES ASSUME BeingFilled(h, i) PROVE FALSE
      OBVIOUS
    <3>1. starting[h] # Nil /\ starting[h].slot = i
      BY DEF BeingFilled
    <3>2. table[h][i].pid = 0
      BY <1>3, <3>1, Starting
    <3> QED
      BY <1>0, <2>1, <3>2 DEF Pids
  <2>4. table[h][i].name = n /\ table[h][i].port
    BY <1>0, <2>1, <2>2, <2>3 DEF EntryFits, PidsOf
  <2> QED
    BY <2>1, <2>4
<1> QED
  BY <1>0, <1>1, <1>4, <1>5, <1>6 DEF ChildFits

\* DAC serves the report of an end.
LEMMA ReportServed ==
  ASSUME AppInv, DacStep, NEW r, Takes(r), r.op = "EXIT_PROCESS"
  PROVE  r.name \in Procs /\ state'[r.name] # "RUNNING"
<1>0. dac = Serving /\ inbox \in Seq(Messages) /\ inbox # <<>> /\ inbox' = Tail(inbox) /\ \A x : Takes(x) => x = r
  BY DEF Takes, AppInv, NewsAreTrue
<1>1. inbox' # inbox
  <2>1. Len(inbox') = Len(inbox) - 1 /\ Len(inbox) \in Nat
    BY <1>0
  <2> QED
    BY <2>1
<1>3. ~OpVerifyApp /\ ~OpStart /\ ~OpKillProcess /\ ~OpKillAll /\ ~OpFddChangeProc /\ ~OpGetCpulist
  <2>1. ~OpVerifyApp /\ ~OpStart /\ ~OpKillAll /\ ~OpGetCpulist
    BY <1>0 DEF OpVerifyApp, OpStart, OpKillAll, OpGetCpulist, Op
  <2>2. ASSUME OpKillProcess PROVE FALSE
    <3>1. PICK m \in Procs : Takes(OpOn("KILL", m))
      BY <2>2 DEF OpKillProcess
    <3>2. r = OpOn("KILL", m)
      BY <1>0, <3>1
    <3> QED
      BY <3>2 DEF OpOn
  <2>3. ASSUME OpFddChangeProc PROVE FALSE
    <3>1. PICK h \in Hosts, q \in Pids \cup {0} : Takes([op |-> "FDDCHANGE_PROC", host |-> h, pid |-> q])
      BY <2>3 DEF OpFddChangeProc
    <3>2. r = [op |-> "FDDCHANGE_PROC", host |-> h, pid |-> q]
      BY <1>0, <3>1
    <3> QED
      BY <3>2
  <2> QED
    BY <2>1, <2>2, <2>3
<1>4. OpExitProcess
  BY <1>0, <1>3, DacGuards DEF DacStep, Dac, Closing, Serving, At
<1>5. PICK m \in Procs, s \in Statuses :
           /\ Takes(Report(m, s))
           /\ \A n \in Procs :
                \/ state'[n] = state[n] /\ (n # m \/ state[n] = "KILLED") /\ (state[n] = "WAITING" => prcd'[n] # {})
                \/ n = m /\ state[n] # "KILLED" /\ state'[n] = s
                \/ state[n] = "WAITING" /\ state'[n] = "READY" /\ n # m /\ prcd'[n] = {}
  BY <1>4, ExitStates
<1>6. r.name = m
  BY <1>0, <1>5 DEF Report
<1> QED
  BY <1>5, <1>6 DEF Statuses

\* An end is not forgotten.
LEMMA LostExitKept ==
  ASSUME AppInv, AppStep
  PROVE  NoLostExit'
<1> SUFFICES ASSUME NEW n \in Procs, state'[n] = "RUNNING", (Ended(proc_id[n]))', up'[HostOf[n]], listening'
             PROVE  \/ child'[proc_id'[n]].at = "zombie"
                    \/ \E i \in DOMAIN inbox' : inbox'[i].op = "EXIT_PROCESS" /\ inbox'[i].name = n
                    \/ dac'.at = "killCid" /\ dac'.on = n
                    \/ Event("KILL_APP", HostOf[n]) \in done'
  BY DacShapeKept DEF NoLostExit, DacShape
<1>0. n \in Names /\ HostOf[n] \in Hosts /\ up[HostOf[n]] /\ listening
  BY ControllerAssumption, TablesStay, ListeningFrame DEF Names
<1>1. CASE state[n] # "RUNNING"
  <2>1. ProcessAnswers /\ n = dac.on /\ dac.at = "execHello"
    BY <1>1, RunningNew
  <2>2. child[proc_id[n]].at \in {"new", "term"} /\ proc_id' = proc_id
        /\ child' = [child EXCEPT ![proc_id[n]].at = IF @ = "new" THEN "up" ELSE @]
    BY <1>1, <2>1 DEF ProcessAnswers
  <2>3. proc_id[n] \in Pids
    BY <2>1 DEF AppInv, ExecFits, ProcessLife, ProcessFits, PidsOf
  <2>4. PICK p \in Pids : p = proc_id[n]
    BY <2>3
  <2>5. DOMAIN child = Pids /\ child[p] \in Child
    BY ChildTypes DEF AppInv
  <2>6. child'[p] = [child[p] EXCEPT !.at = IF @ = "new" THEN "up" ELSE @]
    BY <2>2, <2>4, <2>5
  <2>7. child'[p].at = IF child[p].at = "new" THEN "up" ELSE child[p].at
    BY <2>5, <2>6 DEF Child
  <2> QED
    BY <2>2, <2>4, <2>7 DEF Ended
<1>2. CASE state[n] = "RUNNING"
  <2>1. proc_id'[n] = proc_id[n]
    <3>1. proc_id \in [Names -> Nat]
      BY DEF AppInv, AppTypeOK, DacTypeOK
    <3>2. ASSUME HandlerAnswers PROVE proc_id'[n] = proc_id[n]
      <4>1. HandlerList[dac.on] # n
        BY <3>2, DacGuards, Listed DEF AppInv, DacShape
      <4> QED
        BY <1>0, <3>1, <3>2, <4>1 DEF HandlerAnswers
    <3>3. ASSUME ProcessForked PROVE proc_id'[n] = proc_id[n]
      <4>1. dac.on # n
        BY <1>2, <3>3, DacGuards DEF AppInv, ExecFits
      <4> QED
        BY <1>0, <3>1, <3>3, <4>1 DEF ProcessForked
    <3> QED
      BY <3>2, <3>3, ProcIdFrame
  <2>2. PICK p \in PidsOf(n) : p = proc_id[n]
    BY <1>2 DEF AppInv, ProcessLife, ProcessFits
  <2>3. p \in Pids /\ child[p].name = n /\ child[p].host = HostOf[n] /\ GoesOn(p)
    BY <2>2, ChildrenGoOn DEF PidsOf, AppInv, ChildrenFit, ChildFits
  <2>4. child'[p].at \in {"zombie", "gone"}
    BY <2>1, <2>2 DEF Ended
  <2>5. CASE dac.at = "killCid" /\ dac.on = n
    <3>1. DacStep => Killed
      BY <2>5, DacGuards DEF DacStep, Dac, Closing
    <3>2. Killed => state'[n] = "KILLED"
      BY <2>5 DEF Killed, AppInv, AppTypeOK, DacTypeOK
    <3>3. ~DacStep
      BY <3>1, <3>2
    <3>4. dac' = dac
      BY <3>3, Steps, CidFrame, NewsFrame, AsideFrame DEF appVars, dacVars
    <3> QED
      BY <2>5, <3>4
  <2>6. CASE Event("KILL_APP", HostOf[n]) \in done
    BY <2>6, Steps, CidFrame, NewsFrame, AsideFrame, DacFrame DEF appVars
  <2>7. ASSUME NEW i \in DOMAIN inbox, inbox[i].op = "EXIT_PROCESS", inbox[i].name = n
        PROVE  \E j \in DOMAIN inbox' : inbox'[j].op = "EXIT_PROCESS" /\ inbox'[j].name = n
    <3>0. inbox \in Seq(Messages)
      BY DEF AppInv, NewsAreTrue
    <3>1. CASE inbox' = inbox
      BY <2>7, <3>1
    <3>2. CASE \E r \in Messages : inbox' = Append(inbox, r)
      <4>1. PICK r \in Messages : inbox' = Append(inbox, r)
        BY <3>2
      <4>2. DOMAIN inbox' = DOMAIN inbox \cup {Len(inbox) + 1} /\ \A j \in DOMAIN inbox : inbox'[j] = inbox[j]
        BY <3>0, <4>1, OneMore
      <4> QED
        BY <2>7, <4>2
    <3>3. CASE DacStep /\ \E r : Takes(r)
      <4>1. PICK r : Takes(r)
        BY <3>3
      <4>2. i # 1
        <5>1. inbox[1] = r
          BY <4>1, HeadTrue
        <5> QED
          BY <2>7, <3>3, <4>1, <5>1, ReportServed
      <4>3. i - 1 \in DOMAIN inbox' /\ inbox'[i - 1] = inbox[i]
        <5>1. inbox # <<>> /\ inbox' = Tail(inbox)
          BY <4>1 DEF Takes
        <5>2. i \in 1 .. Len(inbox) /\ Len(inbox) \in Nat
          BY <3>0, <2>7
        <5>3. i - 1 \in 1 .. Len(inbox')
          BY <3>0, <4>2, <5>1, <5>2
        <5> QED
          BY <3>0, <4>2, <5>1, <5>2, <5>3
      <4> QED
        BY <2>7, <4>3
    <3>4. ~End
      BY DEF End
    <3> QED
      BY <3>1, <3>2, <3>3, <3>4, InboxMoves
  <2>8. CASE child[p].at # "gone" /\ child'[p].at = "gone"
    <3>1. CidStep /\ \E h \in Hosts : sigchldHandler(h, p)
      BY <2>3, <2>8, GoneHow
    <3>2. inbox' = Append(inbox, Report(n, child[p].status)) \/ Freed(n)
      BY <1>0, <1>2, <2>3, <3>1, DeathHeard
    <3>3. CASE inbox' = Append(inbox, Report(n, child[p].status))
      <4>1. inbox \in Seq(Messages) /\ child[p].status \in Statuses
        <5>1. child[p].at = "zombie"
          <6>1. PICK h \in Hosts : sigchldHandler(h, p)
            BY <3>1
          <6> QED
            BY <6>1 DEF sigchldHandler
        <5> QED
          BY <2>3, <5>1 DEF AppInv, NewsAreTrue, ChildrenFit, ChildFits
      <4>2. Report(n, child[p].status) \in Messages
        BY <4>1 DEF Report, Messages
      <4>3. Len(inbox) + 1 \in DOMAIN inbox' /\ inbox'[Len(inbox) + 1] = Report(n, child[p].status)
        BY <3>3, <4>1, <4>2, OneMore
      <4> QED
        BY <4>3 DEF Report
    <3>4. CASE Freed(n)
      BY <1>2, <2>5, <2>6, <3>4 DEF Freed
    <3> QED
      BY <3>2, <3>3, <3>4
  <2>9. CASE child[p].at = "gone" /\ child'[p].at = "gone"
    <3>1. \/ \E i \in DOMAIN inbox : inbox[i].op = "EXIT_PROCESS" /\ inbox[i].name = n
          \/ dac.at = "killCid" /\ dac.on = n
          \/ Event("KILL_APP", HostOf[n]) \in done
      BY <1>0, <1>2, <2>2, <2>9 DEF AppInv, NoLostExit, Ended, DacShape
    <3> QED
      BY <2>5, <2>6, <2>7, <3>1
  <2> QED
    BY <2>1, <2>2, <2>4, <2>8, <2>9
<1> QED
  BY <1>1, <1>2

-----------------------------------------------------------------------------
(* The invariant holds in every behaviour.                                  *)

\* Before anything has happened no program was forked, nobody is asked and nothing is on its way.
LEMMA InitFacts ==
  ASSUME Init
  PROVE  /\ Pids = {} /\ \A n \in Names : PidsOf(n) = {}
         /\ \A c \in Callers : call[c] = Nil /\ ~Pending(c)
         /\ ~Answered /\ \A h \in Hosts : starting[h] = Nil /\ \A n : SlotsOf(h, n) = {}
         /\ DOMAIN inbox = {} /\ \A op : ~Sent(op)
         /\ dac = Serving /\ dac.at = "serve"
         /\ \A n \in Procs : Precedents[n] \in SUBSET Procs
         /\ Len(ProcList) \in Nat /\ Len(ProcList) >= 1
<1>1. Pids = {}
  BY DEF Init, CidInit, Pids
<1>2. \A n \in Names : PidsOf(n) = {}
  BY <1>1 DEF PidsOf
<1>3. \A c \in Callers : call[c] = Nil /\ ~Pending(c)
  BY DEF Init, CidInit, Pending
<1>4. ~Answered
  BY <1>3, ControllerAssumption DEF Answered
<1>5. \A h \in Hosts : starting[h] = Nil
  BY DEF Init, CidInit
<1>6. ASSUME NEW h \in Hosts, NEW n PROVE SlotsOf(h, n) = {}
  <2>1. \A i \in Slots : ~table[h][i].used
    BY DEF Init, CidInit
  <2> QED
    BY <2>1 DEF SlotsOf, Used
<1>7. inbox = <<>> /\ DOMAIN inbox = {}
  BY DEF Init, CidInit
<1>8. \A op : ~Sent(op)
  BY <1>7 DEF Sent
<1>9. dac = Serving /\ dac.at = "serve"
  BY DEF Init, DacInit, Serving, At
<1>10. \A n \in Procs : Precedents[n] \in SUBSET Procs
  BY ControllerAssumption
<1>11. Len(ProcList) \in Nat /\ Len(ProcList) >= 1
  <2>1. ProcList \in Seq(Procs) /\ Len(ProcList) \in Nat /\ DOMAIN ProcList = 1 .. Len(ProcList)
    BY ControllerAssumption
  <2>2. DOMAIN ProcList # {}
    BY ControllerAssumption
  <2> QED
    BY <2>1, <2>2
<1> QED
  BY <1>1, <1>2, <1>3, <1>4, <1>5, <1>6, <1>7, <1>8, <1>9, <1>10, <1>11

\* The initial states are of their types.
LEMMA InitTypes == Init => AppTypeOK
<1> SUFFICES ASSUME Init PROVE AppTypeOK
  OBVIOUS
<1>1. up \in [Hosts -> BOOLEAN] /\ DOMAIN call = Callers /\ listening \in BOOLEAN
  BY DEF Init, CidInit
<1>2. table \in [Hosts -> [Slots -> Entry]]
  <2>1. [used |-> FALSE, dead |-> FALSE, pid |-> 0, name |-> Nil, port |-> FALSE] \in Entry
    BY DEF Entry
  <2> QED
    BY <2>1 DEF Init, CidInit
<1>3. child \in Seq(Child)
  BY DEF Init, CidInit
<1>4. CidTypeOK
  BY <1>1, <1>2, <1>3, InitFacts DEF CidTypeOK
<1>5. state \in [Procs -> States]
  BY DEF Init, DacInit, readPrcd, States
<1>6. prcd \in [Procs -> SUBSET Procs] /\ hstate \in [Handlers -> {"READY", "STARTED", "KILLED"}]
  BY ControllerAssumption DEF Init, DacInit, readPrcd, readHandler
<1>7. proc_id \in [Names -> Nat] /\ start_flag \in BOOLEAN
  BY DEF Init, DacInit
<1>8. host_list \in Seq([host : Hosts, pid : Nat, fault_flag : BOOLEAN]) /\ recovered \subseteq Nat
  BY DEF Init, FddInit
<1>9. fdd.on \in 1 .. Len(ProcList)
  <2>1. fdd.on = 1
    BY DEF Init, FddInit, FddAt
  <2> QED
    BY <2>1, InitFacts
<1>10. done \subseteq Outside
  BY DEF Init
<1> QED
  BY <1>4, <1>5, <1>6, <1>7, <1>8, <1>9, <1>10, InitFacts DEF AppTypeOK, DacTypeOK, FddTypeOK

\* The initial states satisfy the invariant.
LEMMA InitInv == Init => AppInv
<1> SUFFICES ASSUME Init PROVE AppInv
  OBVIOUS
<1>1. AppTypeOK
  BY InitTypes
<1>2. start_flag = FALSE /\ listening = TRUE /\ prun = "begins" /\ fdd.at = "off" /\ inbox = <<>> /\ host_list = <<>>
  BY DEF Init, CidInit, DacInit, FddInit, FddAt
<1>3. DacShape
  BY <1>2, InitFacts, ControllerAssumption DEF DacShape, Serving, At, Places
<1>4. CallsFit
  BY InitFacts, ControllerAssumption, ApplicationAssumption DEF CallsFit
<1>5. StartingFits
  BY InitFacts DEF StartingFits, StartFits, Init, CidInit
<1>6. \A h \in Hosts, i \in Slots : ~table[h][i].used /\ ~table[h][i].dead /\ table[h][i].pid = 0
  BY DEF Init, CidInit
<1>7. TableFits
  BY <1>6 DEF TableFits, EntryFits
<1>8. SlotsAreFresh
  <2>1. \A h \in Hosts : ~Stale(h)
    BY <1>6 DEF Stale
  <2> QED
    BY <2>1, ControllerAssumption DEF SlotsAreFresh, Names
<1>9. ChildrenFit
  BY InitFacts DEF ChildrenFit
<1>10. ProcessLife
  <2>1. ASSUME NEW n \in Procs PROVE ProcessFits(n)
    <3>1. PidsOf(n) = {} /\ proc_id[n] = 0 /\ state[n] \in {"READY", "WAITING"} /\ SlotsOf(HostOf[n], n) = {}
      BY InitFacts, ControllerAssumption DEF Init, DacInit, readPrcd, Names
    <3> QED
      BY <3>1 DEF ProcessFits, LiveProc
  <2> QED
    BY <2>1 DEF ProcessLife
<1>11. ExecFits /\ KillFits /\ EndingFits
  BY InitFacts DEF ExecFits, KillFits, EndingFits, ExecPlaces
<1>12. OrderKept
  <2>1. ASSUME NEW n \in Procs PROVE OrderFits(n)
    <3>1. prcd[n] = Precedents[n] /\ state[n] = IF Precedents[n] = {} THEN "READY" ELSE "WAITING"
      BY <2>1 DEF Init, DacInit, readPrcd
    <3> QED
      BY <1>2, <3>1 DEF OrderFits
  <2> QED
    BY <2>1 DEF OrderKept
<1>13. \A n \in Handlers : hstate[n] = "READY"
  BY DEF Init, DacInit, readHandler
<1>14. HandlersFit
  <2>1. \A i \in DOMAIN HandlerList : hstate[HandlerList[i]] # "STARTED"
    BY <1>13, Listed
  <2> QED
    BY <2>1, InitFacts DEF HandlersFit
<1>15. PrunFits
  BY <1>2, <1>13, InitFacts DEF PrunFits, NotStarted, StartUnderWay
<1>16. NewsAreTrue
  BY <1>2, InitFacts DEF NewsAreTrue
<1>17. FddFits
  BY <1>2, InitFacts, ApplicationAssumption DEF FddFits, Watching
<1>18. NoOrphans
  BY InitFacts DEF NoOrphans
<1>19. NoLostExit
  <2>1. \A n \in Procs : state[n] # "RUNNING"
    BY DEF Init, DacInit, readPrcd
  <2> QED
    BY <2>1 DEF NoLostExit
<1> QED
  BY <1>1, <1>3, <1>4, <1>5, <1>7, <1>8, <1>9, <1>10, <1>11, <1>12, <1>14, <1>15, <1>16, <1>17, <1>18, <1>19 DEF AppInv

\* Every step keeps the invariant.
LEMMA AppInvKept ==
  ASSUME KillsLeaveHosts, AppInv, AppStep
  PROVE  AppInv'
<1>1. AppTypeOK' /\ DacShape' /\ CallsFit' /\ StartingFits'
  BY TypesKept, DacShapeKept, CallsKept, StartingKept
<1>2. TableFits' /\ SlotsAreFresh' /\ ChildrenFit' /\ ProcessLife'
  BY TableKept, SlotsKept, ChildrenKept, LifeKept
<1>3. ExecFits' /\ KillFits' /\ EndingFits' /\ OrderKept' /\ HandlersFit'
  BY ExecKept, KillKept, EndingKept, OrderStays, HandlersKept
<1>4. PrunFits' /\ NewsAreTrue' /\ FddFits' /\ NoOrphans' /\ NoLostExit'
  BY PrunKept, NewsKept, FddKept, OrphansKept, LostExitKept
<1> QED
  BY <1>1, <1>2, <1>3, <1>4 DEF AppInv
=============================================================================
