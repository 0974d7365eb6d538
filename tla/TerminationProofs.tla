-------------------------- MODULE TerminationProofs --------------------------
(***************************************************************************)
(* Proofs about an application to whose controller SIGTERM may come while  *)
(* it is in the middle of anything (Application): from then on (TermInv)   *)
(* DAC knows of every program that runs but of those it was starting or    *)
(* ending, and kills what it knows.  With the invariant of the time before *)
(* (AppInv) that gives the theorems on the whole life of an application.   *)
(***************************************************************************)
EXTENDS ApplicationProofs

-----------------------------------------------------------------------------
(* The invariant from SIGTERM on.                                           *)

\* DAC kills and takes no requests; what it had asked a CID for is the call of "left".
TermShape ==
  /\ dac = At(dac.at, dac.on, "SIGTERM") /\ dac.at \in {"killAll", "killCid", "killHandlers", "over"}
  /\ dac.at = "killCid" => dac.on \in Procs
  /\ dac.at = "killHandlers" => dac.on \in Nat \ {0}
  /\ dac.at \in {"killHandlers", "over"} => \A n \in Procs : state[n] # "RUNNING"
  /\ listening <=> dac.at # "over"

LeftStarts == Pending("left") /\ call["left"].op = "EXEC"
TermCalls ==
  /\ \A c \in Callers \ {"dac", "left", "fdd", "user"} : call[c] = Nil
  /\ dac.at # "killCid" => call["dac"] = Nil
  /\ Pending("dac") => call["dac"] = Kill(HostOf[dac.on], dac.on)
  /\ Pending("left") =>
       /\ call["left"].op \in {"VERIFY", "KILL", "EXEC"}
       /\ call["left"].name \in Names /\ call["left"].host = HostOf[call["left"].name]
  /\ LeftStarts => CutShort(call["left"].name)
  /\ call["fdd"] # Nil => fdd.at = "answer"
  /\ Pending("fdd") => call["fdd"] = Detect(Watch.host, Watch.pid)
  /\ Pending("user") => \E h \in Hosts : call["user"] = KillApp(h)
  /\ Watching => Len(host_list) = Len(ProcList)

\* An EXEC under way is the one that DAC has left; it is that of a process not yet forked.
TermStarts(h) ==
  starting[h] # Nil =>
    /\ starting[h] \in [by : {"left"}, slot : Slots, pid : Nat]
    /\ up[h] /\ LeftStarts /\ call["left"].host = h
    /\ table[h][starting[h].slot].used /\ table[h][starting[h].slot].name = call["left"].name
    /\ starting[h].pid # 0 => starting[h].pid \in PidsOf(call["left"].name)
LeftFits ==
  LeftStarts /\ call["left"].name \in Procs /\ PidsOf(call["left"].name) # {} =>
    starting[call["left"].host] # Nil /\ starting[call["left"].host].pid # 0
TermStartsFit ==
  /\ DOMAIN starting = Hosts /\ \A h \in Hosts : TermStarts(h)
  /\ LeftFits

\* A process that runs is one DAC will kill by way of its entry, or is cut short ...
HasEntry(p) ==
  LET h == child[p].host  S == SlotsOf(h, child[p].name)
  IN  S # {} /\ \A i \in S : table[h][i].pid = p
ProcessIsKnown(p) ==
  /\ state[child[p].name] = "RUNNING" /\ HasEntry(p)
  /\ ~(dac.at = "killCid" /\ dac.on = child[p].name /\ Answered)
\* ... and a handler that runs is one DAC will come to.
NextToKill == IF dac.at = "killHandlers" THEN dac.on ELSE 1
HandlerIsKnown(p) ==
  /\ child[p].at = "up" /\ proc_id[child[p].name] = p /\ dac.at # "over"
  /\ \E i \in DOMAIN HandlerList :
       /\ HandlerList[i] = child[p].name /\ NextToKill <= i
       /\ \A j \in NextToKill .. i : hstate[HandlerList[j]] = "STARTED"
TermChild(p) ==
  /\ child[p].host = HostOf[child[p].name]
  /\ ~up[child[p].host] => child[p].at = "gone"
  /\ Live(p) /\ ~CutShort(child[p].name) =>
       IF child[p].name \in Procs THEN ProcessIsKnown(p) ELSE HandlerIsKnown(p)
TermChildren ==
  /\ \A p \in Pids : TermChild(p)
  /\ \A n \in Procs : \A p, q \in PidsOf(n) : p = q

TermInv == AppTypeOK /\ TermShape /\ TermCalls /\ TermStartsFit /\ TermChildren

-----------------------------------------------------------------------------
(* Its steps.                                                               *)

\* DAC kills and ends; the CIDs, FDD, prun and the operator go on.
TermDac == (KillNext \/ Killed \/ ProcessesKilled \/ KillHandler \/ End) /\ Kept
TermStep ==
  \/ CidStep \/ NewsStep \/ AsideStep \/ TermDac
  \/ \E p \in Pids : Alone(p)
  \/ UNCHANGED appVars

LEMMA TermPlaces ==
  ASSUME TermInv
  PROVE  /\ dac.why = "SIGTERM" /\ dac # Serving /\ dac.at \in {"killAll", "killCid", "killHandlers", "over"}
         /\ dac.at = "killCid" => dac.on \in Procs
         /\ dac.at = "killHandlers" => dac.on \in Nat \ {0}
<1>1. dac = At(dac.at, dac.on, "SIGTERM")
  BY DEF TermInv, TermShape
<1>2. dac.why = "SIGTERM"
  BY <1>1 DEF At
<1>3. Serving.why = Nil /\ Nil # "SIGTERM"
  BY ControllerAssumption DEF Serving, At
<1> QED
  BY <1>2, <1>3 DEF TermInv, TermShape

\* There are no other steps.
LEMMA TermSteps ==
  ASSUME TermInv, [Next]_appVars
  PROVE  TermStep
<1>1. ~Terminate
  BY TermPlaces DEF Terminate, sigtermHandler
<1>2. ASSUME Dac PROVE TermDac
  <2>1. ~(OpVerifyApp \/ OpStart \/ OpExitProcess \/ OpKillProcess \/ OpKillAll \/ OpFddChangeProc \/ OpGetCpulist)
    BY TermPlaces DEF OpVerifyApp, OpStart, OpExitProcess, OpKillProcess, OpKillAll, OpFddChangeProc,
                      OpGetCpulist, Takes
  <2>2. ~(VerifyNext \/ VerifyAnswered \/ Verified \/ ExecHandler \/ HandlerAnswers \/ HandlersStarted)
    BY TermPlaces DEF VerifyNext, VerifyAnswered, Verified, ExecHandler, HandlerAnswers, HandlersStarted
  <2>3. ~(ExecProcess \/ ProcessForked \/ ProcessAnswers \/ ExecDone \/ HandlersKilled)
    BY TermPlaces DEF ExecProcess, ProcessForked, ProcessAnswers, ExecDone, HandlersKilled
  <2> QED
    BY <1>2, <2>1, <2>2, <2>3 DEF Dac, TermDac
<1> QED
  BY <1>1, <1>2, AllSteps DEF AppStep, DacStep, TermStep

\* What a step of the CIDs, of messages, of FDD and of the operator leaves alone.
LEMMA TermFrame ==
  ASSUME TermStep
  PROVE  /\ cut' = cut /\ proc_id' = proc_id
         /\ ~CidStep => UNCHANGED <<up, table, starting>>
         /\ ~TermDac => UNCHANGED <<state, hstate, dac, listening, prcd, start_flag>>
         /\ ~CidStep /\ ~(\E p \in Pids : Alone(p)) /\ ~KillHandler => child' = child
<1>1. CASE CidStep
  BY <1>1, CidFrame DEF dacVars
<1>2. CASE NewsStep
  <2>1. cut' = cut
    BY <1>2 DEF NewsStep, SendVerify, SendStart, SendExit, exit_app, kill_process, start_fdd, TellDac, dacVars
  <2> QED
    BY <1>2, <2>1, NewsFrame
<1>3. CASE AsideStep
  BY <1>3, AsideFrame DEF dacVars
<1>4. CASE TermDac
  BY <1>4 DEF TermDac, KillNext, Killed, ProcessesKilled, KillHandler, End, cidVars
<1>5. CASE \E p \in Pids : Alone(p)
  BY <1>5 DEF Alone, GoesOnAlone, dacVars
<1>6. CASE UNCHANGED appVars
  BY <1>6 DEF appVars, cidVars, dacVars
<1> QED
  BY <1>1, <1>2, <1>3, <1>4, <1>5, <1>6 DEF TermStep

\* Who has a call pending.
LEMMA TermCallers ==
  ASSUME TermInv, NEW c \in Callers, Pending(c)
  PROVE  \/ /\ c = "dac" /\ dac.at = "killCid" /\ dac.on \in Procs
            /\ call[c].op = "KILL" /\ call[c].name = dac.on /\ call[c].host = HostOf[dac.on]
         \/ /\ c = "left" /\ call[c].op \in {"VERIFY", "KILL", "EXEC"}
            /\ call[c].name \in Names /\ call[c].host = HostOf[call[c].name]
         \/ c = "fdd" /\ call[c].op = "DETECT_PROC" /\ fdd.at = "answer"
         \/ c = "user" /\ call[c].op = "KILL_APP"
<1>1. c \in {"dac", "left", "fdd", "user"}
  BY DEF TermInv, TermCalls, Pending
<1>2. CASE c = "dac"
  <2>1. dac.at = "killCid" /\ call["dac"] = Kill(HostOf[dac.on], dac.on)
    BY <1>2 DEF TermInv, TermCalls, Pending
  <2> QED
    BY <1>2, <2>1, TermPlaces DEF Kill
<1>3. CASE c = "left"
  BY <1>3 DEF TermInv, TermCalls
<1>4. CASE c = "fdd"
  <2>1. call["fdd"] = Detect(Watch.host, Watch.pid) /\ fdd.at = "answer"
    BY <1>4 DEF TermInv, TermCalls, Pending
  <2> QED
    BY <1>4, <2>1 DEF Detect
<1>5. CASE c = "user"
  <2>1. PICK h \in Hosts : call["user"] = KillApp(h)
    BY <1>5 DEF TermInv, TermCalls
  <2> QED
    BY <1>5, <2>1 DEF KillApp
<1> QED
  BY <1>1, <1>2, <1>3, <1>4, <1>5

\* An EXEC is one of what DAC has left, and there is one at most under way.
LEMMA TermStarting ==
  ASSUME TermInv
  PROVE  /\ DOMAIN starting = Hosts
         /\ \A c \in Callers : Pending(c) /\ call[c].op = "EXEC" => c = "left" /\ LeftStarts
         /\ \A h \in Hosts : starting[h] # Nil =>
              /\ starting[h] \in [by : {"left"}, slot : Slots, pid : Nat] /\ LeftStarts
              /\ h = call["left"].host /\ call["left"].name \in Names /\ h = HostOf[call["left"].name] /\ up[h]
              /\ table[h][starting[h].slot].used /\ table[h][starting[h].slot].name = call["left"].name
              /\ starting[h].pid # 0 => starting[h].pid \in PidsOf(call["left"].name)
              /\ CutShort(call["left"].name)
              /\ \A g \in Hosts : starting[g] # Nil => g = h
<1>1. \A c \in Callers : Pending(c) /\ call[c].op = "EXEC" => c = "left" /\ LeftStarts
  BY TermCallers DEF LeftStarts
<1>2. DOMAIN starting = Hosts
  BY DEF TermInv, TermStartsFit
<1>3. ASSUME NEW h \in Hosts, starting[h] # Nil
      PROVE  /\ starting[h] \in [by : {"left"}, slot : Slots, pid : Nat] /\ LeftStarts
             /\ h = call["left"].host /\ up[h]
             /\ table[h][starting[h].slot].used /\ table[h][starting[h].slot].name = call["left"].name
             /\ starting[h].pid # 0 => starting[h].pid \in PidsOf(call["left"].name)
  BY <1>3 DEF TermInv, TermStartsFit, TermStarts
<1>4. LeftStarts => CutShort(call["left"].name) /\ call["left"].name \in Names /\ call["left"].host = HostOf[call["left"].name]
  BY DEF TermInv, TermCalls, LeftStarts
<1>5. ASSUME NEW h \in Hosts, starting[h] # Nil, NEW g \in Hosts, starting[g] # Nil PROVE g = h
  BY <1>3, <1>5
<1> QED
  BY <1>1, <1>2, <1>3, <1>4, <1>5

\* The tables.
LEMMA TermTypes ==
  ASSUME AppTypeOK
  PROVE  /\ table \in Tables /\ up \in [Hosts -> BOOLEAN] /\ DOMAIN call = Callers
         /\ \A h \in Hosts, i \in Slots : table[h][i] \in Entry
         /\ \A h \in Hosts, n \in Names : SlotsOf(h, n) \in SUBSET Slots
BY DEF AppTypeOK, CidTypeOK, Tables, SlotsOf, Used

\* A CID answers those who have called it.
LEMMA TermAnswers ==
  ASSUME TermInv, CidStep
  PROVE  DOMAIN call' = Callers /\ \A c \in Callers : call'[c] = call[c] \/ (Pending(c) /\ ~(Pending(c))')
<1> DEFINE Goal == DOMAIN call' = Callers /\ \A c \in Callers : call'[c] = call[c] \/ (Pending(c) /\ ~(Pending(c))')
<1> SUFFICES Goal
  OBVIOUS
<1>1. DOMAIN call = Callers
  BY TermTypes DEF TermInv
<1>2. ASSUME call' = call PROVE Goal
  BY <1>1, <1>2
<1>3. ASSUME NEW c \in Callers, NEW a, Pending(c), a.op \in {"ANSWER", "NO_ANSWER"}, Reply(c, a) PROVE Goal
  BY <1>1, <1>3 DEF Reply, Pending
<1>4. \A ok, v : Answer(ok, v).op = "ANSWER"
  BY DEF Answer
<1>5. NoAnswer.op = "NO_ANSWER"
  BY DEF NoAnswer
<1>6. ASSUME NEW h \in Hosts, NEW c \in Callers, CidServes(h, c) PROVE Goal
  <2>1. call' = call \/ (Pending(c) /\ \E ok, v : Reply(c, Answer(ok, v)))
    BY <1>6 DEF CidServes, OpVerify, OpExecRefused, FillSlot, OpKill, OpKillApp, OpDetectProc, Accepts
  <2> HIDE DEF Goal
  <2> QED
    BY <1>2, <1>3, <1>4, <2>1
<1>7. ASSUME NEW h \in Hosts, EnterPid(h) PROVE Goal
  <2>1. starting[h] # Nil /\ Reply(starting[h].by, Answer(TRUE, starting[h].pid))
    BY <1>7 DEF EnterPid
  <2>2. starting[h].by = "left" /\ Pending("left") /\ "left" \in Callers
    BY <2>1, TermStarting, ControllerAssumption DEF LeftStarts
  <2> HIDE DEF Goal
  <2> QED
    BY <1>3, <1>4, <2>1, <2>2
<1>8. ASSUME NEW h \in Hosts, HostCrash(h) PROVE Goal
  <2>1. call' = [c \in Callers |-> IF Pending(c) /\ call[c].host = h THEN NoAnswer ELSE call[c]]
    BY <1>8 DEF HostCrash
  <2> QED
    BY <1>5, <2>1 DEF Pending
<1>9. ASSUME NEW c \in Callers, CallFails(c) PROVE Goal
  <2>1. Pending(c) /\ Reply(c, NoAnswer)
    BY <1>9 DEF CallFails
  <2> HIDE DEF Goal
  <2> QED
    BY <1>3, <1>5, <2>1
<1>10. (\E h \in Hosts : Fork(h) \/ \E p \in Pids : sigchldHandler(h, p))
         \/ (\E p \in Pids, s \in Outcomes \cup {"KILLED"} : Ends(p, s)) => call' = call
  BY DEF Fork, sigchldHandler, Ends
<1> HIDE DEF Goal
<1> QED
  BY <1>2, <1>6, <1>7, <1>8, <1>9, <1>10 DEF CidStep, CidStarts, Death, HostLost, Fail, Program

\* The entries of a name stay, with their pids.
SameEntries(h, n) ==
  \A i \in Slots :
    /\ (table'[h][i].used /\ table'[h][i].name = n) <=> (table[h][i].used /\ table[h][i].name = n)
    /\ table[h][i].used /\ table[h][i].name = n => table'[h][i].pid = table[h][i].pid

\* A table of which the entries differ by a mark at most, or one by its name, has the same
\* entries of the others.
LEMMA SameButOne ==
  ASSUME NEW h \in Hosts, NEW n, NEW s \in Slots,
         \A j \in Slots : j # s => table'[h][j] = table[h][j],
         table'[h][s].used => table'[h][s].name # n, table[h][s].used => table[h][s].name # n
  PROVE  SameEntries(h, n)
BY DEF SameEntries

\* A CID touches only entries of the name it starts or kills.
LEMMA TermTables ==
  ASSUME TermInv, CidStep
  PROVE  /\ table' \in Tables /\ up' \in [Hosts -> BOOLEAN] /\ (\A h \in Hosts : up'[h] => up[h])
         /\ \A p \in Pids :
              child[p].name \in Procs /\ ~CutShort(child[p].name) /\ HasEntry(p) /\ (Live(p))' =>
                SameEntries(child[p].host, child[p].name)
<1> DEFINE Keeps == \A p \in Pids :
                      child[p].name \in Procs /\ ~CutShort(child[p].name) /\ HasEntry(p) /\ (Live(p))' =>
                        SameEntries(child[p].host, child[p].name)
           Goal == /\ table' \in Tables /\ up' \in [Hosts -> BOOLEAN] /\ (\A h \in Hosts : up'[h] => up[h])
                   /\ Keeps
<1> SUFFICES Goal
  OBVIOUS
<1>1. AppTypeOK
  BY DEF TermInv
<1>2. /\ table \in Tables /\ up \in [Hosts -> BOOLEAN]
      /\ \A h \in Hosts, i \in Slots : table[h][i] \in Entry
      /\ \A h \in Hosts, n \in Names : SlotsOf(h, n) \in SUBSET Slots
  BY <1>1, TermTypes
<1>3. \A p \in Pids : child[p].host \in Hosts /\ child[p].name \in Names
  BY <1>1, ChildTypes
<1>4. ASSUME table' = table, up' = up PROVE Goal
  BY <1>2, <1>4 DEF SameEntries
<1>5. ASSUME table' \in Tables, up' = up,
             \A g \in Hosts, j \in Slots :
               /\ table'[g][j].used = table[g][j].used /\ table'[g][j].pid = table[g][j].pid
               /\ table'[g][j].name = table[g][j].name
      PROVE  Goal
  BY <1>2, <1>3, <1>5 DEF SameEntries
<1>6. ASSUME NEW h \in Hosts, NEW c \in Callers, FillSlot(h, c) PROVE Goal
  <2>1. Pending(c) /\ call[c].op = "EXEC" /\ call[c].host = h /\ Free(h) # {} /\ up' = up
    BY <1>6 DEF FillSlot, Accepts
  <2>2. c = "left" /\ LeftStarts
    BY <2>1, TermStarting
  <2>3. PICK n \in Names : n = call[c].name
    BY <2>1, <2>2, TermCallers
  <2>4. CutShort(n)
    BY <2>2, <2>3 DEF TermInv, TermCalls
  <2>5. PICK i \in Slots : i = getSlot(h) /\ ~table[h][i].used
    BY <2>1, LowestIn DEF getSlot, Free
  <2> DEFINE T1 == Taken(table, h, i)
             T2 == Named(T1, h, i, n)
             T3 == Ported(T2, h, i, n)
  <2>6. table' = T3
    BY <1>6, <2>3, <2>5 DEF FillSlot, Taken, Named, Ported
  <2>7. T1 \in Tables /\ \A g \in Hosts, j \in Slots : ~(g = h /\ j = i) => T1[g][j] = table[g][j]
    BY <1>2, TakenFits
  <2> HIDE DEF T1
  <2>8. T2 \in Tables /\ T2[h][i].name = n /\ \A g \in Hosts, j \in Slots : ~(g = h /\ j = i) => T2[g][j] = table[g][j]
    BY <2>7, NamedFits
  <2> HIDE DEF T2
  <2>9. T3 \in Tables /\ T3[h][i].name = n /\ \A g \in Hosts, j \in Slots : ~(g = h /\ j = i) => T3[g][j] = table[g][j]
    BY <2>8, PortedFits
  <2> HIDE DEF T3
  <2>10. ASSUME NEW p \in Pids, ~CutShort(child[p].name) PROVE SameEntries(child[p].host, child[p].name)
    <3>1. child[p].name # n
      BY <2>4, <2>10
    <3>2. CASE child[p].host = h
      BY <2>5, <2>6, <2>9, <3>1, <3>2, SameButOne
    <3>3. CASE child[p].host # h
      BY <1>3, <2>6, <2>9, <3>3 DEF SameEntries
    <3> QED
      BY <3>2, <3>3
  <2> QED
    BY <1>2, <2>1, <2>6, <2>9, <2>10
<1>7. ASSUME NEW h \in Hosts, NEW c \in Callers, OpKill(h, c) PROVE Goal
  <2>1. Pending(c) /\ call[c].op = "KILL" /\ call[c].host = h /\ up' = up
    BY <1>7 DEF OpKill, Accepts
  <2>2. PICK n \in Names : n = call[c].name /\ h = HostOf[n]
    BY <2>1, TermCallers DEF Names
  <2>3. CASE SlotsOf(h, n) = {}
    <3>1. table' = table
      BY <1>7, <2>2, <2>3 DEF OpKill
    <3> QED
      BY <1>4, <2>1, <3>1
  <2>4. CASE SlotsOf(h, n) # {}
    <3>1. PICK i \in SlotsOf(h, n) : i = Lowest(SlotsOf(h, n))
      BY <1>2, <2>4, LowestIn
    <3>2. i \in Slots /\ table[h][i].used /\ table[h][i].name = n
      BY <3>1 DEF SlotsOf, Used
    <3>3. child' = Signalled({table[h][i].pid}) /\ table' = [table EXCEPT ![h][i] = ungetSlot(@)]
      BY <1>7, <2>2, <2>4, <3>1 DEF OpKill
    <3> DEFINE e == ungetSlot(table[h][i])
    <3>4. e \in Entry /\ ~e.used
      BY <1>2, <3>2, EntryGivenBack
    <3> HIDE DEF e
    <3>5. table' = [table EXCEPT ![h] = [table[h] EXCEPT ![i] = e]]
      BY <3>3 DEF e
    <3>6. table' \in Tables /\ table'[h][i] = e
            /\ \A g \in Hosts, j \in Slots : ~(g = h /\ j = i) => table'[g][j] = table[g][j]
      BY <1>2, <3>2, <3>4, <3>5 DEF Tables
    <3>7. ASSUME NEW p \in Pids, HasEntry(p), (Live(p))' PROVE SameEntries(child[p].host, child[p].name)
      <4>1. CASE child[p].host # h
        BY <1>3, <3>6, <4>1 DEF SameEntries
      <4>2. CASE child[p].host = h /\ child[p].name # n
        BY <3>2, <3>4, <3>6, <4>2, SameButOne
      <4>3. CASE child[p].host = h /\ child[p].name = n
        <5>1. table[h][i].pid = p
          BY <3>1, <3>7, <4>3 DEF HasEntry
        <5>2. child'[p].at \notin {"new", "up"}
          BY <1>1, <3>3, <5>1, SignalsGoOn
        <5> QED
          BY <3>7, <5>2 DEF Live
      <4> QED
        BY <4>1, <4>2, <4>3
    <3> QED
      BY <1>2, <2>1, <3>6, <3>7
  <2> QED
    BY <2>3, <2>4
<1>8. ASSUME NEW h \in Hosts, NEW c \in Callers, OpKillApp(h, c) PROVE Goal
  <2>1. child' = Signalled({table[h][i].pid : i \in Used(h)}) /\ up' = up
    BY <1>8 DEF OpKillApp
  <2> DEFINE Row == [i \in Slots |-> IF i \in Used(h) THEN ungetSlot(table[h][i]) ELSE table[h][i]]
  <2>2. table' = [table EXCEPT ![h] = Row]
    BY <1>2, <1>8 DEF OpKillApp, Tables
  <2>3. Row \in [Slots -> Entry]
    BY <1>2, EntryGivenBack
  <2> HIDE DEF Row
  <2>4. table' \in Tables /\ \A g \in Hosts : g # h => table'[g] = table[g]
    BY <1>2, <2>2, <2>3 DEF Tables
  <2>5. ASSUME NEW p \in Pids, HasEntry(p), (Live(p))' PROVE SameEntries(child[p].host, child[p].name)
    <3>1. CASE child[p].host # h
      BY <1>3, <2>4, <3>1 DEF SameEntries
    <3>2. CASE child[p].host = h
      <4>1. PICK i \in SlotsOf(h, child[p].name) : table[h][i].pid = p
        BY <2>5, <3>2 DEF HasEntry
      <4>2. p \in {table[h][j].pid : j \in Used(h)}
        BY <4>1 DEF SlotsOf
      <4>3. child'[p].at \notin {"new", "up"}
        BY <1>1, <2>1, <4>2, SignalsGoOn
      <4> QED
        BY <2>5, <4>3 DEF Live
    <3> QED
      BY <3>1, <3>2
  <2> QED
    BY <1>2, <2>1, <2>4, <2>5
<1>9. ASSUME NEW h \in Hosts, NEW c \in Callers, OpDetectProc(h, c) PROVE Goal
  <2> DEFINE mine == {i \in Slots : table[h][i].pid = call[c].pid /\ table[h][i].name # Nil}
  <2>1. CASE mine # {} /\ table[h][Lowest(mine)].dead
    <3>1. mine \in SUBSET Slots
      OBVIOUS
    <3>2. PICK i \in Slots : i = Lowest(mine)
      <4> HIDE DEF mine
      <4> QED
        BY <2>1, <3>1, LowestIn
    <3>3. table' = Unmarked(table, h, i) /\ up' = up
      BY <1>9, <2>1, <3>2 DEF OpDetectProc, Unmarked
    <3>4. /\ table' \in Tables /\ \A g \in Hosts, j \in Slots : ~(g = h /\ j = i) => table'[g][j] = table[g][j]
          /\ table'[h][i].used = table[h][i].used /\ table'[h][i].pid = table[h][i].pid
          /\ table'[h][i].name = table[h][i].name
      BY <1>2, <3>3, UnmarkedFits
    <3>5. \A g \in Hosts, j \in Slots :
            /\ table'[g][j].used = table[g][j].used /\ table'[g][j].pid = table[g][j].pid
            /\ table'[g][j].name = table[g][j].name
      BY <3>4
    <3> HIDE DEF Goal
    <3> QED
      BY <1>5, <3>3, <3>4, <3>5
  <2>2. CASE ~(mine # {} /\ table[h][Lowest(mine)].dead)
    <3>1. table' = table /\ up' = up
      BY <1>9, <2>2 DEF OpDetectProc
    <3> HIDE DEF Goal
    <3> QED
      BY <1>4, <3>1
  <2> QED
    BY <2>1, <2>2
<1>10. ASSUME NEW h \in Hosts, NEW q \in Pids, sigchldHandler(h, q) PROVE Goal
  <2> DEFINE mine == {i \in Used(h) : table[h][i].pid = q}
  <2>1. up' = up /\ (table' = table \/ (mine # {} /\ table' = Marked(table, h, Lowest(mine))))
    BY <1>10 DEF sigchldHandler, Marked
  <2>2. CASE table' = table
    <3> HIDE DEF Goal
    <3> QED
      BY <1>4, <2>1, <2>2
  <2>3. CASE mine # {} /\ table' = Marked(table, h, Lowest(mine))
    <3>1. mine \in SUBSET Slots
      BY DEF Used
    <3>2. PICK i \in Slots : i = Lowest(mine)
      <4> HIDE DEF mine
      <4> QED
        BY <2>3, <3>1, LowestIn
    <3>3. /\ table' \in Tables /\ \A g \in Hosts, j \in Slots : ~(g = h /\ j = i) => table'[g][j] = table[g][j]
          /\ table'[h][i].used = table[h][i].used /\ table'[h][i].pid = table[h][i].pid
          /\ table'[h][i].name = table[h][i].name
      <4>1. table' = Marked(table, h, i)
        BY <2>3, <3>2
      <4> HIDE DEF mine
      <4> QED
        BY <1>2, <4>1, MarkedFits
    <3>4. \A g \in Hosts, j \in Slots :
            /\ table'[g][j].used = table[g][j].used /\ table'[g][j].pid = table[g][j].pid
            /\ table'[g][j].name = table[g][j].name
      BY <3>3
    <3> HIDE DEF Goal
    <3> QED
      BY <1>5, <2>1, <3>3, <3>4
  <2> QED
    BY <2>1, <2>2, <2>3
<1>11. ASSUME NEW h \in Hosts, EnterPid(h) PROVE Goal
  <2>1. starting[h] # Nil /\ up' = up
    BY <1>11 DEF EnterPid
  <2>2. PICK i \in Slots, q \in Nat, n \in Names :
          /\ i = starting[h].slot /\ q = starting[h].pid /\ n = call["left"].name
          /\ CutShort(n) /\ table[h][i].name = n
    BY <2>1, TermStarting
  <2>3. table' = Entered(table, h, i, q)
    BY <1>11, <2>2 DEF EnterPid, Entered
  <2>4. /\ table' \in Tables /\ \A g \in Hosts, j \in Slots : ~(g = h /\ j = i) => table'[g][j] = table[g][j]
        /\ table'[h][i].name = n
    BY <1>2, <2>2, <2>3, EnteredFits
  <2>5. ASSUME NEW p \in Pids, ~CutShort(child[p].name) PROVE SameEntries(child[p].host, child[p].name)
    <3>1. child[p].name # n
      BY <2>2, <2>5
    <3>2. CASE child[p].host = h
      BY <2>2, <2>4, <3>1, <3>2, SameButOne
    <3>3. CASE child[p].host # h
      BY <1>3, <2>4, <3>3 DEF SameEntries
    <3> QED
      BY <3>2, <3>3
  <2> QED
    BY <1>2, <2>1, <2>4, <2>5
<1>12. ASSUME NEW h \in Hosts, HostCrash(h) PROVE Goal
  BY <1>2, <1>12 DEF HostCrash, SameEntries
<1>13. ASSUME NEW h \in Hosts, NEW c \in Callers, OpVerify(h, c) \/ OpExecRefused(h, c) PROVE Goal
  <2>1. table' = table /\ up' = up
    BY <1>13 DEF OpVerify, OpExecRefused
  <2> HIDE DEF Goal
  <2> QED
    BY <1>4, <2>1
<1>14. (\E h \in Hosts : Fork(h)) \/ (\E c \in Callers : CallFails(c))
         \/ (\E p \in Pids, s \in Outcomes \cup {"KILLED"} : Ends(p, s)) => table' = table /\ up' = up
  BY DEF Fork, CallFails, Ends
<1> HIDE DEF Goal
<1> QED
  BY <1>4, <1>6, <1>7, <1>8, <1>9, <1>10, <1>11, <1>12, <1>13, <1>14
     DEF CidStep, CidServes, CidStarts, Death, HostLost, Fail, Program

\* A fork adds the program that DAC has left.
LEMMA TermForks ==
  ASSUME TermInv, NEW h \in Hosts, Fork(h)
  PROVE  \E a \in Names :
           /\ LeftStarts /\ a = call["left"].name /\ CutShort(a) /\ h = HostOf[a] /\ up[h]
           /\ child' \in Seq(Child) /\ Pids' = Pids \cup {Len(child) + 1} /\ Len(child) + 1 \notin Pids
           /\ child'[Len(child) + 1] = [name |-> a, host |-> h, at |-> "new", status |-> Nil]
           /\ \A p \in Pids : child'[p] = child[p]
           /\ starting[h] # Nil /\ starting' = [starting EXCEPT ![h].pid = Len(child) + 1]
           /\ Len(child) + 1 \in Nat \ {0}
           /\ a \in Procs => PidsOf(a) = {}
           /\ UNCHANGED <<up, table, call>>
<1>1. starting[h] # Nil /\ starting[h].pid = 0 /\ UNCHANGED <<up, table, call>>
  BY DEF Fork
<1>2. PICK a \in Names : /\ a = call["left"].name /\ LeftStarts /\ h = HostOf[a] /\ up[h] /\ CutShort(a)
                         /\ table[h][starting[h].slot].name = a /\ h = call["left"].host
  BY <1>1, TermStarting
<1> DEFINE new == [name |-> a, host |-> h, at |-> "new", status |-> Nil]
<1>3. child' = Append(child, new)
  BY <1>2 DEF Fork
<1>4. /\ child \in Seq(Child) /\ Len(child) \in Nat /\ Pids \subseteq Nat \ {0}
      /\ Len(child) + 1 \notin Pids /\ Pids = 1 .. Len(child)
  BY ChildTypes DEF TermInv, Pids
<1>5. new \in Child
  BY DEF Child, Alive
<1>6. child' \in Seq(Child) /\ Len(child') = Len(child) + 1 /\ child'[Len(child) + 1] = new
        /\ \A p \in 1 .. Len(child) : child'[p] = child[p]
  <2> HIDE DEF new
  <2> QED
    BY <1>3, <1>4, <1>5, AppendProperties
<1>7. Pids' = Pids \cup {Len(child) + 1}
  <2>1. Pids' = 1 .. Len(child')
    BY DEF Pids
  <2> QED
    BY <1>4, <1>6, <2>1
<1>8. starting' = [starting EXCEPT ![h].pid = Len(child) + 1]
  BY <1>6 DEF Fork
<1>9. a \in Procs => PidsOf(a) = {}
  BY <1>1, <1>2 DEF TermInv, TermStartsFit, LeftFits
<1> WITNESS a \in Names
<1> QED
  BY <1>1, <1>2, <1>4, <1>6, <1>7, <1>8, <1>9

\* Whatever happens, every program goes on.
LEMMA TermGoesOn ==
  ASSUME TermInv, TermStep
  PROVE  /\ child' \in Seq(Child) /\ Pids \subseteq Pids' /\ \A p \in Pids : GoesOn(p)
         /\ (\A h \in Hosts : ~Fork(h)) => Pids' = Pids
<1> DEFINE Goal == /\ child' \in Seq(Child) /\ Pids \subseteq Pids' /\ \A p \in Pids : GoesOn(p)
                   /\ (\A h \in Hosts : ~Fork(h)) => Pids' = Pids
<1> SUFFICES Goal
  OBVIOUS
<1>1. AppTypeOK
  BY DEF TermInv
<1>2. CASE CidStep /\ \A h \in Hosts : ~Fork(h)
  BY <1>1, <1>2, HostsGoOn
<1>3. ASSUME NEW h \in Hosts, Fork(h) PROVE Goal
  <2>1. /\ child' \in Seq(Child) /\ Pids' = Pids \cup {Len(child) + 1}
        /\ \A p \in Pids : child'[p] = child[p]
    BY <1>3, TermForks
  <2> QED
    BY <1>3, <2>1 DEF GoesOn, Course
<1>4. CASE KillHandler
  BY <1>1, <1>4, ExitsGoOn
<1>5. ASSUME NEW p \in Pids, Alone(p) PROVE Goal
  <2>1. child[p].at = "new" /\ child' = [child EXCEPT ![p].at = "up"]
    BY <1>5 DEF Alone, GoesOnAlone
  <2>2. child[p] \in Child /\ DOMAIN child = Pids /\ child[p].status \in Statuses \cup {Nil}
    BY <1>1, ChildTypes
  <2>3. [child[p] EXCEPT !.at = "up"] = [child[p] EXCEPT !.at = "up", !.status = child[p].status]
    <3>1. [child[p] EXCEPT !.at = "up"] =
            [name |-> child[p].name, host |-> child[p].host, at |-> "up", status |-> child[p].status]
      BY <2>2 DEF Child
    <3> QED
      BY <2>2, <3>1, ChildFields
  <2>4. child' = [child EXCEPT ![p].at = "up", ![p].status = child[p].status]
    BY <2>1, <2>2, <2>3
  <2>5. /\ child' \in Seq(Child) /\ Pids' = Pids
        /\ child'[p] = [name |-> child[p].name, host |-> child[p].host, at |-> "up", status |-> child[p].status]
        /\ \A q \in Pids : q # p => child'[q] = child[q]
    <3>1. "up" \in {"up", "zombie", "gone"}
      OBVIOUS
    <3>2. child[p].status \in Statuses \cup {Nil}
      BY <2>2
    <3> HIDE DEF Goal
    <3> QED
      BY <1>1, <2>4, <3>1, <3>2, OneGoesOn, Zenon
  <2>6. ASSUME NEW q \in Pids PROVE GoesOn(q)
    <3>1. CASE q = p
      BY <2>1, <2>5, <3>1 DEF GoesOn, Course
    <3>2. CASE q # p
      BY <2>5, <3>2 DEF GoesOn, Course
    <3> QED
      BY <3>1, <3>2
  <2> QED
    BY <2>5, <2>6
<1>6. CASE child' = child
  BY <1>1, <1>6, ChildTypes DEF GoesOn, Course, Pids
<1> HIDE DEF Goal
<1> QED
  BY <1>2, <1>3, <1>4, <1>5, <1>6, TermFrame DEF Goal

\* The programs of a name.
LEMMA TermPids ==
  ASSUME TermInv, TermStep
  PROVE  /\ \A n : PidsOf(n) \subseteq (PidsOf(n))'
         /\ (\A h \in Hosts : ~Fork(h)) => \A n : (PidsOf(n))' = PidsOf(n)
BY TermGoesOn DEF PidsOf, GoesOn

\* All but the CIDs leave the call of "left" alone, and all but DAC and the CIDs that of DAC.
LEMMA TermCallsStay ==
  ASSUME TermInv, TermStep, ~CidStep
  PROVE  /\ DOMAIN call' = Callers /\ \A c \in Callers \ {"dac", "fdd", "user"} : call'[c] = call[c]
         /\ ~TermDac => call'["dac"] = call["dac"]
         /\ TermDac => \A c \in Callers : c # "dac" => call'[c] = call[c]
<1>1. DOMAIN call = Callers
  BY TermTypes DEF TermInv
<1>2. CASE NewsStep \/ (\E p \in Pids : Alone(p)) \/ UNCHANGED appVars
  <2>1. call' = call
    BY <1>2, NewsFrame DEF Alone, GoesOnAlone, appVars, cidVars
  <2> QED
    BY <1>1, <2>1
<1>3. CASE AsideStep
  <2>1. call' = call \/ \E a : Reply("fdd", a) \/ Reply("user", a)
    BY <1>3 DEF AsideStep, InitFails, Ping, Pinged, Tfddretrievetuple, StopFdd, kill_app, cidVars
  <2>2. ~TermDac \/ call' = call \/ call' # call
    OBVIOUS
  <2>3. DOMAIN call' = Callers /\ \A c \in Callers \ {"fdd", "user"} : call'[c] = call[c]
    BY <1>1, <2>1 DEF Reply
  <2>4. TermDac => \A c \in Callers : c # "dac" => call'[c] = call[c]
    <3>1. TermDac => call' = call \/ \E a : Reply("dac", a)
      BY DEF TermDac, KillNext, Asks, Killed, Hangup, ProcessesKilled, KillHandler, End, cidVars
    <3> QED
      BY <1>1, <3>1 DEF Reply
  <2> QED
    BY <2>3, <2>4, ControllerAssumption
<1>4. CASE TermDac
  <2>1. call' = call \/ \E a : Reply("dac", a)
    BY <1>4 DEF TermDac, KillNext, Asks, Killed, Hangup, ProcessesKilled, KillHandler, End, cidVars
  <2> QED
    BY <1>1, <1>4, <2>1 DEF Reply
<1> QED
  BY <1>1, <1>2, <1>3, <1>4 DEF TermStep

\* An EXEC under way of which nothing changes.
LEMMA TermStartStays ==
  ASSUME TermInv, TermStep, NEW g \in Hosts, starting'[g] = starting[g],
         starting[g] # Nil => /\ up'[g] /\ call'["left"] = call["left"]
                              /\ table'[g][starting[g].slot].used
                              /\ table'[g][starting[g].slot].name = table[g][starting[g].slot].name
  PROVE  (TermStarts(g))'
<1>1. CASE starting[g] = Nil
  BY <1>1 DEF TermStarts
<1>2. CASE starting[g] # Nil
  <2>1. /\ starting[g] \in [by : {"left"}, slot : Slots, pid : Nat] /\ LeftStarts
        /\ g = call["left"].host /\ table[g][starting[g].slot].name = call["left"].name
        /\ starting[g].pid # 0 => starting[g].pid \in PidsOf(call["left"].name)
    BY <1>2, TermStarting
  <2>2. PICK n : n = call["left"].name
    OBVIOUS
  <2>3. PidsOf(n) \subseteq (PidsOf(n))'
    BY TermPids
  <2>4. (LeftStarts)' /\ call'["left"].name = n /\ call'["left"].host = g
    BY <1>2, <2>1, <2>2 DEF LeftStarts, Pending
  <2>5. starting[g].pid # 0 => starting[g].pid \in (PidsOf(n))'
    BY <2>1, <2>2, <2>3
  <2> QED
    BY <1>2, <2>1, <2>2, <2>4, <2>5 DEF TermStarts
<1> QED
  BY <1>1, <1>2

\* What DAC has left goes on or comes to an end.
LEMMA TermStartsKept ==
  ASSUME TermInv, TermStep
  PROVE  TermStartsFit'
<1> DEFINE Stays(g) == /\ starting'[g] = starting[g]
                       /\ starting[g] # Nil => /\ up'[g] /\ call'["left"] = call["left"]
                                               /\ table'[g][starting[g].slot].used
                                               /\ table'[g][starting[g].slot].name = table[g][starting[g].slot].name
<1>0. DOMAIN starting = Hosts /\ "left" \in Callers /\ DOMAIN call = Callers
  BY TermStarting, TermTypes, ControllerAssumption DEF TermInv
<1>a. (LeftStarts)' => LeftStarts /\ call'["left"] = call["left"]
  <2>1. CASE CidStep
    <3>1. call'["left"] = call["left"] \/ ~(Pending("left"))'
      BY <1>0, <2>1, TermAnswers
    <3> QED
      BY <3>1 DEF LeftStarts, Pending
  <2>2. CASE ~CidStep
    <3>1. call'["left"] = call["left"]
      BY <1>0, <2>2, TermCallsStay
    <3> QED
      BY <3>1 DEF LeftStarts, Pending
  <2> QED
    BY <2>1, <2>2
<1>b. LeftStarts => call["left"].host \in Hosts /\ call["left"].name \in Names
  BY <1>0, TermCallers DEF LeftStarts, TermInv, AppTypeOK
<1>1. ASSUME DOMAIN starting' = Hosts, \A g \in Hosts : Stays(g), \A h \in Hosts : ~Fork(h)
      PROVE  TermStartsFit'
  <2>1. ASSUME NEW g \in Hosts PROVE (TermStarts(g))'
    <3>1. Stays(g)
      BY <1>1
    <3>2. /\ starting'[g] = starting[g]
          /\ starting[g] # Nil => /\ up'[g] /\ call'["left"] = call["left"]
                                  /\ table'[g][starting[g].slot].used
                                  /\ table'[g][starting[g].slot].name = table[g][starting[g].slot].name
      BY <3>1
    <3> HIDE DEF Stays
    <3> QED
      BY <3>2, TermStartStays
  <2>2. LeftFits'
    <3> SUFFICES ASSUME (LeftStarts)', call'["left"].name \in Procs, (PidsOf(call["left"].name))' # {}
                 PROVE  starting'[call'["left"].host] # Nil /\ starting'[call'["left"].host].pid # 0
      BY DEF LeftFits
    <3>1. LeftStarts /\ call'["left"] = call["left"]
      BY <1>a
    <3>2. PICK n : n = call["left"].name
      OBVIOUS
    <3>3. (PidsOf(n))' = PidsOf(n)
      BY <1>1, TermPids
    <3>4. (PidsOf(n))' # {}
      BY <3>1, <3>2 DEF PidsOf
    <3>5. starting[call["left"].host] # Nil /\ starting[call["left"].host].pid # 0
      BY <3>1, <3>2, <3>3, <3>4 DEF TermInv, TermStartsFit, LeftFits
    <3> QED
      BY <1>1, <1>b, <3>1, <3>5
  <2> QED
    BY <1>1, <2>1, <2>2 DEF TermStartsFit
<1>2. ASSUME UNCHANGED <<up, table, starting>>, call'["left"] = call["left"], \A h \in Hosts : ~Fork(h)
      PROVE  TermStartsFit'
  <2>1. \A g \in Hosts : Stays(g)
    BY <1>2, TermStarting
  <2> HIDE DEF Stays
  <2> QED
    BY <1>0, <1>1, <1>2, <2>1
<1>3. CASE ~CidStep
  <2>1. UNCHANGED <<up, table, starting>> /\ call'["left"] = call["left"]
    BY <1>0, <1>3, TermFrame, TermCallsStay
  <2>2. \A h \in Hosts : ~Fork(h)
    <3>1. ASSUME NEW h \in Hosts, Fork(h) PROVE FALSE
      <4>1. PICK a \in Names : starting[h] # Nil /\ starting' = [starting EXCEPT ![h].pid = Len(child) + 1]
                               /\ Len(child) + 1 \in Nat \ {0} /\ starting[h].pid = 0
        BY <3>1, TermForks DEF Fork
      <4>2. starting[h] \in [by : {"left"}, slot : Slots, pid : Nat]
        BY <4>1, TermStarting
      <4>3. starting'[h].pid = Len(child) + 1
        BY <1>0, <4>1, <4>2
      <4> QED
        BY <2>1, <4>1, <4>3
    <3> QED
      BY <3>1
  <2> HIDE DEF Stays
  <2> QED
    BY <1>2, <2>1, <2>2
<1>4. ASSUME NEW h \in Hosts, NEW c \in Callers,
             OpVerify(h, c) \/ OpExecRefused(h, c) \/ OpKill(h, c) \/ OpKillApp(h, c) \/ OpDetectProc(h, c)
      PROVE  TermStartsFit'
  <2>1. /\ starting[h] = Nil /\ starting' = starting /\ up' = up /\ Pending(c) /\ call[c].host = h
        /\ call[c].op = "EXEC" => OpExecRefused(h, c)
        /\ \E a : Reply(c, a)
    BY <1>4 DEF OpVerify, OpExecRefused, OpKill, OpKillApp, OpDetectProc, Accepts
  <2>2. \A x \in Callers : x # c => call'[x] = call[x]
    BY <1>0, <2>1 DEF Reply
  <2>3. ASSUME NEW g \in Hosts, starting[g] # Nil
        PROVE  call'["left"] = call["left"] /\ table'[g] = table[g]
    <3>1. g # h /\ g = call["left"].host
      BY <2>1, <2>3, TermStarting
    <3>2. c # "left"
      BY <2>1, <3>1
    <3>3. table'[g] = table[g]
      <4>1. table \in Tables
        BY TermTypes DEF TermInv
      <4> QED
        BY <1>4, <3>1, <4>1 DEF OpVerify, OpExecRefused, OpKill, OpKillApp, OpDetectProc, Tables
    <3> QED
      BY <1>0, <2>2, <3>2, <3>3
  <2>4. \A g \in Hosts : Stays(g)
    BY <2>1, <2>3, TermStarting
  <2>5. \A g \in Hosts : ~Fork(g)
    <3>1. child' = child \/ \E S : child' = Signalled(S)
      BY <1>4 DEF OpVerify, OpExecRefused, OpKill, OpKillApp, OpDetectProc
    <3>2. Pids' = Pids
      BY <3>1, SignalsGoOn DEF Pids, TermInv
    <3> QED
      BY <3>2, TermForks
  <2> HIDE DEF Stays
  <2> QED
    BY <1>0, <1>1, <2>1, <2>4, <2>5
<1>5. ASSUME NEW h \in Hosts, NEW c \in Callers, FillSlot(h, c) PROVE TermStartsFit'
  <2>1. /\ Pending(c) /\ call[c].op = "EXEC" /\ call[c].host = h /\ Free(h) # {} /\ up' = up /\ up[h]
        /\ starting[h] = Nil /\ UNCHANGED <<child, call>>
    BY <1>5 DEF FillSlot, Accepts
  <2>2. c = "left" /\ LeftStarts
    BY <2>1, TermStarting
  <2>3. PICK n \in Names : n = call["left"].name
    BY <2>2, <1>b
  <2>4. PICK i \in Slots : i = getSlot(h)
    BY <2>1, LowestIn DEF getSlot, Free
  <2>5. /\ starting' = [starting EXCEPT ![h] = [by |-> "left", slot |-> i, pid |-> 0]]
        /\ table' = [table EXCEPT ![h][i].used = TRUE, ![h][i].name = n, ![h][i].port = n \in Procs]
    BY <1>5, <2>2, <2>3, <2>4 DEF FillSlot
  <2>6. table'[h][i].used /\ table'[h][i].name = n
    <3> DEFINE T1 == Taken(table, h, i)
               T2 == Named(T1, h, i, n)
               T3 == Ported(T2, h, i, n)
    <3>1. table' = T3
      BY <2>5 DEF Taken, Named, Ported
    <3>2. table \in Tables
      BY TermTypes DEF TermInv
    <3>3. T1 \in Tables /\ T1[h][i].used
      BY <3>2, TakenFits
    <3> HIDE DEF T1
    <3>4. T2 \in Tables /\ T2[h][i].name = n /\ T2[h][i].used
      BY <3>3, NamedFits
    <3> HIDE DEF T2
    <3>5. T3[h][i].name = n /\ T3[h][i].used
      BY <3>4, PortedFits
    <3> QED
      BY <3>1, <3>5
  <2>7. starting'[h] = [by |-> "left", slot |-> i, pid |-> 0] /\ DOMAIN starting' = Hosts
          /\ \A g \in Hosts : g # h => starting'[g] = Nil
    <3>1. \A g \in Hosts : starting[g] = Nil
      BY <2>1, <2>2, TermStarting
    <3> QED
      BY <1>0, <2>5, <3>1
  <2>8. (LeftStarts)' /\ call'["left"] = call["left"]
    BY <2>1, <2>2 DEF LeftStarts, Pending
  <2>9. ASSUME NEW g \in Hosts PROVE (TermStarts(g))'
    BY <2>1, <2>2, <2>3, <2>6, <2>7, <2>8 DEF TermStarts
  <2>10. LeftFits'
    <3>1. n \in Procs => PidsOf(n) = {}
      BY <2>1, <2>2, <2>3 DEF TermInv, TermStartsFit, LeftFits
    <3>2. (PidsOf(n))' = PidsOf(n)
      BY <2>1 DEF PidsOf, Pids
    <3>3. n \in Procs => (PidsOf(call["left"].name))' = {}
      BY <2>3, <2>8, <3>1, <3>2 DEF PidsOf
    <3> QED
      BY <2>3, <2>8, <3>3 DEF LeftFits
  <2> QED
    BY <2>7, <2>9, <2>10 DEF TermStartsFit
<1>6. ASSUME NEW h \in Hosts, Fork(h) PROVE TermStartsFit'
  <2>1. PICK a \in Names :
           /\ LeftStarts /\ a = call["left"].name
           /\ Pids' = Pids \cup {Len(child) + 1}
           /\ child'[Len(child) + 1] = [name |-> a, host |-> h, at |-> "new", status |-> Nil]
           /\ starting[h] # Nil /\ starting' = [starting EXCEPT ![h].pid = Len(child) + 1]
           /\ Len(child) + 1 \in Nat \ {0} /\ UNCHANGED <<up, table, call>>
    BY <1>6, TermForks
  <2>2. PICK new \in Nat \ {0} : new = Len(child) + 1
    BY <2>1
  <2>3. /\ starting[h] \in [by : {"left"}, slot : Slots, pid : Nat] /\ up[h] /\ h = call["left"].host
        /\ table[h][starting[h].slot].used /\ table[h][starting[h].slot].name = a
        /\ \A g \in Hosts : g # h => starting[g] = Nil
    BY <2>1, TermStarting
  <2>4. starting'[h] = [starting[h] EXCEPT !.pid = new] /\ DOMAIN starting' = Hosts
          /\ \A g \in Hosts : g # h => starting'[g] = Nil
    BY <1>0, <2>1, <2>2, <2>3
  <2>5. starting'[h] \in [by : {"left"}, slot : Slots, pid : Nat]
          /\ starting'[h].slot = starting[h].slot /\ starting'[h].pid = new
    BY <2>3, <2>4
  <2>6. new \in (PidsOf(a))'
    BY <2>1, <2>2 DEF PidsOf
  <2>7. (LeftStarts)' /\ call'["left"] = call["left"]
    BY <2>1 DEF LeftStarts, Pending
  <2>8. starting'[h] # Nil
    <3>1. [by : {"left"}, slot : Slots, pid : Nat] \subseteq [by : Callers, slot : Slots, pid : Nat]
      BY <1>0
    <3> QED
      BY <2>5, <3>1, TableAssumption
  <2>9. (TermStarts(h))'
    <3>1. (PidsOf(call["left"].name))' = (PidsOf(a))'
      BY <2>1, <2>7 DEF PidsOf
    <3> QED
      BY <2>1, <2>3, <2>5, <2>6, <2>7, <3>1 DEF TermStarts
  <2>10. ASSUME NEW g \in Hosts PROVE (TermStarts(g))'
    BY <2>4, <2>9 DEF TermStarts
  <2>11. LeftFits'
    BY <2>3, <2>5, <2>7, <2>8 DEF LeftFits
  <2> QED
    BY <2>4, <2>10, <2>11 DEF TermStartsFit
<1>7. ASSUME NEW h \in Hosts, EnterPid(h) PROVE TermStartsFit'
  <2>1. /\ starting[h] # Nil /\ Reply(starting[h].by, Answer(TRUE, starting[h].pid))
        /\ starting' = [starting EXCEPT ![h] = Nil]
    BY <1>7 DEF EnterPid
  <2>2. starting[h].by = "left" /\ \A g \in Hosts : g # h => starting[g] = Nil
    BY <2>1, TermStarting
  <2>3. ~(LeftStarts)'
    <3>1. call'["left"] = Answer(TRUE, starting[h].pid)
      BY <1>0, <2>1, <2>2 DEF Reply
    <3> QED
      BY <3>1 DEF LeftStarts, Pending, Answer
  <2>4. DOMAIN starting' = Hosts /\ \A g \in Hosts : starting'[g] = Nil
    BY <1>0, <2>1, <2>2
  <2> QED
    BY <2>3, <2>4 DEF TermStartsFit, TermStarts, LeftFits
<1>8. ASSUME NEW h \in Hosts, NEW p \in Pids, sigchldHandler(h, p) PROVE TermStartsFit'
  <2>1. UNCHANGED <<up, starting, call>>
    BY <1>8 DEF sigchldHandler
  <2> DEFINE mine == {i \in Used(h) : table[h][i].pid = p}
  <2>2. \A g \in Hosts, j \in Slots : table'[g][j].used = table[g][j].used /\ table'[g][j].name = table[g][j].name
    <3>1. table' = table \/ (mine # {} /\ table' = Marked(table, h, Lowest(mine)))
      BY <1>8 DEF sigchldHandler, Marked
    <3>2. CASE mine # {} /\ table' = Marked(table, h, Lowest(mine))
      <4>1. mine \in SUBSET Slots
        BY DEF Used
      <4>2. PICK i \in Slots : i = Lowest(mine)
        <5> HIDE DEF mine
        <5> QED
          BY <3>2, <4>1, LowestIn
      <4>3. table' = Marked(table, h, i)
        BY <3>2, <4>2
      <4>4. table \in Tables
        BY TermTypes DEF TermInv
      <4> HIDE DEF mine
      <4>5. \A g \in Hosts, j \in Slots : ~(g = h /\ j = i) => table'[g][j] = table[g][j]
        BY <4>3, <4>4, MarkedFits
      <4>6. table'[h][i].used = table[h][i].used /\ table'[h][i].name = table[h][i].name
        BY <4>3, <4>4, MarkedFits
      <4> QED
        BY <4>5, <4>6
    <3> QED
      BY <3>1, <3>2
  <2>3. \A g \in Hosts : Stays(g)
    BY <2>1, <2>2, TermStarting
  <2>4. \A g \in Hosts : ~Fork(g)
    <3>1. child' = [child EXCEPT ![p].at = "gone"] /\ child \in Seq(Child)
      BY <1>8 DEF sigchldHandler, TermInv, AppTypeOK, CidTypeOK
    <3>2. Pids' = Pids
      BY <3>1, ExceptSeq DEF Pids
    <3> QED
      BY <3>2, TermForks
  <2> HIDE DEF Stays
  <2> QED
    BY <1>0, <1>1, <2>1, <2>3, <2>4
<1>9. ASSUME NEW h \in Hosts, HostCrash(h) PROVE TermStartsFit'
  <2>1. /\ up' = [up EXCEPT ![h] = FALSE] /\ starting' = [starting EXCEPT ![h] = Nil] /\ table' = table
        /\ call' = [c \in Callers |-> IF Pending(c) /\ call[c].host = h THEN NoAnswer ELSE call[c]]
    BY <1>9 DEF HostCrash
  <2>2. \A g \in Hosts : ~Fork(g)
    BY <1>9, CrashGoOn, TermForks DEF TermInv
  <2>3. up \in [Hosts -> BOOLEAN]
    BY TermTypes DEF TermInv
  <2>4. ASSUME NEW g \in Hosts, g # h PROVE (TermStarts(g))'
    <3>1. starting'[g] = starting[g]
      BY <1>0, <2>1, <2>4
    <3>2. starting[g] # Nil => call["left"].host # h /\ call'["left"] = call["left"] /\ up'[g]
      BY <1>0, <2>1, <2>3, <2>4, TermStarting
    <3> QED
      BY <2>1, <3>1, <3>2, TermStartStays, TermStarting
  <2>5. (TermStarts(h))'
    BY <1>0, <2>1 DEF TermStarts
  <2>6. LeftFits'
    <3> SUFFICES ASSUME (LeftStarts)', call'["left"].name \in Procs, (PidsOf(call["left"].name))' # {}
                 PROVE  starting'[call'["left"].host] # Nil /\ starting'[call'["left"].host].pid # 0
      BY DEF LeftFits
    <3>1. LeftStarts /\ call'["left"] = call["left"]
      BY <1>a
    <3>2. call["left"].host # h
      BY <1>0, <2>1, <3>1 DEF LeftStarts, Pending, NoAnswer
    <3>3. PICK n : n = call["left"].name
      OBVIOUS
    <3>4. (PidsOf(n))' = PidsOf(n)
      BY <2>2, TermPids
    <3>5. (PidsOf(n))' # {}
      BY <3>1, <3>3 DEF PidsOf
    <3>6. starting[call["left"].host] # Nil /\ starting[call["left"].host].pid # 0
      BY <3>1, <3>3, <3>4, <3>5 DEF TermInv, TermStartsFit, LeftFits
    <3> QED
      BY <1>0, <1>b, <2>1, <3>1, <3>2, <3>6
  <2> QED
    BY <1>0, <2>1, <2>4, <2>5, <2>6 DEF TermStartsFit
<1>10. ASSUME NEW c \in Callers, CallFails(c) PROVE TermStartsFit'
  <2>1. Pending(c) /\ ~up[call[c].host] /\ Reply(c, NoAnswer) /\ UNCHANGED <<up, table, starting, child>>
    BY <1>10 DEF CallFails
  <2>2. \A g \in Hosts : starting[g] # Nil => c # "left"
    BY <2>1, TermStarting
  <2>3. \A g \in Hosts : starting[g] # Nil => call'["left"] = call["left"]
    BY <1>0, <2>1, <2>2 DEF Reply
  <2>4. \A g \in Hosts : Stays(g)
    BY <2>1, <2>3, TermStarting
  <2>5. \A g \in Hosts : ~Fork(g)
    BY <2>1, TermForks DEF Pids
  <2> HIDE DEF Stays
  <2> QED
    BY <1>0, <1>1, <2>1, <2>4, <2>5
<1>11. ASSUME NEW p \in Pids, NEW s, Ends(p, s) PROVE TermStartsFit'
  <2>1. UNCHANGED <<up, table, starting, call>> /\ child' = [child EXCEPT ![p].at = "zombie", ![p].status = s]
          /\ child \in Seq(Child)
    BY <1>11 DEF Ends, TermInv, AppTypeOK, CidTypeOK
  <2>2. \A g \in Hosts : ~Fork(g)
    <3>1. starting' = starting
      BY <2>1
    <3>2. ASSUME NEW g \in Hosts, Fork(g) PROVE FALSE
      <4>1. starting[g] # Nil /\ starting' = [starting EXCEPT ![g].pid = Len(child) + 1]
             /\ Len(child) + 1 \in Nat \ {0} /\ starting[g].pid = 0
        BY <3>2, TermForks DEF Fork
      <4>2. starting[g] \in [by : {"left"}, slot : Slots, pid : Nat]
        BY <4>1, TermStarting
      <4>3. starting'[g].pid = Len(child) + 1
        BY <1>0, <4>1, <4>2
      <4> QED
        BY <3>1, <4>1, <4>3
    <3> QED
      BY <3>2
  <2> HIDE DEF Stays
  <2> QED
    BY <1>2, <2>1, <2>2
<1> HIDE DEF Stays
<1> QED
  BY <1>3, <1>4, <1>5, <1>6, <1>7, <1>8, <1>9, <1>10, <1>11
     DEF CidStep, CidServes, CidStarts, Death, HostLost, Fail, Program

\* Where DAC goes while it ends.
LEMMA TermMoves ==
  ASSUME TermInv, TermDac
  PROVE  /\ KillNext => /\ dac.at = "killAll" /\ Running # {} /\ FirstOf(Running) \in Procs /\ UNCHANGED listening
                        /\ dac' = dac \/ dac' = At("killCid", FirstOf(Running), "SIGTERM")
         /\ Killed => dac.at = "killCid" /\ Answered /\ dac' = At("killAll", Nil, "SIGTERM") /\ UNCHANGED listening
         /\ ProcessesKilled => /\ dac.at = "killAll" /\ Running = {} /\ dac' = At("killHandlers", 1, "SIGTERM")
                               /\ UNCHANGED listening
         /\ KillHandler => /\ dac.at = "killHandlers" /\ dac' = At("killHandlers", dac.on + 1, "SIGTERM")
                           /\ UNCHANGED listening
         /\ End => dac.at = "killHandlers" /\ dac' = At("over", Nil, "SIGTERM") /\ listening' = FALSE
<1>1. dac = At(dac.at, dac.on, "SIGTERM") /\ dac.why = "SIGTERM"
  BY TermPlaces DEF TermInv, TermShape
<1>2. KillNext => /\ dac.at = "killAll" /\ Running # {} /\ FirstOf(Running) \in Procs /\ UNCHANGED listening
                  /\ dac' = dac \/ dac' = At("killCid", FirstOf(Running), "SIGTERM")
  <2>1. Running \in SUBSET Procs
    BY DEF Running
  <2>2. Running # {} => FirstOf(Running) \in Procs
    BY <2>1, FirstIn
  <2> QED
    BY <1>1, <2>2 DEF KillNext, Asks
<1>3. Killed => dac.at = "killCid" /\ Answered /\ dac' = At("killAll", Nil, "SIGTERM") /\ UNCHANGED listening
  BY <1>1 DEF Killed
<1>4. ProcessesKilled => /\ dac.at = "killAll" /\ Running = {} /\ dac' = At("killHandlers", 1, "SIGTERM")
                         /\ UNCHANGED listening
  BY <1>1 DEF ProcessesKilled, cidVars
<1>5. KillHandler => /\ dac.at = "killHandlers" /\ dac' = At("killHandlers", dac.on + 1, "SIGTERM")
                     /\ UNCHANGED listening
  <2> SUFFICES ASSUME KillHandler
               PROVE  /\ dac.at = "killHandlers" /\ dac' = At("killHandlers", dac.on + 1, "SIGTERM")
                      /\ UNCHANGED listening
    OBVIOUS
  <2>1. dac.at = "killHandlers" /\ dac' = [dac EXCEPT !.on = @ + 1] /\ UNCHANGED listening
    BY DEF KillHandler
  <2>2. dac = [at |-> "killHandlers", on |-> dac.on, why |-> "SIGTERM"]
    BY <1>1, <2>1 DEF At
  <2>3. [dac EXCEPT !.on = @ + 1] = [at |-> "killHandlers", on |-> dac.on + 1, why |-> "SIGTERM"]
    BY <2>2
  <2> QED
    BY <2>1, <2>3 DEF At
<1>6. End => dac.at = "killHandlers" /\ dac' = At("over", Nil, "SIGTERM") /\ listening' = FALSE
  BY <1>1 DEF End
<1> QED
  BY <1>2, <1>3, <1>4, <1>5, <1>6

LEMMA TermShapeKept ==
  ASSUME TermInv, TermStep
  PROVE  TermShape'
<1>1. TermShape
  BY DEF TermInv
<1>2. CASE ~TermDac
  BY <1>1, <1>2, TermFrame DEF TermShape
<1>3. CASE TermDac
  <2>1. listening \in BOOLEAN /\ (listening <=> dac.at # "over")
    BY <1>1 DEF TermShape, TermInv, AppTypeOK, CidTypeOK
  <2>2. CASE KillNext
    <3>1. CASE dac' = dac
      BY <1>1, <1>3, <2>1, <2>2, <3>1, TermMoves DEF TermShape
    <3>2. CASE dac' = At("killCid", FirstOf(Running), "SIGTERM")
      BY <1>3, <2>1, <2>2, <3>2, TermMoves DEF TermShape, At
    <3> QED
      BY <1>3, <2>2, <3>1, <3>2, TermMoves
  <2>3. CASE Killed
    BY <1>3, <2>1, <2>3, TermMoves DEF TermShape, At
  <2>4. CASE ProcessesKilled
    <3>1. \A n \in Procs : state'[n] # "RUNNING"
      BY <2>4 DEF ProcessesKilled
    <3> QED
      BY <1>3, <2>1, <2>4, <3>1, TermMoves DEF TermShape, At
  <2>5. CASE KillHandler
    <3>1. state' = state /\ dac.on \in Nat \ {0} /\ dac.at = "killHandlers"
      BY <1>3, <2>5, TermMoves, TermPlaces DEF KillHandler
    <3>2. \A n \in Procs : state'[n] # "RUNNING"
      BY <1>1, <3>1 DEF TermShape
    <3> QED
      BY <1>3, <2>1, <2>5, <3>1, <3>2, TermMoves DEF TermShape, At
  <2>6. CASE End
    <3>1. state' = state /\ dac.at = "killHandlers"
      BY <1>3, <2>6, TermMoves DEF End
    <3>2. \A n \in Procs : state'[n] # "RUNNING"
      BY <1>1, <3>1 DEF TermShape
    <3> QED
      BY <1>3, <2>6, <3>2, TermMoves DEF TermShape, At
  <2> QED
    BY <1>3, <2>2, <2>3, <2>4, <2>5, <2>6 DEF TermDac
<1> QED
  BY <1>2, <1>3

\* FDD's call is about the entry it watches.
LEMMA TermFdd ==
  ASSUME TermInv, TermStep
  PROVE  /\ FddTypeOK' /\ (Watching => Len(host_list) = Len(ProcList))'
         /\ call'["fdd"] # Nil => fdd'.at = "answer"
         /\ (Pending("fdd"))' => call'["fdd"] = (Detect(Watch.host, Watch.pid))'
<1>1. /\ FddTypeOK /\ DacTypeOK /\ (Watching => Len(host_list) = Len(ProcList))
      /\ call["fdd"] # Nil => fdd.at = "answer"
      /\ Pending("fdd") => call["fdd"] = Detect(Watch.host, Watch.pid)
      /\ "fdd" \in Callers /\ DOMAIN call = Callers
  BY TermTypes, ApplicationAssumption DEF TermInv, AppTypeOK, TermCalls
<1>2. ASSUME UNCHANGED fddVars, call'["fdd"] = call["fdd"] \/ (Pending("fdd") /\ ~(Pending("fdd"))')
      PROVE  /\ FddTypeOK' /\ (Watching => Len(host_list) = Len(ProcList))'
             /\ call'["fdd"] # Nil => fdd'.at = "answer"
             /\ (Pending("fdd"))' => call'["fdd"] = (Detect(Watch.host, Watch.pid))'
  <2>1. FddTypeOK' /\ (Watching => Len(host_list) = Len(ProcList))'
    BY <1>1, <1>2 DEF fddVars, FddTypeOK, Watching
  <2>2. Pending("fdd") => call["fdd"] # Nil
    BY DEF Pending
  <2>3. (Pending("fdd"))' => Pending("fdd") /\ call'["fdd"] = call["fdd"]
    BY <1>2 DEF Pending
  <2> QED
    BY <1>1, <1>2, <2>1, <2>2, <2>3 DEF fddVars, Watch
<1>3. CASE CidStep
  <2>1. call'["fdd"] = call["fdd"] \/ (Pending("fdd") /\ ~(Pending("fdd"))')
    BY <1>1, <1>3, TermAnswers
  <2> QED
    BY <1>2, <1>3, <2>1, CidFrame
<1>4. CASE TermDac
  <2>1. CASE CidStep
    BY <1>3, <2>1
  <2>2. CASE ~CidStep
    <3>1. call'["fdd"] = call["fdd"]
      BY <1>1, <1>4, <2>2, TermCallsStay
    <3> QED
      BY <1>2, <1>4, <3>1 DEF TermDac, Kept
  <2> QED
    BY <2>1, <2>2
<1>5. CASE (\E p \in Pids : Alone(p)) \/ UNCHANGED appVars
  <2>1. UNCHANGED fddVars /\ call' = call
    BY <1>5 DEF Alone, GoesOnAlone, Kept, appVars, cidVars
  <2> QED
    BY <1>2, <2>1
<1>6. CASE NewsStep \/ AsideStep
  <2>1. FddTypeOK'
    BY <1>1, <1>6, FddTypesGoOn DEF AppStep
  <2>2. /\ Watching => fdd.on \in DOMAIN host_list /\ Watch \in FddEntry
        /\ fdd.on \in 1 .. Len(ProcList) /\ host_list \in Seq(FddEntry)
    BY <1>1, ListFits DEF FddTypeOK, FddEntry
  <2>3. CASE SendVerify \/ SendStart \/ SendExit \/ exit_app \/ (\E n \in Procs : kill_process(n)) \/ \E h \in Hosts : kill_app(h)
    <3>1. UNCHANGED fddVars
      BY <2>3 DEF SendVerify, SendStart, SendExit, exit_app, kill_process, kill_app, Request
    <3>2. call'["fdd"] = call["fdd"]
      BY <1>1, <2>3 DEF SendVerify, SendStart, SendExit, exit_app, kill_process, kill_app, Request, Reply
    <3> QED
      BY <1>2, <3>1, <3>2
  <2>4. CASE start_fdd \/ InitFails
    <3>1. fdd.at \in {"off", "init"} /\ fdd'.at \in {"init", "over"} /\ call' = call /\ host_list' = host_list
      BY <2>4 DEF start_fdd, InitFails, FddAt, cidVars
    <3> QED
      BY <1>1, <2>1, <3>1 DEF Watching, Pending
  <2>5. CASE Ping
    <3>1. fdd.at = "ping" /\ host_list' = host_list /\ fdd'.at \in {"ping", "answer"} /\ call["fdd"] = Nil
      BY <1>1, <2>5 DEF Ping, FddAt
    <3>2. CASE Watch.fault_flag
      BY <1>1, <2>1, <2>5, <3>1, <3>2 DEF Ping, Watching, Pending
    <3>3. CASE ~Watch.fault_flag
      <4>1. fdd' = FddAt("answer", fdd.on) /\ call'["fdd"] = Detect(Watch.host, Watch.pid)
        BY <1>1, <2>5, <3>3 DEF Ping, Reply
      <4> QED
        BY <1>1, <2>1, <3>1, <4>1 DEF Watching, Watch, FddAt
    <3> QED
      BY <3>2, <3>3
  <2>6. CASE Pinged
    <3>1. call'["fdd"] = Nil /\ fdd.at = "answer"
      BY <1>1, <2>6 DEF Pinged, Reply
    <3>2. host_list' = host_list \/ host_list' = Flagged(host_list, fdd.on)
      BY <2>6 DEF Pinged, Flagged
    <3>3. Len(host_list') = Len(ProcList)
      BY <1>1, <2>2, <3>1, <3>2, FlaggedFits DEF Watching
    <3> QED
      BY <2>1, <3>1, <3>3 DEF Pending
  <2>7. CASE TellDac \/ Tfddretrievetuple
    <3>1. fdd.at \in {"tell", "retrieve"} /\ call' = call /\ host_list' = host_list
      BY <2>7 DEF TellDac, Tfddretrievetuple, cidVars
    <3> QED
      BY <1>1, <2>1, <3>1 DEF Watching, Pending
  <2>8. CASE StopFdd
    <3>1. call'["fdd"] = Nil /\ fdd'.at = "over"
      BY <1>1, <2>8 DEF StopFdd, Reply, FddAt
    <3> QED
      BY <2>1, <3>1 DEF Watching, Pending
  <2> QED
    BY <1>6, <2>3, <2>4, <2>5, <2>6, <2>7, <2>8 DEF NewsStep, AsideStep
<1> QED
  BY <1>3, <1>4, <1>5, <1>6 DEF TermStep

\* A call pending is an old one, or one that was made by this step.
LEMMA TermOldCalls ==
  ASSUME TermInv, TermStep
  PROVE  /\ \A c \in Callers \ {"dac", "left", "fdd", "user"} : call'[c] = Nil
         /\ (Pending("left"))' => Pending("left") /\ call'["left"] = call["left"]
         /\ (Pending("user"))' => \/ Pending("user") /\ call'["user"] = call["user"]
                                  \/ \E h \in Hosts : call'["user"] = KillApp(h)
         /\ ~TermDac => \/ call'["dac"] = call["dac"] \/ (Pending("dac") /\ ~(Pending("dac"))')
<1>1. /\ {"dac", "left", "fdd", "user"} \subseteq Callers /\ DOMAIN call = Callers
      /\ \A c \in Callers \ {"dac", "left", "fdd", "user"} : call[c] = Nil
  BY TermTypes, ControllerAssumption, ApplicationAssumption DEF TermInv, TermCalls
<1>2. CASE CidStep
  <2>1. \A c \in Callers : call'[c] = call[c] \/ (Pending(c) /\ ~(Pending(c))')
    BY <1>2, TermAnswers
  <2>2. \A c \in Callers \ {"dac", "left", "fdd", "user"} : call'[c] = Nil
    BY <1>1, <2>1 DEF Pending
  <2>3. (Pending("left"))' => Pending("left") /\ call'["left"] = call["left"]
    BY <1>1, <2>1 DEF Pending
  <2>4. (Pending("user"))' => Pending("user") /\ call'["user"] = call["user"]
    BY <1>1, <2>1 DEF Pending
  <2> QED
    BY <1>1, <2>1, <2>2, <2>3, <2>4
<1>3. CASE ~CidStep
  <2>1. /\ \A c \in Callers \ {"dac", "fdd", "user"} : call'[c] = call[c]
        /\ ~TermDac => call'["dac"] = call["dac"]
        /\ TermDac => \A c \in Callers : c # "dac" => call'[c] = call[c]
    BY <1>3, TermCallsStay
  <2>2. \A c \in Callers \ {"dac", "left", "fdd", "user"} : call'[c] = Nil
    BY <1>1, <2>1
  <2>3. (Pending("left"))' => Pending("left") /\ call'["left"] = call["left"]
    BY <1>1, <2>1 DEF Pending
  <2>4. call'["user"] = call["user"] \/ \E h \in Hosts : call'["user"] = KillApp(h)
    <3>1. CASE TermDac
      BY <1>1, <2>1, <3>1
    <3>2. CASE NewsStep \/ (\E p \in Pids : Alone(p)) \/ UNCHANGED appVars
      <4>1. call' = call
        BY <3>2, NewsFrame DEF Alone, GoesOnAlone, appVars, cidVars
      <4> QED
        BY <4>1
    <3>3. CASE \E h \in Hosts : kill_app(h)
      BY <1>1, <3>3 DEF kill_app, Reply
    <3>4. CASE InitFails \/ Ping \/ Pinged \/ Tfddretrievetuple \/ StopFdd
      <4>1. call' = call \/ \E a : Reply("fdd", a)
        BY <3>4 DEF InitFails, Ping, Pinged, Tfddretrievetuple, StopFdd, cidVars
      <4> QED
        BY <1>1, <4>1 DEF Reply
    <3> QED
      BY <1>3, <3>1, <3>2, <3>3, <3>4 DEF TermStep, AsideStep
  <2> QED
    BY <2>1, <2>2, <2>3, <2>4 DEF Pending
<1> QED
  BY <1>2, <1>3

\* DAC's own call is about the process it kills.
LEMMA TermDacCall ==
  ASSUME TermInv, TermStep
  PROVE  /\ dac'.at # "killCid" => call'["dac"] = Nil
         /\ (Pending("dac"))' => call'["dac"] = Kill(HostOf[dac'.on], dac'.on)
<1>1. /\ dac.at # "killCid" => call["dac"] = Nil
      /\ Pending("dac") => call["dac"] = Kill(HostOf[dac.on], dac.on)
      /\ "dac" \in Callers /\ DOMAIN call = Callers
  BY TermTypes, ControllerAssumption DEF TermInv, TermCalls
<1>2. CASE ~TermDac
  <2>1. dac' = dac /\ (call'["dac"] = call["dac"] \/ (Pending("dac") /\ ~(Pending("dac"))'))
    BY <1>2, TermFrame, TermOldCalls
  <2> QED
    BY <1>1, <2>1 DEF Pending
<1>3. CASE TermDac
  <2>1. CASE KillNext
    <3>1. PICK p : p = FirstOf(Running)
      OBVIOUS
    <3>2. (UNCHANGED <<call, dac>>) \/ (Reply("dac", Kill(HostOf[p], p)) /\ dac' = At("killCid", p, dac.why))
      BY <2>1, <3>1 DEF KillNext, Asks
    <3>3. CASE UNCHANGED <<call, dac>>
      BY <1>1, <3>3 DEF Pending
    <3>4. CASE Reply("dac", Kill(HostOf[p], p)) /\ dac' = At("killCid", p, dac.why)
      BY <1>1, <3>4 DEF Reply, At
    <3> QED
      BY <3>2, <3>3, <3>4
  <2>2. CASE Killed
    <3>1. call'["dac"] = Nil
      BY <1>1, <2>2 DEF Killed, Hangup, Reply
    <3> QED
      BY <3>1 DEF Pending
  <2>3. CASE ProcessesKilled \/ KillHandler \/ End
    <3>1. call' = call /\ dac.at # "killCid"
      BY <2>3 DEF ProcessesKilled, KillHandler, End, cidVars
    <3> QED
      BY <1>1, <3>1 DEF Pending
  <2> QED
    BY <1>3, <2>1, <2>2, <2>3 DEF TermDac
<1> QED
  BY <1>2, <1>3

\* A program cut short stays so.
LEMMA CutStays ==
  ASSUME TermInv, TermStep
  PROVE  \A n : CutShort(n) <=> (CutShort(n))'
<1>1. dac.why = "SIGTERM" /\ cut' = cut
  BY TermPlaces, TermFrame
<1>2. dac'.why = "SIGTERM"
  <2>1. dac' = At(dac'.at, dac'.on, "SIGTERM")
    BY TermShapeKept DEF TermShape
  <2> QED
    BY <2>1 DEF At
<1> QED
  BY <1>1, <1>2 DEF CutShort

LEMMA TermCallsKept ==
  ASSUME TermInv, TermStep
  PROVE  TermCalls'
<1>1. TermCalls
  BY DEF TermInv
<1>2. /\ \A c \in Callers \ {"dac", "left", "fdd", "user"} : call'[c] = Nil
      /\ dac'.at # "killCid" => call'["dac"] = Nil
      /\ (Pending("dac"))' => call'["dac"] = Kill(HostOf[dac'.on], dac'.on)
  BY TermOldCalls, TermDacCall
<1>3. (Pending("left"))' =>
        /\ call'["left"].op \in {"VERIFY", "KILL", "EXEC"}
        /\ call'["left"].name \in Names /\ call'["left"].host = HostOf[call'["left"].name]
  BY <1>1, TermOldCalls DEF TermCalls
<1>4. (LeftStarts)' => (CutShort(call["left"].name))'
  <2> SUFFICES ASSUME (LeftStarts)' PROVE (CutShort(call["left"].name))'
    OBVIOUS
  <2>1. LeftStarts /\ call'["left"] = call["left"]
    BY TermOldCalls DEF LeftStarts
  <2>2. PICK n : n = call["left"].name
    OBVIOUS
  <2>3. CutShort(n)
    BY <1>1, <2>1, <2>2 DEF TermCalls
  <2>4. (CutShort(n))'
    BY <2>3, CutStays
  <2>5. call'["left"].name = n
    BY <2>1, <2>2
  <2> QED
    BY <2>4, <2>5 DEF CutShort
<1>5. (Pending("user"))' => \E h \in Hosts : call'["user"] = KillApp(h)
  BY <1>1, TermOldCalls DEF TermCalls
<1>6. /\ (Watching => Len(host_list) = Len(ProcList))'
      /\ call'["fdd"] # Nil => fdd'.at = "answer"
      /\ (Pending("fdd"))' => call'["fdd"] = (Detect(Watch.host, Watch.pid))'
  BY TermFdd
<1> QED
  BY <1>2, <1>3, <1>4, <1>5, <1>6 DEF TermCalls

\* What DAC does to the states.
LEMMA TermDacTypes ==
  ASSUME TermInv, TermStep
  PROVE  DacTypeOK'
<1>1. DacTypeOK
  BY DEF TermInv, AppTypeOK
<1>2. proc_id' = proc_id
  BY TermFrame
<1>3. CASE ~TermDac
  BY <1>1, <1>2, <1>3, TermFrame DEF DacTypeOK
<1>4. CASE KillNext \/ Killed
  <2>1. (\E p : state' = [state EXCEPT ![p] = "KILLED"]) \/ state' = state
    BY <1>4 DEF KillNext, Killed
  <2>2. UNCHANGED <<hstate, prcd, start_flag>>
    BY <1>4 DEF KillNext, Killed
  <2>3. state' \in [Procs -> States]
    BY <1>1, <2>1 DEF DacTypeOK, States
  <2> QED
    BY <1>1, <1>2, <2>2, <2>3 DEF DacTypeOK
<1>5. CASE ProcessesKilled
  <2>1. state' \in [Procs -> States]
    BY <1>5 DEF ProcessesKilled, States
  <2>2. UNCHANGED <<hstate, prcd, start_flag>>
    BY <1>5 DEF ProcessesKilled
  <2> QED
    BY <1>1, <1>2, <2>1, <2>2 DEF DacTypeOK
<1>6. CASE KillHandler
  <2>1. UNCHANGED <<state, prcd, start_flag>> /\ \E n : hstate' = [hstate EXCEPT ![n] = "KILLED"]
    BY <1>6 DEF KillHandler
  <2>2. hstate' \in [Handlers -> {"READY", "STARTED", "KILLED"}]
    BY <1>1, <2>1 DEF DacTypeOK
  <2> QED
    BY <1>1, <1>2, <2>1, <2>2 DEF DacTypeOK
<1>7. CASE End
  BY <1>1, <1>2, <1>7 DEF End, DacTypeOK
<1> QED
  BY <1>3, <1>4, <1>5, <1>6, <1>7 DEF TermDac

LEMMA TermDone ==
  ASSUME TermInv, TermStep
  PROVE  done' \subseteq Outside /\ done \subseteq done'
<1>1. done \subseteq Outside
  BY DEF TermInv, AppTypeOK
<1>2. ASSUME NEW e, Happens(e) PROVE done' \subseteq Outside /\ done \subseteq done'
  BY <1>1, <1>2 DEF Happens
<1>3. CASE CidStep
  BY <1>1, <1>2, <1>3 DEF CidStep, CidServes, CidStarts, Death, HostLost, Fail, Program, Rest
<1>4. CASE NewsStep
  BY <1>1, <1>2, <1>4 DEF NewsStep, SendVerify, SendStart, SendExit, exit_app, kill_process
<1>5. CASE AsideStep
  BY <1>1, <1>2, <1>5 DEF AsideStep, kill_app
<1>6. CASE TermDac \/ (\E p \in Pids : Alone(p)) \/ UNCHANGED appVars
  BY <1>1, <1>6 DEF TermDac, Alone, Kept, appVars
<1> QED
  BY <1>3, <1>4, <1>5, <1>6 DEF TermStep

LEMMA TermTypesKept ==
  ASSUME TermInv, TermStep
  PROVE  AppTypeOK'
<1>0. AppTypeOK /\ "fdd" \in Callers
  BY ApplicationAssumption DEF TermInv
<1>1. table' \in Tables /\ up' \in [Hosts -> BOOLEAN]
  <2>1. CASE CidStep
    BY <2>1, TermTables
  <2>2. CASE ~CidStep
    BY <1>0, <2>2, TermFrame, TermTypes
  <2> QED
    BY <2>1, <2>2
<1>2. DOMAIN call' = Callers
  BY TermAnswers, TermCallsStay
<1>3. listening' \in BOOLEAN
  <2>1. listening \in BOOLEAN
    BY <1>0 DEF AppTypeOK, CidTypeOK
  <2>2. TermDac => listening' = listening \/ listening' = FALSE
    BY TermMoves DEF TermDac
  <2> QED
    BY <2>1, <2>2, TermFrame
<1>4. \A h \in Hosts : starting'[h] # Nil => starting'[h].slot \in (Used(h))'
  BY TermStartsKept DEF TermStartsFit, TermStarts, Used
<1>5. CidTypeOK'
  BY <1>1, <1>2, <1>3, <1>4, TermGoesOn DEF CidTypeOK, Tables
<1>6. \A c \in Callers : (Pending(c))' => call'[c].host \in Hosts
  <2> SUFFICES ASSUME NEW c \in Callers, (Pending(c))' PROVE call'[c].host \in Hosts
    OBVIOUS
  <2>0. TermCalls'
    BY TermCallsKept
  <2>1. CASE c \in Callers \ {"dac", "left", "fdd", "user"}
    BY <2>0, <2>1 DEF TermCalls, Pending
  <2>2. CASE c = "user"
    <3>1. PICK h \in Hosts : call'["user"] = KillApp(h)
      BY <2>0, <2>2 DEF TermCalls
    <3> QED
      BY <2>2, <3>1 DEF KillApp
  <2>3. CASE c = "dac"
    <3>1. call'["dac"] = Kill(HostOf[dac'.on], dac'.on) /\ dac'.at = "killCid"
      BY <2>0, <2>3 DEF TermCalls, Pending
    <3>2. dac'.on \in Procs
      BY <3>1, TermShapeKept DEF TermShape
    <3>3. HostOf[dac'.on] \in Hosts
      BY <3>2, ControllerAssumption DEF Names
    <3> QED
      BY <2>3, <3>1, <3>3 DEF Kill
  <2>4. CASE c = "left"
    <3>1. call'["left"].name \in Names /\ call'["left"].host = HostOf[call'["left"].name]
      BY <2>0, <2>4 DEF TermCalls
    <3> QED
      BY <2>4, <3>1, ControllerAssumption
  <2>5. CASE c = "fdd"
    <3>1. call'["fdd"] = (Detect(Watch.host, Watch.pid))' /\ fdd'.at = "answer"
      BY <2>0, <2>5 DEF TermCalls, Pending
    <3>2. Len(host_list') = Len(ProcList)
      BY <3>1, TermFdd DEF Watching
    <3>3. fdd'.on \in 1 .. Len(ProcList) /\ host_list' \in Seq(FddEntry)
      BY TermFdd DEF FddTypeOK, FddEntry
    <3>4. host_list'[fdd'.on] \in FddEntry
      BY <3>2, <3>3, ElementOfSeq
    <3> QED
      BY <2>5, <3>1, <3>4 DEF Watch, Detect, FddEntry
  <2> QED
    BY <2>1, <2>2, <2>3, <2>4, <2>5
<1> QED
  BY <1>5, <1>6, TermDacTypes, TermFdd, TermDone DEF AppTypeOK

\* The table entries of a process that still runs, and what is known of it.
LEMMA TermProcKnown ==
  ASSUME TermInv, TermStep, NEW p \in Pids, child[p].name \in Procs, ~CutShort(child[p].name), (Live(p))'
  PROVE  (ProcessIsKnown(p))'
<1>1. PICK n \in Procs : n = child[p].name
  OBVIOUS
<1>2. PICK h \in Hosts : h = child[p].host /\ h = HostOf[n]
  <2>1. child[p].host = HostOf[child[p].name]
    BY DEF TermInv, TermChildren, TermChild
  <2>2. child[p].host \in Hosts
    BY ChildTypes DEF TermInv
  <2> QED
    BY <1>1, <2>1, <2>2
<1>3. GoesOn(p) /\ child'[p].name = n /\ child'[p].host = h
  BY <1>1, <1>2, TermGoesOn DEF GoesOn
<1>4. Live(p) /\ child[p].at \in {"new", "up"} /\ child'[p].at \in {"new", "up"}
  BY <1>3 DEF Live, GoesOn, Course
<1>5. state[n] = "RUNNING" /\ HasEntry(p) /\ ~(dac.at = "killCid" /\ dac.on = n /\ Answered) /\ up[h]
  BY <1>1, <1>2, <1>4 DEF TermInv, TermChildren, TermChild, ProcessIsKnown
<1>6. DacTypeOK /\ DOMAIN call = Callers /\ "dac" \in Callers
  BY TermTypes, ControllerAssumption DEF TermInv, AppTypeOK
<1>7. (HasEntry(p))'
  <2>1. SameEntries(h, n)
    <3>1. CASE CidStep
      BY <1>1, <1>2, <1>5, <3>1, TermTables
    <3>2. CASE ~CidStep
      BY <3>2, TermFrame DEF SameEntries
    <3> QED
      BY <3>1, <3>2
  <2>2. SlotsOf(h, n) # {} /\ \A i \in SlotsOf(h, n) : table[h][i].pid = p
    BY <1>1, <1>2, <1>5 DEF HasEntry
  <2>3. \A i \in Slots : (i \in (SlotsOf(h, n))' <=> i \in SlotsOf(h, n))
                          /\ (i \in SlotsOf(h, n) => table'[h][i].pid = table[h][i].pid)
    BY <2>1 DEF SameEntries, SlotsOf, Used
  <2>4. \A i \in SlotsOf(h, n) : i \in Slots
    BY DEF SlotsOf, Used
  <2>5. \A i \in (SlotsOf(h, n))' : i \in Slots
    BY DEF SlotsOf, Used
  <2>6. (SlotsOf(h, n))' # {} /\ \A i \in (SlotsOf(h, n))' : table'[h][i].pid = p
    BY <2>2, <2>3, <2>4, <2>5
  <2> QED
    BY <1>3, <2>6 DEF HasEntry
<1>8. state'[n] = "RUNNING"
  <2>1. CASE ~TermDac
    BY <1>5, <2>1, TermFrame
  <2>2. CASE KillNext
    <3>1. state' = state \/ (~up[HostOf[FirstOf(Running)]] /\ state' = [state EXCEPT ![FirstOf(Running)] = "KILLED"])
      BY <2>2 DEF KillNext
    <3>2. CASE ~up[HostOf[FirstOf(Running)]] /\ state' = [state EXCEPT ![FirstOf(Running)] = "KILLED"]
      <4>1. FirstOf(Running) # n
        BY <1>2, <1>5, <3>2
      <4> QED
        BY <1>5, <1>6, <3>2, <4>1 DEF DacTypeOK
    <3> QED
      BY <1>5, <3>1, <3>2
  <2>3. CASE Killed
    <3>1. dac.at = "killCid" /\ Answered /\ state' = [state EXCEPT ![dac.on] = "KILLED"]
      BY <2>3 DEF Killed
    <3> QED
      BY <1>5, <1>6, <3>1 DEF DacTypeOK
  <2>4. CASE ProcessesKilled
    BY <1>5, <2>4 DEF ProcessesKilled, Running
  <2>5. CASE KillHandler \/ End
    BY <1>5, <2>5 DEF KillHandler, End
  <2> QED
    BY <2>1, <2>2, <2>3, <2>4, <2>5 DEF TermDac
<1>9. ~(dac.at = "killCid" /\ dac.on = n /\ Answered)'
  <2> SUFFICES ASSUME dac'.at = "killCid", dac'.on = n, Answered' PROVE FALSE
    OBVIOUS
  <2>1. CASE ~TermDac
    <3>1. dac' = dac /\ (call'["dac"] = call["dac"] \/ (Pending("dac") /\ ~(Pending("dac"))'))
      BY <2>1, TermFrame, TermOldCalls
    <3>2. call'["dac"] # call["dac"] /\ Pending("dac") /\ call["dac"] = Kill(h, n)
      <4>1. call'["dac"] # call["dac"]
        BY <1>5, <3>1 DEF Answered, Pending
      <4>2. Pending("dac") => call["dac"] = Kill(HostOf[dac.on], dac.on)
        BY DEF TermInv, TermCalls
      <4> QED
        BY <1>2, <3>1, <4>1, <4>2
    <3>3. call["dac"].op = "KILL" /\ call["dac"].host = h /\ call["dac"].name = n
      BY <3>2 DEF Kill
    <3>4. CidStep
      <4>1. ~CidStep => call'["dac"] = call["dac"]
        BY <2>1, TermCallsStay
      <4> QED
        BY <3>2, <4>1
    <3>5. ASSUME NEW g \in Hosts, NEW c \in Callers, CidServes(g, c) PROVE FALSE
      <4>1. Pending(c) /\ call[c].host = g /\ (call' = call \/ \E a : Reply(c, a))
        BY <3>5 DEF CidServes, OpVerify, OpExecRefused, FillSlot, OpKill, OpKillApp, OpDetectProc, Accepts
      <4>2. c = "dac" /\ g = h
        BY <1>6, <3>2, <3>3, <4>1 DEF Reply
      <4>3. OpKill(h, "dac")
        BY <3>3, <3>5, <4>2 DEF CidServes, OpVerify, OpExecRefused, FillSlot, OpKillApp, OpDetectProc, Accepts
      <4>4. PICK i \in SlotsOf(h, n) : i = Lowest(SlotsOf(h, n)) /\ table[h][i].pid = p
        <5>1. SlotsOf(h, n) \in SUBSET Slots
          BY DEF SlotsOf, Used
        <5>2. SlotsOf(h, n) # {} /\ \A i \in SlotsOf(h, n) : table[h][i].pid = p
          BY <1>1, <1>2, <1>5 DEF HasEntry
        <5> QED
          BY <5>1, <5>2, LowestIn
      <4>5. child' = Signalled({p})
        BY <3>3, <4>3, <4>4 DEF OpKill
      <4>6. child'[p].at \notin {"new", "up"}
        BY <4>5, SignalsGoOn DEF TermInv
      <4> QED
        BY <1>4, <4>6
    <3>6. ASSUME NEW g \in Hosts, Fork(g) \/ EnterPid(g) PROVE FALSE
      <4>1. Fork(g) => call' = call
        BY DEF Fork
      <4>2. EnterPid(g) => starting[g] # Nil /\ Reply(starting[g].by, Answer(TRUE, starting[g].pid))
        BY DEF EnterPid
      <4>3. EnterPid(g) => starting[g].by = "left"
        BY <4>2, TermStarting
      <4>4. EnterPid(g) => call'["dac"] = call["dac"]
        BY <1>6, <4>2, <4>3 DEF Reply
      <4> QED
        BY <3>2, <3>6, <4>1, <4>4
    <3>7. ASSUME NEW g \in Hosts, NEW q \in Pids, sigchldHandler(g, q) PROVE FALSE
      BY <3>2, <3>7 DEF sigchldHandler
    <3>8. ASSUME NEW g \in Hosts, HostCrash(g) PROVE FALSE
      <4>1. g = h
        BY <1>6, <3>2, <3>3, <3>8 DEF HostCrash
      <4>2. child'[p].at = "gone"
        BY <1>2, <3>8, <4>1, CrashGoOn DEF TermInv
      <4> QED
        BY <1>4, <4>2
    <3>9. ASSUME NEW c \in Callers, CallFails(c) PROVE FALSE
      <4>1. c = "dac"
        BY <1>6, <3>2, <3>9 DEF CallFails, Reply
      <4> QED
        BY <1>5, <3>3, <3>9, <4>1 DEF CallFails
    <3>10. ASSUME NEW q \in Pids, NEW s, Ends(q, s) PROVE FALSE
      BY <3>2, <3>10 DEF Ends
    <3> QED
      BY <3>4, <3>5, <3>6, <3>7, <3>8, <3>9, <3>10 DEF CidStep, CidStarts, Death, HostLost, Fail, Program
  <2>2. CASE KillNext
    <3>1. PICK a : a = FirstOf(Running)
      OBVIOUS
    <3>2. dac.at = "killAll" /\ ((UNCHANGED <<call, dac>>) \/ Reply("dac", Kill(HostOf[a], a)))
      BY <2>2, <3>1 DEF KillNext, Asks
    <3>3. Reply("dac", Kill(HostOf[a], a))
      BY <3>2
    <3>4. call'["dac"] = Kill(HostOf[a], a)
      BY <1>6, <3>3 DEF Reply
    <3>5. call'["dac"].op = "KILL"
      BY <3>4 DEF Kill
    <3> QED
      BY <3>5 DEF Answered, Pending
  <2>3. CASE TermDac /\ (Killed \/ ProcessesKilled \/ KillHandler \/ End)
    <3>1. \/ dac' = At("killAll", Nil, "SIGTERM") \/ dac' = At("killHandlers", 1, "SIGTERM")
          \/ dac' = At("killHandlers", dac.on + 1, "SIGTERM") \/ dac' = At("over", Nil, "SIGTERM")
      BY <2>3, TermMoves, Zenon
    <3>2. dac'.at # "killCid"
      BY <3>1 DEF At
    <3> QED
      BY <3>2
  <2> QED
    BY <2>1, <2>2, <2>3 DEF TermDac
<1> QED
  BY <1>3, <1>7, <1>8, <1>9 DEF ProcessIsKnown

\* A handler that still runs is one DAC will come to.
LEMMA TermHandlerKnown ==
  ASSUME TermInv, TermStep, NEW p \in Pids, child[p].name \notin Procs, ~CutShort(child[p].name), (Live(p))'
  PROVE  (HandlerIsKnown(p))'
<1>1. PICK n : n = child[p].name
  OBVIOUS
<1>2. GoesOn(p) /\ child'[p].name = n
  BY <1>1, TermGoesOn DEF GoesOn
<1>3. Live(p)
  BY <1>2 DEF Live, GoesOn, Course
<1>4. HandlerIsKnown(p)
  BY <1>1, <1>3 DEF TermInv, TermChildren, TermChild
<1>5. child'[p].at = "up"
  BY <1>2, <1>4 DEF HandlerIsKnown, Live, GoesOn, Course
<1>6. proc_id'[n] = p
  BY <1>1, <1>4, TermFrame DEF HandlerIsKnown
<1>7. PICK i \in DOMAIN HandlerList :
        /\ HandlerList[i] = n /\ NextToKill <= i
        /\ \A j \in NextToKill .. i : hstate[HandlerList[j]] = "STARTED"
  BY <1>1, <1>4 DEF HandlerIsKnown
<1>8. DOMAIN HandlerList = 1 .. Len(HandlerList) /\ Len(HandlerList) \in Nat
  BY ControllerAssumption
<1>9. NextToKill \in Nat \ {0}
  BY TermPlaces DEF NextToKill
<1>10. NextToKill \in DOMAIN HandlerList /\ hstate[HandlerList[NextToKill]] = "STARTED"
  BY <1>7, <1>8, <1>9
<1> DEFINE Comes == \E k \in DOMAIN HandlerList :
                      /\ HandlerList[k] = n /\ NextToKill' <= k
                      /\ \A j \in NextToKill' .. k : hstate'[HandlerList[j]] = "STARTED"
<1>11. dac'.at # "over" /\ Comes
  <2>1. ASSUME NextToKill' = NextToKill, hstate' = hstate PROVE Comes
    BY <1>7, <2>1
  <2>2. CASE ~TermDac
    <3>1. dac' = dac /\ hstate' = hstate
      BY <2>2, TermFrame
    <3>2. NextToKill' = NextToKill
      BY <3>1 DEF NextToKill
    <3> HIDE DEF Comes
    <3> QED
      BY <1>4, <2>1, <3>1, <3>2 DEF HandlerIsKnown
  <2>3. CASE TermDac /\ (KillNext \/ Killed)
    <3>1. hstate' = hstate
      BY <2>3 DEF KillNext, Killed
    <3>2. /\ dac.at \in {"killAll", "killCid"}
          /\ dac' = dac \/ dac' = At("killCid", FirstOf(Running), "SIGTERM") \/ dac' = At("killAll", Nil, "SIGTERM")
      BY <2>3, TermMoves, Zenon
    <3>3. dac'.at \in {"killAll", "killCid"}
      BY <3>2 DEF At
    <3>4. NextToKill' = NextToKill
      BY <3>2, <3>3 DEF NextToKill
    <3> HIDE DEF Comes
    <3> QED
      BY <2>1, <3>1, <3>3, <3>4
  <2>4. CASE TermDac /\ ProcessesKilled
    <3>1. hstate' = hstate /\ dac.at = "killAll"
      BY <2>4 DEF ProcessesKilled
    <3>2. dac' = At("killHandlers", 1, "SIGTERM")
      BY <2>4, TermMoves
    <3>3. dac'.at = "killHandlers" /\ dac'.on = 1
      BY <3>2 DEF At
    <3>4. NextToKill' = NextToKill
      BY <3>1, <3>3 DEF NextToKill
    <3> HIDE DEF Comes
    <3> QED
      BY <2>1, <3>1, <3>3, <3>4
  <2>5. CASE TermDac /\ KillHandler
    <3>1. dac.at = "killHandlers" /\ dac' = At("killHandlers", dac.on + 1, "SIGTERM")
      BY <2>5, TermMoves
    <3>2. dac'.at = "killHandlers" /\ NextToKill = dac.on /\ NextToKill' = dac.on + 1
      BY <3>1 DEF At, NextToKill
    <3>3. hstate' = [hstate EXCEPT ![HandlerList[dac.on]] = "KILLED"]
      BY <2>5 DEF KillHandler
    <3>4. i # dac.on
      <4>1. child'[p].at = "up" /\ child[p].name = HandlerList[dac.on] => proc_id[child[p].name] # p
        BY <2>5, ExitsGoOn DEF TermInv
      <4> QED
        BY <1>1, <1>4, <1>5, <1>7, <4>1 DEF HandlerIsKnown
    <3>5. dac.on + 1 <= i /\ dac.on \in Nat /\ dac.on \in DOMAIN HandlerList
      BY <1>7, <1>8, <1>9, <1>10, <3>2, <3>4
    <3>6. ASSUME NEW j \in (dac.on + 1) .. i PROVE hstate'[HandlerList[j]] = "STARTED"
      <4>1. j \in NextToKill .. i /\ j \in DOMAIN HandlerList /\ j # dac.on
        BY <1>7, <1>8, <3>2, <3>5
      <4>2. HandlerList[j] # HandlerList[dac.on]
        BY <3>5, <4>1, ControllerAssumption
      <4>3. hstate[HandlerList[j]] = "STARTED" /\ HandlerList[j] \in Handlers
        BY <1>7, <4>1, Listed
      <4>4. DOMAIN hstate = Handlers
        BY DEF TermInv, AppTypeOK, DacTypeOK
      <4> QED
        BY <3>3, <4>2, <4>3, <4>4
    <3> QED
      BY <1>7, <3>2, <3>5, <3>6
  <2>6. CASE TermDac /\ End
    <3>1. dac.at = "killHandlers" /\ ~HandlerIsNext
      BY <2>6 DEF End
    <3>2. NextToKill = dac.on
      BY <3>1 DEF NextToKill
    <3> QED
      BY <1>10, <3>1, <3>2 DEF HandlerIsNext
  <2> HIDE DEF Comes
  <2> QED
    BY <2>2, <2>3, <2>4, <2>5, <2>6 DEF TermDac
<1> QED
  BY <1>2, <1>5, <1>6, <1>11 DEF HandlerIsKnown

\* What runs on a host ends with it.
LEMMA TermDown ==
  ASSUME TermInv, TermStep, NEW p \in Pids, ~up'[child[p].host]
  PROVE  child'[p].at = "gone"
<1>1. child[p].host \in Hosts /\ (~up[child[p].host] => child[p].at = "gone")
  BY ChildTypes DEF TermInv, TermChildren, TermChild
<1>2. ASSUME up' = up PROVE child'[p].at = "gone"
  BY <1>1, <1>2, TermGoesOn DEF GoesOn, Course
<1>3. ASSUME NEW h \in Hosts, HostCrash(h) PROVE child'[p].at = "gone"
  <2>1. up' = [up EXCEPT ![h] = FALSE]
    BY <1>3 DEF HostCrash
  <2>2. CASE child[p].host = h
    BY <1>3, <2>2, CrashGoOn DEF TermInv
  <2>3. CASE child[p].host # h
    <3>1. ~up[child[p].host]
      BY <1>1, <2>1, <2>3, TermTypes DEF TermInv
    <3> QED
      BY <1>1, <3>1, TermGoesOn DEF GoesOn, Course
  <2> QED
    BY <2>2, <2>3
<1>4. CASE ~CidStep
  BY <1>2, <1>4, TermFrame
<1>5. CASE CidStep /\ \A h \in Hosts : ~HostCrash(h)
  <2>1. \A h \in Hosts, c \in Callers : CidServes(h, c) => up' = up
    <3>1. ASSUME NEW h \in Hosts, NEW c \in Callers, CidServes(h, c) PROVE up' = up
      <4>1. (OpVerify(h, c) \/ OpExecRefused(h, c) \/ FillSlot(h, c)) => up' = up
        BY DEF OpVerify, OpExecRefused, FillSlot
      <4>2. OpKill(h, c) \/ OpKillApp(h, c) \/ OpDetectProc(h, c) => up' = up
        BY DEF OpKill, OpKillApp, OpDetectProc
      <4> QED
        BY <3>1, <4>1, <4>2 DEF CidServes
    <3> QED
      BY <3>1
  <2>2. \A h \in Hosts : CidStarts(h) \/ Death(h) => up' = up
    BY DEF CidStarts, Death, Fork, EnterPid, sigchldHandler
  <2>3. \A c \in Callers : Fail(c) => up' = up
    BY DEF Fail, CallFails
  <2>4. \A q, s : Program(q, s) => up' = up
    BY DEF Program, Ends
  <2>5. \A h \in Hosts : ~HostLost(h)
    BY <1>5 DEF HostLost
  <2> QED
    BY <1>2, <1>5, <2>1, <2>2, <2>3, <2>4, <2>5 DEF CidStep
<1> QED
  BY <1>3, <1>4, <1>5

LEMMA TermChildrenKept ==
  ASSUME TermInv, TermStep
  PROVE  TermChildren'
<1>1. \A p \in Pids : TermChild(p)
  BY DEF TermInv, TermChildren
<1>2. ASSUME NEW p \in Pids PROVE (TermChild(p))'
  <2>1. PICK n : n = child[p].name
    OBVIOUS
  <2>2. child'[p].name = n /\ child'[p].host = child[p].host /\ child[p].host = HostOf[n]
    BY <1>1, <2>1, TermGoesOn DEF GoesOn, TermChild
  <2>3. ~up'[child'[p].host] => child'[p].at = "gone"
    BY <2>2, TermDown
  <2>4. ASSUME (Live(p))', ~(CutShort(n))'
        PROVE  IF n \in Procs THEN (ProcessIsKnown(p))' ELSE (HandlerIsKnown(p))'
    <3>1. ~CutShort(n)
      BY <2>4, CutStays
    <3> QED
      BY <2>1, <2>4, <3>1, TermProcKnown, TermHandlerKnown
  <2>5. (CutShort(child[p].name))' <=> (CutShort(n))'
    BY <2>2 DEF CutShort
  <2> QED
    BY <2>2, <2>3, <2>4, <2>5 DEF TermChild
<1>3. CASE \A h \in Hosts : ~Fork(h)
  <2>1. Pids' = Pids
    BY <1>3, TermGoesOn
  <2>2. \A n \in Procs : \A p, q \in (PidsOf(n))' : p = q
    BY <1>3, TermPids DEF TermInv, TermChildren
  <2> QED
    BY <1>2, <2>1, <2>2 DEF TermChildren
<1>4. ASSUME NEW h \in Hosts, Fork(h) PROVE TermChildren'
  <2>0. PICK new : new = Len(child) + 1
    OBVIOUS
  <2>1. PICK a \in Names :
          /\ CutShort(a) /\ h = HostOf[a] /\ up[h] /\ UNCHANGED up
          /\ Pids' = Pids \cup {new} /\ new \notin Pids
          /\ child'[new] = [name |-> a, host |-> h, at |-> "new", status |-> Nil]
          /\ \A p \in Pids : child'[p] = child[p]
          /\ a \in Procs => PidsOf(a) = {}
    BY <1>4, <2>0, TermForks
  <2>2. child'[new].name = a /\ child'[new].host = h
    BY <2>1
  <2>3. (CutShort(a))'
    BY <2>1, CutStays
  <2>4. (CutShort(child[new].name))'
    BY <2>2, <2>3 DEF CutShort
  <2>5. (TermChild(new))'
    BY <2>1, <2>2, <2>4 DEF TermChild
  <2>6. \A p \in Pids' : (TermChild(p))'
    BY <1>2, <2>1, <2>5
  <2>7. ASSUME NEW n \in Procs PROVE (PidsOf(n))' = PidsOf(n) \/ (PidsOf(n))' = {new}
    <3>1. CASE n = a
      BY <2>1, <2>2, <3>1 DEF PidsOf
    <3>2. CASE n # a
      BY <2>1, <2>2, <3>2 DEF PidsOf
    <3> QED
      BY <3>1, <3>2
  <2>8. \A n \in Procs : \A p, q \in (PidsOf(n))' : p = q
    BY <2>7 DEF TermInv, TermChildren
  <2> QED
    BY <2>6, <2>8 DEF TermChildren
<1> QED
  BY <1>3, <1>4

\* The invariant after SIGTERM is kept.
LEMMA TermInvKept ==
  ASSUME TermInv, [Next]_appVars
  PROVE  TermInv'
<1>1. TermStep
  BY TermSteps
<1> QED
  BY <1>1, TermTypesKept, TermShapeKept, TermCallsKept, TermStartsKept, TermChildrenKept DEF TermInv

\* SIGTERM cuts short the start under way.
LEMMA StartIsCut ==
  ASSUME AppInv, Terminate
  PROVE  \A n :
           \/ dac.at \in {"execCid", "execHello"} /\ n = dac.on
           \/ dac.at = "handlerCid" /\ n = Asked
           \/ dac.at = "killHandlers" /\ \E i \in DOMAIN HandlerList : 1 < dac.on /\ dac.on <= i /\ n = HandlerList[i]
           => (CutShort(n))'
<1>1. dac' = At("killAll", Nil, "SIGTERM") /\ cut' = dac
  BY DEF Terminate, sigtermHandler
<1>2. dac'.why = "SIGTERM"
  BY <1>1 DEF At
<1>3. dac.at = "handlerCid" => Asked = HandlerList[dac.on]
  BY DEF Asked
<1> QED
  BY <1>1, <1>2, <1>3 DEF CutShort

\* The calls of the CIDs after it.
LEMMA TermLeaves ==
  ASSUME AppInv, Terminate
  PROVE  /\ DOMAIN call' = Callers /\ call'["dac"] = Nil
         /\ \A c \in Callers \ {"dac", "left"} : call'[c] = call[c]
         /\ call'["left"] = IF Pending("dac") THEN call["dac"] ELSE Nil
         /\ (Pending("left"))' => Pending("dac")
         /\ UNCHANGED <<up, table, child, listening, state, prcd, hstate, proc_id, start_flag, fddVars>>
         /\ dac' = At("killAll", Nil, "SIGTERM") /\ dac.at # "over"
         /\ DOMAIN starting' = Hosts
         /\ \A h \in Hosts : starting'[h] = IF starting[h] = Nil THEN Nil
              ELSE [by |-> "left", slot |-> starting[h].slot, pid |-> starting[h].pid]
<1>1. sigtermHandler /\ UNCHANGED fddVars /\ {"dac", "left"} \subseteq Callers
  BY ControllerAssumption DEF Terminate
<1>2. DOMAIN call = Callers
  BY DEF AppInv, AppTypeOK, CidTypeOK
<1>3. call' = [call EXCEPT !["dac"] = Nil, !["left"] = IF Pending("dac") THEN call["dac"] ELSE Nil]
  BY <1>1 DEF sigtermHandler
<1>4. /\ DOMAIN call' = Callers /\ call'["dac"] = Nil
      /\ \A c \in Callers \ {"dac", "left"} : call'[c] = call[c]
      /\ call'["left"] = IF Pending("dac") THEN call["dac"] ELSE Nil
  BY <1>1, <1>2, <1>3
<1>5. (Pending("left"))' => Pending("dac")
  BY <1>4 DEF Pending
<1>6. ASSUME NEW h \in Hosts
      PROVE  starting'[h] = IF starting[h] = Nil THEN Nil
               ELSE [by |-> "left", slot |-> starting[h].slot, pid |-> starting[h].pid]
  <2>1. starting'[h] = IF starting[h] # Nil /\ starting[h].by = "dac"
                         THEN [starting[h] EXCEPT !.by = "left"] ELSE starting[h]
    BY <1>1 DEF sigtermHandler
  <2>2. starting[h] # Nil => starting[h] \in [by : {"dac"}, slot : Slots, pid : Nat]
    BY DEF AppInv, StartingFits, StartFits
  <2> QED
    BY <2>1, <2>2
<1>7. DOMAIN starting' = Hosts
  BY <1>1 DEF sigtermHandler
<1> QED
  BY <1>1, <1>4, <1>5, <1>6, <1>7 DEF sigtermHandler

LEMMA TermBeginsStarts ==
  ASSUME AppInv, Terminate
  PROVE  TermStartsFit'
<1>1. ASSUME NEW h \in Hosts PROVE (TermStarts(h))'
  <2>1. CASE starting[h] = Nil
    BY <2>1, TermLeaves DEF TermStarts
  <2>2. CASE starting[h] # Nil
    <3>1. /\ starting[h] \in [by : {"dac"}, slot : Slots, pid : Nat]
          /\ up[h] /\ Pending("dac") /\ call["dac"].op = "EXEC" /\ call["dac"].host = h
          /\ table[h][starting[h].slot].used /\ table[h][starting[h].slot].name = Asked
          /\ starting[h].pid # 0 => starting[h].pid \in PidsOf(Asked)
      BY <2>2 DEF AppInv, StartingFits, StartFits
    <3>2. PICK n : n = Asked
      OBVIOUS
    <3>3. call["dac"].name = n
      BY <3>1, <3>2, WhoCalls, ControllerAssumption
    <3>4. starting'[h] = [by |-> "left", slot |-> starting[h].slot, pid |-> starting[h].pid]
            /\ call'["left"] = call["dac"] /\ up' = up /\ table' = table /\ child' = child
      BY <2>2, <3>1, TermLeaves
    <3>5. (PidsOf(n))' = PidsOf(n)
      BY <3>4 DEF PidsOf, Pids
    <3>6. (LeftStarts)' /\ call'["left"].name = n
      BY <3>1, <3>3, <3>4 DEF LeftStarts, Pending
    <3>7. starting'[h].pid # 0 => starting'[h].pid \in (PidsOf(n))'
      BY <3>1, <3>2, <3>4, <3>5
    <3> QED
      BY <3>1, <3>2, <3>4, <3>6, <3>7 DEF TermStarts
  <2> QED
    BY <2>1, <2>2
<1>2. LeftFits'
  <2> SUFFICES ASSUME (LeftStarts)', call'["left"].name \in Procs, (PidsOf(call["left"].name))' # {}
               PROVE  starting'[call'["left"].host] # Nil /\ starting'[call'["left"].host].pid # 0
    BY DEF LeftFits
  <2>1. Pending("dac") /\ call'["left"] = call["dac"] /\ call["dac"].op = "EXEC"
    BY TermLeaves DEF LeftStarts
  <2>2. dac.at \in CidPlaces /\ call["dac"].name = Asked /\ call["dac"].host = HostOf[Asked]
          /\ dac.at \in {"handlerCid", "execCid"}
    BY <2>1, WhoCalls, ControllerAssumption DEF CidPlaces
  <2>3. PICK n \in Procs : n = Asked
    BY <2>1, <2>2
  <2>4. dac.at = "execCid" /\ dac.on = n /\ HostOf[n] \in Hosts
    BY <2>2, <2>3, AskedIsNamed
  <2>5. (PidsOf(n))' = PidsOf(n)
    BY TermLeaves DEF PidsOf, Pids
  <2>6. (PidsOf(call["left"].name))' = (PidsOf(n))'
    BY <2>1, <2>2, <2>3 DEF PidsOf
  <2>7. PidsOf(n) # {}
    BY <2>5, <2>6
  <2>8. starting[HostOf[n]] # Nil
    BY <2>1, <2>4, <2>7 DEF AppInv, ExecFits
  <2>9. PidsOf(n) \subseteq {starting[HostOf[n]].pid}
    BY <2>1, <2>4, <2>8 DEF AppInv, ExecFits
  <2>10. starting[HostOf[n]].pid # 0
    <3>1. \A p \in PidsOf(n) : p # 0
      BY ChildTypes DEF PidsOf, AppInv
    <3> QED
      BY <2>7, <2>9, <3>1
  <2>11. starting'[HostOf[n]] = [by |-> "left", slot |-> starting[HostOf[n]].slot, pid |-> starting[HostOf[n]].pid]
    BY <2>4, <2>8, TermLeaves
  <2>12. starting'[HostOf[n]] # Nil
    <3>1. starting[HostOf[n]] \in [by : {"dac"}, slot : Slots, pid : Nat]
      BY <2>4, <2>8 DEF AppInv, StartingFits, StartFits
    <3>2. starting'[HostOf[n]] \in [by : Callers, slot : Slots, pid : Nat]
      BY <2>11, <3>1, ControllerAssumption
    <3> QED
      BY <3>2, TableAssumption
  <2>13. call'["left"].host = HostOf[n]
    BY <2>1, <2>2, <2>3
  <2> QED
    BY <2>10, <2>11, <2>12, <2>13
<1> QED
  BY <1>1, <1>2, TermLeaves DEF TermStartsFit

LEMMA TermBeginsCalls ==
  ASSUME AppInv, Terminate
  PROVE  TermCalls'
<1>1. \A c \in Callers \ {"dac", "left", "fdd", "user"} : call'[c] = Nil
  BY TermLeaves DEF AppInv, CallsFit
<1>2. call'["dac"] = Nil /\ ~(Pending("dac"))'
  BY TermLeaves DEF Pending
<1>3. ASSUME (Pending("left"))'
      PROVE  /\ call'["left"].op \in {"VERIFY", "KILL", "EXEC"}
             /\ call'["left"].name \in Names /\ call'["left"].host = HostOf[call'["left"].name]
             /\ (LeftStarts)' => (CutShort(call["left"].name))'
  <2>1. Pending("dac") /\ call'["left"] = call["dac"] /\ "dac" \in Callers
    BY <1>3, TermLeaves, ControllerAssumption
  <2>2. /\ dac.at \in CidPlaces /\ call["dac"].name = Asked /\ call["dac"].host = HostOf[Asked]
        /\ call["dac"].op = IF dac.at = "verifyCid" THEN "VERIFY" ELSE IF dac.at = "killCid" THEN "KILL" ELSE "EXEC"
    BY <2>1, WhoCalls
  <2>3. PICK n \in Names : n = Asked
    BY <2>2, AskedIsNamed
  <2>4. dac.at \in {"handlerCid", "execCid"} => (CutShort(n))'
    <3>1. dac.at = "execCid" => n = dac.on
      BY <2>3 DEF Asked
    <3> QED
      BY <2>3, <3>1, StartIsCut
  <2>5. (LeftStarts)' => (CutShort(n))'
    BY <2>1, <2>2, <2>4 DEF LeftStarts, CidPlaces
  <2>6. (CutShort(call["left"].name))' <=> (CutShort(n))'
    BY <2>1, <2>2, <2>3 DEF CutShort
  <2> QED
    BY <2>1, <2>2, <2>3, <2>5, <2>6
<1>4. /\ call'["fdd"] = call["fdd"] /\ call'["user"] = call["user"] /\ UNCHANGED fddVars
  BY TermLeaves, ApplicationAssumption
<1>5. /\ call'["fdd"] # Nil => fdd'.at = "answer"
      /\ (Pending("fdd"))' => call'["fdd"] = (Detect(Watch.host, Watch.pid))'
  BY <1>4 DEF AppInv, CallsFit, Pending, Watch, fddVars
<1>6. (Pending("user"))' => \E h \in Hosts : call'["user"] = KillApp(h)
  BY <1>4 DEF AppInv, CallsFit, Pending
<1>7. (Watching => Len(host_list) = Len(ProcList))'
  BY <1>4 DEF AppInv, FddFits, Watching, fddVars
<1>8. (LeftStarts)' => (Pending("left"))'
  BY DEF LeftStarts
<1> QED
  BY <1>1, <1>2, <1>3, <1>5, <1>6, <1>7, <1>8 DEF TermCalls

LEMMA TermBeginsTypes ==
  ASSUME AppInv, Terminate
  PROVE  AppTypeOK' /\ TermShape'
<1>1. AppTypeOK
  BY DEF AppInv
<1>2. \A h \in Hosts : starting'[h] # Nil => starting'[h].slot \in (Used(h))'
  <2> SUFFICES ASSUME NEW h \in Hosts, starting'[h] # Nil PROVE starting'[h].slot \in (Used(h))'
    OBVIOUS
  <2>1. starting[h] # Nil /\ starting'[h] = [by |-> "left", slot |-> starting[h].slot, pid |-> starting[h].pid]
          /\ table' = table
    BY TermLeaves
  <2>2. starting[h].slot \in Used(h)
    BY <1>1, <2>1 DEF AppTypeOK, CidTypeOK
  <2> QED
    BY <2>1, <2>2 DEF Used
<1>3. CidTypeOK'
  BY <1>1, <1>2, TermLeaves DEF AppTypeOK, CidTypeOK
<1>4. DacTypeOK' /\ FddTypeOK'
  BY <1>1, TermLeaves DEF AppTypeOK, DacTypeOK, FddTypeOK, fddVars
<1>5. done' \subseteq Outside
  BY <1>1 DEF AppTypeOK, Terminate, Happens
<1>6. \A c \in Callers : (Pending(c))' => call'[c].host \in Hosts
  <2> SUFFICES ASSUME NEW c \in Callers, (Pending(c))' PROVE call'[c].host \in Hosts
    OBVIOUS
  <2>1. \A x \in Callers : Pending(x) => call[x].host \in Hosts
    BY <1>1 DEF AppTypeOK
  <2>2. CASE c = "left"
    BY <2>1, <2>2, TermLeaves, ControllerAssumption
  <2>3. CASE c = "dac"
    BY <2>3, TermLeaves DEF Pending
  <2>4. CASE c \notin {"dac", "left"}
    BY <2>1, <2>4, TermLeaves DEF Pending
  <2> QED
    BY <2>2, <2>3, <2>4
<1>7. TermShape'
  <2>1. dac' = At("killAll", Nil, "SIGTERM") /\ listening' = listening /\ listening
    BY TermLeaves DEF AppInv, DacShape
  <2> QED
    BY <2>1 DEF TermShape, At
<1> QED
  BY <1>3, <1>4, <1>5, <1>6, <1>7 DEF AppTypeOK

\* A process that runs and was not being started has its entry.
LEMMA TermBeginsProcess ==
  ASSUME AppInv, Terminate, NEW p \in Pids, NEW n \in Procs, n = child[p].name, Live(p), ~(CutShort(n))'
  PROVE  (ProcessIsKnown(p))'
<1>1. n = child[p].name
  OBVIOUS
<1>2. ChildFits(p) /\ ProcessFits(n) /\ p \in PidsOf(n)
  BY <1>1 DEF AppInv, ChildrenFit, ProcessLife, PidsOf
<1>3. PICK h \in Hosts : h = child[p].host /\ h = HostOf[n]
  <2>1. child[p].host = HostOf[n]
    BY <1>1, <1>2 DEF ChildFits
  <2> QED
    BY <2>1, ChildTypes DEF AppInv
<1>4. ~(dac.at \in {"execCid", "execHello"} /\ dac.on = n)
  BY <1>1, StartIsCut
<1>5. state[n] = "RUNNING"
  BY <1>2, <1>4 DEF ProcessFits, LiveProc
<1>6. up[h] /\ child[p].at # "gone"
  BY <1>2, <1>3 DEF ChildFits, Live
<1>7. starting[h] # Nil => Asked # n
  <2> SUFFICES ASSUME starting[h] # Nil, Asked = n PROVE FALSE
    OBVIOUS
  <2>1. Pending("dac") /\ call["dac"].op = "EXEC" /\ "dac" \in Callers
    BY ControllerAssumption DEF AppInv, StartingFits, StartFits
  <2>2. dac.at \in CidPlaces /\ dac.at \in {"handlerCid", "execCid"}
    BY <2>1, WhoCalls DEF CidPlaces
  <2>3. dac.at = "execCid" /\ dac.on = n
    BY <2>2, AskedIsNamed
  <2> QED
    BY <1>4, <2>3
<1>8. PICK i \in SlotsOf(h, n) : table[h][i].pid = p
  <2>1. \/ \E i \in SlotsOf(h, n) : table[h][i].pid = p
        \/ starting[h] # Nil /\ starting[h].pid = p
    BY <1>1, <1>2, <1>3, <1>6 DEF ChildFits
  <2>2. CASE starting[h] # Nil /\ starting[h].pid = p
    <3>1. p # 0
      BY ChildTypes DEF AppInv
    <3>2. p \in PidsOf(Asked)
      BY <2>2, <3>1 DEF AppInv, StartingFits, StartFits
    <3>3. Asked = n
      BY <1>1, <3>2 DEF PidsOf
    <3> QED
      BY <1>7, <2>2, <3>3
  <2> QED
    BY <2>1, <2>2
<1>9. ASSUME NEW j \in SlotsOf(h, n) PROVE table[h][j].pid = p
  <2>1. j \in Slots /\ table[h][j].used /\ table[h][j].name = n
    BY DEF SlotsOf, Used
  <2>2. ~BeingFilled(h, j)
    <3>1. starting[h] # Nil => table[h][starting[h].slot].name = Asked
      BY DEF AppInv, StartingFits, StartFits
    <3> QED
      BY <1>7, <2>1, <3>1 DEF BeingFilled
  <2>3. table[h][j].pid \in PidsOf(n)
    BY <1>6, <2>1, <2>2 DEF AppInv, TableFits, EntryFits
  <2> QED
    BY <1>2, <2>3 DEF ProcessFits
<1>10. UNCHANGED <<table, child, state>> /\ dac' = At("killAll", Nil, "SIGTERM")
  BY TermLeaves
<1>11. (SlotsOf(h, n))' = SlotsOf(h, n) /\ SlotsOf(h, n) # {} /\ \A j \in SlotsOf(h, n) : table'[h][j].pid = p
  BY <1>8, <1>9, <1>10 DEF SlotsOf, Used
<1>12. child'[p].host = h /\ child'[p].name = n
  BY <1>1, <1>3, <1>10
<1>13. (HasEntry(p))'
  BY <1>11, <1>12 DEF HasEntry
<1>14. dac'.at # "killCid"
  BY <1>10 DEF At
<1> QED
  BY <1>5, <1>10, <1>12, <1>13, <1>14 DEF ProcessIsKnown

\* DAC will come to a handler that runs and was not being started, nor killed.
LEMMA TermBeginsHandler ==
  ASSUME AppInv, Terminate, NEW p \in Pids, NEW n, n = child[p].name, n \notin Procs, Live(p), ~(CutShort(n))'
  PROVE  (HandlerIsKnown(p))'
<1>1. n = child[p].name /\ n \in Handlers
  BY ChildTypes DEF AppInv, Names
<1>2. /\ child[p].at = "up" => hstate[n] = "STARTED" /\ proc_id[n] = p
      /\ child[p].at = "new" => dac.at = "handlerCid" /\ Asked = n
  BY <1>1 DEF AppInv, HandlersFit
<1>3. child[p].at = "up"
  BY <1>1, <1>2, StartIsCut DEF Live
<1>4. PICK i \in DOMAIN HandlerList : HandlerList[i] = n
  BY <1>1, ControllerAssumption
<1>5. DOMAIN HandlerList = 1 .. Len(HandlerList) /\ Len(HandlerList) \in Nat
  BY ControllerAssumption
<1>6. ASSUME NEW j \in 1 .. i PROVE hstate[HandlerList[j]] = "STARTED"
  <2>1. CASE j = i
    BY <1>2, <1>3, <1>4, <2>1
  <2>2. CASE j # i
    <3>1. j \in DOMAIN HandlerList /\ j < i
      BY <1>5, <2>2
    <3>2. hstate[HandlerList[j]] = "STARTED" \/ (dac.at = "killHandlers" /\ j < dac.on)
      BY <1>2, <1>3, <1>4, <3>1 DEF AppInv, HandlersFit
    <3>3. ASSUME dac.at = "killHandlers", j < dac.on PROVE FALSE
      <4>1. dac.on <= i
        BY <1>2, <1>3, <1>4, <3>3 DEF AppInv, HandlersFit
      <4>2. 1 < dac.on
        <5>1. dac.on \in Nat
          BY <3>3 DEF AppInv, DacShape
        <5> QED
          BY <3>3, <5>1
      <4>3. (CutShort(n))'
        BY <1>4, <3>3, <4>1, <4>2, StartIsCut
      <4> QED
        BY <4>3
    <3> QED
      BY <3>2, <3>3
  <2> QED
    BY <2>1, <2>2
<1>7. UNCHANGED <<child, hstate, proc_id>> /\ dac'.at = "killAll"
  BY TermLeaves DEF At
<1>8. NextToKill' = 1
  BY <1>7 DEF NextToKill
<1>9. child'[p].name = n /\ child'[p].at = "up" /\ proc_id'[n] = p
  BY <1>1, <1>2, <1>3, <1>7
<1>10. 1 <= i
  BY <1>5
<1> QED
  BY <1>4, <1>6, <1>7, <1>8, <1>9, <1>10 DEF HandlerIsKnown

\* SIGTERM comes.
LEMMA TermBegins ==
  ASSUME AppInv, Terminate
  PROVE  TermInv'
<1>1. UNCHANGED <<child, up>>
  BY TermLeaves
<1>2. ASSUME NEW p \in Pids PROVE (TermChild(p))'
  <2>1. ChildFits(p)
    BY DEF AppInv, ChildrenFit
  <2>2. PICK n : n = child[p].name
    OBVIOUS
  <2>3. ASSUME (Live(p))', ~(CutShort(n))'
        PROVE  IF n \in Procs THEN (ProcessIsKnown(p))' ELSE (HandlerIsKnown(p))'
    <3>1. Live(p)
      BY <1>1, <2>3 DEF Live
    <3> QED
      BY <2>2, <2>3, <3>1, TermBeginsProcess, TermBeginsHandler
  <2>4. child'[p].name = n
    BY <1>1, <2>2
  <2>5. (CutShort(child[p].name))' <=> (CutShort(n))'
    BY <2>4 DEF CutShort
  <2> QED
    BY <1>1, <2>1, <2>2, <2>3, <2>4, <2>5 DEF TermChild, ChildFits
<1>3. Pids' = Pids /\ \A n : (PidsOf(n))' = PidsOf(n)
  BY <1>1 DEF Pids, PidsOf
<1>4. TermChildren'
  BY <1>2, <1>3 DEF TermChildren, AppInv, ProcessLife, ProcessFits
<1> QED
  BY <1>4, TermBeginsTypes, TermBeginsCalls, TermBeginsStarts DEF TermInv

-----------------------------------------------------------------------------
(* The theorems on the two phases together.                                 *)

\* Until SIGTERM and from then on.
AppInvs == AppInv \/ TermInv

LEMMA AppInvsKept ==
  ASSUME KillsLeaveHosts, AppInvs, [Next]_appVars
  PROVE  AppInvs'
<1>1. CASE TermInv
  BY <1>1, TermInvKept DEF AppInvs
<1>2. CASE AppInv
  <2>1. AppStep \/ Terminate
    BY <1>2, AllSteps
  <2> QED
    BY <1>2, <2>1, AppInvKept, TermBegins DEF AppInvs
<1> QED
  BY <1>1, <1>2 DEF AppInvs

\* The invariant of an application under its controller.
THEOREM AppIsCoherent ==
  ASSUME KillsLeaveHosts
  PROVE  Spec => []AppInvs
<1>1. AppInvs /\ [Next]_appVars => AppInvs'
  BY AppInvsKept
<1>2. Init => AppInvs
  BY InitInv DEF AppInvs
<1> QED
  BY <1>1, <1>2, PTL DEF Spec

\* The state of the CIDs, DAC, FDD and prun is of its types (cid.h:72, synergy.h:702).
THEOREM TypesHold ==
  ASSUME KillsLeaveHosts
  PROVE  Spec => []AppTypeOK
<1>1. AppInvs => AppTypeOK
  BY DEF AppInvs, AppInv, TermInv
<1> QED
  BY <1>1, AppIsCoherent, PTL

\* DAC leaves no program running behind when it ends, by itself, on request, or at SIGTERM
\* wherever it comes, but for those of which SIGTERM has cut short the start or the end
\* (dac.c:603, 720).
THEOREM NothingRunsOn ==
  ASSUME KillsLeaveHosts
  PROVE  Spec => []NoOrphans
<1>1. AppInv => NoOrphans
  BY DEF AppInv
<1>2. TermInv => NoOrphans
  <2> SUFFICES ASSUME TermInv, dac.at = "over", NEW p \in Pids, child[p].at \in {"new", "up"}, ~CutShort(child[p].name)
               PROVE  FALSE
    BY DEF NoOrphans
  <2>1. IF child[p].name \in Procs THEN ProcessIsKnown(p) ELSE HandlerIsKnown(p)
    BY DEF TermInv, TermChildren, TermChild, Live
  <2>2. child[p].name \in Procs => state[child[p].name] # "RUNNING"
    BY DEF TermInv, TermShape
  <2> QED
    BY <2>1, <2>2 DEF ProcessIsKnown, HandlerIsKnown
<1> QED
  BY <1>1, <1>2, AppIsCoherent, PTL DEF AppInvs

\* An end that is reported to DAC has happened (cid.c:1657).
THEOREM ReportsTellEnds ==
  ASSUME KillsLeaveHosts
  PROVE  Spec => []ReportsAreTrue
<1>1. AppInv => ReportsAreTrue
  <2> SUFFICES ASSUME AppInv, NEW i \in DOMAIN inbox, inbox[i].op = "EXIT_PROCESS"
               PROVE  \E p \in PidsOf(inbox[i].name) : Ended(p)
    BY DEF ReportsAreTrue
  <2>1. OverProc(inbox[i].name)
    BY DEF AppInv, NewsAreTrue, NewsIsTrue
  <2> QED
    BY <2>1 DEF OverProc
<1>2. TermInv => ReportsAreTrue
  BY TermPlaces DEF ReportsAreTrue
<1> QED
  BY <1>1, <1>2, AppIsCoherent, PTL DEF AppInvs

\* The end of a process that DAC holds for running reaches DAC or is still to reach it (cid.c:1609).
THEOREM ExitsAreReported ==
  ASSUME KillsLeaveHosts
  PROVE  Spec => []NoLostExit
<1>1. AppInv => NoLostExit
  BY DEF AppInv
<1>2. TermInv => NoLostExit
  BY TermPlaces DEF NoLostExit
<1> QED
  BY <1>1, <1>2, AppIsCoherent, PTL DEF AppInvs

-----------------------------------------------------------------------------
(* DAC keeps the promise of JobGraph.                                       *)

\* What JobGraph sees of a process.
JobOf(n) == IF PidsOf(n) = {} THEN IF AskedFor(n) THEN "asked" ELSE "idle"
            ELSE IF \A p \in PidsOf(n) : Ended(p) THEN "over" ELSE "active"
JobMap   == [n \in Procs |-> JobOf(n)]

\* The map tells what it tells.
LEMMA MapTells ==
  /\ DOMAIN JobMap = Procs /\ \A n \in Procs : JobMap[n] = JobOf(n)
  /\ \A n \in Procs : JobMap[n] = "over" <=> OverProc(n)
  /\ \A n \in Procs : JobMap[n] = "idle" <=> PidsOf(n) = {} /\ ~AskedFor(n)
  /\ \A n \in Procs : JobMap[n] = "asked" <=> PidsOf(n) = {} /\ AskedFor(n)
BY DEF JobMap, JobOf, OverProc

\* The initial states of an application are those of JobGraph.
LEMMA InitJobs == Init => Graph!Init
<1> SUFFICES ASSUME Init PROVE JobMap = [n \in Procs |-> "idle"] /\ listening = TRUE
  BY DEF Graph!Init, JobMap, JobOf
<1>1. \A n \in Procs : ~AskedFor(n)
  BY InitFacts, ControllerAssumption DEF AskedFor
<1>2. \A n \in Procs : JobOf(n) = "idle"
  BY <1>1, InitFacts DEF JobOf, Names
<1> QED
  BY <1>2 DEF JobMap, Init, CidInit

\* If nothing is forked and nothing more is asked for, jobs end at most.
LEMMA JobsGoOn ==
  ASSUME Pids' = Pids, \A p \in Pids : GoesOn(p), UNCHANGED listening,
         \A n \in Procs : (AskedFor(n))' => AskedFor(n)
  PROVE  Graph!Next \/ (JobMap' = JobMap /\ UNCHANGED listening)
<1> DEFINE S == {n \in Procs : JobMap'[n] # JobMap[n]}
<1>1. ASSUME NEW n \in Procs
      PROVE  \/ JobMap'[n] = JobMap[n]
             \/ JobMap[n] = "asked" /\ JobMap'[n] = "idle"
             \/ JobMap[n] = "active" /\ JobMap'[n] = "over"
  <2>1. (PidsOf(n))' = PidsOf(n)
    BY DEF PidsOf, GoesOn
  <2>2. \A p \in PidsOf(n) : Ended(p) => (Ended(p))'
    BY DEF PidsOf, Ended, GoesOn, Course
  <2>3. JobMap[n] = JobOf(n) /\ JobMap'[n] = (JobOf(n))'
    BY DEF JobMap
  <2>4. CASE PidsOf(n) = {}
    BY <2>1, <2>3, <2>4 DEF JobOf
  <2>5. CASE PidsOf(n) # {}
    <3>1. CASE \A p \in PidsOf(n) : Ended(p)
      BY <2>1, <2>2, <2>3, <2>5, <3>1 DEF JobOf
    <3>2. CASE ~\A p \in PidsOf(n) : Ended(p)
      BY <2>1, <2>3, <2>5, <3>2 DEF JobOf
    <3> QED
      BY <3>1, <3>2
  <2> QED
    BY <2>4, <2>5
<1>2. DOMAIN JobMap' = Procs /\ JobMap' = [n \in Procs |-> JobMap'[n]] /\ JobMap = [n \in Procs |-> JobMap[n]]
  BY DEF JobMap
<1>3. \A n \in Procs : JobMap'[n] = IF n \notin S THEN JobMap[n] ELSE IF JobMap[n] = "asked" THEN "idle" ELSE "over"
  BY <1>1
<1>4. S \in SUBSET Procs /\ \A n \in S : JobMap[n] \in {"asked", "active"}
  BY <1>1
<1> HIDE DEF S
<1>5. CASE S = {}
  BY <1>2, <1>3, <1>5
<1>6. CASE S # {}
  <2>1. JobMap' = [n \in Procs |-> IF n \notin S THEN JobMap[n] ELSE IF JobMap[n] = "asked" THEN "idle" ELSE "over"]
    BY <1>2, <1>3
  <2>2. Graph!Finish(S)
    BY <1>4, <1>6, <2>1 DEF Graph!Finish, JobMap, JobOf
  <2> QED
    BY <1>4, <2>2 DEF Graph!Next
<1> QED
  BY <1>5, <1>6

\* A fork starts the job that was asked for, or one of a handler.
LEMMA ForkStarts ==
  ASSUME NEW a, NEW new, Pids' = Pids \cup {new}, new \notin Pids, child'[new].name = a, child'[new].at = "new",
         \A p \in Pids : child'[p] = child[p], call' = call, UNCHANGED listening,
         a \in Procs => PidsOf(a) = {} /\ AskedFor(a)
  PROVE  Graph!Next \/ (JobMap' = JobMap /\ UNCHANGED listening)
<1>1. ASSUME NEW n \in Procs, n # a PROVE (JobOf(n))' = JobOf(n)
  <2>1. (PidsOf(n))' = PidsOf(n)
    BY <1>1 DEF PidsOf
  <2>2. \A p \in PidsOf(n) : (Ended(p))' <=> Ended(p)
    BY DEF PidsOf, Ended
  <2>3. (AskedFor(n))' <=> AskedFor(n)
    BY DEF AskedFor, Pending
  <2> QED
    BY <2>1, <2>2, <2>3 DEF JobOf
<1>2. CASE a \notin Procs
  BY <1>1, <1>2 DEF JobMap
<1>3. CASE a \in Procs
  <2>1. JobMap[a] = "asked"
    BY <1>3, MapTells
  <2>2. (JobOf(a))' = "active"
    <3>1. new \in (PidsOf(a))' /\ (~Ended(new))'
      BY DEF PidsOf, Ended
    <3> QED
      BY <3>1 DEF JobOf
  <2>3. JobMap' = [JobMap EXCEPT ![a] = "active"]
    BY <1>1, <1>3, <2>2 DEF JobMap
  <2>4. Graph!Start(a)
    BY <2>1, <2>3 DEF Graph!Start, JobMap, JobOf
  <2> QED
    BY <1>3, <2>4 DEF Graph!Next
<1> QED
  BY <1>2, <1>3

\* The end of DAC touches no process.
LEMMA EndCloses ==
  ASSUME End, listening = TRUE
  PROVE  Graph!Next
<1>1. UNCHANGED <<child, call>> /\ listening' = FALSE
  BY DEF End
<1>2. ASSUME NEW n \in Procs PROVE (JobOf(n))' = JobOf(n)
  BY <1>1 DEF JobOf, PidsOf, Pids, Ended, AskedFor, Pending
<1>3. JobMap' = JobMap
  BY <1>2 DEF JobMap
<1>4. Graph!Close
  BY <1>1, <1>3 DEF Graph!Close, JobMap, JobOf
<1> QED
  BY <1>4 DEF Graph!Next

\* Until SIGTERM, what is asked for is what DAC starts.
LEMMA AskedIsAsking ==
  ASSUME AppInv, NEW n \in Procs
  PROVE  AskedFor(n) <=> Asking(n)
<1>1. {"dac", "left"} \subseteq Callers /\ call["left"] = Nil /\ ~Pending("left")
  BY ControllerAssumption DEF AppInv, CallsFit, Pending
<1>2. Pending("dac") =>
        /\ dac.at \in CidPlaces /\ call["dac"].name = Asked
        /\ call["dac"].op = IF dac.at = "verifyCid" THEN "VERIFY" ELSE IF dac.at = "killCid" THEN "KILL" ELSE "EXEC"
  BY <1>1, WhoCalls
<1>3. dac.at = "handlerCid" => Asked \notin Procs
  BY AskedIsNamed DEF CidPlaces
<1>4. dac.at = "execCid" => Asked = dac.on
  BY DEF Asked
<1> QED
  BY <1>1, <1>2, <1>3, <1>4 DEF AskedFor, Asking, CidPlaces

\* The same one step later.
LEMMA AskedNext ==
  ASSUME AppInv', NEW n \in Procs, (AskedFor(n))'
  PROVE  (Asking(n))'
<1>1. {"dac", "left"} \subseteq Callers /\ DacShape' /\ CallsFit'
  BY ControllerAssumption DEF AppInv
<1>2. call'["left"] = Nil
  BY <1>1 DEF CallsFit
<1>3. (Pending("dac"))' /\ call'["dac"].op = "EXEC" /\ call'["dac"].name = n
  BY <1>2 DEF AskedFor, Pending
<1>4. /\ dac'.at \in CidPlaces
      /\ call'["dac"] =
           IF dac'.at = "verifyCid" THEN Verify(HostOf[(Asked)'], (Asked)')
           ELSE IF dac'.at = "killCid" THEN Kill(HostOf[(Asked)'], (Asked)') ELSE Exec(HostOf[(Asked)'], (Asked)')
  BY <1>1, <1>3 DEF CallsFit, Pending
<1>5. dac'.at \in {"handlerCid", "execCid"} /\ (Asked)' = n
  BY <1>3, <1>4 DEF CidPlaces, Verify, Kill, Exec
<1>6. dac'.at # "handlerCid"
  <2>1. dac'.at = "handlerCid" => (Asked)' = HandlerList[dac'.on] /\ dac'.on \in DOMAIN HandlerList
    BY <1>1 DEF DacShape, Asked
  <2> QED
    BY <1>5, <2>1, Listed
<1> QED
  BY <1>3, <1>5, <1>6 DEF Asking, Asked

\* DAC asks for a process when all before it have ended.
LEMMA ExecAsks ==
  ASSUME AppInv, ExecProcess, (Pending("dac"))'
  PROVE  Graph!Next
<1>0. dac.at = "exec" /\ Ready # {} /\ UNCHANGED <<child, listening>> /\ {"dac", "left"} \subseteq Callers
  BY ControllerAssumption DEF ExecProcess
<1>1. PICK p \in Procs : p = FirstOf(Ready) /\ state[p] = "READY"
  <2>1. Ready \in SUBSET Procs
    BY DEF Ready
  <2> QED
    BY <1>0, <2>1, FirstIn DEF Ready
<1>2. Reply("dac", Exec(HostOf[p], p))
  <2>1. call' = call \/ Reply("dac", Exec(HostOf[p], p))
    BY <1>1 DEF ExecProcess, Asks
  <2>2. call["dac"] = Nil
    BY <1>0 DEF AppInv, CallsFit, CidPlaces
  <2> QED
    BY <2>1, <2>2 DEF Pending
<1>3. \A n \in Procs : ~AskedFor(n)
  BY <1>0, AskedIsAsking DEF Asking
<1>4. PidsOf(p) = {}
  BY <1>1 DEF AppInv, ProcessLife, ProcessFits
<1>5. \A q \in Precedents[p] : OverProc(q)
  BY <1>1 DEF AppInv, OrderKept, OrderFits
<1>6. listening = TRUE
  BY <1>0 DEF AppInv, DacShape, AppTypeOK, CidTypeOK
<1>7. call'["dac"] = Exec(HostOf[p], p) /\ call'["left"] = call["left"]
  BY <1>0, <1>2 DEF Reply, AppInv, AppTypeOK, CidTypeOK
<1>8. (Pending("dac"))' /\ call'["dac"].op = "EXEC" /\ call'["dac"].name = p
  BY <1>7 DEF Exec
<1>9. (AskedFor(p))' /\ \A n \in Procs : n # p => ~(AskedFor(n))'
  <2>1. ~(Pending("left"))'
    BY <1>0, <1>7 DEF AppInv, CallsFit, Pending
  <2> QED
    BY <1>8, <2>1 DEF AskedFor
<1>10. \A n : (PidsOf(n))' = PidsOf(n) /\ \A q \in PidsOf(n) : (Ended(q))' <=> Ended(q)
  BY <1>0 DEF PidsOf, Pids, Ended
<1>11. (JobOf(p))' = "asked" /\ \A n \in Procs : n # p => (JobOf(n))' = JobOf(n)
  BY <1>3, <1>4, <1>9, <1>10 DEF JobOf
<1>12. JobMap' = [JobMap EXCEPT ![p] = "asked"]
  BY <1>11 DEF JobMap
<1>13. JobMap[p] = "idle" /\ (\A q \in Procs : JobMap[q] # "asked") /\ \A q \in Precedents[p] : JobMap[q] = "over"
  BY <1>3, <1>4, <1>5, MapTells, ControllerAssumption
<1>14. Graph!Ask(p)
  BY <1>0, <1>6, <1>12, <1>13 DEF Graph!Ask, JobMap, JobOf
<1> QED
  BY <1>14 DEF Graph!Next

\* Every step until SIGTERM is one of JobGraph or leaves it as it is.
LEMMA JobStep ==
  ASSUME AppInv, AppStep, AppInv'
  PROVE  Graph!Next \/ (JobMap' = JobMap /\ UNCHANGED listening)
<1>1. CASE listening' # listening
  <2>1. End /\ listening = TRUE
    <3>1. End /\ ~listening'
      BY <1>1, ListeningFrame
    <3>2. listening \in BOOLEAN
      BY DEF AppInv, AppTypeOK, CidTypeOK
    <3> QED
      BY <1>1, <3>1, <3>2 DEF End
  <2> QED
    BY <2>1, EndCloses
<1>2. ASSUME listening' = listening, NEW h \in Hosts, Fork(h) PROVE Graph!Next \/ (JobMap' = JobMap /\ UNCHANGED listening)
  <2>1. PICK new : new = Len(child) + 1
    OBVIOUS
  <2>2. PICK a \in Names : a = Asked
    BY <1>2, Forks
  <2>3. /\ Pids' = Pids \cup {new} /\ new \notin Pids /\ child'[new].name = a /\ child'[new].at = "new"
        /\ \A p \in Pids : child'[p] = child[p]
    <3>1. /\ Pids' = Pids \cup {Len(child) + 1} /\ Len(child) + 1 \notin Pids
          /\ child'[Len(child) + 1] = [name |-> Asked, host |-> h, at |-> "new", status |-> Nil]
          /\ \A p \in Pids : child'[p] = child[p]
      BY <1>2, Forks, Zenon
    <3> QED
      BY <2>1, <2>2, <3>1
  <2>4. a \in Procs => PidsOf(a) = {} /\ Asking(a)
    BY <1>2, <2>2, Forks DEF Asking
  <2>5. a \in Procs => PidsOf(a) = {} /\ AskedFor(a)
    BY <2>4, AskedIsAsking
  <2>6. call' = call
    BY <1>2 DEF Fork
  <2> QED
    BY <1>2, <2>3, <2>5, <2>6, ForkStarts
<1>3. CASE ExecProcess /\ (Pending("dac"))'
  BY <1>3, ExecAsks
<1>4. CASE listening' = listening /\ (\A h \in Hosts : ~Fork(h)) /\ ~(ExecProcess /\ (Pending("dac"))')
  <2>1. Pids' = Pids /\ \A p \in Pids : GoesOn(p)
    BY <1>4, ChildrenGoOn
  <2>2. ASSUME NEW n \in Procs, (AskedFor(n))' PROVE AskedFor(n)
    <3>1. (Asking(n))'
      BY <2>2, AskedNext
    <3>2. dac'.at = "execCid" /\ dac'.on = n /\ (Pending("dac"))'
      BY <3>1 DEF Asking
    <3>3. CASE CidStep \/ NewsStep \/ AsideStep
      <4>1. dac' = dac /\ Pending("dac")
        BY <3>2, <3>3, DacCall
      <4> QED
        BY <3>2, <4>1, AskedIsAsking DEF Asking
    <3>4. CASE DacStep
      <4>1. ExecProcess
        BY <3>2, <3>4, ExecMoves DEF ExecPlaces
      <4> QED
        BY <1>4, <3>2, <4>1
    <3>5. CASE UNCHANGED appVars
      <4>1. call' = call
        BY <3>5 DEF appVars, cidVars
      <4> QED
        BY <2>2, <4>1 DEF AskedFor, Pending
    <3> QED
      BY <3>3, <3>4, <3>5, Steps
  <2> QED
    BY <1>4, <2>1, <2>2, JobsGoOn
<1> QED
  BY <1>1, <1>2, <1>3, <1>4

\* SIGTERM touches no process, and what is asked for stays so.
LEMMA JobsAtTerm ==
  ASSUME AppInv, Terminate
  PROVE  Graph!Next \/ (JobMap' = JobMap /\ UNCHANGED listening)
<1>1. UNCHANGED <<child, listening>>
  BY TermLeaves
<1>2. Pids' = Pids /\ \A p \in Pids : GoesOn(p)
  BY <1>1, ChildTypes DEF GoesOn, Course, Pids, AppInv
<1>3. ASSUME NEW n \in Procs, (AskedFor(n))' PROVE AskedFor(n)
  <2>1. (Pending("left"))' /\ call'["left"].op = "EXEC" /\ call'["left"].name = n
    BY <1>3, TermLeaves DEF AskedFor, Pending
  <2>2. Pending("dac") /\ call'["left"] = call["dac"]
    BY <2>1, TermLeaves
  <2> QED
    BY <2>1, <2>2 DEF AskedFor
<1> QED
  BY <1>1, <1>2, <1>3, JobsGoOn

\* And so does every step from then on.
LEMMA TermJobs ==
  ASSUME TermInv, TermStep
  PROVE  Graph!Next \/ (JobMap' = JobMap /\ UNCHANGED listening)
<1>1. CASE TermDac /\ End
  <2>1. listening = TRUE
    BY <1>1, TermMoves DEF TermInv, TermShape, AppTypeOK, CidTypeOK
  <2> QED
    BY <1>1, <2>1, EndCloses
<1>2. ASSUME ~(TermDac /\ End) PROVE listening' = listening
  BY <1>2, TermFrame, TermMoves DEF TermDac
<1>3. ASSUME ~(TermDac /\ End), NEW h \in Hosts, Fork(h)
      PROVE  Graph!Next \/ (JobMap' = JobMap /\ UNCHANGED listening)
  <2>1. PICK new : new = Len(child) + 1
    OBVIOUS
  <2>2. PICK a \in Names :
          /\ LeftStarts /\ a = call["left"].name
          /\ Pids' = Pids \cup {new} /\ new \notin Pids /\ child'[new].name = a /\ child'[new].at = "new"
          /\ \A p \in Pids : child'[p] = child[p]
          /\ a \in Procs => PidsOf(a) = {}
          /\ call' = call
    <3>1. PICK a \in Names :
            /\ LeftStarts /\ a = call["left"].name
            /\ Pids' = Pids \cup {new} /\ new \notin Pids
            /\ child'[new] = [name |-> a, host |-> h, at |-> "new", status |-> Nil]
            /\ \A p \in Pids : child'[p] = child[p]
            /\ a \in Procs => PidsOf(a) = {}
            /\ call' = call
      BY <1>3, <2>1, TermForks
    <3> QED
      BY <3>1
  <2>3. AskedFor(a)
    BY <2>2 DEF AskedFor, LeftStarts
  <2> QED
    BY <1>2, <1>3, <2>2, <2>3, ForkStarts
<1>4. CASE ~(TermDac /\ End) /\ \A h \in Hosts : ~Fork(h)
  <2>1. Pids' = Pids /\ \A p \in Pids : GoesOn(p)
    BY <1>4, TermGoesOn
  <2>2. ASSUME NEW n \in Procs, (AskedFor(n))' PROVE AskedFor(n)
    <3>1. ~((Pending("dac"))' /\ call'["dac"].op = "EXEC")
      BY TermDacCall DEF Kill
    <3>2. (Pending("left"))' /\ call'["left"].op = "EXEC" /\ call'["left"].name = n
      BY <2>2, <3>1 DEF AskedFor
    <3> QED
      BY <3>2, TermOldCalls DEF AskedFor
  <2> QED
    BY <1>2, <1>4, <2>1, <2>2, JobsGoOn
<1> QED
  BY <1>1, <1>3, <1>4

\* DAC asks for a process at most once, after all before it have ended, and for none when it
\* has closed its port; a process runs once at most, and then because DAC has asked for it
\* (dac.c:923, 1498, 1721), also if SIGTERM ends DAC while the CID starts it (dac.c:603).
THEOREM ControllerKeepsGraph ==
  ASSUME KillsLeaveHosts
  PROVE  Spec => ImplementsJobGraph
<1>1. Init => AppInvs /\ Graph!Init
  BY InitInv, InitJobs DEF AppInvs
<1>2. AppInvs /\ [Next]_appVars => AppInvs'
  BY AppInvsKept
<1>3. AppInvs /\ [Next]_appVars => [Graph!Next]_<<JobMap, listening>>
  <2> SUFFICES ASSUME AppInvs, [Next]_appVars PROVE Graph!Next \/ (JobMap' = JobMap /\ UNCHANGED listening)
    OBVIOUS
  <2>1. CASE TermInv
    BY <2>1, TermSteps, TermJobs
  <2>2. CASE AppInv /\ AppStep
    BY <2>2, AppInvKept, JobStep
  <2>3. CASE AppInv /\ Terminate
    BY <2>3, JobsAtTerm
  <2> QED
    BY <2>1, <2>2, <2>3, AllSteps DEF AppInvs
<1> QED
  BY <1>1, <1>2, <1>3, PTL DEF Spec, ImplementsJobGraph, Graph!Spec, JobMap, JobOf
=============================================================================
