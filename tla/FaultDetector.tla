---------------------------- MODULE FaultDetector ----------------------------
(***************************************************************************)
(* The fault detection daemon, FDD (fdd/fdd.c), which prun starts when the *)
(* application has started.  It takes the list of processes from DAC once, *)
(* asks the CIDs in turn whether each still lives, and for one that does   *)
(* not it tells DAC and has every tuple space handler recover its tuples.  *)
(***************************************************************************)
EXTENDS Controller

CONSTANT DacHost  \* where prun, DAC and FDD run

VARIABLES
  fdd,       \* [at, on]: where FDD is, at which entry of its list
  host_list, \* the processes as DAC listed them: host, pid, fault_flag
  recovered  \* pids whose tuples every handler has been told to recover

fddVars == <<fdd, host_list, recovered>>

FddAt(place, i) == [at |-> place, on |-> i]
Watching == fdd.at \in {"ping", "answer", "tell", "retrieve"}

FddInit ==
  /\ fdd = FddAt("off", 1)
  /\ host_list = <<>>
  /\ recovered = {}

\* start_fdd by prun; FDD's first request waits in the queue of DAC's port.
start_fdd ==
  /\ prun = "started" /\ Watched /\ fdd.at = "off"
  /\ IF listening
     THEN fdd' = FddAt("init", 1) /\ inbox' = Append(inbox, Op("GET_CPULIST"))
     ELSE fdd' = FddAt("over", 1) /\ UNCHANGED inbox
  /\ UNCHANGED <<up, table, starting, child, call, listening, dacVars, host_list, recovered>>

\* The list that FDD makes of DAC's answer.
gethostlist ==
  [i \in DOMAIN ProcList |->
    [host |-> HostOf[ProcList[i]], pid |-> proc_id[ProcList[i]], fault_flag |-> FALSE]]
\* DAC's answer, and the lookups of initFdd: each host must be there.
OpGetCpulist ==
  /\ Takes(Op("GET_CPULIST"))
  /\ host_list' = gethostlist
  /\ fdd' = FddAt(IF \A i \in DOMAIN host_list' : up[host_list'[i].host]
                    THEN "ping" ELSE "over", 1)
  /\ UNCHANGED <<up, table, starting, child, call, listening, dacVars, recovered>>

\* The request of an FDD whose DAC ended before it was served.
InitFails ==
  /\ fdd.at = "init" /\ ~listening
  /\ fdd' = FddAt("over", 1)
  /\ UNCHANGED <<cidVars, dacVars, host_list, recovered>>

Watch == host_list[fdd.on]
\* Mutants of NextEntry: an index off by one, and a loop that stops before the last.
NextEntryModulo == (fdd.on + 1) % Len(host_list)
NextEntryButLast == IF fdd.on + 1 >= Len(host_list) THEN 1 ELSE fdd.on + 1
NextEntry == (fdd.on % Len(host_list)) + 1

\* fdd_ccid: the question ...
Ping ==
  /\ fdd.at = "ping"
  /\ IF Watch.fault_flag
     THEN fdd' = FddAt("ping", NextEntry) /\ UNCHANGED call
     ELSE /\ Reply("fdd", Detect(Watch.host, Watch.pid))
          /\ fdd' = FddAt("answer", fdd.on)
  /\ UNCHANGED <<up, table, starting, child, listening, inbox, dacVars, host_list, recovered>>

\* ... and the answer; none at all is taken for a death as well.
Pinged ==
  /\ fdd.at = "answer" /\ call["fdd"] # Nil /\ ~Pending("fdd")
  /\ Reply("fdd", Nil)
  /\ IF call["fdd"].op = "ANSWER" /\ call["fdd"].ok
     THEN fdd' = FddAt("ping", NextEntry) /\ UNCHANGED host_list
     ELSE /\ host_list' = [host_list EXCEPT ![fdd.on].fault_flag = TRUE]
          /\ fdd' = FddAt(IF Watch.host = DacHost /\ call["fdd"].op = "NO_ANSWER"
                            THEN "over" ELSE "tell", fdd.on)
  /\ UNCHANGED <<up, table, starting, child, listening, inbox, dacVars, recovered>>

\* fddchangeproc: without DAC, FDD exits.
TellDac ==
  /\ fdd.at = "tell"
  /\ IF listening
     THEN /\ inbox' = Append(inbox, [op |-> "FDDCHANGE_PROC", host |-> Watch.host, pid |-> Watch.pid])
          /\ fdd' = FddAt("retrieve", fdd.on)
     ELSE fdd' = FddAt("over", 1) /\ UNCHANGED inbox
  /\ UNCHANGED <<up, table, starting, child, call, listening, dacVars, host_list, recovered>>

\* Tfddretrievetuple, over the list of handlers: the first that cannot be reached ends FDD.
Reachable(n) == proc_id[n] \in Pids /\ child[proc_id[n]].at = "up"
Tfddretrievetuple ==
  /\ fdd.at = "retrieve"
  /\ IF \A n \in Handlers : Reachable(n)
     THEN recovered' = recovered \cup {Watch.pid} /\ fdd' = FddAt("ping", NextEntry)
     ELSE fdd' = FddAt("over", 1) /\ UNCHANGED recovered
  /\ UNCHANGED <<cidVars, dacVars, host_list>>

FddStep == InitFails \/ Ping \/ Pinged \/ TellDac \/ Tfddretrievetuple

\* prun kills FDD when DAC has told it the end.
StopFdd ==
  /\ prun = "told" /\ fdd.at \notin {"off", "over"}
  /\ fdd' = FddAt("over", 1)
  /\ Reply("fdd", Nil)
  /\ UNCHANGED <<up, table, starting, child, listening, inbox, dacVars, host_list, recovered>>

FddTypeOK ==
  /\ host_list \in Seq([host : Hosts, pid : Nat, fault_flag : BOOLEAN])
  /\ recovered \subseteq Nat
  /\ fdd.on \in 1 .. Len(ProcList)
=============================================================================
