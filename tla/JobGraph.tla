------------------------------ MODULE JobGraph ------------------------------
(***************************************************************************)
(* What the application controller promises of the processes of an         *)
(* application, told by what runs on the hosts and not by what DAC         *)
(* believes: a process is asked for only after those before it in the      *)
(* precedence graph have really ended, one process at a time, and none     *)
(* once the application is closed; it runs at most once, and then because  *)
(* it was asked for.                                                       *)
(***************************************************************************)
CONSTANTS Procs, Precedents

VARIABLES
  job,  \* job[p]: "idle", "asked" for at its host, "active" or "over"
  open  \* the application accepts requests

Init ==
  /\ job = [p \in Procs |-> "idle"]
  /\ open = TRUE

Ask(p) ==
  /\ open
  /\ job[p] = "idle" /\ \A q \in Procs : job[q] # "asked"
  /\ \A q \in Precedents[p] : job[q] = "over"
  /\ job' = [job EXCEPT ![p] = "asked"]
  /\ UNCHANGED open

\* The one that has been asked for starts, though the application has closed since.
Start(p) ==
  /\ job[p] = "asked"
  /\ job' = [job EXCEPT ![p] = "active"]
  /\ UNCHANGED open

\* Some end, by themselves or with their host; one is refused, or lost before it starts.
Finish(S) ==
  /\ S # {} /\ \A p \in S : job[p] \in {"asked", "active"}
  /\ job' = [p \in Procs |-> IF p \notin S THEN job[p]
                             ELSE IF job[p] = "asked" THEN "idle" ELSE "over"]
  /\ UNCHANGED open

Close ==
  /\ open
  /\ open' = FALSE
  /\ UNCHANGED job

Next ==
  \/ \E p \in Procs : Ask(p) \/ Start(p)
  \/ \E S \in SUBSET Procs : Finish(S)
  \/ Close

Spec == Init /\ [][Next]_<<job, open>>
=============================================================================
