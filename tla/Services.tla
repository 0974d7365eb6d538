------------------------------- MODULE Services -------------------------------
(***************************************************************************)
(* The parts of Synergy that a program of an application calls beside the  *)
(* tuple space handler: the advanced tuple spaces of a parallel loop, and  *)
(* the plain calls at one; the file handler, the direct tuple spaces of    *)
(* the CIDs, and pipes.  They are programs of their own and share no       *)
(* state, so a step of one changes nothing for another, and it is enough   *)
(* to look at each by itself: the initial state chooses which.             *)
(***************************************************************************)
EXTENDS ParallelLoop, FileHandler, DirectSpaces, Pipes

CONSTANTS Askers, Director, Names, Expressions, MaxContents, MaxCalls, MaxLosses   \* of Plain
VARIABLES
  up, plainSpace, plainQueue, fenced, round, request, asking, contents, calls, takers, lostContents,   \* of Plain
  service   \* the part that is looked at

ASSUME PlainAssumption == MaxContents \in Nat

Plain == INSTANCE PlainSpace
  WITH space <- plainSpace, queue <- plainQueue, call <- request, living <- asking,
       puts <- contents, gone <- lostContents
plainVars   == <<up, plainSpace, plainQueue, fenced, round, request, asking, contents, calls, takers, lostContents>>
serviceVars == <<service, loopVars, fileVars, directVars, pipeVars, plainVars>>

\* What is not looked at begins in one state of its own, and stays there.
ServicesInit ==
  /\ service \in {"loop", "files", "direct", "pipes", "plain"}
  /\ LoopInit /\ FileInit /\ DirectInit /\ PipeInit /\ Plain!PlainInit
  /\ service # "loop"  => prog = Compile(CHOOSE p \in Programs : TRUE)
  /\ service # "files" => use = CHOOSE u \in Uses : TRUE
  /\ service # "pipes" => script = CHOOSE s \in Scripts : TRUE

Client(c) == service = "loop" /\ Runs(c) /\ UNCHANGED <<service, fileVars, directVars, pipeVars, plainVars>>
Death(w)  == service = "loop" /\ Dies(w) /\ UNCHANGED <<service, fileVars, directVars, pipeVars, plainVars>>
Files     == service = "files" /\ FileNext /\ UNCHANGED <<service, loopVars, directVars, pipeVars, plainVars>>
Direct    == service = "direct" /\ DirectNext /\ UNCHANGED <<service, loopVars, fileVars, pipeVars, plainVars>>
Peer(q)   == service = "pipes" /\ PeerStep(q) /\ UNCHANGED <<service, loopVars, fileVars, directVars, plainVars>>
PlainCalls == service = "plain" /\ Plain!PlainNext /\ UNCHANGED <<service, loopVars, fileVars, directVars, pipeVars>>

ServicesNext ==
  \/ \E c \in Clients : Client(c)
  \/ \E w \in Workers : Death(w)
  \/ Files \/ Direct \/ PlainCalls
  \/ \E q \in Peers : Peer(q)

\* LoopFairness and PipeFairness: each program goes on while it can.
ServicesFairness ==
  /\ \A c \in Clients : WF_serviceVars(Client(c))
  /\ \A q \in Peers : WF_serviceVars(Peer(q))

ServicesSpec == ServicesInit /\ [][ServicesNext]_serviceVars /\ ServicesFairness

\* Nobody waits for a tuple that is where he asked: at his CID, each put serves the requests
\* that match, also behind those that read and those of the dead; so it does at an advanced
\* handler, which also keeps everybody who waits for the task map, unless a new round begins,
\* and gives the tokens of a loop to who waits for one (cid.c:3332; ntsh/tsh.c:494, 928, 1567).
NobodyWaitsBesideMatch == NoWaitBesideMatch /\ Plain!WaitersAreQueued /\ NoWaitBesideToken

\* A value that was put is taken once at most, and until then it can be found, unless it has
\* been overwritten, zapped or removed, or its handler has ended: in the tuple spaces of the
\* CIDs and at an advanced handler (cid.c:3243, 3332; netlib.c:257; ntsh/tsh.c:275, 337).
EveryPutAccounted == PutsAccounted /\ Plain!ContentsAccounted

\* In a loop of the parallel language the master gets the results of all rounds, unless a
\* token is lost with a worker that dies: its workers never all wait for each other's parts,
\* for the tokens are issued in an order the dependences allow (ntsh/tsh.c:1567).
LoopMasterEnds == service = "loop" => MasterEnds

\* In such a loop every worker sees the terminator and ends, unless it opens the spaces after
\* the master has ended: the first to meet the terminator leaves it (ntsh/tsh.c:1320).
LoopWorkersEnd == service = "loop" => WorkersEnd

\* The programs at both ends of a pipe, whose calls fit together, come to their end, whichever
\* starts first and though each write waits for its read (cnf_write.c:43, cnf_close.c:44).
PipePeersEnd == service = "pipes" => PipesEnd
=============================================================================
