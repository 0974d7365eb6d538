# A verification project for Synergy 3.0

Synergy is a runtime for parallel programs built from *tuple space objects*: named
daemons that store tuples, hand them to whoever asks and remember what they handed
out, so that the work of a dead processor can be given to another. This directory
holds TLA+ models of its daemons, the TLC configurations that check them, and proofs
that TLAPS checks. Every definition is translated from the C and Java source under
`src/`; `PROJECT.json` maps each one to the lines it stands for.

## 1. Inventory

| part | source | state it keeps | operations | module |
|---|---|---|---|---|
| tuple space handler, TSH | `tsh/tsh.c` | doubly linked list of tuples, FIFO queue of blocked requests, one backup ("shadow") entry per client, task counters and their queue | PUT, GET, READ, RETRIEVE, EXIT, SOT, EOT, GTS | TupleSpace |
| advanced handler | `ntsh/tsh.c`, `api_lib` | the same lists, data tuples that are parts of arrays, token tuples, a terminator | the same and SEND_DATA, READ_DATA, SET_TOKEN, GET_TOKEN, ACTIVATE, CLEANUP | AdvancedSpace, TokenTuples, PlainSpace |
| programs of a parallel loop | `PML`, `api_lib` | what they hold | the calls that the PML compiler generates | ParallelLoop |
| client library | `iolib/cnf_ts*.c`, `cnf_gts.c`, ... | one socket per object | blocking and asynchronous calls | with their servers |
| control interface daemon, CID | `cid/cid.c` | process table | EXEC, KILL, KILL_APP, DETECT_PROC, exit reports by SIGCHLD | ProcessTable |
| | | port table | MAP, UNMAP, GET_MAP, EXIT, its start | PortMapper, Names |
| | | list of applications | SAVE_APP, UPDATE, GET, DEL_APP, KILL_APP, DEL_APP_LIST | AppList |
| | | direct tuple spaces | PUT, GET, READ, ZAP, VT_UPD | DirectSpaces |
| | | users, files | FILE_PUT, FILE_GET, REMOVE, ADD_USER, DELETE_USER | LoginFiles |
| port mapper, PMD | `pmd/pmd.c` | table of 200 slots name -> port | NULL, MAP, UNMAP, GET_MAP, GET_TABLE, PURGE, EXIT | PortMapper |
| application controller, DAC | `dac/dac.c` | processes and handlers with a state each, dependency counts | START, EXIT_PROCESS, KILL, KILL_ALL, EXIT, FDD_CHANGE_PROC, GET_CPULIST | Controller |
| fault detection daemon, FDD | `fdd/fdd.c` | list of watched processes with a fault flag | ping every CID in turn; on a failure tell DAC and every TSH | FaultDetector |
| run and check commands | `ssh/prun.c`, `ssh/pcheck.c` | the list last shown | start, wait, kill, delete | Application, AppList |
| file access handler, FAH | `fah/fah.c` | table of open streams | open, close, flush, reads, writes, EXIT | FileHandler |
| pipes | `iolib/cnf_open.c`, `cnf_write.c`, `cnf_read.c`, `cnf_close.c` | sockets | rendezvous of two programs | Pipes |
| host commands | `utils` | `~/.sng_hosts` | add, delete, select hosts; start and end their CIDs | HostTable |
| CSL compiler | `cnf` | the nodes of a program graph | synonyms, declarations, checks | Configurator |

**Who talks to whom.** `prun` starts a DAC and sends it START. DAC starts handlers and
processes through the CIDs, which fork them and report their exits to DAC. A started
handler registers its port with the CID's port table (PMD holds the ports of the CIDs). A
process looks a handler's port up, connects, sends one request and reads one answer; if a
GET or READ has no match the answer says so, the request is queued, and the process blocks
in `get_connection` until the handler connects back to its return port. FDD pings the CID
of every process; for one that is lost it sends FDD_CHANGE_PROC to DAC and RETRIEVE to each
handler. There is no shared memory between daemons: each is a single thread that serves
one connection at a time, except that CID and DAC handle signals in the middle of their
operations. Commands share files (`~/.sng_hosts`, the users' file) and lock none.

**Two handlers, one name.** The top-level makefile builds `tsh` first and `ntsh` last, and
both install `bin/tsh`: a full make leaves the advanced handler. It serves the same plain
requests with routines that look alike but keep no backup (its OpRetrieve never finds an
entry, so that what a dead worker took is lost) and count no fetched task (so that
`cnf_gts` is answered only while TIDS is 0). TupleSpace models the documented handler,
PlainSpace what the other makes of the same calls.

**What is hard.** Clients die between any two of a handler's writes and connects.
Requests of dead clients are still in listen queues when their RETRIEVE arrives. FDD
may take a live client for lost. Blocked requests must be neither dropped nor passed
over. The lists are doubly linked, and insertion at the head exists only for recovery.
Waiters for the task map are woken at one place only. In DAC the exit report, the kill
and the loss report of one process race, and a child may end before the CID has entered
its pid. The table of processes frees a slot before its child is dead. Workers of a loop
wait for data that other workers make. Lookups and calls are two steps between which
programs end and restart. `PROJECT.json` "hazards" has the list, each at its line, with
the property that covers it or the reason there is none.

**What makes each part correct.**

* TSH: a content is in one place and is lost only by replacement, by completion of its
  holder or with the handler; no arrival passes a matching waiter; no two unfenced
  holders; nobody blocked and forgotten; the handler never crashes.
* Application: the master gets a result of every task although workers die.
* Advanced handler: data is whole when it is handed out, each iteration of a loop is run
  once, the master and the workers end.
* DAC with the CIDs: a process runs once and after all it follows; reports are true; no
  end is forgotten; the application ends and leaves nothing behind (SIGTERM in the middle of a
  start is the exception, finding 5).
* PMD, CID: a finite map of bounded size; whoever serves is found, whoever has left is not.
* CID's list of applications: what is shown is what has been saved and not deleted.
* FAH: a file identifier refers to one open stream; what was acknowledged is on disk.
* Pipes: a write ends with its read, in order, and both programs come to their end.
* Direct tuple spaces: every value is taken once at most, and nobody waits beside a match.

## 2. What is modelled

### TupleSpace (tsh/tsh.c and its clients)

One daemon per member of `Spaces`. `space`, `queue` and `retrieve` are the daemon's
lists; a tuple node keeps its back pointer `prev` (as the name of the node it points to,
names being unique in a list), because `deleteTuple` follows it. `info` holds `EOT`,
`TIDS`, `total_fetched` and `tid_q`. `call` is the request a client has sent and not
seen answered (it may sit in the listen queue), `waiting` the handler a client is
blocked on, `got` what its last call returned.

Each operation of the daemon is one action, since the daemon is single threaded and
interacts with nobody in the middle, with one exception. `consumeTuple` connects to one
requestor after another, and clients move on between the connects; so PUT and RETRIEVE
put the tuple in `hand`, each `ConsumeTuple` step is one iteration of that loop,
`StoreHand` is the store when no request matches, and both end with what the operation
does last (`Finish`: the reply of PUT, the fault mark of RETRIEVE). Other requests wait
while `hand` is occupied. `OpGet` is split by outcome: `OpGetMiss`, `OpGetHit` (all three
writes done, which for a dead client means that they went into the socket buffer) and
`OpGetLost` (a write fails; nothing is deleted).

The environment: `Crash` (a client dies; what it sent stays in the daemon's socket),
`Suspect` (FDD finds its process dead, or cannot reach its CID when `FalseSuspicion`).
RETRIEVE reaches a handler any time after that, once per client: FDD sets `fault_flag`
and sends it in the same pass.

A wildcard expression is the set of names it matches. Contents are distinct: every PUT
carries a new one, so that a content can be followed.

`SigPipe` says whether a write to a reset connection raises SIGPIPE. Nothing in the
repository ignores or catches it, so TRUE is what a Unix build does; FALSE stands for
the return value 0 that `writen` documents, and lets the runs look beyond the first
killed handler.

### ShadowTuples (abstract)

What the handler promises of a content, without lists: unknown, offered, stored, held by
a client, gone. `TupleSpace!ShadowTupleLife` is the refinement mapping: `Where` reads the
place of a content off the hand, the list and the backup entries, and two places at once
map to no abstract state.

### TaskFarm (TupleSpace composed with the programs)

Master and workers of the bag-of-tasks protocol (Getting-started.txt:243-247 and
305-323) around two handlers, FDD and recovery. Their programs are not in the
repository; the module restricts the clients of TupleSpace to the calls the protocol
makes (`FarmRequests`), which is the way the library is documented to be used. A worker's
input is in `got`: it is lost with the worker, and its shadow is with the handler.

### Application: ProcessTable, Controller, FaultDetector, JobGraph

`Application` composes prun, DAC, one CID per host, FDD and what comes from outside.

* ProcessTable: `table[h]` is the slots of the CID at h, `child[p]` the operating system's
  view of a program it has forked (new, up, signalled, zombie, gone). An EXEC is three
  steps (`FillSlot`, `Fork`, `EnterPid`) with `sigchldHandler` between any two of them. A
  kill sends the signal and frees the slot at once. `call[c]` is the one connection that
  DAC, FDD or a user has open to a CID; `inbox` the exit reports that wait at DAC's port.
* Controller: `dac.at` says where DAC is in an operation, since it waits for the answers
  of CIDs in the middle: VERIFY_APP asks them for every program, START starts the handlers
  in order, then the ready processes; an exit report frees the processes that waited and
  starts them; KILL_ALL and EXIT kill the processes one at a time and then the handlers.
  `sigtermHandler` interrupts DAC at any of these places, kills in the same way what DAC
  knows to run, and ends it. `cut` remembers where DAC was; what it had asked a CID for and not
  been answered stays behind as the call of "left", which the CID serves with nobody to take the
  answer; and a program that DAC was starting goes on by itself (`GoesOnAlone`).
* FaultDetector: the snapshot of DAC's list, the ping loop, FDD_CHANGE_PROC and the RETRIEVE
  to each handler, with the points at which FDD gives up.
* JobGraph (abstract): a process is idle, asked for, active or over; it is asked for after all
  its precedents are over, one at a time, and none after the application has closed; it
  starts once, and only if it was asked for. (DAC may be gone by then: a CID goes on with the
  EXEC that it has read.) The mapping reads what runs on the hosts and what the CIDs have been
  asked, not what DAC believes.

### Services: the parts a program calls beside TSH

They share no state, so that a step of one changes nothing for another; `Services` is their
union, and the initial state chooses which one is looked at.

* TokenTuples: how `createTokenTuples1` and `2` cut a loop of one or two indices into
  tokens, by chunks, by jumps, or along the diagonals when the iterations depend on each
  other.
* AdvancedSpace: the lists and queues of the handler for data and for tokens (one list and
  one queue in the code, in which neither kind matches a request of the other). A data
  tuple is a part of an array or a whole one; a request collects parts until it has as
  many indices as it asked for. What a tuple gives a request is a function from the indices of
  the request to those of the tuple (`Share`), since the four copies between parts and whole
  arrays do not all put an element where its index says: of two dimensions a row of a part is
  copied in one piece, whatever its step (`FullTupleToPartReq2`, `PartTupleToFullReq2`).
  `advOpCleanupSpace`, `advOpCleanupQueue` and the
  terminator follow the code, as does the exit when a requestor cannot be reached.
* ParallelLoop: `Compile` is the code that the PML compiler's Java classes generate for a
  loop (which data are sent, read, distributed, reduced, for which token), `Runs` one call
  of a master's or a worker's program. Element x of an array holds x and the round, so that a
  copy to the wrong place shows. The loops are those of `MCPrograms` in MCServices:
  rows in chunks, with a reduced scalar, over two rounds; a wavefront, in which a part needs
  those above and to its left; strips of two indices of different order, one with a jump; parts
  that are every second element of a vector, or every second column of a matrix.
* PlainSpace: PUT, GET, READ, RMALL, SOT, EOT, GTS, RETRIEVE and EXIT at the advanced
  handler.
* FileHandler: `table` is FAH's streams, each with its stdio buffer; `link` what a client
  keeps of its open file; `disk` the files. Any user makes any call: who opened a file to read
  may write to it, which OpFwrite and OpFputc refuse and OpFputs acknowledges. EXIT and SIGTERM
  flush one stream after another (`fah` is "exits" meanwhile), a kill flushes none.
* DirectSpaces: the lists of tuples and of requests of each CID for one application; a
  virtual tuple says where the real one is, and `getRealTuple` is the second call to there.
  `findTuple` finds what the code finds, which need not be the match of highest priority.
* Pipes: registration, lookup, connection at the first write, and a message as three
  exchanges (length, echo, data). A length of 0 is the end.
* Sublists: what is left of a list from which some nodes are deleted, by positions and
  without recursion. AdvancedSpace, PlainSpace, DirectSpaces and AppList build their lists with
  it, so that they can be reasoned about.

### HostPrograms: what runs on a host beside the applications

Again a union by the choice of the initial state; where it is not PMD's turn the modelled
PMD has ended before the part begins.

* PortMapper (pmd/pmd.c) and PortMap (abstract): the table of slots with key, port, pid
  and mark. `getSlot` scans once and remembers the first unused slot; it answers the slot
  that keeps the key, used or not. Removal clears marks only. `initOther` clears the marks
  of a table fresh from malloc; the names in it are read by `getSlot` before they are
  written. On a fresh heap they are empty, and no client registers an empty name: `NoKey`.
  PortMap is a finite map with `Capacity` keys. CID's port table (`cid.c:2288-2680`) repeats
  these routines.
* Names: how a CID takes the place of the one it finds, and how handlers and DACs register,
  are found and leave. PMD has one entry here, `leader`; a lookup and the call that uses it
  are two steps.
* AppList: the list of applications as the memory of its nodes with `next`, and the head and
  tail pointers of the CID, which deletion leaves as the code leaves them. DACs announce
  themselves and their states; pcheck acts on the list that it has shown. `wrong` is set
  where the CID follows a pointer to freed memory or nowhere, and ends the behaviour.
* HostTable: the lines of `~/.sng_hosts`, and the commands that read it, ask, and write it.
  addhost on a file without lines, which `delhost -f` of the last host leaves, ends by a
  signal, and goes on doing so until the file is removed.
* Configurator: `syn_list` (the lists of synonyms) and `links` (predecessors and successors)
  under statements in any order, then `process_synonyms` as one pass with its two indices.
* LoginFiles: file_put, file_get and file_remove, one segment at a time, while either side
  may die; the file of users, which the CIDs of several hosts append to or copy and rename.

## 3. Runs

All runs use the real next-state relation; nothing is constrained but by the constants.
`CHECK_DEADLOCK FALSE` everywhere: clients may all be blocked or dead, programs and
applications end, and daemons may exit, all of which the real system does.

| run | instance | shows |
|---|---|---|
| tsh_lists | 1 handler, 2 clients (may die, may be falsely suspected), 2 names, 3 contents, SIGPIPE | types, no missed match, one unfenced holder, blocked = queued, list surgery |
| tsh_shadow | 1 handler, 3 clients that may die, 2 contents, wildcard GETs, SIGPIPE | refines ShadowTuples, nothing stranded, no crash |
| tsh_tids | 1 handler, 3 clients, rounds of 2 tasks | a task map is never early |
| tsh_crash | 1 handler, 2 clients, named GETs | **violated**: NULL back pointer after a recovery |
| tsh_gts | rounds of 2 tasks, 3 clients, fair | **violated**: lost wakeup of cnf_gts |
| farm | 2 handlers, master, 2 workers of which 1 may die, 2 tasks, fair | no task lost, issue order kept, the application completes |
| farm_suspected | the same, nobody dies, CIDs may be unreachable | **violated**: a fenced live worker takes a task that is lost |
| farm_sigpipe | both workers may die, SIGPIPE | **violated**: a worker's death kills the handler |
| app | prun, DAC, 2 CIDs of 3 slots, FDD, 3 processes (one after the two others), 1 handler, programs that are refused or end at once, one of: KILL, KILL_ALL, SIGTERM in the middle of any operation of DAC, KILL_APP, loss of a host; fair | implements JobGraph; no orphans but what SIGTERM cuts short, true reports, no lost exit; the application ends; a loss is recovered |
| app_sigterm | the same | **violated**: SIGTERM leaves a process that DAC was starting |
| services | one part at a time: 5 loops with a master and 2 workers of which 1 may die; 3 users of 2 files, 2 streams; 2 CIDs, 3 tasks, 3 direct tuples; 3 programs on 2 pipes; 3 clients of plain calls, 2 contents, 4 calls, 1 death; fair programs | whole data but for columns, every iteration once, master and workers end; handles, acknowledged writes, reads; nobody waits beside a match, every put accounted for; pipes are a rendezvous and end |
| host | one part at a time: PMD with 3 names on 2 slots; 2 CIDs, 2 handlers, a DAC, 1 mishap; 3 applications, 2 DAC ports; 2 hosts, 2 shells; 4 statements on 6 names; 2 callers and 2 files; 2 CIDs, 2 users | PMD implements the finite map; names are true; the list of applications, the table of hosts, the synonym lists and the files are what the commands made them |

**Why these bounds.** The handler's code treats clients, names and contents alike, so the
bounds have to give each interaction its actors. Three contents make a list with head,
middle and tail, and leave one stored while one is held and one recovered. Two clients
give a holder and a competitor; three (tsh_shadow) give a waiter passed on the way to a
second waiter while the first holder is dead. Two names are enough for a GET that skips
the head and for replacement by name. The farm's two tasks and two workers let one worker
die with a task, or with the sentinel, while the other is blocked, works, or holds the
other task; that no task is lost and that the order is kept when both die was checked alone (679
thousand states) and is proved for any number of workers that die. In PortMapper three names over two slots reach "full", "full but known" and
"unused slot that keeps another key" (four names over three slots was checked alone). In
`app` p3 waits for p1 and p2, which run beside the handler on another host, so that
reports come from one CID while an EXEC is under way at the other, and any of them may be
killed or lost at any step of the others; three slots hold all that run on a host.
Symmetry is used only in runs that check no temporal property with fairness, over
constants the specification does not tell apart.

Larger instances of the parts were checked once, with the same properties: of `app`, with two
of the outside events (4.4 million states), safety only; PlainSpace with no bound on
calls (6.86 million); AppList with two requests from outside (1.55 million); Names with
three CIDs (4.3 million); HostTable with three hosts and one shell (18 thousand);
Configurator with five statements (290 thousand); LoginFiles with three callers (508
thousand). All were clean. The inductive invariants of section 5 were checked on the
instances of the runs before they were proved.
`MaxOutside`, `MaxDeaths`, `MaxLosses`, `MaxMishaps`, `MaxKills` bound what goes wrong;
`MaxItems`, `MaxPuts`, `MaxContents`, `MaxCalls`, `MaxApps`, `MaxAsked`, `MaxWaiting`,
`MaxStatements`, `MaxSegments`, `MaxChanges` bound what is asked.

**Fairness.** A handler serves its listen queue in order and never stops, so each pending
request is served in the end: strong fairness of `Serve(s, c)`, strong because between two
visits the handler is busy with others and the action is disabled. The loop of
`consumeTuple` and the store are weakly fair, being the daemon's own code. Programs that
are alive go on (weak fairness of their steps), and FDD's endless ping loop finds a dead
process. In `app` each CID serves what DAC and FDD ask it (a call stays pending until it is
served, so that weak fairness per caller is enough), the kernel delivers SIGCHLD, DAC, prun and
FDD go on, and a program that runs ends. Nothing is assumed of an operator's request, nor of what
DAC has left behind at SIGTERM. In `services` every program of a loop or a pipe goes on while it
can. No fairness is assumed of deaths, false suspicion, kills, losses or EXIT.

`FairRoundSpec` (tsh_gts) lets SOT and EOT alternate as one master issues them
(`cnf_sot`, `cnf_eot`); the lost wakeup needs no misuse.

**Where a property stops.** Some liveness and safety properties name the case in which the
code does not keep them; each is a behaviour of the code that was seen in a run:

* `AppEnds` (`Disturbed`): prun leaves its DAC running when the application is not
  verified (`exit(0)` in prun.c:226 without OpExit). A process that ends before its CID
  has entered its pid is reported by nobody, and DAC waits for it for ever. After OpKill
  of the last process, a refused last EXEC, or a loss that FDD reports, DAC does not look
  whether the application has ended ("DAC itself will terminate when all processes exit",
  dac.c:700, holds for exit reports only).
* `NoOrphans` (`CutShort`): SIGTERM leaves the process or the handler that DAC was starting, and,
  if it interrupts killAllHandlers, the handlers behind the first: the second walk along the list
  stops at the one that is KILLED already (dac.c:1467). `TermKillsAll` says without exception
  what the notes of the signal handler say, and is violated (finding 5).
* `ReportsAreTrue`: in run `app` nothing starts on a host after a kill there. OpKill frees the
  slot of what it kills and leaves the pid in it; an EXEC that takes the slot before the SIGCHLD
  is what is reported, before it is forked (with p1, p2, p3 on one host, p3 after p1, and KILL of
  p2, the property fails). `NoLostExit` excludes KILL_APP: a CID that has freed the slots reports no
  end. Both are about DAC while it takes reports, which after SIGTERM it does not.
* `DataIsWhole` (`SkipsColumns`): where the tokens of a loop read or send every second column of a
  matrix, the handler copies the rows of a part in one piece (ntsh/tsh.c:2540, 2628): what is read
  are neighbouring columns, and what is put together has wrong values and holes, counted as
  complete. The comments over the two routines, and the strided copies left in them as comments
  (2531), say otherwise. Run `services` has such a loop, which comes to its end all the same.
* `SavedIsOnDisk` is about who opened a file to write it: cnf_fputs on a file opened to read is
  answered with success and writes nothing (fah.c:712), against cnf_fputs.c:3.
* Direct tuples: `findTuple` has an `else` that belongs to the inner `if` (cid.c:3503), so that a
  later match replaces the one found whenever their priorities differ, against its notes
  (3472-3474), and a request for any tuple may be sent to another host for a virtual one although
  a real one is there. `EveryPutAccounted` and `NobodyWaitsBesideMatch` hold of that too.
* `LossRecovered` is about FDD's one snapshot, while it watches: a process started later is
  never recovered.
* `LoopMasterEnds` (`Lost`): a token that dies with a worker is given to nobody else, and
  the handler exits when it cannot reach a requestor. `LoopWorkersEnd` (`Late`): a worker
  that opens the spaces after the master has ended removes the terminator.
* `EveryCidIsFound`: not CIDs that start at once, nor those that outlive a PMD.
* `HostFileIsRight`, `LoginFilesAreRight`: commands and deletions that overlap lose updates.
* `AppListIsTrue`: after DEL_APP of the last element, the tail pointer dangles.

## 4. Findings

Each violated run is a disagreement between the code and what a comment or document says
of it; `PROJECT.json` "findings" quotes the line and tells the trace.

1. `storeTuple(s, 1)` leaves the old head's back pointer NULL; `deleteTuple` follows it.
2. `OpTshEot` is the only place that wakes queued `cnf_gts` callers, and only if every
   task was fetched before EOT.
3. A live worker with an unreachable CID is fenced, but `consumeTuple` serves its queued
   request: the task is recorded where recovery will never look again.
4. SIGPIPE ends a handler that answers a dead worker.
5. SIGTERM at DAC leaves running what DAC is just starting: a process is FAILED from before its
   EXEC until it has answered, and only RUNNING ones are killed.

Beside the cases of section 3, reading the code for the models showed, without a run:
`DelTRQue` follows NULL pointers when a killed application's direct tuples are first or
last in the CID's list (cid.c:4075); `prun` waits for ever when DAC is ended by SIGTERM;
`cnf_close` of a file closes the program's own descriptor that has the number of FAH's slot
(cnf_close.c:88); a second START after a failed lookup starts the handlers again (dac.c:1337);
OpDetectProc clears the mark it reports, so that a second ping of a dead process succeeds (cid.c:3146);
a live process whose CID cannot be reached is marked KILLED and left running; `pmd_getmap`
answers -1 for a name that is not mapped, and callers test `!port` only (pmdlib.c:182); `cnf_fseek`
sends a flush (cnf_fseek.c:15); two programs that both write to each other first wait for
ever, as does the reader of a pipe closed unwritten; `getRealTuple` ends its program when
the real tuple is gone (netlib.c:318); pcheck kills from a list that may be old
(pcheck.c:668).

## 5. Proofs

`ListProofs` has the lemmas that several of the others use: a set of numbers has a least
(`LeastIn`), what is left of a list when a node is deleted (`RemoveAtProperties`) or many are
(`PlacesInOrder`, `SublistElements`: places ascend, items stay in order).

`TupleSpaceProofs` first proves five properties of the handlers for every set of handlers,
clients, names, contents and requests, and lists and queues of any length. They rest on
lemmas about the routines of `tsh.c`: what `findTuple` and `findRequest` return
(`FindTupleFound`, `FindRequestFound`), and what
`storeTuple` and `deleteTuple` leave of a list (`StoreTupleShape`, `UnlinkProperties`).

* `TypeCorrect`: `TypeOK` alone is not inductive, for OpRetrieve makes a tuple of a backup
  entry, and an entry it made itself has no name. `TypeInv` adds that an entry not marked
  faulty was filled from a tuple (`EntryFilled`) and that the entry a RETRIEVE is working
  on stays until it is marked (`RetrievedHasEntry`). One lemma for each operation.
* `ListsAreWellFormed`: `ListWellFormed` is inductive with `TypeInv`. Storing appends a
  node that points to the old last one, or pushes one that points nowhere and leaves the
  old head's pointer NULL; unlinking passes the deleted node's pointer on. (That the
  pointer of the old head stays NULL is allowed by `ListWellFormed`, and is what finding 1
  is about.)
* `NoMatchIsMissed`: by `HandlerStep`, a running handler's list and queue change in few
  ways only: a tuple is stored after a search of the whole queue, a request is queued after
  a search of the whole list, and deletions do no harm.
* `NothingIsStranded`: under the hypothesis that FDD suspects only dead clients
  (`~FalseSuspicion`; finding 3 is what happens without it). The inductive invariant
  `FenceInv` adds that suspected clients are dead and that only they are marked or
  retrieved. An entry is written for a client that is not marked (`guardf`) or that was
  reached just now, so lives; nothing is written to a marked entry but its emptying.
* `WildcardsNeverCrash`: under the hypothesis `RequestsForAnything` (every GET asks for any
  name, and all priorities are the same, as in the bag of tasks), `NoCrash` is inductive: such a
  GET finds the head (`HeadIsFound`), and unlinking the head follows no back pointer. With a
  named GET, finding 1 is the counterexample.

It goes on with what the handlers owe their clients.

* `BlockedStandInQueue`: `WaitInv` says that a call in flight belongs to a client that is
  not blocked, and, of each queue, that who stands there is blocked on this handler, stands
  there once, and that every live client blocked on it stands there. Hypothesis
  `NoTaskMap`: nobody asks for the task map. With GTS the property is false, beyond finding
  2: `send_tidinfo` leaves its queue as it is, so that a second EOT answers a client that is
  by now blocked in a GET, and `OpTshSot` drops the queue with its clients asleep. TLC
  checks the property in `tsh_lists`, which has no GTS for that reason.
* `OneHolder`: the inductive `HoldInv` follows a content through every place it can be
  found: a PUT in flight brings a content of its own; accepted contents stand in one node;
  what is in hand is not in the list and held by nobody but the client it is recovered from;
  what an unfenced client holds is nowhere else; a backup entry of an unfenced client is
  something it was handed. No hypothesis: it holds with false suspicions and crashes.
* `TaskMapsAreFetched`, where there is one handler and nobody dies or is taken for lost: by
  `FetchInv` the handler has counted no more fetched tasks than contents it has given away,
  since what `consumeTuple` gives has, by `HoldInv`, never been given before. With crashes a
  recovered content is counted twice; with two handlers `send_tidinfo` answers clients from
  its old queue that are by now blocked at the other.

Last comes `HandlersKeepShadows`: the handlers implement
ShadowTuples under `~FalseSuspicion` (finding 3 refutes it otherwise). The mapping reads
the place of a content off three data structures, so that the first half shows that the
mapping is well defined (`OnePlace`, `WhereIs`: under `Facts`, which collects the invariants
above with `DownInv` and `OriginInv`, a content is at one place), and the second has one
lemma for each operation that moves a content: `OpPutOffers`, `ConsumeTupleGives`,
`OpGetHitGives`, `OpRetrieveRecovers`, `StoreHandStores`, `EndDiscards`.

`TaskFarmProofs` proves of the application, for any number of workers and tasks, and
whichever workers die and when, three theorems. All have the hypotheses `~FalseSuspicion` and
`~SigPipe`; runs farm_suspected and farm_sigpipe show what happens without either. The
module first says what each operation of a handler does when the programs send what they
send here (the `...Effect` operators), under `Base`: the invariants above, with `FitInv`,
by which calls, queues, tuples and backups are those of this protocol (the problem handler
keeps tasks and the sentinel and gives them to workers; the result handler keeps results
and gives them to the master).

* `HandlersOutliveWorkers`: the handlers serve for ever. Part of `FitInv`, by the argument of
  `WildcardsNeverCrash`, and because a write to a dead worker raises no signal.
* `TasksAreTakenInOrder`: `OrderInv` says that the list, with the tuple in hand behind it,
  has the tasks that were never taken in the order of issue: what is new goes to the end, and
  what is recovered goes before all of them and was taken before.
* `NoTaskIsLost`: `WorkInv` says that an accepted task is in hand, in the list or in a backup
  entry until its result is there, and that a worker with such an entry still works on it or
  has its result on the way: he asks for his next tuple, which overwrites the entry,
  only when the reply to the PUT of the result has come.

`PortMapperProofs` proves, for every table size and every set of names, ports and
processes:

* `TypeCorrect` and `KeysAreDistinct`: the invariant `Inv == TypeOK /\ KeysDistinct` is
  inductive. Registration needs `SlotFound` (what the scan of `getSlot` returns): it
  writes a key into a slot only if that slot keeps the key or no slot does. Removals keep
  `Inv` because they leave keys alone (`ClearInv`).
* `TableIsMap`: the table implements `PortMap` under the mapping `MapOf`. Distinct keys
  make the first hit of a scan the only hit (`MapOfSlots`); a bijection between used slots
  and mapped names makes the counts in the answers agree and makes "no slot" mean "map
  full" (`CountSlots`); each operation is then the map operation of the same name
  (`MapMaps`, `RemovalRemoves`, `LookupReads`), and `StepRefines` combines them.

`ApplicationProofs` and `TerminationProofs`, which goes on from it, prove, for any hosts, slots, processes, handlers, precedence graph and
number of outside events, and wherever SIGTERM interrupts DAC, the five safety properties of
run `app`: `TypesHold`, `NothingRunsOn`, `ReportsTellEnds`, `ExitsAreReported` and
`ControllerKeepsGraph`, which says that DAC with its CIDs implements JobGraph. None of the five
is inductive, since each compares what DAC believes with what runs on a host, and the steps that
keep them true are spread over four programs. The invariant, `AppInvs`, has two phases.

`AppInv` (ApplicationProofs) holds until SIGTERM, in parts:

* where DAC is and whom it has asked what (`DacShape`, `CallsFit`, `ExecFits`, `KillFits`);
  an EXEC under way at a CID is the one DAC waits for (`StartingFits`);
* an entry in use holds the pid of the program it names, once the pid is entered
  (`TableFits`); a program of a process that was not waited for has its entry, is being
  entered, or was killed by way of its entry (`ChildrenFit`);
* a process that waits has no program, one that runs has one, and a live program is that of
  a process that runs or is being started (`ProcessLife`); what has been taken off a
  precedence list has ended (`OrderKept`); the handlers that run are those DAC holds for
  started (`HandlersFit`);
* prun asks once (`PrunFits`), what is on its way to DAC is true (`NewsAreTrue`), and so is
  what FDD holds for lost (`FddFits`).

`TermInv` (TerminationProofs) holds from then on, when reports wait unread and what DAC believes no longer
follows what happens:

* DAC only kills, and then ends (`TermShape`); what a CID is still asked for is what DAC was
  asking when it was interrupted, at most one EXEC, of a component that is cut short
  (`TermCalls`, `TermStartsFit`);
* every program that lives is cut short, or is a process that DAC holds for RUNNING and has
  its entry, by way of which the kill will reach it, or is a handler that killAllHandlers
  has not passed and will come to (`TermChildren`).

`TermBegins` shows that the second follows from the first when the signal comes, at each place
of DAC; after it DAC holds no process for RUNNING at its end, so that `NothingRunsOn` follows.
`ReportsTellEnds` carries the refinement: a process is asked for when its list is empty,
lists are shortened by reports, and reports are true. After SIGTERM nothing is asked for, and
the one process whose EXEC is with a CID is in the state "asked" until the CID has forked it.

Hypothesis `KillsLeaveHosts`: a process that is killed from outside shares its host only with
processes that wait for nobody, and a host whose application is killed runs one program. OpKill
and OpKillApp free a slot that still holds its old pid; when EXEC takes that slot for another
process, the SIGCHLD of the one killed is reported in the name of the new one, and
`ReportsAreTrue` is false (section 3). The hypothesis keeps a slot freed like that
(`Stale`) from being given to a process that starts later (`SlotsAreFresh`); the outside events
of run `app` satisfy it. It says nothing of KILL_ALL, EXIT, SIGTERM, the loss of hosts, refused
programs and early exits.

`HostProofs` proves of Names, for any number of CIDs and programs, `CidsAreFound` and
`TablesAreTrue`; of HostTable, `HostFileStaysRight`; of LoginFiles, `LoginFilesStayRight`; of
AppList, `AppListStaysTrue`.

* Names: `LeaderInv` relates the CIDs that are starting to each other and to the one that
  PMD gives: who starts while one runs has met it, makes it exit and registers only then.
  `TableInv` says that a table is empty before its CID runs, gives programs by their names,
  and that what the leader's table gives has come up and will leave there.
* HostTable, for any hosts and shells: by `HostFileInv` what a command has read and is going to
  write agrees with what the commands have been told, unless another one has
  written since, in which case it is stale; at most one writes; the file agrees when nobody
  writes; a CID runs on hosts that are on. All this until commands overlap, of which the
  property claims nothing.
* LoginFiles, for any callers, paths, lengths and CIDs: `TransferInv` says of each caller that
  what the CID has of a file, followed by what is on the way, is the beginning of what the
  caller has (for file_get the other way about), as long as nobody else has changed either;
  an answer "ok" is true when it is sent and stays so; an empty file is one that is being
  received. `UserInv` says of the users' file that who deletes is alone with it, and that
  his copy lacks his login only, unless changes overlap.
* AppList, for any number of applications, titles and ports: by `ListChain` the nodes hang one
  from the other in the order in which they were saved, and the last points to nothing or to
  freed memory; by `ListTail` the tail pointer is that of the last node unless the last points
  to freed memory, which a DEL_APP or a KILL_APP has done. `WalkAlongList` shows that the walk
  along `next`, defined by an equation, is then the list: that has the list as a solution and
  no other, by the least place at which another would differ. What DACs report is related to
  it by `StatesAgree` (the state of a live DAC is the last one that waits at the CID, or else
  the one in its node), which needs that a DAC's SAVE_APP is before all else of it
  (`SavesFirst`), and that nobody else reports a live DAC as ended: pcheck does so when nobody
  listens at the port that it has shown, which is the port of that DAC (`PortsAgree`).

`ServicesProofs` proves seven properties of Services. Files and pipes are proved by
themselves first; the others are stated of the union.

* `ServicesKeepHandles`: `FileInv` adds to the types who holds a slot in the time between
  the handler's change and the answer: from the moment it opens a stream, when only the
  answer knows the index, until it has closed it, when the user does not know yet.
* `ServicesKeepOrder`: `PipeInv` lists the states a pipe can be in (nothing under way, the
  length, the echo, the data with what may follow it, the end), each with what its writer and
  its reader are waiting for. It needs `PipesAssumption`: a pipe has one writer, who closes it
  last, and one reader, since the reader accepts one connection (cnf_read.c:31).
* `ServicesKeepWhatIsSaved` and `ServicesReadWhatIsThere`: by `SavedInv` the items that a user
  wrote are, once each and in order, in his file and then in the buffer of his one stream
  (`Accounted`); a stream that writes stands at the end of what is its own (`StreamFits`),
  which is why flushes lose nothing; what a reader got, the answer on its way to him and what
  was read ahead are consecutive pieces of the file from its beginning (`ReaderFits`); nothing
  that a reader has put is in the file, though his cnf_fputs is acknowledged; and files only grow, for who writes one anew opens it before
  anything is in it. The assumption
  is that who opens a file with "w" is its only writer; two would overwrite each other,
  each at his own position.
* `ServicesLetNobodyWait` and `ServicesAccountForPuts`, of direct tuples, of plain calls and (the
  first) of tokens: in `DirectInv` and `PlainInv` names differ in a list, values differ between
  sites, what is in a list is untaken, a value not in a list was taken, was lost with a
  reason, or is on its way, and no queued request matches a tuple in the list. A PUT
  serves a queue up to the first request that takes; what it leaves of the queue is a
  `Sublist`.
* `AdvancedListsAreTyped`: in `AdvInv` a name is in the list once, since a tuple of the same
  name is overwritten or, if it is a reduced scalar, combined with the new one, and who has
  all that he asked for has left the queue.

Assumptions, all of which TLC evaluates in the runs named:

* TupleSpace (all tsh and farm runs): priorities fit `u_short`, requests are well formed,
  mortal clients are clients, and `Nil` is none of the values it stands beside.
* TaskFarm (farm runs): the master is no worker and does not die (`FarmAssumption`); names,
  contents and requests are those of the protocol, with one priority
  (`ProgramsAssumption`).
* AppList (host): applications are numbered, each has a title, and a DAC's port is not 0.
* PortMapper, Names, HostTable and LoginFiles (host): the table has at least one slot; `NoKey`
  is no registered name; `Nil`, `NoOne`, `NoHost`, `NoFile`, `NoCaller`, `NoPath` and `NoLogin`
  are none of the values they stand beside.
* ProcessTable, Controller, Application (app): slots are numbered from 1 and finite in
  number; process and handler names differ; the two lists of DAC name every process and
  every handler, a handler once; precedents are processes; DAC, FDD and the user are
  callers; DAC's host is not lost.
* FileHandler and Pipes (services): the table has a slot, and one user at most writes a file
  that is opened with "w" (`FileAssumption`); `PipesAssumption`.
* DirectSpaces, PlainSpace, ParallelLoop (services): every task has a site, bounds are numbers,
  "*" is no name, a loop has two handlers; `TokensAssumption`: every loop is cut into a list of
  tokens. That the cuts of TokenTuples, which are recursions over ranges, build a list is
  evaluated by TLC for the loops of the run.

Hypotheses of single theorems are `~FalseSuspicion`, `~SigPipe`, `RequestsForAnything`,
`NoTaskMap`, `KillsLeaveHosts`, and one handler without deaths, each with the behaviour of the
code that refutes the theorem without it.

Only model-checked:

* All liveness, which TLAPS does not treat (fairness and ENABLED).
* `DataIsWhole` and `EveryIterationOnce` of ParallelLoop rest on the cuts of a loop into tokens
  and on the collection of parts into an array, both recursions over data, for which there is
  no induction here. `ConfiguratorIsRight` compares lists that a pass with two indices
  merges and shortens with what was declared, by folds, and is left to TLC for that reason.

## 6. Not modelled

* Memory exhaustion (malloc returning NULL), disks that are full. Signals in the middle of an
  operation are modelled for SIGCHLD at a CID and SIGTERM at DAC, at the points where these
  wait for somebody else or have changed what others see, and for SIGTERM at FAH while it flushes;
  SIGTERM at TSH, PMD and the CIDs comes between operations. SIGPIPE is modelled at TSH (`SigPipe`);
  at CID, FAH and DAC, which would die of it when they answer a client that has died, it is not.
* Two SIGTERMs at one DAC.
* Reuse of a dead client's return port by another process.
* Byte order, tuple lengths and truncation to the caller's buffer; message layouts; time
  (the sleeps of retries, and FDD's sleep(15 - n), which is one of 136 years once n, the processes
  it watches, is above 15: fdd.c:132).
* `'*'` in stored names: `match` treats expressions only as patterns, and names are plain.
* Queries: status, state and lists of processes, handlers and hosts, with the marks of the
  processes whose status is kept for them; the CID's benchmark and resource check.
* Who may do what: the CID's check of users, hosts and permission files.
* TupleSpace and PlainSpace: the getTid requests, which only answer what the library knows.
* PlainSpace: one client (`Director`) puts, opens and closes rounds, the others get, read
  and ask for the task map; RETRIEVE comes once per client.
* ParallelLoop: from part to part with a step > 1, the copy of the code runs from an offset
  that is counted in indices where it should be in steps; the model's is that of parts that
  begin together, which is what the jumps of one loop give, and requests in the middle of a
  jump are left out. (The copies between parts and whole arrays are modelled for any step.)
* DirectSpaces: one application, one sender for each name of a virtual tuple; VTGet and
  OpRetrieve of the CID, and the broadcast, which is commented out.
* FileHandler: a user opens and closes one file once. A file that one writes anew ("w") is
  written by nobody else: two writers would overwrite each other, as stdio lets them. OpFseek is
  out of the library's reach.
* Pipes: a writer writes before it closes; each end is opened once.
* AppList: the states that precede a run are one, as are those that follow it.
* HostTable: nothing is claimed after commands have overlapped; a kill between truncation
  and write is left out. uhost, srs, sps, spmds, kpmds, crds, checkds, sp2hosts, ipcvt are
  built by no makefile.
* Configurator: the attributes of names, the lexer, and the printed configuration file;
  `conf.inc` and `lex.c` are older copies that nothing compiles.
* LoginFiles: one call for each caller, all of the CID's login; all logins have accounts.
* The PML parser and its printing of C; test programs (`libtest`, `cid/cidtest.c`); the
  broadcast server (`bcast`), which nothing in the system calls.

## 7. Plan

Done: all the parts of section 2 with their runs; the proofs of section 5. Left:

1. Of Configurator, that a pass over `syn_list` leaves the names of a list in one place, with
   the synonyms as a relation instead of a fold.
2. DAC's queries; what a CID allows to whom; FAH's fseek if a library call comes to send it.
