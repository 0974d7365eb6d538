--------------------------------- MODULE Names ---------------------------------
(***************************************************************************)
(* How the programs of one host and login are found.  PMD knows the port   *)
(* of the CID, the peer leader of the login; the CID knows those of the    *)
(* handlers and DACs, which look it up for every call (iolib/pmdlib.c,     *)
(* sngd_map, sngd_unmap).  A CID that starts makes the one it finds there  *)
(* exit and takes its place (cid.c, initSocket).  PMD and CID serve one    *)
(* connection at a time, so that what they do is one step; the caller's    *)
(* lookup and its call are two.                                            *)
(***************************************************************************)
EXTENDS Naturals, FiniteSets

CONSTANTS
  Cids,       \* CIDs, of one start each
  Programs,  \* handlers and DACs, of one start each
  KindOf,     \* KindOf[h]: "tsh", also for ntsh, "fah" or "dac"
  NameOf,     \* NameOf[h]: the name under which h registers
  MaxMishaps, \* bound on the programs killed (-9) and the exits of PMD
  NoOne

ASSUME NamesAssumption ==
  /\ NoOne \notin Cids \cup Programs
  /\ KindOf \in [Programs -> {"tsh", "fah", "dac"}] /\ DOMAIN NameOf = Programs
  /\ MaxMishaps \in Nat

VARIABLES
  pmdUp, leader,  \* whether PMD runs, and the CID it knows
  cid, old,       \* cid[c]: how far c is; old[c]: the CID it has found
  names,          \* names[c][n]: the program that c's table gives for n
  prog, via,      \* prog[h]: how far h is; via[h]: the CID it has looked up, or is registered at
  parent,         \* parent[h]: the CID that started it, while it is up
  crossed,        \* history: CIDs that started while another one did
  forgotten,      \* history: CIDs that ran when PMD exited
  mishaps

namesVars == <<pmdUp, leader, cid, old, names, prog, via, parent, crossed, forgotten, mishaps>>
pmdVars   == <<pmdUp, leader, forgotten>>
progVars  == <<names, prog, via, parent>>

NamesInit ==
  /\ pmdUp = TRUE /\ leader = NoOne
  /\ cid = [c \in Cids |-> "none"] /\ old = [c \in Cids |-> NoOne]
  /\ names = [c \in Cids |-> [n \in {NameOf[h] : h \in Programs} |-> NoOne]]
  /\ prog = [h \in Programs |-> "none"] /\ via = [h \in Programs |-> NoOne]
  /\ parent = [h \in Programs |-> NoOne]
  /\ crossed = {} /\ forgotten = {} /\ mishaps = 0

Mishap == mishaps < MaxMishaps /\ mishaps' = mishaps + 1
Moves(c, phase)  == cid' = [cid EXCEPT ![c] = phase]
Goes(h, phase)   == prog' = [prog EXCEPT ![h] = phase]
Starting == {c \in Cids : cid[c] \in {"looks", "kills", "maps", "remaps"}}
Up == {h \in Programs : prog[h] \in {"starts", "maps", "runs", "unlisted"}}
Cleared(f, S) == f' = [h \in Programs |-> IF h \in S THEN NoOne ELSE f[h]]
\* A program is told to end, or dies.
Stops(S, phase) ==
  /\ prog' = [h \in Programs |-> IF h \in S THEN phase ELSE prog[h]]
  /\ Cleared(via, S) /\ Cleared(parent, S)
\* SIGTERM to the children of c.
KillsChildren(c) == Stops({h \in Up : parent[h] = c}, "ending")
\* What a CID knows is gone with it.
Forgets(c) ==
  /\ Moves(c, "gone")
  /\ names' = [names EXCEPT ![c] = [n \in DOMAIN names[c] |-> NoOne]]

-----------------------------------------------------------------------------
(* The CID: initSocket, with kill_old_cid; its end.                         *)

CidStarts(c) ==
  /\ cid[c] = "none" /\ Moves(c, "looks")
  /\ crossed' = IF Starting = {} THEN crossed ELSE crossed \cup Starting \cup {c}
  /\ UNCHANGED <<pmdVars, old, progVars, mishaps>>
Looks(c) ==
  /\ cid[c] = "looks"
  /\ IF pmdUp /\ leader # NoOne THEN Moves(c, "kills") /\ old' = [old EXCEPT ![c] = leader]
     ELSE Moves(c, "maps") /\ UNCHANGED old
  /\ UNCHANGED <<pmdVars, progVars, crossed, mishaps>>
\* The old CID is gone, or answers before it ends; one that is about to end is waited for.
kill_old_cid(c) ==
  /\ cid[c] = "kills"
  /\ \/ cid[old[c]] = "gone" /\ Moves(c, "maps") /\ UNCHANGED <<prog, via, parent>>
     \/ /\ cid[old[c]] = "runs" /\ cid' = [cid EXCEPT ![c] = "maps", ![old[c]] = "exits"]
        /\ KillsChildren(old[c])
  /\ old' = [old EXCEPT ![c] = NoOne]
  /\ UNCHANGED <<pmdVars, names, crossed, mishaps>>
\* If PMD cannot be reached, it is started, and called once more.
MapsName(c) ==
  /\ cid[c] \in {"maps", "remaps"}
  /\ IF pmdUp THEN leader' = c /\ Moves(c, "runs") /\ UNCHANGED pmdUp
     ELSE IF cid[c] = "maps" THEN pmdUp' = TRUE /\ leader' = NoOne /\ Moves(c, "remaps")
     ELSE Moves(c, "gone") /\ UNCHANGED <<pmdUp, leader>>
  /\ UNCHANGED <<forgotten, old, progVars, crossed, mishaps>>

\* OpExit, as kds asks for it, and SIGTERM.
CidExits(c) ==
  /\ (cid[c] = "runs" \/ c \in Starting) /\ Moves(c, "exits") /\ KillsChildren(c)
  /\ old' = [old EXCEPT ![c] = NoOne]
  /\ UNCHANGED <<pmdVars, names, crossed, mishaps>>
\* pmd_unmap with its pid, a while later: only its own entry is removed.
\* Mutant of RemovesEntry: the entry is removed by its name.
RemovesEntryByName(c) == leader' = NoOne
RemovesEntry(c)       == leader' = IF leader = c THEN NoOne ELSE leader
CidLeaves(c) ==
  /\ cid[c] = "exits" /\ Forgets(c)
  /\ IF pmdUp THEN RemovesEntry(c) ELSE UNCHANGED leader
  /\ UNCHANGED <<pmdUp, forgotten, old, prog, via, parent, crossed, mishaps>>
CidKilled(c) ==
  /\ Mishap
  /\ cid[c] \notin {"none", "gone"} /\ Forgets(c) /\ old' = [old EXCEPT ![c] = NoOne]
  /\ UNCHANGED <<pmdVars, prog, via, parent, crossed>>

-----------------------------------------------------------------------------
(* Handlers, which the CID starts, and DACs.                                *)

Starts(h) ==
  /\ prog[h] = "none" /\ Goes(h, "starts")
  /\ IF KindOf[h] = "dac" THEN UNCHANGED parent
     ELSE pmdUp /\ leader # NoOne /\ cid[leader] = "runs" /\ parent' = [parent EXCEPT ![h] = leader]
  /\ UNCHANGED <<pmdVars, cid, old, names, via, crossed, mishaps>>

Fails(h, phase) ==
  IF phase = "gone" THEN Stops({h}, phase) ELSE Goes(h, phase) /\ Cleared(via, {h}) /\ UNCHANGED parent
\* The lookup of sngd_map and sngd_unmap: without PMD the caller writes to a socket that is
\* not connected and SIGPIPE ends it; an unknown CID is a port nobody listens at.
LooksUp(h, phase, refused) ==
  IF pmdUp /\ leader # NoOne
  THEN Goes(h, phase) /\ via' = [via EXCEPT ![h] = leader] /\ UNCHANGED parent
  ELSE Fails(h, IF pmdUp THEN refused ELSE "gone")
\* A tsh that could not register tells DAC, and serves all the same.
Refused(h) == IF KindOf[h] = "tsh" THEN "unlisted" ELSE "gone"
sngd_map(h) ==
  \/ prog[h] = "starts" /\ LooksUp(h, "maps", Refused(h)) /\ UNCHANGED names
  \/ /\ prog[h] = "maps" /\ cid[via[h]] = "runs" /\ Goes(h, "runs")
     /\ names' = [names EXCEPT ![via[h]][NameOf[h]] = h] /\ UNCHANGED <<via, parent>>
  \/ prog[h] = "maps" /\ cid[via[h]] = "gone" /\ Fails(h, Refused(h)) /\ UNCHANGED names
\* By name, whoever is registered.
\* Mutant of Unregister: the entry stays.
UnregisterNone(h) == UNCHANGED names
Unregister(h)     == names' = [names EXCEPT ![via[h]][NameOf[h]] = NoOne]
sngd_unmap(h) ==
  \/ prog[h] = "ending" /\ LooksUp(h, "unmaps", "gone") /\ UNCHANGED names
  \/ prog[h] = "unmaps" /\ cid[via[h]] = "runs" /\ Unregister(h) /\ Stops({h}, "gone")
  \/ prog[h] = "unmaps" /\ cid[via[h]] = "gone" /\ UNCHANGED names /\ Stops({h}, "gone")
Registers(h) ==
  /\ sngd_map(h) \/ sngd_unmap(h)
  /\ UNCHANGED <<pmdVars, cid, old, crossed, mishaps>>

\* SIGTERM, the EXIT of a handler, the end of DAC; or no chance to unregister.
Terminates(h) ==
  /\ h \in Up /\ Stops({h}, "ending")
  /\ UNCHANGED <<pmdVars, cid, old, names, crossed, mishaps>>
ProgKilled(h) ==
  /\ Mishap
  /\ h \in Up \cup {g \in Programs : prog[g] \in {"ending", "unmaps"}} /\ Stops({h}, "killed")
  /\ UNCHANGED <<pmdVars, cid, old, names, crossed>>

PmdExits ==
  /\ pmdUp /\ Mishap
  /\ pmdUp' = FALSE /\ leader' = NoOne
  /\ forgotten' = forgotten \cup {c \in Cids : cid[c] = "runs"}
  /\ UNCHANGED <<cid, old, progVars, crossed>>

NamesNext ==
  \/ PmdExits
  \/ \E c \in Cids : CidStarts(c) \/ Looks(c) \/ kill_old_cid(c) \/ MapsName(c) \/ CidExits(c)
                       \/ CidLeaves(c) \/ CidKilled(c)
  \/ \E h \in Programs : Starts(h) \/ Registers(h) \/ Terminates(h) \/ ProgKilled(h)

NamesSpec == NamesInit /\ [][NamesNext]_namesVars

-----------------------------------------------------------------------------
(* Properties. *)

\* A CID that serves is the one PMD knows, however late the one before it has left; but one
\* that started while another one did, or ran when PMD exited, may never be found (cid.c:233).
EveryCidIsFound ==
  \A c \in Cids : cid[c] = "runs" => leader = c \/ c \in crossed \cup forgotten

\* The CID that PMD knows, while it serves, gives no program that has ended in order, and gives
\* each one that is registered there, unless another program of its name has come up
\* (pmdlib.c:221, 286).
NamesAreTrue ==
  leader # NoOne /\ cid[leader] = "runs" =>
    /\ \A n \in DOMAIN names[leader] :
         names[leader][n] # NoOne => prog[names[leader][n]] \notin {"none", "starts", "maps", "gone"}
    /\ \A h \in Programs :
         prog[h] = "runs" /\ via[h] = leader =>
           \/ names[leader][NameOf[h]] = h
           \/ \E g \in Programs \ {h} : NameOf[g] = NameOf[h] /\ prog[g] # "none"
=============================================================================
