------------------------------- MODULE HostTable -------------------------------
(***************************************************************************)
(* The table of hosts, ~/.sng_hosts, and the commands that are built to    *)
(* work on it: addhost, delhost, chosts and sfs read it line by line,      *)
(* close it, and write it anew some time later; sds, kds and kads read it  *)
(* word by word, and start or end the CID of every host that is not        *)
(* marked off (utils).  Nothing keeps two commands apart.                  *)
(*                                                                         *)
(* A line has six words; only the first, the host's address with or        *)
(* without a '#', is looked at.                                            *)
(***************************************************************************)
EXTENDS Naturals, Sequences, SequencesExt, FiniteSetsExt, TLC

CONSTANTS
  Hosts,
  LocalHost, \* the host of the commands
  Shells,    \* whoever calls them
  NoHost,
  NoFile     \* the file has not been made yet

ASSUME HostTableAssumption ==
  LocalHost \in Hosts /\ NoHost \notin Hosts /\ NoFile \notin Seq([host : Hosts, off : BOOLEAN, glued : Hosts \cup {NoHost}])

VARIABLES
  file,    \* lines [host, off, glued]: glued is the host that begins in the sixth word
  shell,   \* shell[u]: the command of u: [at, lines, told, stale]
  up,      \* the hosts on which a CID runs
  told,    \* history: told[h]: what the commands have been told of h, "on", "off" or "absent",
           \* or "lost": it has been glued to another one
  overlap, \* history: a command wrote what it had read before another one wrote
  behind   \* history: hosts marked off or removed while their CIDs ran

hostVars == <<file, shell, up, told, overlap, behind>>

Idle == [at |-> "idle", lines |-> <<>>, told |-> [h \in Hosts |-> "absent"], stale |-> FALSE]
HostInit ==
  /\ file = NoFile /\ shell = [u \in Shells |-> Idle]
  /\ up = {} /\ told = Idle.told /\ overlap = FALSE /\ behind = {}

-----------------------------------------------------------------------------
(* The file as its readers see it. *)

PlainLine(h) == [host |-> h, off |-> FALSE, glued |-> NoHost]
GluedBefore(k) == {j \in 1 .. k - 1 : file[j].glued # NoHost}
\* The first of every six words is taken for a host, wherever the lines end.  A line has six
\* words, a glued one eleven: after one the first words of the lines are out of step.
Selected ==
  IF file = NoFile THEN {}
  ELSE {file[k].host : k \in {i \in DOMAIN file : ~file[i].off /\ (5 * Cardinality(GluedBefore(i))) % 6 = 0}}

LineOf(h, lines) == {k \in DOMAIN lines : lines[k].host = h}
LineState(h) ==
  IF file = NoFile \/ LineOf(h, file) = {} THEN "absent"
  ELSE IF \E k \in LineOf(h, file) : ~file[k].off THEN "on" ELSE "off"

-----------------------------------------------------------------------------
(* The commands that change it. *)

Command(u, at, lines, news, stale) ==
  shell' = [shell EXCEPT ![u] = [at |-> at, lines |-> lines, told |-> news, stale |-> stale]]
Asks(u) == shell[u].at \in {"holds", "marks", "sets"}
\* The command has read the file and closed it.
Holds(u, at, lines, news) ==
  /\ Command(u, at, lines, news, \E v \in Shells : shell[v].at = "writes")
  /\ UNCHANGED <<file, up, told, overlap, behind>>
Edits(u, lines, news) ==
  /\ Command(u, shell[u].at, lines, news, shell[u].stale)
  /\ UNCHANGED <<file, up, told, overlap, behind>>

\* A host marked off is marked on again, a new one goes to the end, a known one is refused.
\* Mutant of Added: a host that is marked off is not noticed.
AddedTwice(lines, h) == Append(lines, PlainLine(h))
Added(lines, h) ==
  IF LineOf(h, lines) = {} THEN Append(lines, PlainLine(h))
  ELSE [k \in DOMAIN lines |-> IF lines[k].host = h THEN [lines[k] EXCEPT !.off = FALSE] ELSE lines[k]]
\* Without a file the local host is its first line, and that line does not end.  In a file
\* without a line there is none to append to: addhost ends by a signal.
addhost(u, h) ==
  /\ shell[u].at = "idle"
  /\ \/ /\ file = NoFile /\ h # LocalHost
        /\ Holds(u, "holds", <<[PlainLine(LocalHost) EXCEPT !.glued = h]>>,
                 [told EXCEPT ![LocalHost] = "on", ![h] = "lost"])
     \/ /\ file \notin {NoFile, <<>>} /\ \A k \in LineOf(h, file) : file[k].off
        /\ Holds(u, "holds", Added(file, h), [told EXCEPT ![h] = "on"])

\* The line is taken out, or written as six words with a '#'; whether it has one already is
\* not initialized before the first line without.
MarkedOff(k) ==
  {[PlainLine(file[k].host) EXCEPT !.off = TRUE]} \cup IF \A j \in 1 .. k : file[j].off THEN {file[k]} ELSE {}
delhost(u, h, force) ==
  /\ shell[u].at = "idle" /\ file # NoFile /\ LineOf(h, file) # {}
  /\ LET k == Min(LineOf(h, file)) IN
     IF force THEN Holds(u, "holds", RemoveAt(file, k), [told EXCEPT ![h] = "absent"])
     ELSE \E line \in MarkedOff(k) : Holds(u, "holds", [file EXCEPT ![k] = line], [told EXCEPT ![h] = "off"])

chosts(u) == shell[u].at = "idle" /\ file # NoFile /\ Holds(u, "marks", file, told)
\* Its user selects or deselects the lines i to j, once or more.
markhosts(u, i, j, off) ==
  /\ shell[u].at = "marks"
  /\ LET lines == shell[u].lines IN
     /\ i \in DOMAIN lines /\ j \in i .. Len(lines)
     /\ Edits(u, [k \in DOMAIN lines |-> IF k \in i .. j THEN [lines[k] EXCEPT !.off = off] ELSE lines[k]],
              [h \in Hosts |-> IF \E k \in i .. j : lines[k].host = h THEN IF off THEN "off" ELSE "on"
                               ELSE shell[u].told[h]])

sfs(u) == shell[u].at = "idle" /\ file # NoFile /\ Holds(u, "sets", file, told)
\* The lines i to j become their six words, with the file system that its user tells.
setsystem(u, i, j) ==
  /\ shell[u].at = "sets"
  /\ LET lines == shell[u].lines IN
     /\ i \in DOMAIN lines /\ j \in i .. Len(lines)
     /\ Edits(u, [k \in DOMAIN lines |-> IF k \in i .. j THEN [lines[k] EXCEPT !.glued = NoHost] ELSE lines[k]],
              shell[u].told)

\* ... or is interrupted by him.
Quits(u) ==
  /\ Asks(u) /\ shell' = [shell EXCEPT ![u] = Idle]
  /\ UNCHANGED <<file, up, told, overlap, behind>>
\* fopen empties the file, fclose writes it.
Opens(u) ==
  /\ Asks(u) /\ file' = <<>>
  /\ shell' = [v \in Shells |-> IF v = u THEN [shell[u] EXCEPT !.at = "writes"]
                               ELSE [shell[v] EXCEPT !.stale = (shell[v].at # "idle")]]
  /\ overlap' = (shell[u].stale \/ \E v \in Shells : shell[v].at = "writes")
  /\ UNCHANGED <<up, told, behind>>
Closes(u) ==
  /\ shell[u].at = "writes" /\ shell' = [shell EXCEPT ![u] = Idle]
  /\ file' = shell[u].lines /\ told' = shell[u].told
  /\ behind' = (behind \cup up) \ {h \in Hosts : shell[u].told[h] = "on"}
  /\ UNCHANGED <<up, overlap>>

-----------------------------------------------------------------------------
(* The commands that read it. *)

Reads == UNCHANGED <<file, shell, told, overlap>>
sds  == Reads /\ up' = up \cup Selected /\ UNCHANGED behind
\* ... and kads, which ends the PMDs, too.
kds  == Reads /\ up' = up \ Selected /\ UNCHANGED behind
\* A CID ends by itself.
CidEnds(h) ==
  /\ up' = up \ {h} /\ behind' = behind \ {h} /\ h \in up
  /\ UNCHANGED <<file, shell, told, overlap>>

\* What becomes of a file that two commands have changed at once is not looked at.
HostNext ==
  /\ ~overlap
  /\ \/ sds \/ kds
     \/ \E h \in Hosts : CidEnds(h)
     \/ \E u \in Shells :
          \/ chosts(u) \/ sfs(u) \/ Quits(u) \/ Opens(u) \/ Closes(u)
          \/ \E h \in Hosts : addhost(u, h) \/ \E force \in BOOLEAN : delhost(u, h, force)
          \/ \E i, j \in 1 .. Cardinality(Hosts) :
               setsystem(u, i, j) \/ \E off \in BOOLEAN : markhosts(u, i, j, off)

HostSpec == HostInit /\ [][HostNext]_hostVars

-----------------------------------------------------------------------------
(* Properties. *)

\* While commands have not overlapped and none is under way, the file says of every host
\* what they have been told, once; the readers of words find the hosts that are on, and a
\* CID runs on one that is on, or was marked off while it ran.  All but the second host of
\* the first addhost, until it is added again; with its line in the file, the words are out
\* of step (addhost.c:56).
HostFileIsRight ==
  ~overlap /\ (\A u \in Shells : shell[u].at = "idle") =>
    /\ \A h \in Hosts : LineState(h) = IF told[h] = "lost" THEN "absent" ELSE told[h]
    /\ file # NoFile => \A h \in Hosts : Cardinality(LineOf(h, file)) <= 1
    /\ file # NoFile /\ (\A k \in DOMAIN file : file[k].glued = NoHost) =>
         Selected = {h \in Hosts : told[h] = "on"}
    /\ up \subseteq behind \cup {h \in Hosts : told[h] = "on"}
=============================================================================
