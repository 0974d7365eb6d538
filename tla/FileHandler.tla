----------------------------- MODULE FileHandler -----------------------------
(***************************************************************************)
(* The file access handler (fah/fah.c) and the calls cnf_open, cnf_close,  *)
(* cnf_fflush, cnf_fputs, cnf_fgets ... of the client library on a file.   *)
(* The handler opens files with stdio for clients on other hosts and keeps *)
(* the streams in a table; a client holds the index of its stream.         *)
(***************************************************************************)
EXTENDS Integers, Sequences, SequencesExt, FiniteSets

CONSTANTS
  Users,      \* the programs that use files
  Paths,      \* the files
  Uses,       \* what the users do: each is a function from users to [path, mode]; a file
              \* that one writes anew is written by no other
  TableSize,  \* TABLE_SIZE
  MaxItems,   \* MaxItems[u]: bound on the items user u writes
  NoStream, NoReply

Fids  == 0 .. TableSize - 1
Items == Users \X Nat

\* What the handler keeps of a stream, and what it answers.
StreamSet == [path : Paths, mode : {"r", "w", "a"}, by : Users,
              buf : Seq(Items), pos : Nat, ahead : Seq(Items)]
ReplySet ==
  [ok : {FALSE}, op : {"NONE"}] \cup [ok : {TRUE}, op : {"FCLOSE", "FFLUSH", "FWRITE"}]
    \cup [ok : {TRUE}, op : {"FOPEN"}, fid : Fids] \cup [ok : {TRUE}, op : {"FREAD"}, item : Items]

ASSUME FileAssumption ==
  /\ TableSize \in Nat \ {0} /\ MaxItems \in [Users -> Nat]
  /\ Uses \subseteq [Users -> [path : Paths, mode : {"r", "w", "a"}]]
  /\ \A uses \in Uses : \A u, v \in Users :
       u # v /\ uses[u].mode = "w" /\ uses[v].path = uses[u].path => uses[v].mode = "r"
  /\ NoStream \notin StreamSet /\ NoReply \notin ReplySet

VARIABLES
  fah,     \* "runs", "exits" (its streams are being flushed), "exited" or "killed"
  use,     \* use[u]: the file user u uses, and how
  table,   \* table[fid]: a stream, or NoStream
  disk,    \* disk[p]: the contents of file p, items <<user, number>>
  link,    \* link[u]: the file handle of user u (sng_map)
  reply,   \* reply[u]: the answer on its way to user u, or NoReply
  wrote,   \* wrote[u]: items whose write was acknowledged
  saved,   \* saved[u]: items whose flush or close was acknowledged
  got      \* got[u]: the items read since user u opened

fileVars == <<fah, use, table, disk, link, reply, wrote, saved, got>>

\* A stdio stream: what is written and not yet in the file, where the file is read or
\* written next, and what has been read ahead.  (by: who opened it.)
Stream(p, m, u) == [path |-> p, mode |-> m, by |-> u, buf |-> <<>>, pos |-> 0, ahead |-> <<>>]
Closed == [open |-> FALSE, fid |-> 0]

FileInit ==
  /\ fah = "runs" /\ use \in Uses
  /\ table = [f \in Fids |-> NoStream]
  /\ disk = [p \in Paths |-> <<>>]
  /\ link = [u \in Users |-> Closed]
  /\ reply = [u \in Users |-> NoReply]
  /\ wrote = [u \in Users |-> 0] /\ saved = [u \in Users |-> 0]
  /\ got = [u \in Users |-> <<>>]

-----------------------------------------------------------------------------
(* stdio *)

\* The contents d with buf written at pos.
Overwritten(d, pos, buf) ==
  SubSeq(d, 1, IF pos < Len(d) THEN pos ELSE Len(d)) \o buf \o SubSeq(d, pos + Len(buf) + 1, Len(d))

FlushTo(d, s) ==
  IF s.mode = "a" THEN [d EXCEPT ![s.path] = @ \o s.buf]
  ELSE [d EXCEPT ![s.path] = Overwritten(@, s.pos, s.buf)]
Flushed(s) == [s EXCEPT !.pos = @ + Len(s.buf), !.buf = <<>>]

\* fopen: "w" makes the file empty.
\* Mutant of Opened: "a" does so too.
OpenedEmpty(d, p, m) == IF m = "r" THEN d ELSE [d EXCEPT ![p] = <<>>]
Opened(d, p, m) == IF m = "w" THEN [d EXCEPT ![p] = <<>>] ELSE d

Streams == {f \in Fids : table[f] # NoStream}

-----------------------------------------------------------------------------
(* The handler.  A call of user u, and the answer. *)

Answers(u, r) == reply' = [reply EXCEPT ![u] = r]
Fails(u)      == Answers(u, [ok |-> FALSE, op |-> "NONE"])
IsOpen(f)     == table[f] # NoStream

\* The first free slot.
\* Mutant of FreeSlots: the last slot is taken over when the table is full.
FreeSlotsOrLast == IF \E f \in Fids : ~IsOpen(f) THEN {f \in Fids : ~IsOpen(f)} ELSE {TableSize - 1}
FreeSlots == {f \in Fids : ~IsOpen(f)}

OpFopen(u, p, m) ==
  /\ IF FreeSlots = {}
     THEN Fails(u) /\ UNCHANGED <<table, disk>>
     ELSE LET f == CHOOSE f \in FreeSlots : \A g \in FreeSlots : f <= g IN
          /\ table' = [table EXCEPT ![f] = Stream(p, m, u)]
          /\ disk' = Opened(disk, p, m)
          /\ Answers(u, [ok |-> TRUE, op |-> "FOPEN", fid |-> f])

OpFclose(u, f) ==
  IF IsOpen(f)
  THEN /\ disk' = FlushTo(disk, table[f])
       /\ table' = [table EXCEPT ![f] = NoStream]
       /\ Answers(u, [ok |-> TRUE, op |-> "FCLOSE"])
  ELSE Fails(u) /\ UNCHANGED <<table, disk>>

\* Mutant of OpFflush: success is answered, and the buffer kept.
OpFflushLazy(u, f) ==
  /\ Answers(u, [ok |-> IsOpen(f), op |-> "FFLUSH"])
  /\ UNCHANGED <<table, disk>>
OpFflush(u, f) ==
  IF IsOpen(f)
  THEN /\ disk' = FlushTo(disk, table[f])
       /\ table' = [table EXCEPT ![f] = Flushed(@)]
       /\ Answers(u, [ok |-> TRUE, op |-> "FFLUSH"])
  ELSE Fails(u) /\ UNCHANGED <<table, disk>>

\* What is written stays in the buffer, or, when that is full, goes to the file.
Writes(u, f, item) ==
  LET s == [table[f] EXCEPT !.buf = Append(@, item)] IN
  IF IsOpen(f) /\ table[f].mode # "r"
  THEN /\ \/ table' = [table EXCEPT ![f] = s] /\ UNCHANGED disk
          \/ table' = [table EXCEPT ![f] = Flushed(s)] /\ disk' = FlushTo(disk, s)
       /\ Answers(u, [ok |-> TRUE, op |-> "FWRITE"])
  ELSE Fails(u) /\ UNCHANGED <<table, disk>>
OpFputc(u, f, item)  == Writes(u, f, item)
OpFwrite(u, f, item) == Writes(u, f, item)
\* The result of fputs is not looked at: of a stream that is open for reading success is
\* answered too, and nothing written.
PutsNothing(u) == Answers(u, [ok |-> TRUE, op |-> "FWRITE"]) /\ UNCHANGED <<table, disk>>
OpFputs(u, f, item)  ==
  IF IsOpen(f) /\ table[f].mode = "r" THEN PutsNothing(u) ELSE Writes(u, f, item)

\* The next item, of what has been read ahead or now is; none at the end of the file.
Reads(u, f) ==
  LET s    == table[f]
      rest == IF s.ahead # <<>> THEN s.ahead ELSE SubSeq(disk[s.path], s.pos + 1, Len(disk[s.path]))
  IN IF IsOpen(f) /\ s.mode = "r" /\ rest # <<>>
     THEN /\ table' = [table EXCEPT ![f].ahead = Tail(rest), ![f].pos = @ + 1]
          /\ Answers(u, [ok |-> TRUE, op |-> "FREAD", item |-> rest[1]])
          /\ UNCHANGED disk
     ELSE Fails(u) /\ UNCHANGED <<table, disk>>
OpFgetc(u, f) == Reads(u, f)
OpFgets(u, f) == Reads(u, f)
OpFread(u, f) == Reads(u, f)

-----------------------------------------------------------------------------
(* The users: one call at a time. *)

Asks(u)     == fah = "runs" /\ reply[u] = NoReply
AsksOpen(u) == Asks(u) /\ link[u].open
Handled     == UNCHANGED <<fah, use, link, wrote, saved, got>>
NewItem(u)  == <<u, wrote[u] + 1>>

\* (A file is written from its beginning once, or saved would have to be counted anew.)
cnf_open(u)   ==
  /\ Asks(u) /\ ~link[u].open /\ (use[u].mode = "w" => wrote[u] = 0)
  /\ OpFopen(u, use[u].path, use[u].mode) /\ Handled
cnf_close(u)  == AsksOpen(u) /\ OpFclose(u, link[u].fid) /\ Handled
cnf_fflush(u) == AsksOpen(u) /\ OpFflush(u, link[u].fid) /\ Handled
\* The seek is sent as a flush, and nothing is sought.
cnf_fseek(u)  == AsksOpen(u) /\ OpFflush(u, link[u].fid) /\ Handled
cnf_fputc(u)  ==
  AsksOpen(u) /\ wrote[u] < MaxItems[u] /\ OpFputc(u, link[u].fid, NewItem(u)) /\ Handled
cnf_fputs(u)  ==
  AsksOpen(u) /\ wrote[u] < MaxItems[u] /\ OpFputs(u, link[u].fid, NewItem(u)) /\ Handled
cnf_fwrite(u) ==
  AsksOpen(u) /\ wrote[u] < MaxItems[u] /\ OpFwrite(u, link[u].fid, NewItem(u)) /\ Handled
cnf_fgetc(u)  == AsksOpen(u) /\ OpFgetc(u, link[u].fid) /\ Handled
cnf_fgets(u)  == AsksOpen(u) /\ OpFgets(u, link[u].fid) /\ Handled
cnf_fread(u)  == AsksOpen(u) /\ OpFread(u, link[u].fid) /\ Handled

Answered(u) ==
  LET r == reply[u] IN
  /\ r # NoReply
  /\ reply' = [reply EXCEPT ![u] = NoReply]
  /\ link' = CASE r.op = "FOPEN"  -> [link EXCEPT ![u] = [open |-> TRUE, fid |-> r.fid]]
               [] r.op = "FCLOSE" -> [link EXCEPT ![u] = Closed]
               [] OTHER           -> link
  /\ wrote' = IF r.op = "FWRITE" THEN [wrote EXCEPT ![u] = @ + 1] ELSE wrote
  /\ saved' = IF r.op \in {"FCLOSE", "FFLUSH"} /\ r.ok THEN [saved EXCEPT ![u] = wrote[u]] ELSE saved
  /\ got' = CASE r.op = "FOPEN" -> [got EXCEPT ![u] = <<>>]
              [] r.op = "FREAD" -> [got EXCEPT ![u] = Append(@, r.item)]
              [] OTHER          -> got
  /\ UNCHANGED <<fah, use, table, disk>>

\* SIGTERM or the EXIT operation: exit flushes the streams, in an order that is left open;
\* SIGKILL or a loss of the host does not, and answers may get lost.
OpExit ==
  /\ fah \in {"runs", "exits"}
  /\ \/ Streams = {} /\ fah' = "exited" /\ UNCHANGED <<table, disk>>
     \/ \E f \in Streams :
          /\ fah' = "exits" /\ disk' = FlushTo(disk, table[f])
          /\ table' = [table EXCEPT ![f] = NoStream]
  /\ UNCHANGED <<use, link, reply, wrote, saved, got>>
FahKilled ==
  /\ fah \in {"runs", "exits"} /\ fah' = "killed"
  /\ table' = [f \in Fids |-> NoStream]
  /\ \E S \in SUBSET Users : reply' = [u \in Users |-> IF u \in S THEN NoReply ELSE reply[u]]
  /\ UNCHANGED <<use, disk, link, wrote, saved, got>>

FileNext ==
  \/ \E u \in Users :
       \/ cnf_open(u) \/ cnf_close(u) \/ cnf_fflush(u) \/ cnf_fseek(u)
       \/ cnf_fputc(u) \/ cnf_fputs(u) \/ cnf_fwrite(u)
       \/ cnf_fgetc(u) \/ cnf_fgets(u) \/ cnf_fread(u)
       \/ Answered(u)
  \/ OpExit \/ FahKilled

FileSpec == FileInit /\ [][FileNext]_fileVars

-----------------------------------------------------------------------------
(* Properties. *)

\* The handle of a user that has a file open denotes the stream he opened, whatever the
\* others open and close (the table of fah.c:259 and 308, link_pt->sd of cnf_open).
HandleIsMine ==
  \A u \in Users : (fah = "runs" /\ link[u].open /\ reply[u] = NoReply) =>
    LET s == table[link[u].fid] IN
    s # NoStream /\ s.by = u /\ s.path = use[u].path /\ s.mode = use[u].mode

\* What user u wrote stands in his file in order, once and without a gap: all that a flush or
\* a close has acknowledged even when the handler is killed, all that a write has acknowledged
\* when it exits, and nothing more than he wrote; of who opened it to read, nothing
\* (fah.c:351, 308, 712, 841).
StandsIn(u, file) == {i \in DOMAIN file : file[i][1] = u}
InOrder(u, file)  == \A i, j \in StandsIn(u, file) : i < j => file[i][2] < file[j][2]
Numbers(u, file)  == {file[i][2] : i \in StandsIn(u, file)}
SavedIsOnDisk ==
  \A u \in Users :
    LET file == disk[use[u].path] IN
    /\ InOrder(u, file)
    /\ IF use[u].mode = "r" THEN Numbers(u, file) = {}
       ELSE \E n \in (IF fah = "exited" THEN wrote[u] ELSE saved[u]) .. wrote[u] + 1 :
              Numbers(u, file) = 1 .. n

\* What a reader has got since he opened is the beginning of the file: he neither misses
\* nor is given twice what others are appending (fah.c:393, 524, 639).
ReadsAreThere == \A u \in Users : IsPrefix(got[u], disk[use[u].path])
=============================================================================
