---------------------------- MODULE ServicesProofs ----------------------------
(***************************************************************************)
(* What holds of the file handler, of pipes, of the direct tuple spaces of *)
(* the CIDs and of an advanced handler, with its plain calls or with data  *)
(* and tokens, for every number of users, files, programs, pipes, sites    *)
(* and tuples.  Each is one of the parts looked at in Services; the        *)
(* handler of files and the pipes are proved by themselves too.            *)
(***************************************************************************)
EXTENDS Services, ListProofs

-----------------------------------------------------------------------------
(* The file handler.                                                        *)

\* While the handler runs: its table, the files and what it answers.
FileTypes ==
  /\ table \in [Fids -> StreamSet \cup {NoStream}]
  /\ disk \in [Paths -> Seq(Items)]
  /\ link \in [Users -> [open : BOOLEAN, fid : Fids]]
  /\ reply \in [Users -> ReplySet \cup {NoReply}]
  /\ use \in [Users -> [path : Paths, mode : {"r", "w", "a"}]]
  /\ wrote \in [Users -> Nat]

\* Slot f holds the stream that user u opened.
Holds(u, f) ==
  table[f] \in StreamSet /\ table[f].by = u /\ table[f].path = use[u].path /\ table[f].mode = use[u].mode

\* The slot is his from the moment the handler has opened the stream, when only the answer
\* knows the index, until it has closed it, though he does not know that before the answer.
Awaits(u, op) == reply[u] # NoReply /\ reply[u].op = op
SlotsAreHeld ==
  \A u \in Users :
    /\ link[u].open /\ ~Awaits(u, "FCLOSE") => Holds(u, link[u].fid)
    /\ Awaits(u, "FOPEN") => ~link[u].open /\ Holds(u, reply[u].fid)

FileInv == fah = "runs" => FileTypes /\ SlotsAreHeld

\* SlotsAreHeld says what HandleIsMine asks of a user whose call has been answered.
LEMMA HeldIsMine ==
  ASSUME FileInv
  PROVE  HandleIsMine
<1>1. SUFFICES ASSUME NEW u \in Users, fah = "runs", link[u].open, reply[u] = NoReply
               PROVE  LET s == table[link[u].fid] IN
                      s # NoStream /\ s.by = u /\ s.path = use[u].path /\ s.mode = use[u].mode
  BY DEF HandleIsMine
<1>2. Holds(u, link[u].fid)
  BY <1>1 DEF FileInv, SlotsAreHeld, Awaits
<1> QED
  BY <1>2, FileAssumption DEF Holds

\* The file handler begins so.
LEMMA FileBegins ==
  ASSUME FileInit
  PROVE  FileInv
<1>1. FileTypes
  BY FileAssumption DEF FileInit, FileTypes, Closed, Fids
<1>2. SlotsAreHeld
  BY DEF FileInit, SlotsAreHeld, Awaits, Closed
<1> QED
  BY <1>1, <1>2 DEF FileInv

\* Writing at a place of a file and flushing a stream give files and streams.
LEMMA FlushTyped ==
  ASSUME NEW d \in [Paths -> Seq(Items)], NEW s \in StreamSet
  PROVE  /\ FlushTo(d, s) \in [Paths -> Seq(Items)]
         /\ Flushed(s) \in StreamSet
         /\ Flushed(s).by = s.by /\ Flushed(s).path = s.path /\ Flushed(s).mode = s.mode
<1>0. s.path \in Paths /\ s.buf \in Seq(Items) /\ s.pos \in Nat /\ d[s.path] \in Seq(Items)
  BY DEF StreamSet
<1>1. \A n \in Nat : n <= Len(d[s.path]) => SubSeq(d[s.path], 1, n) \in Seq(Items)
  BY <1>0, SubSeqProperties
<1>2. \A n \in Nat : SubSeq(d[s.path], n + 1, Len(d[s.path])) \in Seq(Items)
  BY <1>0, SubSeqProperties
<1>3. Overwritten(d[s.path], s.pos, s.buf) \in Seq(Items)
  <2>1. s.pos + Len(s.buf) \in Nat /\ Len(d[s.path]) \in Nat
    BY <1>0
  <2>2. SubSeq(d[s.path], 1, IF s.pos < Len(d[s.path]) THEN s.pos ELSE Len(d[s.path])) \in Seq(Items)
    BY <1>0, <1>1, <2>1
  <2>3. SubSeq(d[s.path], s.pos + Len(s.buf) + 1, Len(d[s.path])) \in Seq(Items)
    BY <1>2, <2>1
  <2> QED
    BY <1>0, <2>2, <2>3 DEF Overwritten
<1>4. FlushTo(d, s) \in [Paths -> Seq(Items)]
  BY <1>0, <1>3 DEF FlushTo
<1>5. /\ Flushed(s) \in StreamSet
      /\ Flushed(s).by = s.by /\ Flushed(s).path = s.path /\ Flushed(s).mode = s.mode
  <2>1. s.pos + Len(s.buf) \in Nat /\ <<>> \in Seq(Items)
    BY <1>0
  <2>2. \A t \in StreamSet, n \in Nat :
          LET e == [t EXCEPT !.pos = n] IN
          e \in StreamSet /\ e.by = t.by /\ e.path = t.path /\ e.mode = t.mode
    BY DEF StreamSet
  <2>3. \A t \in StreamSet, q \in Seq(Items) :
          LET e == [t EXCEPT !.buf = q] IN
          e \in StreamSet /\ e.by = t.by /\ e.path = t.path /\ e.mode = t.mode
    BY DEF StreamSet
  <2> DEFINE t == [s EXCEPT !.pos = s.pos + Len(s.buf)]
  <2>4. t \in StreamSet /\ t.by = s.by /\ t.path = s.path /\ t.mode = s.mode
    BY <2>1, <2>2
  <2>5. Flushed(s) = [t EXCEPT !.buf = <<>>]
    BY DEF Flushed
  <2> HIDE DEF t
  <2> QED
    BY <2>1, <2>3, <2>4, <2>5
<1> QED
  BY <1>4, <1>5

\* A call on an open file that leaves the user his stream, whatever it does to the buffer,
\* and is answered otherwise than by FOPEN or FCLOSE keeps every slot with its user.
LEMMA SlotKept ==
  ASSUME FileTypes, SlotsAreHeld, NEW u \in Users, AsksOpen(u), Handled,
         NEW r \in ReplySet, r.op \notin {"FOPEN", "FCLOSE"}, Answers(u, r),
         NEW s \in StreamSet, s.by = u, s.path = use[u].path, s.mode = use[u].mode,
         table' = [table EXCEPT ![link[u].fid] = s], disk' \in [Paths -> Seq(Items)]
  PROVE  FileInv'
<1>1. FileTypes'
  BY DEF FileTypes, Answers, Handled
<1>2. SlotsAreHeld'
  <2>1. Holds(u, link[u].fid) /\ link[u].fid \in Fids
    BY DEF SlotsAreHeld, AsksOpen, Asks, Awaits, FileTypes
  <2>2. \A v \in Users \ {u}, f \in Fids : Holds(v, f) => Holds(v, f)'
    BY <2>1 DEF Holds, FileTypes, Handled
  <2>3. Holds(u, link[u].fid)'
    BY <2>1 DEF Holds, FileTypes, Handled
  <2>4. r # NoReply
    BY FileAssumption
  <2>5. SUFFICES ASSUME NEW v \in Users
                 PROVE  /\ link'[v].open /\ ~Awaits(v, "FCLOSE")' => Holds(v, link[v].fid)'
                        /\ Awaits(v, "FOPEN")' => ~link'[v].open /\ Holds(v, reply[v].fid)'
    BY DEF SlotsAreHeld
  <2>6. CASE v = u
    BY <2>3, <2>4, <2>6 DEF Awaits, Answers, FileTypes, Handled
  <2>7. CASE v # u
    <3>1. /\ reply'[v] = reply[v] /\ link'[v] = link[v] /\ link[v].fid \in Fids
          /\ (Awaits(v, "FOPEN") => reply[v].fid \in Fids)
      BY <2>7 DEF Answers, FileTypes, Handled, Awaits, ReplySet
    <3> QED
      BY <2>2, <2>7, <3>1 DEF Awaits, SlotsAreHeld
  <2> QED
    BY <2>6, <2>7
<1> QED
  BY <1>1, <1>2 DEF FileInv

\* So does every call that finds no stream, or cannot do with it what was asked.
LEMMA FailureKept ==
  ASSUME FileTypes, SlotsAreHeld, NEW u \in Users, AsksOpen(u), Handled, Fails(u), UNCHANGED <<table, disk>>
  PROVE  FileInv'
<1> DEFINE r == [ok |-> FALSE, op |-> "NONE"]
<1>1. Holds(u, link[u].fid) /\ link[u].fid \in Fids
  BY DEF SlotsAreHeld, AsksOpen, Asks, Awaits, FileTypes
<1>2. r \in ReplySet /\ r.op \notin {"FOPEN", "FCLOSE"} /\ Answers(u, r)
  BY DEF Fails, ReplySet
<1>3. table' = [table EXCEPT ![link[u].fid] = table[link[u].fid]] /\ disk' \in [Paths -> Seq(Items)]
  BY <1>1 DEF FileTypes
<1> HIDE DEF r
<1> QED
  BY <1>1, <1>2, <1>3, SlotKept DEF Holds

\* cnf_fflush, and cnf_fseek, which is one.
LEMMA FlushKept ==
  ASSUME FileTypes, SlotsAreHeld, NEW u \in Users, AsksOpen(u), Handled, OpFflush(u, link[u].fid)
  PROVE  FileInv'
<1> DEFINE f == link[u].fid
           r == [ok |-> TRUE, op |-> "FFLUSH"]
<1>1. CASE IsOpen(f)
  <2>1. Holds(u, f) /\ f \in Fids
    BY DEF SlotsAreHeld, AsksOpen, Asks, Awaits, FileTypes
  <2>2. r \in ReplySet /\ r.op \notin {"FOPEN", "FCLOSE"} /\ Answers(u, r)
    BY <1>1 DEF OpFflush, ReplySet
  <2>3. table' = [table EXCEPT ![f] = Flushed(table[f])] /\ disk' = FlushTo(disk, table[f])
    BY <1>1, <2>1 DEF OpFflush, FileTypes
  <2>4. /\ Flushed(table[f]) \in StreamSet /\ disk' \in [Paths -> Seq(Items)]
        /\ Flushed(table[f]).by = u /\ Flushed(table[f]).path = use[u].path
        /\ Flushed(table[f]).mode = use[u].mode
    BY <2>1, <2>3, FlushTyped DEF Holds, FileTypes
  <2> HIDE DEF r
  <2> QED
    BY <2>2, <2>3, <2>4, SlotKept
<1>2. CASE ~IsOpen(f)
  BY <1>2, FailureKept DEF OpFflush
<1> QED
  BY <1>1, <1>2

\* cnf_fputs of a reader.
LEMMA UnheededKept ==
  ASSUME FileTypes, SlotsAreHeld, NEW u \in Users, AsksOpen(u), Handled, PutsNothing(u)
  PROVE  FileInv'
<1> DEFINE r == [ok |-> TRUE, op |-> "FWRITE"]
<1>1. Holds(u, link[u].fid) /\ link[u].fid \in Fids
  BY DEF SlotsAreHeld, AsksOpen, Asks, Awaits, FileTypes
<1>2. r \in ReplySet /\ r.op \notin {"FOPEN", "FCLOSE"} /\ Answers(u, r)
  BY DEF PutsNothing, ReplySet
<1>3. table' = [table EXCEPT ![link[u].fid] = table[link[u].fid]] /\ disk' \in [Paths -> Seq(Items)]
  BY <1>1 DEF FileTypes, PutsNothing
<1> HIDE DEF r
<1> QED
  BY <1>1, <1>2, <1>3, SlotKept DEF Holds

\* cnf_fputc, cnf_fputs and cnf_fwrite.
LEMMA WriteKept ==
  ASSUME FileTypes, SlotsAreHeld, NEW u \in Users, AsksOpen(u), Handled,
         NEW item \in Items, Writes(u, link[u].fid, item)
  PROVE  FileInv'
<1> DEFINE f == link[u].fid
           r == [ok |-> TRUE, op |-> "FWRITE"]
           s == [table[f] EXCEPT !.buf = Append(@, item)]
<1>1. CASE IsOpen(f) /\ table[f].mode # "r"
  <2>1. Holds(u, f) /\ f \in Fids
    BY DEF SlotsAreHeld, AsksOpen, Asks, Awaits, FileTypes
  <2>2. r \in ReplySet /\ r.op \notin {"FOPEN", "FCLOSE"} /\ Answers(u, r)
    BY <1>1 DEF Writes, ReplySet
  <2>3. s \in StreamSet /\ s.by = u /\ s.path = use[u].path /\ s.mode = use[u].mode
    <3>1. Append(table[f].buf, item) \in Seq(Items)
      BY <2>1 DEF Holds, StreamSet
    <3> QED
      BY <2>1, <3>1 DEF Holds, StreamSet
  <2>4. \/ table' = [table EXCEPT ![f] = s] /\ UNCHANGED disk
        \/ table' = [table EXCEPT ![f] = Flushed(s)] /\ disk' = FlushTo(disk, s)
    BY <1>1 DEF Writes
  <2> HIDE DEF r, s
  <2>5. CASE table' = [table EXCEPT ![f] = s] /\ UNCHANGED disk
    <3>1. disk' \in [Paths -> Seq(Items)]
      BY <2>5 DEF FileTypes
    <3> QED
      BY <2>2, <2>3, <2>5, <3>1, SlotKept
  <2>6. CASE table' = [table EXCEPT ![f] = Flushed(s)] /\ disk' = FlushTo(disk, s)
    <3>1. /\ Flushed(s) \in StreamSet /\ disk' \in [Paths -> Seq(Items)]
          /\ Flushed(s).by = u /\ Flushed(s).path = use[u].path /\ Flushed(s).mode = use[u].mode
      BY <2>3, <2>6, FlushTyped DEF FileTypes
    <3> QED
      BY <2>2, <2>6, <3>1, SlotKept
  <2> QED
    BY <2>4, <2>5, <2>6
<1>2. CASE ~(IsOpen(f) /\ table[f].mode # "r")
  BY <1>2, FailureKept DEF Writes
<1> QED
  BY <1>1, <1>2

\* cnf_fgetc, cnf_fgets and cnf_fread.
LEMMA ReadKept ==
  ASSUME FileTypes, SlotsAreHeld, NEW u \in Users, AsksOpen(u), Handled, Reads(u, link[u].fid)
  PROVE  FileInv'
<1> DEFINE f    == link[u].fid
           s    == table[f]
           rest == IF s.ahead # <<>> THEN s.ahead
                   ELSE SubSeq(disk[s.path], s.pos + 1, Len(disk[s.path]))
           r    == [ok |-> TRUE, op |-> "FREAD", item |-> rest[1]]
           t    == [s EXCEPT !.ahead = Tail(rest), !.pos = @ + 1]
<1>1. CASE IsOpen(f) /\ s.mode = "r" /\ rest # <<>>
  <2>1. Holds(u, f) /\ f \in Fids
    BY DEF SlotsAreHeld, AsksOpen, Asks, Awaits, FileTypes
  <2>2. /\ s \in StreamSet /\ s.ahead \in Seq(Items) /\ s.pos + 1 \in Nat
        /\ disk[s.path] \in Seq(Items) /\ Len(disk[s.path]) \in Nat
    BY <2>1 DEF Holds, StreamSet, FileTypes
  <2>3. rest \in Seq(Items)
    <3>1. SubSeq(disk[s.path], s.pos + 1, Len(disk[s.path])) \in Seq(Items)
      BY <2>2, SubSeqProperties DEF StreamSet
    <3> QED
      BY <2>2, <3>1
  <2>4. /\ table' = [table EXCEPT ![f].ahead = Tail(rest), ![f].pos = @ + 1]
        /\ Answers(u, r) /\ disk' = disk
    BY <1>1 DEF Reads
  <2>5. table' = [table EXCEPT ![f] = t]
    BY <2>1, <2>4 DEF FileTypes
  <2> HIDE DEF rest
  <2>6. Tail(rest) \in Seq(Items) /\ rest[1] \in Items
    BY <1>1, <2>3
  <2>7. r \in ReplySet /\ r.op \notin {"FOPEN", "FCLOSE"}
    BY <2>6 DEF ReplySet
  <2>8. t \in StreamSet /\ t.by = u /\ t.path = use[u].path /\ t.mode = use[u].mode
    BY <2>1, <2>2, <2>6 DEF Holds, StreamSet
  <2>9. disk' \in [Paths -> Seq(Items)]
    BY <2>4 DEF FileTypes
  <2> HIDE DEF r, t
  <2> QED
    BY <2>4, <2>5, <2>7, <2>8, <2>9, SlotKept
<1>2. CASE ~(IsOpen(f) /\ s.mode = "r" /\ rest # <<>>)
  BY <1>2, FailureKept DEF Reads
<1> QED
  BY <1>1, <1>2

\* cnf_open takes a slot that is nobody's.
LEMMA OpenKept ==
  ASSUME FileTypes, SlotsAreHeld, NEW u \in Users, cnf_open(u)
  PROVE  FileInv'
<1> DEFINE p == use[u].path
           m == use[u].mode
<1>0. /\ Asks(u) /\ ~link[u].open /\ Handled /\ OpFopen(u, p, m)
      /\ p \in Paths /\ m \in {"r", "w", "a"}
  BY DEF cnf_open, FileTypes
<1>1. CASE FreeSlots = {}
  <2>1. /\ reply' = [reply EXCEPT ![u] = [ok |-> FALSE, op |-> "NONE"]]
        /\ UNCHANGED <<table, disk, link, use, wrote, fah>>
    BY <1>0, <1>1 DEF OpFopen, Fails, Answers, Handled
  <2>2. [ok |-> FALSE, op |-> "NONE"] \in ReplySet
    BY DEF ReplySet
  <2>3. FileTypes'
    BY <2>1, <2>2 DEF FileTypes
  <2>4. SlotsAreHeld'
    BY <1>0, <2>1 DEF FileTypes, SlotsAreHeld, Awaits, Holds
  <2> QED
    BY <2>3, <2>4 DEF FileInv
<1>2. CASE FreeSlots # {}
  <2> DEFINE s == Stream(p, m, u)
  <2>1. PICK f \in FreeSlots :
          /\ table' = [table EXCEPT ![f] = s] /\ disk' = Opened(disk, p, m)
          /\ Answers(u, [ok |-> TRUE, op |-> "FOPEN", fid |-> f])
    <3>1. FreeSlots \subseteq Fids /\ Fids \subseteq Nat
      BY FileAssumption DEF FreeSlots, Fids
    <3>2. \E f \in FreeSlots : \A g \in FreeSlots : f <= g
      BY <1>2, <3>1, LeastIn
    <3> QED
      BY <1>0, <1>2, <3>2 DEF OpFopen
  <2>2. s \in StreamSet /\ s.by = u /\ s.path = p /\ s.mode = m
    BY <1>0 DEF Stream, StreamSet
  <2>3. f \in Fids /\ table[f] = NoStream
    BY <2>1 DEF FreeSlots, IsOpen
  <2> DEFINE r == [ok |-> TRUE, op |-> "FOPEN", fid |-> f]
  <2>4. r \in ReplySet /\ r # NoReply /\ r.op = "FOPEN" /\ r.fid = f
    <3>1. r \in ReplySet
      BY <2>3 DEF ReplySet
    <3> QED
      BY <3>1, FileAssumption
  <2>5. disk' \in [Paths -> Seq(Items)]
    BY <2>1 DEF Opened, FileTypes
  <2>6. reply' = [reply EXCEPT ![u] = r] /\ UNCHANGED <<link, use, wrote, fah>>
    BY <1>0, <2>1 DEF Answers, Handled
  <2> HIDE DEF r, s
  <2>7. FileTypes'
    BY <2>1, <2>2, <2>4, <2>5, <2>6 DEF FileTypes
  <2>8. \A v \in Users, g \in Fids : Holds(v, g) => Holds(v, g)'
    BY <2>1, <2>3, <2>6, FileAssumption DEF Holds, FileTypes
  <2>9. Holds(u, f)'
    BY <2>1, <2>2, <2>3, <2>6 DEF Holds, FileTypes
  <2>10. SlotsAreHeld'
    <3>1. SUFFICES ASSUME NEW v \in Users
                   PROVE  /\ link'[v].open /\ ~Awaits(v, "FCLOSE")' => Holds(v, link[v].fid)'
                          /\ Awaits(v, "FOPEN")' => ~link'[v].open /\ Holds(v, reply[v].fid)'
      BY DEF SlotsAreHeld
    <3>2. CASE v = u
      BY <1>0, <2>4, <2>6, <2>9, <3>2 DEF Awaits, FileTypes
    <3>3. CASE v # u
      <4>1. /\ reply'[v] = reply[v] /\ link'[v] = link[v] /\ link[v].fid \in Fids
            /\ (Awaits(v, "FOPEN") => reply[v].fid \in Fids)
        BY <2>6, <3>3 DEF FileTypes, Awaits, ReplySet
      <4> QED
        BY <2>8, <3>3, <4>1 DEF Awaits, SlotsAreHeld
    <3> QED
      BY <3>2, <3>3
  <2> QED
    BY <2>7, <2>10 DEF FileInv
<1> QED
  BY <1>1, <1>2

\* cnf_close gives up the slot; nobody else held it.
LEMMA CloseKept ==
  ASSUME FileTypes, SlotsAreHeld, NEW u \in Users, cnf_close(u)
  PROVE  FileInv'
<1> DEFINE f == link[u].fid
           r == [ok |-> TRUE, op |-> "FCLOSE"]
<1>0. AsksOpen(u) /\ Handled /\ OpFclose(u, f)
  BY DEF cnf_close
<1>1. Holds(u, f) /\ f \in Fids
  BY <1>0 DEF SlotsAreHeld, AsksOpen, Asks, Awaits, FileTypes
<1>2. IsOpen(f)
  BY <1>1, FileAssumption DEF Holds, IsOpen
<1>3. /\ disk' = FlushTo(disk, table[f]) /\ table' = [table EXCEPT ![f] = NoStream]
      /\ reply' = [reply EXCEPT ![u] = r] /\ UNCHANGED <<link, use, wrote, fah>>
  BY <1>0, <1>2 DEF OpFclose, Answers, Handled
<1>4. r \in ReplySet /\ r # NoReply /\ r.op = "FCLOSE"
  <2>1. r \in ReplySet
    BY DEF ReplySet
  <2> QED
    BY <2>1, FileAssumption
<1> HIDE DEF r
<1>5. FileTypes'
  <2>1. disk' \in [Paths -> Seq(Items)]
    BY <1>1, <1>3, FlushTyped DEF Holds, FileTypes
  <2> QED
    BY <1>3, <1>4, <2>1 DEF FileTypes
<1>6. \A v \in Users \ {u}, g \in Fids : Holds(v, g) => Holds(v, g)'
  BY <1>1, <1>3 DEF Holds, FileTypes
<1>7. SlotsAreHeld'
  <2>1. SUFFICES ASSUME NEW v \in Users
                 PROVE  /\ link'[v].open /\ ~Awaits(v, "FCLOSE")' => Holds(v, link[v].fid)'
                        /\ Awaits(v, "FOPEN")' => ~link'[v].open /\ Holds(v, reply[v].fid)'
    BY DEF SlotsAreHeld
  <2>2. CASE v = u
    BY <1>3, <1>4, <2>2 DEF Awaits, FileTypes
  <2>3. CASE v # u
    <3>1. /\ reply'[v] = reply[v] /\ link'[v] = link[v] /\ link[v].fid \in Fids
          /\ (Awaits(v, "FOPEN") => reply[v].fid \in Fids)
      BY <1>3, <2>3 DEF FileTypes, Awaits, ReplySet
    <3> QED
      BY <1>6, <2>3, <3>1 DEF Awaits, SlotsAreHeld
  <2> QED
    BY <2>2, <2>3
<1> QED
  BY <1>5, <1>7 DEF FileInv

\* The answer hands the slot over from the call to the handle.
LEMMA AnswerKept ==
  ASSUME FileTypes, SlotsAreHeld, NEW u \in Users, Answered(u)
  PROVE  FileInv'
<1> DEFINE r == reply[u]
<1>0. /\ r \in ReplySet /\ r # NoReply /\ reply' = [reply EXCEPT ![u] = NoReply]
      /\ UNCHANGED <<fah, use, table, disk>>
  BY DEF Answered, FileTypes
<1>1. wrote' \in [Users -> Nat]
  BY DEF Answered, FileTypes
<1>2. \A v \in Users, g \in Fids : Holds(v, g) => Holds(v, g)'
  BY <1>0 DEF Holds
<1>3. /\ link' \in [Users -> [open : BOOLEAN, fid : Fids]]
      /\ \A v \in Users \ {u} : link'[v] = link[v]
      /\ r.op = "FOPEN" => link'[u].open /\ link'[u].fid = r.fid
      /\ r.op = "FCLOSE" => ~link'[u].open
      /\ r.op \notin {"FOPEN", "FCLOSE"} => link' = link
  <2>1. CASE r.op = "FOPEN"
    <3>1. r.fid \in Fids /\ link' = [link EXCEPT ![u] = [open |-> TRUE, fid |-> r.fid]]
      BY <1>0, <2>1 DEF Answered, ReplySet
    <3> QED
      BY <2>1, <3>1 DEF FileTypes
  <2>2. CASE r.op = "FCLOSE"
    <3>1. 0 \in Fids /\ link' = [link EXCEPT ![u] = [open |-> FALSE, fid |-> 0]]
      BY <2>2, FileAssumption DEF Answered, Closed, Fids
    <3> QED
      BY <2>2, <3>1 DEF FileTypes
  <2>3. CASE r.op \notin {"FOPEN", "FCLOSE"}
    BY <2>3 DEF Answered, FileTypes
  <2> QED
    BY <2>1, <2>2, <2>3
<1>4. SlotsAreHeld'
  <2>1. SUFFICES ASSUME NEW v \in Users
                 PROVE  /\ link'[v].open /\ ~Awaits(v, "FCLOSE")' => Holds(v, link[v].fid)'
                        /\ Awaits(v, "FOPEN")' => ~link'[v].open /\ Holds(v, reply[v].fid)'
    BY DEF SlotsAreHeld
  <2>2. CASE v = u
    <3>1. ~Awaits(u, "FOPEN")'
      BY <1>0 DEF Awaits, FileTypes
    <3>2. ASSUME link'[u].open PROVE Holds(u, link[u].fid)'
      <4>1. CASE r.op = "FOPEN"
        <5>1. Holds(u, r.fid) /\ r.fid \in Fids
          BY <1>0, <4>1 DEF SlotsAreHeld, Awaits, ReplySet
        <5> QED
          BY <1>2, <1>3, <4>1, <5>1
      <4>2. CASE r.op \notin {"FOPEN", "FCLOSE"}
        <5>1. Holds(u, link[u].fid) /\ link[u].fid \in Fids
          BY <1>3, <3>2, <4>2 DEF SlotsAreHeld, Awaits, FileTypes
        <5> QED
          BY <1>2, <1>3, <4>2, <5>1
      <4> QED
        BY <1>3, <3>2, <4>1, <4>2
    <3> QED
      BY <2>2, <3>1, <3>2
  <2>3. CASE v # u
    <3>1. /\ reply'[v] = reply[v] /\ link'[v] = link[v] /\ link[v].fid \in Fids
          /\ (Awaits(v, "FOPEN") => reply[v].fid \in Fids)
      BY <1>0, <1>3, <2>3 DEF FileTypes, Awaits, ReplySet
    <3> QED
      BY <1>2, <2>3, <3>1 DEF Awaits, SlotsAreHeld
  <2> QED
    BY <2>2, <2>3
<1>5. FileTypes'
  BY <1>0, <1>1, <1>3 DEF FileTypes
<1> QED
  BY <1>4, <1>5 DEF FileInv

\* Every step keeps the slots with their users.
LEMMA FileStep ==
  ASSUME FileInv, [FileNext]_fileVars
  PROVE  FileInv'
<1>1. CASE UNCHANGED fileVars
  BY <1>1 DEF fileVars, FileInv, FileTypes, SlotsAreHeld, Awaits, Holds
<1>2. CASE OpExit \/ FahKilled
  BY <1>2 DEF OpExit, FahKilled, FileInv
<1>3. ASSUME fah # "runs" PROVE (~(OpExit \/ FahKilled) /\ FileNext) => fah' # "runs"
  BY <1>3 DEF FileNext, cnf_open, cnf_close, cnf_fflush, cnf_fseek, cnf_fputc, cnf_fputs, cnf_fwrite,
              cnf_fgetc, cnf_fgets, cnf_fread, AsksOpen, Asks, Answered
<1>4. ASSUME fah = "runs", NEW u \in Users,
             \/ cnf_open(u) \/ cnf_close(u) \/ cnf_fflush(u) \/ cnf_fseek(u)
             \/ cnf_fputc(u) \/ cnf_fputs(u) \/ cnf_fwrite(u)
             \/ cnf_fgetc(u) \/ cnf_fgets(u) \/ cnf_fread(u)
             \/ Answered(u)
      PROVE  FileInv'
  <2>0. FileTypes /\ SlotsAreHeld /\ NewItem(u) \in Items
    BY <1>4 DEF FileInv, FileTypes, NewItem, Items
  <2>1. CASE cnf_open(u)
    BY <2>0, <2>1, OpenKept
  <2>2. CASE cnf_close(u)
    BY <2>0, <2>2, CloseKept
  <2>3. CASE cnf_fflush(u) \/ cnf_fseek(u)
    BY <2>0, <2>3, FlushKept DEF cnf_fflush, cnf_fseek
  <2>4. CASE cnf_fputc(u) \/ cnf_fputs(u) \/ cnf_fwrite(u)
    <3>1. AsksOpen(u) /\ Handled /\ (Writes(u, link[u].fid, NewItem(u)) \/ PutsNothing(u))
      BY <2>4 DEF cnf_fputc, cnf_fputs, cnf_fwrite, OpFputc, OpFputs, OpFwrite
    <3> QED
      BY <2>0, <3>1, WriteKept, UnheededKept
  <2>5. CASE cnf_fgetc(u) \/ cnf_fgets(u) \/ cnf_fread(u)
    <3>1. AsksOpen(u) /\ Handled /\ Reads(u, link[u].fid)
      BY <2>5 DEF cnf_fgetc, cnf_fgets, cnf_fread, OpFgetc, OpFgets, OpFread
    <3> QED
      BY <2>0, <3>1, ReadKept
  <2>6. CASE Answered(u)
    BY <2>0, <2>6, AnswerKept
  <2> QED
    BY <1>4, <2>1, <2>2, <2>3, <2>4, <2>5, <2>6
<1> QED
  BY <1>1, <1>2, <1>3, <1>4 DEF FileNext, FileInv

\* With any number of users and any table, the handle of a user whose file is open denotes
\* his own stream: the handler never gives a slot to two, nor closes another's.
THEOREM HandlesAreTheirOwn == FileSpec => []HandleIsMine
<1>1. FileSpec => []FileInv
  BY FileBegins, FileStep, PTL DEF FileSpec
<1>2. FileInv => HandleIsMine
  BY HeldIsMine
<1> QED
  BY <1>1, <1>2, PTL

-----------------------------------------------------------------------------
(* What stands in the files.                                               *)

SavedTypes ==
  /\ FileTypes /\ saved \in [Users -> Nat] /\ got \in [Users -> Seq(Items)]
  /\ fah \in {"runs", "exits", "exited", "killed"}
  /\ fah \in {"exited", "killed"} => \A f \in Fids : ~IsOpen(f)

\* What user u has written and saved, and written with a write that has not been answered yet;
\* of what a reader is told that it has been written, nothing is.
Writer(u)  == use[u].mode # "r"
Written(u) == IF Writer(u) THEN wrote[u] ELSE 0
Kept(u)    == IF Writer(u) THEN saved[u] ELSE 0
Sent(u)    == IF Writer(u) /\ Awaits(u, "FWRITE") THEN Written(u) + 1 ELSE Written(u)
Most(u)    == IF Writer(u) THEN wrote[u] + 1 ELSE 0
Owns(u, f) == IsOpen(f) /\ table[f].by = u
UserFile(u) == disk[use[u].path]
\* The items of user u in a file are 1 to n, in order, and those in a buffer the next, to m.
Has(u, file, n) == InOrder(u, file) /\ {file[i][2] : i \in StandsIn(u, file)} = 1 .. n
Continues(buf, u, n, m) == n + Len(buf) = m /\ \A k \in DOMAIN buf : buf[k] = <<u, n + k>>
\* Everything that user u has written is on disk or in the buffer of his stream.
Accounted(u, n) ==
  /\ Has(u, UserFile(u), n) /\ Kept(u) <= n /\ n <= Most(u)
  /\ Awaits(u, "FFLUSH") \/ Awaits(u, "FCLOSE") => Written(u) <= n
  /\ fah # "killed" =>
       /\ \A f \in Fids : Owns(u, f) => Continues(table[f].buf, u, n, Sent(u))
       /\ (\A f \in Fids : ~Owns(u, f)) => n = Sent(u)
\* A user has one stream, and it is at the end of a file that he writes.
StreamFits(f) ==
  LET s == table[f] IN
  /\ s.path = use[s.by].path /\ s.mode = use[s.by].mode
  /\ s.mode = "w" => s.pos = Len(disk[s.path])
  /\ s.mode = "r" => s.buf = <<>>
  /\ \A g \in Fids : Owns(s.by, g) => g = f
  /\ fah = "runs" =>
       \/ link[s.by].open /\ link[s.by].fid = f /\ ~Awaits(s.by, "FCLOSE")
       \/ Awaits(s.by, "FOPEN") /\ reply[s.by].fid = f
\* What stands in a file is of its users.
DiskFits == \A p \in Paths : \A i \in DOMAIN disk[p] : use[disk[p][i][1]].path = p
\* What a reader has got, what is on its way to him, and what has been read ahead.
Expected(u) == IF Awaits(u, "FOPEN") THEN 0 ELSE IF Awaits(u, "FREAD") THEN Len(got[u]) + 1 ELSE Len(got[u])
ReadsAhead(u, s) ==
  /\ s.pos = Expected(u) /\ s.pos + Len(s.ahead) <= Len(UserFile(u))
  /\ \A k \in DOMAIN s.ahead : s.ahead[k] = UserFile(u)[s.pos + k]
ReaderFits(u) ==
  /\ Len(got[u]) <= Len(UserFile(u)) /\ \A k \in DOMAIN got[u] : got[u][k] = UserFile(u)[k]
  /\ Awaits(u, "FREAD") => Len(got[u]) < Len(UserFile(u)) /\ reply[u].item = UserFile(u)[Len(got[u]) + 1]
  /\ \A f \in Fids : Owns(u, f) /\ table[f].mode = "r" => ReadsAhead(u, table[f])
UserFits(u) == (\E n \in Nat : Accounted(u, n)) /\ ReaderFits(u)
\* One writes a file anew, and nobody else writes it.
UsesFit == \A u, v \in Users : u # v /\ use[u].mode = "w" /\ use[v].path = use[u].path => use[v].mode = "r"

SavedInv ==
  /\ SavedTypes /\ UsesFit /\ DiskFits
  /\ \A u \in Users : UserFits(u)
  /\ \A f \in Fids : IsOpen(f) => StreamFits(f)

-----------------------------------------------------------------------------

\* Where the items of two sequences stand in both of them together.
LEMMA Appended ==
  ASSUME NEW S, NEW file \in Seq(S), NEW more \in Seq(S)
  PROVE  /\ (file \o more) \in Seq(S) /\ Len(file \o more) = Len(file) + Len(more)
         /\ DOMAIN (file \o more) = 1 .. Len(file) + Len(more)
         /\ \A i \in DOMAIN file : (file \o more)[i] = file[i]
         /\ \A k \in DOMAIN more : (file \o more)[Len(file) + k] = more[k]
         /\ \A i \in DOMAIN (file \o more) : i \in DOMAIN file \/ \E k \in DOMAIN more : i = Len(file) + k
<1> DEFINE all == file \o more
<1>1. /\ all \in Seq(S) /\ Len(all) = Len(file) + Len(more)
      /\ \A i \in 1 .. Len(file) + Len(more) : all[i] = IF i <= Len(file) THEN file[i] ELSE more[i - Len(file)]
  BY ConcatProperties
<1>2. DOMAIN file = 1 .. Len(file) /\ DOMAIN more = 1 .. Len(more) /\ Len(file) \in Nat /\ Len(more) \in Nat
      /\ DOMAIN all = 1 .. Len(all)
  BY <1>1
<1> HIDE DEF all
<1>3. \A i \in DOMAIN file : all[i] = file[i]
  BY <1>1, <1>2
<1>4. ASSUME NEW k \in DOMAIN more PROVE all[Len(file) + k] = more[k]
  <2>1. Len(file) + k \in 1 .. Len(file) + Len(more) /\ ~(Len(file) + k <= Len(file)) /\ (Len(file) + k) - Len(file) = k
    BY <1>2
  <2> QED
    BY <1>1, <2>1
<1>5. ASSUME NEW i \in DOMAIN all PROVE i \in DOMAIN file \/ \E k \in DOMAIN more : i = Len(file) + k
  <2>1. CASE i <= Len(file)
    BY <1>1, <1>2, <2>1
  <2>2. CASE ~(i <= Len(file))
    <3>1. i - Len(file) \in DOMAIN more /\ i = Len(file) + (i - Len(file))
      BY <1>1, <1>2, <2>2
    <3> QED
      BY <3>1
  <2> QED
    BY <2>1, <2>2
<1> QED
  BY <1>1, <1>2, <1>3, <1>4, <1>5 DEF all

\* Nothing more is the same.
LEMMA NothingAppended == ASSUME NEW S, NEW file \in Seq(S) PROVE file \o <<>> = file
OBVIOUS

\* What is written at the end of a file is appended to it.
LEMMA OverwrittenAtEnd ==
  ASSUME NEW S, NEW file \in Seq(S), NEW buf \in Seq(S)
  PROVE  Overwritten(file, Len(file), buf) = file \o buf
<1>1. Len(file) \in Nat /\ Len(buf) \in Nat
  OBVIOUS
<1> DEFINE m == Len(file) + Len(buf) + 1
<1>2. m \in Int /\ Len(file) \in Int /\ Len(file) < m
  BY <1>1
<1> HIDE DEF m
<1>3. SubSeq(file, m, Len(file)) = <<>>
  BY <1>2, SubSeqEmpty
<1>4. SubSeq(file, 1, Len(file)) = file
  BY SubSeqFull
<1>5. file \o buf \o <<>> = file \o buf
  OBVIOUS
<1>6. Overwritten(file, Len(file), buf) = SubSeq(file, 1, Len(file)) \o buf \o SubSeq(file, m, Len(file))
  BY <1>1 DEF Overwritten, m
<1> QED
  BY <1>3, <1>4, <1>5, <1>6

\* An empty buffer overwrites nothing, wherever the stream is.
LEMMA OverwrittenByNothing ==
  ASSUME NEW S, NEW file \in Seq(S), NEW pos \in Nat
  PROVE  Overwritten(file, pos, <<>>) = file
<1>1. Len(file) \in Nat /\ Len(<<>>) = 0
  OBVIOUS
<1>2. Overwritten(file, pos, <<>>)
        = SubSeq(file, 1, IF pos < Len(file) THEN pos ELSE Len(file)) \o <<>> \o SubSeq(file, pos + 1, Len(file))
  <2>1. pos + 0 + 1 = pos + 1
    OBVIOUS
  <2> QED
    BY <1>1, <2>1 DEF Overwritten
<1>3. CASE pos < Len(file)
  <2>1. SubSeq(file, 1, pos) \in Seq(S)
    BY <1>3
  <2>2. SubSeq(file, 1, pos) \o <<>> = SubSeq(file, 1, pos)
    BY <2>1
  <2>3. 1 \in 1 .. Len(file) + 1 /\ pos \in 1 - 1 .. Len(file) /\ Len(file) \in pos .. Len(file)
    BY <1>1, <1>3
  <2>4. SubSeq(file, 1, pos) \o SubSeq(file, pos + 1, Len(file)) = SubSeq(file, 1, Len(file))
    BY <2>3, ConcatAdjacentSubSeq
  <2> QED
    BY <1>2, <1>3, <2>2, <2>4, SubSeqFull
<1>4. CASE ~(pos < Len(file))
  <2>1. pos + 1 \in Int /\ Len(file) \in Int /\ Len(file) < pos + 1
    BY <1>1, <1>4
  <2>2. SubSeq(file, pos + 1, Len(file)) = <<>>
    BY <2>1, SubSeqEmpty
  <2>3. file \o <<>> \o <<>> = file
    OBVIOUS
  <2> QED
    BY <1>2, <1>4, <2>2, <2>3, SubSeqFull
<1> QED
  BY <1>3, <1>4

\* Flushing a stream at the end of its file appends what is in its buffer.
LEMMA FlushAppends ==
  ASSUME NEW d \in [Paths -> Seq(Items)], NEW s \in StreamSet,
         s.mode = "w" => s.pos = Len(d[s.path]), s.mode = "r" => s.buf = <<>>
  PROVE  FlushTo(d, s) = [d EXCEPT ![s.path] = @ \o s.buf]
<1> DEFINE file == d[s.path]
<1>1. file \in Seq(Items) /\ s.buf \in Seq(Items) /\ s.pos \in Nat /\ s.mode \in {"r", "w", "a"}
  BY DEF StreamSet
<1> HIDE DEF file
<1>2. s.mode = "w" => Overwritten(file, s.pos, s.buf) = file \o s.buf
  BY <1>1, OverwrittenAtEnd DEF file
<1>3. s.mode = "r" => Overwritten(file, s.pos, s.buf) = file \o s.buf
  BY <1>1, OverwrittenByNothing, NothingAppended
<1> QED
  BY <1>1, <1>2, <1>3 DEF FlushTo, file

\* The items that follow those of a user in his file are in order with them.
LEMMA OwnAppended ==
  ASSUME NEW u \in Users, NEW file \in Seq(Items), NEW buf \in Seq(Items), NEW n \in Nat, NEW m \in Nat,
         Has(u, file, n), Continues(buf, u, n, m)
  PROVE  Has(u, file \o buf, m)
<1> DEFINE all == file \o buf
<1>1. /\ all \in Seq(Items) /\ DOMAIN all = 1 .. Len(file) + Len(buf)
      /\ \A i \in DOMAIN file : all[i] = file[i]
      /\ \A k \in DOMAIN buf : all[Len(file) + k] = buf[k]
      /\ \A i \in DOMAIN all : i \in DOMAIN file \/ \E k \in DOMAIN buf : i = Len(file) + k
  BY Appended
<1>2. /\ DOMAIN file = 1 .. Len(file) /\ DOMAIN buf = 1 .. Len(buf) /\ Len(file) \in Nat /\ Len(buf) \in Nat
      /\ n + Len(buf) = m /\ \A k \in DOMAIN buf : buf[k][1] = u /\ buf[k][2] = n + k
  BY DEF Continues
<1>3. \A i \in StandsIn(u, file) : file[i][2] \in 1 .. n
  BY DEF Has
<1> HIDE DEF all
<1>4. StandsIn(u, all) = StandsIn(u, file) \cup {Len(file) + k : k \in DOMAIN buf}
  BY <1>1, <1>2 DEF StandsIn
<1>5. InOrder(u, all)
  <2> SUFFICES ASSUME NEW i \in StandsIn(u, all), NEW j \in StandsIn(u, all), i < j PROVE all[i][2] < all[j][2]
    BY DEF InOrder
  <2>1. CASE i \in StandsIn(u, file) /\ j \in StandsIn(u, file)
    BY <1>1, <2>1 DEF StandsIn, Has, InOrder
  <2>2. ASSUME i \in StandsIn(u, file), NEW k \in DOMAIN buf, j = Len(file) + k PROVE all[i][2] < all[j][2]
    <3>1. all[i] = file[i] /\ all[j] = buf[k] /\ file[i][2] \in 1 .. n
      BY <1>1, <1>3, <2>2 DEF StandsIn
    <3> QED
      BY <1>2, <3>1
  <2>3. ASSUME NEW k \in DOMAIN buf, i = Len(file) + k, j \in StandsIn(u, file) PROVE FALSE
    BY <1>2, <2>3 DEF StandsIn
  <2>4. ASSUME NEW k \in DOMAIN buf, i = Len(file) + k, NEW l \in DOMAIN buf, j = Len(file) + l PROVE all[i][2] < all[j][2]
    BY <1>1, <1>2, <2>4
  <2> QED
    BY <1>4, <2>1, <2>2, <2>3, <2>4
<1>6. ASSUME NEW x \in {all[i][2] : i \in StandsIn(u, all)} PROVE x \in 1 .. m
  <2>1. PICK i \in StandsIn(u, all) : x = all[i][2]
    OBVIOUS
  <2>2. CASE i \in StandsIn(u, file)
    <3>1. x \in 1 .. n
      BY <1>1, <1>3, <2>1, <2>2 DEF StandsIn
    <3> QED
      BY <1>2, <3>1
  <2>3. ASSUME NEW k \in DOMAIN buf, i = Len(file) + k PROVE x \in 1 .. m
    BY <1>1, <1>2, <2>1, <2>3
  <2> QED
    BY <1>4, <2>2, <2>3
<1>7. ASSUME NEW x \in 1 .. m PROVE x \in {all[i][2] : i \in StandsIn(u, all)}
  <2>1. CASE x <= n
    <3>1. PICK i \in StandsIn(u, file) : file[i][2] = x
      <4>1. x \in 1 .. n /\ {file[i][2] : i \in StandsIn(u, file)} = 1 .. n
        BY <2>1 DEF Has
      <4> QED
        BY <4>1
    <3> QED
      BY <1>1, <1>4, <3>1 DEF StandsIn
  <2>2. CASE ~(x <= n)
    <3>1. x - n \in DOMAIN buf /\ n + (x - n) = x
      BY <1>2, <2>2
    <3>2. Len(file) + (x - n) \in StandsIn(u, all) /\ all[Len(file) + (x - n)][2] = x
      BY <1>1, <1>2, <1>4, <3>1
    <3> QED
      BY <3>2
  <2> QED
    BY <2>1, <2>2
<1> QED
  BY <1>5, <1>6, <1>7 DEF Has, all

\* What another appends changes nothing of that.
LEMMA OthersAppended ==
  ASSUME NEW v \in Users, NEW file \in Seq(Items), NEW buf \in Seq(Items), NEW n,
         Has(v, file, n), \A k \in DOMAIN buf : buf[k][1] # v
  PROVE  Has(v, file \o buf, n)
<1> DEFINE all == file \o buf
<1>1. /\ DOMAIN all = 1 .. Len(file) + Len(buf) /\ DOMAIN file = 1 .. Len(file) /\ Len(file) \in Nat /\ Len(buf) \in Nat
      /\ \A i \in DOMAIN file : all[i] = file[i]
      /\ \A k \in DOMAIN buf : all[Len(file) + k] = buf[k]
      /\ \A i \in DOMAIN all : i \in DOMAIN file \/ \E k \in DOMAIN buf : i = Len(file) + k
  BY Appended
<1> HIDE DEF all
<1>2. StandsIn(v, all) = StandsIn(v, file)
  BY <1>1 DEF StandsIn
<1>3. \A i \in StandsIn(v, file) : all[i] = file[i]
  BY <1>1 DEF StandsIn
<1>4. {all[i][2] : i \in StandsIn(v, all)} = {file[i][2] : i \in StandsIn(v, file)}
  BY <1>2, <1>3
<1>5. InOrder(v, all)
  BY <1>2, <1>3 DEF Has, InOrder
<1> QED
  BY <1>4, <1>5 DEF Has, all

-----------------------------------------------------------------------------
(* A step of one user leaves the others what they have.                    *)

Grows(u, more) ==
  /\ disk' = [disk EXCEPT ![use[u].path] = @ \o more] /\ more \in Seq(Items)
  /\ \A k \in DOMAIN more : more[k][1] = u
  /\ use[u].mode = "r" => more = <<>>
StepOf(u, more) ==
  /\ Grows(u, more) /\ UNCHANGED use /\ (fah' = "killed" <=> fah = "killed") /\ (fah' = "runs" => fah = "runs")
  /\ \A v \in Users \ {u} : /\ wrote'[v] = wrote[v] /\ saved'[v] = saved[v] /\ got'[v] = got[v]
                            /\ reply'[v] = reply[v] /\ link'[v] = link[v]
  /\ \A f \in Fids : \/ table'[f] = table[f]
                     \/ (IsOpen(f) => table[f].by = u) /\ (IsOpen(f)' => table'[f].by = u)

\* A step that leaves the files appends nothing.
LEMMA NothingGrown == ASSUME SavedTypes, NEW u \in Users, UNCHANGED disk PROVE Grows(u, <<>>)
<1>1. disk \in [Paths -> Seq(Items)] /\ use[u].path \in Paths
  BY DEF SavedTypes, FileTypes
<1>2. disk[use[u].path] \o <<>> = disk[use[u].path]
  BY <1>1
<1> QED
  BY <1>1, <1>2 DEF Grows

\* What stood in the files stands there still, and a file of one writer is his.
LEMMA GrownFiles ==
  ASSUME SavedTypes, UsesFit, NEW u \in Users, NEW more, Grows(u, more), UNCHANGED use
  PROVE  /\ UserFile(u)' = UserFile(u) \o more
         /\ \A p \in Paths : p # use[u].path => disk'[p] = disk[p]
         /\ \A v \in Users : /\ UserFile(v) \in Seq(Items) /\ UserFile(v)' \in Seq(Items) /\ Len(UserFile(v)) <= Len(UserFile(v)')
                             /\ \A i \in DOMAIN UserFile(v) : i \in DOMAIN UserFile(v)' /\ UserFile(v)'[i] = UserFile(v)[i]
         /\ \A v \in Users \ {u} : /\ \A n \in Nat : Has(v, UserFile(v), n) => Has(v, UserFile(v)', n)
                                   /\ use[v].mode = "w" => UserFile(v)' = UserFile(v)
<1>1. disk \in [Paths -> Seq(Items)] /\ (\A v \in Users : use[v].path \in Paths) /\ more \in Seq(Items)
  BY DEF SavedTypes, FileTypes, Grows
<1>2. UserFile(u)' = UserFile(u) \o more /\ \A p \in Paths : p # use[u].path => disk'[p] = disk[p]
  BY <1>1 DEF Grows, UserFile
<1>3. \A v \in Users : UserFile(v) \in Seq(Items)
  BY <1>1 DEF UserFile
<1>4. \A v \in Users : use[v].path # use[u].path => UserFile(v)' = UserFile(v)
  BY <1>1, <1>2 DEF UserFile
<1>5. \A v \in Users : use[v].path = use[u].path => UserFile(v) = UserFile(u) /\ UserFile(v)' = UserFile(u) \o more
  BY <1>2 DEF UserFile
<1>6. ASSUME NEW v \in Users
      PROVE  /\ UserFile(v)' \in Seq(Items) /\ Len(UserFile(v)) <= Len(UserFile(v)')
             /\ \A i \in DOMAIN UserFile(v) : i \in DOMAIN UserFile(v)' /\ UserFile(v)'[i] = UserFile(v)[i]
  <2>1. CASE use[v].path # use[u].path
    BY <1>3, <1>4, <2>1
  <2>2. CASE use[v].path = use[u].path
    <3>1. /\ UserFile(v)' \in Seq(Items) /\ Len(UserFile(v)') = Len(UserFile(v)) + Len(more)
          /\ DOMAIN UserFile(v)' = 1 .. Len(UserFile(v)) + Len(more)
          /\ \A i \in DOMAIN UserFile(v) : UserFile(v)'[i] = UserFile(v)[i]
      <4>1. UserFile(v)' = UserFile(v) \o more
        BY <1>5, <2>2
      <4> QED
        BY <1>1, <1>3, <4>1, Appended
    <3>2. DOMAIN UserFile(v) = 1 .. Len(UserFile(v)) /\ Len(UserFile(v)) \in Nat /\ Len(more) \in Nat
      BY <1>1, <1>3
    <3> QED
      BY <3>1, <3>2
  <2> QED
    BY <2>1, <2>2
<1>7. ASSUME NEW v \in Users \ {u}
      PROVE  /\ \A n \in Nat : Has(v, UserFile(v), n) => Has(v, UserFile(v)', n)
             /\ use[v].mode = "w" => UserFile(v)' = UserFile(v)
  <2>1. CASE use[v].path # use[u].path
    BY <1>4, <2>1
  <2>2. CASE use[v].path = use[u].path
    <3>1. UserFile(v)' = UserFile(v) \o more
      BY <1>5, <2>2
    <3>2. \A k \in DOMAIN more : more[k][1] # v
      BY DEF Grows
    <3>3. use[v].mode = "w" => more = <<>>
      BY <2>2 DEF UsesFit, Grows
    <3>4. use[v].mode = "w" => UserFile(v) \o more = UserFile(v)
      BY <1>3, <3>3, NothingAppended
    <3> QED
      BY <1>1, <1>3, <3>1, <3>2, <3>4, OthersAppended
  <2> QED
    BY <2>1, <2>2
<1> QED
  BY <1>2, <1>3, <1>6, <1>7

\* A reader whose own did not change, and what was in the file is there.
LEMMA ReaderKept ==
  ASSUME NEW v \in Users, ReaderFits(v), got'[v] = got[v], got[v] \in Seq(Items),
         Awaits(v, "FREAD")' => Awaits(v, "FREAD") /\ reply'[v] = reply[v], Expected(v)' = Expected(v),
         UserFile(v) \in Seq(Items), UserFile(v)' \in Seq(Items), Len(UserFile(v)) <= Len(UserFile(v)'),
         \A i \in DOMAIN UserFile(v) : i \in DOMAIN UserFile(v)' /\ UserFile(v)'[i] = UserFile(v)[i],
         \A f \in Fids : Owns(v, f)' /\ table'[f].mode = "r" => Owns(v, f) /\ table'[f] = table[f] /\ table[f] \in StreamSet
  PROVE  ReaderFits(v)'
<1> DEFINE file == UserFile(v)
           more == UserFile(v)'
           n    == Len(got[v])
<1>1. /\ DOMAIN file = 1 .. Len(file) /\ Len(file) \in Nat /\ Len(more) \in Nat /\ n \in Nat
      /\ DOMAIN got[v] = 1 .. n /\ Len(file) <= Len(more) /\ \A i \in 1 .. Len(file) : more[i] = file[i]
  OBVIOUS
<1>2. /\ n <= Len(file) /\ \A k \in DOMAIN got[v] : got[v][k] = file[k]
      /\ Awaits(v, "FREAD") => n < Len(file) /\ reply[v].item = file[n + 1]
      /\ \A f \in Fids : Owns(v, f) /\ table[f].mode = "r" => ReadsAhead(v, table[f])
  BY DEF ReaderFits
<1> HIDE DEF n
<1>4. n <= Len(more) /\ \A k \in DOMAIN got[v] : got[v][k] = more[k]
  BY <1>1, <1>2
<1>5. Awaits(v, "FREAD")' => n < Len(more) /\ reply'[v].item = more[n + 1]
  BY <1>1, <1>2
<1>6. ASSUME NEW f \in Fids, Owns(v, f), table[f].mode = "r", table[f] \in StreamSet
      PROVE  /\ table[f].pos = Expected(v) /\ table[f].pos + Len(table[f].ahead) <= Len(more)
             /\ \A k \in DOMAIN table[f].ahead : table[f].ahead[k] = more[table[f].pos + k]
  <2>1. /\ table[f].pos = Expected(v) /\ table[f].pos + Len(table[f].ahead) <= Len(file)
        /\ \A k \in DOMAIN table[f].ahead : table[f].ahead[k] = file[table[f].pos + k]
    BY <1>2, <1>6 DEF ReadsAhead
  <2>2. /\ table[f].pos \in Nat /\ Len(table[f].ahead) \in Nat /\ DOMAIN table[f].ahead = 1 .. Len(table[f].ahead)
    BY <1>6 DEF StreamSet
  <2>3. \A k \in DOMAIN table[f].ahead : table[f].pos + k \in 1 .. Len(file)
    BY <1>1, <2>1, <2>2
  <2> QED
    BY <1>1, <2>1, <2>2, <2>3
<1>7. \A f \in Fids : Owns(v, f)' /\ table'[f].mode = "r" => ReadsAhead(v, table[f])'
  BY <1>6 DEF ReadsAhead
<1> QED
  BY <1>4, <1>5, <1>7 DEF ReaderFits, n

\* A step of one user that is right for him is right for all.
LEMMA StepKept ==
  ASSUME SavedInv, NEW u \in Users, NEW more, StepOf(u, more), SavedTypes', UserFits(u)',
         \A f \in Fids : Owns(u, f)' => StreamFits(f)'
  PROVE  SavedInv'
<1>1. /\ SavedTypes /\ UsesFit /\ DiskFits /\ (\A v \in Users : UserFits(v)) /\ (\A f \in Fids : IsOpen(f) => StreamFits(f))
      /\ Grows(u, more) /\ UNCHANGED use
  BY DEF SavedInv, StepOf
<1>2. UsesFit'
  BY <1>1 DEF UsesFit
<1>3. /\ UserFile(u)' = UserFile(u) \o more
      /\ \A p \in Paths : p # use[u].path => disk'[p] = disk[p]
      /\ \A v \in Users : /\ UserFile(v) \in Seq(Items) /\ UserFile(v)' \in Seq(Items) /\ Len(UserFile(v)) <= Len(UserFile(v)')
                          /\ \A i \in DOMAIN UserFile(v) : i \in DOMAIN UserFile(v)' /\ UserFile(v)'[i] = UserFile(v)[i]
      /\ \A v \in Users \ {u} : /\ \A n \in Nat : Has(v, UserFile(v), n) => Has(v, UserFile(v)', n)
                                /\ use[v].mode = "w" => UserFile(v)' = UserFile(v)
  BY <1>1, GrownFiles
<1>4. ASSUME NEW v \in Users \ {u} PROVE /\ wrote'[v] = wrote[v] /\ saved'[v] = saved[v] /\ got'[v] = got[v]
                                         /\ reply'[v] = reply[v] /\ link'[v] = link[v]
                                         /\ \A op : Awaits(v, op)' = Awaits(v, op)
                                         /\ Sent(v)' = Sent(v) /\ Written(v)' = Written(v) /\ Kept(v)' = Kept(v) /\ Most(v)' = Most(v)
  <2>1. /\ wrote'[v] = wrote[v] /\ saved'[v] = saved[v] /\ got'[v] = got[v]
        /\ reply'[v] = reply[v] /\ link'[v] = link[v]
    BY DEF StepOf
  <2> QED
    BY <1>1, <2>1 DEF Awaits, Sent, Written, Kept, Writer, Most
<1>5. ASSUME NEW v \in Users \ {u}, NEW f \in Fids
      PROVE  /\ Owns(v, f)' = Owns(v, f) /\ (Owns(v, f) => table'[f] = table[f] /\ table[f] \in StreamSet)
  <2>1. \/ table'[f] = table[f]
        \/ (IsOpen(f) => table[f].by = u) /\ (IsOpen(f)' => table'[f].by = u)
    BY DEF StepOf
  <2>2. table[f] \in StreamSet \cup {NoStream}
    BY <1>1 DEF SavedTypes, FileTypes
  <2> QED
    BY <2>1, <2>2 DEF Owns, IsOpen
<1>6. fah' # "killed" <=> fah # "killed"
  BY DEF StepOf
<1>7. ASSUME NEW v \in Users \ {u} PROVE UserFits(v)'
  <2>1. ReaderFits(v)'
    <3>1. ReaderFits(v) /\ got[v] \in Seq(Items)
      BY <1>1 DEF UserFits, SavedTypes
    <3>2. Expected(v)' = Expected(v)
      BY <1>4 DEF Expected
    <3> QED
      BY <1>3, <1>4, <1>5, <3>1, <3>2, ReaderKept
  <2>2. PICK n \in Nat : Accounted(v, n)
    BY <1>1 DEF UserFits
  <2>3. Accounted(v, n)'
    <3>1. Has(v, UserFile(v), n)'
      <4>1. Has(v, UserFile(v)', n)
        BY <1>3, <2>2 DEF Accounted
      <4> QED
        BY <4>1 DEF Has, InOrder, StandsIn
    <3>2. Kept(v)' <= n /\ n <= Most(v)' /\ (Awaits(v, "FFLUSH")' \/ Awaits(v, "FCLOSE")' => Written(v)' <= n)
      BY <1>4, <2>2 DEF Accounted
    <3>3. ASSUME fah' # "killed"
          PROVE  /\ \A f \in Fids : Owns(v, f)' => Continues(table'[f].buf, v, n, Sent(v)')
                 /\ (\A f \in Fids : ~Owns(v, f)') => n = Sent(v)'
      BY <1>4, <1>5, <1>6, <2>2, <3>3 DEF Accounted
    <3> QED
      BY <3>1, <3>2, <3>3 DEF Accounted, Continues
  <2> QED
    BY <2>1, <2>3 DEF UserFits
<1>8. DiskFits'
  <2>1. ASSUME NEW p \in Paths, NEW i \in DOMAIN disk'[p] PROVE use[disk'[p][i][1]].path = p
    <3>1. CASE p # use[u].path
      BY <1>1, <1>3, <2>1, <3>1 DEF DiskFits
    <3>2. CASE p = use[u].path
      <4>1. disk'[p] = disk[p] \o more /\ disk[p] \in Seq(Items) /\ more \in Seq(Items)
        BY <1>1, <1>3, <3>2 DEF UserFile, Grows
      <4>2. CASE i \in DOMAIN disk[p]
        BY <1>1, <4>1, <4>2, Appended DEF DiskFits
      <4>3. ASSUME NEW k \in DOMAIN more, i = Len(disk[p]) + k PROVE use[disk'[p][i][1]].path = p
        <5>1. disk'[p][i] = more[k]
          BY <4>1, <4>3, Appended
        <5>2. more[k][1] = u
          BY <1>1 DEF Grows
        <5> QED
          BY <3>2, <5>1, <5>2
      <4> QED
        BY <4>1, <4>2, <4>3, Appended
    <3> QED
      BY <3>1, <3>2
  <2> QED
    BY <1>1, <2>1 DEF DiskFits
<1>9. ASSUME NEW f \in Fids, IsOpen(f)' PROVE StreamFits(f)'
  <2>1. CASE table'[f].by = u
    BY <1>9, <2>1 DEF Owns
  <2>2. CASE table'[f].by # u
    <3>1. table'[f] \in StreamSet
      BY <1>9 DEF SavedTypes, FileTypes, IsOpen
    <3>2. PICK v \in Users \ {u} : Owns(v, f)'
      <4>1. table'[f].by \in Users \ {u}
        BY <2>2, <3>1 DEF StreamSet
      <4> QED
        BY <1>9, <4>1 DEF Owns
    <3>3. Owns(v, f) /\ table'[f] = table[f] /\ table[f].by = v
      BY <1>5, <3>2 DEF Owns
    <3>4. StreamFits(f)
      BY <1>1, <3>3 DEF Owns
    <3>5. table[f].path = use[v].path /\ table[f].mode = use[v].mode
      BY <3>3, <3>4 DEF StreamFits
    <3>6. table[f].mode = "w" => table[f].pos = Len(disk'[table[f].path])
      <4>1. table[f].mode = "w" => UserFile(v)' = UserFile(v)
        BY <1>3, <3>2, <3>5
      <4> QED
        BY <1>1, <3>4, <3>5, <4>1 DEF StreamFits, UserFile
    <3>7. \A g \in Fids : Owns(v, g)' => g = f
      BY <1>5, <3>2, <3>3, <3>4 DEF StreamFits
    <3>8. fah' = "runs" => \/ link'[v].open /\ link'[v].fid = f /\ ~Awaits(v, "FCLOSE")'
                           \/ Awaits(v, "FOPEN")' /\ reply'[v].fid = f
      <4>1. fah' = "runs" => fah = "runs"
        BY DEF StepOf
      <4> QED
        BY <1>4, <3>2, <3>3, <3>4, <4>1 DEF StreamFits
    <3>9. table[f].mode = "r" => table[f].buf = <<>>
      BY <3>4 DEF StreamFits
    <3> QED
      BY <1>1, <3>3, <3>5, <3>6, <3>7, <3>8, <3>9 DEF StreamFits
  <2> QED
    BY <2>1, <2>2
<1> QED
  BY <1>2, <1>7, <1>8, <1>9 DEF SavedInv

-----------------------------------------------------------------------------
(* The calls.                                                              *)

\* Who calls on an open file has a stream, and has been answered.
LEMMA Asking ==
  ASSUME SavedInv, FileInv, NEW u \in Users, AsksOpen(u)
  PROVE  /\ fah = "runs" /\ link[u].fid \in Fids /\ table[link[u].fid] \in StreamSet
         /\ Owns(u, link[u].fid) /\ StreamFits(link[u].fid) /\ \A g \in Fids : Owns(u, g) => g = link[u].fid
         /\ table[link[u].fid].path = use[u].path /\ table[link[u].fid].mode = use[u].mode
         /\ (\A op : ~Awaits(u, op)) /\ Sent(u) = Written(u) /\ Written(u) \in Nat /\ wrote[u] \in Nat
<1>1. fah = "runs" /\ reply[u] = NoReply /\ link[u].open
  BY DEF AsksOpen, Asks
<1>2. FileTypes /\ Holds(u, link[u].fid)
  BY <1>1 DEF FileInv, SlotsAreHeld, Awaits
<1>3. link[u].fid \in Fids /\ wrote[u] \in Nat
  BY <1>2 DEF FileTypes
<1>4. Owns(u, link[u].fid) /\ StreamFits(link[u].fid)
  BY <1>2, <1>3, FileAssumption DEF Holds, Owns, IsOpen, SavedInv
<1> QED
  BY <1>1, <1>2, <1>3, <1>4 DEF Holds, StreamFits, Owns, Awaits, Sent, Written

\* A call leaves what has been written.
LEMMA HandledKeeps ==
  ASSUME Handled
  PROVE  UNCHANGED <<fah, use, link, wrote, saved, got>> /\ \A u : /\ Written(u)' = Written(u) /\ Kept(u)' = Kept(u) /\ Most(u)' = Most(u)
                                                                   /\ Writer(u)' = Writer(u)
BY DEF Handled, Written, Kept, Writer, Most

\* The answer is on its way to who called, and nobody else.
LEMMA Replied ==
  ASSUME FileTypes, NEW u \in Users, NEW r \in ReplySet, Answers(u, r)
  PROVE  /\ reply'[u] = r /\ \A op : Awaits(u, op)' <=> r.op = op
         /\ \A v \in Users \ {u} : reply'[v] = reply[v]
<1>1. reply'[u] = r /\ \A v \in Users \ {u} : reply'[v] = reply[v]
  BY DEF FileTypes, Answers
<1>2. r # NoReply
  BY FileAssumption
<1> QED
  BY <1>1, <1>2 DEF Awaits

\* A failure is an answer.
LEMMA Failed == [ok |-> FALSE, op |-> "NONE"] \in ReplySet
BY DEF ReplySet

\* A call leaves the types.
LEMMA HandledTyped ==
  ASSUME SavedInv, FileInv', fah = "runs", Handled
  PROVE  SavedTypes'
BY DEF SavedInv, SavedTypes, FileInv, Handled

\* A call on an open file.
LEMMA CallKept ==
  ASSUME SavedInv, FileInv, FileInv', NEW u \in Users, AsksOpen(u), Handled,
         NEW more, Grows(u, more), NEW r \in ReplySet, Answers(u, r),
         NEW s \in StreamSet \cup {NoStream}, table' = [table EXCEPT ![link[u].fid] = s],
         s # NoStream => /\ s.by = u /\ s.path = use[u].path /\ s.mode = use[u].mode
                         /\ s.mode = "w" => s.pos = Len(UserFile(u)')
                         /\ s.mode = "r" => s.buf = <<>>
                         /\ r.op # "FCLOSE",
         UserFits(u)'
  PROVE  SavedInv'
<1>0. PICK f \in Fids : f = link[u].fid
  BY Asking
<1>1. /\ fah = "runs" /\ f \in Fids /\ Owns(u, f) /\ \A g \in Fids : Owns(u, g) => g = f
  BY <1>0, Asking
<1>2. SavedTypes /\ FileTypes /\ SavedTypes'
  BY <1>1, HandledTyped DEF SavedInv, SavedTypes
<1>3. table'[f] = s /\ \A g \in Fids \ {f} : table'[g] = table[g]
  BY <1>0, <1>1, <1>2 DEF FileTypes
<1>4. /\ reply'[u] = r /\ (\A op : Awaits(u, op)' <=> r.op = op)
      /\ \A v \in Users \ {u} : reply'[v] = reply[v]
  BY <1>2, Replied
<1>5. link[u].open /\ UNCHANGED <<fah, use, link, wrote, saved, got>>
  BY DEF AsksOpen, Handled
<1>6. \A g \in Fids : Owns(u, g)' => g = f /\ s # NoStream
  BY <1>1, <1>3 DEF Owns, IsOpen
<1>7. StepOf(u, more)
  BY <1>1, <1>3, <1>4, <1>5 DEF StepOf, Owns, IsOpen
<1>9. ASSUME s # NoStream PROVE StreamFits(f)'
  <2>1. s.by = u /\ s.path = use[u].path /\ s.mode = use[u].mode
    BY <1>9
  <2>2. s.mode = "w" => s.pos = Len(disk'[s.path])
    BY <1>5, <1>9 DEF UserFile
  <2>3. \A g \in Fids : Owns(u, g)' => g = f
    BY <1>6
  <2>4. link'[u].open /\ link'[u].fid = f /\ ~Awaits(u, "FCLOSE")'
    BY <1>0, <1>4, <1>5, <1>9
  <2>5. s.mode = "r" => s.buf = <<>>
    BY <1>9
  <2> QED
    BY <1>3, <1>5, <2>1, <2>2, <2>3, <2>4, <2>5 DEF StreamFits
<1> QED
  BY <1>2, <1>6, <1>7, <1>9, StepKept

\* What is in a stream's buffer is appended to its file.
LEMMA FlushGrows ==
  ASSUME SavedInv, NEW u \in Users, NEW n \in Nat, NEW m \in Nat, Has(u, UserFile(u), n),
         NEW s \in StreamSet, s.path = use[u].path, s.mode = use[u].mode,
         s.mode = "w" => s.pos = Len(UserFile(u)), s.mode = "r" => s.buf = <<>>,
         Continues(s.buf, u, n, m), disk' = FlushTo(disk, s), UNCHANGED use
  PROVE  /\ Grows(u, s.buf) /\ Has(u, UserFile(u), m)' /\ Len(UserFile(u)') = Len(UserFile(u)) + Len(s.buf)
<1>1. SavedTypes /\ UsesFit /\ disk \in [Paths -> Seq(Items)] /\ s.buf \in Seq(Items) /\ UserFile(u) \in Seq(Items)
  BY DEF SavedInv, SavedTypes, FileTypes, StreamSet, UserFile
<1>2. disk' = [disk EXCEPT ![use[u].path] = @ \o s.buf]
  BY <1>1, FlushAppends DEF UserFile
<1>3. Grows(u, s.buf)
  BY <1>1, <1>2 DEF Grows, Continues
<1>4. UserFile(u)' = UserFile(u) \o s.buf
  BY <1>1, <1>3, GrownFiles
<1>5. Has(u, UserFile(u)', m) /\ Len(UserFile(u)') = Len(UserFile(u)) + Len(s.buf)
  BY <1>1, <1>4, OwnAppended, Appended
<1> QED
  BY <1>3, <1>5 DEF Has, InOrder, StandsIn

\* A reader is told something else than an item.
LEMMA OwnReaderKept ==
  ASSUME SavedInv, FileInv, NEW u \in Users, AsksOpen(u), Handled,
         NEW more, Grows(u, more), NEW r \in ReplySet, Answers(u, r), r.op \notin {"FREAD", "FOPEN"},
         NEW s \in StreamSet \cup {NoStream}, table' = [table EXCEPT ![link[u].fid] = s],
         s # NoStream /\ s.mode = "r" => s = table[link[u].fid]
  PROVE  ReaderFits(u)'
<1> DEFINE f == link[u].fid
<1>1. /\ f \in Fids /\ Owns(u, f) /\ (\A g \in Fids : Owns(u, g) => g = f) /\ (\A op : ~Awaits(u, op)) /\ table[f] \in StreamSet
  BY Asking
<1>2. SavedTypes /\ UsesFit /\ FileTypes /\ ReaderFits(u) /\ got[u] \in Seq(Items)
  BY DEF SavedInv, SavedTypes, UserFits
<1>3. table'[f] = s /\ \A g \in Fids \ {f} : table'[g] = table[g]
  BY <1>1, <1>2 DEF FileTypes
<1>4. \A op : Awaits(u, op)' <=> r.op = op
  BY <1>2, Replied
<1>5. UNCHANGED <<use, got>>
  BY DEF Handled
<1>6. Expected(u)' = Expected(u) /\ ~Awaits(u, "FREAD")'
  BY <1>1, <1>4, <1>5 DEF Expected
<1> HIDE DEF f
<1>7. ASSUME NEW g \in Fids, Owns(u, g)', table'[g].mode = "r" PROVE Owns(u, g) /\ table'[g] = table[g] /\ table[g] \in StreamSet
  BY <1>1, <1>3, <1>7 DEF Owns, IsOpen, f
<1>8. /\ UserFile(u) \in Seq(Items) /\ UserFile(u)' \in Seq(Items) /\ Len(UserFile(u)) <= Len(UserFile(u)')
      /\ \A i \in DOMAIN UserFile(u) : i \in DOMAIN UserFile(u)' /\ UserFile(u)'[i] = UserFile(u)[i]
  BY <1>2, <1>5, GrownFiles
<1> QED
  BY <1>2, <1>5, <1>6, <1>7, <1>8, ReaderKept

\* A call that changes nothing that has been written.
LEMMA QuietKept ==
  ASSUME SavedInv, FileInv, FileInv', NEW u \in Users, AsksOpen(u), Handled, UNCHANGED disk,
         NEW r \in ReplySet, Answers(u, r), r.op \in {"NONE", "FREAD"} \/ (r.op = "FWRITE" /\ ~Writer(u)),
         NEW s \in StreamSet, table' = [table EXCEPT ![link[u].fid] = s],
         s.by = u, s.path = use[u].path, s.mode = use[u].mode, s.buf = table[link[u].fid].buf,
         s.mode = "w" => s.pos = table[link[u].fid].pos, ReaderFits(u)'
  PROVE  SavedInv'
<1> DEFINE f == link[u].fid
<1>1. /\ fah = "runs" /\ f \in Fids /\ Owns(u, f) /\ StreamFits(f) /\ (\A g \in Fids : Owns(u, g) => g = f)
      /\ (\A op : ~Awaits(u, op)) /\ Sent(u) = Written(u) /\ table[f].mode = use[u].mode /\ table[f].by = u
      /\ table[f].path = use[u].path
  BY Asking DEF Owns
<1>2. SavedTypes /\ FileTypes
  BY DEF SavedInv, SavedTypes
<1>3. table'[f] = s /\ \A g \in Fids \ {f} : table'[g] = table[g]
  BY <1>1, <1>2 DEF FileTypes
<1>4. \A op : Awaits(u, op)' <=> r.op = op
  BY <1>2, Replied
<1>5. UNCHANGED <<fah, use, link, wrote, saved, got>> /\ Written(u)' = Written(u) /\ Kept(u)' = Kept(u) /\ Most(u)' = Most(u)
  BY HandledKeeps
<1>6. Sent(u)' = Sent(u) /\ UserFile(u)' = UserFile(u)
  BY <1>1, <1>4, <1>5 DEF Sent, UserFile, Writer
<1>7. Grows(u, <<>>)
  BY <1>2, NothingGrown
<1> HIDE DEF f
<1>8. \A g \in Fids : Owns(u, g)' = Owns(u, g)
  BY <1>1, <1>3, FileAssumption DEF Owns, IsOpen
<1>9. UserFits(u)'
  <2>1. PICK n \in Nat : Accounted(u, n)
    BY DEF SavedInv, UserFits
  <2>2. Has(u, UserFile(u), n)'
    BY <1>6, <2>1 DEF Accounted, Has, InOrder, StandsIn
  <2>3. Continues(s.buf, u, n, Sent(u)')
    BY <1>1, <1>6, <2>1 DEF Accounted, f
  <2>4. Accounted(u, n)'
    <3>1. \A g \in Fids : Owns(u, g)' => Continues(table'[g].buf, u, n, Sent(u)')
      BY <1>1, <1>3, <1>8, <2>3
    <3>2. ~(\A g \in Fids : ~Owns(u, g)')
      BY <1>1, <1>8
    <3>3. Kept(u)' <= n /\ n <= Most(u)' /\ ~Awaits(u, "FFLUSH")' /\ ~Awaits(u, "FCLOSE")'
      BY <1>4, <1>5, <2>1 DEF Accounted
    <3> QED
      BY <2>2, <3>1, <3>2, <3>3 DEF Accounted, Continues
  <2> QED
    BY <2>4 DEF UserFits
<1>10. /\ s.mode = "w" => s.pos = Len(UserFile(u)')
       /\ s.mode = "r" => s.buf = <<>>
  BY <1>1, <1>6 DEF StreamFits, UserFile, f
<1> QED
  BY <1>4, <1>7, <1>9, <1>10, CallKept

\* Where the items stand with one more.
LEMMA OneAppended ==
  ASSUME NEW S, NEW q \in Seq(S), NEW e \in S
  PROVE  /\ Len(Append(q, e)) = Len(q) + 1 /\ DOMAIN Append(q, e) = DOMAIN q \cup {Len(q) + 1}
         /\ Append(q, e)[Len(q) + 1] = e /\ (\A k \in DOMAIN q : Append(q, e)[k] = q[k]) /\ Len(q) \in Nat
OBVIOUS

\* A stream that has been flushed is the same with an empty buffer, further on.
LEMMA FlushedParts ==
  ASSUME NEW s \in StreamSet
  PROVE  /\ Flushed(s) \in StreamSet /\ Flushed(s).by = s.by /\ Flushed(s).path = s.path /\ Flushed(s).mode = s.mode
         /\ Flushed(s).buf = <<>> /\ Flushed(s).pos = s.pos + Len(s.buf) /\ (s.buf = <<>> => Flushed(s) = s)
<1>1. /\ s.pos + Len(s.buf) \in Nat /\ <<>> \in Seq(Items) /\ Len(<<>>) = 0
  BY DEF StreamSet
<1>2. \A t \in StreamSet, n \in Nat, q \in Seq(Items) :
        LET e == [t EXCEPT !.pos = n, !.buf = q] IN
        /\ e \in StreamSet /\ e.by = t.by /\ e.path = t.path /\ e.mode = t.mode /\ e.buf = q /\ e.pos = n
        /\ t.pos = n /\ t.buf = q => e = t
  BY DEF StreamSet
<1> DEFINE n == s.pos + Len(s.buf)
<1>3. Flushed(s) = [s EXCEPT !.pos = n, !.buf = <<>>]
  BY DEF Flushed
<1>4. s.buf = <<>> => n = s.pos
  BY <1>1 DEF StreamSet
<1> HIDE DEF n
<1>5. n \in Nat
  BY <1>1 DEF n
<1>6. LET e == [s EXCEPT !.pos = n, !.buf = <<>>] IN
        /\ e \in StreamSet /\ e.by = s.by /\ e.path = s.path /\ e.mode = s.mode /\ e.buf = <<>> /\ e.pos = n
        /\ s.pos = n /\ s.buf = <<>> => e = s
  BY <1>1, <1>2, <1>5
<1> QED
  BY <1>3, <1>4, <1>6 DEF n

\* A call that flushes stream t.
LEMMA FlushesAccounted ==
  ASSUME SavedInv, FileInv, FileInv', NEW u \in Users, AsksOpen(u), Handled,
         NEW r \in ReplySet, Answers(u, r), r.op \in {"FFLUSH", "FCLOSE", "FWRITE"}, Writer(u) \/ r.op # "FWRITE",
         NEW t \in StreamSet, t.by = u, t.path = use[u].path, t.mode = use[u].mode,
         t.mode = "w" => t.pos = table[link[u].fid].pos,
         t.mode = "r" => t = table[link[u].fid],
         disk' = FlushTo(disk, t),
         table' = [table EXCEPT ![link[u].fid] = IF r.op = "FCLOSE" THEN NoStream ELSE Flushed(t)],
         NEW n \in Nat, Accounted(u, n), Continues(t.buf, u, n, IF r.op = "FWRITE" THEN Written(u) + 1 ELSE Written(u))
  PROVE  SavedInv'
<1>0. PICK f \in Fids : f = link[u].fid
  BY Asking
<1>m. PICK m \in Nat : m = IF r.op = "FWRITE" THEN Written(u) + 1 ELSE Written(u)
  BY Asking
<1>1. /\ fah = "runs" /\ Owns(u, f) /\ StreamFits(f) /\ (\A g \in Fids : Owns(u, g) => g = f)
      /\ Written(u) \in Nat /\ table[f].mode = use[u].mode /\ table[f].by = u /\ table[f].path = use[u].path
  BY <1>0, Asking DEF Owns
<1>2. SavedTypes /\ FileTypes /\ UsesFit
  BY DEF SavedInv, SavedTypes
<1>3. /\ UNCHANGED <<fah, use, link, wrote, saved, got>> /\ Written(u)' = Written(u) /\ Kept(u)' = Kept(u) /\ Most(u)' = Most(u)
      /\ Writer(u)' = Writer(u)
  BY HandledKeeps
<1>4. \A op : Awaits(u, op)' <=> r.op = op
  BY <1>2, Replied
<1>5. /\ t.mode = "w" => t.pos = Len(UserFile(u))
      /\ t.mode = "r" => t.buf = <<>>
  BY <1>0, <1>1 DEF StreamFits, UserFile
<1>6. m \in Nat /\ Sent(u)' = m /\ n <= m /\ Written(u) <= m /\ m <= Most(u)
  <2>1. Len(t.buf) \in Nat /\ n + Len(t.buf) = m
    BY <1>m DEF StreamSet, Continues
  <2>2. Sent(u)' = m
    BY <1>m, <1>3, <1>4 DEF Sent
  <2>3. /\ Written(u) \in Nat /\ Written(u) <= Most(u)
        /\ Writer(u) => Most(u) = Written(u) + 1
    BY <1>1 DEF Written, Most
  <2> QED
    BY <1>m, <2>1, <2>2, <2>3
<1>7. Has(u, UserFile(u), n) /\ Kept(u) <= n /\ Continues(t.buf, u, n, m) /\ Kept(u) \in Nat
  BY <1>m, <1>2 DEF Accounted, SavedTypes, Kept
<1>8. Grows(u, t.buf) /\ Has(u, UserFile(u), m)' /\ Len(UserFile(u)') = Len(UserFile(u)) + Len(t.buf)
  BY <1>3, <1>5, <1>6, <1>7, FlushGrows
<1> DEFINE s == IF r.op = "FCLOSE" THEN NoStream ELSE Flushed(t)
<1>9. /\ s \in StreamSet \cup {NoStream} /\ (r.op = "FCLOSE" <=> s = NoStream)
      /\ s # NoStream => /\ s.by = u /\ s.path = use[u].path /\ s.mode = use[u].mode /\ s.buf = <<>>
                         /\ s.pos = t.pos + Len(t.buf) /\ (t.buf = <<>> => s = t)
  BY FlushedParts, FileAssumption
<1>10. table' = [table EXCEPT ![link[u].fid] = s]
  OBVIOUS
<1> HIDE DEF s
<1>11. table'[f] = s /\ \A g \in Fids \ {f} : table'[g] = table[g]
  BY <1>0, <1>2, <1>10 DEF FileTypes
<1>12. \A g \in Fids : Owns(u, g)' => g = f
  BY <1>1, <1>11 DEF Owns, IsOpen
<1>13. Accounted(u, m)'
  <2>1. \A g \in Fids : Owns(u, g)' => Continues(table'[g].buf, u, m, Sent(u)')
    <3>1. Continues(<<>>, u, m, m)
      BY <1>6 DEF Continues
    <3>2. \A g \in Fids : Owns(u, g)' => g = f /\ s # NoStream
      BY <1>11, <1>12 DEF Owns, IsOpen
    <3> QED
      BY <1>6, <1>9, <1>11, <3>1, <3>2
  <2>2. Kept(u)' <= m /\ m <= Most(u)' /\ Written(u)' <= m
    BY <1>3, <1>6, <1>7
  <2>3. Sent(u)' = m /\ \A g \in Fids : Owns(u, g)' => Continues(table[g].buf, u, m, Sent(u))'
    BY <1>6, <2>1 DEF Continues
  <2> QED
    BY <1>8, <2>2, <2>3 DEF Accounted
<1>14. ReaderFits(u)'
  <2>1. r.op \notin {"FREAD", "FOPEN"}
    OBVIOUS
  <2>2. s # NoStream /\ s.mode = "r" => s = table[link[u].fid]
    BY <1>5, <1>9
  <2> QED
    BY <1>8, <1>9, <1>10, <2>1, <2>2, OwnReaderKept
<1>15. UserFits(u)'
  BY <1>6, <1>13, <1>14 DEF UserFits
<1>16. s # NoStream => /\ s.mode = "w" => s.pos = Len(UserFile(u)')
                       /\ s.mode = "r" => s.buf = <<>>
  BY <1>5, <1>8, <1>9
<1> QED
  BY <1>8, <1>9, <1>10, <1>15, <1>16, CallKept

\* cnf_close.
LEMMA CloseAccounted == ASSUME SavedInv, FileInv, FileInv', NEW u \in Users, cnf_close(u) PROVE SavedInv'
<1>1. AsksOpen(u) /\ Handled /\ OpFclose(u, link[u].fid)
  BY DEF cnf_close
<1>2. /\ table[link[u].fid] \in StreamSet /\ Owns(u, link[u].fid) /\ link[u].fid \in Fids /\ Sent(u) = Written(u) /\ fah = "runs"
      /\ table[link[u].fid].path = use[u].path /\ table[link[u].fid].mode = use[u].mode
  BY <1>1, Asking
<1> DEFINE r == [ok |-> TRUE, op |-> "FCLOSE"]
<1>3. disk' = FlushTo(disk, table[link[u].fid]) /\ table' = [table EXCEPT ![link[u].fid] = NoStream] /\ Answers(u, r)
  BY <1>1, <1>2 DEF OpFclose, Owns
<1>4. r \in ReplySet /\ r.op = "FCLOSE"
  BY DEF ReplySet
<1> HIDE DEF r
<1>5. PICK n \in Nat : Accounted(u, n)
  BY DEF SavedInv, UserFits
<1>6. Continues(table[link[u].fid].buf, u, n, Written(u))
  BY <1>2, <1>5 DEF Accounted
<1> QED
  BY <1>1, <1>2, <1>3, <1>4, <1>5, <1>6, FlushesAccounted DEF Owns

\* cnf_fflush, and cnf_fseek, which is one.
LEMMA FlushAccounted ==
  ASSUME SavedInv, FileInv, FileInv', NEW u \in Users, AsksOpen(u), Handled, OpFflush(u, link[u].fid)
  PROVE  SavedInv'
<1>2. /\ table[link[u].fid] \in StreamSet /\ Owns(u, link[u].fid) /\ link[u].fid \in Fids /\ Sent(u) = Written(u) /\ fah = "runs"
      /\ table[link[u].fid].path = use[u].path /\ table[link[u].fid].mode = use[u].mode
  BY Asking
<1> DEFINE r == [ok |-> TRUE, op |-> "FFLUSH"]
<1>3. /\ disk' = FlushTo(disk, table[link[u].fid]) /\ Answers(u, r)
      /\ table' = [table EXCEPT ![link[u].fid] = Flushed(table[link[u].fid])]
  BY <1>2 DEF OpFflush, Owns
<1>4. r \in ReplySet /\ r.op = "FFLUSH"
  BY DEF ReplySet
<1> HIDE DEF r
<1>5. PICK n \in Nat : Accounted(u, n)
  BY DEF SavedInv, UserFits
<1>6. Continues(table[link[u].fid].buf, u, n, Written(u))
  BY <1>2, <1>5 DEF Accounted
<1> QED
  BY <1>2, <1>3, <1>4, <1>5, <1>6, FlushesAccounted DEF Owns

\* A call that is refused.
LEMMA FailAccounted ==
  ASSUME SavedInv, FileInv, FileInv', NEW u \in Users, AsksOpen(u), Handled, Fails(u), UNCHANGED <<table, disk>>
  PROVE  SavedInv'
<1> DEFINE r == [ok |-> FALSE, op |-> "NONE"]
<1>1. /\ table[link[u].fid] \in StreamSet /\ Owns(u, link[u].fid) /\ link[u].fid \in Fids
      /\ table[link[u].fid].path = use[u].path /\ table[link[u].fid].mode = use[u].mode /\ SavedTypes
  BY Asking DEF SavedInv
<1>2. r \in ReplySet /\ Answers(u, r) /\ r.op = "NONE"
  BY Failed DEF Fails
<1> HIDE DEF r
<1>3. table' = [table EXCEPT ![link[u].fid] = table[link[u].fid]]
  BY <1>1 DEF SavedTypes, FileTypes
<1>4. Grows(u, <<>>)
  BY <1>1, NothingGrown
<1>5. ReaderFits(u)'
  BY <1>1, <1>2, <1>3, <1>4, OwnReaderKept
<1> QED
  BY <1>1, <1>2, <1>3, <1>5, QuietKept DEF Owns

\* A reader is told that he has written.
LEMMA UnheededAccounted ==
  ASSUME SavedInv, FileInv, FileInv', NEW u \in Users, AsksOpen(u), Handled, PutsNothing(u),
         table[link[u].fid].mode = "r"
  PROVE  SavedInv'
<1> DEFINE r == [ok |-> TRUE, op |-> "FWRITE"]
<1>1. /\ table[link[u].fid] \in StreamSet /\ Owns(u, link[u].fid) /\ link[u].fid \in Fids
      /\ table[link[u].fid].path = use[u].path /\ table[link[u].fid].mode = use[u].mode /\ SavedTypes
  BY Asking DEF SavedInv
<1>2. r \in ReplySet /\ Answers(u, r) /\ r.op = "FWRITE" /\ UNCHANGED <<table, disk>> /\ ~Writer(u)
  BY <1>1 DEF PutsNothing, ReplySet, Writer
<1> HIDE DEF r
<1>3. table' = [table EXCEPT ![link[u].fid] = table[link[u].fid]]
  BY <1>1, <1>2 DEF SavedTypes, FileTypes
<1>4. Grows(u, <<>>)
  BY <1>1, <1>2, NothingGrown
<1>5. ReaderFits(u)'
  BY <1>1, <1>2, <1>3, <1>4, OwnReaderKept
<1> QED
  BY <1>1, <1>2, <1>3, <1>5, QuietKept DEF Owns

\* A write: the item is the next, and the buffer may be flushed with it.
LEMMA WriteAccounted ==
  ASSUME SavedInv, FileInv, FileInv', NEW u \in Users, AsksOpen(u), Handled, Writes(u, link[u].fid, NewItem(u))
  PROVE  SavedInv'
<1> DEFINE f == link[u].fid
           s == [table[f] EXCEPT !.buf = Append(table[f].buf, NewItem(u))]
           r == [ok |-> TRUE, op |-> "FWRITE"]
<1>1. /\ table[f] \in StreamSet /\ Owns(u, f) /\ f \in Fids /\ Sent(u) = Written(u) /\ fah = "runs" /\ StreamFits(f)
      /\ table[f].path = use[u].path /\ table[f].mode = use[u].mode /\ SavedTypes /\ wrote[u] \in Nat /\ table[f].by = u
      /\ \A g \in Fids : Owns(u, g) => g = f
  BY Asking DEF SavedInv, Owns
<1>2. CASE table[f].mode = "r"
  BY <1>2, FailAccounted DEF Writes
<1>3. CASE table[f].mode # "r"
  <2>0. Writer(u) /\ Written(u) = wrote[u] /\ Writer(u)' /\ Written(u)' = wrote[u] /\ Kept(u)' = Kept(u) /\ Most(u)' = Most(u)
    BY <1>1, <1>3, HandledKeeps DEF Writer, Written
  <2>1. /\ \/ table' = [table EXCEPT ![f] = s] /\ UNCHANGED disk
           \/ table' = [table EXCEPT ![f] = Flushed(s)] /\ disk' = FlushTo(disk, s)
        /\ Answers(u, r)
    BY <1>1, <1>3 DEF Writes, Owns
  <2>2. r \in ReplySet /\ r.op = "FWRITE"
    BY DEF ReplySet
  <2>3. PICK n \in Nat : Accounted(u, n)
    BY DEF SavedInv, UserFits
  <2>4. Continues(table[f].buf, u, n, wrote[u]) /\ table[f].buf \in Seq(Items) /\ NewItem(u) = <<u, wrote[u] + 1>> /\ NewItem(u) \in Items
    BY <1>1, <2>0, <2>3 DEF Accounted, StreamSet, NewItem, Items
  <2>5. /\ s \in StreamSet /\ s.by = u /\ s.path = use[u].path /\ s.mode = use[u].mode
        /\ s.pos = table[f].pos /\ s.buf = Append(table[f].buf, NewItem(u))
    <3>1. Append(table[f].buf, NewItem(u)) \in Seq(Items)
      BY <2>4
    <3> QED
      BY <1>1, <3>1 DEF StreamSet
  <2> HIDE DEF s, r
  <2>6. Continues(s.buf, u, n, wrote[u] + 1)
    <3>1. PICK buf \in Seq(Items) : buf = table[f].buf
      BY <2>4
    <3>2. n + Len(buf) = wrote[u] /\ (\A k \in DOMAIN buf : buf[k] = <<u, n + k>>) /\ s.buf = Append(buf, NewItem(u))
      BY <2>4, <2>5, <3>1 DEF Continues
    <3>3. Len(s.buf) = Len(buf) + 1 /\ DOMAIN s.buf = DOMAIN buf \cup {Len(buf) + 1} /\ s.buf[Len(buf) + 1] = NewItem(u)
          /\ (\A k \in DOMAIN buf : s.buf[k] = buf[k]) /\ Len(buf) \in Nat
      BY <2>4, <3>2, OneAppended
    <3>4. n + (Len(buf) + 1) = wrote[u] + 1
      BY <3>2, <3>3
    <3> QED
      BY <2>4, <3>2, <3>3, <3>4 DEF Continues
  <2>7. CASE table' = [table EXCEPT ![f] = Flushed(s)] /\ disk' = FlushTo(disk, s)
    BY <1>1, <1>3, <2>0, <2>1, <2>2, <2>3, <2>5, <2>6, <2>7, FlushesAccounted
  <2>8. CASE table' = [table EXCEPT ![f] = s] /\ UNCHANGED disk
    <3>1. Grows(u, <<>>) /\ UserFile(u)' = UserFile(u)
      BY <1>1, <2>8, NothingGrown DEF UserFile, Handled
    <3>2. ReaderFits(u)'
      BY <1>1, <1>3, <2>1, <2>2, <2>5, <2>8, <3>1, OwnReaderKept
    <3>3. \A op : Awaits(u, op)' <=> r.op = op
      BY <1>1, <2>1, <2>2, Replied DEF SavedTypes
    <3>4. UNCHANGED <<fah, use, link, wrote, saved, got>> /\ Sent(u)' = wrote[u] + 1
      BY <2>0, <2>2, <3>3 DEF Handled, Sent
    <3>5. PICK h \in Fids : h = f
      BY <1>1
    <3>6. table'[h] = s /\ \A g \in Fids \ {h} : table'[g] = table[g]
      BY <1>1, <2>8, <3>5 DEF SavedTypes, FileTypes
    <3> HIDE DEF f
    <3>7. (\A g \in Fids : Owns(u, g)' => g = h) /\ Owns(u, h)'
      BY <1>1, <2>5, <3>5, <3>6, FileAssumption DEF Owns, IsOpen
    <3>8. Accounted(u, n)'
      <4>1. Has(u, UserFile(u), n)'
        BY <2>3, <3>1 DEF Accounted, Has, InOrder, StandsIn
      <4>2. Kept(u)' <= n /\ n <= Most(u)' /\ ~Awaits(u, "FFLUSH")' /\ ~Awaits(u, "FCLOSE")'
        BY <2>0, <2>2, <2>3, <3>3, <3>4 DEF Accounted
      <4>3. \A g \in Fids : Owns(u, g)' => Continues(table'[g].buf, u, n, Sent(u)')
        BY <2>6, <3>4, <3>6, <3>7
      <4> QED
        BY <3>7, <4>1, <4>2, <4>3 DEF Accounted, Continues
    <3>9. UserFits(u)'
      BY <3>2, <3>8 DEF UserFits
    <3>10. s.mode = "w" => s.pos = Len(UserFile(u)')
      BY <1>1, <2>5, <3>1, <3>5 DEF StreamFits, UserFile
    <3>11. table' = [table EXCEPT ![link[u].fid] = s]
      BY <2>8 DEF f
    <3>12. s.mode # "r" /\ use[u].mode # "r" /\ r.op # "FCLOSE"
      BY <1>1, <1>3, <2>2, <2>5
    <3> QED
      BY <2>1, <2>2, <2>5, <3>1, <3>9, <3>10, <3>11, <3>12, CallKept
  <2> QED
    BY <2>1, <2>7, <2>8
<1> QED
  BY <1>2, <1>3

\* What is read next, of what has been read ahead or of the file.
LEMMA RestFits ==
  ASSUME NEW file \in Seq(Items), NEW ahead \in Seq(Items), NEW n \in Nat, n + Len(ahead) <= Len(file),
         \A k \in DOMAIN ahead : ahead[k] = file[n + k],
         NEW rest, rest = IF ahead # <<>> THEN ahead ELSE SubSeq(file, n + 1, Len(file)), rest # <<>>
  PROVE  /\ rest \in Seq(Items) /\ n + Len(rest) <= Len(file) /\ Len(rest) \in Nat \ {0} /\ DOMAIN rest = 1 .. Len(rest)
         /\ \A k \in 1 .. Len(rest) : rest[k] = file[n + k]
<1>1. Len(file) \in Nat /\ Len(ahead) \in Nat
  OBVIOUS
<1>2. CASE ahead # <<>>
  <2>1. rest = ahead /\ Len(ahead) # 0
    BY <1>1, <1>2
  <2>2. DOMAIN ahead = 1 .. Len(ahead) /\ Len(ahead) \in Nat \ {0}
    BY <1>1, <2>1
  <2> QED
    BY <2>1, <2>2
<1>3. CASE ahead = <<>>
  <2>1. rest = SubSeq(file, n + 1, Len(file)) /\ n <= Len(file)
    BY <1>1, <1>3
  <2>2. /\ SubSeq(file, n + 1, Len(file)) \in Seq(Items)
        /\ Len(SubSeq(file, n + 1, Len(file))) = IF n + 1 <= Len(file) THEN Len(file) - (n + 1) + 1 ELSE 0
        /\ \A k \in 1 .. Len(file) - (n + 1) + 1 : SubSeq(file, n + 1, Len(file))[k] = file[(n + 1) + k - 1]
    BY <1>1, SubSeqProperties
  <2>3. rest \in Seq(Items) /\ Len(rest) # 0 /\ Len(rest) \in Nat /\ DOMAIN rest = 1 .. Len(rest)
    BY <2>1, <2>2
  <2>4. Len(rest) = Len(file) - n
    BY <1>1, <2>1, <2>2, <2>3
  <2>5. \A k \in 1 .. Len(rest) : rest[k] = file[n + k]
    <3> SUFFICES ASSUME NEW k \in 1 .. Len(rest) PROVE rest[k] = file[n + k]
      OBVIOUS
    <3>1. k \in 1 .. Len(file) - (n + 1) + 1 /\ (n + 1) + k - 1 = n + k
      BY <1>1, <2>4
    <3> QED
      BY <2>1, <2>2, <3>1
  <2> QED
    BY <1>1, <2>3, <2>4, <2>5
<1> QED
  BY <1>2, <1>3

\* A read: what is on its way continues what the reader has got.
LEMMA ReadAccounted ==
  ASSUME SavedInv, FileInv, FileInv', NEW u \in Users, AsksOpen(u), Handled, Reads(u, link[u].fid)
  PROVE  SavedInv'
<1>1. PICK f \in Fids : f = link[u].fid
  BY Asking
<1>2. PICK s \in StreamSet : s = table[f]
  BY <1>1, Asking
<1>3. /\ fah = "runs" /\ Owns(u, f) /\ StreamFits(f) /\ (\A g \in Fids : Owns(u, g) => g = f) /\ (\A op : ~Awaits(u, op))
      /\ s.path = use[u].path /\ s.mode = use[u].mode /\ s.by = u /\ s # NoStream
  BY <1>1, <1>2, Asking DEF Owns, IsOpen
<1>4. SavedTypes /\ FileTypes /\ UserFile(u) \in Seq(Items) /\ got[u] \in Seq(Items) /\ ReaderFits(u)
  BY DEF SavedInv, SavedTypes, FileTypes, UserFile, UserFits
<1>5. UNCHANGED <<fah, use, link, wrote, saved, got>>
  BY DEF Handled
<1>6. PICK rest : rest = IF s.ahead # <<>> THEN s.ahead ELSE SubSeq(disk[s.path], s.pos + 1, Len(disk[s.path]))
  OBVIOUS
<1>7. CASE ~(s.mode = "r" /\ rest # <<>>)
  <2>1. Fails(u) /\ UNCHANGED <<table, disk>>
    BY <1>1, <1>2, <1>6, <1>7 DEF Reads
  <2> QED
    BY <2>1, FailAccounted
<1>8. CASE s.mode = "r" /\ rest # <<>>
  <2>1. PICK n \in Nat : n = Len(got[u])
    BY <1>4
  <2>2. PICK file \in Seq(Items) : file = UserFile(u)
    BY <1>4
  <2>3. /\ s.pos = n /\ n + Len(s.ahead) <= Len(file) /\ \A k \in DOMAIN s.ahead : s.ahead[k] = file[n + k]
    BY <1>2, <1>3, <1>4, <1>8, <2>1, <2>2 DEF ReaderFits, ReadsAhead, Expected
  <2>4. s.ahead \in Seq(Items) /\ disk[s.path] = file
    BY <1>3, <2>2 DEF StreamSet, UserFile
  <2>5. rest = IF s.ahead # <<>> THEN s.ahead ELSE SubSeq(file, n + 1, Len(file))
    BY <1>6, <2>3, <2>4
  <2>6. /\ rest \in Seq(Items) /\ n + Len(rest) <= Len(file) /\ Len(rest) \in Nat \ {0} /\ DOMAIN rest = 1 .. Len(rest)
        /\ \A k \in 1 .. Len(rest) : rest[k] = file[n + k]
    BY <1>8, <2>3, <2>4, <2>5, RestFits
  <2>7. PICK more \in Seq(Items) : more = Tail(rest)
    <3>1. rest \in Seq(Items) /\ rest # <<>>
      BY <1>8, <2>6
    <3>2. Tail(rest) \in Seq(Items)
      BY <3>1
    <3> QED
      BY <3>2
  <2>8. Len(more) = Len(rest) - 1 /\ DOMAIN more = 1 .. Len(more) /\ \A k \in DOMAIN more : more[k] = rest[k + 1]
    BY <1>8, <2>6, <2>7
  <2>9. PICK item \in Items : item = rest[1]
    BY <2>6
  <2>i. PICK i \in Nat : i = n + 1
    OBVIOUS
  <2> DEFINE r == [ok |-> TRUE, op |-> "FREAD", item |-> item]
             t == [s EXCEPT !.ahead = more, !.pos = i]
  <2>10. table' = [table EXCEPT ![f].ahead = more, ![f].pos = @ + 1] /\ Answers(u, r) /\ UNCHANGED disk
    BY <1>1, <1>2, <1>3, <1>6, <1>8, <2>7, <2>9 DEF Reads, IsOpen
  <2>11. table' = [table EXCEPT ![f] = t]
    BY <1>2, <1>4, <2>i, <2>3, <2>10 DEF FileTypes
  <2>12. r \in ReplySet /\ r.op = "FREAD" /\ r.item = file[n + 1]
    <3>1. r \in ReplySet
      BY DEF ReplySet
    <3> QED
      BY <2>6, <2>9, <3>1
  <2>13. /\ t \in StreamSet /\ t.by = u /\ t.path = use[u].path /\ t.mode = use[u].mode /\ t.buf = s.buf
         /\ t.ahead = more /\ t.pos = n + 1 /\ t.mode = "r"
    <3>3. /\ t \in StreamSet /\ t.by = s.by /\ t.path = s.path /\ t.mode = s.mode /\ t.buf = s.buf
          /\ t.ahead = more /\ t.pos = i
      BY DEF StreamSet
    <3> HIDE DEF t
    <3> QED
      BY <1>3, <1>8, <2>i, <3>3
  <2> HIDE DEF r, t
  <2>14. /\ reply'[u] = r /\ \A op : Awaits(u, op)' <=> r.op = op
    BY <1>4, <2>10, <2>12, Replied
  <2>15. UserFile(u)' = file /\ Expected(u)' = n + 1 /\ Len(got'[u]) = n /\ n < Len(file)
    BY <1>5, <2>1, <2>2, <2>6, <2>10, <2>12, <2>14 DEF UserFile, Expected
  <2>16. \A g \in Fids : Owns(u, g)' => table'[g] = t
    BY <1>3, <1>4, <2>11 DEF Owns, IsOpen, FileTypes
  <2>17. ReaderFits(u)'
    <3>1. n + 1 + Len(more) <= Len(file)
      BY <2>6, <2>8
    <3>2. ASSUME NEW k \in DOMAIN more PROVE more[k] = file[n + 1 + k]
      <4>1. k + 1 \in 1 .. Len(rest) /\ n + (k + 1) = n + 1 + k
        <5>1. k \in 1 .. Len(more)
          BY <2>8
        <5>2. k \in Nat /\ 1 <= k /\ k <= Len(rest) - 1 /\ Len(rest) \in Nat
          BY <2>6, <2>8, <5>1
        <5> QED
          BY <5>2
      <4> QED
        BY <2>6, <2>8, <4>1
    <3>3. /\ t.pos = Expected(u)' /\ t.pos + Len(t.ahead) <= Len(UserFile(u)')
          /\ \A k \in DOMAIN t.ahead : t.ahead[k] = UserFile(u)'[t.pos + k]
      BY <2>13, <2>15, <3>1, <3>2
    <3>4. \A g \in Fids : Owns(u, g)' => ReadsAhead(u, table[g])'
      BY <2>16, <3>3 DEF ReadsAhead
    <3>5. Len(got'[u]) <= Len(UserFile(u)') /\ \A k \in DOMAIN got'[u] : got'[u][k] = UserFile(u)'[k]
      BY <1>4, <1>5, <2>2, <2>15 DEF ReaderFits
    <3>6. Len(got'[u]) < Len(UserFile(u)') /\ reply'[u].item = UserFile(u)'[Len(got'[u]) + 1]
      BY <2>12, <2>14, <2>15
    <3> QED
      BY <3>4, <3>5, <3>6 DEF ReaderFits
  <2>18. t.mode = "w" => t.pos = table[link[u].fid].pos
    BY <2>13
  <2>19. t.buf = table[link[u].fid].buf /\ table' = [table EXCEPT ![link[u].fid] = t]
    BY <1>1, <1>2, <2>11, <2>13
  <2> QED
    BY <2>10, <2>12, <2>13, <2>17, <2>18, <2>19, QuietKept
<1> QED
  BY <1>7, <1>8

-----------------------------------------------------------------------------

\* Who has no stream while the handler runs has everything on disk.
LEMMA WithoutStream ==
  ASSUME SavedInv, NEW u \in Users, fah = "runs", NEW n \in Nat, Accounted(u, n), \A f \in Fids : Owns(u, f) => table[f].mode = "r"
  PROVE  n = Sent(u)
<1>1. CASE \A f \in Fids : ~Owns(u, f)
  BY <1>1 DEF Accounted
<1>2. ASSUME NEW f \in Fids, Owns(u, f) PROVE n = Sent(u)
  <2>1. table[f].buf = <<>> /\ Continues(table[f].buf, u, n, Sent(u))
    BY <1>2 DEF Accounted, SavedInv, StreamFits, Owns
  <2>2. n + Len(<<>>) = Sent(u)
    BY <2>1 DEF Continues
  <2> QED
    BY <2>2
<1> QED
  BY <1>1, <1>2

\* Who opens has no stream yet.
LEMMA OpensFirst ==
  ASSUME SavedInv, NEW u \in Users, Asks(u), ~link[u].open
  PROVE  fah = "runs" /\ (\A f \in Fids : ~Owns(u, f)) /\ (\A op : ~Awaits(u, op)) /\ Sent(u) = Written(u)
<1>1. fah = "runs" /\ \A op : ~Awaits(u, op)
  BY DEF Asks, Awaits
<1> QED
  BY <1>1 DEF SavedInv, StreamFits, Owns, Sent

\* A file that is opened anew is empty: who writes it has written nothing, and the others only
\* read it.
LEMMA EmptyOpened ==
  ASSUME SavedInv, NEW u \in Users, Asks(u), ~link[u].open, use[u].mode = "w", wrote[u] = 0
  PROVE  UserFile(u) = <<>>
<1>1. SavedTypes /\ FileTypes /\ UsesFit /\ DiskFits /\ UserFile(u) \in Seq(Items)
  BY DEF SavedInv, SavedTypes, FileTypes, UserFile
<1>2. fah = "runs" /\ (\A f \in Fids : ~Owns(u, f)) /\ Sent(u) = 0
  BY OpensFirst DEF Written
<1>3. ASSUME NEW i \in DOMAIN UserFile(u) PROVE FALSE
  <2>1. UserFile(u)[i] \in Items
    BY <1>1
  <2>2. PICK v \in Users : v = UserFile(u)[i][1]
    BY <2>1 DEF Items
  <2>3. use[v].path = use[u].path
    BY <1>1, <2>2 DEF DiskFits, UserFile, FileTypes
  <2>4. i \in StandsIn(v, UserFile(v))
    BY <2>2, <2>3 DEF StandsIn, UserFile
  <2>5. PICK n \in Nat : Accounted(v, n)
    BY DEF SavedInv, UserFits
  <2>6. UserFile(v)[i][2] \in 1 .. n
    BY <2>4, <2>5 DEF Accounted, Has
  <2>7. n = 0
    <3>1. CASE v = u
      BY <1>2, <2>5, <3>1, WithoutStream
    <3>2. CASE v # u
      <4>1. use[v].mode = "r"
        BY <1>1, <2>3, <3>2 DEF UsesFit
      <4>2. Sent(v) = 0
        BY <4>1 DEF Sent, Written, Writer
      <4>3. \A f \in Fids : Owns(v, f) => table[f].mode = "r"
        BY <4>1 DEF SavedInv, StreamFits, Owns
      <4> QED
        BY <1>2, <2>5, <4>2, <4>3, WithoutStream
    <3> QED
      BY <3>1, <3>2
  <2> QED
    BY <2>6, <2>7
<1>4. Len(UserFile(u)) = 0
  <2>1. DOMAIN UserFile(u) = 1 .. Len(UserFile(u)) /\ Len(UserFile(u)) \in Nat
    BY <1>1
  <2>2. 1 \notin DOMAIN UserFile(u)
    BY <1>3
  <2> QED
    BY <2>1, <2>2
<1> QED
  BY <1>1, <1>4

\* cnf_open.
LEMMA OpenAccounted == ASSUME SavedInv, FileInv, FileInv', NEW u \in Users, cnf_open(u) PROVE SavedInv'
<1>1. /\ Asks(u) /\ ~link[u].open /\ (use[u].mode = "w" => wrote[u] = 0) /\ Handled
      /\ OpFopen(u, use[u].path, use[u].mode)
  BY DEF cnf_open
<1>2. fah = "runs" /\ (\A f \in Fids : ~Owns(u, f)) /\ (\A op : ~Awaits(u, op)) /\ Sent(u) = Written(u)
  BY <1>1, OpensFirst
<1>3. SavedTypes /\ FileTypes /\ UserFile(u) \in Seq(Items) /\ got[u] \in Seq(Items) /\ ReaderFits(u) /\ DiskFits
  BY DEF SavedInv, SavedTypes, FileTypes, UserFile, UserFits
<1>4. /\ UNCHANGED <<fah, use, link, wrote, saved, got>> /\ Written(u)' = Written(u) /\ Kept(u)' = Kept(u) /\ Most(u)' = Most(u)
      /\ Written(u) \in Nat
  BY <1>1, <1>3, HandledKeeps DEF Written, FileTypes
<1>5. SavedTypes'
  BY <1>1, <1>2, HandledTyped
<1>6. PICK n \in Nat : Accounted(u, n)
  BY DEF SavedInv, UserFits
<1>7. n = Written(u)
  BY <1>2, <1>6, WithoutStream
<1>8. ASSUME UNCHANGED disk, NEW r \in ReplySet, Answers(u, r), r.op \in {"NONE", "FOPEN"},
             \A f \in Fids : Owns(u, f)' => /\ table'[f].buf = <<>> /\ table'[f].ahead = <<>> /\ table'[f].pos = 0
                                            /\ r.op = "FOPEN"
      PROVE  /\ UserFits(u)' /\ Grows(u, <<>>)
             /\ \A v \in Users \ {u} : reply'[v] = reply[v]
             /\ \A op : Awaits(u, op)' <=> r.op = op
  <2>1. /\ reply'[u] = r /\ (\A op : Awaits(u, op)' <=> r.op = op) /\ \A v \in Users \ {u} : reply'[v] = reply[v]
    BY <1>3, <1>8, Replied
  <2>2. Sent(u)' = Written(u) /\ UserFile(u)' = UserFile(u)
    BY <1>4, <1>8, <2>1 DEF Sent, UserFile
  <2>3. Accounted(u, n)'
    <3>1. Has(u, UserFile(u), n)'
      BY <1>6, <2>2 DEF Accounted, Has, InOrder, StandsIn
    <3>2. Continues(<<>>, u, n, n)
      BY DEF Continues
    <3>3. \A f \in Fids : Owns(u, f)' => Continues(table[f].buf, u, n, Sent(u))'
      BY <1>7, <1>8, <2>2, <3>2 DEF Continues
    <3>4. Kept(u)' <= n /\ n <= Most(u)' /\ Written(u)' <= n /\ n = Sent(u)'
      BY <1>4, <1>6, <1>7, <2>2 DEF Accounted
    <3> QED
      BY <3>1, <3>3, <3>4 DEF Accounted
  <2>4. ReaderFits(u)'
    <3>1. Len(got'[u]) <= Len(UserFile(u)') /\ \A k \in DOMAIN got'[u] : got'[u][k] = UserFile(u)'[k]
      BY <1>3, <1>4, <2>2 DEF ReaderFits
    <3>2. ~Awaits(u, "FREAD")'
      BY <1>8, <2>1
    <3>3. ASSUME NEW f \in Fids, Owns(u, f)' PROVE ReadsAhead(u, table[f])'
      <4>1. Expected(u)' = 0
        BY <1>8, <2>1, <3>3 DEF Expected
      <4>2. 0 + Len(<<>>) <= Len(UserFile(u)')
        BY <1>3, <2>2
      <4> QED
        BY <1>8, <3>3, <4>1, <4>2 DEF ReadsAhead
    <3> QED
      BY <3>1, <3>2, <3>3 DEF ReaderFits
  <2> QED
    BY <1>3, <1>8, <2>1, <2>3, <2>4, NothingGrown DEF UserFits
<1>9. CASE FreeSlots = {}
  <2> DEFINE r == [ok |-> FALSE, op |-> "NONE"]
  <2>1. Answers(u, r) /\ UNCHANGED <<table, disk>> /\ r \in ReplySet /\ r.op = "NONE"
    BY <1>1, <1>9, Failed DEF OpFopen, Fails
  <2> HIDE DEF r
  <2>2. \A f \in Fids : ~Owns(u, f)'
    BY <1>2, <2>1 DEF Owns, IsOpen
  <2>3. /\ UserFits(u)' /\ Grows(u, <<>>)
        /\ \A v \in Users \ {u} : reply'[v] = reply[v]
    BY <1>8, <2>1, <2>2
  <2>4. StepOf(u, <<>>)
    BY <1>4, <2>1, <2>3 DEF StepOf
  <2> QED
    BY <1>5, <2>2, <2>3, <2>4, StepKept
<1>10. CASE FreeSlots # {}
  <2> DEFINE p == use[u].path
             m == use[u].mode
             s == Stream(p, m, u)
  <2>1. PICK f \in FreeSlots :
          /\ table' = [table EXCEPT ![f] = s] /\ disk' = Opened(disk, p, m)
          /\ Answers(u, [ok |-> TRUE, op |-> "FOPEN", fid |-> f])
    <3>1. FreeSlots \subseteq Fids /\ Fids \subseteq Nat
      BY FileAssumption DEF FreeSlots, Fids
    <3>2. \E f \in FreeSlots : \A g \in FreeSlots : f <= g
      BY <1>10, <3>1, LeastIn
    <3> QED
      BY <1>1, <1>10, <3>2 DEF OpFopen
  <2>2. p \in Paths /\ m \in {"r", "w", "a"}
    BY <1>3 DEF FileTypes
  <2>3. /\ s \in StreamSet /\ s.by = u /\ s.path = p /\ s.mode = m /\ s.buf = <<>> /\ s.ahead = <<>> /\ s.pos = 0
        /\ s # NoStream
    <3>1. s \in StreamSet
      BY <2>2 DEF Stream, StreamSet
    <3> QED
      BY <3>1, FileAssumption DEF Stream
  <2>4. f \in Fids /\ ~IsOpen(f)
    BY <2>1 DEF FreeSlots
  <2> DEFINE r == [ok |-> TRUE, op |-> "FOPEN", fid |-> f]
  <2>5. r \in ReplySet /\ r.op = "FOPEN" /\ r.fid = f /\ Answers(u, r)
    <3>1. r \in ReplySet
      BY <2>4 DEF ReplySet
    <3> QED
      BY <2>1, <3>1
  <2>6. UNCHANGED disk
    <3>1. CASE m = "w"
      <4>1. UserFile(u) = <<>>
        BY <1>1, <3>1, EmptyOpened
      <4> QED
        BY <1>3, <2>1, <2>2, <3>1, <4>1 DEF Opened, UserFile, FileTypes
    <3>2. CASE m # "w"
      BY <2>1, <3>2 DEF Opened
    <3> QED
      BY <3>1, <3>2
  <2>7. m = "w" => Len(disk'[p]) = 0
    <3>1. m = "w" => UserFile(u) = <<>>
      BY <1>1, EmptyOpened
    <3> QED
      BY <2>6, <3>1 DEF UserFile
  <2> HIDE DEF s, r
  <2>8. table'[f] = s /\ \A g \in Fids \ {f} : table'[g] = table[g]
    BY <1>3, <2>1, <2>4 DEF FileTypes
  <2>9. \A g \in Fids : Owns(u, g)' => g = f
    BY <1>2, <2>8 DEF Owns, IsOpen
  <2>10. /\ UserFits(u)' /\ Grows(u, <<>>)
          /\ (\A v \in Users \ {u} : reply'[v] = reply[v])
         /\ \A op : Awaits(u, op)' <=> r.op = op
    BY <1>8, <2>3, <2>5, <2>6, <2>8, <2>9
  <2>11. StepOf(u, <<>>)
    BY <1>4, <2>3, <2>4, <2>8, <2>10 DEF StepOf, IsOpen
  <2>12. StreamFits(f)'
    <3>1. reply'[u] = r
      BY <1>3, <2>5, Replied
    <3>2. Awaits(u, "FOPEN")' /\ reply'[u].fid = f
      BY <2>5, <2>10, <3>1
    <3>3. \A g \in Fids : Owns(u, g)' => g = f
      BY <2>9
    <3> QED
      BY <1>4, <2>3, <2>7, <2>8, <3>2, <3>3 DEF StreamFits
  <2> QED
    BY <1>5, <2>9, <2>10, <2>11, <2>12, StepKept
<1> QED
  BY <1>9, <1>10

\* What has been answered is what the handler has done.
LEMMA AnswerAccounted == ASSUME SavedInv, FileInv, FileInv', NEW u \in Users, Answered(u) PROVE SavedInv'
<1>1. PICK r \in ReplySet : r = reply[u] /\ r # NoReply
  BY DEF Answered, SavedInv, SavedTypes, FileTypes
<1>2. /\ UNCHANGED <<fah, use, table, disk>>
      /\ reply'[u] = NoReply /\ \A v \in Users \ {u} : reply'[v] = reply[v]
  BY DEF Answered, SavedInv, SavedTypes, FileTypes
<1>3. SavedTypes /\ FileTypes /\ UserFile(u) \in Seq(Items) /\ got[u] \in Seq(Items) /\ ReaderFits(u) /\ DiskFits
      /\ wrote[u] \in Nat /\ saved[u] \in Nat
  BY DEF SavedInv, SavedTypes, FileTypes, UserFile, UserFits
<1>4. (\A op : Awaits(u, op) <=> r.op = op) /\ \A op : ~Awaits(u, op)'
  BY <1>1, <1>2 DEF Awaits
<1>5. /\ Written(u)' = Sent(u) /\ wrote' \in [Users -> Nat] /\ \A v \in Users \ {u} : wrote'[v] = wrote[v]
  BY <1>1, <1>2, <1>3, <1>4 DEF Answered, Sent, FileTypes, Written, Writer
<1>6. /\ saved' \in [Users -> Nat] /\ (\A v \in Users \ {u} : saved'[v] = saved[v])
      /\ \/ Kept(u)' = Kept(u)
         \/ Kept(u)' = Written(u) /\ (Awaits(u, "FFLUSH") \/ Awaits(u, "FCLOSE"))
  BY <1>1, <1>2, <1>3, <1>4 DEF Answered, SavedTypes, Kept, Written, Writer
<1>7. PICK n \in Nat : Accounted(u, n)
  BY DEF SavedInv, UserFits
<1>8. UserFile(u)' = UserFile(u) /\ Sent(u)' = Sent(u) /\ \A f \in Fids : Owns(u, f)' = Owns(u, f)
  BY <1>2, <1>4, <1>5 DEF UserFile, Sent, Owns, IsOpen
<1>9. Accounted(u, n)'
  <2>1. Has(u, UserFile(u), n)'
    BY <1>7, <1>8 DEF Accounted, Has, InOrder, StandsIn
  <2>2. Kept(u)' <= n /\ n <= Most(u)'
    <3>1. n <= Most(u)
      BY <1>7 DEF Accounted
    <3>3. Most(u)' \in Nat /\ Most(u) \in Nat /\ Most(u) <= Most(u)'
      <4>1. wrote'[u] \in Nat /\ Writer(u)' = Writer(u)
        BY <1>2, <1>5 DEF Writer
      <4>2. Writer(u) => wrote[u] <= wrote'[u]
        BY <1>3, <1>5, <4>1 DEF Sent, Written
      <4> QED
        BY <1>3, <4>1, <4>2 DEF Most
    <3>2. Kept(u)' <= n
      BY <1>6, <1>7 DEF Accounted
    <3> QED
      BY <3>1, <3>2, <3>3
  <2>3. fah' # "killed" =>
          /\ \A f \in Fids : Owns(u, f)' => Continues(table'[f].buf, u, n, Sent(u)')
          /\ (\A f \in Fids : ~Owns(u, f)') => n = Sent(u)'
    BY <1>2, <1>7, <1>8 DEF Accounted
  <2> QED
    BY <1>4, <2>1, <2>2, <2>3 DEF Accounted, Continues
<1>10. /\ got'[u] \in Seq(Items) /\ got' \in [Users -> Seq(Items)] /\ (\A v \in Users \ {u} : got'[v] = got[v])
       /\ Expected(u)' = Expected(u) /\ Len(got'[u]) <= Len(UserFile(u))
       /\ \A k \in DOMAIN got'[u] : got'[u][k] = UserFile(u)[k]
  <2>0. got \in [Users -> Seq(Items)]
    BY <1>3 DEF SavedTypes
  <2>1. CASE r.op = "FOPEN"
    <3>1. got' = [got EXCEPT ![u] = <<>>] /\ Expected(u) = 0
      BY <1>1, <1>4, <2>1 DEF Answered, Expected
    <3>2. got'[u] = <<>>
      BY <2>0, <3>1
    <3>3. Expected(u)' = 0
      BY <1>4, <3>2 DEF Expected
    <3> QED
      BY <1>3, <2>0, <3>1, <3>2, <3>3
  <2>2. CASE r.op = "FREAD"
    <3>1. PICK item \in Items : item = r.item
      BY <2>2 DEF ReplySet
    <3>2. got' = [got EXCEPT ![u] = Append(@, item)]
      BY <1>1, <2>2, <3>1 DEF Answered
    <3>3. PICK q \in Seq(Items) : q = got[u]
      BY <1>3
    <3>4. got'[u] = Append(q, item)
      BY <2>0, <3>2, <3>3
    <3>5. /\ Append(q, item) \in Seq(Items) /\ Len(Append(q, item)) = Len(q) + 1
          /\ DOMAIN Append(q, item) = DOMAIN q \cup {Len(q) + 1}
          /\ Append(q, item)[Len(q) + 1] = item /\ (\A k \in DOMAIN q : Append(q, item)[k] = q[k])
      BY OneAppended
    <3>6. /\ Len(q) < Len(UserFile(u)) /\ item = UserFile(u)[Len(q) + 1]
          /\ \A k \in DOMAIN q : q[k] = UserFile(u)[k]
      BY <1>1, <1>3, <1>4, <2>2, <3>1, <3>3 DEF ReaderFits
    <3>7. Expected(u) = Len(q) + 1 /\ Expected(u)' = Len(q) + 1
      BY <1>4, <2>2, <3>3, <3>4, <3>5 DEF Expected
    <3>8. got' \in [Users -> Seq(Items)] /\ \A v \in Users \ {u} : got'[v] = got[v]
      BY <2>0, <3>2, <3>3, <3>5
    <3>9. Len(q) + 1 <= Len(UserFile(u))
      BY <1>3, <3>6
    <3>10. \A k \in DOMAIN Append(q, item) : Append(q, item)[k] = UserFile(u)[k]
      BY <3>5, <3>6
    <3> QED
      BY <3>4, <3>5, <3>7, <3>8, <3>9, <3>10
  <2>3. CASE r.op \notin {"FOPEN", "FREAD"}
    <3>1. got' = got
      BY <1>1, <2>3 DEF Answered
    <3>2. Expected(u)' = Expected(u)
      BY <1>4, <2>3, <3>1 DEF Expected
    <3> QED
      BY <1>3, <2>0, <3>1, <3>2 DEF ReaderFits
  <2> QED
    BY <2>1, <2>2, <2>3
<1>11. ReaderFits(u)'
  <2>1. \A f \in Fids : Owns(u, f)' /\ table'[f].mode = "r" => ReadsAhead(u, table[f])'
    BY <1>2, <1>3, <1>8, <1>10 DEF ReaderFits, ReadsAhead
  <2> QED
    BY <1>4, <1>8, <1>10, <2>1 DEF ReaderFits
<1>12. SavedTypes'
  <2>1. link' \in [Users -> [open : BOOLEAN, fid : Fids]]
    <3>1. Closed \in [open : BOOLEAN, fid : Fids]
      BY FileAssumption DEF Closed, Fids
    <3>2. r.op = "FOPEN" => [open |-> TRUE, fid |-> r.fid] \in [open : BOOLEAN, fid : Fids]
      BY DEF ReplySet
    <3>3. \/ link' = link
          \/ link' = [link EXCEPT ![u] = Closed]
          \/ r.op = "FOPEN" /\ link' = [link EXCEPT ![u] = [open |-> TRUE, fid |-> r.fid]]
      BY <1>1 DEF Answered
    <3> QED
      BY <1>3, <3>1, <3>2, <3>3 DEF FileTypes
  <2>2. reply' \in [Users -> ReplySet \cup {NoReply}]
    BY <1>3 DEF Answered, FileTypes
  <2> QED
    BY <1>2, <1>3, <1>5, <1>6, <1>10, <2>1, <2>2 DEF SavedTypes, FileTypes, IsOpen
<1>13. \A v \in Users \ {u} : link'[v] = link[v]
  BY <1>3 DEF Answered, FileTypes
<1>14. StepOf(u, <<>>)
  BY <1>2, <1>3, <1>5, <1>6, <1>10, <1>13, NothingGrown DEF StepOf
<1>16. ASSUME NEW f \in Fids, Owns(u, f)' PROVE StreamFits(f)'
  <2>1. Owns(u, f) /\ StreamFits(f) /\ table[f].by = u
    BY <1>8, <1>16 DEF SavedInv, Owns
  <2>2. fah' = "runs" => link'[u].open /\ link'[u].fid = f
    <3> SUFFICES ASSUME fah = "runs" PROVE link'[u].open /\ link'[u].fid = f
      BY <1>2
    <3>1. CASE Awaits(u, "FOPEN") /\ reply[u].fid = f
      <4>1. link' = [link EXCEPT ![u] = [open |-> TRUE, fid |-> f]]
        BY <1>1, <1>4, <3>1 DEF Answered
      <4> QED
        BY <1>3, <4>1 DEF FileTypes
    <3>2. CASE link[u].open /\ link[u].fid = f /\ ~Awaits(u, "FCLOSE")
      <4>1. ~Awaits(u, "FOPEN")
        BY <3>2 DEF FileInv, SlotsAreHeld
      <4>2. link' = link
        BY <1>1, <1>4, <3>2, <4>1 DEF Answered
      <4> QED
        BY <3>2, <4>2
    <3> QED
      BY <2>1, <3>1, <3>2 DEF StreamFits
  <2>3. \A g \in Fids : Owns(u, g)' => g = f
    BY <1>8, <2>1 DEF StreamFits
  <2> QED
    BY <1>2, <1>4, <2>1, <2>2, <2>3 DEF StreamFits
<1>17. UserFits(u)'
  BY <1>9, <1>11 DEF UserFits
<1> QED
  BY <1>12, <1>14, <1>16, <1>17, StepKept

-----------------------------------------------------------------------------
(* The handler's end.                                                      *)

\* The streams are flushed one by one.
LEMMA ExitAccounted ==
  ASSUME SavedInv, NEW f \in Fids, IsOpen(f), fah \in {"runs", "exits"}, fah' = "exits",
         disk' = FlushTo(disk, table[f]), table' = [table EXCEPT ![f] = NoStream],
         UNCHANGED <<use, link, reply, wrote, saved, got>>
  PROVE  SavedInv'
<1>1. SavedTypes /\ FileTypes /\ UsesFit /\ table[f] \in StreamSet /\ StreamFits(f) /\ DiskFits
  BY DEF SavedInv, SavedTypes, FileTypes, IsOpen
<1>2. PICK u \in Users : u = table[f].by
  BY <1>1 DEF StreamSet
<1>3. Owns(u, f) /\ \A g \in Fids : Owns(u, g) => g = f
  BY <1>1, <1>2 DEF Owns, StreamFits
<1>4. PICK n \in Nat : Accounted(u, n)
  BY DEF SavedInv, UserFits
<1>5. PICK s \in StreamSet : s = table[f]
  BY <1>1
<1>6. PICK m \in Nat : m = Sent(u)
  <2>1. wrote[u] \in Nat
    BY <1>1 DEF FileTypes
  <2>2. Sent(u) \in Nat
    BY <2>1 DEF Sent, Written
  <2> QED
    BY <2>2
<1>7. Continues(s.buf, u, n, m) /\ n <= m /\ Written(u) <= m /\ m <= Most(u)
  <2>1. Continues(s.buf, u, n, m)
    BY <1>3, <1>4, <1>5, <1>6 DEF Accounted
  <2>2. n + Len(s.buf) = m /\ Len(s.buf) \in Nat
    BY <2>1 DEF Continues, StreamSet
  <2>3. Written(u) <= m /\ m <= Most(u)
    BY <1>1, <1>6 DEF FileTypes, Sent, Written, Most
  <2> QED
    BY <2>1, <2>2, <2>3
<1>8. /\ s.path = use[u].path /\ s.mode = use[u].mode
      /\ s.mode = "w" => s.pos = Len(UserFile(u))
      /\ s.mode = "r" => s.buf = <<>>
  BY <1>1, <1>2, <1>5 DEF StreamFits, UserFile
<1>9. Grows(u, s.buf) /\ Has(u, UserFile(u), m)'
  BY <1>4, <1>5, <1>7, <1>8, FlushGrows DEF Accounted
<1>10. table'[f] = NoStream /\ \A g \in Fids \ {f} : table'[g] = table[g]
  BY <1>1 DEF FileTypes
<1>11. \A g \in Fids : ~Owns(u, g)'
  BY <1>3, <1>10 DEF Owns, IsOpen
<1>12. SavedTypes'
  <2>1. disk' \in [Paths -> Seq(Items)]
    BY <1>1, FlushTyped DEF FileTypes
  <2> QED
    BY <1>1, <2>1 DEF SavedTypes, FileTypes
<1>13. \A op : Awaits(u, op)' = Awaits(u, op)
  BY DEF Awaits
<1>14. Sent(u)' = m /\ Expected(u)' = Expected(u)
  BY <1>6, <1>13 DEF Sent, Expected, Written, Writer
<1>15. Accounted(u, m)'
  <2>1. Written(u)' = Written(u) /\ Kept(u)' = Kept(u) /\ Kept(u) \in Nat /\ Most(u)' = Most(u)
    BY <1>1 DEF SavedTypes, Written, Kept, Writer, Most
  <2>2. Kept(u)' <= m /\ m <= Most(u)' /\ Written(u)' <= m
    BY <1>4, <1>7, <2>1 DEF Accounted
  <2> QED
    BY <1>9, <1>11, <1>14, <2>2 DEF Accounted
<1>16. ReaderFits(u)'
  <2>1. ReaderFits(u) /\ got[u] \in Seq(Items)
    BY <1>1 DEF SavedInv, UserFits, SavedTypes
  <2>2. /\ UserFile(u) \in Seq(Items) /\ UserFile(u)' \in Seq(Items) /\ Len(UserFile(u)) <= Len(UserFile(u)')
        /\ \A i \in DOMAIN UserFile(u) : i \in DOMAIN UserFile(u)' /\ UserFile(u)'[i] = UserFile(u)[i]
    BY <1>1, <1>9, GrownFiles
  <2> QED
    BY <1>11, <1>13, <1>14, <2>1, <2>2, ReaderKept
<1>17. StepOf(u, s.buf)
  BY <1>2, <1>5, <1>9, <1>10 DEF StepOf, IsOpen
<1>19. UserFits(u)'
  BY <1>15, <1>16 DEF UserFits
<1> QED
  BY <1>11, <1>12, <1>17, <1>19, StepKept

\* All is flushed, or nothing happens.
LEMMA NothingAccounted ==
  ASSUME SavedInv, UNCHANGED <<use, table, disk, link, reply, wrote, saved, got>>,
         UNCHANGED fah \/ (fah' = "exited" /\ fah \in {"runs", "exits"} /\ Streams = {})
  PROVE  SavedInv'
<1>1. SavedTypes'
  BY DEF SavedInv, SavedTypes, FileTypes, Streams, IsOpen
<1>2. fah' # "killed" <=> fah # "killed"
  OBVIOUS
<1>3. ASSUME NEW u \in Users PROVE UserFits(u)'
  <2>1. /\ \A op : Awaits(u, op)' = Awaits(u, op)
        /\ \A g \in Fids : Owns(u, g)' = Owns(u, g)
        /\ UserFile(u)' = UserFile(u)
    BY DEF Awaits, Owns, IsOpen, UserFile
  <2>2. Sent(u)' = Sent(u) /\ Expected(u)' = Expected(u) /\ Written(u)' = Written(u) /\ Kept(u)' = Kept(u) /\ Most(u)' = Most(u)
    BY <2>1 DEF Sent, Expected, Written, Kept, Writer, Most
  <2>3. PICK n \in Nat : Accounted(u, n)
    BY DEF SavedInv, UserFits
  <2>4. Has(u, UserFile(u), n)'
    BY <2>1, <2>3 DEF Accounted, Has, InOrder, StandsIn
  <2>5. Accounted(u, n)'
    BY <1>2, <2>1, <2>2, <2>3, <2>4 DEF Accounted, Continues
  <2>6. ReaderFits(u)'
    BY <2>1, <2>2 DEF SavedInv, UserFits, ReaderFits, ReadsAhead
  <2> QED
    BY <2>5, <2>6 DEF UserFits
<1>4. UsesFit' /\ DiskFits'
  BY DEF SavedInv, UsesFit, DiskFits, Awaits
<1>5. ASSUME NEW f \in Fids, IsOpen(f)' PROVE StreamFits(f)'
  BY <1>5 DEF SavedInv, StreamFits, IsOpen, Owns, Awaits
<1> QED
  BY <1>1, <1>3, <1>4, <1>5 DEF SavedInv

\* What is lost with the handler has not been said to be saved.
LEMMA KillAccounted == ASSUME SavedInv, FahKilled PROVE SavedInv'
<1>1. /\ fah' = "killed" /\ UNCHANGED <<use, disk, link, wrote, saved, got>>
      /\ table' = [f \in Fids |-> NoStream]
      /\ \A u \in Users : reply'[u] = reply[u] \/ reply'[u] = NoReply
      /\ reply' \in [Users -> ReplySet \cup {NoReply}]
  BY DEF FahKilled, SavedInv, SavedTypes, FileTypes
<1>2. SavedTypes'
  BY <1>1 DEF SavedInv, SavedTypes, FileTypes, IsOpen
<1>3. \A f \in Fids : ~IsOpen(f)'
  BY <1>1 DEF IsOpen
<1>4. \A u \in Users : \A op : Awaits(u, op)' => Awaits(u, op) /\ reply'[u] = reply[u]
  BY <1>1 DEF Awaits
<1>5. ASSUME NEW u \in Users PROVE UserFits(u)'
  <2>1. UserFile(u)' = UserFile(u)
    BY <1>1 DEF UserFile
  <2>2. PICK n \in Nat : Accounted(u, n)
    BY DEF SavedInv, UserFits
  <2>3. Has(u, UserFile(u), n)'
    BY <2>1, <2>2 DEF Accounted, Has, InOrder, StandsIn
  <2>4. Accounted(u, n)'
    BY <1>1, <1>4, <2>2, <2>3 DEF Accounted, Written, Kept, Writer, Most
  <2>5. ReaderFits(u)'
    BY <1>1, <1>3, <1>4, <2>1 DEF SavedInv, UserFits, ReaderFits, Owns
  <2> QED
    BY <2>4, <2>5 DEF UserFits
<1>6. UsesFit' /\ DiskFits'
  BY <1>1, <1>4 DEF SavedInv, UsesFit, DiskFits
<1> QED
  BY <1>2, <1>3, <1>5, <1>6 DEF SavedInv

\* At first the files are empty, and nobody has one open.
LEMMA SavedBegins == ASSUME FileInit PROVE SavedInv
<1>1. SavedTypes
  BY FileAssumption DEF FileInit, SavedTypes, FileTypes, Closed, Fids
<1>2. UsesFit /\ use \in [Users -> [path : Paths, mode : {"r", "w", "a"}]]
  <2>1. use \in Uses
    BY DEF FileInit
  <2> QED
    BY <2>1, FileAssumption DEF UsesFit
<1>3. (\A u \in Users : \A op : ~Awaits(u, op)) /\ \A f \in Fids : ~IsOpen(f)
  BY DEF FileInit, Awaits, IsOpen
<1>4. ASSUME NEW u \in Users PROVE UserFits(u)
  <2>1. UserFile(u) = <<>> /\ wrote[u] = 0 /\ saved[u] = 0 /\ got[u] = <<>>
    BY <1>2 DEF FileInit, UserFile
  <2>2. Has(u, <<>>, 0)
    <3>1. StandsIn(u, <<>>) = {}
      BY DEF StandsIn
    <3>2. 1 .. 0 = {}
      OBVIOUS
    <3> QED
      BY <3>1, <3>2 DEF Has, InOrder
  <2>3. Accounted(u, 0)
    BY <1>3, <2>1, <2>2 DEF Accounted, Sent, Owns, Written, Kept, Most
  <2>4. ReaderFits(u)
    BY <1>3, <2>1 DEF ReaderFits, Owns
  <2> QED
    BY <2>3, <2>4 DEF UserFits
<1>5. DiskFits
  BY <1>3 DEF DiskFits, FileInit
<1> QED
  BY <1>1, <1>2, <1>3, <1>4, <1>5 DEF SavedInv

\* Every step of the handler and of its users keeps it.
LEMMA SavedStep == ASSUME SavedInv, FileInv, [FileNext]_fileVars PROVE SavedInv'
<1>0. FileInv'
  BY FileStep
<1>1. ASSUME NEW u \in Users,
             \/ cnf_open(u) \/ cnf_close(u) \/ cnf_fflush(u) \/ cnf_fseek(u)
             \/ cnf_fputc(u) \/ cnf_fputs(u) \/ cnf_fwrite(u)
             \/ cnf_fgetc(u) \/ cnf_fgets(u) \/ cnf_fread(u)
             \/ Answered(u)
      PROVE  SavedInv'
  <2>1. CASE cnf_open(u)
    BY <1>0, <2>1, OpenAccounted
  <2>2. CASE cnf_close(u)
    BY <1>0, <2>2, CloseAccounted
  <2>3. CASE cnf_fflush(u) \/ cnf_fseek(u)
    <3>1. AsksOpen(u) /\ Handled /\ OpFflush(u, link[u].fid)
      BY <2>3 DEF cnf_fflush, cnf_fseek
    <3> QED
      BY <1>0, <3>1, FlushAccounted
  <2>4. CASE cnf_fputc(u) \/ cnf_fputs(u) \/ cnf_fwrite(u)
    <3>1. /\ AsksOpen(u) /\ Handled
          /\ Writes(u, link[u].fid, NewItem(u)) \/ (PutsNothing(u) /\ table[link[u].fid].mode = "r")
      BY <2>4 DEF cnf_fputc, cnf_fputs, cnf_fwrite, OpFputc, OpFputs, OpFwrite
    <3> QED
      BY <1>0, <3>1, WriteAccounted, UnheededAccounted
  <2>5. CASE cnf_fgetc(u) \/ cnf_fgets(u) \/ cnf_fread(u)
    <3>1. AsksOpen(u) /\ Handled /\ Reads(u, link[u].fid)
      BY <2>5 DEF cnf_fgetc, cnf_fgets, cnf_fread, OpFgetc, OpFgets, OpFread
    <3> QED
      BY <1>0, <3>1, ReadAccounted
  <2>6. CASE Answered(u)
    BY <1>0, <2>6, AnswerAccounted
  <2> QED
    BY <1>1, <2>1, <2>2, <2>3, <2>4, <2>5, <2>6
<1>2. CASE OpExit
  <2>1. CASE Streams = {} /\ fah' = "exited" /\ UNCHANGED <<table, disk>>
    BY <1>2, <2>1, NothingAccounted DEF OpExit
  <2>2. ASSUME NEW f \in Streams, fah' = "exits", disk' = FlushTo(disk, table[f]), table' = [table EXCEPT ![f] = NoStream]
        PROVE  SavedInv'
    BY <1>2, <2>2, ExitAccounted DEF OpExit, Streams, IsOpen
  <2> QED
    BY <1>2, <2>1, <2>2 DEF OpExit
<1>3. CASE FahKilled
  BY <1>3, KillAccounted
<1>4. CASE UNCHANGED fileVars
  <2>1. UNCHANGED <<use, table, disk, link, reply, wrote, saved, got>> /\ UNCHANGED fah
    BY <1>4 DEF fileVars
  <2> QED
    BY <2>1, NothingAccounted
<1> QED
  BY <1>1, <1>2, <1>3, <1>4 DEF FileNext

\* All that is not in a buffer is on disk, and what has been flushed is in none.
LEMMA SavedSoonEnough == ASSUME SavedInv PROVE SavedIsOnDisk
<1> SUFFICES ASSUME NEW u \in Users
             PROVE  /\ InOrder(u, UserFile(u))
                    /\ IF use[u].mode = "r" THEN Numbers(u, UserFile(u)) = {}
                       ELSE \E n \in (IF fah = "exited" THEN wrote[u] ELSE saved[u]) .. wrote[u] + 1 :
                              Numbers(u, UserFile(u)) = 1 .. n
  BY DEF SavedIsOnDisk, UserFile
<1>1. PICK n \in Nat : Accounted(u, n)
  BY DEF SavedInv, UserFits
<1>2. wrote[u] \in Nat /\ saved[u] \in Nat
  BY DEF SavedInv, SavedTypes, FileTypes
<1>3. InOrder(u, UserFile(u)) /\ Numbers(u, UserFile(u)) = 1 .. n
  BY <1>1 DEF Accounted, Has, Numbers
<1>4. CASE ~Writer(u)
  <2>1. n = 0
    BY <1>1, <1>4 DEF Accounted, Most
  <2> QED
    BY <1>3, <1>4, <2>1 DEF Writer
<1>5. CASE Writer(u)
  <2>1. fah = "exited" => n = Sent(u)
    BY <1>1 DEF SavedInv, SavedTypes, Accounted, Owns
  <2>2. fah = "exited" => wrote[u] <= n
    BY <1>2, <1>5, <2>1 DEF Sent, Written
  <2>3. n \in (IF fah = "exited" THEN wrote[u] ELSE saved[u]) .. wrote[u] + 1
    BY <1>1, <1>2, <1>5, <2>2 DEF Accounted, Written, Kept, Most
  <2> QED
    BY <1>3, <1>5, <2>3 DEF Writer
<1> QED
  BY <1>4, <1>5

\* What has been read stands at the beginning of the file.
LEMMA ReadFromBeginning == ASSUME SavedInv PROVE ReadsAreThere
<1> SUFFICES ASSUME NEW u \in Users PROVE IsPrefix(got[u], UserFile(u))
  BY DEF ReadsAreThere, UserFile
<1>1. PICK q \in Seq(Items) : q = got[u]
  BY DEF SavedInv, SavedTypes
<1>2. PICK file \in Seq(Items) : file = UserFile(u)
  BY DEF SavedInv, SavedTypes, FileTypes, UserFile
<1>3. Len(q) <= Len(file) /\ \A k \in DOMAIN q : q[k] = file[k]
  BY <1>1, <1>2 DEF SavedInv, UserFits, ReaderFits
<1>4. SubSeq(q, 1, Len(q)) = q
  BY SubSeqFull
<1>5. SubSeq(file, 1, Len(q)) = q
  <2>1. Len(q) \in Nat /\ Len(file) \in Nat /\ DOMAIN q = 1 .. Len(q)
    OBVIOUS
  <2>2. /\ SubSeq(file, 1, Len(q)) \in Seq(Items) /\ Len(SubSeq(file, 1, Len(q))) = Len(q)
        /\ \A k \in 1 .. Len(q) : SubSeq(file, 1, Len(q))[k] = file[k]
    BY <1>3, <2>1
  <2> QED
    BY <1>3, <2>1, <2>2, SeqEqual
<1> QED
  BY <1>1, <1>2, <1>3, <1>4, <1>5 DEF IsPrefix

\* So it is in every state that the handler gets to.
LEMMA FilesRunSaved == FileSpec => [](SavedIsOnDisk /\ ReadsAreThere)
<1>1. FileInit => FileInv /\ SavedInv
  BY FileBegins, SavedBegins
<1>2. (FileInv /\ SavedInv) /\ [FileNext]_fileVars => (FileInv /\ SavedInv)'
  BY FileStep, SavedStep
<1>3. SavedInv => SavedIsOnDisk /\ ReadsAreThere
  BY SavedSoonEnough, ReadFromBeginning
<1> QED
  BY <1>1, <1>2, <1>3, PTL DEF FileSpec

\* However many users, files and slots there are: what a flush or a close has acknowledged is
\* on disk whatever becomes of the handler, what a write has acknowledged once it has exited,
\* each item once and in order, and nothing else of that user (fah.c:351, 308, 841).
THEOREM FilesAreSaved == FileSpec => []SavedIsOnDisk
BY FilesRunSaved, PTL

\* What a reader has got is the beginning of the file, whoever appends to it meanwhile, and
\* whether it was read ahead or not (fah.c:393, 524, 639).
THEOREM ReadersMissNothing == FileSpec => []ReadsAreThere
BY FilesRunSaved, PTL

\* The file handler is a part of Services: each step there is one of its own, or none.
LEMMA ServicesRunFiles == ServicesSpec => FileSpec
<1>1. ServicesInit => FileInit
  BY DEF ServicesInit
<1>2. ASSUME [ServicesNext]_serviceVars PROVE [FileNext]_fileVars
  BY <1>2 DEF ServicesNext, serviceVars, Client, Death, Files, Direct, Peer, PlainCalls
<1> QED
  BY <1>1, <1>2, PTL DEF ServicesSpec, FileSpec

\* So it is with the other services beside it.
THEOREM ServicesKeepHandles == ServicesSpec => []HandleIsMine
  BY ServicesRunFiles, HandlesAreTheirOwn, PTL

\* What programs have saved is on disk, whatever the other services do.
THEOREM ServicesKeepWhatIsSaved == ServicesSpec => []SavedIsOnDisk
BY ServicesRunFiles, FilesAreSaved, PTL

\* And their readers are given what is there.
THEOREM ServicesReadWhatIsThere == ServicesSpec => []ReadsAreThere
BY ServicesRunFiles, ReadersMissNothing, PTL

-----------------------------------------------------------------------------
(* Pipes.                                                                   *)

PipeTypes ==
  /\ Fits(script)
  /\ step \in [Peers -> (Nat \ {0}) \X {"begin", "sync", "data"}]
  /\ linked \in [Conduits -> BOOLEAN] /\ mapped \subseteq Conduits
  /\ toReader \in [Conduits -> Seq(Nat \cup {"length", "end"})]
  /\ toWriter \in [Conduits -> Seq({"echo"})]
  /\ sent \in [Conduits -> Seq(Nat)] /\ heard \in [Conduits -> Seq(Nat)]

\* The writer of pipe p waits for the length to come back; the reader of p for the data; the
\* writer has closed p.
Syncing(p) == \E q \in Peers : In(q, "WRITE", "sync") /\ On(q) = p
Reading(p) == \E q \in Peers : In(q, "READ", "data") /\ On(q) = p
HasClosed(p) ==
  \E q \in Peers : \E i \in DOMAIN script[q] :
    i < step[q][1] /\ script[q][i].op = "CLOSE>" /\ script[q][i].on = p

\* What is on pipe p, and which of its ends is where.
Holding(p, wire, echo, syncing, reading) ==
  toReader[p] = wire /\ toWriter[p] = echo /\ (Syncing(p) <=> syncing) /\ (Reading(p) <=> reading)

\* A message goes through the pipe in four steps: nothing is under way; the length; the echo;
\* the data, behind which the next length or the end may already follow.  After the end
\* nothing follows.
PipeState(p) ==
  LET n == Len(sent[p])
      h == Len(heard[p])
  IN \/ n = h /\ Holding(p, <<>>, <<>>, FALSE, FALSE)
     \/ n = h /\ Holding(p, <<"length">>, <<>>, TRUE, FALSE)
     \/ n = h /\ Holding(p, <<>>, <<"echo">>, TRUE, TRUE)
     \/ n = h /\ Holding(p, <<"end">>, <<>>, FALSE, FALSE) /\ HasClosed(p)
     \/ n = h + 1 /\ Holding(p, <<n>>, <<>>, FALSE, TRUE)
     \/ n = h + 1 /\ Holding(p, <<n, "length">>, <<>>, TRUE, TRUE)
     \/ n = h + 1 /\ Holding(p, <<n, "end">>, <<>>, FALSE, TRUE) /\ HasClosed(p)
     \/ h = n + 1 /\ Holding(p, <<>>, <<"echo">>, FALSE, FALSE) /\ HasClosed(p)

\* What the reader has heard: the messages in their order, and 0 only behind the last.
HeardInOrder(p) ==
  \A k \in DOMAIN heard[p] : heard[p][k] = k \/ (heard[p][k] = 0 /\ k = Len(sent[p]) + 1)

PipeInv == PipeTypes /\ \A p \in Conduits : PipeState(p) /\ HeardInOrder(p)

\* The three of PipesRendezvous, read off the state of a pipe.
LEMMA StateIsRendezvous ==
  ASSUME PipeInv
  PROVE  PipesRendezvous
<1>1. SUFFICES ASSUME NEW p \in Conduits
               PROVE  /\ Len(sent[p]) <= Begun(p)
                      /\ \A k \in DOMAIN heard[p] : heard[p][k] \in {k, 0}
                      /\ \A k \in DOMAIN heard[p] :
                           heard[p][k] = 0 => k = Len(heard[p]) /\ k = Len(sent[p]) + 1
  BY DEF PipesRendezvous
<1>2. PipeState(p) /\ HeardInOrder(p) /\ sent[p] \in Seq(Nat) /\ heard[p] \in Seq(Nat)
  BY DEF PipeInv, PipeTypes
<1>3. Len(sent[p]) \in Nat /\ Len(heard[p]) \in Nat /\ DOMAIN heard[p] = 1 .. Len(heard[p])
  BY <1>2
<1>4. /\ Len(sent[p]) <= Len(heard[p]) + 1 /\ Len(heard[p]) <= Len(sent[p]) + 1
      /\ ~Reading(p) => Len(sent[p]) <= Len(heard[p])
  BY <1>2, <1>3 DEF PipeState, Holding
<1>5. Len(sent[p]) <= Begun(p)
  <2>1. CASE Reading(p)
    <3>1. Begun(p) = Len(heard[p]) + 1
      BY <2>1 DEF Begun, Reading
    <3> QED
      BY <1>3, <1>4, <3>1
  <2>2. CASE ~Reading(p)
    <3>1. Begun(p) = Len(heard[p]) + 0
      BY <2>2 DEF Begun, Reading
    <3> QED
      BY <1>3, <1>4, <2>2, <3>1
  <2> QED
    BY <2>1, <2>2
<1>6. ASSUME NEW k \in DOMAIN heard[p]
      PROVE  heard[p][k] \in {k, 0} /\ (heard[p][k] = 0 => k = Len(heard[p]) /\ k = Len(sent[p]) + 1)
  BY <1>2, <1>3, <1>4, <1>6 DEF HeardInOrder
<1> QED
  BY <1>5, <1>6

\* Pipes begin empty, with nobody in a call.
LEMMA PipesBegin ==
  ASSUME PipeInit
  PROVE  PipeInv
<1>1. PipeTypes
  BY PipesAssumption DEF PipeInit, PipeTypes
<1>2. \A p \in Conduits : ~Syncing(p) /\ ~Reading(p)
  BY DEF PipeInit, Syncing, Reading, In
<1>3. \A p \in Conduits : PipeState(p) /\ HeardInOrder(p)
  BY <1>2 DEF PipeInit, PipeState, HeardInOrder, Holding
<1> QED
  BY <1>1, <1>3 DEF PipeInv

\* Who is in a call of a pipe is in one of the calls of his script.
LEMMA InACall ==
  ASSUME PipeTypes, NEW q \in Peers, ~Over(q)
  PROVE  /\ step[q][1] \in DOMAIN script[q] /\ step[q][1] \in Nat \ {0}
         /\ step[q] = <<step[q][1], step[q][2]>>
         /\ script[q][step[q][1]] \in PipeCall /\ On(q) \in Conduits
<1>1. script[q] \in Seq(PipeCall) /\ step[q] \in (Nat \ {0}) \X {"begin", "sync", "data"}
  BY DEF PipeTypes, Fits
<1>2. Len(script[q]) \in Nat /\ DOMAIN script[q] = 1 .. Len(script[q])
  BY <1>1
<1>3. step[q] = <<step[q][1], step[q][2]>> /\ step[q][1] \in Nat \ {0}
  BY <1>1
<1>4. step[q][1] \in DOMAIN script[q] /\ script[q][step[q][1]] \in PipeCall
  BY <1>1, <1>2, <1>3 DEF Over
<1> QED
  BY <1>3, <1>4 DEF On, PipeCall

\* While one program is about to write to a pipe or to close it, no other waits to write to
\* it, and it has not been closed.
LEMMA OneWriter ==
  ASSUME PipeTypes, NEW q \in Peers, ~Over(q), script[q][step[q][1]].op \in {"WRITE", "CLOSE>"}
  PROVE  /\ \A x \in Peers : \A f \in {"begin", "sync", "data"} :
              In(x, "WRITE", f) /\ On(x) = On(q) => x = q
         /\ ~HasClosed(On(q))
<1>1. step[q][1] \in DOMAIN script[q] /\ On(q) = script[q][step[q][1]].on
  BY InACall DEF On
<1>2. ASSUME NEW x \in Peers, NEW f \in {"begin", "sync", "data"}, In(x, "WRITE", f), On(x) = On(q)
      PROVE  x = q
  <2>1. step[x][1] \in DOMAIN script[x] /\ script[x][step[x][1]].op = "WRITE" /\ On(x) = script[x][step[x][1]].on
    BY <1>2, InACall DEF In, On
  <2> QED
    BY <1>1, <1>2, <2>1 DEF PipeTypes, Fits
<1>3. ASSUME HasClosed(On(q)) PROVE FALSE
  <2>0. PICK x \in Peers : \E i \in DOMAIN script[x] :
          i < step[x][1] /\ script[x][i].op = "CLOSE>" /\ script[x][i].on = On(q)
    BY <1>3 DEF HasClosed
  <2>1. PICK i \in DOMAIN script[x] :
          i < step[x][1] /\ script[x][i].op = "CLOSE>" /\ script[x][i].on = On(q)
    BY <2>0
  <2>2. x = q
    BY <1>1, <2>1 DEF PipeTypes, Fits
  <2> QED
    BY <1>1, <2>1, <2>2 DEF PipeTypes, Fits
<1> QED
  BY <1>2, <1>3

\* While one program reads from a pipe, no other does.
LEMMA OneReader ==
  ASSUME PipeTypes, NEW q \in Peers, ~Over(q), script[q][step[q][1]].op = "READ"
  PROVE  \A x \in Peers : \A f \in {"begin", "sync", "data"} :
           In(x, "READ", f) /\ On(x) = On(q) => x = q
<1>1. step[q][1] \in DOMAIN script[q] /\ On(q) = script[q][step[q][1]].on
  BY InACall DEF On
<1>2. SUFFICES ASSUME NEW x \in Peers, NEW f \in {"begin", "sync", "data"}, In(x, "READ", f), On(x) = On(q)
               PROVE  x = q
  OBVIOUS
<1>3. step[x][1] \in DOMAIN script[x] /\ script[x][step[x][1]].op = "READ" /\ On(x) = script[x][step[x][1]].on
  BY <1>2, InACall DEF In, On
<1> QED
  BY <1>1, <1>2, <1>3 DEF PipeTypes, Fits

\* What a step of one program leaves of who waits where.
LEMMA AfterStep ==
  ASSUME PipeTypes, NEW q \in Peers, NEW n \in Nat \ {0}, NEW ph \in {"begin", "sync", "data"},
         n >= step[q][1], step' = [step EXCEPT ![q] = <<n, ph>>], script' = script, NEW p \in Conduits
  PROVE  /\ HasClosed(p) => HasClosed(p)'
         /\ Syncing(p)' <=> \/ (In(q, "WRITE", "sync") /\ On(q) = p)'
                            \/ \E x \in Peers \ {q} : In(x, "WRITE", "sync") /\ On(x) = p
         /\ Reading(p)' <=> \/ (In(q, "READ", "data") /\ On(q) = p)'
                            \/ \E x \in Peers \ {q} : In(x, "READ", "data") /\ On(x) = p
<1>1. \A x \in Peers \ {q} : step'[x] = step[x]
  BY DEF PipeTypes
<1>2. step'[q][1] = n /\ step[q][1] \in Nat \ {0}
  BY DEF PipeTypes
<1>3. ASSUME HasClosed(p) PROVE HasClosed(p)'
  <2>1. PICK x \in Peers : \E i \in DOMAIN script[x] :
          i < step[x][1] /\ script[x][i].op = "CLOSE>" /\ script[x][i].on = p
    BY <1>3 DEF HasClosed
  <2>2. PICK i \in DOMAIN script[x] :
          i < step[x][1] /\ script[x][i].op = "CLOSE>" /\ script[x][i].on = p
    BY <2>1
  <2>3. i < step'[x][1]
    <3>1. i \in Nat
      BY DEF PipeTypes, Fits
    <3> QED
      BY <1>1, <1>2, <2>2, <3>1
  <2> QED
    BY <2>2, <2>3 DEF HasClosed
<1>4. \A x \in Peers \ {q}, op \in {"READ", "WRITE"}, f \in {"sync", "data"} :
        (In(x, op, f) /\ On(x) = p)' <=> In(x, op, f) /\ On(x) = p
  BY <1>1 DEF In, On, Over
<1> QED
  BY <1>3, <1>4 DEF Syncing, Reading

\* A pipe that the program touches at neither end, before and after, is as it was.
LEMMA PipeAside ==
  ASSUME PipeTypes, NEW q \in Peers, NEW n \in Nat \ {0}, NEW ph \in {"begin", "sync", "data"},
         n >= step[q][1], step' = [step EXCEPT ![q] = <<n, ph>>], script' = script, NEW p \in Conduits,
         ~(In(q, "WRITE", "sync") /\ On(q) = p), ~(In(q, "WRITE", "sync") /\ On(q) = p)',
         ~(In(q, "READ", "data") /\ On(q) = p), ~(In(q, "READ", "data") /\ On(q) = p)',
         UNCHANGED <<toReader[p], toWriter[p], sent[p], heard[p]>>,
         PipeState(p), HeardInOrder(p)
  PROVE  (PipeState(p) /\ HeardInOrder(p))'
<1>1. HasClosed(p) => HasClosed(p)'
  BY AfterStep
<1>2. Syncing(p)' <=> Syncing(p)
  <2>1. Syncing(p)' <=> \/ (In(q, "WRITE", "sync") /\ On(q) = p)'
                    \/ \E x \in Peers \ {q} : In(x, "WRITE", "sync") /\ On(x) = p
    BY AfterStep
  <2>2. Syncing(p) <=> \/ In(q, "WRITE", "sync") /\ On(q) = p
                   \/ \E x \in Peers \ {q} : In(x, "WRITE", "sync") /\ On(x) = p
    BY DEF Syncing
  <2> QED
    BY <2>1, <2>2
<1>3. Reading(p)' <=> Reading(p)
  <2>1. Reading(p)' <=> \/ (In(q, "READ", "data") /\ On(q) = p)'
                    \/ \E x \in Peers \ {q} : In(x, "READ", "data") /\ On(x) = p
    BY AfterStep
  <2>2. Reading(p) <=> \/ In(q, "READ", "data") /\ On(q) = p
                   \/ \E x \in Peers \ {q} : In(x, "READ", "data") /\ On(x) = p
    BY DEF Reading
  <2> QED
    BY <2>1, <2>2
<1>4. UNCHANGED <<toReader[p], toWriter[p], sent[p], heard[p]>>
  OBVIOUS
<1>5. PipeState(p)'
  BY <1>1, <1>2, <1>3, <1>4 DEF PipeState, Holding
<1>6. HeardInOrder(p)'
  BY <1>4 DEF HeardInOrder
<1> QED
  BY <1>5, <1>6

\* A step of program q, seen from all pipes: it is enough to look at the one of its call.
LEMMA OneStep ==
  ASSUME PipeInv, NEW q \in Peers, ~Over(q),
         NEW n \in Nat \ {0}, NEW ph \in {"begin", "sync", "data"},
         n >= step[q][1], n = step[q][1] \/ ph = "begin",
         step' = [step EXCEPT ![q] = <<n, ph>>], script' = script,
         NEW p0, p0 = On(q), PipeTypes',
         \A p \in Conduits \ {p0} : UNCHANGED <<toReader[p], toWriter[p], sent[p], heard[p]>>,
         (PipeState(p0) /\ HeardInOrder(p0))'
  PROVE  PipeInv'
<1>1. PipeTypes
  BY DEF PipeInv
<1>2. ASSUME NEW p \in Conduits, p # p0 PROVE (PipeState(p) /\ HeardInOrder(p))'
  <2>1. PipeState(p) /\ HeardInOrder(p) /\ UNCHANGED <<toReader[p], toWriter[p], sent[p], heard[p]>>
    BY <1>2 DEF PipeInv
  <2>2. step'[q] = <<n, ph>>
    BY <1>1 DEF PipeTypes
  <2>3. ~(In(q, "WRITE", "sync") /\ On(q) = p) /\ ~(In(q, "READ", "data") /\ On(q) = p)
    BY <1>2
  <2>4. ~(In(q, "WRITE", "sync") /\ On(q) = p)' /\ ~(In(q, "READ", "data") /\ On(q) = p)'
    <3>1. CASE ph = "begin"
      BY <2>2, <3>1 DEF In
    <3>2. CASE n = step[q][1]
      BY <1>2, <2>2, <3>2 DEF On
    <3> QED
      BY <3>1, <3>2
  <2> QED
    BY <1>1, <2>1, <2>3, <2>4, PipeAside
<1> QED
  BY <1>1, <1>2 DEF PipeInv

\* Opening, closing the reading end, and closing a pipe that was never written to.
LEMMA QuietStep ==
  ASSUME PipeInv, NEW q \in Peers, NEW op \in {"OPEN<", "OPEN>", "CLOSE<", "CLOSE>"}, In(q, op, "begin"), Return(q),
         mapped' \subseteq Conduits, UNCHANGED <<script, linked, toReader, toWriter, sent, heard>>
  PROVE  PipeInv'
<1>1. PipeTypes /\ ~Over(q) /\ script[q][step[q][1]].op = op /\ step[q][2] = "begin"
  BY DEF PipeInv, In
<1>2. step[q][1] \in Nat \ {0}
  BY <1>1, InACall
<1>3. PICK n \in Nat \ {0} : n = step[q][1] + 1
  BY <1>2
<1>4. step' = [step EXCEPT ![q] = <<n, "begin">>] /\ n >= step[q][1] /\ step'[q] = <<n, "begin">>
  BY <1>1, <1>2, <1>3 DEF Return, PipeTypes
<1>5. PipeTypes'
  BY <1>1, <1>3, <1>4 DEF PipeTypes, Fits
<1>6. ASSUME NEW p \in Conduits PROVE (PipeState(p) /\ HeardInOrder(p))'
  <2>1. PipeState(p) /\ HeardInOrder(p) /\ UNCHANGED <<toReader[p], toWriter[p], sent[p], heard[p]>>
    BY <1>6 DEF PipeInv
  <2>2. ~(In(q, "WRITE", "sync") /\ On(q) = p) /\ ~(In(q, "READ", "data") /\ On(q) = p)
    BY <1>1 DEF In
  <2>3. ~(In(q, "WRITE", "sync") /\ On(q) = p)' /\ ~(In(q, "READ", "data") /\ On(q) = p)'
    BY <1>4 DEF In
  <2> QED
    BY <1>1, <1>4, <2>1, <2>2, <2>3, PipeAside
<1> QED
  BY <1>5, <1>6 DEF PipeInv

\* What the wires of a pipe come to when a value is put on or taken off.
LEMMA ShortWires ==
  /\ \A x : Append(<<>>, x) = <<x>> /\ Tail(<<x>>) = <<>> /\ Head(<<x>>) = x /\ <<x>> # <<>>
  /\ \A x, y : Append(<<x>>, y) = <<x, y>> /\ Tail(<<x, y>>) = <<y>> /\ Head(<<x, y>>) = x /\ <<x, y>> # <<>>
<1>1. ASSUME NEW x PROVE Append(<<>>, x) = <<x>>
  OBVIOUS
<1>2. ASSUME NEW x PROVE Tail(<<x>>) = <<>>
  OBVIOUS
<1>3. ASSUME NEW x PROVE Head(<<x>>) = x /\ <<x>> # <<>>
  OBVIOUS
<1>4. ASSUME NEW x, NEW y PROVE Append(<<x>>, y) = <<x, y>>
  <2>1. <<x>> \in Seq({x, y}) /\ Len(<<x>>) = 1 /\ <<x>>[1] = x
    OBVIOUS
  <2>2. /\ Append(<<x>>, y) \in Seq({x, y}) /\ Len(Append(<<x>>, y)) = 2
        /\ Append(<<x>>, y)[1] = x /\ Append(<<x>>, y)[2] = y
    BY <2>1
  <2>3. <<x, y>> \in Seq({x, y}) /\ Len(<<x, y>>) = 2 /\ <<x, y>>[1] = x /\ <<x, y>>[2] = y
    OBVIOUS
  <2>4. \A i \in 1 .. Len(<<x, y>>) : Append(<<x>>, y)[i] = <<x, y>>[i]
    BY <2>2, <2>3
  <2> QED
    BY <2>2, <2>3, <2>4, SeqEqual
<1>5. ASSUME NEW x, NEW y PROVE Tail(<<x, y>>) = <<y>>
  <2>1. <<x, y>> \in Seq({x, y}) /\ Len(<<x, y>>) = 2
    OBVIOUS
  <2>2. Tail(<<x, y>>) \in Seq({x, y}) /\ Len(Tail(<<x, y>>)) = 1 /\ Tail(<<x, y>>)[1] = y
    BY <2>1
  <2>3. <<y>> \in Seq({x, y}) /\ Len(<<y>>) = 1 /\ <<y>>[1] = y
    OBVIOUS
  <2> QED
    BY <2>2, <2>3, SeqEqual
<1>6. ASSUME NEW x, NEW y PROVE Head(<<x, y>>) = x /\ <<x, y>> # <<>>
  OBVIOUS
<1> QED
  BY <1>1, <1>2, <1>3, <1>4, <1>5, <1>6

\* A program that goes on within a call is still in that call.
LEMMA PhaseStep ==
  ASSUME PipeTypes, NEW q \in Peers, NEW f \in {"sync", "data"}, Phase(q, f)
  PROVE  step' = [step EXCEPT ![q] = <<step[q][1], f>>] /\ step'[q] = <<step[q][1], f>>
<1>1. step[q] \in (Nat \ {0}) \X {"begin", "sync", "data"}
  BY DEF PipeTypes
<1>2. [step[q] EXCEPT ![2] = f] = <<step[q][1], f>>
  BY <1>1
<1>3. step' = [step EXCEPT ![q] = [step[q] EXCEPT ![2] = f]]
  BY DEF Phase
<1> QED
  BY <1>2, <1>3 DEF PipeTypes

\* The writer sends the length, when nothing is under way or the data before not yet read.
LEMMA LengthKept ==
  ASSUME PipeInv, NEW q \in Peers, SendLength(q)
  PROVE  PipeInv'
<1>1. /\ PipeTypes /\ ~Over(q) /\ script[q][step[q][1]].op = "WRITE" /\ step[q][2] = "begin"
      /\ step[q][1] \in Nat \ {0} /\ On(q) \in Conduits
  BY InACall DEF PipeInv, SendLength, In
<1>2. PICK p \in Conduits : p = On(q)
  BY <1>1
<1>3. PICK n \in Nat \ {0} : n = step[q][1]
  BY <1>1
<1>4. step' = [step EXCEPT ![q] = <<n, "sync">>] /\ n >= step[q][1] /\ step'[q] = <<n, "sync">>
  BY <1>1, <1>3, PhaseStep DEF SendLength
<1>5. /\ toReader' = [toReader EXCEPT ![p] = Append(@, "length")] /\ linked' = [linked EXCEPT ![p] = TRUE]
      /\ UNCHANGED <<script, mapped, toWriter, sent, heard>>
  BY <1>2 DEF SendLength, Wire
<1>6. PipeTypes'
  BY <1>1, <1>3, <1>4, <1>5 DEF PipeTypes, Fits
<1>7. ~HasClosed(p) /\ ~Syncing(p)
  BY <1>1, <1>2, OneWriter DEF Syncing, In
<1>8. (In(q, "WRITE", "sync") /\ On(q) = p)' /\ ~(In(q, "READ", "data") /\ On(q) = p)'
  BY <1>1, <1>2, <1>3, <1>4, <1>5 DEF In, On, Over
<1>9. Syncing(p)' /\ (Reading(p)' <=> Reading(p))
  <2>1. Reading(p) <=> \E x \in Peers \ {q} : In(x, "READ", "data") /\ On(x) = p
    BY <1>1 DEF Reading, In
  <2> QED
    BY <1>1, <1>4, <1>5, <1>8, <2>1, AfterStep
<1>10. PipeState(p) /\ HeardInOrder(p)
  BY DEF PipeInv
<1>11. PipeState(p)'
  <2>1. toReader'[p] = Append(toReader[p], "length") /\ UNCHANGED <<toWriter[p], sent[p], heard[p]>>
    BY <1>1, <1>5 DEF PipeTypes
  <2> QED
    BY <1>7, <1>9, <1>10, <2>1, ShortWires DEF PipeState, Holding
<1>12. HeardInOrder(p)'
  BY <1>5, <1>10 DEF HeardInOrder
<1>13. \A r \in Conduits \ {p} : UNCHANGED <<toReader[r], toWriter[r], sent[r], heard[r]>>
  BY <1>1, <1>5 DEF PipeTypes
<1> QED
  BY <1>1, <1>2, <1>3, <1>4, <1>5, <1>6, <1>11, <1>12, <1>13, OneStep

\* A program that returns from a call begins the next.
LEMMA ReturnStep ==
  ASSUME PipeTypes, NEW q \in Peers, ~Over(q), Return(q)
  PROVE  /\ step' = [step EXCEPT ![q] = <<step[q][1] + 1, "begin">>]
         /\ step'[q] = <<step[q][1] + 1, "begin">>
         /\ step[q][1] + 1 \in Nat \ {0} /\ step[q][1] + 1 >= step[q][1]
  BY InACall DEF Return, PipeTypes

\* The writer sends the data when the reader has sent the length back, and waits no more.
LEMMA DataKept ==
  ASSUME PipeInv, NEW q \in Peers, SendData(q)
  PROVE  PipeInv'
<1>1. /\ PipeTypes /\ ~Over(q) /\ script[q][step[q][1]].op = "WRITE" /\ step[q][2] = "sync"
      /\ On(q) \in Conduits
  BY InACall DEF PipeInv, SendData, In
<1>2. PICK p \in Conduits : p = On(q)
  BY <1>1
<1>3. PICK n \in Nat \ {0} : n = step[q][1] + 1
  BY <1>1, ReturnStep DEF SendData
<1>4. step' = [step EXCEPT ![q] = <<n, "begin">>] /\ n >= step[q][1] /\ step'[q] = <<n, "begin">>
  BY <1>1, <1>3, ReturnStep DEF SendData
<1>5. PICK m : m = Len(sent[p]) + 1
  OBVIOUS
<1>6. /\ toReader' = [toReader EXCEPT ![p] = Append(@, m)] /\ sent' = [sent EXCEPT ![p] = Append(@, m)]
      /\ toWriter' = [toWriter EXCEPT ![p] = Tail(@)] /\ toWriter[p] # <<>>
      /\ UNCHANGED <<script, mapped, linked, heard>>
  BY <1>2, <1>5 DEF SendData, Wire, Message
<1>7. sent[p] \in Seq(Nat) /\ Len(sent[p]) \in Nat /\ m \in Nat /\ Len(heard[p]) \in Nat
      /\ toReader[p] \in Seq(Nat \cup {"length", "end"}) /\ toWriter[p] \in Seq({"echo"})
  BY <1>1, <1>5 DEF PipeTypes
<1>8. PipeTypes'
  <2>1. /\ Append(toReader[p], m) \in Seq(Nat \cup {"length", "end"})
        /\ Append(sent[p], m) \in Seq(Nat) /\ Tail(toWriter[p]) \in Seq({"echo"})
    BY <1>6, <1>7
  <2> QED
    <3>1. step' \in [Peers -> (Nat \ {0}) \X {"begin", "sync", "data"}]
      BY <1>1, <1>4 DEF PipeTypes
    <3>2. Fits(script)'
      BY <1>1, <1>6 DEF PipeTypes, Fits
    <3> QED
      BY <1>1, <1>6, <2>1, <3>1, <3>2 DEF PipeTypes
<1>9. ~HasClosed(p) /\ Syncing(p) /\ ~(\E x \in Peers \ {q} : In(x, "WRITE", "sync") /\ On(x) = p)
  BY <1>1, <1>2, OneWriter DEF Syncing, In
<1>10. ~(In(q, "WRITE", "sync") /\ On(q) = p)' /\ ~(In(q, "READ", "data") /\ On(q) = p)'
  BY <1>4 DEF In
<1>11. ~Syncing(p)' /\ (Reading(p)' <=> Reading(p))
  <2>1. Reading(p) <=> \E x \in Peers \ {q} : In(x, "READ", "data") /\ On(x) = p
    BY <1>1 DEF Reading, In
  <2> QED
    BY <1>1, <1>4, <1>6, <1>9, <1>10, <2>1, AfterStep
<1>12. PipeState(p) /\ HeardInOrder(p)
  BY DEF PipeInv
<1>13. /\ Len(sent[p]) = Len(heard[p]) /\ Reading(p) /\ toReader[p] = <<>> /\ toWriter[p] = <<"echo">>
  BY <1>6, <1>7, <1>9, <1>12 DEF PipeState, Holding
<1>14. /\ toReader'[p] = <<m>> /\ toWriter'[p] = <<>> /\ heard'[p] = heard[p]
       /\ Len(sent'[p]) = m /\ m = Len(heard'[p]) + 1
  <2>1. toReader'[p] = Append(toReader[p], m) /\ toWriter'[p] = Tail(toWriter[p]) /\ sent'[p] = Append(sent[p], m)
    BY <1>1, <1>6 DEF PipeTypes
  <2>2. toReader'[p] = <<m>> /\ toWriter'[p] = <<>>
    BY <1>13, <2>1, ShortWires
  <2> QED
    BY <1>5, <1>6, <1>7, <1>13, <2>1, <2>2
<1>15. PipeState(p)'
  BY <1>11, <1>13, <1>14 DEF PipeState, Holding
<1>16. HeardInOrder(p)'
  BY <1>5, <1>7, <1>12, <1>13, <1>14 DEF HeardInOrder
<1>17. \A r \in Conduits \ {p} : UNCHANGED <<toReader[r], toWriter[r], sent[r], heard[r]>>
  BY <1>1, <1>6 DEF PipeTypes
<1> QED
  BY <1>1, <1>2, <1>3, <1>4, <1>6, <1>8, <1>15, <1>16, <1>17, OneStep

\* The reader sends a length back and waits for the data, or hears the end.
LEMMA EchoKept ==
  ASSUME PipeInv, NEW q \in Peers, ReadLength(q)
  PROVE  PipeInv'
<1>1. /\ PipeTypes /\ ~Over(q) /\ script[q][step[q][1]].op = "READ" /\ step[q][2] = "begin"
      /\ step[q][1] \in Nat \ {0} /\ On(q) \in Conduits
  BY InACall DEF PipeInv, ReadLength, In
<1>2. PICK p \in Conduits : p = On(q)
  BY <1>1
<1>3. /\ toReader' = [toReader EXCEPT ![p] = Tail(@)] /\ toReader[p] # <<>>
      /\ toWriter' = [toWriter EXCEPT ![p] = Append(@, "echo")]
      /\ UNCHANGED <<script, mapped, linked, sent>>
  BY <1>2 DEF ReadLength, Takes
<1>4. /\ sent[p] \in Seq(Nat) /\ Len(sent[p]) \in Nat /\ heard[p] \in Seq(Nat) /\ Len(heard[p]) \in Nat
      /\ toReader[p] \in Seq(Nat \cup {"length", "end"}) /\ toWriter[p] \in Seq({"echo"})
  BY <1>1 DEF PipeTypes
<1>5. Tail(toReader[p]) \in Seq(Nat \cup {"length", "end"}) /\ Append(toWriter[p], "echo") \in Seq({"echo"})
  BY <1>3, <1>4
<1>6. ~Reading(p) /\ ~(\E x \in Peers \ {q} : In(x, "READ", "data") /\ On(x) = p)
  BY <1>1, <1>2, OneReader DEF Reading, In
<1>7. Syncing(p) <=> \E x \in Peers \ {q} : In(x, "WRITE", "sync") /\ On(x) = p
  BY <1>1 DEF Syncing, In
<1>8. PipeState(p) /\ HeardInOrder(p)
  BY DEF PipeInv
<1>9. /\ Len(sent[p]) = Len(heard[p]) /\ toWriter[p] = <<>>
      /\ \/ toReader[p] = <<"length">> /\ Syncing(p)
         \/ toReader[p] = <<"end">> /\ ~Syncing(p) /\ HasClosed(p)
  BY <1>3, <1>6, <1>8 DEF PipeState, Holding
<1>10. toReader'[p] = <<>> /\ toWriter'[p] = <<"echo">>
  <2>1. toReader'[p] = Tail(toReader[p]) /\ toWriter'[p] = Append(toWriter[p], "echo")
    BY <1>1, <1>3 DEF PipeTypes
  <2> QED
    BY <1>9, <2>1, ShortWires
<1>11. CASE toReader[p] = <<"length">>
  <2>1. Head(toReader[p]) = "length"
    BY <1>11, ShortWires
  <2>2. Phase(q, "data") /\ heard' = heard
    BY <1>2, <2>1 DEF ReadLength
  <2>3. PICK n \in Nat \ {0} : n = step[q][1]
    BY <1>1
  <2>4. step' = [step EXCEPT ![q] = <<n, "data">>] /\ n >= step[q][1] /\ step'[q] = <<n, "data">>
    BY <1>1, <2>2, <2>3, PhaseStep
  <2>5. PipeTypes'
    <3>1. step' \in [Peers -> (Nat \ {0}) \X {"begin", "sync", "data"}]
      BY <1>1, <2>4 DEF PipeTypes
    <3>2. Fits(script)'
      BY <1>1, <1>3 DEF PipeTypes, Fits
    <3> QED
      BY <1>1, <1>3, <1>5, <2>2, <3>1, <3>2 DEF PipeTypes
  <2>6. ~(In(q, "WRITE", "sync") /\ On(q) = p)' /\ (In(q, "READ", "data") /\ On(q) = p)'
    BY <1>1, <1>2, <1>3, <2>3, <2>4 DEF In, On, Over
  <2>7. (Syncing(p)' <=> Syncing(p)) /\ Reading(p)'
    BY <1>1, <1>3, <1>7, <2>4, <2>6, AfterStep
  <2>8. PipeState(p)'
    <3>1. /\ Len(sent'[p]) = Len(heard'[p]) /\ Syncing(p)'
      BY <1>3, <1>9, <1>11, <2>2, <2>7, <2>1, ShortWires
    <3> QED
      BY <1>10, <2>7, <3>1 DEF PipeState, Holding
  <2>9. HeardInOrder(p)'
    BY <1>3, <1>8, <2>2 DEF HeardInOrder
  <2>10. \A r \in Conduits \ {p} : UNCHANGED <<toReader[r], toWriter[r], sent[r], heard[r]>>
    BY <1>1, <1>3, <2>2 DEF PipeTypes
  <2> QED
    BY <1>1, <1>2, <1>3, <2>3, <2>4, <2>5, <2>8, <2>9, <2>10, OneStep
<1>12. CASE toReader[p] = <<"end">>
  <2>1. Head(toReader[p]) = "end"
    BY <1>12, ShortWires
  <2>2. Return(q) /\ heard' = [heard EXCEPT ![p] = Append(@, 0)]
    BY <1>2, <2>1 DEF ReadLength, Hears
  <2>3. PICK n \in Nat \ {0} : n = step[q][1] + 1
    BY <1>1, <2>2, ReturnStep
  <2>4. step' = [step EXCEPT ![q] = <<n, "begin">>] /\ n >= step[q][1] /\ step'[q] = <<n, "begin">>
    BY <1>1, <2>2, <2>3, ReturnStep
  <2>5. heard'[p] = Append(heard[p], 0) /\ Append(heard[p], 0) \in Seq(Nat)
    BY <1>1, <1>4, <2>2 DEF PipeTypes
  <2>6. PipeTypes'
    BY <1>1, <1>3, <1>5, <2>2, <2>4, <2>5 DEF PipeTypes, Fits
  <2>7. ~(In(q, "WRITE", "sync") /\ On(q) = p)' /\ ~(In(q, "READ", "data") /\ On(q) = p)'
    BY <2>4 DEF In
  <2>8. (Syncing(p)' <=> Syncing(p)) /\ ~Reading(p)' /\ (HasClosed(p) => HasClosed(p)')
    BY <1>1, <1>3, <1>6, <1>7, <2>4, <2>7, AfterStep
  <2>9. ~Syncing(p) /\ HasClosed(p)
    BY <1>9, <2>1, ShortWires
  <2>10. /\ Len(heard'[p]) = Len(heard[p]) + 1 /\ sent'[p] = sent[p]
         /\ \A k \in 1 .. Len(heard[p]) : heard'[p][k] = heard[p][k]
         /\ heard'[p][Len(heard[p]) + 1] = 0
    BY <1>3, <1>4, <2>5
  <2>11. PipeState(p)'
    <3>1. Len(heard'[p]) = Len(sent'[p]) + 1
      BY <1>9, <2>10
    <3> QED
      BY <1>10, <2>8, <2>9, <3>1 DEF PipeState, Holding
  <2>12. HeardInOrder(p)'
    <3>1. DOMAIN heard'[p] = 1 .. Len(heard[p]) + 1 /\ DOMAIN heard[p] = 1 .. Len(heard[p])
      BY <1>4, <2>5
    <3>2. ASSUME NEW k \in 1 .. Len(heard[p])
          PROVE  heard'[p][k] = k \/ (heard'[p][k] = 0 /\ k = Len(sent'[p]) + 1)
      BY <1>8, <2>10, <3>1 DEF HeardInOrder
    <3>3. heard'[p][Len(heard[p]) + 1] = 0 /\ Len(heard[p]) + 1 = Len(sent'[p]) + 1
      BY <1>9, <2>10
    <3>4. \A k \in DOMAIN heard'[p] : k \in 1 .. Len(heard[p]) \/ k = Len(heard[p]) + 1
      BY <1>4, <3>1
    <3> QED
      BY <3>2, <3>3, <3>4 DEF HeardInOrder
  <2>13. \A r \in Conduits \ {p} : UNCHANGED <<toReader[r], toWriter[r], sent[r], heard[r]>>
    BY <1>1, <1>3, <2>2 DEF PipeTypes
  <2> QED
    BY <1>1, <1>2, <1>3, <2>3, <2>4, <2>6, <2>11, <2>12, <2>13, OneStep
<1> QED
  BY <1>9, <1>11, <1>12

\* The reader takes the data, and the pipe is free for the next length, if that is not yet there.
LEMMA TakeKept ==
  ASSUME PipeInv, NEW q \in Peers, ReadData(q)
  PROVE  PipeInv'
<1>1. /\ PipeTypes /\ ~Over(q) /\ script[q][step[q][1]].op = "READ" /\ step[q][2] = "data"
      /\ On(q) \in Conduits
  BY InACall DEF PipeInv, ReadData, In
<1>2. PICK p \in Conduits : p = On(q)
  BY <1>1
<1>3. PICK n \in Nat \ {0} : n = step[q][1] + 1
  BY <1>1, ReturnStep DEF ReadData
<1>4. step' = [step EXCEPT ![q] = <<n, "begin">>] /\ n >= step[q][1] /\ step'[q] = <<n, "begin">>
  BY <1>1, <1>3, ReturnStep DEF ReadData
<1>5. /\ toReader' = [toReader EXCEPT ![p] = Tail(@)] /\ toReader[p] # <<>>
      /\ heard' = [heard EXCEPT ![p] = Append(@, Head(toReader[p]))]
      /\ UNCHANGED <<script, mapped, linked, toWriter, sent>>
  BY <1>2 DEF ReadData, Takes, Hears
<1>6. /\ sent[p] \in Seq(Nat) /\ Len(sent[p]) \in Nat /\ heard[p] \in Seq(Nat) /\ Len(heard[p]) \in Nat
      /\ toReader[p] \in Seq(Nat \cup {"length", "end"})
  BY <1>1 DEF PipeTypes
<1>7. Reading(p) /\ ~(\E x \in Peers \ {q} : In(x, "READ", "data") /\ On(x) = p)
  BY <1>1, <1>2, OneReader DEF Reading, In
<1>8. PipeState(p) /\ HeardInOrder(p)
  BY DEF PipeInv
<1>9. PICK m : m = Len(sent[p])
  OBVIOUS
<1>10. /\ m = Len(heard[p]) + 1 /\ toWriter[p] = <<>>
       /\ \/ toReader[p] = <<m>> /\ ~Syncing(p)
          \/ toReader[p] = <<m, "length">> /\ Syncing(p)
          \/ toReader[p] = <<m, "end">> /\ ~Syncing(p) /\ HasClosed(p)
  BY <1>5, <1>7, <1>8, <1>9 DEF PipeState, Holding
<1>11. /\ Head(toReader[p]) = m
       /\ \/ toReader'[p] = <<>> /\ ~Syncing(p)
          \/ toReader'[p] = <<"length">> /\ Syncing(p)
          \/ toReader'[p] = <<"end">> /\ ~Syncing(p) /\ HasClosed(p)
  <2>1. toReader'[p] = Tail(toReader[p])
    BY <1>1, <1>5 DEF PipeTypes
  <2> QED
    BY <1>10, <2>1, ShortWires
<1>12. heard'[p] = Append(heard[p], m) /\ Append(heard[p], m) \in Seq(Nat)
  BY <1>1, <1>5, <1>6, <1>9, <1>11 DEF PipeTypes
<1>13. PipeTypes'
  <2>1. Tail(toReader[p]) \in Seq(Nat \cup {"length", "end"})
    BY <1>5, <1>6
  <2>2. heard' = [heard EXCEPT ![p] = Append(heard[p], m)]
    BY <1>5, <1>11
  <2>3. step' \in [Peers -> (Nat \ {0}) \X {"begin", "sync", "data"}]
    BY <1>1, <1>4 DEF PipeTypes
  <2>4. toReader' \in [Conduits -> Seq(Nat \cup {"length", "end"})]
    BY <1>1, <1>5, <2>1 DEF PipeTypes
  <2>5. heard' \in [Conduits -> Seq(Nat)]
    BY <1>1, <1>12, <2>2 DEF PipeTypes
  <2>6. Fits(script)'
    BY <1>1, <1>5 DEF PipeTypes, Fits
  <2> QED
    BY <1>1, <1>5, <2>3, <2>4, <2>5, <2>6 DEF PipeTypes
<1>14. ~(In(q, "WRITE", "sync") /\ On(q) = p)' /\ ~(In(q, "READ", "data") /\ On(q) = p)'
  BY <1>4 DEF In
<1>15. (Syncing(p)' <=> Syncing(p)) /\ ~Reading(p)' /\ (HasClosed(p) => HasClosed(p)')
  <2>1. Syncing(p) <=> \E x \in Peers \ {q} : In(x, "WRITE", "sync") /\ On(x) = p
    BY <1>1 DEF Syncing, In
  <2> QED
    BY <1>1, <1>4, <1>5, <1>7, <1>14, <2>1, AfterStep
<1>16. /\ Len(heard'[p]) = m /\ Len(sent'[p]) = m /\ toWriter'[p] = <<>>
       /\ \A k \in 1 .. Len(heard[p]) : heard'[p][k] = heard[p][k]
       /\ heard'[p][m] = m /\ DOMAIN heard'[p] = 1 .. m
  BY <1>5, <1>6, <1>9, <1>10, <1>12
<1>17. PipeState(p)'
  BY <1>11, <1>15, <1>16 DEF PipeState, Holding
<1>18. HeardInOrder(p)'
  BY <1>5, <1>6, <1>8, <1>10, <1>16 DEF HeardInOrder
<1>19. \A r \in Conduits \ {p} : UNCHANGED <<toReader[r], toWriter[r], sent[r], heard[r]>>
  BY <1>1, <1>5 DEF PipeTypes
<1> QED
  BY <1>1, <1>2, <1>3, <1>4, <1>5, <1>13, <1>17, <1>18, <1>19, OneStep

\* The writer closes: the end follows what is still under way, and nothing follows it.
LEMMA CloseSent ==
  ASSUME PipeInv, NEW q \in Peers, CloseToWrite(q)
  PROVE  PipeInv'
<1>1. /\ PipeTypes /\ ~Over(q) /\ script[q][step[q][1]].op = "CLOSE>" /\ step[q][2] = "begin"
      /\ step[q][1] \in DOMAIN script[q] /\ On(q) \in Conduits /\ Return(q)
      /\ UNCHANGED <<script, mapped, linked, toWriter, sent, heard>>
  BY InACall DEF PipeInv, CloseToWrite, In
<1>2. PICK p \in Conduits : p = On(q)
  BY <1>1
<1>3. PICK n \in Nat \ {0} : n = step[q][1] + 1
  BY <1>1, ReturnStep
<1>4. step' = [step EXCEPT ![q] = <<n, "begin">>] /\ n >= step[q][1] /\ step'[q] = <<n, "begin">>
  BY <1>1, <1>3, ReturnStep
<1>5. CASE ~linked[p]
  <2>1. UNCHANGED toReader /\ mapped' \subseteq Conduits
    BY <1>1, <1>2, <1>5 DEF CloseToWrite, PipeTypes
  <2> QED
    BY <1>1, <2>1, QuietStep DEF CloseToWrite
<1>6. CASE linked[p]
  <2>1. toReader' = [toReader EXCEPT ![p] = Append(@, "end")]
    BY <1>2, <1>6 DEF CloseToWrite, Wire
  <2>2. toReader[p] \in Seq(Nat \cup {"length", "end"}) /\ toReader'[p] = Append(toReader[p], "end")
    BY <1>1, <2>1 DEF PipeTypes
  <2>3. PipeTypes'
    <3>1. Append(toReader[p], "end") \in Seq(Nat \cup {"length", "end"})
      BY <2>2
    <3> QED
      BY <1>1, <1>4, <2>1, <3>1 DEF PipeTypes, Fits
  <2>4. ~HasClosed(p) /\ ~Syncing(p)
    BY <1>1, <1>2, OneWriter DEF Syncing, In
  <2>5. HasClosed(p)'
    <3>1. step[q][1] < step'[q][1] /\ step[q][1] \in DOMAIN script'[q]
      BY <1>1, <1>3, <1>4, InACall
    <3>2. script'[q][step[q][1]].op = "CLOSE>" /\ script'[q][step[q][1]].on = p
      BY <1>1, <1>2 DEF On
    <3> QED
      BY <3>1, <3>2 DEF HasClosed
  <2>6. ~(In(q, "WRITE", "sync") /\ On(q) = p)' /\ ~(In(q, "READ", "data") /\ On(q) = p)'
    BY <1>4 DEF In
  <2>7. (Syncing(p)' <=> Syncing(p)) /\ (Reading(p)' <=> Reading(p))
    <3>1. Syncing(p) <=> \E x \in Peers \ {q} : In(x, "WRITE", "sync") /\ On(x) = p
      BY <1>1 DEF Syncing, In
    <3>2. Reading(p) <=> \E x \in Peers \ {q} : In(x, "READ", "data") /\ On(x) = p
      BY <1>1 DEF Reading, In
    <3> QED
      BY <1>1, <1>4, <2>6, <3>1, <3>2, AfterStep
  <2>8. PipeState(p) /\ HeardInOrder(p)
    BY DEF PipeInv
  <2>9. PipeState(p)'
    BY <1>1, <2>2, <2>4, <2>5, <2>7, <2>8, ShortWires DEF PipeState, Holding
  <2>10. HeardInOrder(p)'
    BY <1>1, <2>8 DEF HeardInOrder
  <2>11. \A r \in Conduits \ {p} : UNCHANGED <<toReader[r], toWriter[r], sent[r], heard[r]>>
    BY <1>1, <2>1 DEF PipeTypes
  <2> QED
    BY <1>1, <1>2, <1>3, <1>4, <2>3, <2>9, <2>10, <2>11, OneStep
<1> QED
  BY <1>5, <1>6

\* Every step keeps every pipe in one of its states.
LEMMA PipeStep ==
  ASSUME PipeInv, [PipeNext]_pipeVars
  PROVE  PipeInv'
<1>1. CASE UNCHANGED pipeVars
  <2>1. PipeTypes'
    BY <1>1 DEF pipeVars, PipeInv, PipeTypes, Fits
  <2>2. ASSUME NEW p \in Conduits PROVE PipeState(p)' /\ HeardInOrder(p)'
    <3>1. (Syncing(p)' <=> Syncing(p)) /\ (Reading(p)' <=> Reading(p)) /\ (HasClosed(p)' <=> HasClosed(p))
      BY <1>1 DEF pipeVars, Syncing, Reading, HasClosed, In, On, Over
    <3>2. PipeState(p) /\ HeardInOrder(p) /\ UNCHANGED <<toReader, toWriter, sent, heard>>
      BY <1>1, <2>2 DEF PipeInv, pipeVars
    <3>3. PipeState(p)'
      BY <3>1, <3>2 DEF PipeState, Holding
    <3> QED
      BY <3>2, <3>3 DEF HeardInOrder
  <2> QED
    BY <2>1, <2>2 DEF PipeInv
<1>2. ASSUME NEW q \in Peers, PeerStep(q) PROVE PipeInv'
  <2>1. CASE OpenToRead(q)
    <3>1. On(q) \in Conduits
      BY <2>1, InACall DEF OpenToRead, In, PipeInv
    <3> QED
      BY <2>1, <3>1, QuietStep DEF OpenToRead, PipeInv, PipeTypes
  <2>2. CASE OpenToWrite(q)
    BY <2>2, QuietStep DEF OpenToWrite, PipeInv, PipeTypes
  <2>3. CASE SendLength(q)
    BY <2>3, LengthKept
  <2>4. CASE SendData(q)
    BY <2>4, DataKept
  <2>5. CASE ReadLength(q)
    BY <2>5, EchoKept
  <2>6. CASE ReadData(q)
    BY <2>6, TakeKept
  <2>7. CASE CloseToWrite(q)
    BY <2>7, CloseSent
  <2>8. CASE CloseToRead(q)
    BY <2>8, QuietStep DEF CloseToRead, PipeInv, PipeTypes
  <2> QED
    BY <1>2, <2>1, <2>2, <2>3, <2>4, <2>5, <2>6, <2>7, <2>8 DEF PeerStep
<1> QED
  BY <1>1, <1>2 DEF PipeNext

\* Between any programs whose calls on each pipe are those of one writer and one reader, a
\* write returns only when its message is being read, messages are read in the order
\* written, and the end comes last and once.
THEOREM PipesKeepOrder == PipeSpec => []PipesRendezvous
<1>1. PipeSpec => []PipeInv
  BY PipesBegin, PipeStep, PTL DEF PipeSpec
<1>2. PipeInv => PipesRendezvous
  BY StateIsRendezvous
<1> QED
  BY <1>1, <1>2, PTL

\* So it is with the other services beside them.
THEOREM ServicesKeepOrder == ServicesSpec => []PipesRendezvous
<1>1. ServicesInit => PipeInit
  BY DEF ServicesInit
<1>2. ASSUME [ServicesNext]_serviceVars PROVE [PipeNext]_pipeVars
  BY <1>2 DEF ServicesNext, serviceVars, Client, Death, Files, Direct, Peer, PlainCalls, PipeNext
<1>3. ServicesSpec => []PipeInv
  BY <1>1, <1>2, PipesBegin, PipeStep, PTL DEF ServicesSpec
<1>4. PipeInv => PipesRendezvous
  BY StateIsRendezvous
<1> QED
  BY <1>3, <1>4, PTL

-----------------------------------------------------------------------------
(* The plain calls at an advanced handler.                                  *)

RequestSet ==
  [at : {"free", "asks", "waits"}, op : {"NONE", "PUT", "GET", "READ", "RMALL", "GTS", "SOT", "EOT"},
   names : (SUBSET Names) \cup Expressions, val : Nat, wait : BOOLEAN]
QueuedSet == [by : Askers \ {Director}, names : (SUBSET Names) \cup Expressions, op : {"GET", "READ"}]
TupleSet  == [name : Names, val : 1 .. contents]
RoundSet  == [EOT : BOOLEAN, TIDS : Nat, tid_q : Seq(Askers \ {Director}), left : SUBSET Askers]
PlainTypes ==
  /\ plainSpace \in Seq(TupleSet)
  /\ plainQueue \in Seq(QueuedSet)
  /\ round \in RoundSet
  /\ request \in [Askers -> RequestSet]
  /\ asking \subseteq Askers /\ contents \in 0 .. MaxContents
  /\ takers \in [1 .. MaxContents -> SUBSET Askers] /\ lostContents \subseteq 1 .. contents

\* No two tuples of the list have the same name or the same content.
TuplesDiffer ==
  \A k, l \in DOMAIN plainSpace :
    k # l => plainSpace[k].name # plainSpace[l].name /\ plainSpace[k].val # plainSpace[l].val

\* What is being put has not been seen yet, and only the director puts.
Fresh(v) == takers[v] = {} /\ v \notin lostContents /\ v \notin Plain!Contents(plainSpace)
PutsAreFresh ==
  \A c \in Askers :
    /\ request[c].op \in {"GET", "READ", "GTS"} => c # Director
    /\ request[c].op = "PUT" =>
         /\ c = Director /\ request[c].at = "asks" /\ \E n \in Names : request[c].names = {n}
         /\ request[c].val \in 1 .. contents /\ Fresh(request[c].val)

\* Every content so far is in one place, or on its way.
OnItsWay(v) == \E c \in Askers : request[c].op = "PUT" /\ request[c].val = v
ContentsArePlaced ==
  /\ \A v \in 1 .. MaxContents : takers[v] = {} \/ \E c \in Askers : takers[v] = {c}
  /\ \A v \in 1 .. MaxContents : v > contents => takers[v] = {}
  /\ \A k \in DOMAIN plainSpace : takers[plainSpace[k].val] = {} /\ plainSpace[k].val \notin lostContents
  /\ \A v \in 1 .. contents :
       v \in Plain!Contents(plainSpace) \/ takers[v] # {} \/ v \in lostContents \/ OnItsWay(v)

NoMatchWaits ==
  \A k \in DOMAIN plainQueue, l \in DOMAIN plainSpace : plainSpace[l].name \notin plainQueue[k].names
WaitersStand ==
  up => \A c \in asking : request[c].at = "waits" =>
    (\E k \in DOMAIN plainQueue : plainQueue[k].by = c) \/ (\E k \in DOMAIN round.tid_q : round.tid_q[k] = c)
      \/ c \in round.left

PlainInv ==
  PlainTypes /\ TuplesDiffer /\ PutsAreFresh /\ ContentsArePlaced /\ NoMatchWaits /\ WaitersStand

\* The operators on lists and sets are those of the other parts.
LEMMA PlainCounts == \A K : Plain!Cardinality(K) = Cardinality(K)
  BY DEF Plain!Cardinality, Cardinality

\* The lists of PlainSpace are those of Sublists.
LEMMA PlainLists ==
  ASSUME NEW s, NEW K
  PROVE  /\ Plain!ToSet(s) = ToSet(s) /\ Plain!RemoveAt(s, K) = RemoveAt(s, K)
         /\ Plain!Sublist(s, K) = Sublist(s, K)
<1>1. ASSUME NEW n PROVE Plain!Place(K, n) = Place(K, n)
  <2>1. \A i : Plain!Cardinality({j \in K : j <= i}) = n <=> Cardinality({j \in K : j <= i}) = n
    BY PlainCounts
  <2> QED
    BY <2>1, Zenon DEF Plain!Place, Place
<1>2. Plain!Sublist(s, K) = Sublist(s, K)
  BY PlainCounts, <1>1 DEF Plain!Sublist, Sublist
<1> QED
  BY <1>2 DEF Plain!ToSet, ToSet, Plain!RemoveAt, RemoveAt

\* The invariant says what the two properties say.
LEMMA PlacedIsAccounted ==
  ASSUME PlainInv
  PROVE  Plain!WaitersAreQueued /\ Plain!ContentsAccounted
<1>1. Plain!WaitersAreQueued
  <2>1. \A q \in ToSet(plainQueue), t \in ToSet(plainSpace) : t.name \notin q.names
    BY DEF PlainInv, NoMatchWaits, ToSet
  <2>2. ASSUME up, NEW c \in asking, request[c].at = "waits"
        PROVE  c \in {q.by : q \in ToSet(plainQueue)} \cup ToSet(round.tid_q) \cup round.left
    BY <2>2 DEF PlainInv, WaitersStand, ToSet
  <2> QED
    BY <2>1, <2>2, PlainLists DEF Plain!WaitersAreQueued
<1>2. ASSUME NEW v \in 1 .. contents
      PROVE  /\ Cardinality(takers[v]) <= 1
             /\ v \in Plain!Contents(plainSpace) => takers[v] = {} /\ v \notin lostContents
             /\ \/ v \in Plain!Contents(plainSpace) \/ takers[v] # {} \/ v \in lostContents
                \/ \E c \in Askers : request[c].op = "PUT" /\ request[c].val = v
  <2>1. v \in 1 .. MaxContents
    BY PlainAssumption DEF PlainInv, PlainTypes
  <2>2. Cardinality(takers[v]) <= 1
    <3>1. takers[v] = {} \/ \E c \in Askers : takers[v] = {c}
      BY <2>1 DEF PlainInv, ContentsArePlaced
    <3>2. Cardinality({}) = 0 /\ \A c : Cardinality({c}) = 1
      BY FS_EmptySet, FS_Singleton
    <3>3. CASE takers[v] = {}
      BY <3>2, <3>3
    <3>4. CASE \E c \in Askers : takers[v] = {c}
      BY <3>2, <3>4
    <3> QED
      BY <3>1, <3>3, <3>4
  <2>3. v \in Plain!Contents(plainSpace) => takers[v] = {} /\ v \notin lostContents
    BY DEF PlainInv, ContentsArePlaced, Plain!Contents
  <2> QED
    BY <2>2, <2>3 DEF PlainInv, ContentsArePlaced, OnItsWay
<1> QED
  BY <1>1, <1>2, PlainCounts DEF Plain!ContentsAccounted

\* At first there is neither a tuple nor a request.
LEMMA PlainBegins ==
  ASSUME Plain!PlainInit
  PROVE  PlainInv
<1>1. PlainTypes
  BY PlainAssumption DEF Plain!PlainInit, PlainTypes, RequestSet, RoundSet, Plain!NoCall, Plain!NoRound
<1>2. TuplesDiffer /\ NoMatchWaits
  BY DEF Plain!PlainInit, TuplesDiffer, NoMatchWaits
<1>3. PutsAreFresh
  BY DEF Plain!PlainInit, PutsAreFresh, Plain!NoCall
<1>4. ContentsArePlaced
  BY PlainAssumption DEF Plain!PlainInit, ContentsArePlaced
<1>5. WaitersStand
  BY DEF Plain!PlainInit, WaitersStand, Plain!NoCall
<1> QED
  BY <1>1, <1>2, <1>3, <1>4, <1>5 DEF PlainInv

\* A tuple has a name and a value that has been put.
LEMMA TuplesTyped ==
  ASSUME PlainInv, NEW k \in DOMAIN plainSpace
  PROVE  plainSpace[k].name \in Names /\ plainSpace[k].val \in 1 .. contents /\ plainSpace[k].val \in 1 .. MaxContents
<1>1. plainSpace \in Seq(TupleSet) /\ contents \in 0 .. MaxContents
  BY DEF PlainInv, PlainTypes
<1>2. plainSpace[k] \in TupleSet
  BY <1>1
<1> QED
  BY <1>1, <1>2, PlainAssumption DEF TupleSet

\* What a step does to the calls when it neither begins nor ends a PUT.
CallsChange ==
  /\ request' \in [Askers -> RequestSet]
  /\ \A x \in Askers :
       /\ request[x].op = "PUT" \/ request'[x].op = "PUT" => request'[x] = request[x]
       /\ request'[x].op \in {"GET", "READ", "GTS"} => x # Director

\* Freeing clients that do not put, and making one wait, are such steps.
LEMMA FreedChange ==
  ASSUME PlainInv, NEW freed \in SUBSET Askers, \A x \in freed : request[x].op # "PUT", Plain!Freed(freed)
  PROVE  /\ CallsChange
         /\ \A x \in Askers : request'[x].at = "waits" => request[x].at = "waits" /\ x \notin freed
<1>1. \A x \in Askers : request'[x] = IF x \in freed THEN Plain!NoCall ELSE request[x]
  BY DEF Plain!Freed
<1>2. Plain!NoCall \in RequestSet /\ Plain!NoCall.op = "NONE" /\ Plain!NoCall.at = "free"
  BY DEF Plain!NoCall, RequestSet
<1>3. request \in [Askers -> RequestSet] /\ \A x \in Askers : request[x].op \in {"GET", "READ", "GTS"} => x # Director
  BY DEF PlainInv, PlainTypes, PutsAreFresh
<1>4. request' \in [Askers -> RequestSet]
  BY <1>2, <1>3 DEF Plain!Freed
<1>5. ASSUME NEW x \in Askers
      PROVE  /\ request[x].op = "PUT" \/ request'[x].op = "PUT" => request'[x] = request[x]
             /\ request'[x].op \in {"GET", "READ", "GTS"} => x # Director
             /\ request'[x].at = "waits" => request[x].at = "waits" /\ x \notin freed
  <2>1. CASE x \in freed
    BY <1>1, <1>2, <2>1
  <2>2. CASE x \notin freed
    BY <1>1, <1>3, <2>2
  <2> QED
    BY <2>1, <2>2
<1> QED
  BY <1>4, <1>5 DEF CallsChange

\* A request that has to wait is queued, and nothing else changes.
LEMMA WaitsChange ==
  ASSUME PlainInv, NEW c \in Askers, request[c].op # "PUT", Plain!Waits(c)
  PROVE  /\ CallsChange
         /\ \A x \in Askers : request'[x].at = "waits" => request[x].at = "waits" \/ x = c
<1>1. request \in [Askers -> RequestSet] /\ \A x \in Askers : request[x].op \in {"GET", "READ", "GTS"} => x # Director
  BY DEF PlainInv, PlainTypes, PutsAreFresh
<1>2. request' = [request EXCEPT ![c] = [@ EXCEPT !.at = "waits"]]
  BY <1>1 DEF Plain!Waits
<1>3. request[c] \in RequestSet
  BY <1>1
<1>4. PICK r : r = [request[c] EXCEPT !.at = "waits"]
  OBVIOUS
<1>5. r \in RequestSet /\ r.op = request[c].op
  BY <1>3, <1>4 DEF RequestSet
<1>6. request' = [request EXCEPT ![c] = r]
  BY <1>1, <1>2, <1>4
<1> QED
  BY <1>1, <1>5, <1>6 DEF CallsChange

\* Steps that do not touch the list keep everything, if those who wait stand where they wait.
LEMMA QuietCalls ==
  ASSUME PlainInv, CallsChange, round' \in RoundSet, asking' \subseteq asking,
         UNCHANGED <<plainSpace, plainQueue, takers, lostContents, contents>>, WaitersStand'
  PROVE  PlainInv'
<1>1. PlainTypes' /\ TuplesDiffer' /\ NoMatchWaits'
  BY DEF PlainInv, PlainTypes, TupleSet, TuplesDiffer, NoMatchWaits, CallsChange
<1>2. PutsAreFresh'
  BY DEF PlainInv, PutsAreFresh, CallsChange, Fresh, Plain!Contents
<1>3. ContentsArePlaced'
  <2>1. \A v : OnItsWay(v) => OnItsWay(v)'
    BY DEF OnItsWay, CallsChange
  <2> QED
    BY <2>1 DEF PlainInv, ContentsArePlaced, Plain!Contents
<1> QED
  BY <1>1, <1>2, <1>3 DEF PlainInv

\* ... and so do those that empty the list.
LEMMA EmptiedCalls ==
  ASSUME PlainInv, CallsChange, round' \in RoundSet, asking' \subseteq asking,
         plainSpace' = <<>>, lostContents' = lostContents \cup Plain!Contents(plainSpace),
         plainQueue' \in {plainQueue, <<>>}, UNCHANGED <<takers, contents>>, WaitersStand'
  PROVE  PlainInv'
<1>1. \A k \in DOMAIN plainSpace : plainSpace[k].val \in 1 .. contents
  BY TuplesTyped
<1>2. \A v : v \in Plain!Contents(plainSpace) <=> \E k \in DOMAIN plainSpace : v = plainSpace[k].val
  BY DEF Plain!Contents
<1>3. \A v : v \notin Plain!Contents(plainSpace)'
  BY DEF Plain!Contents
<1>4. PlainTypes'
  <2>1. lostContents' \subseteq 1 .. contents'
    <3>1. lostContents \subseteq 1 .. contents /\ \A u \in lostContents' : u \in lostContents \/ u \in Plain!Contents(plainSpace)
      BY DEF PlainInv, PlainTypes
    <3>2. ASSUME NEW u \in lostContents' PROVE u \in 1 .. contents
      <4>1. CASE u \in lostContents
        BY <3>1, <4>1
      <4>2. CASE \E k \in DOMAIN plainSpace : u = plainSpace[k].val
        BY <1>1, <4>2
      <4> QED
        BY <1>2, <3>1, <4>1, <4>2
    <3> QED
      BY <3>2
  <2>2. plainSpace' \in Seq(TupleSet')
    OBVIOUS
  <2>3. plainQueue' \in Seq(QueuedSet)
    <3>1. plainQueue \in Seq(QueuedSet) /\ <<>> \in Seq(QueuedSet)
      BY DEF PlainInv, PlainTypes
    <3> QED
      BY <3>1
  <2> QED
    BY <2>1, <2>2, <2>3 DEF PlainInv, PlainTypes, CallsChange
<1>5. TuplesDiffer' /\ NoMatchWaits'
  BY DEF TuplesDiffer, NoMatchWaits
<1>6. PutsAreFresh'
  BY <1>3 DEF PlainInv, PutsAreFresh, CallsChange, Fresh
<1>7. ContentsArePlaced'
  <2>1. \A v : OnItsWay(v) => OnItsWay(v)'
    BY DEF OnItsWay, CallsChange
  <2>2. /\ \A v \in 1 .. MaxContents : takers'[v] = {} \/ \E c \in Askers : takers'[v] = {c}
        /\ \A v \in 1 .. MaxContents : v > contents' => takers'[v] = {}
    BY DEF PlainInv, ContentsArePlaced
  <2>3. \A v \in 1 .. contents' : takers'[v] # {} \/ v \in lostContents' \/ OnItsWay(v)'
    BY <2>1 DEF PlainInv, ContentsArePlaced
  <2> QED
    BY <2>2, <2>3 DEF ContentsArePlaced
<1> QED
  BY <1>4, <1>5, <1>6, <1>7 DEF PlainInv

\* A PUT begins: its content has not been seen.
LEMMA PutAsked ==
  ASSUME PlainInv, NEW n \in Names, Plain!cnf_tsput(Director, n)
  PROVE  PlainInv'
<1> DEFINE r == [at |-> "asks", op |-> "PUT", names |-> {n}, val |-> contents + 1, wait |-> TRUE]
<1>1. contents < MaxContents /\ contents' = contents + 1 /\ contents \in Nat /\ contents' \in 1 .. MaxContents
  BY PlainAssumption DEF Plain!cnf_tsput, PlainInv, PlainTypes
<1>2. /\ r \in RequestSet /\ r.at = "asks" /\ r.op = "PUT" /\ r.names = {n} /\ r.val = contents'
      /\ request' = [request EXCEPT ![Director] = r] /\ request[Director].at = "free" /\ Director \in asking
      /\ UNCHANGED <<up, plainSpace, plainQueue, fenced, round, asking, takers, lostContents>>
  BY <1>1 DEF Plain!cnf_tsput, Plain!Asks, RequestSet
<1> HIDE DEF r
<1>0. PICK new \in 1 .. MaxContents : new = contents'
  BY <1>1
<1>3. PlainTypes /\ TuplesDiffer /\ PutsAreFresh /\ ContentsArePlaced /\ NoMatchWaits /\ WaitersStand
  BY DEF PlainInv
<1>4. request \in [Askers -> RequestSet] /\ Director \in Askers
  BY <1>2, <1>3 DEF PlainTypes
<1>5. \A x \in Askers : request'[x] = IF x = Director THEN r ELSE request[x]
  BY <1>2, <1>4
<1>6. \A v \in 1 .. contents' : v \in 1 .. contents \/ v = new
  BY <1>0, <1>1
<1>7. PlainTypes'
  <2>1. TupleSet \subseteq TupleSet' /\ 1 .. contents \subseteq 1 .. contents'
    BY <1>1 DEF TupleSet
  <2>2. plainSpace' \in Seq(TupleSet')
    BY <1>2, <1>3, <2>1 DEF PlainTypes
  <2> QED
    BY <1>1, <1>2, <1>3, <1>4, <2>1, <2>2 DEF PlainTypes
<1>8. TuplesDiffer' /\ NoMatchWaits'
  BY <1>2, <1>3 DEF TuplesDiffer, NoMatchWaits
<1>9. PutsAreFresh'
  <2>1. Fresh(new)'
    <3>1. new \notin lostContents /\ takers[new] = {}
      BY <1>0, <1>1, <1>3 DEF PlainTypes, ContentsArePlaced
    <3>2. \A k \in DOMAIN plainSpace : plainSpace[k].val # new
      BY <1>0, <1>1, TuplesTyped
    <3> QED
      BY <1>2, <3>1, <3>2 DEF Fresh, Plain!Contents
  <2>2. \A v : Fresh(v) => Fresh(v)'
    BY <1>2 DEF Fresh, Plain!Contents
  <2>3. \A v \in 1 .. contents : v \in 1 .. contents'
    BY <1>1
  <2> QED
    BY <1>0, <1>1, <1>2, <1>3, <1>5, <2>1, <2>2, <2>3 DEF PutsAreFresh
<1>10. ContentsArePlaced'
  <2>1. request[Director].op # "PUT"
    BY <1>2, <1>3, <1>4 DEF PutsAreFresh
  <2>2. OnItsWay(new)' /\ \A v : OnItsWay(v) => OnItsWay(v)'
    BY <1>0, <1>2, <1>4, <1>5, <2>1 DEF OnItsWay
  <2>3. \A v \in 1 .. MaxContents : v > contents' => v > contents
    BY <1>1
  <2> QED
    BY <1>2, <1>3, <1>6, <2>2, <2>3 DEF ContentsArePlaced, Plain!Contents
<1>11. WaitersStand'
  <2>1. asking \subseteq Askers
    BY <1>3 DEF PlainTypes
  <2> QED
    BY <1>2, <1>3, <1>5, <2>1 DEF WaitersStand
<1> QED
  BY <1>7, <1>8, <1>9, <1>10, <1>11 DEF PlainInv

\* The other calls.
LEMMA AskedKept ==
  ASSUME PlainInv, NEW c \in Askers, NEW op \in {"GET", "READ", "RMALL", "GTS", "SOT", "EOT"},
         NEW names \in (SUBSET Names) \cup Expressions, NEW val \in Nat, NEW wait \in BOOLEAN,
         op \in {"GET", "READ", "GTS"} => c # Director,
         Plain!Asks(c, op, names, val, wait), UNCHANGED contents
  PROVE  PlainInv'
<1> DEFINE r == [at |-> "asks", op |-> op, names |-> names, val |-> val, wait |-> wait]
<1>1. /\ r \in RequestSet /\ r.at = "asks" /\ r.op = op /\ r.op # "PUT"
      /\ request' = [request EXCEPT ![c] = r] /\ request[c].at = "free"
      /\ UNCHANGED <<up, plainSpace, plainQueue, fenced, round, asking, takers, lostContents, contents>>
  BY DEF Plain!Asks, RequestSet
<1> HIDE DEF r
<1>2. PlainTypes /\ PutsAreFresh /\ WaitersStand
  BY DEF PlainInv
<1>3. request \in [Askers -> RequestSet] /\ asking \subseteq Askers /\ round \in RoundSet
  BY <1>2 DEF PlainTypes
<1>4. \A x \in Askers : request'[x] = IF x = c THEN r ELSE request[x]
  BY <1>1, <1>3
<1>5. CallsChange
  BY <1>1, <1>2, <1>3, <1>4 DEF CallsChange, PutsAreFresh
<1>6. WaitersStand'
  BY <1>1, <1>2, <1>3, <1>4 DEF WaitersStand
<1> QED
  BY <1>1, <1>3, <1>5, <1>6, QuietCalls

\* What is not put is lost: it is refused, or there is no handler.
LEMMA LostKept ==
  ASSUME PlainInv, NEW c \in Askers, request[c].op = "PUT", Plain!Freed({c}),
         lostContents' = lostContents \cup {request[c].val},
         UNCHANGED <<plainSpace, plainQueue, round, asking, contents, takers>>, up' => up
  PROVE  PlainInv'
<1>1. PlainTypes /\ TuplesDiffer /\ PutsAreFresh /\ ContentsArePlaced /\ NoMatchWaits /\ WaitersStand
  BY DEF PlainInv
<1>2. request \in [Askers -> RequestSet] /\ round \in RoundSet /\ request[c].at = "asks" /\ asking \subseteq Askers
  BY <1>1 DEF PlainTypes, PutsAreFresh
<1>3. request[c].val \in 1 .. contents /\ Fresh(request[c].val)
  BY <1>1 DEF PutsAreFresh
<1>4. \A x \in Askers : request'[x] = IF x = c THEN Plain!NoCall ELSE request[x]
  BY DEF Plain!Freed
<1>5. Plain!NoCall \in RequestSet /\ Plain!NoCall.op = "NONE" /\ Plain!NoCall.at = "free"
  BY DEF Plain!NoCall, RequestSet
<1>6. PlainTypes'
  <2>1. request' \in [Askers -> RequestSet]
    BY <1>2, <1>5 DEF Plain!Freed
  <2> QED
    BY <1>1, <1>3, <2>1 DEF PlainTypes, TupleSet
<1>7. TuplesDiffer' /\ NoMatchWaits'
  BY <1>1 DEF TuplesDiffer, NoMatchWaits
<1>8. PutsAreFresh'
  <2>1. \A x \in Askers : request'[x].op = "PUT" => FALSE
    BY <1>1, <1>4, <1>5 DEF PutsAreFresh
  <2> QED
    BY <1>1, <1>4, <1>5, <2>1 DEF PutsAreFresh
<1>9. ContentsArePlaced'
  <2>1. \A v : OnItsWay(v) => v = request[c].val
    BY <1>1 DEF OnItsWay, PutsAreFresh
  <2>2. \A k \in DOMAIN plainSpace : plainSpace[k].val # request[c].val
    BY <1>3 DEF Fresh, Plain!Contents
  <2> QED
    BY <1>1, <1>3, <2>1, <2>2 DEF ContentsArePlaced, Plain!Contents
<1>10. WaitersStand'
  BY <1>1, <1>2, <1>4, <1>5 DEF WaitersStand
<1> QED
  BY <1>6, <1>7, <1>8, <1>9, <1>10 DEF PlainInv

\* Who calls on a handler that has ended is told so.
LEMMA UnservedKept ==
  ASSUME PlainInv, NEW c \in Askers, Plain!Unserved(c)
  PROVE  PlainInv'
<1>1. ~up' /\ UNCHANGED <<up, plainSpace, plainQueue, fenced, round, asking, contents, takers>> /\ Plain!Freed({c})
  BY DEF Plain!Unserved
<1>2. CASE request[c].op # "PUT"
  <2>1. {c} \in SUBSET Askers /\ \A x \in {c} : request[x].op # "PUT"
    BY <1>2
  <2>2. CallsChange
    BY <1>1, <2>1, FreedChange
  <2>3. WaitersStand' /\ round \in RoundSet
    BY <1>1 DEF WaitersStand, PlainInv, PlainTypes
  <2> QED
    BY <1>1, <1>2, <2>2, <2>3, QuietCalls DEF Plain!Unserved
<1>3. CASE request[c].op = "PUT"
  BY <1>1, <1>3, LostKept DEF Plain!Unserved
<1> QED
  BY <1>2, <1>3
\* Steps that free a client, or no one, and touch neither list.
LEMMA FreeingKept ==
  ASSUME PlainInv, NEW freed \in SUBSET Askers, \A x \in freed : request[x].op # "PUT", Plain!Freed(freed),
         round' \in RoundSet, ToSet(round.tid_q) \cup round.left \subseteq ToSet(round'.tid_q) \cup round'.left,
         UNCHANGED <<up, plainSpace, plainQueue, takers, lostContents, contents, asking>>
  PROVE  PlainInv'
<1>1. CallsChange /\ \A x \in Askers : request'[x].at = "waits" => request[x].at = "waits" /\ x \notin freed
  BY FreedChange
<1>2. WaitersStand /\ asking \subseteq Askers
  BY DEF PlainInv, PlainTypes
<1>3. \A x : (\E k \in DOMAIN round.tid_q : round.tid_q[k] = x) \/ x \in round.left
             => (\E k \in DOMAIN round'.tid_q : round'.tid_q[k] = x) \/ x \in round'.left
  BY DEF ToSet
<1>4. WaitersStand'
  BY <1>1, <1>2, <1>3 DEF WaitersStand
<1> QED
  BY <1>1, <1>4, QuietCalls

\* The handler ends, or the list is emptied.
LEMMA EndsKept ==
  ASSUME PlainInv, NEW freed \in SUBSET Askers, \A x \in freed : request[x].op # "PUT",
         Plain!Freed(freed) \/ UNCHANGED request, Plain!Ends, round' \in RoundSet, UNCHANGED <<takers, contents, asking>>
  PROVE  PlainInv'
<1>1. CallsChange
  <2>1. CASE Plain!Freed(freed)
    BY <2>1, FreedChange
  <2>2. CASE UNCHANGED request
    BY <2>2 DEF CallsChange, PlainInv, PlainTypes, PutsAreFresh
  <2> QED
    BY <2>1, <2>2
<1>2. WaitersStand'
  BY DEF Plain!Ends, WaitersStand
<1> QED
  BY <1>1, <1>2, EmptiedCalls DEF Plain!Ends

\* OpRmAll: nothing is left that could match.
LEMMA RmAllKept ==
  ASSUME PlainInv, NEW c \in Askers, Plain!OpRmAll(c)
  PROVE  PlainInv'
<1>1. /\ {c} \in SUBSET Askers /\ \A x \in {c} : request[x].op # "PUT" /\ Plain!Freed({c})
      /\ UNCHANGED <<up, plainQueue, fenced, round, asking, contents, calls, takers>>
  BY DEF Plain!OpRmAll, Plain!Serves
<1>2. CallsChange /\ \A x \in Askers : request'[x].at = "waits" => request[x].at = "waits" /\ x \notin {c}
  BY <1>1, FreedChange
<1>3. WaitersStand /\ asking \subseteq Askers /\ round \in RoundSet
  BY DEF PlainInv, PlainTypes
<1>4. WaitersStand'
  BY <1>1, <1>2, <1>3 DEF WaitersStand
<1> QED
  BY <1>1, <1>2, <1>3, <1>4, EmptiedCalls DEF Plain!OpRmAll

\* The task map.
LEMMA RoundKept ==
  ASSUME PlainInv, NEW c \in Askers, Plain!OpTshSot(c) \/ Plain!OpTshEot(c) \/ Plain!OpGethostInfo(c)
  PROVE  PlainInv'
<1>1. round \in RoundSet /\ round.tid_q \in Seq(Askers \ {Director}) /\ asking \subseteq Askers
  BY DEF PlainInv, PlainTypes, RoundSet
<1>2. \A k \in DOMAIN round.tid_q : round.tid_q[k] \in Askers \ {Director}
  BY <1>1
<1>3. \A x \in Askers : request[x].op = "PUT" => x = Director
  BY DEF PlainInv, PutsAreFresh
<1>4. ToSet(round.tid_q) \subseteq Askers
  BY <1>2 DEF ToSet
<1>5. CASE Plain!OpTshSot(c)
  <2>1. {c} \in SUBSET Askers /\ \A x \in {c} : request[x].op # "PUT"
    BY <1>5 DEF Plain!OpTshSot, Plain!Serves
  <2>2. round' = [EOT |-> FALSE, TIDS |-> 0, tid_q |-> <<>>, left |-> round.left \cup ToSet(round.tid_q)]
    BY <1>5, PlainLists DEF Plain!OpTshSot, Plain!NoRound
  <2>3. round' \in RoundSet
    BY <1>1, <1>4, <2>2 DEF RoundSet
  <2>4. round'.left = round.left \cup ToSet(round.tid_q)
    BY <2>2
  <2> QED
    BY <1>5, <2>1, <2>3, <2>4, FreeingKept DEF Plain!OpTshSot
<1>6. CASE Plain!OpTshEot(c)
  <2>1. round' \in RoundSet /\ round'.tid_q = round.tid_q /\ round'.left = round.left
    <3>1. request[c].val \in Nat
      BY DEF PlainInv, PlainTypes, RequestSet
    <3> QED
      BY <1>1, <1>6, <3>1 DEF Plain!OpTshEot, RoundSet
  <2> DEFINE told == {round.tid_q[k] : k \in Plain!send_tidinfo}
  <2>2. Plain!send_tidinfo \subseteq DOMAIN round.tid_q
    BY DEF Plain!send_tidinfo
  <2>3. {c} \in SUBSET Askers /\ ({c} \cup told) \in SUBSET Askers
    BY <1>2, <2>2
  <2>4. \A x \in {c} \cup told : request[x].op # "PUT"
    <3>1. \A x \in told : x \in Askers \ {Director}
      BY <1>2, <2>2
    <3>2. request[c].op # "PUT"
      BY <1>6 DEF Plain!OpTshEot, Plain!Serves
    <3> HIDE DEF told
    <3> QED
      BY <1>3, <3>1, <3>2
  <2>5. (Plain!Freed({c} \cup told) \/ Plain!Freed({c})) /\ UNCHANGED <<fenced, asking, contents, calls, takers>>
    BY <1>6 DEF Plain!OpTshEot
  <2>6. Plain!Ends \/ UNCHANGED <<up, plainSpace, plainQueue, lostContents>>
    BY <1>6 DEF Plain!OpTshEot
  <2> HIDE DEF told
  <2>7. \A x \in {c} : request[x].op # "PUT"
    BY <2>4
  <2>8. CASE Plain!Ends
    BY <2>1, <2>3, <2>4, <2>5, <2>7, <2>8, EndsKept
  <2>9. CASE UNCHANGED <<up, plainSpace, plainQueue, lostContents>>
    BY <2>1, <2>3, <2>4, <2>5, <2>7, <2>9, FreeingKept
  <2> QED
    BY <2>6, <2>8, <2>9
<1>7. CASE Plain!OpGethostInfo(c)
  <2>1. request[c].op = "GTS" /\ c # Director /\ UNCHANGED <<up, plainSpace, plainQueue, fenced, asking, contents, takers, lostContents>>
    BY <1>7 DEF Plain!OpGethostInfo, Plain!Serves, PlainInv, PutsAreFresh
  <2>2. CASE c \in asking
    <3>1. round' = [round EXCEPT !.tid_q = <<c>> \o @] /\ Plain!Waits(c)
      BY <1>7, <2>2 DEF Plain!OpGethostInfo
    <3>2. PICK q \in Seq(Askers \ {Director}) : q = <<c>> \o round.tid_q
      <4>1. <<c>> \in Seq(Askers \ {Director})
        BY <2>1
      <4>2. <<c>> \o round.tid_q \in Seq(Askers \ {Director})
        BY <1>1, <4>1, ConcatProperties
      <4> QED
        BY <4>2
    <3>3. q[1] = c /\ 1 \in DOMAIN q /\ \A k \in DOMAIN round.tid_q : k + 1 \in DOMAIN q /\ q[k + 1] = round.tid_q[k]
      BY <1>1, <2>1, <3>2
    <3>4. round' \in RoundSet /\ round'.tid_q = q /\ round'.left = round.left
      BY <1>1, <3>1, <3>2 DEF RoundSet
    <3>5. CallsChange /\ \A x \in Askers : request'[x].at = "waits" => request[x].at = "waits" \/ x = c
      BY <2>1, <3>1, WaitsChange
    <3>6. WaitersStand
      BY DEF PlainInv
    <3>7. WaitersStand'
      BY <1>1, <2>1, <3>3, <3>4, <3>5, <3>6 DEF WaitersStand
    <3> QED
      BY <2>1, <3>4, <3>5, <3>7, QuietCalls
  <2>3. CASE c \notin asking
    <3>1. Plain!Freed({c}) /\ round' = round /\ {c} \in SUBSET Askers /\ \A x \in {c} : request[x].op # "PUT"
      BY <1>7, <2>1, <2>3 DEF Plain!OpGethostInfo
    <3> QED
      BY <1>1, <2>1, <3>1, FreeingKept
  <2> QED
    BY <2>2, <2>3
<1> QED
  BY <1>5, <1>6, <1>7

\* What a search of the list finds, and that it finds what is there.
LEMMA PlainFound ==
  ASSUME PlainInv, NEW names
  PROVE  /\ \A k \in Plain!findTuple(names) : k \in DOMAIN plainSpace /\ plainSpace[k].name \in names
         /\ Plain!findTuple(names) = {} => \A k \in DOMAIN plainSpace : plainSpace[k].name \notin names
<1>1. plainSpace \in Seq(TupleSet)
  BY DEF PlainInv, PlainTypes
<1>2. DOMAIN plainSpace = 1 .. Len(plainSpace) /\ Len(plainSpace) \in Nat
  BY <1>1
<1>3. ASSUME NEW k \in DOMAIN plainSpace, plainSpace[k].name \in names
      PROVE  Plain!findTuple(names) # {}
  <2> DEFINE hits == {j \in DOMAIN plainSpace : plainSpace[j].name \in names}
  <2>1. hits \subseteq Nat /\ hits # {}
    BY <1>2, <1>3
  <2>2. PICK f \in hits : \A g \in hits : f <= g
    BY <2>1, LeastIn
  <2>3. f \in Nat
    BY <2>1
  <2>4. ASSUME NEW j \in 1 .. f - 1 PROVE plainSpace[j].name \notin names
    <3>1. j \in DOMAIN plainSpace /\ ~(f <= j)
      BY <1>2, <2>2, <2>3
    <3> QED
      BY <2>2, <3>1
  <2>5. f \in Plain!findTuple(names)
    BY <2>2, <2>4 DEF Plain!findTuple
  <2> QED
    BY <2>5
<1>4. \A k \in Plain!findTuple(names) : k \in DOMAIN plainSpace /\ plainSpace[k].name \in names
  BY DEF Plain!findTuple
<1> QED
  BY <1>3, <1>4

\* A tuple is given to a GET.
LEMMA GivenKept ==
  ASSUME PlainInv, NEW c \in Askers, request[c].op = "GET", NEW k \in DOMAIN plainSpace,
         plainSpace' = RemoveAt(plainSpace, k), takers' = [takers EXCEPT ![plainSpace[k].val] = @ \cup {c}],
         Plain!Freed({c}), UNCHANGED <<up, plainQueue, round, asking, contents, lostContents>>
  PROVE  PlainInv'
<1>1. /\ plainSpace \in Seq(TupleSet) /\ TuplesDiffer /\ PutsAreFresh /\ ContentsArePlaced
      /\ NoMatchWaits /\ WaitersStand /\ PlainTypes
  BY DEF PlainInv, PlainTypes
<1>2. /\ plainSpace' \in Seq(TupleSet) /\ Len(plainSpace') = Len(plainSpace) - 1
      /\ DOMAIN plainSpace' = 1 .. Len(plainSpace) - 1
      /\ \A i \in 1 .. Len(plainSpace) - 1 : plainSpace'[i] = IF i < k THEN plainSpace[i] ELSE plainSpace[i + 1]
  BY <1>1, RemoveAtProperties
<1>3. Len(plainSpace) \in Nat /\ DOMAIN plainSpace = 1 .. Len(plainSpace) /\ k \in 1 .. Len(plainSpace)
  BY <1>1
<1> DEFINE old(i) == IF i < k THEN i ELSE i + 1
<1>4. /\ \A i \in DOMAIN plainSpace' : old(i) \in DOMAIN plainSpace /\ old(i) # k /\ plainSpace'[i] = plainSpace[old(i)]
      /\ \A i, j \in DOMAIN plainSpace' : i # j => old(i) # old(j)
      /\ \A j \in DOMAIN plainSpace : j # k => \E i \in DOMAIN plainSpace' : plainSpace'[i] = plainSpace[j]
  <2>1. \A i \in DOMAIN plainSpace' : old(i) \in DOMAIN plainSpace /\ old(i) # k /\ plainSpace'[i] = plainSpace[old(i)]
    BY <1>2, <1>3
  <2>2. \A i, j \in DOMAIN plainSpace' : i # j => old(i) # old(j)
    BY <1>2, <1>3
  <2>3. ASSUME NEW j \in DOMAIN plainSpace, j # k
        PROVE  \E i \in DOMAIN plainSpace' : plainSpace'[i] = plainSpace[j]
    <3>1. CASE j < k
      <4>1. j \in DOMAIN plainSpace' /\ plainSpace'[j] = plainSpace[j]
        BY <1>2, <1>3, <3>1
      <4> QED
        BY <4>1
    <3>2. CASE ~(j < k)
      <4>1. PICK i \in 1 .. Len(plainSpace) - 1 : i + 1 = j /\ ~(i < k)
        <5>1. j - 1 \in 1 .. Len(plainSpace) - 1 /\ (j - 1) + 1 = j /\ ~(j - 1 < k)
          BY <1>3, <2>3, <3>2
        <5> QED
          BY <5>1
      <4> QED
        BY <1>2, <4>1
    <3> QED
      BY <3>1, <3>2
  <2> QED
    BY <2>1, <2>2, <2>3
<1> HIDE DEF old
<1>5. PICK v \in 1 .. MaxContents : v = plainSpace[k].val
  BY TuplesTyped
<1>6. takers' = [takers EXCEPT ![v] = @ \cup {c}] /\ takers[v] = {} /\ v \in 1 .. contents /\ takers \in [1 .. MaxContents -> SUBSET Askers]
  BY <1>1, <1>5, TuplesTyped DEF ContentsArePlaced, PlainTypes
<1>7. takers'[v] = {c} /\ \A u \in 1 .. MaxContents : u # v => takers'[u] = takers[u]
  BY <1>6
<1>8. {c} \in SUBSET Askers /\ \A x \in {c} : request[x].op # "PUT"
  OBVIOUS
<1>9. CallsChange /\ \A x \in Askers : request'[x].at = "waits" => request[x].at = "waits" /\ x \notin {c}
  BY <1>8, FreedChange
<1>10. PlainTypes'
  <2>1. TupleSet' = TupleSet
    BY DEF TupleSet
  <2>2. takers' \in [1 .. MaxContents -> SUBSET Askers]
    BY <1>6
  <2> QED
    BY <1>1, <1>2, <1>9, <2>1, <2>2 DEF PlainTypes, CallsChange
<1>11. TuplesDiffer' /\ NoMatchWaits'
  BY <1>1, <1>4 DEF TuplesDiffer, NoMatchWaits
<1>12. \A u : u \in Plain!Contents(plainSpace)' => u \in Plain!Contents(plainSpace) /\ u # v
  BY <1>1, <1>4, <1>5 DEF Plain!Contents, TuplesDiffer
<1>13. \A u : u \in Plain!Contents(plainSpace) => u \in Plain!Contents(plainSpace)' \/ u = v
  BY <1>4, <1>5 DEF Plain!Contents
<1>14. v \in Plain!Contents(plainSpace)
  BY <1>5 DEF Plain!Contents
<1>15. PutsAreFresh'
  <2>1. ASSUME NEW u \in 1 .. contents, Fresh(u) PROVE Fresh(u)'
    <3>1. u # v /\ u \in 1 .. MaxContents
      BY <1>14, <2>1, PlainAssumption, <1>1 DEF Fresh, PlainTypes
    <3> QED
      BY <1>7, <1>12, <2>1, <3>1 DEF Fresh
  <2> QED
    BY <1>1, <1>9, <2>1 DEF PutsAreFresh, CallsChange
<1>16. ContentsArePlaced'
  <2>1. \A u : OnItsWay(u) => OnItsWay(u)'
    BY <1>9 DEF OnItsWay, CallsChange
  <2>2. \A u \in 1 .. MaxContents : takers'[u] = {} \/ \E x \in Askers : takers'[u] = {x}
    BY <1>1, <1>7 DEF ContentsArePlaced
  <2>3. \A u \in 1 .. MaxContents : u > contents => takers'[u] = {}
    BY <1>1, <1>6, <1>7 DEF ContentsArePlaced, PlainTypes
  <2>4. ASSUME NEW i \in DOMAIN plainSpace' PROVE takers'[plainSpace'[i].val] = {} /\ plainSpace'[i].val \notin lostContents
    <3>1. old(i) \in DOMAIN plainSpace /\ old(i) # k /\ plainSpace'[i] = plainSpace[old(i)]
      BY <1>4
    <3>2. plainSpace'[i].val # v /\ plainSpace'[i].val \in 1 .. MaxContents
      BY <1>1, <1>5, <3>1, TuplesTyped DEF TuplesDiffer
    <3> QED
      BY <1>1, <1>7, <3>1, <3>2 DEF ContentsArePlaced
  <2>5. ASSUME NEW u \in 1 .. contents
        PROVE  u \in Plain!Contents(plainSpace)' \/ takers'[u] # {} \/ u \in lostContents \/ OnItsWay(u)'
    <3>1. u \in 1 .. MaxContents
      BY PlainAssumption, <1>1 DEF PlainTypes
    <3> QED
      BY <1>1, <1>7, <1>13, <2>1, <3>1 DEF ContentsArePlaced
  <2> QED
    BY <2>2, <2>3, <2>4, <2>5 DEF ContentsArePlaced
<1>17. WaitersStand'
  <2>1. asking \subseteq Askers
    BY <1>1 DEF PlainTypes
  <2> QED
    BY <1>1, <1>9, <2>1 DEF WaitersStand
<1> QED
  BY <1>10, <1>11, <1>15, <1>16, <1>17 DEF PlainInv

\* OpGet and OpRead: the first tuple that matches, or else nothing in the list does.
LEMMA GetKept ==
  ASSUME PlainInv, NEW c \in Askers, Plain!OpGet(c)
  PROVE  PlainInv'
<1> DEFINE op == request[c].op
           found == Plain!findTuple(request[c].names)
<1>1. /\ op \in {"GET", "READ"} /\ c # Director /\ UNCHANGED <<fenced, round, asking, contents, calls>>
      /\ request[c].names \in (SUBSET Names) \cup Expressions
      /\ round \in RoundSet /\ asking \subseteq Askers /\ request \in [Askers -> RequestSet]
  BY DEF Plain!OpGet, Plain!Serves, PlainInv, PlainTypes, PutsAreFresh, RequestSet
<1>2. {c} \in SUBSET Askers /\ \A x \in {c} : request[x].op # "PUT"
  BY <1>1
<1>3. CASE Plain!Freed({c}) /\ UNCHANGED <<up, plainSpace, plainQueue, takers, lostContents>>
  BY <1>1, <1>2, <1>3, FreeingKept
<1>4. CASE /\ found = {} /\ plainQueue' = Append(plainQueue, [by |-> c, names |-> request[c].names, op |-> op])
           /\ Plain!Waits(c) /\ UNCHANGED <<up, plainSpace, takers, lostContents>>
  <2>1. PICK q \in QueuedSet : q = [by |-> c, names |-> request[c].names, op |-> op]
    BY <1>1 DEF QueuedSet
  <2>2. q.by = c /\ q.names = request[c].names
    BY <2>1
  <2>3. plainQueue \in Seq(QueuedSet) /\ plainQueue' = Append(plainQueue, q)
    BY <1>4, <2>1 DEF PlainInv, PlainTypes
  <2>4. /\ plainQueue' \in Seq(QueuedSet) /\ Len(plainQueue') = Len(plainQueue) + 1
        /\ \A k \in DOMAIN plainQueue' : (k \in DOMAIN plainQueue /\ plainQueue'[k] = plainQueue[k]) \/ plainQueue'[k] = q
        /\ \A k \in DOMAIN plainQueue : k \in DOMAIN plainQueue' /\ plainQueue'[k] = plainQueue[k]
        /\ Len(plainQueue') \in DOMAIN plainQueue' /\ plainQueue'[Len(plainQueue')] = q
    BY <2>3
  <2>5. CallsChange /\ \A x \in Askers : request'[x].at = "waits" => request[x].at = "waits" \/ x = c
    BY <1>1, <1>4, WaitsChange
  <2>6. PlainTypes'
    BY <1>1, <1>4, <2>4, <2>5 DEF PlainInv, PlainTypes, CallsChange, TupleSet
  <2>7. TuplesDiffer'
    BY <1>4 DEF PlainInv, TuplesDiffer
  <2>8. PutsAreFresh'
    <3>1. \A v : Fresh(v) => Fresh(v)'
      BY <1>4 DEF Fresh, Plain!Contents
    <3>2. PutsAreFresh
      BY DEF PlainInv
    <3>3. contents' = contents
      BY <1>1
    <3> HIDE DEF op, found
    <3> QED
      BY <2>5, <3>1, <3>2, <3>3 DEF PutsAreFresh, CallsChange
  <2>9. ContentsArePlaced'
    <3>1. \A v : OnItsWay(v) => OnItsWay(v)'
      BY <2>5 DEF OnItsWay, CallsChange
    <3> QED
      BY <1>1, <1>4, <3>1 DEF PlainInv, ContentsArePlaced, Plain!Contents
  <2>10. NoMatchWaits'
    <3>1. \A k \in DOMAIN plainSpace : plainSpace[k].name \notin q.names
      BY <1>4, <2>2, PlainFound
    <3>2. NoMatchWaits
      BY DEF PlainInv
    <3> QED
      BY <1>4, <2>4, <3>1, <3>2 DEF NoMatchWaits
  <2>11. WaitersStand'
    <3>1. WaitersStand
      BY DEF PlainInv
    <3>2. \A x : (\E k \in DOMAIN plainQueue : plainQueue[k].by = x) \/ x = c
                 => \E k \in DOMAIN plainQueue' : plainQueue'[k].by = x
      BY <2>2, <2>4
    <3> QED
      BY <1>1, <1>4, <2>5, <3>1, <3>2 DEF WaitersStand
  <2> QED
    BY <2>6, <2>7, <2>8, <2>9, <2>10, <2>11 DEF PlainInv
<1>5. ASSUME NEW k \in found, Plain!Freed({c}), UNCHANGED <<up, plainQueue, lostContents>>,
             plainSpace' = IF op = "GET" THEN Plain!deleteTuple(k) ELSE plainSpace,
             takers' = IF op = "GET" THEN [takers EXCEPT ![plainSpace[k].val] = @ \cup {c}] ELSE takers
      PROVE  PlainInv'
  <2>1. k \in DOMAIN plainSpace
    BY PlainFound
  <2>2. CASE op = "GET"
    <3>1. plainSpace' = RemoveAt(plainSpace, k)
      BY <1>5, <2>2, PlainLists DEF Plain!deleteTuple
    <3> QED
      BY <1>1, <1>5, <2>1, <2>2, <3>1, GivenKept
  <2>3. CASE op = "READ"
    BY <1>1, <1>2, <1>5, <2>3, FreeingKept
  <2> QED
    BY <1>1, <2>2, <2>3
<1>6. CASE Plain!Ends /\ Plain!Freed({c}) /\ UNCHANGED takers
  BY <1>1, <1>2, <1>6, EndsKept
<1> QED
  BY <1>3, <1>4, <1>5, <1>6 DEF Plain!OpGet

\* Whom a tuple that is put is sent to: all whose requests match, unless a GET takes it, and
\* no more than one GET.
LEMMA PlainMet ==
  ASSUME PlainInv, NEW n
  PROVE  LET met == Plain!consumeTuple(n)
             takes == {j \in met : Plain!Takes(j)} IN
         /\ met \subseteq DOMAIN plainQueue
         /\ takes = {} => \A k \in DOMAIN plainQueue : n \in plainQueue[k].names => k \in met
         /\ \A j, k \in takes : j = k
<1>1. plainQueue \in Seq(QueuedSet)
  BY DEF PlainInv, PlainTypes
<1>2. DOMAIN plainQueue \subseteq Nat
  BY <1>1
<1> DEFINE req == Plain!findRequest(n)
           getters == {j \in req : Plain!Takes(j)}
           met == Plain!consumeTuple(n)
<1>3. req \subseteq DOMAIN plainQueue /\ \A k \in DOMAIN plainQueue : n \in plainQueue[k].names => k \in req
  BY DEF Plain!findRequest
<1>4. \A k : k \in met <=> k \in req /\ \A j \in getters : k <= j
  BY DEF Plain!consumeTuple
<1> HIDE DEF met
<1>5. met \subseteq req
  BY <1>4
<1>6. ASSUME {j \in met : Plain!Takes(j)} = {} PROVE req \subseteq met
  <2>1. getters = {}
    <3>1. SUFFICES ASSUME getters # {} PROVE FALSE
      OBVIOUS
    <3>2. getters \subseteq Nat
      BY <1>2, <1>3
    <3>3. PICK j \in getters : \A k \in getters : j <= k
      BY <3>1, <3>2, LeastIn
    <3> QED
      BY <1>4, <1>6, <3>3
  <2> QED
    BY <1>4, <2>1
<1>7. ASSUME NEW j \in met, NEW k \in met, Plain!Takes(j), Plain!Takes(k) PROVE j = k
  <2>1. j \in getters /\ k \in getters
    BY <1>5, <1>7
  <2>2. j <= k /\ k <= j /\ j \in Nat /\ k \in Nat
    BY <1>2, <1>3, <1>4, <1>5, <2>1
  <2> QED
    BY <2>2
<1> QED
  BY <1>3, <1>5, <1>6, <1>7 DEF met


\* A tuple that is put is stored once, over the one of its name.
LEMMA StoreElements ==
  ASSUME PlainInv, NEW t \in TupleSet
  PROVE  LET stored == Plain!storeTuple(t) IN
         /\ stored \in Seq(TupleSet)
         /\ \A k \in DOMAIN stored :
              stored[k] = t \/ (k \in DOMAIN plainSpace /\ stored[k] = plainSpace[k] /\ plainSpace[k].name # t.name)
         /\ \E k \in DOMAIN stored : stored[k] = t
         /\ \A k, l \in DOMAIN stored : stored[k] = t /\ stored[l] = t /\ k # l
              => \E j \in DOMAIN plainSpace : plainSpace[j] = t
<1> DEFINE same == {k \in DOMAIN plainSpace : plainSpace[k].name = t.name}
           stored == Plain!storeTuple(t)
<1>1. plainSpace \in Seq(TupleSet) /\ \A k, l \in same : k = l
  BY DEF PlainInv, PlainTypes, TuplesDiffer
<1>2. Len(plainSpace) \in Nat /\ DOMAIN plainSpace = 1 .. Len(plainSpace) /\ \A k \in DOMAIN plainSpace : plainSpace[k] \in TupleSet
  BY <1>1
<1>3. CASE same = {}
  <2>1. stored = Append(plainSpace, t)
    BY <1>3 DEF Plain!storeTuple
  <2> HIDE DEF stored
  <2>2. /\ stored \in Seq(TupleSet) /\ DOMAIN stored = 1 .. Len(plainSpace) + 1
        /\ \A k \in DOMAIN plainSpace : stored[k] = plainSpace[k]
        /\ stored[Len(plainSpace) + 1] = t
    BY <1>1, <1>2, <2>1
  <2>3. \A k \in DOMAIN stored : k \in DOMAIN plainSpace \/ k = Len(plainSpace) + 1
    BY <1>2, <2>2
  <2>4. \A k \in DOMAIN plainSpace : plainSpace[k].name # t.name
    BY <1>3
  <2> QED
    BY <1>2, <2>2, <2>3, <2>4 DEF stored
<1>4. CASE same # {}
  <2>1. stored = [k \in DOMAIN plainSpace |-> IF k \in same THEN t ELSE plainSpace[k]]
    BY <1>4 DEF Plain!storeTuple
  <2> HIDE DEF stored
  <2>2. DOMAIN stored = DOMAIN plainSpace
    BY <2>1
  <2>3. \A k \in DOMAIN plainSpace : stored[k] = IF k \in same THEN t ELSE plainSpace[k]
    BY <2>1
  <2>4. stored \in [1 .. Len(plainSpace) -> TupleSet]
    BY <1>2, <2>1
  <2>5. stored \in Seq(TupleSet)
    BY <1>2, <2>4
  <2>6. PICK i \in DOMAIN plainSpace : i \in same
    BY <1>4
  <2> QED
    BY <1>1, <2>2, <2>3, <2>5, <2>6 DEF stored
<1> QED
  BY <1>3, <1>4

\* A tuple t is sent to those at the positions met, and if none of them takes it, it is stored.
LEMMA PutSent ==
  ASSUME PlainInv, NEW c \in Askers, NEW t \in TupleSet, NEW met \in SUBSET DOMAIN plainQueue,
         NEW whom \in SUBSET Askers, \A x, y \in whom : x = y,
         request[c].op = "PUT", t.val = request[c].val,
         Plain!Freed({c} \cup {plainQueue[k].by : k \in met}), plainQueue' = Plain!deleteRequests(met),
         takers' = [takers EXCEPT ![t.val] = @ \cup whom],
         plainSpace' = IF whom # {} THEN plainSpace ELSE Plain!storeTuple(t),
         lostContents' = lostContents \cup (Plain!Contents(plainSpace) \ Plain!Contents(plainSpace')),
         whom = {} => \A k \in DOMAIN plainQueue : t.name \in plainQueue[k].names => k \in met,
         UNCHANGED <<up, round, asking, contents>>
  PROVE  PlainInv'
<1> DEFINE left == {j \in DOMAIN plainQueue : \A k \in met : plainQueue[k].by # plainQueue[j].by}
           freed == {c} \cup {plainQueue[k].by : k \in met}
<1>1. PlainTypes /\ TuplesDiffer /\ PutsAreFresh /\ ContentsArePlaced /\ NoMatchWaits /\ WaitersStand
  BY DEF PlainInv
<1>2. request \in [Askers -> RequestSet] /\ plainQueue \in Seq(QueuedSet) /\ asking \subseteq Askers
      /\ takers \in [1 .. MaxContents -> SUBSET Askers] /\ contents \in 0 .. MaxContents
  BY <1>1 DEF PlainTypes
<1>3. t.name \in Names /\ t.val \in 1 .. contents /\ t.val \in 1 .. MaxContents /\ Fresh(t.val) /\ c = Director
  <2>1. t.name \in Names /\ t.val \in 1 .. contents
    BY DEF TupleSet
  <2> QED
    BY <1>1, <1>2, <2>1, PlainAssumption DEF PutsAreFresh
<1>4. \A u \in 1 .. contents : u \in 1 .. MaxContents
  BY <1>2, PlainAssumption
\* The calls: none puts any more.
<1>5. \A x \in Askers : request'[x] = IF x \in freed THEN Plain!NoCall ELSE request[x]
  BY DEF Plain!Freed
<1>6. Plain!NoCall \in RequestSet /\ Plain!NoCall.op = "NONE" /\ Plain!NoCall.at = "free"
  BY DEF Plain!NoCall, RequestSet
<1>7. request' \in [Askers -> RequestSet]
  BY <1>2, <1>6 DEF Plain!Freed
<1>8. \A x \in Askers : request'[x].op # "PUT"
  BY <1>1, <1>3, <1>5, <1>6 DEF PutsAreFresh
<1>9. PutsAreFresh'
  <2>1. \A x \in Askers : request[x].op \in {"GET", "READ", "GTS"} => x # Director
    BY <1>1 DEF PutsAreFresh
  <2>2. \A x \in Askers : request'[x].op \in {"GET", "READ", "GTS"} => x # Director
    BY <1>5, <1>6, <2>1
  <2> QED
    BY <1>8, <2>2 DEF PutsAreFresh
<1>10. \A u : OnItsWay(u) => u = t.val
  BY <1>1, <1>3 DEF OnItsWay, PutsAreFresh
\* The queue.
<1>11. plainQueue' = Sublist(plainQueue, left) /\ left \in SUBSET DOMAIN plainQueue
  BY PlainLists DEF Plain!deleteRequests
<1>12. /\ plainQueue' \in Seq(QueuedSet)
       /\ \A x : x \in ToSet(plainQueue') <=> \E k \in left : x = plainQueue[k]
  BY <1>2, <1>11, SublistElements
<1>13. /\ \A m \in DOMAIN plainQueue' : \E k \in left : plainQueue'[m] = plainQueue[k]
       /\ \A k \in left : \E m \in DOMAIN plainQueue' : plainQueue'[m] = plainQueue[k]
  <2>1. PICK q : q = plainQueue'
    OBVIOUS
  <2>2. \A x : x \in ToSet(q) <=> \E k \in left : x = plainQueue[k]
    BY <1>12, <2>1
  <2> HIDE DEF left
  <2>3. /\ \A m \in DOMAIN q : \E k \in left : q[m] = plainQueue[k]
        /\ \A k \in left : \E m \in DOMAIN q : q[m] = plainQueue[k]
    BY <2>2 DEF ToSet
  <2> QED
    BY <2>1, <2>3
<1>14. \A k \in left : k \in DOMAIN plainQueue /\ k \notin met
  OBVIOUS
<1>15. WaitersStand'
  <2>1. ASSUME up, NEW x \in asking, request'[x].at = "waits"
        PROVE  (\E k \in DOMAIN plainQueue' : plainQueue'[k].by = x) \/ (\E k \in DOMAIN round.tid_q : round.tid_q[k] = x)
                 \/ x \in round.left
    <3>1. x \notin freed /\ request[x].at = "waits"
      BY <1>2, <1>5, <1>6, <2>1
    <3>2. ASSUME NEW k \in DOMAIN plainQueue, plainQueue[k].by = x
          PROVE  \E m \in DOMAIN plainQueue' : plainQueue'[m].by = x
      <4>1. k \in left
        BY <3>1, <3>2
      <4> QED
        BY <1>13, <3>2, <4>1
    <3> QED
      BY <1>1, <2>1, <3>1, <3>2 DEF WaitersStand
  <2> QED
    BY <2>1 DEF WaitersStand
\* Whom the tuple is given to.
<1>16. /\ takers' \in [1 .. MaxContents -> SUBSET Askers] /\ takers'[t.val] = whom
       /\ \A u \in 1 .. MaxContents : u # t.val => takers'[u] = takers[u]
  BY <1>2, <1>3 DEF Fresh
<1>17. /\ \A u \in 1 .. MaxContents : takers'[u] = {} \/ \E x \in Askers : takers'[u] = {x}
       /\ \A u \in 1 .. MaxContents : u > contents => takers'[u] = {}
  <2>1. whom = {} \/ \E x \in Askers : whom = {x}
    OBVIOUS
  <2>2. ~(t.val > contents)
    BY <1>2, <1>3
  <2> QED
    BY <1>1, <1>16, <2>1, <2>2 DEF ContentsArePlaced
<1> HIDE DEF left, freed
<1>18. CASE whom # {}
  <2>1. plainSpace' = plainSpace /\ lostContents' = lostContents
    BY <1>18
  <2>2. PlainTypes'
    BY <1>1, <1>7, <1>12, <1>16, <2>1 DEF PlainTypes, TupleSet
  <2>3. TuplesDiffer' /\ NoMatchWaits'
    BY <1>1, <1>13, <1>14, <2>1 DEF TuplesDiffer, NoMatchWaits
  <2>4. ContentsArePlaced'
    <3>1. \A k \in DOMAIN plainSpace : plainSpace[k].val # t.val /\ plainSpace[k].val \in 1 .. MaxContents
      BY <1>3, TuplesTyped DEF Fresh, Plain!Contents
    <3>2. \A k \in DOMAIN plainSpace' : takers'[plainSpace'[k].val] = {} /\ plainSpace'[k].val \notin lostContents'
      BY <1>1, <1>16, <2>1, <3>1 DEF ContentsArePlaced
    <3>3. Plain!Contents(plainSpace)' = Plain!Contents(plainSpace)
      BY <2>1 DEF Plain!Contents
    <3>4. ASSUME NEW u \in 1 .. contents
          PROVE  u \in Plain!Contents(plainSpace)' \/ takers'[u] # {} \/ u \in lostContents'
      BY <1>1, <1>4, <1>10, <1>16, <1>18, <2>1, <3>3, <3>4 DEF ContentsArePlaced
    <3> QED
      BY <1>17, <3>2, <3>4 DEF ContentsArePlaced
  <2> QED
    BY <1>9, <1>15, <2>2, <2>3, <2>4 DEF PlainInv
<1>19. CASE whom = {}
  <2>1. PICK stored : stored = Plain!storeTuple(t)
    OBVIOUS
  <2>2. plainSpace' = stored /\ takers' = takers
    <3>1. \A u \in 1 .. MaxContents : takers'[u] = takers[u]
      BY <1>2, <1>3, <1>16, <1>19 DEF Fresh
    <3> QED
      BY <1>2, <1>16, <1>19, <2>1, <3>1
  <2>3. /\ stored \in Seq(TupleSet)
        /\ \A k \in DOMAIN stored :
             stored[k] = t \/ (k \in DOMAIN plainSpace /\ stored[k] = plainSpace[k] /\ plainSpace[k].name # t.name)
        /\ \E k \in DOMAIN stored : stored[k] = t
        /\ \A k, l \in DOMAIN stored : stored[k] = t /\ stored[l] = t /\ k # l
             => \E j \in DOMAIN plainSpace : plainSpace[j] = t
    BY <2>1, StoreElements
  <2>4. \A k \in DOMAIN plainSpace : plainSpace[k].val # t.val /\ plainSpace[k] # t /\ plainSpace[k].val \in 1 .. contents
    BY <1>3, TuplesTyped DEF Fresh, Plain!Contents
  <2>5. \A k, l \in DOMAIN stored : k # l => stored[k].name # stored[l].name /\ stored[k].val # stored[l].val
    BY <1>1, <2>3, <2>4 DEF TuplesDiffer
  <2>6. Plain!Contents(plainSpace') = {stored[k].val : k \in DOMAIN stored}
    BY <2>2 DEF Plain!Contents
  <2>7. \A u : u \in Plain!Contents(plainSpace) <=> \E k \in DOMAIN plainSpace : plainSpace[k].val = u
    BY DEF Plain!Contents
  <2>8. PlainTypes'
    <3>1. lostContents' \subseteq 1 .. contents
      <4>1. \A u \in lostContents' : u \in lostContents \/ u \in Plain!Contents(plainSpace)
        OBVIOUS
      <4>2. lostContents \subseteq 1 .. contents
        BY <1>1 DEF PlainTypes
      <4>3. ASSUME NEW u \in lostContents' PROVE u \in 1 .. contents
        <5>1. CASE u \in lostContents
          BY <4>2, <5>1
        <5>2. CASE \E k \in DOMAIN plainSpace : plainSpace[k].val = u
          BY <2>4, <5>2
        <5> QED
          BY <2>7, <4>1, <5>1, <5>2
      <4> QED
        BY <4>3
    <3> QED
      BY <1>1, <1>7, <1>12, <1>16, <2>2, <2>3, <3>1 DEF PlainTypes, TupleSet
  <2>9. TuplesDiffer'
    BY <2>2, <2>5 DEF TuplesDiffer
  <2>10. NoMatchWaits'
    <3>1. \A k \in left : t.name \notin plainQueue[k].names
      BY <1>14, <1>19
    <3> QED
      BY <1>1, <1>13, <1>14, <2>2, <2>3, <3>1 DEF NoMatchWaits
  <2>11. ContentsArePlaced'
    <3>1. ASSUME NEW k \in DOMAIN stored
          PROVE  takers[stored[k].val] = {} /\ stored[k].val \notin lostContents
      BY <1>1, <1>3, <2>3 DEF ContentsArePlaced, Fresh
    <3>2. \A k \in DOMAIN stored : stored[k].val \in Plain!Contents(plainSpace')
      BY <2>6
    <3>3. \A k \in DOMAIN stored : takers'[stored[k].val] = {} /\ stored[k].val \notin lostContents'
      BY <2>2, <3>1, <3>2
    <3>4. t.val \in Plain!Contents(plainSpace')
      BY <2>3, <2>6
    <3>5. \A u \in 1 .. contents : u \in Plain!Contents(plainSpace') \/ takers'[u] # {} \/ u \in lostContents'
      BY <1>1, <1>10, <2>2, <3>4 DEF ContentsArePlaced
    <3>6. Plain!Contents(plainSpace') = Plain!Contents(plainSpace)'
      BY DEF Plain!Contents
    <3> QED
      BY <1>17, <2>2, <3>3, <3>5, <3>6 DEF ContentsArePlaced
  <2> QED
    BY <1>9, <1>15, <2>8, <2>9, <2>10, <2>11 DEF PlainInv
<1> QED
  BY <1>18, <1>19

\* A tuple that is put: those whose requests match have it in turn, and if none takes it, it
\* is stored.
LEMMA PutKept ==
  ASSUME PlainInv, NEW c \in Askers, Plain!OpPut(c)
  PROVE  PlainInv'
<1>1. PlainTypes /\ TuplesDiffer /\ PutsAreFresh /\ ContentsArePlaced /\ NoMatchWaits /\ WaitersStand
  BY DEF PlainInv
<1>2. /\ request[c].op = "PUT" /\ c = Director /\ up /\ request[c].val \in 1 .. contents /\ Fresh(request[c].val)
      /\ UNCHANGED <<up, fenced, round, asking, contents, calls>>
  BY <1>1 DEF Plain!OpPut, Plain!Serves, PutsAreFresh
<1>3. PICK n \in Names : request[c].names = {n}
  BY <1>1, <1>2 DEF PutsAreFresh
<1>4. PICK t \in TupleSet : t = [name |-> n, val |-> request[c].val]
  BY <1>2 DEF TupleSet
<1>5. t.name = n /\ t.val = request[c].val /\ t = [name |-> CHOOSE m \in request[c].names : TRUE, val |-> request[c].val]
  BY <1>3, <1>4
<1>6. CASE Plain!guardf(c)
  BY <1>2, <1>6, LostKept DEF Plain!OpPut
<1>7. ASSUME ~Plain!guardf(c) PROVE PlainInv'
  <2> DEFINE metOf == Plain!consumeTuple(n)
             takenBy == {plainQueue[k].by : k \in {j \in metOf : Plain!Takes(j)}}
  <2>1. /\ Plain!Freed({c} \cup {plainQueue[k].by : k \in metOf}) /\ plainQueue' = Plain!deleteRequests(metOf)
        /\ takers' = [takers EXCEPT ![t.val] = @ \cup takenBy]
        /\ plainSpace' = IF takenBy # {} THEN plainSpace ELSE Plain!storeTuple(t)
        /\ lostContents' = lostContents \cup (Plain!Contents(plainSpace) \ Plain!Contents(plainSpace'))
    BY <1>5, <1>7 DEF Plain!OpPut
  <2>2. /\ metOf \subseteq DOMAIN plainQueue
        /\ {j \in metOf : Plain!Takes(j)} = {} => \A k \in DOMAIN plainQueue : n \in plainQueue[k].names => k \in metOf
        /\ \A j, k \in {i \in metOf : Plain!Takes(i)} : j = k
    BY PlainMet
  <2>3. plainQueue \in Seq(QueuedSet) /\ \A k \in DOMAIN plainQueue : plainQueue[k] \in QueuedSet
    BY <1>1 DEF PlainTypes
  <2>4. takenBy \in SUBSET Askers /\ \A x, y \in takenBy : x = y
    BY <2>2, <2>3 DEF QueuedSet
  <2>5. takenBy = {} => {j \in metOf : Plain!Takes(j)} = {}
    OBVIOUS
  <2> HIDE DEF metOf, takenBy
  <2> QED
    BY <1>2, <1>5, <2>1, <2>2, <2>4, <2>5, PutSent
<1> QED
  BY <1>6, <1>7

\* Every step of the plain calls keeps it.
LEMMA PlainStep ==
  ASSUME PlainInv, [Plain!PlainNext]_plainVars
  PROVE  PlainInv'
<1>1. ASSUME NEW n \in Names, Plain!cnf_tsput(Director, n) PROVE PlainInv'
  BY <1>1, PutAsked
<1>2. CASE Plain!cnf_rmall(Director) \/ Plain!cnf_sot(Director) \/ Plain!cnf_eot(Director)
  <2>1. Director \in Askers
    BY <1>2 DEF Plain!cnf_rmall, Plain!cnf_sot, Plain!cnf_eot, Plain!Asks, PlainInv, PlainTypes
  <2>2. contents \in Nat /\ 0 \in Nat /\ {} \in (SUBSET Names) \cup Expressions
    BY DEF PlainInv, PlainTypes
  <2>3. PICK op \in {"RMALL", "SOT", "EOT"}, val \in Nat, wait \in BOOLEAN : Plain!Asks(Director, op, {}, val, wait) /\ UNCHANGED contents
    BY <1>2, <2>2 DEF Plain!cnf_rmall, Plain!cnf_sot, Plain!cnf_eot
  <2> QED
    BY <2>1, <2>2, <2>3, AskedKept
<1>3. ASSUME NEW c \in Askers \ {Director}, NEW e \in Expressions,
             Plain!cnf_tsget(c, e, TRUE) \/ Plain!cnf_tsget(c, e, FALSE) \/ Plain!cnf_tsread(c, e, TRUE)
      PROVE  PlainInv'
  <2>1. PICK op \in {"GET", "READ"}, wait \in BOOLEAN : Plain!Asks(c, op, e, 0, wait) /\ UNCHANGED contents
    BY <1>3 DEF Plain!cnf_tsget, Plain!cnf_tsread
  <2> QED
    BY <2>1, AskedKept
<1>4. ASSUME NEW c \in Askers \ {Director}, Plain!cnf_gts(c) PROVE PlainInv'
  BY <1>4, AskedKept DEF Plain!cnf_gts
<1>5. ASSUME NEW c \in Askers, Plain!OpPut(c) \/ Plain!OpGet(c) \/ Plain!OpRmAll(c) \/ Plain!Unserved(c) PROVE PlainInv'
  BY <1>5, PutKept, GetKept, RmAllKept, UnservedKept
<1>6. ASSUME NEW c \in Askers, Plain!OpTshSot(c) \/ Plain!OpTshEot(c) \/ Plain!OpGethostInfo(c) PROVE PlainInv'
  BY <1>6, RoundKept
<1>7. CASE UNCHANGED plainVars \/ \E c \in Askers : Plain!AskerDies(c) \/ Plain!OpRetrieve(c)
  <2>1. /\ asking' \subseteq asking
        /\ UNCHANGED <<up, plainSpace, plainQueue, round, request, takers, lostContents, contents>>
    BY <1>7 DEF Plain!AskerDies, Plain!OpRetrieve, plainVars
  <2>2. CallsChange /\ round' \in RoundSet
    BY <2>1 DEF CallsChange, PlainInv, PlainTypes, PutsAreFresh
  <2>3. WaitersStand'
    BY <2>1 DEF PlainInv, WaitersStand
  <2> QED
    BY <2>1, <2>2, <2>3, QuietCalls
<1>8. CASE Plain!OpExit
  <2>1. {} \in SUBSET Askers /\ round' \in RoundSet
    BY <1>8 DEF Plain!OpExit, PlainInv, PlainTypes
  <2> QED
    BY <1>8, <2>1, EndsKept DEF Plain!OpExit
<1> QED
  BY <1>1, <1>2, <1>3, <1>4, <1>5, <1>6, <1>7, <1>8 DEF Plain!PlainNext

-----------------------------------------------------------------------------
(* The direct tuple spaces of the CIDs.                                     *)

DirectTuples   == [name : Labels, val : Nat, site : Sites, pri : {0, 1}]
DirectRequests == [by : Tasks, expr : Labels \cup {AnyLabel}, op : {"GET", "READ"}]
TaskStates ==
  {Idle, Blocked, Dead} \cup [at : {"fetching"}, op : {"GET", "READ"}, site : Sites, name : Labels]
    \cup [at : {"scanning"}, name : Labels, left : SUBSET Sites]
DirectTypes ==
  /\ store \in [Sites -> Seq(DirectTuples)] /\ asked \in [Sites -> Seq(DirectRequests)]
  /\ task \in [Tasks -> TaskStates] /\ puts \in 0 .. MaxPuts /\ taken \in [1 .. MaxPuts -> {0, 1}]

Held(s) == ToSet(store[s])
LabelsDiffer == \A s \in Sites : \A x, y \in Held(s) : x.name = y.name => x = y
RealOnesAreUntaken == \A s \in Sites : \A x \in Held(s) : x.pri = 1 => x.val \in 1 .. puts /\ taken[x.val] = 0
ValuesDiffer ==
  \A s, u \in Sites : \A x \in Held(s), y \in Held(u) :
    x.pri = 1 /\ y.pri = 1 /\ x.val = y.val => s = u /\ x = y
LaterAreUntaken == \A v \in 1 .. MaxPuts : v > puts => taken[v] = 0

DirectInv ==
  /\ DirectTypes /\ LabelsDiffer /\ RealOnesAreUntaken /\ ValuesDiffer /\ LaterAreUntaken
  /\ NoWaitBesideMatch /\ PutsAccounted

\* At first no site holds anything, and nobody asks.
LEMMA DirectBegins ==
  ASSUME DirectInit
  PROVE  DirectInv
<1>1. \A s \in Sites : store[s] = <<>> /\ asked[s] = <<>>
  BY DEF DirectInit
<1>2. \A s \in Sites : Held(s) = {}
  BY <1>1 DEF Held, ToSet
<1>3. DirectTypes
  BY DirectAssumption DEF DirectInit, DirectTypes, TaskStates
<1>4. NoWaitBesideMatch
  BY <1>2 DEF NoWaitBesideMatch, Held
<1>5. LabelsDiffer /\ RealOnesAreUntaken /\ ValuesDiffer
  BY <1>2 DEF LabelsDiffer, RealOnesAreUntaken, ValuesDiffer
<1>6. LaterAreUntaken /\ PutsAccounted
  BY DEF DirectInit, LaterAreUntaken, PutsAccounted
<1> QED
  BY <1>3, <1>4, <1>5, <1>6 DEF DirectInv

\* What the operators on a list do to the set of its tuples.
LEMMA DirectFound ==
  ASSUME NEW l \in Seq(DirectTuples), NEW expr
  PROVE  /\ \A x \in findTuple(l, expr) : x \in ToSet(l) /\ x \in DirectTuples /\ matches(expr, x.name)
         /\ findTuple(l, expr) = {} => \A x \in ToSet(l) : ~matches(expr, x.name)
<1> DEFINE m == {k \in DOMAIN l : matches(expr, l[k].name)}
           h == {k \in m : \A j \in m : k <= j => l[j].pri = l[k].pri}
<1>1. findTuple(l, expr) = {l[k] : k \in {j \in h : \A i \in h : j <= i}}
  BY DEF findTuple
<1>2. DOMAIN l \subseteq Nat /\ \A k \in DOMAIN l : l[k] \in DirectTuples
  OBVIOUS
<1>4. ASSUME m # {} PROVE h # {}
  <2>1. m \subseteq 1 .. Len(l) /\ Len(l) \in Nat
    OBVIOUS
  <2> HIDE DEF m
  <2>2. PICK k \in m : \A j \in m : j <= k
    <3>0. PICK n \in Nat : n = Len(l)
      BY <2>1
    <3> DEFINE back == {n - j : j \in m}
    <3>1. back \subseteq Nat /\ back # {}
      <4>1. \A j \in m : n - j \in Nat
        BY <2>1, <3>0
      <4>2. PICK j \in m : TRUE
        BY <1>4
      <4>3. n - j \in back
        BY <4>2
      <4> QED
        BY <4>1, <4>3
    <3>2. PICK i \in back : \A j \in back : i <= j
      BY <3>1, LeastIn
    <3>3. PICK k \in m : i = n - k
      BY <3>2
    <3>4. \A j \in m : n - k <= n - j
      BY <3>2, <3>3
    <3>5. \A j \in m : j <= k
      BY <2>1, <3>0, <3>4
    <3> QED
      BY <3>5
  <2>3. k \in h
    BY <1>2, <2>1, <2>2
  <2> QED
    BY <2>3
<1>5. ASSUME h # {} PROVE findTuple(l, expr) # {}
  <2>1. h \subseteq Nat
    BY <1>2
  <2> HIDE DEF h
  <2>2. \E j \in h : \A i \in h : j <= i
    BY <1>5, <2>1, LeastIn
  <2> QED
    BY <1>1, <2>2
<1>6. h \subseteq DOMAIN l /\ \A k \in h : matches(expr, l[k].name)
  OBVIOUS
<1> HIDE DEF h
<1>7. \A x \in findTuple(l, expr) : \E k \in h : x = l[k]
  BY <1>1
<1>8. \A x \in findTuple(l, expr) : x \in ToSet(l) /\ x \in DirectTuples /\ matches(expr, x.name)
  BY <1>2, <1>6, <1>7 DEF ToSet
<1>9. ASSUME findTuple(l, expr) = {}, NEW x \in ToSet(l) PROVE ~matches(expr, x.name)
  BY <1>4, <1>5, <1>9 DEF ToSet
<1> QED
  BY <1>8, <1>9

\* storeDirect: the tuple replaces the one of its name, or is added.
LEMMA DirectStored ==
  ASSUME NEW l \in Seq(DirectTuples), NEW x \in DirectTuples
  PROVE  /\ storeDirect(l, x) \in Seq(DirectTuples)
         /\ \A y : y \in ToSet(storeDirect(l, x)) <=> (y = x \/ (y \in ToSet(l) /\ y.name # x.name))
<1> DEFINE stored == storeDirect(l, x)
<1>1. Len(l) \in Nat /\ DOMAIN l = 1 .. Len(l) /\ \A k \in DOMAIN l : l[k] \in DirectTuples
  OBVIOUS
<1>2. CASE \E k \in DOMAIN l : l[k].name = x.name
  <2>1. stored = [k \in DOMAIN l |-> IF l[k].name = x.name THEN x ELSE l[k]]
    BY <1>2 DEF storeDirect
  <2> HIDE DEF stored
  <2>2. stored \in [1 .. Len(l) -> DirectTuples]
    BY <1>1, <2>1
  <2>3. stored \in Seq(DirectTuples)
    BY <1>1, <2>2
  <2>4. DOMAIN stored = DOMAIN l /\ \A k \in DOMAIN l : stored[k] = IF l[k].name = x.name THEN x ELSE l[k]
    BY <2>1
  <2>5. ASSUME NEW y PROVE y \in ToSet(stored) <=> (y = x \/ (y \in ToSet(l) /\ y.name # x.name))
    <3>1. y \in ToSet(stored) <=> \E k \in DOMAIN stored : stored[k] = y
      BY DEF ToSet
    <3>2. y \in ToSet(l) <=> \E k \in DOMAIN l : l[k] = y
      BY DEF ToSet
    <3> QED
      BY <1>2, <2>4, <3>1, <3>2
  <2> QED
    BY <2>3, <2>5 DEF stored
<1>3. CASE ~\E k \in DOMAIN l : l[k].name = x.name
  <2>1. stored = Append(l, x)
    BY <1>3 DEF storeDirect
  <2> HIDE DEF stored
  <2>2. /\ stored \in Seq(DirectTuples) /\ DOMAIN stored = 1 .. Len(l) + 1
        /\ \A k \in DOMAIN l : stored[k] = l[k]
        /\ stored[Len(l) + 1] = x
    BY <1>1, <2>1
  <2>3. \A k \in DOMAIN stored : k \in DOMAIN l \/ k = Len(l) + 1
    BY <1>1, <2>2
  <2>4. \A k \in DOMAIN l : k \in DOMAIN stored
    BY <1>1, <2>2
  <2>5. Len(l) + 1 \in DOMAIN stored
    BY <1>1, <2>2
  <2>6. ASSUME NEW y PROVE y \in ToSet(stored) <=> (y = x \/ (y \in ToSet(l) /\ y.name # x.name))
    <3>1. y \in ToSet(stored) <=> \E k \in DOMAIN stored : stored[k] = y
      BY DEF ToSet
    <3>2. y \in ToSet(l) <=> \E k \in DOMAIN l : l[k] = y
      BY DEF ToSet
    <3> QED
      BY <1>3, <2>2, <2>3, <2>4, <2>5, <3>1, <3>2
  <2> QED
    BY <2>2, <2>6 DEF stored
<1> QED
  BY <1>2, <1>3

\* deleteTuple: the others are left.
LEMMA DirectDeleted ==
  ASSUME NEW l \in Seq(DirectTuples), NEW x
  PROVE  /\ deleteTuple(l, x) \in Seq(DirectTuples)
         /\ \A y : y \in ToSet(deleteTuple(l, x)) <=> (y \in ToSet(l) /\ y.name # x.name)
<1> DEFINE K == {k \in DOMAIN l : l[k].name # x.name}
<1>1. K \in SUBSET DOMAIN l /\ deleteTuple(l, x) = Sublist(l, K)
  BY DEF deleteTuple
<1>2. \A y : y \in ToSet(l) <=> \E k \in DOMAIN l : l[k] = y
  BY DEF ToSet
<1>3. /\ Sublist(l, K) \in Seq(DirectTuples)
      /\ \A y : y \in ToSet(Sublist(l, K)) <=> \E k \in K : y = l[k]
  BY <1>1, SublistElements
<1> QED
  BY <1>1, <1>2, <1>3

\* The requests that are met, and those that stay.
LEMMA DirectMet ==
  ASSUME NEW q \in Seq(DirectRequests), NEW x
  PROVE  /\ Met(q, x) \subseteq DOMAIN q /\ Without(q, Met(q, x)) \in Seq(DirectRequests)
         /\ \A r \in ToSet(Without(q, Met(q, x))) : r \in ToSet(q)
         /\ \A r \in Served(q, x) : r \in DirectRequests
         /\ ~Consumes(q, x) => \A r \in ToSet(Without(q, Met(q, x))) : ~matches(r.expr, x.name)
<1>1. Met(q, x) \subseteq DOMAIN q /\ DOMAIN q \subseteq Nat /\ \A k \in DOMAIN q : q[k] \in DirectRequests
  BY DEF Met
<1>2. (DOMAIN q \ Met(q, x)) \in SUBSET DOMAIN q
  OBVIOUS
<1>3. /\ Without(q, Met(q, x)) \in Seq(DirectRequests)
      /\ \A r : r \in ToSet(Without(q, Met(q, x))) <=> \E k \in DOMAIN q \ Met(q, x) : r = q[k]
  BY <1>2, SublistElements DEF Without
<1>4. \A r : r \in ToSet(q) <=> \E k \in DOMAIN q : q[k] = r
  BY DEF ToSet
<1>5. \A r \in Served(q, x) : \E k \in Met(q, x) : r = q[k]
  BY DEF Served
<1>6. ASSUME ~Consumes(q, x), NEW k \in DOMAIN q \ Met(q, x) PROVE ~matches(q[k].expr, x.name)
  <2>1. Getters(q, x) = {}
    <3>1. SUFFICES ASSUME Getters(q, x) # {} PROVE FALSE
      OBVIOUS
    <3>2. Getters(q, x) \subseteq Nat
      BY <1>1 DEF Getters
    <3>3. PICK g \in Getters(q, x) : \A j \in Getters(q, x) : g <= j
      BY <3>1, <3>2, LeastIn
    <3>4. g \in Met(q, x) /\ q[g].op = "GET" /\ Alive(q[g].by)
      BY <3>3 DEF Getters, Met
    <3> QED
      BY <1>6, <3>4 DEF Consumes, Served
  <2> QED
    BY <1>6, <2>1 DEF Met
<1> QED
  BY <1>1, <1>3, <1>4, <1>5, <1>6

\* The list of one site changes.
LEMMA HeldAfter ==
  ASSUME DirectTypes, NEW s \in Sites, NEW l \in Seq(DirectTuples), store' = [store EXCEPT ![s] = l]
  PROVE  store' \in [Sites -> Seq(DirectTuples)] /\ Held(s)' = ToSet(l) /\ \A u \in Sites \ {s} : Held(u)' = Held(u)
<1>1. store' \in [Sites -> Seq(DirectTuples)] /\ store'[s] = l /\ \A u \in Sites \ {s} : store'[u] = store[u]
  BY DEF DirectTypes
<1> QED
  BY <1>1 DEF Held

\* With fewer tuples and fewer requests, those that are left still differ, and none waits
\* beside what it matches.
LEMMA FewerHeld ==
  ASSUME DirectInv, \A s \in Sites : Held(s)' \subseteq Held(s) /\ \A r \in ToSet(asked'[s]) : r \in ToSet(asked[s])
  PROVE  LabelsDiffer' /\ ValuesDiffer' /\ NoWaitBesideMatch'
<1>1. LabelsDiffer'
  BY DEF DirectInv, LabelsDiffer
<1>2. ValuesDiffer'
  BY DEF DirectInv, ValuesDiffer
<1>3. NoWaitBesideMatch'
  <2>1. \A s \in Sites : \A r \in ToSet(asked[s]), x \in Held(s) : ~matches(r.expr, x.name)
    BY DEF DirectInv, NoWaitBesideMatch, Held
  <2>2. \A s \in Sites : \A r \in ToSet(asked'[s]), x \in Held(s)' : ~matches(r.expr, x.name)
    BY <2>1
  <2> QED
    BY <2>2 DEF NoWaitBesideMatch, Held
<1> QED
  BY <1>1, <1>2, <1>3

\* Steps that only move a task.
LEMMA OnlyMoves ==
  ASSUME DirectInv, task' \in [Tasks -> TaskStates], UNCHANGED <<store, asked, puts, taken, gone>>
  PROVE  DirectInv'
<1>1. \A s : Held(s)' = Held(s)
  BY DEF Held
<1>2. LabelsDiffer' /\ ValuesDiffer' /\ NoWaitBesideMatch'
  BY <1>1, FewerHeld
<1>3. DirectTypes' /\ RealOnesAreUntaken' /\ LaterAreUntaken' /\ PutsAccounted'
  BY <1>1 DEF DirectInv, DirectTypes, RealOnesAreUntaken, LaterAreUntaken, PutsAccounted
<1> QED
  BY <1>2, <1>3 DEF DirectInv

\* A tuple is found and given.
LEMMA DirectGiven ==
  ASSUME DirectInv, NEW s \in Sites, NEW expr, NEW x \in findTuple(store[s], expr), NEW op \in {"GET", "READ"},
         Gives(op, s, x), task' \in [Tasks -> TaskStates]
  PROVE  DirectInv'
<1>1. CASE op = "READ"
  BY <1>1, OnlyMoves DEF Gives
<1>2. CASE op = "GET"
  <2>1. /\ DirectTypes /\ LabelsDiffer /\ RealOnesAreUntaken /\ ValuesDiffer /\ LaterAreUntaken /\ PutsAccounted
    BY DEF DirectInv
  <2>2. store[s] \in Seq(DirectTuples)
    BY <2>1 DEF DirectTypes
  <2>3. x \in Held(s) /\ x \in DirectTuples
    BY <2>2, DirectFound DEF Held
  <2>4. PICK l \in Seq(DirectTuples) : l = deleteTuple(store[s], x)
    BY <2>2, DirectDeleted
  <2>5. \A y : y \in ToSet(l) <=> (y \in Held(s) /\ y.name # x.name)
    BY <2>2, <2>4, DirectDeleted DEF Held
  <2>6. /\ store' = [store EXCEPT ![s] = l] /\ UNCHANGED <<asked, puts, gone>>
        /\ taken' = IF x.pri = 1 THEN [taken EXCEPT ![x.val] = @ + 1] ELSE taken
    BY <1>2, <2>4 DEF Gives
  <2>7. store' \in [Sites -> Seq(DirectTuples)] /\ Held(s)' = ToSet(l) /\ \A u \in Sites \ {s} : Held(u)' = Held(u)
    BY <2>1, <2>6, HeldAfter
  <2>8. \A u \in Sites : Held(u)' \subseteq Held(u)
    BY <2>5, <2>7
  <2>9. LabelsDiffer' /\ ValuesDiffer' /\ NoWaitBesideMatch'
    BY <2>6, <2>8, FewerHeld
\* What is given is held no more, and nothing else is lost.
  <2>10. \A u \in Sites : \A y \in Held(u) : y \in Held(u)' \/ (u = s /\ y = x)
    BY <2>1, <2>3, <2>5, <2>7 DEF LabelsDiffer
  <2>11. x \notin Held(s)'
    BY <2>5, <2>7
  <2>12. puts \in 0 .. MaxPuts /\ taken \in [1 .. MaxPuts -> {0, 1}] /\ \A v \in 1 .. puts : v \in 1 .. MaxPuts /\ ~(v > puts)
    BY <2>1, DirectAssumption DEF DirectTypes
  <2>13. CASE x.pri = 1
    <3>1. x.val \in 1 .. puts /\ x.val \in 1 .. MaxPuts /\ taken[x.val] = 0
      BY <2>1, <2>3, <2>12, <2>13 DEF RealOnesAreUntaken
    <3>2. taken' \in [1 .. MaxPuts -> {0, 1}] /\ taken'[x.val] = 1 /\ \A v \in 1 .. MaxPuts : v # x.val => taken'[v] = taken[v]
      BY <2>6, <2>12, <2>13, <3>1
    <3>3. DirectTypes'
      BY <2>1, <2>6, <2>7, <3>2 DEF DirectTypes
    <3>4. RealOnesAreUntaken'
      <4>1. ASSUME NEW u \in Sites, NEW y \in Held(u)', y.pri = 1 PROVE y.val \in 1 .. puts /\ taken'[y.val] = 0
        <5>1. y \in Held(u)
          BY <2>8
        <5>2. y.val \in 1 .. puts /\ y.val \in 1 .. MaxPuts /\ taken[y.val] = 0
          BY <2>1, <2>12, <4>1, <5>1 DEF RealOnesAreUntaken
        <5>3. y.val # x.val
          BY <2>1, <2>3, <2>11, <2>13, <4>1, <5>1 DEF ValuesDiffer
        <5> QED
          BY <3>2, <5>2, <5>3
      <4> QED
        BY <2>6, <4>1 DEF RealOnesAreUntaken
    <3>5. LaterAreUntaken'
      BY <2>1, <2>6, <2>12, <3>1, <3>2 DEF LaterAreUntaken
    <3>6. PutsAccounted'
      <4>1. ASSUME NEW v \in 1 .. puts
            PROVE  taken'[v] <= 1 /\ ((\E u \in Sites : \E y \in Held(u)' : y.pri = 1 /\ y.val = v) \/ taken'[v] = 1 \/ v \in gone)
        <5>1. taken'[v] <= 1
          BY <2>12, <3>2
        <5>2. CASE v = x.val
          BY <3>2, <5>1, <5>2
        <5>3. CASE v # x.val
          <6>1. (\E u \in Sites : \E y \in Held(u) : y.pri = 1 /\ y.val = v) \/ taken[v] = 1 \/ v \in gone
            BY <2>1 DEF PutsAccounted, Held
          <6>2. taken'[v] = taken[v]
            BY <2>12, <3>2, <5>3
          <6> QED
            BY <2>10, <5>1, <5>3, <6>1, <6>2
        <5> QED
          BY <5>2, <5>3
      <4> QED
        BY <2>6, <4>1 DEF PutsAccounted, Held
    <3> QED
      BY <2>9, <3>3, <3>4, <3>5, <3>6 DEF DirectInv
  <2>14. CASE x.pri # 1
    <3>1. UNCHANGED <<puts, taken, gone, asked>>
      BY <2>6, <2>14
    <3>2. DirectTypes'
      BY <2>1, <2>7, <3>1 DEF DirectTypes
    <3>3. RealOnesAreUntaken' /\ LaterAreUntaken'
      BY <2>1, <2>8, <3>1 DEF RealOnesAreUntaken, LaterAreUntaken
    <3>4. PutsAccounted'
      <4>1. \A v \in 1 .. puts :
              taken[v] <= 1 /\ ((\E u \in Sites : \E y \in Held(u) : y.pri = 1 /\ y.val = v) \/ taken[v] = 1 \/ v \in gone)
        BY <2>1 DEF PutsAccounted, Held
      <4>2. \A v \in 1 .. puts :
              taken[v] <= 1 /\ ((\E u \in Sites : \E y \in Held(u)' : y.pri = 1 /\ y.val = v) \/ taken[v] = 1 \/ v \in gone)
        BY <2>10, <2>14, <4>1
      <4> QED
        BY <3>1, <4>2 DEF PutsAccounted, Held
    <3> QED
      BY <2>9, <3>2, <3>3, <3>4 DEF DirectInv
  <2> QED
    BY <2>13, <2>14
<1> QED
  BY <1>1, <1>2

\* cnf_dzap: what was there is gone.
LEMMA ZapKept ==
  ASSUME DirectInv, NEW t \in Tasks, cnf_dzap(t)
  PROVE  DirectInv'
<1>1. DirectTypes /\ LabelsDiffer /\ RealOnesAreUntaken /\ ValuesDiffer /\ LaterAreUntaken /\ PutsAccounted
  BY DEF DirectInv
<1>2. PICK s \in Sites : s = SiteOf[t]
  BY DirectAssumption
<1>3. /\ store' = [store EXCEPT ![s] = <<>>] /\ UNCHANGED <<asked, task, puts, taken>>
      /\ gone' = gone \cup {x.val : x \in {y \in Held(s) : y.pri = 1}}
  BY <1>2 DEF cnf_dzap, Held
<1>4. <<>> \in Seq(DirectTuples) /\ ToSet(<<>>) = {}
  BY DEF ToSet
<1>5. store' \in [Sites -> Seq(DirectTuples)] /\ Held(s)' = {} /\ \A u \in Sites \ {s} : Held(u)' = Held(u)
  BY <1>1, <1>3, <1>4, HeldAfter
<1>6. \A u \in Sites : Held(u)' \subseteq Held(u)
  BY <1>5
<1>7. LabelsDiffer' /\ ValuesDiffer' /\ NoWaitBesideMatch'
  BY <1>3, <1>6, FewerHeld
<1>8. DirectTypes' /\ LaterAreUntaken'
  BY <1>1, <1>3, <1>5 DEF DirectTypes, LaterAreUntaken
<1>9. RealOnesAreUntaken'
  BY <1>1, <1>3, <1>6 DEF RealOnesAreUntaken
<1>10. PutsAccounted'
  <2>1. \A u \in Sites : \A y \in Held(u) : y \in Held(u)' \/ y.pri # 1 \/ y.val \in gone'
    BY <1>3, <1>5
  <2>2. \A v \in 1 .. puts :
          taken[v] <= 1 /\ ((\E u \in Sites : \E y \in Held(u) : y.pri = 1 /\ y.val = v) \/ taken[v] = 1 \/ v \in gone)
    BY <1>1 DEF PutsAccounted, Held
  <2>3. \A v \in gone : v \in gone'
    BY <1>3
  <2>4. \A v \in 1 .. puts :
          taken[v] <= 1 /\ ((\E u \in Sites : \E y \in Held(u)' : y.pri = 1 /\ y.val = v) \/ taken[v] = 1 \/ v \in gone')
    BY <2>1, <2>2, <2>3
  <2> QED
    BY <1>3, <2>4 DEF PutsAccounted, Held
<1> QED
  BY <1>7, <1>8, <1>9, <1>10 DEF DirectInv

\* A real tuple with the next value, or a virtual one, is put at a site.
LEMMA DirectPutKept ==
  ASSUME DirectInv, NEW s \in Sites, NEW x \in DirectTuples, NEW t \in Tasks, NEW next \in TaskStates,
         \/ x.pri = 1 /\ puts < MaxPuts /\ puts' = puts + 1 /\ x.val = puts + 1
         \/ x.pri = 0 /\ puts' = puts,
         Put(s, x, t, next)
  PROVE  DirectInv'
<1> DEFINE to == Served(asked[s], x)
           kept == Without(asked[s], Met(asked[s], x))
<1>1. DirectTypes /\ LabelsDiffer /\ RealOnesAreUntaken /\ ValuesDiffer /\ LaterAreUntaken /\ NoWaitBesideMatch /\ PutsAccounted
  BY DEF DirectInv
<1>2. /\ asked[s] \in Seq(DirectRequests) /\ store[s] \in Seq(DirectTuples) /\ asked \in [Sites -> Seq(DirectRequests)]
      /\ task \in [Tasks -> TaskStates] /\ taken \in [1 .. MaxPuts -> {0, 1}] /\ puts \in Nat /\ puts <= MaxPuts
  BY <1>1, DirectAssumption DEF DirectTypes
<1>3. /\ kept \in Seq(DirectRequests) /\ \A r \in ToSet(kept) : r \in ToSet(asked[s])
      /\ \A r \in to : r \in DirectRequests
      /\ ~Consumes(asked[s], x) => \A r \in ToSet(kept) : ~matches(r.expr, x.name)
  BY <1>2, DirectMet
<1>4. x.name \in Labels /\ x.site \in Sites /\ x.val \in Nat /\ x.pri \in {0, 1}
  BY DEF DirectTuples
<1>5. /\ puts' \in 0 .. MaxPuts /\ puts' \in Nat /\ \A v \in 1 .. puts' : v \in 1 .. puts \/ (v = x.val /\ x.pri = 1)
      /\ \A v \in 1 .. puts : v \in 1 .. puts' /\ v \in 1 .. MaxPuts /\ v # puts + 1
      /\ \A v \in 1 .. MaxPuts : v > puts' => v > puts /\ (x.pri = 1 => v # x.val)
  BY <1>2, DirectAssumption
<1>6. x.pri = 1 => x.val \in 1 .. puts' /\ x.val \in 1 .. MaxPuts /\ x.val > puts /\ taken[x.val] = 0
  <2>1. CASE x.pri = 1
    <3>1. puts < MaxPuts /\ x.val = puts + 1 /\ puts' = puts + 1 /\ MaxPuts \in Nat
      BY <2>1, DirectAssumption
    <3>2. x.val \in 1 .. puts' /\ x.val \in 1 .. MaxPuts /\ x.val > puts
      BY <1>2, <3>1
    <3> QED
      BY <1>1, <3>2 DEF LaterAreUntaken
  <2> QED
    BY <2>1
<1>7. /\ asked' = [asked EXCEPT ![s] = kept]
      /\ task' = [u \in Tasks |-> IF u = t THEN next
                   ELSE IF \E r \in to : r.by = u THEN Delivered(CHOOSE r \in to : r.by = u, x) ELSE task[u]]
  BY DEF Put
<1>8. task' \in [Tasks -> TaskStates]
  <2>1. \A r \in DirectRequests : Delivered(r, x) \in TaskStates
    BY <1>4 DEF Delivered, TaskStates, Fetching, DirectRequests
  <2>2. ASSUME NEW u \in Tasks, \E r \in to : r.by = u PROVE Delivered(CHOOSE r \in to : r.by = u, x) \in TaskStates
    BY <1>3, <2>1, <2>2
  <2> HIDE DEF to
  <2> QED
    BY <1>2, <1>7, <2>2
<1>9. /\ asked' \in [Sites -> Seq(DirectRequests)] /\ asked'[s] = kept /\ \A u \in Sites \ {s} : asked'[u] = asked[u]
  BY <1>2, <1>3, <1>7
<1>10. \A u \in Sites : \A r \in ToSet(asked'[u]) : r \in ToSet(asked[u])
  BY <1>3, <1>9
<1> HIDE DEF to, kept
<1>11. \A u \in Sites : \A y \in Held(u) : y.pri = 1 => y.val \in 1 .. puts /\ y.val \in 1 .. puts' /\ y.val \in 1 .. MaxPuts /\ (x.pri = 1 => y.val # x.val) /\ taken[y.val] = 0
  BY <1>1, <1>5 DEF RealOnesAreUntaken
<1>12. \A v \in 1 .. puts :
         taken[v] <= 1 /\ ((\E u \in Sites : \E y \in Held(u) : y.pri = 1 /\ y.val = v) \/ taken[v] = 1 \/ v \in gone)
  BY <1>1 DEF PutsAccounted, Held
\* Somebody takes it.
<1>13. CASE Consumes(asked[s], x)
  <2>1. UNCHANGED <<store, gone>> /\ taken' = IF x.pri = 1 THEN [taken EXCEPT ![x.val] = @ + 1] ELSE taken
    BY <1>13 DEF Put, Consumes
  <2>2. \A u : Held(u)' = Held(u)
    BY <2>1 DEF Held
  <2>3. LabelsDiffer' /\ ValuesDiffer' /\ NoWaitBesideMatch'
    BY <1>10, <2>2, FewerHeld
  <2>4. /\ taken' \in [1 .. MaxPuts -> {0, 1}] /\ (x.pri = 1 => taken'[x.val] = 1)
        /\ \A v \in 1 .. MaxPuts : (x.pri = 1 => v # x.val) => taken'[v] = taken[v]
    BY <1>2, <1>6, <2>1
  <2>5. DirectTypes'
    BY <1>1, <1>5, <1>8, <1>9, <2>1, <2>4 DEF DirectTypes
  <2>6. RealOnesAreUntaken'
    BY <1>11, <2>2, <2>4 DEF RealOnesAreUntaken
  <2>7. LaterAreUntaken'
    BY <1>1, <1>5, <2>4 DEF LaterAreUntaken
  <2>8. PutsAccounted'
    <3>1. ASSUME NEW v \in 1 .. puts'
          PROVE  taken'[v] <= 1 /\ ((\E u \in Sites : \E y \in Held(u)' : y.pri = 1 /\ y.val = v) \/ taken'[v] = 1 \/ v \in gone')
      <4>1. v \in 1 .. MaxPuts /\ taken'[v] \in {0, 1}
        BY <1>5, <1>6, <2>4
      <4>2. CASE v = x.val /\ x.pri = 1
        BY <2>4, <4>1, <4>2
      <4>3. CASE v \in 1 .. puts /\ ~(v = x.val /\ x.pri = 1)
        BY <1>12, <2>1, <2>2, <2>4, <4>1, <4>3
      <4> QED
        BY <1>5, <4>2, <4>3
    <3> QED
      BY <3>1 DEF PutsAccounted, Held
  <2> QED
    BY <2>3, <2>5, <2>6, <2>7, <2>8 DEF DirectInv
\* Nobody takes it: it is stored, over the one of its name.
<1>14. CASE ~Consumes(asked[s], x)
  <2>1. PICK l \in Seq(DirectTuples) : l = storeDirect(store[s], x)
    BY <1>2, DirectStored
  <2>2. \A y : y \in ToSet(l) <=> (y = x \/ (y \in Held(s) /\ y.name # x.name))
    BY <1>2, <2>1, DirectStored DEF Held
  <2>3. store' = [store EXCEPT ![s] = l] /\ gone' = gone \cup Overwrites(store[s], x) /\ UNCHANGED taken
    BY <1>14, <2>1 DEF Put
  <2>4. store' \in [Sites -> Seq(DirectTuples)] /\ Held(s)' = ToSet(l) /\ \A u \in Sites \ {s} : Held(u)' = Held(u)
    BY <1>1, <2>3, HeldAfter
  <2>5. \A u \in Sites : \A y \in Held(u)' : (u = s /\ y = x) \/ (y \in Held(u) /\ (u = s => y.name # x.name))
    BY <2>2, <2>4
  <2>6. x \in Held(s)'
    BY <2>2, <2>4
  <2>7. \A u \in Sites : \A y \in Held(u) : y \in Held(u)' \/ y.pri # 1 \/ y.val \in gone'
    <3>1. \A y \in Held(s) : y.name = x.name /\ y.pri = 1 => y.val \in gone'
      BY <2>3 DEF Held, ToSet, Overwrites
    <3> QED
      BY <2>2, <2>4, <3>1
  <2>8. DirectTypes'
    BY <1>1, <1>5, <1>8, <1>9, <2>3, <2>4 DEF DirectTypes
  <2>9. LabelsDiffer'
    BY <1>1, <2>5 DEF LabelsDiffer
  <2>10. RealOnesAreUntaken'
    BY <1>6, <1>11, <2>3, <2>5 DEF RealOnesAreUntaken
  <2>11. ValuesDiffer'
    BY <1>1, <1>11, <2>5 DEF ValuesDiffer
  <2>12. LaterAreUntaken'
    BY <1>1, <1>5, <2>3 DEF LaterAreUntaken
  <2>13. NoWaitBesideMatch'
    <3>1. \A u \in Sites : \A r \in ToSet(asked[u]), y \in Held(u) : ~matches(r.expr, y.name)
      BY <1>1 DEF NoWaitBesideMatch, Held
    <3>2. \A r \in ToSet(asked'[s]) : ~matches(r.expr, x.name)
      BY <1>3, <1>9, <1>14
    <3>3. \A u \in Sites : \A r \in ToSet(asked'[u]), y \in Held(u)' : ~matches(r.expr, y.name)
      BY <1>10, <2>5, <3>1, <3>2
    <3> QED
      BY <3>3 DEF NoWaitBesideMatch, Held
  <2>14. PutsAccounted'
    <3>1. \A v \in gone : v \in gone'
      BY <2>3
    <3>2. ASSUME NEW v \in 1 .. puts'
          PROVE  taken'[v] <= 1 /\ ((\E u \in Sites : \E y \in Held(u)' : y.pri = 1 /\ y.val = v) \/ taken'[v] = 1 \/ v \in gone')
      <4>1. taken'[v] <= 1
        <5>1. v \in 1 .. MaxPuts
          BY <1>5, <1>6
        <5>2. taken'[v] \in {0, 1}
          BY <1>2, <2>3, <5>1
        <5> QED
          BY <5>2
      <4>2. CASE v = x.val /\ x.pri = 1
        BY <2>6, <4>1, <4>2
      <4>3. CASE v \in 1 .. puts
        BY <1>12, <2>3, <2>7, <3>1, <4>1, <4>3
      <4> QED
        BY <1>5, <4>2, <4>3
    <3> QED
      BY <3>2 DEF PutsAccounted, Held
  <2> QED
    BY <2>8, <2>9, <2>10, <2>11, <2>12, <2>13, <2>14 DEF DirectInv
<1> QED
  BY <1>13, <1>14

\* A request for which nothing is found waits.
LEMMA QueuesKept ==
  ASSUME DirectInv, NEW t \in Tasks, NEW op \in {"GET", "READ"}, NEW expr \in Labels \cup {AnyLabel},
         Queues(t, op, expr), findTuple(store[SiteOf[t]], expr) = {}
  PROVE  DirectInv'
<1>1. DirectTypes /\ LabelsDiffer /\ RealOnesAreUntaken /\ ValuesDiffer /\ LaterAreUntaken /\ NoWaitBesideMatch /\ PutsAccounted
  BY DEF DirectInv
<1>2. PICK s \in Sites : s = SiteOf[t]
  BY DirectAssumption
<1>3. PICK r \in DirectRequests : r = [by |-> t, expr |-> expr, op |-> op]
  BY DEF DirectRequests
<1>4. asked[s] \in Seq(DirectRequests) /\ store[s] \in Seq(DirectTuples)
  BY <1>1 DEF DirectTypes
<1>5. PICK q \in Seq(DirectRequests) : q = Append(asked[s], r)
  <2>1. Append(asked[s], r) \in Seq(DirectRequests)
    BY <1>4
  <2> QED
    BY <2>1
<1>6. \A y \in ToSet(q) : y \in ToSet(asked[s]) \/ y = r
  BY <1>4, <1>5 DEF ToSet
<1>7. asked' = [asked EXCEPT ![s] = q] /\ task' = [task EXCEPT ![t] = Blocked] /\ UNCHANGED <<store, puts, taken, gone>>
  BY <1>2, <1>3, <1>5 DEF Queues
<1>8. asked' \in [Sites -> Seq(DirectRequests)] /\ asked'[s] = q /\ \A u \in Sites \ {s} : asked'[u] = asked[u]
  BY <1>1, <1>7 DEF DirectTypes
<1>9. DirectTypes'
  <2>1. task' \in [Tasks -> TaskStates]
    BY <1>1, <1>7 DEF DirectTypes, TaskStates
  <2> QED
    BY <1>1, <1>7, <1>8, <2>1 DEF DirectTypes
<1>10. \A u : Held(u)' = Held(u)
  BY <1>7 DEF Held
<1>11. LabelsDiffer' /\ RealOnesAreUntaken' /\ ValuesDiffer' /\ LaterAreUntaken' /\ PutsAccounted'
  BY <1>1, <1>7, <1>10 DEF LabelsDiffer, RealOnesAreUntaken, ValuesDiffer, LaterAreUntaken, PutsAccounted
<1>12. NoWaitBesideMatch'
  <2>1. \A x \in ToSet(store[s]) : ~matches(r.expr, x.name)
    BY <1>2, <1>3, <1>4, DirectFound
  <2>2. \A u \in Sites : \A y \in ToSet(asked'[u]), x \in ToSet(store[u]) : ~matches(y.expr, x.name)
    BY <1>1, <1>6, <1>8, <2>1 DEF NoWaitBesideMatch
  <2> QED
    BY <1>7, <2>2 DEF NoWaitBesideMatch
<1> QED
  BY <1>9, <1>11, <1>12 DEF DirectInv

\* Every step of the direct calls keeps it.
LEMMA DirectStep ==
  ASSUME DirectInv, [DirectNext]_directVars
  PROVE  DirectInv'
<1>1. DirectTypes
  BY DEF DirectInv
<1>2. /\ task \in [Tasks -> TaskStates] /\ puts \in Nat
      /\ Idle \in TaskStates /\ Blocked \in TaskStates /\ Dead \in TaskStates
  BY <1>1 DEF DirectTypes, TaskStates
<1>3. \A u \in Tasks : SiteOf[u] \in Sites
  BY DirectAssumption
<1>4. CASE UNCHANGED directVars
  BY <1>2, <1>4, OnlyMoves DEF directVars
<1>5. ASSUME NEW t \in Tasks, cnf_dput(t) PROVE DirectInv'
  <2>1. PICK s \in Sites, n \in Labels : OpPut(s, n, t, Idle)
    BY <1>5 DEF cnf_dput
  <2>2. PICK x \in DirectTuples : x = Real(n, puts + 1, s)
    <3>1. Real(n, puts + 1, s) \in DirectTuples
      BY <1>2 DEF DirectTuples, Real
    <3> QED
      BY <3>1
  <2>3. x.pri = 1 /\ x.val = puts + 1
    BY <2>2 DEF Real
  <2> QED
    BY <1>2, <2>1, <2>2, <2>3, DirectPutKept DEF OpPut
<1>6. ASSUME NEW t \in Tasks, scan_send(t) PROVE DirectInv'
  <2>1. PICK n \in Labels : OpPut(SiteOf[t], n, t, Scanning(n, Sites \ {SiteOf[t]}))
    BY <1>6 DEF scan_send
  <2>2. PICK x \in DirectTuples : x = Real(n, puts + 1, SiteOf[t])
    <3>1. Real(n, puts + 1, SiteOf[t]) \in DirectTuples
      BY <1>2, <1>3 DEF DirectTuples, Real
    <3> QED
      BY <3>1
  <2>3. x.pri = 1 /\ x.val = puts + 1
    BY <2>2 DEF Real
  <2>4. Scanning(n, Sites \ {SiteOf[t]}) \in TaskStates
    BY DEF Scanning, TaskStates
  <2> QED
    BY <1>3, <2>1, <2>2, <2>3, <2>4, DirectPutKept DEF OpPut
<1>7. ASSUME NEW t \in Tasks, send_info_to(t) PROVE DirectInv'
  <2>1. task[t].at = "scanning" /\ task[t] \in TaskStates
    BY <1>2, <1>7 DEF send_info_to
  <2>2. task[t].name \in Labels /\ task[t].left \in SUBSET Sites
    BY <2>1 DEF TaskStates, Idle, Blocked, Dead
  <2>3. PICK s \in task[t].left :
          LET left == task[t].left \ {s} IN
          Put(s, Virtual(task[t].name, SiteOf[t]), t, IF left = {} THEN Idle ELSE Scanning(task[t].name, left)) /\ puts' = puts
    BY <1>7 DEF send_info_to
  <2>4. PICK next \in TaskStates : next = IF task[t].left \ {s} = {} THEN Idle ELSE Scanning(task[t].name, task[t].left \ {s})
    BY <1>2, <2>2 DEF Scanning, TaskStates
  <2>5. PICK x \in DirectTuples : x = Virtual(task[t].name, SiteOf[t])
    BY <1>3, <2>2 DEF DirectTuples, Virtual
  <2>6. x.pri = 0
    BY <2>5 DEF Virtual
  <2> QED
    BY <2>2, <2>3, <2>4, <2>5, <2>6, DirectPutKept
<1>8. ASSUME NEW t \in Tasks, NEW op \in {"GET", "READ"}, NEW e \in Labels \cup {AnyLabel}, OpGet(t, op, e) PROVE DirectInv'
  <2>1. CASE findTuple(store[SiteOf[t]], e) = {}
    BY <1>8, <2>1, QueuesKept DEF OpGet
  <2>2. CASE findTuple(store[SiteOf[t]], e) # {}
    <3>1. PICK x \in findTuple(store[SiteOf[t]], e) :
            Gives(op, SiteOf[t], x) /\ task' = [task EXCEPT ![t] = Delivered([op |-> op], x)]
      BY <1>8, <2>2 DEF OpGet
    <3>2. x \in DirectTuples
      BY <1>1, <1>3, DirectFound DEF DirectTypes
    <3>3. Delivered([op |-> op], x) \in TaskStates
      BY <3>2 DEF Delivered, TaskStates, Fetching, DirectTuples
    <3>4. task' \in [Tasks -> TaskStates]
      BY <1>2, <3>1, <3>3
    <3> QED
      BY <1>3, <3>1, <3>4, DirectGiven
  <2> QED
    BY <2>1, <2>2
<1>9. ASSUME NEW t \in Tasks, getRealTuple(t) PROVE DirectInv'
  <2>1. task[t].at = "fetching" /\ task[t] \in TaskStates
    BY <1>2, <1>9 DEF getRealTuple
  <2>2. task[t].site \in Sites /\ task[t].op \in {"GET", "READ"}
    BY <2>1 DEF TaskStates, Idle, Blocked, Dead
  <2>3. CASE findTuple(store[task[t].site], task[t].name) = {}
    <3>1. task' = [task EXCEPT ![t] = Dead] /\ UNCHANGED <<store, asked, puts, taken, gone>>
      BY <1>9, <2>3 DEF getRealTuple
    <3> QED
      BY <1>2, <3>1, OnlyMoves
  <2>4. CASE findTuple(store[task[t].site], task[t].name) # {}
    <3>1. PICK x \in findTuple(store[task[t].site], task[t].name) :
            Gives(task[t].op, task[t].site, x) /\ task' = [task EXCEPT ![t] = Idle]
      BY <1>9, <2>4 DEF getRealTuple
    <3>2. task' \in [Tasks -> TaskStates]
      BY <1>2, <3>1
    <3> QED
      BY <2>2, <3>1, <3>2, DirectGiven
  <2> QED
    BY <2>3, <2>4
<1>10. ASSUME NEW t \in Tasks, TaskDies(t) PROVE DirectInv'
  BY <1>2, <1>10, OnlyMoves DEF TaskDies
<1>11. ASSUME NEW t \in Tasks, cnf_dzap(t) PROVE DirectInv'
  BY <1>11, ZapKept
<1> QED
  BY <1>4, <1>5, <1>6, <1>7, <1>8, <1>9, <1>10, <1>11 DEF DirectNext, cnf_dget, cnf_dread

-----------------------------------------------------------------------------
(* Data and tokens at an advanced handler.                                  *)

IsList(s)    == s \in Seq({s[k] : k \in DOMAIN s})
IsTuple(t)   == t = Tuple(t.name, t.val)
IsRequest(q) == q = [by |-> q.by, name |-> q.name, ixs |-> q.ixs, cur |-> q.cur, got |-> q.got]

\* What an advanced handler keeps: a name once, of requests only those for which not enough
\* has come, and clients that wait for a token only if it has none.
TuplesKept(s)   == IsList(s) /\ (\A k \in DOMAIN s : IsTuple(s[k])) /\ \A k, l \in DOMAIN s : s[k].name = s[l].name => k = l
RequestsKept(s) == IsList(s) /\ \A k \in DOMAIN s : IsRequest(s[k]) /\ s[k].by \in Clients /\ ~Enough(s[k])
AnswersKept ==
  DOMAIN answer = Clients /\ \A c \in Clients : answer[c] # None => answer[c].op \in {"DATA", "TOKEN", "QUEUED"}
AdvInv ==
  /\ serving \in [Spaces -> BOOLEAN] /\ living \subseteq Clients
  /\ DOMAIN space = Spaces /\ DOMAIN token = Spaces /\ DOMAIN queue = Spaces /\ DOMAIN waiting = Spaces
  /\ \A h \in Spaces : TuplesKept(space[h]) /\ RequestsKept(queue[h]) /\ waiting[h] \in Seq(Clients)
  /\ AnswersKept /\ NoWaitBesideToken

\* Where the items of a list stand with one more.
LEMMA ListAppended ==
  ASSUME NEW s, IsList(s), NEW t
  PROVE  /\ IsList(Append(s, t)) /\ DOMAIN Append(s, t) = 1 .. Len(s) + 1 /\ DOMAIN s = 1 .. Len(s) /\ Len(s) \in Nat
         /\ Append(s, t)[Len(s) + 1] = t /\ \A k \in DOMAIN s : Append(s, t)[k] = s[k]
<1> DEFINE S == {s[k] : k \in DOMAIN s} \cup {t}
<1>1. s \in Seq(S) /\ t \in S /\ DOMAIN s = 1 .. Len(s) /\ Len(s) \in Nat
  <2>1. s \in Seq({s[k] : k \in DOMAIN s}) /\ {s[k] : k \in DOMAIN s} \subseteq S
    BY DEF IsList
  <2> HIDE DEF S
  <2>2. Len(s) \in Nat /\ DOMAIN s = 1 .. Len(s) /\ s \in [1 .. Len(s) -> {s[k] : k \in DOMAIN s}]
    BY <2>1
  <2>3. s \in [1 .. Len(s) -> S]
    BY <2>1, <2>2
  <2>4. s \in Seq(S)
    BY <2>2, <2>3
  <2>5. t \in S
    BY DEF S
  <2> QED
    BY <2>2, <2>4, <2>5
<1> HIDE DEF S
<1>2. /\ Append(s, t) \in Seq(S) /\ DOMAIN Append(s, t) = 1 .. Len(s) + 1
      /\ Append(s, t)[Len(s) + 1] = t /\ \A k \in DOMAIN s : Append(s, t)[k] = s[k]
  BY <1>1
<1>3. IsList(Append(s, t))
  <2>1. PICK a : a = Append(s, t)
    OBVIOUS
  <2>2. a \in Seq(S)
    BY <1>2, <2>1
  <2>3. Len(a) \in Nat /\ a \in [1 .. Len(a) -> {a[k] : k \in DOMAIN a}]
    BY <2>2
  <2>4. a \in Seq({a[k] : k \in DOMAIN a})
    BY <2>3
  <2> QED
    BY <2>1, <2>4 DEF IsList
<1> QED
  BY <1>1, <1>2, <1>3

\* A list as a function of its positions.
LEMMA ListOf ==
  ASSUME NEW n \in Nat, NEW s, DOMAIN s = 1 .. n, s = [k \in 1 .. n |-> s[k]]
  PROVE  IsList(s)
<1>1. s \in [1 .. n -> {s[k] : k \in DOMAIN s}]
  OBVIOUS
<1>2. s \in Seq({s[k] : k \in DOMAIN s})
  BY <1>1
<1> QED
  BY <1>2 DEF IsList

\* A list is a function from 1 to its length.
LEMMA ListDomain ==
  ASSUME NEW s, IsList(s)
  PROVE  Len(s) \in Nat /\ DOMAIN s = 1 .. Len(s) /\ s = [k \in 1 .. Len(s) |-> s[k]]
<1>1. s \in Seq({s[k] : k \in DOMAIN s})
  BY DEF IsList
<1>2. PICK S : s \in Seq(S)
  BY <1>1
<1> QED
  BY <1>2

\* A tuple takes the place of the one of its name, or comes last.
LEMMA StoredTuples ==
  ASSUME NEW s, TuplesKept(s), NEW t, IsTuple(t)
  PROVE  TuplesKept(storeTuple(s, t))
<1> DEFINE same == {k \in DOMAIN s : s[k].name = t.name}
<1>1. IsList(s) /\ Len(s) \in Nat /\ DOMAIN s = 1 .. Len(s) /\ s = [k \in 1 .. Len(s) |-> s[k]]
  BY ListDomain DEF TuplesKept
<1>2. CASE same = {}
  <2>1. \A k \in DOMAIN s : s[k].name # t.name
    BY <1>2
  <2>2. PICK a : a = Append(s, t)
    OBVIOUS
  <2>3. /\ IsList(a) /\ DOMAIN a = 1 .. Len(s) + 1 /\ a[Len(s) + 1] = t /\ \A k \in DOMAIN s : a[k] = s[k]
    BY <1>1, <2>2, ListAppended
  <2>4. \A k \in DOMAIN a : k \in DOMAIN s \/ k = Len(s) + 1
    BY <1>1, <2>3
  <2>5. \A k \in DOMAIN a : IsTuple(a[k])
    BY <2>3, <2>4 DEF TuplesKept
  <2>6. \A k, l \in DOMAIN a : a[k].name = a[l].name => k = l
    BY <2>1, <2>3, <2>4 DEF TuplesKept
  <2>7. storeTuple(s, t) = a
    BY <1>2, <2>2 DEF storeTuple
  <2> QED
    BY <2>3, <2>5, <2>6, <2>7 DEF TuplesKept
<1>3. CASE same # {}
  <2>1. PICK k \in same : k = CHOOSE j \in same : TRUE
    BY <1>3
  <2>2. PICK u : u = IF t.name.var \in Scalars THEN advScalar(s[k], t) ELSE t
    OBVIOUS
  <2>3. IsTuple(u) /\ u.name = t.name
    <3>1. PICK n, v : n = t.name /\ v = t.val
      OBVIOUS
    <3>2. t = [name |-> n, val |-> v]
      BY <3>1 DEF IsTuple, Tuple
    <3>3. ASSUME NEW o PROVE \E w : advScalar(o, t) = [name |-> n, val |-> w]
      <4>1. PICK w : w = [i \in DOMAIN t.val |-> IF o.val[i] > t.val[i] THEN o.val[i] ELSE t.val[i]]
        OBVIOUS
      <4>2. advScalar(o, t) = [t EXCEPT !.val = w]
        BY <4>1 DEF advScalar
      <4> QED
        BY <3>2, <4>2
    <3>4. \E w : u = [name |-> n, val |-> w]
      BY <2>2, <3>2, <3>3
    <3> QED
      BY <3>1, <3>4 DEF IsTuple, Tuple
  <2>4. PICK a : a = [s EXCEPT ![k] = u]
    OBVIOUS
  <2>5. storeTuple(s, t) = a
    BY <1>3, <2>1, <2>2, <2>4 DEF storeTuple
  <2>6. k \in DOMAIN s /\ s[k].name = t.name
    BY <2>1
  <2>7. /\ DOMAIN a = 1 .. Len(s) /\ a = [j \in 1 .. Len(s) |-> a[j]]
        /\ \A j \in DOMAIN s : a[j] = IF j = k THEN u ELSE s[j]
    BY <1>1, <2>4
  <2>8. IsList(a)
    BY <1>1, <2>7, ListOf
  <2>9. \A j \in DOMAIN a : IsTuple(a[j]) /\ a[j].name = s[j].name
    BY <1>1, <2>3, <2>6, <2>7 DEF TuplesKept
  <2> QED
    BY <1>1, <2>5, <2>7, <2>8, <2>9 DEF TuplesKept
<1> QED
  BY <1>2, <1>3

\* A tuple or a list of them goes into a request, which stays the client's.
LEMMA FedRequest ==
  ASSUME NEW q, IsRequest(q), NEW s
  PROVE  IsRequest(advFindTuple(s, q)) /\ advFindTuple(s, q).by = q.by
<1>1. PICK b, n, x, c, g : q = [by |-> b, name |-> n, ixs |-> x, cur |-> c, got |-> g]
  BY DEF IsRequest
<1>2. ASSUME NEW r PROVE \E d, e : Collect(q, r) = [q EXCEPT !.cur = d, !.got = e]
  BY DEF Collect
<1>3. PICK d, e : advFindTuple(s, q) = [q EXCEPT !.cur = d, !.got = e]
  BY <1>2 DEF advFindTuple
<1>4. advFindTuple(s, q) = [by |-> b, name |-> n, ixs |-> x, cur |-> d, got |-> e]
  BY <1>1, <1>3
<1> QED
  BY <1>1, <1>4 DEF IsRequest

\* Nothing is left of nothing.
LEMMA EmptySublist == \A K : K \in SUBSET DOMAIN <<>> => Sublist(<<>>, K) = <<>>
<1>1. Cardinality({}) = 0
  BY FS_EmptySet
<1> QED
  BY <1>1 DEF Sublist

\* The smaller of two numbers is one of them.
LEMMA LeastOfTwo ==
  ASSUME NEW a \in Nat, NEW b \in Nat
  PROVE  Least(a, b) \in Nat /\ Least(a, b) <= a /\ Least(a, b) <= b /\ (Least(a, b) = a \/ Least(a, b) = b)
BY DEF Least

\* Who is answered data, a token or that he waits.
LEMMA AnswerSent ==
  AnswersKept =>
    \A c \in Clients : \A a :
      a.op \in {"DATA", "TOKEN", "QUEUED"} /\ answer' = [answer EXCEPT ![c] = a] => AnswersKept'
<1> SUFFICES ASSUME AnswersKept, NEW c \in Clients, NEW a, a.op \in {"DATA", "TOKEN", "QUEUED"},
                    answer' = [answer EXCEPT ![c] = a], NEW x \in Clients
             PROVE  DOMAIN answer' = Clients /\ (answer'[x] # None => answer'[x].op \in {"DATA", "TOKEN", "QUEUED"})
  BY DEF AnswersKept
<1>1. answer'[x] = IF x = c THEN a ELSE answer[x]
  BY DEF AnswersKept
<1> QED
  BY <1>1 DEF AnswersKept

\* Calls that answer with a status leave all data, and what they delete is not waited for.
LEMMA CleanedKept ==
  ASSUME AdvInv, NEW h, NEW c, advOpActivate(h, c) \/ advOpCleanupQueue(h, c) \/ advOpCleanupSpace(h, c)
  PROVE  AdvInv'
<1>1. CASE advOpActivate(h, c)
  <2>1. UNCHANGED <<serving, space, queue, waiting, batch, living, answer>>
    BY <1>1 DEF advOpActivate
  <2>2. PICK left : left = Sublist(token[h], {k \in DOMAIN token[h] : ~IsTerminator(token[h][k])})
    OBVIOUS
  <2>3. token' = [token EXCEPT ![h] = left]
    BY <1>1, <2>2 DEF advOpActivate
  <2>4. token[h] = <<>> => left = <<>>
    BY <2>2, EmptySublist
  <2>5. DOMAIN token' = Spaces /\ NoWaitBesideToken'
    BY <2>1, <2>3, <2>4 DEF AdvInv, NoWaitBesideToken
  <2> QED
    BY <2>1, <2>5 DEF AdvInv, AnswersKept, RequestsKept, TuplesKept, Enough
<1>2. CASE advOpCleanupQueue(h, c)
  <2>1. /\ UNCHANGED <<serving, space, queue, batch, living>>
        /\ answer' = [x \in Clients |-> IF x \in ToSet(waiting[h]) \cap living THEN Given(Terminator) ELSE answer[x]]
        /\ waiting' = [waiting EXCEPT ![h] = <<>>]
    BY <1>2 DEF advOpCleanupQueue
  <2>2. PICK left : token' = [token EXCEPT ![h] = left]
    BY <1>2 DEF advOpCleanupQueue
  <2>3. AnswersKept'
    BY <2>1 DEF AdvInv, AnswersKept, Given
  <2>4. /\ DOMAIN token' = Spaces /\ DOMAIN waiting' = Spaces /\ NoWaitBesideToken'
        /\ \A g \in Spaces : waiting'[g] \in Seq(Clients)
    BY <2>1, <2>2 DEF AdvInv, NoWaitBesideToken
  <2> QED
    BY <2>1, <2>3, <2>4 DEF AdvInv, RequestsKept, TuplesKept, Enough
<1>3. CASE advOpCleanupSpace(h, c)
  <2>1. /\ UNCHANGED <<serving, queue, waiting, batch, living, answer>>
        /\ space' = [space EXCEPT ![h] = <<>>] /\ token' = [token EXCEPT ![h] = <<>>]
    BY <1>3 DEF advOpCleanupSpace
  <2>2. TuplesKept(<<>>)
    BY DEF TuplesKept, IsList
  <2>3. DOMAIN space' = Spaces /\ \A g \in Spaces : TuplesKept(space'[g])
    BY <2>1, <2>2 DEF AdvInv
  <2>4. DOMAIN token' = Spaces /\ NoWaitBesideToken'
    BY <2>1 DEF AdvInv, NoWaitBesideToken
  <2> QED
    BY <2>1, <2>3, <2>4 DEF AdvInv, AnswersKept, RequestsKept, Enough
<1> QED
  BY <1>1, <1>2, <1>3

\* A tuple that is sent goes into the requests it matches, and those that have enough are
\* taken from the queue.
LEMMA SendKept ==
  ASSUME AdvInv, NEW h, NEW c, NEW t, IsTuple(t), advOpSendData(h, c, t)
  PROVE  AdvInv'
<1>1. AnswersKept
  BY DEF AdvInv
<1> DEFINE wait == queue[h]
           fed == [k \in DOMAIN wait |-> advFindTuple(<<t>>, wait[k])]
           full == {k \in DOMAIN fed : Enough(fed[k])}
           left == Sublist(fed, DOMAIN fed \ full)
<1>2. /\ space' = [space EXCEPT ![h] = storeTuple(space[h], t)]
      /\ queue' = [queue EXCEPT ![h] = left] /\ UNCHANGED <<token, waiting, batch, living>>
  BY DEF advOpSendData
<1>3. serving' \in [Spaces -> BOOLEAN]
  <2>1. \E dead : serving' = [serving EXCEPT ![h] = dead = {}]
    BY DEF advOpSendData
  <2> QED
    BY <2>1 DEF AdvInv
<1>4. AnswersKept'
  <2> DEFINE dead == {k \in full : fed[k].by \notin living}
             given == {k \in full : \A d \in dead : k < d}
  <2>1. answer' = [x \in Clients |-> IF \E k \in given : fed[k].by = x
                                     THEN Data(fed[CHOOSE k \in given : fed[k].by = x]) ELSE answer[x]]
    BY DEF advOpSendData
  <2> HIDE DEF fed, given
  <2>2. \A q : Data(q).op = "DATA"
    BY DEF Data
  <2> QED
    BY <1>1, <2>1, <2>2 DEF AnswersKept
<1>5. ASSUME h \in Spaces PROVE TuplesKept(storeTuple(space[h], t)) /\ RequestsKept(left)
  <2>6. /\ Len(wait) \in Nat /\ DOMAIN wait = 1 .. Len(wait)
        /\ \A k \in DOMAIN wait : IsRequest(wait[k]) /\ wait[k].by \in Clients
    BY <1>5, ListDomain DEF AdvInv, RequestsKept
  <2>7. \A k \in DOMAIN fed : IsRequest(fed[k]) /\ fed[k].by \in Clients
    BY <2>6, FedRequest
  <2>8. DOMAIN fed = 1 .. Len(wait)
    BY <2>6
  <2> DEFINE S == {fed[k] : k \in DOMAIN fed}
  <2>9. fed \in Seq(S)
    <3>1. fed \in [1 .. Len(wait) -> S]
      BY <2>8
    <3> QED
      BY <2>6, <3>1
  <2>10. DOMAIN fed \ full \in SUBSET DOMAIN fed
    OBVIOUS
  <2> HIDE DEF fed, full, S, wait
  <2>11. PICK q : q = left
    OBVIOUS
  <2>12. /\ q \in Seq(S)
         /\ \A n \in DOMAIN q : \E k \in DOMAIN fed \ full : q[n] = fed[k]
    <3>1. PICK K \in SUBSET DOMAIN fed : K = DOMAIN fed \ full
      OBVIOUS
    <3>2. /\ Sublist(fed, K) \in Seq(S)
          /\ \A n \in DOMAIN Sublist(fed, K) : Place(K, n) \in K /\ Sublist(fed, K)[n] = fed[Place(K, n)]
      BY <2>9, SublistElements
    <3> QED
      BY <2>11, <3>1, <3>2
  <2>13. RequestsKept(q)
    <3>1. Len(q) \in Nat /\ DOMAIN q = 1 .. Len(q) /\ q = [k \in 1 .. Len(q) |-> q[k]]
      BY <2>12
    <3>2. IsList(q)
      BY <3>1, ListOf
    <3>3. \A n \in DOMAIN q : IsRequest(q[n]) /\ q[n].by \in Clients /\ ~Enough(q[n])
      BY <2>7, <2>12 DEF full
    <3> QED
      BY <3>2, <3>3 DEF RequestsKept
  <2> QED
    BY <1>5, <2>11, <2>13, StoredTuples DEF AdvInv
<1> HIDE DEF left
<1>6. DOMAIN space' = Spaces /\ (\A g \in Spaces : TuplesKept(space'[g]))
  BY <1>2, <1>5 DEF AdvInv
<1>7. DOMAIN queue' = Spaces /\ \A g \in Spaces : RequestsKept(queue'[g])
  BY <1>2, <1>5 DEF AdvInv
<1> QED
  BY <1>2, <1>3, <1>4, <1>6, <1>7 DEF AdvInv, NoWaitBesideToken

\* A request for data waits only while not enough has come.
LEMMA ReadKept1 ==
  ASSUME AdvInv, NEW h, NEW c \in Clients, NEW n, NEW ixs, advOpReadData(h, c, n, ixs)
  PROVE  AdvInv'
<1> DEFINE wish == [by |-> c, name |-> n, ixs |-> ixs, cur |-> 0, got |-> <<>>]
           q == advFindTuple(space[h], wish)
<1>1. IsRequest(q) /\ q.by = c
  <2>1. IsRequest(wish) /\ wish.by = c
    BY DEF IsRequest
  <2> HIDE DEF wish
  <2> QED
    BY <2>1, FedRequest
<1>2. /\ UNCHANGED <<serving, space, token, waiting, batch, living>>
      /\ IF Enough(q) THEN answer' = [answer EXCEPT ![c] = Data(q)] /\ UNCHANGED queue
         ELSE answer' = [answer EXCEPT ![c] = [op |-> "QUEUED"]] /\ queue' = [queue EXCEPT ![h] = Append(queue[h], q)]
  BY DEF advOpReadData
<1> HIDE DEF q
<1>3. AnswersKept'
  <2>1. Data(q).op = "DATA"
    BY DEF Data
  <2>2. PICK a : a.op \in {"DATA", "TOKEN", "QUEUED"} /\ answer' = [answer EXCEPT ![c] = a]
    BY <1>2, <2>1
  <2> QED
    BY <2>2, AnswerSent DEF AdvInv
<1>4. DOMAIN queue' = Spaces /\ \A g \in Spaces : RequestsKept(queue'[g])
  <2>1. CASE Enough(q)
    BY <1>2, <2>1 DEF AdvInv
  <2>2. CASE ~Enough(q)
    <3>1. ASSUME h \in Spaces PROVE RequestsKept(Append(queue[h], q))
      <4>1. PICK s, a : s = queue[h] /\ a = Append(s, q)
        OBVIOUS
      <4>2. RequestsKept(s)
        BY <3>1, <4>1 DEF AdvInv
      <4>3. /\ IsList(a) /\ DOMAIN a = 1 .. Len(s) + 1 /\ DOMAIN s = 1 .. Len(s) /\ Len(s) \in Nat
            /\ a[Len(s) + 1] = q /\ \A k \in DOMAIN s : a[k] = s[k]
        BY <4>1, <4>2, ListAppended DEF RequestsKept
      <4>4. \A k \in DOMAIN a : k \in DOMAIN s \/ k = Len(s) + 1
        BY <4>3
      <4>5. RequestsKept(a)
        BY <1>1, <2>2, <4>2, <4>3, <4>4 DEF RequestsKept
      <4> QED
        BY <4>1, <4>5
    <3> QED
      BY <1>2, <2>2, <3>1 DEF AdvInv
  <2> QED
    BY <2>1, <2>2
<1> QED
  BY <1>2, <1>3, <1>4 DEF AdvInv, NoWaitBesideToken, TuplesKept

\* Who waits for a token is given one of those that are set.
LEMMA SetTokenAnswers ==
  ASSUME AdvInv, NEW h, NEW c, NEW parts, advOpSetToken(h, c, parts)
  PROVE  AnswersKept'
<1> DEFINE live == Sublist(waiting[h], {k \in DOMAIN waiting[h] : waiting[h][k] \in living})
           n == Least(Len(live), Len(parts))
<1>1. \E who, t : answer' = [x \in Clients |-> IF x \in who THEN Given(t[x]) ELSE answer[x]]
  <2> DEFINE who == {x \in Clients : \E k \in 1 .. n : live[k] = x}
             t == [x \in who |-> [n |-> CHOOSE k \in 1 .. n : live[k] = x, batch |-> batch,
                                  part |-> parts[CHOOSE k \in 1 .. n : live[k] = x]]]
  <2>1. answer' = [x \in Clients |-> IF x \in who THEN Given(t[x]) ELSE answer[x]]
    BY DEF advOpSetToken
  <2> QED
    BY <2>1
<1> QED
  BY <1>1 DEF AdvInv, AnswersKept, Given

\* The tokens of a loop are given to who waits; only if there are more of them are some kept.
LEMMA SetTokenKept ==
  ASSUME AdvInv, NEW h \in Spaces, NEW c, NEW parts, Len(parts) \in Nat, advOpSetToken(h, c, parts)
  PROVE  AdvInv'
<1> DEFINE wait == waiting[h]
           K == {k \in DOMAIN wait : wait[k] \in living}
           live == Sublist(wait, K)
           n == Least(Len(live), Len(parts))
           kept == SubSeq(live, n + 1, Len(live))
<1>1. wait \in Seq(Clients)
  BY DEF AdvInv
<1>2. live \in Seq(Clients)
  BY <1>1, SublistElements
<1>3. /\ waiting' = [waiting EXCEPT ![h] = kept]
      /\ UNCHANGED <<serving, space, queue, living>>
  BY DEF advOpSetToken
<1>4. token' = token \/ (Len(parts) - n > 0 /\ \E more : token' = [token EXCEPT ![h] = more])
  <2> DEFINE tok(k) == [n |-> k, batch |-> batch, part |-> parts[k]]
             rest == [k \in 1 .. Len(parts) - n |-> tok(k + n)]
  <2>1. token' = IF rest = <<>> THEN token ELSE [token EXCEPT ![h] = FoldLeft(storeToken, token[h], rest)]
    BY DEF advOpSetToken
  <2>2. ASSUME ~(Len(parts) - n > 0) PROVE rest = <<>>
    <3>1. PICK m : m = Len(parts) - n
      OBVIOUS
    <3>2. Len(live) \in Nat /\ n \in Nat
      BY <1>2, LeastOfTwo
    <3>3. m \in Int /\ ~(m > 0)
      BY <2>2, <3>1, <3>2
    <3>4. 1 .. m = {}
      BY <3>3
    <3> QED
      BY <3>1, <3>4
  <2>3. CASE rest = <<>>
    BY <2>1, <2>3
  <2>4. CASE rest # <<>>
    <3>1. PICK more : more = FoldLeft(storeToken, token[h], rest)
      OBVIOUS
    <3> QED
      BY <2>1, <2>2, <2>4, <3>1
  <2> QED
    BY <2>3, <2>4
<1>5. AnswersKept'
  BY SetTokenAnswers
<1> HIDE DEF live
<1>6. kept \in Seq(Clients) /\ (kept # <<>> => ~(Len(parts) - n > 0))
  <2>1. PICK l \in Nat, p \in Nat : l = Len(live) /\ p = Len(parts)
    BY <1>2
  <2>2. n \in Nat /\ n <= l /\ n <= p /\ (n = l \/ n = p)
    BY <2>1, LeastOfTwo
  <2> HIDE DEF n
  <2>3. kept \in Seq(Clients) /\ Len(kept) = l - n
    BY <1>2, <2>1, <2>2
  <2>4. kept # <<>> => l - n > 0
    BY <2>1, <2>2, <2>3
  <2> QED
    BY <2>1, <2>2, <2>3, <2>4
<1> HIDE DEF kept, n
<1>7. DOMAIN waiting' = Spaces /\ \A g \in Spaces : waiting'[g] \in Seq(Clients)
  BY <1>3, <1>6 DEF AdvInv
<1>8. NoWaitBesideToken' /\ DOMAIN token' = Spaces
  <2>1. CASE token' = token
    <3>1. waiting[h] = <<>> => kept = <<>>
      <4> SUFFICES ASSUME waiting[h] = <<>> PROVE kept = <<>>
        OBVIOUS
      <4>1. wait = <<>> /\ K \in SUBSET DOMAIN <<>>
        OBVIOUS
      <4>2. live = <<>>
        BY <4>1, EmptySublist DEF live
      <4> QED
        BY <4>2 DEF kept, n, Least
    <3> QED
      BY <1>3, <2>1, <3>1 DEF AdvInv, NoWaitBesideToken
  <2>2. CASE Len(parts) - n > 0 /\ \E more : token' = [token EXCEPT ![h] = more]
    BY <1>3, <1>6, <2>2 DEF AdvInv, NoWaitBesideToken
  <2> QED
    BY <1>4, <2>1, <2>2
<1> QED
  BY <1>3, <1>5, <1>7, <1>8 DEF AdvInv, TuplesKept, RequestsKept, Enough

\* A token for a handler that is not there changes nothing.
LEMMA SetTokenAside ==
  ASSUME AdvInv, NEW h, h \notin Spaces, NEW c, NEW parts, advOpSetToken(h, c, parts)
  PROVE  AdvInv'
<1>1. UNCHANGED <<serving, space, queue, living>>
  BY DEF advOpSetToken
<1>2. PICK kept : waiting' = [waiting EXCEPT ![h] = kept]
  BY DEF advOpSetToken
<1>3. DOMAIN waiting' = Spaces /\ \A g \in Spaces : waiting'[g] = waiting[g]
  BY <1>2 DEF AdvInv
<1>4. \E more : token' = token \/ token' = [token EXCEPT ![h] = more]
  BY DEF advOpSetToken
<1>5. DOMAIN token' = Spaces /\ \A g \in Spaces : token'[g] = token[g]
  BY <1>4 DEF AdvInv
<1>6. AnswersKept'
  BY SetTokenAnswers
<1> QED
  BY <1>1, <1>3, <1>5, <1>6 DEF AdvInv, NoWaitBesideToken, TuplesKept, RequestsKept, Enough

\* Who asks for a token is given the first of the list, or waits because there is none.
LEMMA GetTokenKept ==
  ASSUME AdvInv, NEW h, NEW c \in Clients, advOpGetToken(h, c)
  PROVE  AdvInv'
<1>1. UNCHANGED <<serving, space, queue, batch, living>>
  BY DEF advOpGetToken
<1>2. CASE token[h] # <<>>
  <2>1. /\ answer' = [answer EXCEPT ![c] = Given(token[h][1])] /\ UNCHANGED waiting
        /\ token' = token \/ token' = [token EXCEPT ![h] = Tail(token[h])]
    BY <1>2 DEF advOpGetToken
  <2>2. \A t : Given(t).op = "TOKEN"
    BY DEF Given
  <2>3. AnswersKept'
    <3>1. PICK a : a = Given(token[h][1])
      OBVIOUS
    <3> QED
      BY <2>1, <2>2, <3>1, AnswerSent DEF AdvInv
  <2>4. NoWaitBesideToken' /\ DOMAIN token' = Spaces
    BY <1>2, <2>1 DEF AdvInv, NoWaitBesideToken
  <2> QED
    BY <1>1, <2>1, <2>3, <2>4 DEF AdvInv, TuplesKept, RequestsKept, Enough
<1>3. CASE ~(token[h] # <<>>)
  <2>1. /\ answer' = [answer EXCEPT ![c] = [op |-> "QUEUED"]] /\ UNCHANGED token
        /\ waiting' = [waiting EXCEPT ![h] = Append(waiting[h], c)]
    BY <1>3 DEF advOpGetToken
  <2>2. AnswersKept'
    <3>1. PICK a : a = [op |-> "QUEUED"]
      OBVIOUS
    <3> QED
      BY <2>1, <3>1, AnswerSent DEF AdvInv
  <2>3. NoWaitBesideToken'
    BY <1>3, <2>1 DEF AdvInv, NoWaitBesideToken
  <2>4. DOMAIN waiting' = Spaces /\ \A g \in Spaces : waiting'[g] \in Seq(Clients)
    BY <2>1 DEF AdvInv
  <2> QED
    BY <1>1, <2>1, <2>2, <2>3, <2>4 DEF AdvInv, TuplesKept, RequestsKept, Enough
<1> QED
  BY <1>2, <1>3

\* Whatever its clients call, a handler keeps its lists.
LEMMA LoopBegins == LoopInit => AdvInv /\ Len(prog.tokens) \in Nat
<1> SUFFICES ASSUME LoopInit PROVE AdvInv /\ Len(prog.tokens) \in Nat
  OBVIOUS
<1>1. TuplesKept(<<>>) /\ RequestsKept(<<>>) /\ <<>> \in Seq(Clients)
  BY DEF TuplesKept, RequestsKept, IsList
<1>2. Len(prog.tokens) \in Nat
  <2>1. PICK p \in Programs : prog = Compile(p)
    BY DEF LoopInit
  <2>2. prog.tokens = TokensOf(p.loop)
    BY <2>1 DEF Compile
  <2> QED
    BY <2>2, TokensAssumption
<1> QED
  BY <1>1, <1>2 DEF LoopInit, AdvInit, AdvInv, AnswersKept, NoWaitBesideToken

\* Steps that no handler takes part in.
LEMMA AwayKept ==
  ASSUME AdvInv, UNCHANGED <<serving, space, token, queue, waiting>>, living' \subseteq living,
         answer' = answer \/ \E c \in Clients : answer' = [answer EXCEPT ![c] = None]
  PROVE  AdvInv'
<1>1. AnswersKept'
  BY DEF AdvInv, AnswersKept
<1> QED
  BY <1>1 DEF AdvInv, NoWaitBesideToken, TuplesKept, RequestsKept, Enough

\* Each line of a program that a client runs keeps it.
LEMMA RunsKept == ASSUME AdvInv, Len(prog.tokens) \in Nat, NEW c \in Clients, Runs(c) PROVE AdvInv'
<1>1. CASE _activate_space(c) \/ _cleanup_space(c) \/ _cleanup_queue(c)
  BY <1>1, CleanedKept DEF _activate_space, _cleanup_space, _cleanup_queue
<1>2. CASE _set_token(c)
  BY <1>2, SetTokenKept, SetTokenAside DEF _set_token
<1>3. CASE _send_data(c)
  <2>1. PICK n, v : advOpSendData(Op(c).at, c, Tuple(n, v))
    BY <1>3 DEF _send_data
  <2>2. IsTuple(Tuple(n, v))
    BY DEF IsTuple, Tuple
  <2> QED
    BY <2>1, <2>2, SendKept
<1>4. CASE _get_token(c)
  BY <1>4, GetTokenKept DEF _get_token
<1>5. CASE _read_data(c)
  BY <1>5, ReadKept1 DEF _read_data
<1>6. CASE Receives(c) \/ CallFails(c)
  <2>1. /\ UNCHANGED <<serving, space, token, queue, waiting>> /\ living' \subseteq living
        /\ answer' = answer \/ answer' = [answer EXCEPT ![c] = None]
    BY <1>6 DEF Receives, CallFails
  <2> QED
    BY <2>1, AwayKept
<1> QED
  BY <1>1, <1>2, <1>3, <1>4, <1>5, <1>6 DEF Runs

\* Every step of the programs with tokens keeps it.
LEMMA LoopStep == AdvInv /\ Len(prog.tokens) \in Nat /\ [LoopNext]_loopVars => AdvInv' /\ prog' = prog
<1> SUFFICES ASSUME AdvInv, Len(prog.tokens) \in Nat, [LoopNext]_loopVars PROVE AdvInv' /\ prog' = prog
  OBVIOUS
<1>0. prog' = prog
  <2>1. \A c \in Clients : Runs(c) => prog' = prog
    BY DEF Runs, _activate_space, _cleanup_space, _cleanup_queue, _set_token, _send_data, _get_token, _read_data,
           Receives, CallFails, GoesOn, Waits
  <2> QED
    BY <2>1 DEF LoopNext, Dies, loopVars
<1>1. CASE UNCHANGED loopVars
  BY <1>1, AwayKept DEF loopVars, advVars
<1>2. ASSUME NEW w \in Workers, Dies(w) PROVE AdvInv'
  BY <1>2, AwayKept DEF Dies
<1> QED
  BY <1>0, <1>1, <1>2, RunsKept DEF LoopNext

\* The step that is one of another service leaves the loop.
LEMMA LoopsAreKept == ServicesSpec => [](AdvInv /\ Len(prog.tokens) \in Nat)
<1>1. ServicesInit => LoopInit
  BY DEF ServicesInit
<1>2. ASSUME [ServicesNext]_serviceVars PROVE [LoopNext]_loopVars
  BY <1>2 DEF ServicesNext, Client, Death, Files, Direct, Peer, PlainCalls, serviceVars, LoopNext
<1>3. (AdvInv /\ Len(prog.tokens) \in Nat) /\ [ServicesNext]_serviceVars
      => (AdvInv /\ Len(prog.tokens) \in Nat)'
  BY <1>2, LoopStep
<1> QED
  BY <1>1, <1>3, LoopBegins, PTL DEF ServicesSpec

\* The invariant says what is asked of the lists.
LEMMA KeptListsTyped == AdvInv => AdvTypeOK
BY DEF AdvInv, AdvTypeOK, TuplesKept, RequestsKept, AnswersKept

\* For any programs, workers and deaths: the list of an advanced handler has a name once, and
\* its queue no request for which all has come (ntsh/tsh.c:1434, 1495).
THEOREM AdvancedListsAreTyped == ServicesSpec => []AdvTypeOK
BY LoopsAreKept, KeptListsTyped, PTL

-----------------------------------------------------------------------------
(* Direct and plain calls together.                                         *)

LEMMA CallsAreServed == ServicesSpec => [](DirectInv /\ PlainInv)
<1>1. ServicesInit => DirectInv /\ PlainInv
  BY DirectBegins, PlainBegins DEF ServicesInit
<1>2. ASSUME DirectInv /\ PlainInv, [ServicesNext]_serviceVars PROVE (DirectInv /\ PlainInv)'
  <2>1. [DirectNext]_directVars /\ [Plain!PlainNext]_plainVars
    BY <1>2 DEF ServicesNext, Client, Death, Files, Direct, Peer, PlainCalls, serviceVars
  <2> QED
    BY <1>2, <2>1, DirectStep, PlainStep
<1> QED
  BY <1>1, <1>2, PTL DEF ServicesSpec

\* However many tasks and CIDs there are, and whoever dies, nobody waits for a tuple that is
\* where he asked for it: each put serves all requests that match up to the first living one
\* that takes, and a token goes to who waits for it (cid.c:3332; ntsh/tsh.c:494, 928, 1567).
THEOREM ServicesLetNobodyWait == ServicesSpec => []NobodyWaitsBesideMatch
<1>1. DirectInv /\ PlainInv /\ AdvInv => NobodyWaitsBesideMatch
  BY PlacedIsAccounted DEF DirectInv, AdvInv, NobodyWaitsBesideMatch
<1> QED
  BY <1>1, CallsAreServed, LoopsAreKept, PTL

\* A value that was put is taken once at most, and until then it can be found, unless it has
\* been overwritten, zapped, removed, refused or lost with its handler (cid.c:3243, 3332;
\* netlib.c:257; ntsh/tsh.c:275, 337).
THEOREM ServicesAccountForPuts == ServicesSpec => []EveryPutAccounted
<1>1. DirectInv /\ PlainInv => EveryPutAccounted
  BY PlacedIsAccounted DEF DirectInv, EveryPutAccounted
<1> QED
  BY <1>1, CallsAreServed, PTL
=============================================================================
