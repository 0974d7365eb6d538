-------------------------------- MODULE Pipes --------------------------------
(***************************************************************************)
(* Pipes between the programs of an application (iolib/cnf_open.c,         *)
(* cnf_write.c, cnf_read.c, cnf_close.c).  The reader registers a port     *)
(* with its PMD; the writer looks it up and connects at its first write.   *)
(* A message is its length, an echo of the length by the reader, and the   *)
(* data; a length of 0 is the end.                                         *)
(***************************************************************************)
EXTENDS Naturals, Sequences, SequencesExt

CONSTANTS
  Conduits,   \* the pipes
  Peers,      \* the programs
  Scripts     \* sets of programs: functions from Peers to sequences of calls [op, on]

PipeCall == [op : {"OPEN<", "OPEN>", "READ", "WRITE", "CLOSE<", "CLOSE>"}, on : Conduits]

\* A pipe is one connection, which the reader accepts once (cnf_read.c:31): it has one
\* writer, who closes it when he is done, and one reader.
Fits(s) ==
  /\ s \in [Peers -> Seq(PipeCall)]
  /\ \A q, r \in Peers : \A i \in DOMAIN s[q], j \in DOMAIN s[r] :
       s[q][i].on = s[r][j].on =>
         /\ s[q][i].op \in {"WRITE", "CLOSE>"} /\ s[r][j].op \in {"WRITE", "CLOSE>"} => q = r
         /\ s[q][i].op = "READ" /\ s[r][j].op = "READ" => q = r
         /\ q = r /\ i < j /\ s[q][i].op = "CLOSE>" => s[r][j].op \notin {"WRITE", "CLOSE>"}

ASSUME PipesAssumption == \A s \in Scripts : Fits(s)

VARIABLES
  script,   \* the calls of each program
  step,     \* step[q]: the call program q is in, and how far: <<call, phase>>
  mapped,   \* the pipes whose port PMD knows
  linked,   \* linked[p]: the writer has connected
  toReader, \* toReader[p]: what is on its way to the reader
  toWriter, \* toWriter[p]: the echoes on their way to the writer
  sent,     \* sent[p]: messages whose cnf_write has returned
  heard     \* heard[p]: messages whose cnf_read has returned; 0 is the end

pipeVars == <<script, step, mapped, linked, toReader, toWriter, sent, heard>>

PipeInit ==
  /\ script \in Scripts
  /\ step = [q \in Peers |-> <<1, "begin">>]
  /\ mapped = {}
  /\ linked = [p \in Conduits |-> FALSE]
  /\ toReader = [p \in Conduits |-> <<>>] /\ toWriter = [p \in Conduits |-> <<>>]
  /\ sent = [p \in Conduits |-> <<>>] /\ heard = [p \in Conduits |-> <<>>]

Over(q)          == step[q][1] > Len(script[q])
In(q, op, phase) == ~Over(q) /\ script[q][step[q][1]].op = op /\ step[q][2] = phase
On(q)            == script[q][step[q][1]].on
Phase(q, phase)  == step' = [step EXCEPT ![q][2] = phase]
Return(q)        == step' = [step EXCEPT ![q] = <<@[1] + 1, "begin">>]
Wire(p, x)       == toReader' = [toReader EXCEPT ![p] = Append(@, x)]
Message(p)       == Len(sent[p]) + 1

\* cnf_open, as reader or as writer, whose connection is delayed to the first write.
OpenToRead(q) ==
  /\ In(q, "OPEN<", "begin") /\ mapped' = mapped \cup {On(q)} /\ Return(q)
  /\ UNCHANGED <<script, linked, toReader, toWriter, sent, heard>>
OpenToWrite(q) ==
  /\ In(q, "OPEN>", "begin") /\ Return(q)
  /\ UNCHANGED <<script, mapped, linked, toReader, toWriter, sent, heard>>

\* cnf_write: while PMD does not know the port, it sleeps.  Then the length is sent, ...
SendLength(q) ==
  /\ In(q, "WRITE", "begin") /\ (linked[On(q)] \/ On(q) \in mapped)
  /\ linked' = [linked EXCEPT ![On(q)] = TRUE]
  /\ Wire(On(q), "length") /\ Phase(q, "sync")
  /\ UNCHANGED <<script, mapped, toWriter, sent, heard>>
\* ... and the data when the length has come back.
\* Mutant of SendData: it is not waited for.
SendDataAtOnce(q) ==
  /\ In(q, "WRITE", "sync")
  /\ Wire(On(q), Message(On(q))) /\ Return(q)
  /\ sent' = [sent EXCEPT ![On(q)] = Append(@, Message(On(q)))]
  /\ UNCHANGED <<script, mapped, linked, toWriter, heard>>
SendData(q) ==
  /\ In(q, "WRITE", "sync") /\ toWriter[On(q)] # <<>>
  /\ toWriter' = [toWriter EXCEPT ![On(q)] = Tail(@)]
  /\ Wire(On(q), Message(On(q))) /\ Return(q)
  /\ sent' = [sent EXCEPT ![On(q)] = Append(@, Message(On(q)))]
  /\ UNCHANGED <<script, mapped, linked, heard>>

\* cnf_read: a connection is accepted if there is none, the length read and sent back, ...
Hears(p, m) == heard' = [heard EXCEPT ![p] = Append(@, m)]
Takes(p)    == toReader' = [toReader EXCEPT ![p] = Tail(@)]
ReadLength(q) ==
  /\ In(q, "READ", "begin") /\ toReader[On(q)] # <<>>
  /\ Takes(On(q))
  /\ toWriter' = [toWriter EXCEPT ![On(q)] = Append(@, "echo")]
  /\ IF Head(toReader[On(q)]) = "end" THEN Hears(On(q), 0) /\ Return(q)
     ELSE Phase(q, "data") /\ UNCHANGED heard
  /\ UNCHANGED <<script, mapped, linked, sent>>
\* ... and then the data.
ReadData(q) ==
  /\ In(q, "READ", "data") /\ toReader[On(q)] # <<>>
  /\ Takes(On(q)) /\ Hears(On(q), Head(toReader[On(q)])) /\ Return(q)
  /\ UNCHANGED <<script, mapped, linked, toWriter, sent>>

\* cnf_close; a writer that has not written has no connection to send the end on.
\* Mutant of CloseToWrite: no end is sent.
CloseToWriteSilent(q) ==
  /\ In(q, "CLOSE>", "begin") /\ Return(q)
  /\ UNCHANGED <<script, mapped, linked, toReader, toWriter, sent, heard>>
CloseToWrite(q) ==
  /\ In(q, "CLOSE>", "begin") /\ Return(q)
  /\ IF linked[On(q)] THEN Wire(On(q), "end") ELSE UNCHANGED toReader
  /\ UNCHANGED <<script, mapped, linked, toWriter, sent, heard>>
CloseToRead(q) ==
  /\ In(q, "CLOSE<", "begin") /\ mapped' = mapped \ {On(q)} /\ Return(q)
  /\ UNCHANGED <<script, linked, toReader, toWriter, sent, heard>>

PeerStep(q) ==
  \/ OpenToRead(q) \/ OpenToWrite(q) \/ SendLength(q) \/ SendData(q)
  \/ ReadLength(q) \/ ReadData(q) \/ CloseToWrite(q) \/ CloseToRead(q)
PipeNext == \E q \in Peers : PeerStep(q)

PipeFairness == \A q \in Peers : WF_pipeVars(PeerStep(q))
PipeSpec == PipeInit /\ [][PipeNext]_pipeVars /\ PipeFairness

-----------------------------------------------------------------------------
(* Properties. *)

\* A write returns only when the reader has begun to read that message, so never more than
\* one is under way; messages are read in the order written, and the end last (cnf_write.c:63).
Begun(p) == Len(heard[p]) + (IF \E q \in Peers : In(q, "READ", "data") /\ On(q) = p THEN 1 ELSE 0)
PipesRendezvous ==
  \A p \in Conduits :
    /\ Len(sent[p]) <= Begun(p)
    /\ \A k \in DOMAIN heard[p] : heard[p][k] \in {k, 0}
    /\ \A k \in DOMAIN heard[p] : heard[p][k] = 0 => k = Len(heard[p]) /\ k = Len(sent[p]) + 1

\* Programs whose calls fit together all come to their end, whichever starts first and
\* though every write waits for its read (cnf_write.c:43, cnf_read.c:31, cnf_close.c:44).
PipesEnd == <>(\A q \in Peers : Over(q))
=============================================================================
