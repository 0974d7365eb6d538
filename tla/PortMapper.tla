----------------------------- MODULE PortMapper -----------------------------
(***************************************************************************)
(* The port mapper daemon (PMD, pmd/pmd.c; the same routines serve the     *)
(* applications of a login inside CID, cid/cid.c:2288-2680): a table of    *)
(* slots, each with a key (mapid and protocol), a port, the pid that       *)
(* registered it and a USED mark.  Removal only clears the mark, so a slot *)
(* remembers its last key, and getSlot prefers that slot for that key      *)
(* whether it is in use or not.                                            *)
(*                                                                         *)
(* initOther clears the marks only; a slot never written holds what malloc *)
(* returned.  The table is the first block on a fresh heap, so that is the *)
(* empty name: NoKey, which no client registers.                           *)
(***************************************************************************)
EXTENDS Integers, FiniteSets

CONSTANTS
  TableSize,  \* TABLE_SIZE, 200 in pmd.h
  Keys,       \* <mapid, protocol> pairs
  Ports,
  Pids,       \* process ids, > 0
  NoKey,      \* the key of a slot never written
  Nil         \* no port, no answer, not mapped

ASSUME TableSizeAssumption == TableSize \in Nat \ {0}
ASSUME NoKeyAssumption == NoKey \notin Keys
ASSUME NilAssumption ==
  /\ Nil \notin Ports
  /\ Nil \notin [port: Ports, pid: Pids]

VARIABLES
  table,    \* [Slots -> Entry]
  reply,    \* the answer to the last request
  running   \* FALSE after OpExit or SIGTERM

vars == <<table, reply, running>>

Slots == 0 .. (TableSize - 1)

Entry == [key: Keys \cup {NoKey}, port: Ports \cup {Nil}, pid: Pids \cup {Nil}, used: BOOLEAN]

Used      == {i \in Slots : table[i].used}
Keeping(k) == {i \in Slots : table[i].key = k}   \* slots whose last key is k

First(S) == CHOOSE i \in S : \A j \in S : i <= j

Answer(ok, count, port, entries) ==
  reply' = [ok |-> ok, count |-> count, port |-> port, entries |-> entries]

\* Mutant: the marks are not cleared.
InitUnmarked ==
  /\ table = [i \in Slots |-> [key |-> NoKey, port |-> Nil, pid |-> Nil, used |-> TRUE]]
  /\ reply = Nil
  /\ running = TRUE

\* initOther
Init ==
  /\ table = [i \in Slots |-> [key |-> NoKey, port |-> Nil, pid |-> Nil, used |-> FALSE]]
  /\ reply = Nil
  /\ running = TRUE

\* Mutant: the scan stops at the first unused slot.
getSlotFirstUnused(k) ==
  LET ends == Keeping(k) \cup (Slots \ Used) IN IF ends # {} THEN First(ends) ELSE -1

\* getSlot: the slot that keeps the key, used or not, else the first unused one, else -1.
getSlot(k) ==
  IF Keeping(k) # {} THEN First(Keeping(k))
  ELSE IF Slots \ Used # {} THEN First(Slots \ Used)
  ELSE -1

OpMap(k, port, pid) ==
  IF getSlot(k) # -1
  THEN /\ table' = [table EXCEPT ![getSlot(k)] =
             [key |-> k, port |-> port, pid |-> pid, used |-> TRUE]]
       /\ Answer(TRUE, 0, Nil, {})
  ELSE /\ UNCHANGED table
       /\ Answer(FALSE, 0, Nil, {})

\* Mark slots UNUSED and answer how many.
Clear(slots, ok) ==
  /\ table' = [i \in Slots |-> IF i \in slots THEN [table[i] EXCEPT !.used = FALSE] ELSE table[i]]
  /\ Answer(ok, Cardinality(slots), Nil, {})

\* OpUnmap with a pid > 0: unmapPid clears every entry of the process.
unmapPid(pid) ==
  LET gone == {i \in Used : table[i].pid = pid} IN Clear(gone, gone # {})

\* OpUnmap with pid 0: unmapMapid clears the first used entry of the key.
unmapMapid(k) ==
  LET hits == Keeping(k) \cap Used
  IN  IF hits # {} THEN Clear({First(hits)}, TRUE) ELSE Clear({}, FALSE)

\* Mutant: the lookup ignores the mark and answers a stale port.
OpGetMapStale(k) ==
  /\ UNCHANGED table
  /\ IF Keeping(k) # {} THEN Answer(TRUE, 0, table[First(Keeping(k))].port, {})
     ELSE Answer(FALSE, 0, Nil, {})

OpGetMap(k) ==
  /\ UNCHANGED table
  /\ LET hits == Keeping(k) \cap Used
     IN  IF hits # {} THEN Answer(TRUE, 0, table[First(hits)].port, {})
         ELSE Answer(FALSE, 0, Nil, {})

\* OpGetTable and sendTable
OpGetTable ==
  /\ UNCHANGED table
  /\ Answer(Used # {}, Cardinality(Used), Nil, {<<table[i].key, table[i].port>> : i \in Used})

OpPurgeTable == Clear(Used, TRUE)

OpNull ==
  /\ UNCHANGED table
  /\ Answer(TRUE, Cardinality(Used), Nil, {})

\* start: the daemon serves one connection at a time.
Serve ==
  \/ \E k \in Keys, port \in Ports, pid \in Pids : OpMap(k, port, pid)
  \/ \E pid \in Pids : unmapPid(pid)
  \/ \E k \in Keys : unmapMapid(k) \/ OpGetMap(k)
  \/ OpPurgeTable \/ OpGetTable \/ OpNull

\* OpExit, sigtermHandler
OpExit == running' = FALSE /\ UNCHANGED <<table, reply>>

Next == running /\ ((Serve /\ UNCHANGED running) \/ OpExit)

Spec == Init /\ [][Next]_vars

-----------------------------------------------------------------------------
\* Every entry is a table_t, and an entry in use has been written by OpMap.
TypeOK ==
  /\ table \in [Slots -> Entry]
  /\ running \in BOOLEAN
  /\ \A i \in Used : table[i].key \in Keys /\ table[i].port \in Ports /\ table[i].pid \in Pids

\* No two slots keep the same key, in use or not.  getSlot may take the first unused slot
\* for a new key only because no later slot still keeps that key: otherwise a lookup
\* (OpGetMap, unmapMapid) would stop at one of two entries of a name and miss the other.
KeysDistinct ==
  \A i, j \in Slots :
    table[i].key # NoKey /\ table[i].key = table[j].key => i = j

\* The table implements a finite map: every operation changes and answers as PortMap's
\* does, so the latest registration of a name is the one found and a registration is
\* refused only when TABLE_SIZE names are mapped.
MapOf == [k \in Keys |->
            IF Keeping(k) \cap Used = {} THEN Nil
            ELSE LET i == First(Keeping(k) \cap Used)
                 IN  [port |-> table[i].port, pid |-> table[i].pid]]

PM == INSTANCE PortMap WITH map <- MapOf, Capacity <- TableSize

ImplementsPortMap == PM!Spec
=============================================================================
