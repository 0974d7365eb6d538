------------------------------- MODULE PortMap -------------------------------
(***************************************************************************)
(* What the port mapper promises: a finite map from keys (a logical name   *)
(* and a protocol) to a port and the process that registered it, with      *)
(* room for Capacity keys.  reply is the answer to the last request.       *)
(***************************************************************************)
EXTENDS Integers, FiniteSets

CONSTANTS Keys, Ports, Pids, Capacity, Nil

VARIABLES map, reply, running

Mapped   == {k \in Keys : map[k] # Nil}
Bindings == {<<k, map[k].port>> : k \in Mapped}

Answer(ok, count, port, entries) ==
  reply' = [ok |-> ok, count |-> count, port |-> port, entries |-> entries]

Init ==
  /\ map = [k \in Keys |-> Nil]
  /\ reply = Nil
  /\ running = TRUE

\* A registration replaces the one of the same key; it is refused only if the key is new
\* and the map is full.
Map(k, port, pid) ==
  IF k \in Mapped \/ Cardinality(Mapped) < Capacity
  THEN /\ map' = [map EXCEPT ![k] = [port |-> port, pid |-> pid]]
       /\ Answer(TRUE, 0, Nil, {})
  ELSE /\ UNCHANGED map
       /\ Answer(FALSE, 0, Nil, {})

\* Removal of a set of keys: the keys of a process, one key, or all.
Remove(gone, ok) ==
  /\ map' = [k \in Keys |-> IF k \in gone THEN Nil ELSE map[k]]
  /\ Answer(ok, Cardinality(gone), Nil, {})

UnmapPid(pid) ==
  LET gone == {k \in Mapped : map[k].pid = pid} IN Remove(gone, gone # {})

UnmapKey(key) == Remove({key} \cap Mapped, key \in Mapped)

Purge == Remove(Mapped, TRUE)

GetMap(k) ==
  /\ UNCHANGED map
  /\ IF k \in Mapped THEN Answer(TRUE, 0, map[k].port, {}) ELSE Answer(FALSE, 0, Nil, {})

GetTable ==
  /\ UNCHANGED map
  /\ Answer(Mapped # {}, Cardinality(Mapped), Nil, Bindings)

Null ==
  /\ UNCHANGED map
  /\ Answer(TRUE, Cardinality(Mapped), Nil, {})

Serve ==
  \/ \E k \in Keys, port \in Ports, pid \in Pids : Map(k, port, pid)
  \/ \E pid \in Pids : UnmapPid(pid)
  \/ \E k \in Keys : UnmapKey(k) \/ GetMap(k)
  \/ Purge \/ GetTable \/ Null

Exit == running' = FALSE /\ UNCHANGED <<map, reply>>

Next == running /\ ((Serve /\ UNCHANGED running) \/ Exit)

Spec == Init /\ [][Next]_<<map, reply, running>>
=============================================================================
