-------------------------- MODULE PortMapperProofs --------------------------
(***************************************************************************)
(* Theorems about the port mapper's table, for every table size and every  *)
(* set of keys, ports and processes:                                       *)
(*   - TypeCorrect and KeysAreDistinct: the inductive invariant;           *)
(*   - TableIsMap: the table implements the finite map of PortMap.         *)
(***************************************************************************)
EXTENDS PortMapper, ListProofs

-----------------------------------------------------------------------------
(* The search for a slot. *)

\* The first of a non-empty set of slots is one of them: the loops of pmd.c that stop at
\* the first hit return a hit.
LEMMA FirstIn ==
  ASSUME NEW S, S \subseteq Slots, S # {}
  PROVE  First(S) \in S
<1>1. S \subseteq Nat
  BY TableSizeAssumption DEF Slots
<1>2. \E i \in S : \A j \in S : i <= j
  BY <1>1, LeastIn
<1> QED
  BY <1>2 DEF First

\* getSlot fails only if the key is kept nowhere and every slot is in use; else it finds
\* the slot that keeps the key, or an unused one when none does.
LEMMA SlotFound ==
  ASSUME NEW k
  PROVE  /\ getSlot(k) = -1 <=> Keeping(k) = {} /\ Used = Slots
         /\ getSlot(k) # -1 =>
              /\ getSlot(k) \in Slots
              /\ \/ table[getSlot(k)].key = k
                 \/ Keeping(k) = {} /\ getSlot(k) \notin Used
<1>1. -1 \notin Slots
  BY DEF Slots
<1>2. Keeping(k) \subseteq Slots /\ Slots \ Used \subseteq Slots /\ Used \subseteq Slots
  BY DEF Keeping, Used
<1>3. CASE Keeping(k) # {}
  <2>1. First(Keeping(k)) \in Keeping(k)
    BY <1>2, <1>3, FirstIn
  <2> QED
    BY <1>1, <1>3, <2>1 DEF getSlot, Keeping
<1>4. CASE Keeping(k) = {} /\ Slots \ Used # {}
  <2>1. First(Slots \ Used) \in Slots \ Used
    BY <1>2, <1>4, FirstIn
  <2> QED
    BY <1>1, <1>4, <2>1 DEF getSlot
<1>5. CASE Keeping(k) = {} /\ Slots \ Used = {}
  BY <1>2, <1>5 DEF getSlot
<1> QED
  BY <1>3, <1>4, <1>5

\* The first used entry of a key is a used slot that keeps it.
LEMMA HitFound ==
  ASSUME NEW k, Keeping(k) \cap Used # {}
  PROVE  First(Keeping(k) \cap Used) \in Keeping(k) \cap Used
BY FirstIn DEF Keeping

-----------------------------------------------------------------------------
(* The inductive invariant. *)

Inv == TypeOK /\ KeysDistinct

\* The empty table that initOther leaves satisfies the invariant.
LEMMA InitInv == Init => Inv
BY DEF Init, Inv, TypeOK, KeysDistinct, Entry, Used

\* Clearing marks keeps the invariant: entries stay what they are.
LEMMA ClearInv ==
  ASSUME Inv, NEW slots, NEW ok, Clear(slots, ok), UNCHANGED running
  PROVE  Inv'
<1> USE DEF Inv
<1>1. table' = [i \in Slots |-> IF i \in slots THEN [table[i] EXCEPT !.used = FALSE]
                                               ELSE table[i]]
  BY DEF Clear
<1>2. \A i \in Slots : /\ table'[i] \in Entry
                       /\ table'[i].key = table[i].key
                       /\ table'[i].port = table[i].port
                       /\ table'[i].pid = table[i].pid
                       /\ table'[i].used => table[i].used
  BY <1>1 DEF TypeOK, Entry
<1>3. TypeOK'
  BY <1>1, <1>2 DEF TypeOK, Used
<1>4. KeysDistinct'
  BY <1>2 DEF KeysDistinct
<1> QED
  BY <1>3, <1>4

\* A registration keeps it: no other slot keeps the key it writes.
LEMMA MapInv ==
  ASSUME Inv, NEW k \in Keys, NEW port \in Ports, NEW pid \in Pids,
         OpMap(k, port, pid), UNCHANGED running
  PROVE  Inv'
<1> USE DEF Inv
<1>1. CASE getSlot(k) = -1
  BY <1>1 DEF OpMap, TypeOK, KeysDistinct, Used
<1>2. CASE getSlot(k) # -1
  <2> DEFINE s == getSlot(k)
             e == [key |-> k, port |-> port, pid |-> pid, used |-> TRUE]
  <2>1. s \in Slots /\ (table[s].key = k \/ Keeping(k) = {})
    BY <1>2, SlotFound
  <2>2. table' = [table EXCEPT ![s] = e]
    BY <1>2 DEF OpMap
  <2> HIDE DEF s
  <2>3. e \in Entry
    BY DEF Entry
  <2>4. TypeOK'
    BY <2>1, <2>2, <2>3 DEF TypeOK, Used
  <2>5. ASSUME NEW i \in Slots, i # s PROVE table[i].key # k
    BY <2>1, <2>5, NoKeyAssumption DEF KeysDistinct, Keeping
  <2>6. KeysDistinct'
    BY <2>1, <2>2, <2>5 DEF KeysDistinct, TypeOK
  <2> QED
    BY <2>4, <2>6
<1> QED
  BY <1>1, <1>2

\* Every operation of the daemon keeps the invariant: only OpMap writes a key, and the
\* removals only clear marks.
LEMMA NextInv == Inv /\ [Next]_vars => Inv'
<1> SUFFICES ASSUME Inv, [Next]_vars PROVE Inv'
  OBVIOUS
<1>1. ASSUME NEW k \in Keys, NEW port \in Ports, NEW pid \in Pids,
             OpMap(k, port, pid), UNCHANGED running
      PROVE  Inv'
  BY <1>1, MapInv
<1>2. ASSUME NEW pid \in Pids, unmapPid(pid), UNCHANGED running
      PROVE  Inv'
  BY <1>2, ClearInv DEF unmapPid
<1>3. ASSUME NEW k \in Keys, unmapMapid(k), UNCHANGED running
      PROVE  Inv'
  BY <1>3, ClearInv DEF unmapMapid
<1>4. ASSUME OpPurgeTable, UNCHANGED running
      PROVE  Inv'
  BY <1>4, ClearInv DEF OpPurgeTable
<1>5. ASSUME UNCHANGED table, running' \in BOOLEAN
      PROVE  Inv'
  BY <1>5 DEF Inv, TypeOK, KeysDistinct, Used
<1>6. running \in BOOLEAN
  BY DEF Inv, TypeOK
<1> QED
  BY <1>1, <1>2, <1>3, <1>4, <1>5, <1>6
  DEF Next, Serve, OpGetMap, OpGetTable, OpNull, OpExit, vars

\* Every entry of the table stays a table_t, and an entry in use has been registered.
THEOREM TypeCorrect == Spec => []TypeOK
<1>1. Inv => TypeOK
  BY DEF Inv
<1> QED
  BY <1>1, InitInv, NextInv, PTL DEF Spec

\* No two slots ever keep the same key, so the first hit of a lookup is the only one.
THEOREM KeysAreDistinct == Spec => []KeysDistinct
<1>1. Inv => KeysDistinct
  BY DEF Inv
<1> QED
  BY <1>1, InitInv, NextInv, PTL DEF Spec

-----------------------------------------------------------------------------
(* Refinement: the table seen as a map. *)

\* PortMap counts as PortMapper does.
LEMMA SameCardinality == \A S : PM!Cardinality(S) = Cardinality(S)
BY DEF PM!Cardinality, Cardinality

\* The map binds the key of every used slot to that slot's port and pid, and no other key.
ReadsSlots ==
  /\ \A i \in Used :
       /\ table[i].key \in Keys
       /\ MapOf[table[i].key] = [port |-> table[i].port, pid |-> table[i].pid]
       /\ MapOf[table[i].key] # Nil
  /\ \A k \in Keys : Keeping(k) \cap Used = {} => MapOf[k] = Nil

\* It does in every state of the invariant.
LEMMA MapOfSlots == Inv => ReadsSlots
<1> SUFFICES ASSUME Inv PROVE ReadsSlots
  OBVIOUS
<1>1. ASSUME NEW i \in Used
      PROVE  /\ table[i].key \in Keys
             /\ MapOf[table[i].key] = [port |-> table[i].port, pid |-> table[i].pid]
             /\ MapOf[table[i].key] # Nil
  <2> DEFINE k == table[i].key
  <2>1. k \in Keys /\ table[i].port \in Ports /\ table[i].pid \in Pids /\ i \in Slots
    BY DEF Inv, TypeOK, Used
  <2>2. i \in Keeping(k) \cap Used
    BY <2>1 DEF Keeping
  <2>3. \A j \in Keeping(k) \cap Used : j = i
    BY <2>1, NoKeyAssumption DEF Inv, KeysDistinct, Keeping
  <2>4. First(Keeping(k) \cap Used) = i
    BY <2>2, <2>3, HitFound
  <2>5. MapOf[k] = [port |-> table[i].port, pid |-> table[i].pid]
    BY <2>1, <2>2, <2>4 DEF MapOf
  <2>6. [port |-> table[i].port, pid |-> table[i].pid] # Nil
    BY <2>1, NilAssumption
  <2> QED
    BY <2>1, <2>5, <2>6
<1>2. ASSUME NEW k \in Keys, Keeping(k) \cap Used = {}
      PROVE  MapOf[k] = Nil
  BY <1>2 DEF MapOf
<1> QED
  BY <1>1, <1>2 DEF ReadsSlots

\* Every mapped key is the key of a used slot.
LEMMA MappedSlots ==
  Inv => PM!Mapped = {table[i].key : i \in Used}
<1> SUFFICES ASSUME Inv PROVE PM!Mapped = {table[i].key : i \in Used}
  OBVIOUS
<1>1. ASSUME NEW i \in Used PROVE table[i].key \in PM!Mapped
  BY MapOfSlots DEF ReadsSlots, PM!Mapped
<1>2. ASSUME NEW k \in PM!Mapped PROVE k \in {table[i].key : i \in Used}
  <2>1. k \in Keys /\ Keeping(k) \cap Used # {}
    BY <1>2, MapOfSlots DEF ReadsSlots, PM!Mapped
  <2> QED
    BY <2>1 DEF Keeping
<1> QED
  BY <1>1, <1>2

\* Two slots in use have different keys.
LEMMA UsedKeysDistinct ==
  ASSUME Inv, NEW i \in Used, NEW j \in Used, table[i].key = table[j].key
  PROVE  i = j
BY NoKeyAssumption DEF Inv, TypeOK, KeysDistinct, Used

\* Used slots and their keys are as many: counting marks counts mappings.
LEMMA CountSlots ==
  ASSUME Inv, NEW T, T \subseteq Used
  PROVE  Cardinality({table[i].key : i \in T}) = Cardinality(T)
<1> DEFINE K == {table[i].key : i \in T}
           f == [i \in T |-> table[i].key]
<1>1. IsFiniteSet(T)
  <2>1. 0 \in Int /\ TableSize - 1 \in Int
    BY TableSizeAssumption
  <2>2. IsFiniteSet(Slots)
    BY <2>1, FS_Interval DEF Slots
  <2>3. T \in SUBSET Slots
    BY DEF Used
  <2> QED
    BY <2>2, <2>3, FS_Subset
<1>2. \A i, j \in T : f[i] = f[j] => i = j
  BY UsedKeysDistinct
<1>3. f \in Bijection(T, K)
  BY <1>2 DEF Bijection, Injection, Surjection, IsInjective
<1> QED
  BY <1>1, <1>3, FS_Bijection DEF ExistsBijection

\* Clearing the marks of used slots removes their keys from the map, and the answer
\* counts them.
LEMMA ClearRemoves ==
  ASSUME Inv, NEW slots, slots \subseteq Used, NEW ok, Clear(slots, ok), UNCHANGED running
  PROVE  PM!Remove({table[i].key : i \in slots}, ok)
<1> DEFINE gone == {table[i].key : i \in slots}
<1>1. Inv'
  BY ClearInv
<1>2. slots \subseteq Slots /\ Used \subseteq Slots
  BY DEF Used
<1>3. \A i \in Slots : /\ table'[i].key = table[i].key
                       /\ table'[i].port = table[i].port
                       /\ table'[i].pid = table[i].pid
                       /\ table'[i].used = (table[i].used /\ i \notin slots)
  BY DEF Clear, Inv, TypeOK, Entry
<1>4. Used' = Used \ slots
  BY <1>2, <1>3 DEF Used
<1>5. ReadsSlots'
  BY <1>1, MapOfSlots, PTL
<1>6. ASSUME NEW k \in Keys
      PROVE  MapOf'[k] = IF k \in gone THEN Nil ELSE MapOf[k]
  <2>1. CASE k \in gone
    <3>1. PICK i \in slots : table[i].key = k
      BY <2>1
    <3>2. \A j \in Used : table[j].key = k => j = i
      BY <3>1, UsedKeysDistinct
    <3>3. Keeping(k)' \cap Used' = {}
      BY <1>2, <1>3, <1>4, <3>1, <3>2 DEF Keeping
    <3> QED
      BY <1>5, <2>1, <3>3 DEF ReadsSlots
  <2>2. CASE k \notin gone /\ Keeping(k) \cap Used # {}
    <3>1. PICK i \in Used : i \in Slots /\ table[i].key = k
      BY <2>2 DEF Keeping
    <3>2. i \in Used'
      BY <1>4, <2>2, <3>1
    <3>3. MapOf[k] = [port |-> table[i].port, pid |-> table[i].pid]
      BY <3>1, MapOfSlots DEF ReadsSlots
    <3>4. MapOf'[table'[i].key] = [port |-> table'[i].port, pid |-> table'[i].pid]
      BY <1>5, <3>2 DEF ReadsSlots
    <3> QED
      BY <1>3, <2>2, <3>1, <3>3, <3>4
  <2>3. CASE k \notin gone /\ Keeping(k) \cap Used = {}
    <3>1. Keeping(k)' \cap Used' = {}
      BY <1>2, <1>3, <1>4, <2>3 DEF Keeping
    <3> QED
      BY <1>5, <2>3, <3>1, MapOfSlots DEF ReadsSlots
  <2> QED
    BY <2>1, <2>2, <2>3
<1>7. MapOf' = [k \in Keys |-> IF k \in gone THEN Nil ELSE MapOf[k]]
  BY <1>6 DEF MapOf
<1>8. Cardinality(gone) = Cardinality(slots)
  BY CountSlots
<1> QED
  BY <1>7, <1>8, SameCardinality DEF PM!Remove, Clear, PM!Answer, Answer

\* A registration binds its key and no other, and is refused only when the map is full.
LEMMA MapMaps ==
  ASSUME Inv, NEW k \in Keys, NEW port \in Ports, NEW pid \in Pids,
         OpMap(k, port, pid), UNCHANGED running
  PROVE  PM!Map(k, port, pid)
<1>1. PM!Mapped = {table[i].key : i \in Used}
  BY MappedSlots
<1>2. PM!Cardinality(PM!Mapped) = Cardinality(Used)
  BY <1>1, CountSlots, SameCardinality
<1>3. Used \subseteq Slots
  BY DEF Used
<1>4. IsFiniteSet(Slots) /\ Cardinality(Slots) = TableSize
  <2>1. 0 \in Int /\ TableSize - 1 \in Int
    BY TableSizeAssumption
  <2>2. IsFiniteSet(Slots) /\ Cardinality(Slots) = IF 0 > TableSize - 1 THEN 0 ELSE TableSize - 1 - 0 + 1
    BY <2>1, FS_Interval, Zenon DEF Slots
  <2> QED
    BY <2>2, TableSizeAssumption
<1>5. /\ Cardinality(Used) \in Nat
      /\ Cardinality(Used) <= TableSize
      /\ Cardinality(Used) = TableSize => Used = Slots
  <2>1. IsFiniteSet(Used) /\ Cardinality(Used) <= Cardinality(Slots)
        /\ (Cardinality(Slots) = Cardinality(Used) => Slots = Used)
    BY <1>3, <1>4, FS_Subset
  <2> QED
    BY <1>4, <2>1, FS_CardinalityType
<1>6. CASE getSlot(k) = -1
  <2>1. Keeping(k) = {} /\ Used = Slots
    BY <1>6, SlotFound
  <2>2. k \notin PM!Mapped
    BY <1>1, <1>3, <2>1 DEF Keeping
  <2>3. ~(PM!Cardinality(PM!Mapped) < TableSize)
    BY <1>2, <1>4, <2>1, TableSizeAssumption
  <2>4. UNCHANGED MapOf
    BY <1>6 DEF OpMap, MapOf, Keeping, Used
  <2> QED
    BY <1>6, <2>2, <2>3, <2>4 DEF OpMap, PM!Map, Answer, PM!Answer
<1>7. CASE getSlot(k) # -1
  <2> DEFINE s == getSlot(k)
             e == [key |-> k, port |-> port, pid |-> pid, used |-> TRUE]
  <2>1. /\ s \in Slots
        /\ table[s].key = k \/ (Keeping(k) = {} /\ s \notin Used)
    BY <1>7, SlotFound
  <2>2. table' = [table EXCEPT ![s] = e] /\ Answer(TRUE, 0, Nil, {})
    BY <1>7 DEF OpMap
  <2> HIDE DEF s
  <2>3. /\ table'[s] = e
        /\ \A i \in Slots : i # s => table'[i] = table[i]
    BY <2>1, <2>2 DEF Inv, TypeOK
  <2>4. Used' = Used \cup {s}
    BY <2>1, <2>3 DEF Used
  <2>5. k \in PM!Mapped \/ PM!Cardinality(PM!Mapped) < TableSize
    <3>1. CASE s \in Used
      BY <1>1, <2>1, <3>1
    <3>2. CASE s \notin Used
      BY <1>2, <1>5, <2>1, <3>2, TableSizeAssumption
    <3> QED
      BY <3>1, <3>2
  <2>6. Inv'
    BY MapInv
  <2>7. ReadsSlots'
    BY <2>6, MapOfSlots, PTL
  <2>8. MapOf'[k] = [port |-> port, pid |-> pid]
    BY <2>3, <2>4, <2>7 DEF ReadsSlots
  <2>9. ASSUME NEW j \in Keys, j # k PROVE MapOf'[j] = MapOf[j]
    <3>1. CASE Keeping(j) \cap Used = {}
      <4>1. Keeping(j)' \cap Used' = {}
        BY <1>3, <2>3, <2>4, <2>9, <3>1 DEF Keeping
      <4> QED
        BY <2>7, <3>1, <4>1, MapOfSlots DEF ReadsSlots
    <3>2. CASE Keeping(j) \cap Used # {}
      <4>1. PICK i \in Used : i \in Slots /\ table[i].key = j
        BY <3>2 DEF Keeping
      <4>2. i # s
        BY <2>1, <2>9, <4>1
      <4>3. i \in Used' /\ table'[i] = table[i]
        BY <2>3, <2>4, <4>1, <4>2
      <4>4. MapOf'[table'[i].key] = [port |-> table'[i].port, pid |-> table'[i].pid]
        BY <2>7, <4>3 DEF ReadsSlots
      <4>5. MapOf[table[i].key] = [port |-> table[i].port, pid |-> table[i].pid]
        BY MapOfSlots DEF ReadsSlots
      <4> QED
        BY <4>1, <4>3, <4>4, <4>5
    <3> QED
      BY <3>1, <3>2
  <2>10. MapOf' = [MapOf EXCEPT ![k] = [port |-> port, pid |-> pid]]
    BY <2>8, <2>9 DEF MapOf
  <2> QED
    BY <2>2, <2>5, <2>10 DEF PM!Map, Answer, PM!Answer
<1> QED
  BY <1>6, <1>7

\* The fields of a binding.
LEMMA MapOfFields ==
  ASSUME Inv, NEW i \in Used
  PROVE  MapOf[table[i].key].port = table[i].port /\ MapOf[table[i].key].pid = table[i].pid
<1> DEFINE bound == [port |-> table[i].port, pid |-> table[i].pid]
<1>1. MapOf[table[i].key] = bound
  BY MapOfSlots DEF ReadsSlots
<1>2. bound.port = table[i].port /\ bound.pid = table[i].pid
  OBVIOUS
<1> QED
  BY <1>1, <1>2, Zenon

\* A lookup answers what the map binds, and the table is sent as the map's bindings.
LEMMA LookupReads ==
  ASSUME Inv
  PROVE  /\ \A k \in Keys : OpGetMap(k) => PM!GetMap(k)
         /\ OpGetTable => PM!GetTable
         /\ OpNull => PM!Null
<1>1. PM!Mapped = {table[i].key : i \in Used} /\ PM!Cardinality(PM!Mapped) = Cardinality(Used)
  BY MappedSlots, CountSlots, SameCardinality
<1>2. ASSUME UNCHANGED table PROVE UNCHANGED MapOf
  BY <1>2 DEF MapOf, Keeping, Used
<1>3. \A k \in Keys : k \in PM!Mapped <=> Keeping(k) \cap Used # {}
  BY <1>1 DEF Keeping, Used
<1>4. ASSUME NEW k \in Keys, OpGetMap(k) PROVE PM!GetMap(k)
  <2>1. CASE k \in PM!Mapped
    <3> DEFINE i == First(Keeping(k) \cap Used)
    <3>1. Keeping(k) \cap Used # {} /\ i \in Keeping(k) \cap Used
      BY <1>3, <2>1, HitFound
    <3>2. i \in Used /\ table[i].key = k
      BY <3>1 DEF Keeping
    <3>3. MapOf[k].port = table[i].port
      BY <3>2, MapOfFields
    <3> QED
      BY <1>2, <1>4, <2>1, <3>1, <3>3 DEF OpGetMap, PM!GetMap, Answer, PM!Answer
  <2>2. CASE k \notin PM!Mapped
    BY <1>2, <1>3, <1>4, <2>2 DEF OpGetMap, PM!GetMap, Answer, PM!Answer
  <2> QED
    BY <2>1, <2>2
<1>5. OpGetTable => PM!GetTable
  <2>1. \A i \in Used : MapOf[table[i].key].port = table[i].port
    BY MapOfFields
  <2>2. PM!Bindings = {<<table[i].key, table[i].port>> : i \in Used}
    BY <1>1, <2>1 DEF PM!Bindings
  <2>3. PM!Mapped # {} <=> Used # {}
    BY <1>1
  <2> QED
    BY <1>1, <1>2, <2>2, <2>3 DEF OpGetTable, PM!GetTable, Answer, PM!Answer
<1>6. OpNull => PM!Null
  BY <1>1, <1>2 DEF OpNull, PM!Null, Answer, PM!Answer
<1> QED
  BY <1>4, <1>5, <1>6

\* Removal by process, by key and of all.
LEMMA RemovalRemoves ==
  ASSUME Inv, UNCHANGED running
  PROVE  /\ \A pid \in Pids : unmapPid(pid) => PM!UnmapPid(pid)
         /\ \A k \in Keys : unmapMapid(k) => PM!UnmapKey(k)
         /\ OpPurgeTable => PM!Purge
<1>1. PM!Mapped = {table[i].key : i \in Used}
  BY MappedSlots
<1>2. ASSUME NEW pid \in Pids, unmapPid(pid) PROVE PM!UnmapPid(pid)
  <2> DEFINE slots == {i \in Used : table[i].pid = pid}
             gone == {table[i].key : i \in slots}
  <2>1. PM!Remove(gone, slots # {})
    BY <1>2, ClearRemoves DEF unmapPid
  <2>2. \A i \in Used : MapOf[table[i].key].pid = table[i].pid
    BY MapOfFields
  <2>3. {k \in PM!Mapped : MapOf[k].pid = pid} = gone
    BY <1>1, <2>2
  <2>4. gone # {} <=> slots # {}
    OBVIOUS
  <2> QED
    BY <2>1, <2>3, <2>4 DEF PM!UnmapPid
<1>3. ASSUME NEW k \in Keys, unmapMapid(k) PROVE PM!UnmapKey(k)
  <2>1. CASE Keeping(k) \cap Used # {}
    <3> DEFINE i == First(Keeping(k) \cap Used)
    <3>1. i \in Used /\ table[i].key = k
      BY <2>1, HitFound DEF Keeping
    <3>2. Clear({i}, TRUE)
      BY <1>3, <2>1 DEF unmapMapid
    <3> HIDE DEF i
    <3>3. PM!Remove({table[j].key : j \in {i}}, TRUE)
      BY <3>1, <3>2, ClearRemoves
    <3>4. {table[j].key : j \in {i}} = {k} \cap PM!Mapped /\ k \in PM!Mapped
      BY <1>1, <3>1
    <3> QED
      BY <3>3, <3>4 DEF PM!UnmapKey
  <2>2. CASE Keeping(k) \cap Used = {}
    <3>1. Clear({}, FALSE)
      BY <1>3, <2>2 DEF unmapMapid
    <3>2. PM!Remove({table[j].key : j \in {}}, FALSE)
      BY <3>1, ClearRemoves
    <3>3. k \notin PM!Mapped
      BY <1>1, <2>2 DEF Keeping, Used
    <3>4. {table[j].key : j \in {}} = {k} \cap PM!Mapped
      BY <3>3
    <3>5. PM!Remove({k} \cap PM!Mapped, FALSE)
      BY <3>2, <3>4, Zenon
    <3>6. (k \in PM!Mapped) = FALSE
      BY <3>3
    <3> QED
      BY <3>5, <3>6, Zenon DEF PM!UnmapKey
  <2> QED
    BY <2>1, <2>2
<1>4. OpPurgeTable => PM!Purge
  BY <1>1, ClearRemoves DEF OpPurgeTable, PM!Purge
<1> QED
  BY <1>2, <1>3, <1>4

\* A table without a used slot is the empty map.
LEMMA InitRefines == Init => PM!Init
<1> SUFFICES ASSUME Init PROVE PM!Init
  OBVIOUS
<1>1. Used = {}
  BY DEF Init, Used
<1>2. MapOf = [k \in Keys |-> Nil]
  BY <1>1 DEF MapOf
<1> QED
  BY <1>2 DEF Init, PM!Init

\* Every operation on the table is the operation of the same name on the map, or a
\* stutter.
LEMMA StepRefines == Inv /\ [Next]_vars => [PM!Next]_<<MapOf, reply, running>>
<1> SUFFICES ASSUME Inv, [Next]_vars PROVE [PM!Next]_<<MapOf, reply, running>>
  OBVIOUS
<1>1. CASE UNCHANGED vars
  BY <1>1 DEF vars, MapOf, Keeping, Used
<1>2. CASE running /\ Serve /\ UNCHANGED running
  <2>1. ASSUME NEW k \in Keys, NEW port \in Ports, NEW pid \in Pids, OpMap(k, port, pid)
        PROVE  PM!Serve
    BY <1>2, <2>1, MapMaps DEF PM!Serve
  <2>2. ASSUME NEW pid \in Pids, unmapPid(pid) PROVE PM!Serve
    BY <1>2, <2>2, RemovalRemoves DEF PM!Serve
  <2>3. ASSUME NEW k \in Keys, unmapMapid(k) PROVE PM!Serve
    BY <1>2, <2>3, RemovalRemoves DEF PM!Serve
  <2>4. ASSUME NEW k \in Keys, OpGetMap(k) PROVE PM!Serve
    BY <2>4, LookupReads DEF PM!Serve
  <2>5. ASSUME OpPurgeTable \/ OpGetTable \/ OpNull PROVE PM!Serve
    BY <1>2, <2>5, RemovalRemoves, LookupReads DEF PM!Serve
  <2> QED
    BY <1>2, <2>1, <2>2, <2>3, <2>4, <2>5 DEF Serve, PM!Next
<1>3. CASE running /\ OpExit
  BY <1>3 DEF OpExit, PM!Next, PM!Exit, MapOf, Keeping, Used
<1> QED
  BY <1>1, <1>2, <1>3 DEF Next

\* The table implements the finite map: whatever the history of slots, marks and kept
\* keys, each operation changes and answers as if there were only the map.
THEOREM TableIsMap == Spec => ImplementsPortMap
<1>1. Init /\ [][Next]_vars => []Inv
  BY InitInv, NextInv, PTL
<1> QED
  BY <1>1, InitRefines, StepRefines, PTL DEF Spec, ImplementsPortMap, PM!Spec
=============================================================================
