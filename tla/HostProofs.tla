------------------------------- MODULE HostProofs -------------------------------
(***************************************************************************)
(* Proofs about what runs on a host beside the applications                *)
(* (HostPrograms): how the programs of a login are found (Names), what     *)
(* becomes of the table of hosts (HostTable), and what of the files and    *)
(* users that CIDs serve (LoginFiles) and of their list of applications    *)
(* (AppList).                                                              *)
(***************************************************************************)
EXTENDS HostPrograms, ListProofs

-----------------------------------------------------------------------------
(* How the programs of a login are found.                                  *)

Registered == {NameOf[h] : h \in Programs}

\* The variables of the programs have their types; who registers or unregisters knows where.
ProgTypes ==
  /\ prog \in [Programs -> {"none", "starts", "maps", "runs", "unlisted", "ending", "unmaps", "gone", "killed"}]
  /\ via \in [Programs -> Cids \cup {NoOne}] /\ parent \in [Programs -> Cids \cup {NoOne}]
  /\ \A h \in Programs : prog[h] \in {"maps", "unmaps"} => via[h] \in Cids
\* So have the others; who makes another CID exit knows which.
NamesTypes ==
  /\ pmdUp \in BOOLEAN /\ leader \in Cids \cup {NoOne}
  /\ cid \in [Cids -> {"none", "looks", "kills", "maps", "remaps", "runs", "exits", "gone"}]
  /\ old \in [Cids -> Cids \cup {NoOne}]
  /\ names \in [Cids -> [Registered -> Programs \cup {NoOne}]]
  /\ crossed \subseteq Cids /\ forgotten \subseteq Cids
  /\ \A c \in Cids : cid[c] = "kills" => old[c] \in Cids
  /\ ProgTypes

\* PMD that was started anew knows nobody; who it knows has registered.
LeaderHasStarted ==
  /\ ~pmdUp => leader = NoOne
  /\ leader # NoOne => cid[leader] \in {"runs", "exits", "gone"}
\* Two CIDs that start at once have crossed.
StartersCross == \A c, d \in Starting : c # d => c \in crossed
\* A CID that starts meets the one that runs, and makes it exit before it registers.
StartersMeet ==
  \A c \in Cids, d \in Starting :
    cid[c] = "runs" /\ c \notin crossed \cup forgotten =>
      cid[d] = "looks" \/ (cid[d] = "kills" /\ old[d] = c)
LeaderInv == LeaderHasStarted /\ StartersCross /\ StartersMeet /\ EveryCidIsFound

\* The variables of the CIDs and PMD change by the steps of these alone.
LEMMA ProgramsLeaveCids ==
  ASSUME NEW h \in Programs, Starts(h) \/ Registers(h) \/ Terminates(h) \/ ProgKilled(h)
  PROVE  UNCHANGED <<pmdUp, leader, cid, old, crossed, forgotten>>
BY DEF Starts, Registers, Terminates, ProgKilled, pmdVars

\* Types are kept.
LEMMA NamesTypeStep == NamesTypes /\ [NamesNext]_namesVars => NamesTypes'
<1> SUFFICES ASSUME NamesTypes, [NamesNext]_namesVars PROVE NamesTypes'
  OBVIOUS
<1> USE DEF NamesTypes
<1>0. \A S : Stops(S, "ending") \/ Stops(S, "gone") \/ Stops(S, "killed") => ProgTypes'
  BY DEF Stops, Cleared, ProgTypes
<1>00. ASSUME NEW c, KillsChildren(c) PROVE ProgTypes'
  <2>1. PICK S : S = {h \in Up : parent[h] = c}
    OBVIOUS
  <2>2. Stops(S, "ending")
    BY <1>00, <2>1 DEF KillsChildren, Stops, Cleared
  <2> QED
    BY <1>0, <2>2
<1>1. ASSUME NEW c \in Cids, Forgets(c)
      PROVE  /\ cid' = [cid EXCEPT ![c] = "gone"]
             /\ names' \in [Cids -> [Registered -> Programs \cup {NoOne}]]
  BY <1>1 DEF Forgets, Moves
<1>2. CASE UNCHANGED namesVars
  BY <1>2 DEF namesVars, ProgTypes
<1>3. CASE PmdExits
  BY <1>3 DEF PmdExits, progVars, ProgTypes
<1>4. ASSUME NEW c \in Cids, CidStarts(c) \/ Looks(c) PROVE NamesTypes'
  BY <1>4 DEF CidStarts, Looks, Moves, pmdVars, progVars, Starting, ProgTypes
<1>5. ASSUME NEW c \in Cids, kill_old_cid(c) PROVE NamesTypes'
  <2>1. old[c] \in Cids /\ old' = [old EXCEPT ![c] = NoOne] /\ UNCHANGED <<pmdUp, leader, forgotten, names, crossed>>
    BY <1>5 DEF kill_old_cid, pmdVars
  <2>2. cid' = [cid EXCEPT ![c] = "maps"] \/ cid' = [cid EXCEPT ![c] = "maps", ![old[c]] = "exits"]
    BY <1>5 DEF kill_old_cid, Moves
  <2>3. UNCHANGED <<prog, via, parent>> \/ KillsChildren(old[c])
    BY <1>5 DEF kill_old_cid
  <2>4. ProgTypes'
    BY <1>00, <2>3 DEF ProgTypes
  <2>5. /\ cid' \in [Cids -> {"none", "looks", "kills", "maps", "remaps", "runs", "exits", "gone"}]
        /\ \A d \in Cids : cid'[d] = "kills" => old'[d] \in Cids
    BY <2>1, <2>2
  <2> QED
    BY <2>1, <2>4, <2>5
<1>6. ASSUME NEW c \in Cids, MapsName(c) PROVE NamesTypes'
  BY <1>6 DEF MapsName, Moves, progVars, ProgTypes
<1>7. ASSUME NEW c \in Cids, CidExits(c) PROVE NamesTypes'
  <2>1. /\ cid' = [cid EXCEPT ![c] = "exits"] /\ old' = [old EXCEPT ![c] = NoOne]
        /\ UNCHANGED <<pmdUp, leader, forgotten, names, crossed>>
        /\ KillsChildren(c)
    BY <1>7 DEF CidExits, Moves, pmdVars
  <2> QED
    BY <1>00, <2>1
<1>8. ASSUME NEW c \in Cids, CidLeaves(c) \/ CidKilled(c) PROVE NamesTypes'
  <2>1. /\ Forgets(c) /\ (old' = old \/ old' = [old EXCEPT ![c] = NoOne]) /\ (leader' = leader \/ leader' = NoOne)
        /\ UNCHANGED <<pmdUp, forgotten, prog, via, parent, crossed>>
    BY <1>8 DEF CidLeaves, CidKilled, RemovesEntry, pmdVars
  <2>2. cid' = [cid EXCEPT ![c] = "gone"] /\ names' \in [Cids -> [Registered -> Programs \cup {NoOne}]]
    BY <1>1, <2>1
  <2> QED
    BY <2>1, <2>2 DEF ProgTypes
<1>9. ASSUME NEW h \in Programs, Starts(h) \/ Terminates(h) \/ ProgKilled(h) PROVE NamesTypes'
  <2>1. CASE Starts(h)
    BY <2>1 DEF Starts, Goes, pmdVars, ProgTypes
  <2>2. CASE Terminates(h) \/ ProgKilled(h)
    <3>1. UNCHANGED <<pmdUp, leader, forgotten, cid, old, names, crossed>> /\ (Stops({h}, "ending") \/ Stops({h}, "killed"))
      BY <2>2 DEF Terminates, ProgKilled, pmdVars
    <3> QED
      BY <1>0, <3>1
  <2> QED
    BY <1>9, <2>1, <2>2
<1>10. ASSUME NEW h \in Programs, Registers(h) PROVE NamesTypes'
  <2>1. UNCHANGED <<pmdUp, leader, forgotten, cid, old, crossed>>
    BY <1>10, ProgramsLeaveCids
  <2>2. NameOf[h] \in Registered
    BY DEF Registered
  <2>3. ASSUME NEW place \in {"gone", "unlisted"}, Fails(h, place)
        PROVE  ProgTypes'
    BY <1>0, <2>3 DEF Fails, Goes, Cleared, ProgTypes
  <2>4. ASSUME NEW place \in {"maps", "unmaps"}, NEW refused \in {"gone", "unlisted"}, LooksUp(h, place, refused)
        PROVE  ProgTypes'
    <3>1. CASE pmdUp /\ leader # NoOne
      BY <2>4, <3>1 DEF LooksUp, Goes, ProgTypes
    <3>2. CASE ~(pmdUp /\ leader # NoOne)
      <4>1. PICK q \in {"gone", "unlisted"} : q = IF pmdUp THEN refused ELSE "gone"
        OBVIOUS
      <4>2. Fails(h, q)
        BY <2>4, <3>2, <4>1 DEF LooksUp, Fails, Stops, Cleared, Goes
      <4> QED
        BY <2>3, <4>2
    <3> QED
      BY <3>1, <3>2
  <2>5. Refused(h) \in {"gone", "unlisted"}
    BY DEF Refused
  <2>6. CASE sngd_map(h)
    <3>1. CASE prog[h] = "starts" /\ LooksUp(h, "maps", Refused(h)) /\ UNCHANGED names
      BY <2>1, <2>4, <2>5, <3>1
    <3>2. CASE /\ prog[h] = "maps" /\ Goes(h, "runs") /\ UNCHANGED <<via, parent>>
               /\ names' = [names EXCEPT ![via[h]][NameOf[h]] = h]
      BY <2>1, <2>2, <3>2 DEF Goes, ProgTypes
    <3>3. CASE prog[h] = "maps" /\ Fails(h, Refused(h)) /\ UNCHANGED names
      BY <2>1, <2>3, <2>5, <3>3
    <3> QED
      BY <2>6, <3>1, <3>2, <3>3 DEF sngd_map
  <2>7. CASE sngd_unmap(h)
    <3>1. CASE prog[h] = "ending" /\ LooksUp(h, "unmaps", "gone") /\ UNCHANGED names
      BY <2>1, <2>4, <3>1
    <3>2. CASE /\ prog[h] = "unmaps" /\ Stops({h}, "gone")
               /\ (UNCHANGED names) \/ Unregister(h)
      <4>1. names' \in [Cids -> [Registered -> Programs \cup {NoOne}]]
        BY <2>2, <3>2 DEF Unregister, ProgTypes
      <4> QED
        BY <1>0, <2>1, <3>2, <4>1
    <3> QED
      BY <2>7, <3>1, <3>2 DEF sngd_unmap
  <2> QED
    BY <1>10, <2>6, <2>7 DEF Registers
<1> QED
  BY <1>2, <1>3, <1>4, <1>5, <1>6, <1>7, <1>8, <1>9, <1>10 DEF NamesNext

\* A step of a CID or of PMD, as far as the leader is concerned.
LEMMA LeaderStep == NamesTypes /\ LeaderInv /\ [NamesNext]_namesVars => LeaderInv'
<1> SUFFICES ASSUME NamesTypes, LeaderInv, [NamesNext]_namesVars PROVE LeaderInv'
  OBVIOUS
<1>0. /\ pmdUp \in BOOLEAN /\ leader \in Cids \cup {NoOne} /\ NoOne \notin Cids
      /\ cid \in [Cids -> {"none", "looks", "kills", "maps", "remaps", "runs", "exits", "gone"}]
      /\ old \in [Cids -> Cids \cup {NoOne}]
      /\ \A c \in Cids : cid[c] = "kills" => old[c] \in Cids
      /\ crossed \subseteq Cids /\ forgotten \subseteq Cids
  BY NamesAssumption DEF NamesTypes
<1> USE DEF LeaderInv, LeaderHasStarted, StartersCross, StartersMeet, EveryCidIsFound, Starting
<1>1. ASSUME UNCHANGED <<pmdUp, leader, cid, old, crossed, forgotten>> PROVE LeaderInv'
  BY <1>1
<1>2. CASE PmdExits
  BY <1>0, <1>2 DEF PmdExits
<1>3. ASSUME NEW c \in Cids, CidStarts(c) PROVE LeaderInv'
  <2>1. /\ cid[c] = "none" /\ cid' = [cid EXCEPT ![c] = "looks"]
        /\ crossed' = IF Starting = {} THEN crossed ELSE crossed \cup Starting \cup {c}
        /\ UNCHANGED <<pmdUp, leader, forgotten, old>>
    BY <1>3 DEF CidStarts, Moves, pmdVars
  <2>2. Starting' = Starting \cup {c} /\ crossed \subseteq crossed' /\ c \notin Starting
    BY <1>0, <2>1
  <2>3. StartersCross'
    BY <2>1, <2>2
  <2>4. \A d \in Cids : cid'[d] = "runs" <=> cid[d] = "runs"
    BY <1>0, <2>1
  <2>5. StartersMeet'
    BY <1>0, <2>1, <2>2, <2>4
  <2>6. LeaderHasStarted'
    BY <1>0, <2>1
  <2>7. EveryCidIsFound'
    BY <2>1, <2>2, <2>4
  <2> QED
    BY <2>3, <2>5, <2>6, <2>7
<1>4. ASSUME NEW c \in Cids, Looks(c) PROVE LeaderInv'
  <2>1. /\ cid[c] = "looks"
        /\ \/ /\ pmdUp /\ leader # NoOne /\ cid' = [cid EXCEPT ![c] = "kills"]
              /\ old' = [old EXCEPT ![c] = leader]
           \/ ~(pmdUp /\ leader # NoOne) /\ cid' = [cid EXCEPT ![c] = "maps"] /\ old' = old
        /\ UNCHANGED <<pmdUp, leader, forgotten, crossed>>
    BY <1>4 DEF Looks, Moves, pmdVars
  <2>2. Starting' = Starting /\ \A d \in Cids : cid'[d] = "runs" <=> cid[d] = "runs"
    BY <1>0, <2>1
  <2>3. StartersMeet'
    <3> SUFFICES ASSUME NEW e \in Cids, NEW d \in Starting, cid[e] = "runs", e \notin crossed \cup forgotten
                 PROVE  cid'[d] = "looks" \/ (cid'[d] = "kills" /\ old'[d] = e)
      BY <2>1, <2>2
    <3>1. leader = e /\ pmdUp
      BY <1>0
    <3> QED
      BY <1>0, <2>1, <3>1
  <2>4. LeaderHasStarted' /\ StartersCross' /\ EveryCidIsFound'
    BY <1>0, <2>1, <2>2
  <2> QED
    BY <2>3, <2>4
<1>5. ASSUME NEW c \in Cids, kill_old_cid(c) PROVE LeaderInv'
  <2>1. /\ cid[c] = "kills" /\ old' = [old EXCEPT ![c] = NoOne]
        /\ \/ cid[old[c]] = "gone" /\ cid' = [cid EXCEPT ![c] = "maps"]
           \/ cid[old[c]] = "runs" /\ cid' = [cid EXCEPT ![c] = "maps", ![old[c]] = "exits"]
        /\ UNCHANGED <<pmdUp, leader, forgotten, crossed>>
    BY <1>5 DEF kill_old_cid, Moves, pmdVars
  <2>2. old[c] \in Cids /\ old[c] # c
    BY <1>0, <2>1
  <2>3. \A d \in Cids : /\ cid'[d] = "runs" => cid[d] = "runs" /\ d # old[c]
                        /\ d # c => (cid'[d] = cid[d] \/ cid'[d] = "exits") /\ old'[d] = old[d]
                        /\ cid[d] \in {"runs", "exits", "gone"} => cid'[d] \in {"runs", "exits", "gone"}
    BY <1>0, <2>1, <2>2
  <2>4. Starting' = Starting
    BY <1>0, <2>1, <2>2
  <2>5. StartersMeet'
    <3> SUFFICES ASSUME NEW e \in Cids, NEW d \in Starting, cid'[e] = "runs", e \notin crossed \cup forgotten
                 PROVE  cid'[d] = "looks" \/ (cid'[d] = "kills" /\ old'[d] = e)
      BY <2>1, <2>4
    <3>1. d # c
      BY <2>1, <2>3
    <3>2. cid'[d] = cid[d] /\ old'[d] = old[d]
      BY <1>0, <2>1, <2>2, <3>1
    <3> QED
      BY <2>3, <3>2
  <2>6. LeaderHasStarted' /\ StartersCross' /\ EveryCidIsFound'
    BY <1>0, <2>1, <2>3, <2>4
  <2> QED
    BY <2>5, <2>6
<1>6. ASSUME NEW c \in Cids, MapsName(c) PROVE LeaderInv'
  <2>1. /\ c \in Starting /\ cid[c] \in {"maps", "remaps"}
        /\ \/ pmdUp /\ leader' = c /\ cid' = [cid EXCEPT ![c] = "runs"] /\ pmdUp' = pmdUp
           \/ ~pmdUp /\ leader' = NoOne /\ cid' = [cid EXCEPT ![c] = "remaps"]
           \/ cid' = [cid EXCEPT ![c] = "gone"] /\ UNCHANGED <<pmdUp, leader>>
        /\ UNCHANGED <<forgotten, old, crossed>>
    BY <1>6 DEF MapsName, Moves
  <2>2. \A d \in Cids : /\ d # c => cid'[d] = cid[d]
                        /\ d \in Starting' => d \in Starting
    BY <1>0, <2>1
  <2>3. StartersCross' /\ LeaderHasStarted'
    BY <1>0, <2>1, <2>2
  <2>4. \A e \in Cids : cid[e] = "runs" => e \in crossed \cup forgotten
    BY <2>1
  <2>5. EveryCidIsFound'
    BY <1>0, <2>1, <2>2, <2>4
  <2>6. StartersMeet'
    <3> SUFFICES ASSUME NEW e \in Cids, NEW d \in Starting', cid'[e] = "runs", e \notin crossed \cup forgotten
                 PROVE  FALSE
      BY <2>1
    <3>1. e = c /\ c \notin Starting'
      BY <1>0, <2>1, <2>2, <2>4
    <3> QED
      BY <2>1, <2>2, <3>1
  <2> QED
    BY <2>3, <2>5, <2>6
<1>7. ASSUME NEW c \in Cids, CidExits(c) PROVE LeaderInv'
  <2>1. /\ cid' = [cid EXCEPT ![c] = "exits"] /\ old' = [old EXCEPT ![c] = NoOne]
        /\ UNCHANGED <<pmdUp, leader, forgotten, crossed>>
    BY <1>7 DEF CidExits, Moves, pmdVars
  <2>2. \A d \in Cids : d # c => cid'[d] = cid[d] /\ old'[d] = old[d]
    BY <1>0, <2>1
  <2> QED
    BY <1>0, <2>1, <2>2
<1>8. ASSUME NEW c \in Cids, CidLeaves(c) \/ CidKilled(c) PROVE LeaderInv'
  <2>1. /\ cid' = [cid EXCEPT ![c] = "gone"] /\ (cid[c] = "exits" \/ UNCHANGED leader)
        /\ (old' = old \/ old' = [old EXCEPT ![c] = NoOne])
        /\ (leader' = IF leader = c THEN NoOne ELSE leader) \/ UNCHANGED leader
        /\ UNCHANGED <<pmdUp, forgotten, crossed>>
    BY <1>8 DEF CidLeaves, CidKilled, RemovesEntry, Forgets, Moves, pmdVars
  <2>2. \A d \in Cids : d # c => cid'[d] = cid[d] /\ old'[d] = old[d]
    BY <1>0, <2>1
  <2> QED
    BY <1>0, <2>1, <2>2
<1>9. ASSUME NEW h \in Programs, Starts(h) \/ Registers(h) \/ Terminates(h) \/ ProgKilled(h) PROVE LeaderInv'
  BY <1>1, <1>9, ProgramsLeaveCids
<1>10. CASE UNCHANGED namesVars
  BY <1>1, <1>10 DEF namesVars
<1> QED
  BY <1>2, <1>3, <1>4, <1>5, <1>6, <1>7, <1>8, <1>9, <1>10 DEF NamesNext

\* A CID has nothing in its table before it runs, and a program knows only CIDs that ran.
KnownHaveRun == \A h \in Programs : via[h] # NoOne => cid[via[h]] \in {"runs", "exits", "gone"}
TablesStartEmpty ==
  \A c \in Cids : cid[c] \in {"none", "looks", "kills", "maps", "remaps"} =>
    \A n \in Registered : names[c][n] = NoOne
\* A table gives programs by their names.
TablesByName ==
  \A c \in Cids, n \in Registered : names[c][n] # NoOne => NameOf[names[c][n]] = n
\* What the leader's table gives has come up, and unregisters there.
LeaderGivesPrograms ==
  leader # NoOne /\ cid[leader] = "runs" =>
    \A n \in Registered : names[leader][n] # NoOne =>
      /\ prog[names[leader][n]] \notin {"none", "starts", "maps", "gone"}
      /\ prog[names[leader][n]] = "unmaps" => via[names[leader][n]] = leader
\* A program is in the table of the CID it registered at, or another of its name came up.
RegisteredAreGiven ==
  \A h \in Programs : prog[h] = "runs" /\ via[h] # NoOne /\ cid[via[h]] = "runs" =>
    \/ names[via[h]][NameOf[h]] = h
    \/ \E g \in Programs \ {h} : NameOf[g] = NameOf[h] /\ prog[g] # "none"
TableInv == KnownHaveRun /\ TablesStartEmpty /\ TablesByName /\ LeaderGivesPrograms /\ RegisteredAreGiven

\* Steps in which no CID begins to serve, no program comes up and no entry is made.
LEMMA EndingsKeepTables ==
  ASSUME NamesTypes, NamesTypes', TableInv, leader' \in {leader, NoOne},
         \A c \in Cids : /\ cid'[c] = "runs" => cid[c] = "runs"
                         /\ cid[c] \in {"runs", "exits", "gone"} => cid'[c] \in {"runs", "exits", "gone"}
                         /\ \/ names'[c] = names[c]
                            \/ cid'[c] # "runs" /\ \A n \in Registered : names'[c][n] = NoOne,
         \A h \in Programs :
           \/ prog'[h] = prog[h] /\ via'[h] = via[h]
           \/ prog'[h] \in {"ending", "killed"} /\ via'[h] = NoOne
  PROVE  TableInv'
<1>1. /\ leader \in Cids \cup {NoOne} /\ via \in [Programs -> Cids \cup {NoOne}] /\ NoOne \notin Cids
      /\ cid \in [Cids -> {"none", "looks", "kills", "maps", "remaps", "runs", "exits", "gone"}]
      /\ cid' \in [Cids -> {"none", "looks", "kills", "maps", "remaps", "runs", "exits", "gone"}]
      /\ names \in [Cids -> [Registered -> Programs \cup {NoOne}]]
  BY NamesAssumption DEF NamesTypes, ProgTypes
<1>2. \A h \in Programs : prog[h] # "none" => prog'[h] # "none"
  OBVIOUS
<1>3. KnownHaveRun'
  BY <1>1 DEF TableInv, KnownHaveRun
<1>4. TablesStartEmpty'
  BY <1>1 DEF TableInv, TablesStartEmpty
<1>5. TablesByName'
  BY <1>1 DEF TableInv, TablesByName
<1>6. LeaderGivesPrograms'
  <2> SUFFICES ASSUME leader' # NoOne, cid'[leader'] = "runs", NEW n \in Registered, names'[leader'][n] # NoOne
               PROVE  /\ prog'[names'[leader'][n]] \notin {"none", "starts", "maps", "gone"}
                      /\ prog'[names'[leader'][n]] = "unmaps" => via'[names'[leader'][n]] = leader'
    BY DEF LeaderGivesPrograms
  <2>1. leader' = leader /\ leader \in Cids /\ cid[leader] = "runs" /\ names'[leader] = names[leader]
    BY <1>1
  <2>2. PICK h \in Programs : h = names[leader][n]
    BY <1>1, <2>1
  <2>3. prog[h] \notin {"none", "starts", "maps", "gone"} /\ (prog[h] = "unmaps" => via[h] = leader)
    BY <2>1, <2>2 DEF TableInv, LeaderGivesPrograms
  <2> QED
    BY <2>1, <2>2, <2>3
<1>7. RegisteredAreGiven'
  <2> SUFFICES ASSUME NEW h \in Programs, prog'[h] = "runs", via'[h] # NoOne, cid'[via'[h]] = "runs"
               PROVE  \/ names'[via'[h]][NameOf[h]] = h
                      \/ \E g \in Programs \ {h} : NameOf[g] = NameOf[h] /\ prog'[g] # "none"
    BY DEF RegisteredAreGiven
  <2>1. prog[h] = "runs" /\ via'[h] = via[h] /\ via[h] \in Cids /\ cid[via[h]] = "runs"
        /\ names'[via[h]] = names[via[h]]
    BY <1>1
  <2> QED
    BY <1>2, <2>1 DEF TableInv, RegisteredAreGiven
<1> QED
  BY <1>3, <1>4, <1>5, <1>6, <1>7 DEF TableInv

\* A step of the programs or the CIDs keeps the tables true.
LEMMA TableStep ==
  NamesTypes /\ NamesTypes' /\ LeaderInv /\ TableInv /\ [NamesNext]_namesVars => TableInv'
<1> SUFFICES ASSUME NamesTypes, NamesTypes', LeaderInv, TableInv, [NamesNext]_namesVars PROVE TableInv'
  OBVIOUS
<1>0. /\ leader \in Cids \cup {NoOne} /\ via \in [Programs -> Cids \cup {NoOne}] /\ NoOne \notin Cids /\ NoOne \notin Programs
      /\ cid \in [Cids -> {"none", "looks", "kills", "maps", "remaps", "runs", "exits", "gone"}]
      /\ names \in [Cids -> [Registered -> Programs \cup {NoOne}]]
      /\ prog \in [Programs -> {"none", "starts", "maps", "runs", "unlisted", "ending", "unmaps", "gone", "killed"}]
      /\ \A c \in Cids : cid[c] = "kills" => old[c] \in Cids
      /\ \A h \in Programs : prog[h] \in {"maps", "unmaps"} => via[h] \in Cids
      /\ \A h \in Programs : NameOf[h] \in Registered
  BY NamesAssumption DEF NamesTypes, ProgTypes, Registered
<1>00. ASSUME NEW S, Stops(S, "ending") \/ Stops(S, "killed")
       PROVE  \A h \in Programs : \/ prog'[h] = prog[h] /\ via'[h] = via[h]
                                  \/ prog'[h] \in {"ending", "killed"} /\ via'[h] = NoOne
  BY <1>00 DEF Stops, Cleared
<1>01. ASSUME NEW c, KillsChildren(c)
       PROVE  \A h \in Programs : \/ prog'[h] = prog[h] /\ via'[h] = via[h]
                                  \/ prog'[h] \in {"ending", "killed"} /\ via'[h] = NoOne
  BY <1>01 DEF KillsChildren, Stops, Cleared
<1>1. CASE UNCHANGED namesVars
  BY <1>1, EndingsKeepTables DEF namesVars
<1>2. CASE PmdExits
  BY <1>2, EndingsKeepTables DEF PmdExits, progVars
<1>3. ASSUME NEW c \in Cids, CidStarts(c) \/ Looks(c) PROVE TableInv'
  <2>1. /\ cid[c] \in {"none", "looks"}
        /\ \E place \in {"looks", "kills", "maps"} : cid' = [cid EXCEPT ![c] = place]
        /\ UNCHANGED <<leader, names, prog, via>>
    BY <1>3 DEF CidStarts, Looks, Moves, pmdVars, progVars
  <2> QED
    BY <1>0, <2>1, EndingsKeepTables
<1>4. ASSUME NEW c \in Cids, kill_old_cid(c) PROVE TableInv'
  <2>1. /\ cid[c] = "kills" /\ old[c] \in Cids /\ UNCHANGED <<leader, names>>
        /\ (UNCHANGED <<prog, via>>) \/ KillsChildren(old[c])
        /\ \/ cid' = [cid EXCEPT ![c] = "maps"]
           \/ cid[old[c]] = "runs" /\ cid' = [cid EXCEPT ![c] = "maps", ![old[c]] = "exits"]
    BY <1>0, <1>4 DEF kill_old_cid, Moves, pmdVars
  <2>2. \A h \in Programs : \/ prog'[h] = prog[h] /\ via'[h] = via[h]
                            \/ prog'[h] \in {"ending", "killed"} /\ via'[h] = NoOne
    BY <1>01, <2>1 DEF KillsChildren, Stops, Cleared
  <2> QED
    BY <1>0, <2>1, <2>2, EndingsKeepTables
<1>5. ASSUME NEW c \in Cids, MapsName(c) PROVE TableInv'
  <2>1. cid[c] \in {"maps", "remaps"} /\ UNCHANGED <<names, prog, via>>
    BY <1>5 DEF MapsName, progVars
  <2>2. CASE leader' = c /\ cid' = [cid EXCEPT ![c] = "runs"]
    <3>1. \A n \in Registered : names[c][n] = NoOne
      BY <2>1 DEF TableInv, TablesStartEmpty
    <3>2. \A h \in Programs : via[h] # c
      BY <1>0, <2>1 DEF TableInv, KnownHaveRun
    <3>3. \A d \in Cids \ {c} : cid'[d] = cid[d]
      BY <1>0, <2>2
    <3>4. cid'[c] = "runs"
      BY <1>0, <2>2
    <3>5. KnownHaveRun' /\ TablesStartEmpty' /\ TablesByName'
      BY <1>0, <2>1, <3>3, <3>4 DEF TableInv, KnownHaveRun, TablesStartEmpty, TablesByName
    <3>6. LeaderGivesPrograms'
      BY <2>1, <2>2, <3>1 DEF LeaderGivesPrograms
    <3>7. RegisteredAreGiven'
      BY <1>0, <2>1, <3>2, <3>3 DEF TableInv, RegisteredAreGiven
    <3> QED
      BY <3>5, <3>6, <3>7 DEF TableInv
  <2>3. CASE leader' \in {leader, NoOne} /\ \E place \in {"remaps", "gone"} : cid' = [cid EXCEPT ![c] = place]
    BY <1>0, <2>1, <2>3, EndingsKeepTables
  <2> QED
    BY <1>5, <2>2, <2>3 DEF MapsName, Moves
<1>6. ASSUME NEW c \in Cids, CidExits(c) PROVE TableInv'
  <2>1. cid' = [cid EXCEPT ![c] = "exits"] /\ UNCHANGED <<leader, names>> /\ KillsChildren(c)
    BY <1>6 DEF CidExits, Moves, pmdVars
  <2>2. \A h \in Programs : \/ prog'[h] = prog[h] /\ via'[h] = via[h]
                            \/ prog'[h] \in {"ending", "killed"} /\ via'[h] = NoOne
    BY <1>01, <2>1
  <2> QED
    BY <1>0, <2>1, <2>2, EndingsKeepTables
<1>7. ASSUME NEW c \in Cids, CidLeaves(c) \/ CidKilled(c) PROVE TableInv'
  <2>1. /\ cid' = [cid EXCEPT ![c] = "gone"] /\ leader' \in {leader, NoOne} /\ UNCHANGED <<prog, via>>
        /\ names' = [names EXCEPT ![c] = [n \in DOMAIN names[c] |-> NoOne]]
    BY <1>7 DEF CidLeaves, CidKilled, RemovesEntry, Forgets, Moves, pmdVars
  <2>2. \A d \in Cids : \/ names'[d] = names[d]
                        \/ cid'[d] # "runs" /\ \A n \in Registered : names'[d][n] = NoOne
    BY <1>0, <2>1
  <2> QED
    BY <1>0, <2>1, <2>2, EndingsKeepTables
<1>8. ASSUME NEW h \in Programs, Terminates(h) \/ ProgKilled(h) PROVE TableInv'
  <2>1. (Stops({h}, "ending") \/ Stops({h}, "killed")) /\ UNCHANGED <<leader, cid, names>>
    BY <1>8 DEF Terminates, ProgKilled, pmdVars
  <2> QED
    BY <1>00, <2>1, EndingsKeepTables
<1>9. ASSUME NEW h \in Programs, names' = names, cid' = cid, leader' = leader,
             \A g \in Programs \ {h} : prog'[g] = prog[g] /\ via'[g] = via[g],
             via'[h] \in {NoOne, leader}, prog'[h] \in {"starts", "maps", "unlisted", "unmaps", "gone"},
             leader # NoOne /\ cid[leader] = "runs" =>
               \/ \A n \in Registered : names[leader][n] # h
               \/ prog'[h] = "unlisted"
               \/ prog'[h] = "unmaps" /\ via'[h] = leader
      PROVE  TableInv'
  <2>1. KnownHaveRun'
    <3>1. leader # NoOne => cid[leader] \in {"runs", "exits", "gone"}
      BY DEF LeaderInv, LeaderHasStarted
    <3> QED
      BY <1>9, <3>1 DEF TableInv, KnownHaveRun
  <2>2. TablesStartEmpty' /\ TablesByName'
    BY <1>9 DEF TableInv, TablesStartEmpty, TablesByName
  <2>3. LeaderGivesPrograms'
    <3> SUFFICES ASSUME leader # NoOne, cid[leader] = "runs", NEW n \in Registered, names[leader][n] # NoOne
                 PROVE  /\ prog'[names[leader][n]] \notin {"none", "starts", "maps", "gone"}
                        /\ prog'[names[leader][n]] = "unmaps" => via'[names[leader][n]] = leader
      BY <1>9 DEF LeaderGivesPrograms
    <3>1. PICK g \in Programs : g = names[leader][n]
      BY <1>0
    <3>2. prog[g] \notin {"none", "starts", "maps", "gone"} /\ (prog[g] = "unmaps" => via[g] = leader)
      BY <3>1 DEF TableInv, LeaderGivesPrograms
    <3> QED
      BY <1>9, <3>1, <3>2
  <2>4. RegisteredAreGiven'
    <3> SUFFICES ASSUME NEW g \in Programs, prog'[g] = "runs", via'[g] # NoOne, cid[via'[g]] = "runs"
                 PROVE  \/ names[via'[g]][NameOf[g]] = g
                        \/ \E f \in Programs \ {g} : NameOf[f] = NameOf[g] /\ prog'[f] # "none"
      BY <1>9 DEF RegisteredAreGiven
    <3>1. g # h /\ prog[g] = "runs" /\ via'[g] = via[g]
      BY <1>9
    <3>2. \A f \in Programs : prog[f] # "none" => prog'[f] # "none"
      BY <1>9
    <3> QED
      BY <3>1, <3>2 DEF TableInv, RegisteredAreGiven
  <2> QED
    BY <2>1, <2>2, <2>3, <2>4 DEF TableInv
\* A program that has not come up is in no table of the leader.
<1>10. ASSUME NEW h \in Programs, prog[h] \in {"none", "starts", "maps"}, leader # NoOne, cid[leader] = "runs"
       PROVE  \A n \in Registered : names[leader][n] # h
  BY <1>0, <1>10 DEF TableInv, LeaderGivesPrograms
<1>11. ASSUME NEW h \in Programs, Starts(h) PROVE TableInv'
  <2>1. prog[h] = "none" /\ prog' = [prog EXCEPT ![h] = "starts"] /\ UNCHANGED <<leader, cid, names, via>>
    BY <1>11 DEF Starts, Goes, pmdVars
  <2>2. KnownHaveRun' /\ TablesStartEmpty' /\ TablesByName'
    BY <2>1 DEF TableInv, KnownHaveRun, TablesStartEmpty, TablesByName
  <2>3. LeaderGivesPrograms'
    BY <1>0, <1>10, <2>1 DEF TableInv, LeaderGivesPrograms
  <2>4. RegisteredAreGiven'
    BY <1>0, <2>1 DEF TableInv, RegisteredAreGiven
  <2> QED
    BY <2>2, <2>3, <2>4 DEF TableInv
<1>12. ASSUME NEW h \in Programs, NEW place \in {"maps", "unmaps"}, NEW refused \in {"unlisted", "gone"},
              LooksUp(h, place, refused)
       PROVE  /\ \A g \in Programs \ {h} : prog'[g] = prog[g] /\ via'[g] = via[g]
              /\ \/ leader # NoOne /\ prog'[h] = place /\ via'[h] = leader
                 \/ leader = NoOne /\ prog'[h] \in {refused, "gone"} /\ via'[h] = NoOne
  <2>1. ~pmdUp => leader = NoOne
    BY DEF LeaderInv, LeaderHasStarted
  <2>2. CASE pmdUp /\ leader # NoOne
    BY <1>0, <1>12, <2>2 DEF LooksUp, Goes
  <2>3. CASE ~(pmdUp /\ leader # NoOne)
    BY <1>0, <1>12, <2>1, <2>3 DEF LooksUp, Fails, Goes, Stops, Cleared
  <2> QED
    BY <2>2, <2>3
<1>13. ASSUME NEW h \in Programs, sngd_map(h), cid' = cid, leader' = leader PROVE TableInv'
  <2>1. Refused(h) \in {"unlisted", "gone"}
    BY DEF Refused
  <2>2. CASE prog[h] = "starts" /\ LooksUp(h, "maps", Refused(h)) /\ UNCHANGED names
    <3>1. PICK refused \in {"unlisted", "gone"} : refused = Refused(h)
      BY <2>1
    <3>2. LooksUp(h, "maps", refused)
      BY <2>2, <3>1
    <3>3. /\ \A g \in Programs \ {h} : prog'[g] = prog[g] /\ via'[g] = via[g]
          /\ \/ leader # NoOne /\ prog'[h] = "maps" /\ via'[h] = leader
             \/ leader = NoOne /\ prog'[h] \in {refused, "gone"} /\ via'[h] = NoOne
      BY <1>12, <3>2
    <3> QED
      BY <1>9, <1>10, <1>13, <2>2, <3>3
  <2>3. CASE prog[h] = "maps" /\ Fails(h, Refused(h)) /\ UNCHANGED names
    <3>1. \A g \in Programs \ {h} : prog'[g] = prog[g] /\ via'[g] = via[g]
      BY <1>0, <2>3 DEF Fails, Goes, Stops, Cleared
    <3>2. via'[h] = NoOne /\ prog'[h] \in {"unlisted", "gone"}
      BY <1>0, <2>1, <2>3 DEF Fails, Goes, Stops, Cleared
    <3> QED
      BY <1>9, <1>10, <1>13, <2>3, <3>1, <3>2
  <2>4. CASE /\ prog[h] = "maps" /\ cid[via[h]] = "runs" /\ Goes(h, "runs")
             /\ names' = [names EXCEPT ![via[h]][NameOf[h]] = h] /\ UNCHANGED via
    <3>1. /\ prog' = [prog EXCEPT ![h] = "runs"] /\ via[h] \in Cids /\ NameOf[h] \in Registered
          /\ \A c \in Cids, n \in Registered :
               names'[c][n] = IF c = via[h] /\ n = NameOf[h] THEN h ELSE names[c][n]
      BY <1>0, <2>4 DEF Goes
    <3>2. KnownHaveRun' /\ TablesStartEmpty' /\ TablesByName'
      BY <1>0, <1>13, <2>4, <3>1 DEF TableInv, KnownHaveRun, TablesStartEmpty, TablesByName
    <3>3. LeaderGivesPrograms'
      <4> SUFFICES ASSUME leader # NoOne, cid[leader] = "runs", NEW n \in Registered, names'[leader][n] # NoOne
                   PROVE  /\ prog'[names'[leader][n]] \notin {"none", "starts", "maps", "gone"}
                          /\ prog'[names'[leader][n]] = "unmaps" => via'[names'[leader][n]] = leader
        BY <1>13 DEF LeaderGivesPrograms
      <4>1. CASE names'[leader][n] = h
        BY <1>0, <3>1, <4>1
      <4>2. CASE names'[leader][n] # h
        <5>1. names'[leader][n] = names[leader][n] /\ names[leader][n] \in Programs
          BY <1>0, <3>1, <4>2
        <5> QED
          BY <1>0, <2>4, <3>1, <4>2, <5>1 DEF TableInv, LeaderGivesPrograms
      <4> QED
        BY <4>1, <4>2
    <3>4. RegisteredAreGiven'
      <4> SUFFICES ASSUME NEW g \in Programs, prog'[g] = "runs", via[g] # NoOne, cid[via[g]] = "runs"
                   PROVE  \/ names'[via[g]][NameOf[g]] = g
                          \/ \E f \in Programs \ {g} : NameOf[f] = NameOf[g] /\ prog'[f] # "none"
        BY <1>13, <2>4 DEF RegisteredAreGiven
      <4>1. via[g] \in Cids /\ NameOf[g] \in Registered
        BY <1>0
      <4>2. \A f \in Programs : prog[f] # "none" => prog'[f] # "none"
        BY <1>0, <3>1
      <4>3. CASE g = h
        BY <3>1, <4>3
      <4>4. CASE g # h /\ via[g] = via[h] /\ NameOf[g] = NameOf[h]
        BY <1>0, <3>1, <4>4
      <4>5. CASE g # h /\ ~(via[g] = via[h] /\ NameOf[g] = NameOf[h])
        <5>1. prog[g] = "runs" /\ names'[via[g]][NameOf[g]] = names[via[g]][NameOf[g]]
          BY <1>0, <3>1, <4>1, <4>5
        <5> QED
          BY <4>2, <5>1 DEF TableInv, RegisteredAreGiven
      <4> QED
        BY <4>3, <4>4, <4>5
    <3> QED
      BY <3>2, <3>3, <3>4 DEF TableInv
  <2> QED
    BY <1>13, <2>2, <2>3, <2>4 DEF sngd_map
<1>14. ASSUME NEW h \in Programs, sngd_unmap(h), cid' = cid, leader' = leader PROVE TableInv'
  <2>1. CASE prog[h] = "ending" /\ LooksUp(h, "unmaps", "gone") /\ UNCHANGED names
    <3>1. /\ \A g \in Programs \ {h} : prog'[g] = prog[g] /\ via'[g] = via[g]
          /\ \/ leader # NoOne /\ prog'[h] = "unmaps" /\ via'[h] = leader
             \/ leader = NoOne /\ prog'[h] = "gone" /\ via'[h] = NoOne
      BY <1>12, <2>1
    <3> QED
      BY <1>9, <1>14, <2>1, <3>1
  <2>2. CASE prog[h] = "unmaps" /\ cid[via[h]] = "gone" /\ UNCHANGED names /\ Stops({h}, "gone")
    <3>1. /\ \A g \in Programs \ {h} : prog'[g] = prog[g] /\ via'[g] = via[g]
          /\ prog'[h] = "gone" /\ via'[h] = NoOne
      BY <1>0, <2>2 DEF Stops, Cleared
    <3>2. leader # NoOne /\ cid[leader] = "runs" => \A n \in Registered : names[leader][n] # h
      BY <1>0, <2>2 DEF TableInv, LeaderGivesPrograms
    <3> QED
      BY <1>9, <1>14, <2>2, <3>1, <3>2
  <2>3. CASE prog[h] = "unmaps" /\ cid[via[h]] = "runs" /\ Unregister(h) /\ Stops({h}, "gone")
    <3>1. /\ \A g \in Programs \ {h} : prog'[g] = prog[g] /\ via'[g] = via[g]
          /\ prog'[h] = "gone" /\ via'[h] = NoOne /\ via[h] \in Cids /\ NameOf[h] \in Registered
          /\ \A c \in Cids, n \in Registered :
               names'[c][n] = IF c = via[h] /\ n = NameOf[h] THEN NoOne ELSE names[c][n]
      BY <1>0, <2>3 DEF Stops, Cleared, Unregister
    <3>2. KnownHaveRun' /\ TablesStartEmpty' /\ TablesByName'
      BY <1>0, <1>14, <3>1 DEF TableInv, KnownHaveRun, TablesStartEmpty, TablesByName
    <3>3. LeaderGivesPrograms'
      <4> SUFFICES ASSUME leader # NoOne, cid[leader] = "runs", NEW n \in Registered, names'[leader][n] # NoOne
                   PROVE  /\ prog'[names'[leader][n]] \notin {"none", "starts", "maps", "gone"}
                          /\ prog'[names'[leader][n]] = "unmaps" => via'[names'[leader][n]] = leader
        BY <1>14 DEF LeaderGivesPrograms
      <4>1. PICK g \in Programs : g = names[leader][n] /\ names'[leader][n] = g
        BY <1>0, <3>1
      <4>2. prog[g] \notin {"none", "starts", "maps", "gone"} /\ (prog[g] = "unmaps" => via[g] = leader)
        BY <1>0, <4>1 DEF TableInv, LeaderGivesPrograms
      <4>3. NameOf[g] = n
        BY <1>0, <4>1 DEF TableInv, TablesByName
      <4>4. g # h
        BY <1>0, <2>3, <3>1, <4>1, <4>2, <4>3
      <4> QED
        BY <3>1, <4>1, <4>2, <4>4
    <3>4. RegisteredAreGiven'
      <4> SUFFICES ASSUME NEW g \in Programs, prog'[g] = "runs", via'[g] # NoOne, cid[via'[g]] = "runs"
                   PROVE  \/ names'[via'[g]][NameOf[g]] = g
                          \/ \E f \in Programs \ {g} : NameOf[f] = NameOf[g] /\ prog'[f] # "none"
        BY <1>14 DEF RegisteredAreGiven
      <4>1. g # h /\ prog[g] = "runs" /\ via'[g] = via[g] /\ via[g] \in Cids /\ NameOf[g] \in Registered
        BY <1>0, <3>1
      <4>2. \A f \in Programs : prog[f] # "none" => prog'[f] # "none"
        BY <3>1
      <4>3. CASE NameOf[g] = NameOf[h]
        BY <3>1, <4>1, <4>3
      <4>4. CASE NameOf[g] # NameOf[h]
        BY <3>1, <4>1, <4>2, <4>4 DEF TableInv, RegisteredAreGiven
      <4> QED
        BY <4>3, <4>4
    <3> QED
      BY <3>2, <3>3, <3>4 DEF TableInv
  <2> QED
    BY <1>14, <2>1, <2>2, <2>3 DEF sngd_unmap
<1>15. ASSUME NEW h \in Programs, Registers(h) PROVE TableInv'
  BY <1>13, <1>14, <1>15 DEF Registers, pmdVars
<1> QED
  BY <1>1, <1>2, <1>3, <1>4, <1>5, <1>6, <1>7, <1>8, <1>11, <1>15 DEF NamesNext

\* The programs of a login are found: what the last CID to start knows, and what is known of it.
LEMMA NamesInvariant == NamesSpec => [](NamesTypes /\ LeaderInv /\ TableInv)
<1>1. NamesInit => NamesTypes /\ LeaderInv /\ TableInv
  <2> SUFFICES ASSUME NamesInit PROVE NamesTypes /\ LeaderInv /\ TableInv
    OBVIOUS
  <2>1. NamesTypes
    BY DEF NamesInit, NamesTypes, ProgTypes, Registered
  <2>2. LeaderInv
    BY DEF NamesInit, LeaderInv, LeaderHasStarted, StartersCross, StartersMeet, EveryCidIsFound, Starting
  <2>3. TableInv
    BY DEF NamesInit, TableInv, KnownHaveRun, TablesStartEmpty, TablesByName, LeaderGivesPrograms,
           RegisteredAreGiven, Registered
  <2> QED
    BY <2>1, <2>2, <2>3
<1> QED
  BY <1>1, NamesTypeStep, LeaderStep, TableStep, PTL DEF NamesSpec

\* Names by itself is what the programs of a host do of it.
LEMMA HostNames == HostProgramsSpec => NamesSpec
<1>1. HostProgramsInit => NamesInit
  BY DEF HostProgramsInit
<1>2. [HostProgramsNext]_partVars => [NamesNext]_namesVars
  BY DEF HostProgramsNext, Mapper, Naming, AppLists, HostFiles, Conf, Transfers, Users, partVars
<1> QED
  BY <1>1, <1>2, PTL DEF HostProgramsSpec, NamesSpec

\* However many CIDs of a login start, exit and are killed: one that serves, and neither
\* started while another one did nor ran when PMD exited, is the one PMD gives, because it
\* makes the one it meets exit before it registers (initSocket), and one that leaves removes
\* no entry but its own (pmd_unmap).
THEOREM CidsAreFound == HostProgramsSpec => []EveryCidIsFound
<1>1. LeaderInv => EveryCidIsFound
  BY DEF LeaderInv
<1> QED
  BY <1>1, HostNames, NamesInvariant, PTL

\* The table of the CID that PMD gives is true of every handler and DAC, though their lookup
\* and their call are two steps between which that CID, PMD or they themselves may end
\* (sngd_map, sngd_unmap).
THEOREM TablesAreTrue == HostProgramsSpec => []NamesAreTrue
<1>1. NamesTypes /\ TableInv => NamesAreTrue
  <2> SUFFICES ASSUME NamesTypes, TableInv, leader # NoOne, cid[leader] = "runs"
               PROVE  /\ \A n \in DOMAIN names[leader] :
                           names[leader][n] # NoOne =>
                             prog[names[leader][n]] \notin {"none", "starts", "maps", "gone"}
                      /\ \A h \in Programs :
                           prog[h] = "runs" /\ via[h] = leader =>
                             \/ names[leader][NameOf[h]] = h
                             \/ \E g \in Programs \ {h} : NameOf[g] = NameOf[h] /\ prog[g] # "none"
    BY DEF NamesAreTrue
  <2>1. DOMAIN names[leader] = Registered
    BY DEF NamesTypes
  <2> QED
    BY <2>1 DEF TableInv, LeaderGivesPrograms, RegisteredAreGiven
<1> QED
  BY <1>1, HostNames, NamesInvariant, PTL

-----------------------------------------------------------------------------
(* The table of hosts.                                                     *)

HostLines == [host : Hosts, off : BOOLEAN, glued : Hosts \cup {NoHost}]
Sayings == [Hosts -> {"on", "off", "absent", "lost"}]
Writes(u) == shell[u].at = "writes"

HostTypes ==
  /\ file \in Seq(HostLines) \cup {NoFile} /\ told \in Sayings
  /\ shell \in [Shells -> [at : {"idle", "holds", "marks", "sets", "writes"}, lines : Seq(HostLines),
                           told : Sayings, stale : BOOLEAN]]
  /\ up \subseteq Hosts /\ behind \subseteq Hosts /\ overlap \in BOOLEAN

\* The lines say of every host once what is said of it.
Agree(lines, said) ==
  /\ \A k, j \in DOMAIN lines : lines[k].host = lines[j].host => k = j
  /\ \A k \in DOMAIN lines : said[lines[k].host] = IF lines[k].off THEN "off" ELSE "on"
  /\ \A h \in Hosts : said[h] \in {"on", "off"} => \E k \in DOMAIN lines : lines[k].host = h

\* One command writes at a time, and what others have read is out of date then.
OneWrites ==
  /\ \A u, v \in Shells : Writes(u) /\ Writes(v) => u = v
  /\ \A u \in Shells : Writes(u) => file = <<>>
  /\ \A u, v \in Shells : Writes(u) /\ Asks(v) => shell[v].stale
\* Lines that are written, or may yet be, agree with what their command has been told ...
LinesAgree ==
  \A u \in Shells : Writes(u) \/ (Asks(u) /\ ~shell[u].stale) => Agree(shell[u].lines, shell[u].told)
\* ... and so does the file while nobody writes it.
FileAgrees ==
  (\A u \in Shells : ~Writes(u)) =>
    IF file = NoFile THEN \A h \in Hosts : told[h] = "absent" ELSE Agree(file, told)
CidsAreOn == up \subseteq behind \cup {h \in Hosts : told[h] = "on"}
HostFileInv == HostTypes /\ (~overlap => OneWrites /\ LinesAgree /\ FileAgrees /\ CidsAreOn)

-----------------------------------------------------------------------------
(* What the commands make of the lines.                                    *)

\* Each line of a host file names a host, and whether it is marked off.
LEMMA LineIsHost ==
  ASSUME NEW lines \in Seq(HostLines), NEW k \in DOMAIN lines
  PROVE  lines[k] \in HostLines /\ lines[k].host \in Hosts /\ lines[k].off \in BOOLEAN
<1>1. lines[k] \in HostLines
  OBVIOUS
<1> QED
  BY <1>1 DEF HostLines

\* A host that is marked off or has no line is on, afterwards.
LEMMA AddedAgrees ==
  ASSUME NEW lines \in Seq(HostLines), NEW said \in Sayings, Agree(lines, said), NEW h \in Hosts,
         \A k \in LineOf(h, lines) : lines[k].off
  PROVE  /\ Added(lines, h) \in Seq(HostLines)
         /\ Agree(Added(lines, h), [said EXCEPT ![h] = "on"])
<1>1. PlainLine(h) \in HostLines /\ PlainLine(h).host = h /\ ~PlainLine(h).off
  BY DEF PlainLine, HostLines
<1>2. \A k \in DOMAIN lines : lines[k] \in HostLines
  BY LineIsHost
<1>3. CASE LineOf(h, lines) = {}
  <2>1. \A k \in DOMAIN lines : lines[k].host # h
    BY <1>3 DEF LineOf
  <2> DEFINE more == Append(lines, PlainLine(h))
             news == [said EXCEPT ![h] = "on"]
  <2>2. /\ more \in Seq(HostLines) /\ DOMAIN more = 1 .. Len(lines) + 1 /\ DOMAIN lines = 1 .. Len(lines)
        /\ \A k \in DOMAIN lines : more[k] = lines[k]
        /\ more[Len(lines) + 1] = PlainLine(h) /\ Len(lines) \in Nat
    BY <1>1
  <2>3. \A g \in Hosts : news[g] = IF g = h THEN "on" ELSE said[g]
    BY DEF Sayings
  <2> HIDE DEF more, news
  <2>4. \A k \in DOMAIN more : k \in DOMAIN lines \/ k = Len(lines) + 1
    BY <2>2
  <2>5. \A k, j \in DOMAIN more : more[k].host = more[j].host => k = j
    BY <1>1, <2>1, <2>2, <2>4 DEF Agree
  <2>6. \A k \in DOMAIN more : news[more[k].host] = IF more[k].off THEN "off" ELSE "on"
    BY <1>1, <1>2, <2>1, <2>2, <2>3, <2>4, LineIsHost DEF Agree
  <2>7. \A g \in Hosts : news[g] \in {"on", "off"} => \E k \in DOMAIN more : more[k].host = g
    <3> SUFFICES ASSUME NEW g \in Hosts, news[g] \in {"on", "off"} PROVE \E k \in DOMAIN more : more[k].host = g
      OBVIOUS
    <3>1. CASE g = h
      BY <1>1, <2>2, <3>1
    <3>2. CASE g # h
      <4>1. PICK k \in DOMAIN lines : lines[k].host = g
        BY <2>3, <3>2 DEF Agree
      <4> QED
        BY <2>2, <4>1
    <3> QED
      BY <3>1, <3>2
  <2> QED
    BY <1>3, <2>2, <2>5, <2>6, <2>7 DEF Added, Agree, more, news
<1>4. CASE LineOf(h, lines) # {}
  <2> DEFINE more == [k \in DOMAIN lines |-> IF lines[k].host = h THEN [lines[k] EXCEPT !.off = FALSE] ELSE lines[k]]
             news == [said EXCEPT ![h] = "on"]
  <2>1. \A k \in DOMAIN lines :
           /\ more[k] \in HostLines /\ more[k].host = lines[k].host
           /\ more[k].off = IF lines[k].host = h THEN FALSE ELSE lines[k].off
    BY <1>2 DEF HostLines
  <2>2. DOMAIN more = DOMAIN lines /\ more \in Seq(HostLines)
    <3>1. DOMAIN lines = 1 .. Len(lines) /\ Len(lines) \in Nat
      OBVIOUS
    <3>2. more \in [1 .. Len(lines) -> HostLines]
      BY <2>1, <3>1
    <3> QED
      BY <3>1, <3>2
  <2>3. \A g \in Hosts : news[g] = IF g = h THEN "on" ELSE said[g]
    BY DEF Sayings
  <2>4. PICK m \in DOMAIN lines : lines[m].host = h
    BY <1>4 DEF LineOf
  <2> HIDE DEF more, news
  <2> QED
    BY <1>4, <2>1, <2>2, <2>3, <2>4, LineIsHost DEF Added, Agree, more, news
<1> QED
  BY <1>3, <1>4

\* The lines after one that is taken out move up.
LEMMA RemovedLines ==
  ASSUME NEW S, NEW lines \in Seq(S), NEW i \in DOMAIN lines
  PROVE  /\ RemoveAt(lines, i) \in Seq(S) /\ DOMAIN RemoveAt(lines, i) = 1 .. Len(lines) - 1
         /\ \A j \in 1 .. Len(lines) - 1 : RemoveAt(lines, i)[j] = IF j < i THEN lines[j] ELSE lines[j + 1]
<1> DEFINE front == SubSeq(lines, 1, i - 1)
           back == SubSeq(lines, i + 1, Len(lines))
<1>1. front \in Seq(S) /\ Len(front) = i - 1 /\ \A j \in 1 .. i - 1 : front[j] = lines[j]
  OBVIOUS
<1>2. back \in Seq(S) /\ Len(back) = Len(lines) - i /\ \A j \in 1 .. Len(lines) - i : back[j] = lines[i + j]
  OBVIOUS
<1>3. RemoveAt(lines, i) = front \o back
  BY DEF RemoveAt
<1>4. i \in 1 .. Len(lines) /\ Len(lines) \in Nat
  OBVIOUS
<1> HIDE DEF front, back
<1>5. /\ front \o back \in Seq(S) /\ Len(front \o back) = Len(lines) - 1
      /\ \A j \in 1 .. Len(lines) - 1 : (front \o back)[j] = IF j < i THEN front[j] ELSE back[j - (i - 1)]
  <2>1. /\ front \o back \in Seq(S) /\ Len(front \o back) = Len(front) + Len(back)
        /\ \A j \in 1 .. Len(front) + Len(back) :
             (front \o back)[j] = IF j <= Len(front) THEN front[j] ELSE back[j - Len(front)]
    BY <1>1, <1>2, ConcatProperties
  <2>2. Len(front) + Len(back) = Len(lines) - 1 /\ \A j \in 1 .. Len(lines) - 1 : (j <= Len(front)) = (j < i)
    BY <1>1, <1>2, <1>4
  <2> QED
    BY <1>1, <2>1, <2>2
<1>6. ASSUME NEW j \in 1 .. Len(lines) - 1
      PROVE  (front \o back)[j] = IF j < i THEN lines[j] ELSE lines[j + 1]
  <2>1. CASE j < i
    BY <1>1, <1>4, <1>5, <2>1
  <2>2. CASE ~(j < i)
    <3>1. j - (i - 1) \in 1 .. Len(lines) - i /\ i + (j - (i - 1)) = j + 1
      BY <1>4, <2>2
    <3> QED
      BY <1>2, <1>5, <2>2, <3>1
  <2> QED
    BY <2>1, <2>2
<1>7. DOMAIN (front \o back) = 1 .. Len(lines) - 1
  BY <1>5
<1> QED
  BY <1>3, <1>5, <1>6, <1>7

\* A host has one line, and the first of its lines is that one.
LEMMA OneLine ==
  ASSUME NEW lines \in Seq(HostLines), NEW said, Agree(lines, said), NEW h \in Hosts, LineOf(h, lines) # {}
  PROVE  \E k \in DOMAIN lines : LineOf(h, lines) = {k} /\ Min(LineOf(h, lines)) = k /\ lines[k].host = h
<1>1. PICK k \in DOMAIN lines : lines[k].host = h
  BY DEF LineOf
<1>2. LineOf(h, lines) = {k}
  BY <1>1 DEF LineOf, Agree
<1>3. k \in Int
  OBVIOUS
<1>4. Min({k}) = k
  BY <1>3 DEF Min
<1> QED
  BY <1>1, <1>2, <1>4

\* Its line is taken out.
LEMMA RemovedAgrees ==
  ASSUME NEW lines \in Seq(HostLines), NEW said \in Sayings, Agree(lines, said),
         NEW h \in Hosts, LineOf(h, lines) # {}
  PROVE  /\ RemoveAt(lines, Min(LineOf(h, lines))) \in Seq(HostLines)
         /\ Agree(RemoveAt(lines, Min(LineOf(h, lines))), [said EXCEPT ![h] = "absent"])
<1>1. PICK i \in DOMAIN lines : LineOf(h, lines) = {i} /\ Min(LineOf(h, lines)) = i /\ lines[i].host = h
  BY OneLine
<1> DEFINE more == RemoveAt(lines, i)
           news == [said EXCEPT ![h] = "absent"]
           Was(j) == IF j < i THEN j ELSE j + 1
<1>2. /\ more \in Seq(HostLines) /\ DOMAIN more = 1 .. Len(lines) - 1
      /\ \A j \in 1 .. Len(lines) - 1 : more[j] = IF j < i THEN lines[j] ELSE lines[j + 1]
  BY RemovedLines
<1>3. DOMAIN lines = 1 .. Len(lines) /\ Len(lines) \in Nat
  OBVIOUS
<1>4. /\ \A j \in DOMAIN more : Was(j) \in DOMAIN lines /\ Was(j) # i /\ more[j] = lines[Was(j)]
      /\ \A j, k \in DOMAIN more : Was(j) = Was(k) => j = k
      /\ \A k \in DOMAIN lines : k # i => \E j \in DOMAIN more : Was(j) = k
  <2>1. ASSUME NEW k \in DOMAIN lines, k # i PROVE \E j \in DOMAIN more : Was(j) = k
    <3>1. CASE k < i
      BY <1>2, <1>3, <3>1
    <3>2. CASE ~(k < i)
      <4>1. k - 1 \in DOMAIN more /\ Was(k - 1) = k
        BY <1>2, <1>3, <2>1, <3>2
      <4> QED
        BY <4>1
    <3> QED
      BY <3>1, <3>2
  <2>2. ASSUME NEW j \in DOMAIN more PROVE Was(j) \in DOMAIN lines /\ Was(j) # i /\ more[j] = lines[Was(j)]
    BY <1>2, <1>3
  <2>3. ASSUME NEW j \in DOMAIN more, NEW k \in DOMAIN more, Was(j) = Was(k) PROVE j = k
    BY <1>2, <1>3, <2>3
  <2> QED
    BY <2>1, <2>2, <2>3
<1>5. \A g \in Hosts : news[g] = IF g = h THEN "absent" ELSE said[g]
  BY DEF Sayings
<1>6. \A k \in DOMAIN lines : lines[k].host \in Hosts /\ (lines[k].host = h => k = i)
  BY <1>1, LineIsHost DEF LineOf
<1> HIDE DEF more, news, Was
<1>7. \A j, k \in DOMAIN more : more[j].host = more[k].host => j = k
  BY <1>4 DEF Agree
<1>8. \A j \in DOMAIN more : news[more[j].host] = IF more[j].off THEN "off" ELSE "on"
  BY <1>4, <1>5, <1>6 DEF Agree
<1>9. \A g \in Hosts : news[g] \in {"on", "off"} => \E j \in DOMAIN more : more[j].host = g
  <2> SUFFICES ASSUME NEW g \in Hosts, news[g] \in {"on", "off"} PROVE \E j \in DOMAIN more : more[j].host = g
    OBVIOUS
  <2>1. g # h /\ said[g] \in {"on", "off"}
    BY <1>5
  <2>2. PICK k \in DOMAIN lines : lines[k].host = g
    BY <2>1 DEF Agree
  <2> QED
    BY <1>1, <1>4, <2>1, <2>2
<1> QED
  BY <1>1, <1>2, <1>7, <1>8, <1>9 DEF Agree, more, news

\* Lines that keep their hosts.
LEMMA EditedAgrees ==
  ASSUME NEW lines \in Seq(HostLines), NEW said, Agree(lines, said),
         NEW more, DOMAIN more = DOMAIN lines, \A k \in DOMAIN lines : more[k].host = lines[k].host,
         NEW news,
         \A k \in DOMAIN lines : news[lines[k].host] = IF more[k].off THEN "off" ELSE "on",
         \A h \in Hosts : (\A k \in DOMAIN lines : lines[k].host # h) => news[h] = said[h]
  PROVE  Agree(more, news)
BY DEF Agree

\* A line marked off.
LEMMA MarkedAgrees ==
  ASSUME NEW lines \in Seq(HostLines), NEW said \in Sayings, Agree(lines, said),
         NEW h \in Hosts, NEW i \in DOMAIN lines, lines[i].host = h,
         NEW line \in HostLines, line.host = h, line.off
  PROVE  /\ [lines EXCEPT ![i] = line] \in Seq(HostLines)
         /\ Agree([lines EXCEPT ![i] = line], [said EXCEPT ![h] = "off"])
<1> DEFINE more == [lines EXCEPT ![i] = line]
           news == [said EXCEPT ![h] = "off"]
<1>1. more \in Seq(HostLines) /\ DOMAIN more = DOMAIN lines
  OBVIOUS
<1>2. \A k \in DOMAIN lines : more[k] = IF k = i THEN line ELSE lines[k]
  OBVIOUS
<1>3. \A g \in Hosts : news[g] = IF g = h THEN "off" ELSE said[g]
  BY DEF Sayings
<1> HIDE DEF more, news
<1>4. \A k \in DOMAIN lines : more[k].host = lines[k].host
  BY <1>2
<1>5. \A k \in DOMAIN lines : lines[k].host \in Hosts /\ (lines[k].host = h => k = i)
  BY LineIsHost DEF Agree
<1>6. \A k \in DOMAIN lines : news[lines[k].host] = IF more[k].off THEN "off" ELSE "on"
  BY <1>2, <1>3, <1>5 DEF Agree
<1>7. \A g \in Hosts : (\A k \in DOMAIN lines : lines[k].host # g) => news[g] = said[g]
  BY <1>3
<1>8. Agree(more, news)
  BY <1>1, <1>4, <1>6, <1>7, EditedAgrees
<1> QED
  BY <1>1, <1>8 DEF more, news

\* The lines i to j selected or deselected.
LEMMA SelectionAgrees ==
  ASSUME NEW lines \in Seq(HostLines), NEW said \in Sayings, NEW marked \in SUBSET DOMAIN lines, NEW off \in BOOLEAN,
         NEW more, more = [k \in DOMAIN lines |-> IF k \in marked THEN [lines[k] EXCEPT !.off = off] ELSE lines[k]],
         NEW news, news = [h \in Hosts |-> IF \E k \in marked : lines[k].host = h THEN IF off THEN "off" ELSE "on"
                                           ELSE said[h]]
  PROVE  more \in Seq(HostLines) /\ news \in Sayings /\ (Agree(lines, said) => Agree(more, news))
<1>1. \A k \in DOMAIN lines : lines[k] \in HostLines /\ lines[k].host \in Hosts
  BY LineIsHost
<1>2. \A k \in DOMAIN lines : /\ more[k] \in HostLines /\ more[k].host = lines[k].host
                              /\ more[k].off = IF k \in marked THEN off ELSE lines[k].off
  BY <1>1 DEF HostLines
<1>3. more \in Seq(HostLines) /\ DOMAIN more = DOMAIN lines
  <2>1. DOMAIN lines = 1 .. Len(lines) /\ Len(lines) \in Nat
    OBVIOUS
  <2>2. more \in [1 .. Len(lines) -> HostLines]
    BY <1>2, <2>1
  <2> QED
    BY <2>1, <2>2
<1>4. news \in Sayings
  BY DEF Sayings
<1>5. ASSUME Agree(lines, said) PROVE Agree(more, news)
  <2>1. \A k \in DOMAIN lines : news[lines[k].host] = IF more[k].off THEN "off" ELSE "on"
    <3> SUFFICES ASSUME NEW k \in DOMAIN lines PROVE news[lines[k].host] = IF more[k].off THEN "off" ELSE "on"
      OBVIOUS
    <3>1. CASE k \in marked
      BY <1>1, <1>2, <3>1
    <3>2. CASE k \notin marked
      <4>1. ~ \E j \in marked : lines[j].host = lines[k].host
        BY <1>5, <3>2 DEF Agree
      <4> QED
        BY <1>1, <1>2, <1>5, <3>2, <4>1 DEF Agree
    <3> QED
      BY <3>1, <3>2
  <2>2. \A h \in Hosts : (\A k \in DOMAIN lines : lines[k].host # h) => news[h] = said[h]
    OBVIOUS
  <2>3. DOMAIN more = DOMAIN lines /\ \A k \in DOMAIN lines : more[k].host = lines[k].host
    BY <1>2, <1>3
  <2> QED
    BY <1>5, <2>1, <2>2, <2>3 DEF Agree
<1> QED
  BY <1>3, <1>4, <1>5

\* The lines i to j written with another file system.
LEMMA SystemsAgree ==
  ASSUME NEW lines \in Seq(HostLines), NEW said, NEW marked \in SUBSET DOMAIN lines,
         NEW more, more = [k \in DOMAIN lines |-> IF k \in marked THEN [lines[k] EXCEPT !.glued = NoHost] ELSE lines[k]]
  PROVE  more \in Seq(HostLines) /\ (Agree(lines, said) => Agree(more, said))
<1>1. \A k \in DOMAIN lines : lines[k] \in HostLines
  BY LineIsHost
<1>2. \A k \in DOMAIN lines : more[k] \in HostLines /\ more[k].host = lines[k].host /\ more[k].off = lines[k].off
  BY <1>1 DEF HostLines
<1>3. more \in Seq(HostLines) /\ DOMAIN more = DOMAIN lines
  <2>1. DOMAIN lines = 1 .. Len(lines) /\ Len(lines) \in Nat
    OBVIOUS
  <2>2. more \in [1 .. Len(lines) -> HostLines]
    BY <1>2, <2>1
  <2> QED
    BY <2>1, <2>2
<1> QED
  BY <1>2, <1>3 DEF Agree

-----------------------------------------------------------------------------
(* The file agrees with what the commands have been told.                  *)

\* What a shell keeps while it is in a command.
LEMMA CommandFields ==
  ASSUME HostTypes, NEW u \in Shells
  PROVE  /\ shell[u].at \in {"idle", "holds", "marks", "sets", "writes"} /\ shell[u].lines \in Seq(HostLines)
         /\ shell[u].told \in Sayings /\ shell[u].stale \in BOOLEAN
<1>1. shell[u] \in [at : {"idle", "holds", "marks", "sets", "writes"}, lines : Seq(HostLines),
                    told : Sayings, stale : BOOLEAN]
  BY DEF HostTypes
<1> QED
  BY <1>1

\* The command of one caller changes, and nothing else.
LEMMA CommandChanges ==
  ASSUME HostTypes, NEW u \in Shells,
         NEW at \in {"holds", "marks", "sets"}, NEW lines \in Seq(HostLines), NEW news \in Sayings, NEW stale \in BOOLEAN,
         Command(u, at, lines, news, stale), UNCHANGED <<file, up, told, overlap, behind>>
  PROVE  /\ HostTypes'
         /\ shell'[u].at = at /\ shell'[u].lines = lines /\ shell'[u].told = news /\ shell'[u].stale = stale
         /\ \A v \in Shells \ {u} : shell'[v] = shell[v]
<1>1. /\ DOMAIN shell = Shells
      /\ [at |-> at, lines |-> lines, told |-> news, stale |-> stale]
           \in [at : {"idle", "holds", "marks", "sets", "writes"}, lines : Seq(HostLines), told : Sayings, stale : BOOLEAN]
  BY DEF HostTypes
<1> QED
  BY <1>1 DEF Command, HostTypes

\* A command reads the file: while another one writes it, what it has read is out of date.
LEMMA HoldsKept ==
  ASSUME HostFileInv, ~overlap, NEW u \in Shells, shell[u].at = "idle",
         NEW at \in {"holds", "marks", "sets"}, NEW lines \in Seq(HostLines), NEW news \in Sayings,
         (\A v \in Shells : ~Writes(v)) => Agree(lines, news), Holds(u, at, lines, news)
  PROVE  HostFileInv'
<1>1. PICK stale \in BOOLEAN : stale = \E v \in Shells : shell[v].at = "writes"
  OBVIOUS
<1>2. /\ Command(u, at, lines, news, stale) /\ UNCHANGED <<file, up, told, overlap, behind>>
      /\ HostTypes /\ OneWrites /\ LinesAgree /\ FileAgrees /\ CidsAreOn
  BY <1>1 DEF Holds, HostFileInv
<1>3. /\ HostTypes'
      /\ shell'[u].at = at /\ shell'[u].lines = lines /\ shell'[u].told = news /\ shell'[u].stale = stale
      /\ \A v \in Shells \ {u} : shell'[v] = shell[v]
  BY <1>2, CommandChanges
<1>4. \A v \in Shells : shell'[v].at = "writes" <=> shell[v].at = "writes"
  BY <1>3
<1>5. OneWrites'
  BY <1>1, <1>2, <1>3, <1>4 DEF OneWrites, Writes, Asks
<1>6. LinesAgree'
  <2> SUFFICES ASSUME NEW v \in Shells,
                      shell'[v].at = "writes" \/ (shell'[v].at \in {"holds", "marks", "sets"} /\ ~shell'[v].stale)
               PROVE  Agree(shell'[v].lines, shell'[v].told)
    BY DEF LinesAgree, Writes, Asks
  <2>1. CASE v = u
    <3>1. ~stale
      BY <1>3, <2>1
    <3>2. Agree(lines, news)
      BY <1>1, <3>1 DEF Writes
    <3> QED
      BY <1>3, <2>1, <3>2
  <2>2. CASE v # u
    BY <1>2, <1>3, <2>2 DEF LinesAgree, Writes, Asks
  <2> QED
    BY <2>1, <2>2
<1>7. FileAgrees' /\ CidsAreOn'
  BY <1>2, <1>4 DEF FileAgrees, CidsAreOn, Writes, Agree
<1> QED
  BY <1>3, <1>5, <1>6, <1>7 DEF HostFileInv

\* Its user changes the lines.
LEMMA EditsKept ==
  ASSUME HostFileInv, ~overlap, NEW u \in Shells, Asks(u),
         NEW lines \in Seq(HostLines), NEW news \in Sayings,
         Agree(shell[u].lines, shell[u].told) => Agree(lines, news), Edits(u, lines, news)
  PROVE  HostFileInv'
<1>1. /\ Command(u, shell[u].at, lines, news, shell[u].stale) /\ UNCHANGED <<file, up, told, overlap, behind>>
      /\ HostTypes /\ OneWrites /\ LinesAgree /\ FileAgrees /\ CidsAreOn
  BY DEF Edits, HostFileInv
<1>2. shell[u].stale \in BOOLEAN /\ shell[u].at \in {"holds", "marks", "sets"}
  BY <1>1, CommandFields DEF Asks
<1>3. /\ HostTypes'
      /\ shell'[u].at = shell[u].at /\ shell'[u].lines = lines /\ shell'[u].told = news /\ shell'[u].stale = shell[u].stale
      /\ \A v \in Shells \ {u} : shell'[v] = shell[v]
  BY <1>1, <1>2, CommandChanges
<1>4. \A v \in Shells : shell'[v].at = shell[v].at /\ shell'[v].stale = shell[v].stale
  BY <1>3
<1>5. OneWrites'
  BY <1>1, <1>4 DEF OneWrites, Writes, Asks
<1>6. LinesAgree'
  BY <1>1, <1>2, <1>3, <1>4 DEF LinesAgree, Writes, Asks, Agree
<1>7. FileAgrees' /\ CidsAreOn'
  BY <1>1, <1>4 DEF FileAgrees, CidsAreOn, Writes, Agree
<1> QED
  BY <1>3, <1>5, <1>6, <1>7 DEF HostFileInv

\* A command that is idle again.
LEMMA IdleChange ==
  ASSUME HostTypes, NEW u \in Shells, shell' = [shell EXCEPT ![u] = Idle]
  PROVE  /\ shell'[u] = Idle /\ Idle.at = "idle" /\ \A v \in Shells \ {u} : shell'[v] = shell[v]
         /\ shell' \in [Shells -> [at : {"idle", "holds", "marks", "sets", "writes"}, lines : Seq(HostLines),
                                   told : Sayings, stale : BOOLEAN]]
<1>1. Idle \in [at : {"idle", "holds", "marks", "sets", "writes"}, lines : Seq(HostLines), told : Sayings, stale : BOOLEAN]
  <2>1. [h \in Hosts |-> "absent"] \in Sayings /\ <<>> \in Seq(HostLines)
    BY DEF Sayings
  <2> QED
    BY <2>1 DEF Idle
<1>2. Idle.at = "idle"
  BY DEF Idle
<1> QED
  BY <1>1, <1>2 DEF HostTypes

\* A command that finds nothing to do, or is told no, writes nothing.
LEMMA QuitsKept ==
  ASSUME HostFileInv, ~overlap, NEW u \in Shells, Quits(u)
  PROVE  HostFileInv'
<1>1. /\ Asks(u) /\ shell' = [shell EXCEPT ![u] = Idle] /\ UNCHANGED <<file, up, told, overlap, behind>>
      /\ HostTypes /\ OneWrites /\ LinesAgree /\ FileAgrees /\ CidsAreOn
  BY DEF Quits, HostFileInv
<1>2. /\ shell'[u].at = "idle" /\ \A v \in Shells \ {u} : shell'[v] = shell[v]
      /\ HostTypes'
  BY <1>1, IdleChange DEF HostTypes
<1>3. \A v \in Shells : shell'[v].at = "writes" <=> shell[v].at = "writes"
  BY <1>1, <1>2 DEF Asks
<1>4. OneWrites'
  BY <1>1, <1>2, <1>3 DEF OneWrites, Writes, Asks
<1>5. LinesAgree'
  BY <1>1, <1>2, <1>3 DEF LinesAgree, Writes, Asks, Agree
<1>6. FileAgrees' /\ CidsAreOn'
  BY <1>1, <1>3 DEF FileAgrees, CidsAreOn, Writes, Agree
<1> QED
  BY <1>2, <1>4, <1>5, <1>6 DEF HostFileInv

\* From here the file is empty, and what the others have read is stale.
LEMMA OpensKept ==
  ASSUME HostFileInv, ~overlap, NEW u \in Shells, Opens(u)
  PROVE  HostFileInv'
<1>1. /\ Asks(u) /\ file' = <<>> /\ UNCHANGED <<up, told, behind>>
      /\ shell' = [v \in Shells |-> IF v = u THEN [shell[u] EXCEPT !.at = "writes"]
                                    ELSE [shell[v] EXCEPT !.stale = (shell[v].at # "idle")]]
      /\ overlap' = (shell[u].stale \/ \E v \in Shells : shell[v].at = "writes")
      /\ HostTypes /\ OneWrites /\ LinesAgree /\ FileAgrees /\ CidsAreOn
  BY DEF Opens, HostFileInv
<1>2. \A v \in Shells : shell[v] \in [at : {"idle", "holds", "marks", "sets", "writes"}, lines : Seq(HostLines),
                                     told : Sayings, stale : BOOLEAN]
  BY <1>1 DEF HostTypes
<1>3. /\ shell'[u].at = "writes" /\ shell'[u].lines = shell[u].lines /\ shell'[u].told = shell[u].told
      /\ \A v \in Shells \ {u} : shell'[v].at = shell[v].at /\ shell'[v].stale = (shell[v].at # "idle")
  BY <1>1, <1>2
<1>4. HostTypes'
  <2>1. shell' \in [Shells -> [at : {"idle", "holds", "marks", "sets", "writes"}, lines : Seq(HostLines),
                               told : Sayings, stale : BOOLEAN]]
    BY <1>1, <1>2
  <2>2. overlap' \in BOOLEAN /\ <<>> \in Seq(HostLines)
    BY <1>1, CommandFields
  <2> QED
    BY <1>1, <2>1, <2>2 DEF HostTypes
<1>5. ASSUME ~overlap' PROVE OneWrites' /\ LinesAgree' /\ FileAgrees' /\ CidsAreOn'
  <2>1. ~shell[u].stale /\ \A v \in Shells : shell[v].at # "writes"
    BY <1>1, <1>5
  <2>2. \A v \in Shells : shell'[v].at = "writes" <=> v = u
    BY <1>3, <2>1
  <2>0. \A v \in Shells : shell'[v].at \in {"holds", "marks", "sets"} => v # u /\ shell'[v].stale
    BY <1>3
  <2>3. OneWrites'
    BY <1>1, <2>0, <2>2 DEF OneWrites, Writes, Asks
  <2>4. LinesAgree'
    <3>1. Agree(shell[u].lines, shell[u].told)
      BY <1>1, <2>1 DEF LinesAgree
    <3> QED
      BY <1>3, <2>0, <2>2, <3>1 DEF LinesAgree, Writes, Asks
  <2>5. FileAgrees' /\ CidsAreOn'
    BY <1>1, <2>2 DEF FileAgrees, CidsAreOn, Writes
  <2> QED
    BY <2>3, <2>4, <2>5
<1> QED
  BY <1>4, <1>5 DEF HostFileInv

\* The lines that a command has made are the file.
LEMMA ClosesKept ==
  ASSUME HostFileInv, ~overlap, NEW u \in Shells, Closes(u)
  PROVE  HostFileInv'
<1>1. /\ shell[u].at = "writes" /\ shell' = [shell EXCEPT ![u] = Idle]
      /\ file' = shell[u].lines /\ told' = shell[u].told
      /\ behind' = (behind \cup up) \ {h \in Hosts : shell[u].told[h] = "on"} /\ UNCHANGED <<up, overlap>>
      /\ HostTypes /\ OneWrites /\ LinesAgree /\ FileAgrees /\ CidsAreOn
  BY DEF Closes, HostFileInv
<1>2. shell[u].lines \in Seq(HostLines) /\ shell[u].told \in Sayings
  BY <1>1, CommandFields
<1>3. /\ shell'[u].at = "idle" /\ \A v \in Shells \ {u} : shell'[v] = shell[v]
      /\ HostTypes'
  BY <1>1, <1>2, IdleChange DEF HostTypes
<1>4. \A v \in Shells : shell'[v].at # "writes"
  BY <1>1, <1>3 DEF OneWrites, Writes
<1>5. \A v \in Shells : shell'[v].at \in {"holds", "marks", "sets"} => shell'[v].stale
  BY <1>1, <1>3 DEF OneWrites, Writes, Asks
<1>6. Agree(file', told') /\ file' # NoFile
  <2>1. Agree(shell[u].lines, shell[u].told)
    BY <1>1 DEF LinesAgree, Writes
  <2> QED
    BY <1>1, <1>2, <2>1, HostTableAssumption DEF HostLines
<1>7. OneWrites' /\ LinesAgree'
  BY <1>4, <1>5 DEF OneWrites, LinesAgree, Writes, Asks
<1>8. FileAgrees' /\ CidsAreOn'
  BY <1>1, <1>6 DEF FileAgrees, CidsAreOn, Agree, HostTypes
<1> QED
  BY <1>3, <1>7, <1>8 DEF HostFileInv

\* Readers find hosts that are on, alone.
LEMMA SelectedAreOn ==
  ASSUME HostFileInv, ~overlap
  PROVE  Selected \subseteq {h \in Hosts : told[h] = "on"}
<1> SUFFICES ASSUME NEW h \in Selected PROVE h \in Hosts /\ told[h] = "on"
  OBVIOUS
<1>1. /\ file # NoFile /\ \E k \in DOMAIN file : ~file[k].off /\ h = file[k].host
  BY DEF Selected
<1>2. PICK k \in DOMAIN file : ~file[k].off /\ h = file[k].host
  BY <1>1
<1>3. file \in Seq(HostLines) /\ file # <<>>
  BY <1>1 DEF HostFileInv, HostTypes
<1>4. Agree(file, told)
  BY <1>1, <1>3 DEF HostFileInv, OneWrites, FileAgrees
<1> QED
  BY <1>2, <1>3, <1>4, LineIsHost DEF Agree

\* sds, kds and the end of a CID leave the file as it is.
LEMMA ReadersKept ==
  ASSUME HostFileInv, ~overlap, sds \/ kds \/ (\E h \in Hosts : CidEnds(h)) \/ UNCHANGED hostVars
  PROVE  HostFileInv'
<1>1. Selected \subseteq {h \in Hosts : told[h] = "on"}
  BY SelectedAreOn
<1>2. /\ UNCHANGED <<file, shell, told, overlap>>
      /\ HostTypes /\ OneWrites /\ LinesAgree /\ FileAgrees /\ CidsAreOn
  BY DEF sds, kds, CidEnds, Reads, hostVars, HostFileInv
<1>3. CidsAreOn' /\ up' \subseteq Hosts /\ behind' \subseteq Hosts
  BY <1>1, <1>2 DEF sds, kds, CidEnds, hostVars, CidsAreOn, HostTypes
<1>4. HostTypes' /\ OneWrites' /\ LinesAgree' /\ FileAgrees'
  BY <1>2, <1>3 DEF HostTypes, OneWrites, LinesAgree, FileAgrees, Writes, Asks, Agree
<1> QED
  BY <1>3, <1>4 DEF HostFileInv

\* Every step of the commands keeps it.
LEMMA HostFileStep == HostFileInv /\ [HostNext]_hostVars => HostFileInv'
<1> SUFFICES ASSUME HostFileInv, [HostNext]_hostVars PROVE HostFileInv'
  OBVIOUS
<1>1. CASE UNCHANGED hostVars
  <2>1. CASE overlap
    BY <1>1, <2>1 DEF hostVars, HostFileInv, HostTypes
  <2>2. CASE ~overlap
    BY <1>1, <2>2, ReadersKept
  <2> QED
    BY <2>1, <2>2
<1>2. CASE HostNext
  <2> USE <1>2
  <2>1. ~overlap /\ HostTypes /\ OneWrites /\ LinesAgree /\ FileAgrees /\ CidsAreOn
    BY DEF HostNext, HostFileInv
  \* A command that has read lines finds them as they have been told of.
  <2>2. \/ file \in Seq(HostLines) /\ ((\A v \in Shells : ~Writes(v)) => Agree(file, told))
        \/ file = NoFile
    BY <2>1 DEF HostTypes, FileAgrees
  <2>3. file # <<>> => \A v \in Shells : ~Writes(v)
    BY <2>1 DEF OneWrites
  <2>4. told \in Sayings
    BY <2>1 DEF HostTypes
  <2>5. ASSUME NEW u \in Shells, NEW h \in Hosts, addhost(u, h) PROVE HostFileInv'
    <3>1. shell[u].at = "idle" /\ [told EXCEPT ![h] = "on"] \in Sayings
      BY <2>4, <2>5 DEF addhost, Sayings
    <3>2. CASE file = NoFile
      <4>1. h # LocalHost /\ LocalHost \in Hosts /\ file = NoFile
        BY <2>5, <3>2, HostTableAssumption DEF addhost
      <4>2. PICK line : line = [PlainLine(LocalHost) EXCEPT !.glued = h]
        OBVIOUS
      <4>3. line \in HostLines /\ line.host = LocalHost /\ ~line.off
        BY <4>1, <4>2 DEF PlainLine, HostLines
      <4>4. PICK news : news = [told EXCEPT ![LocalHost] = "on", ![h] = "lost"]
        OBVIOUS
      <4>5. news \in Sayings /\ news[LocalHost] = "on" /\ \A g \in Hosts \ {LocalHost} : news[g] = "lost" \/ news[g] = told[g]
        BY <2>4, <4>1, <4>4 DEF Sayings
      <4>6. (\A v \in Shells : ~Writes(v)) => Agree(<<line>>, news)
        <5> SUFFICES ASSUME \A v \in Shells : ~Writes(v) PROVE Agree(<<line>>, news)
          OBVIOUS
        <5>1. \A g \in Hosts : told[g] = "absent"
          BY <2>1, <4>1 DEF FileAgrees
        <5>2. DOMAIN <<line>> = {1} /\ <<line>>[1] = line
          OBVIOUS
        <5> QED
          BY <4>3, <4>5, <5>1, <5>2 DEF Agree
      <4>7. <<line>> \in Seq(HostLines)
        BY <4>3
      <4>8. Holds(u, "holds", <<line>>, news)
        BY <2>5, <3>2, <4>2, <4>4 DEF addhost
      <4> QED
        BY <2>1, <3>1, <4>5, <4>6, <4>7, <4>8, HoldsKept
    <3>3. CASE file # NoFile
      <4>1. /\ file # <<>> /\ \A k \in LineOf(h, file) : file[k].off
            /\ Holds(u, "holds", Added(file, h), [told EXCEPT ![h] = "on"])
        BY <2>5, <3>3 DEF addhost
      <4>2. file \in Seq(HostLines) /\ Agree(file, told)
        BY <2>2, <2>3, <3>3, <4>1
      <4>3. /\ Added(file, h) \in Seq(HostLines)
            /\ Agree(Added(file, h), [told EXCEPT ![h] = "on"])
        BY <2>4, <4>1, <4>2, AddedAgrees
      <4> QED
        BY <2>1, <3>1, <4>1, <4>3, HoldsKept
    <3> QED
      BY <3>2, <3>3
  <2>6. ASSUME NEW u \in Shells, NEW h \in Hosts, NEW force \in BOOLEAN, delhost(u, h, force) PROVE HostFileInv'
    <3>1. shell[u].at = "idle" /\ file # NoFile /\ LineOf(h, file) # {}
      BY <2>6 DEF delhost
    <3>2. file # <<>>
      <4>1. DOMAIN <<>> = {}
        OBVIOUS
      <4> QED
        BY <3>1, <4>1 DEF LineOf
    <3>3. file \in Seq(HostLines) /\ Agree(file, told)
      BY <2>2, <2>3, <3>1, <3>2
    <3>4. PICK k \in DOMAIN file : LineOf(h, file) = {k} /\ Min(LineOf(h, file)) = k /\ file[k].host = h
      BY <3>1, <3>3, OneLine
    <3>5. [told EXCEPT ![h] = "absent"] \in Sayings /\ [told EXCEPT ![h] = "off"] \in Sayings
      BY <2>4 DEF Sayings
    <3>6. CASE force
      <4>1. Holds(u, "holds", RemoveAt(file, Min(LineOf(h, file))), [told EXCEPT ![h] = "absent"])
        BY <2>6, <3>6 DEF delhost
      <4>2. /\ RemoveAt(file, Min(LineOf(h, file))) \in Seq(HostLines)
            /\ Agree(RemoveAt(file, Min(LineOf(h, file))), [told EXCEPT ![h] = "absent"])
        BY <2>4, <3>1, <3>3, RemovedAgrees
      <4> QED
        BY <2>1, <3>1, <3>5, <4>1, <4>2, HoldsKept
    <3>7. CASE ~force
      <4>1. PICK line \in MarkedOff(k) : Holds(u, "holds", [file EXCEPT ![k] = line], [told EXCEPT ![h] = "off"])
        BY <2>6, <3>4, <3>7 DEF delhost
      <4>2. file[k] \in HostLines
        BY <3>3, LineIsHost
      <4>3. line \in HostLines /\ line.host = h /\ line.off
        <5>1. CASE line = [PlainLine(file[k].host) EXCEPT !.off = TRUE]
          BY <3>4, <5>1 DEF PlainLine, HostLines
        <5>2. CASE line = file[k] /\ \A j \in 1 .. k : file[j].off
          <6>1. k \in 1 .. k
            BY <3>3
          <6> QED
            BY <3>4, <4>2, <5>2, <6>1
        <5> QED
          BY <4>1, <5>1, <5>2 DEF MarkedOff
      <4>4. /\ [file EXCEPT ![k] = line] \in Seq(HostLines)
            /\ Agree([file EXCEPT ![k] = line], [told EXCEPT ![h] = "off"])
        BY <2>4, <3>3, <3>4, <4>3, MarkedAgrees
      <4> QED
        BY <2>1, <3>1, <3>5, <4>1, <4>4, HoldsKept
    <3> QED
      BY <3>6, <3>7
  <2>7. ASSUME NEW u \in Shells, chosts(u) \/ sfs(u) PROVE HostFileInv'
    <3>1. /\ shell[u].at = "idle" /\ file # NoFile
          /\ Holds(u, "marks", file, told) \/ Holds(u, "sets", file, told)
      BY <2>7 DEF chosts, sfs
    <3>2. file \in Seq(HostLines) /\ ((\A v \in Shells : ~Writes(v)) => Agree(file, told))
      BY <2>2, <3>1
    <3> QED
      BY <2>1, <2>4, <3>1, <3>2, HoldsKept
  <2>8. ASSUME NEW u \in Shells, NEW i, NEW j, NEW off \in BOOLEAN, markhosts(u, i, j, off) PROVE HostFileInv'
    <3> DEFINE lines == shell[u].lines
               marked == i .. j
               more == [k \in DOMAIN lines |-> IF k \in marked THEN [lines[k] EXCEPT !.off = off] ELSE lines[k]]
               news == [h \in Hosts |-> IF \E k \in marked : lines[k].host = h THEN IF off THEN "off" ELSE "on"
                                        ELSE shell[u].told[h]]
    <3>1. Asks(u) /\ i \in DOMAIN lines /\ j \in i .. Len(lines) /\ Edits(u, more, news)
      BY <2>8 DEF markhosts, Asks
    <3>2. lines \in Seq(HostLines) /\ shell[u].told \in Sayings
      BY <2>1, CommandFields
    <3>3. marked \in SUBSET DOMAIN lines
      BY <3>1, <3>2
    <3> HIDE DEF lines, marked
    <3>4. more \in Seq(HostLines) /\ news \in Sayings /\ (Agree(lines, shell[u].told) => Agree(more, news))
      BY <3>2, <3>3, SelectionAgrees
    <3> HIDE DEF more, news
    <3> QED
      BY <2>1, <3>1, <3>4, EditsKept DEF lines
  <2>9. ASSUME NEW u \in Shells, NEW i, NEW j, setsystem(u, i, j) PROVE HostFileInv'
    <3> DEFINE lines == shell[u].lines
               marked == i .. j
               more == [k \in DOMAIN lines |-> IF k \in marked THEN [lines[k] EXCEPT !.glued = NoHost] ELSE lines[k]]
    <3>1. Asks(u) /\ i \in DOMAIN lines /\ j \in i .. Len(lines) /\ Edits(u, more, shell[u].told)
      BY <2>9 DEF setsystem, Asks
    <3>2. lines \in Seq(HostLines) /\ shell[u].told \in Sayings
      BY <2>1, CommandFields
    <3>3. marked \in SUBSET DOMAIN lines
      BY <3>1, <3>2
    <3> HIDE DEF lines, marked
    <3>4. more \in Seq(HostLines) /\ (Agree(lines, shell[u].told) => Agree(more, shell[u].told))
      BY <3>3, <3>2, SystemsAgree
    <3> HIDE DEF more
    <3> QED
      BY <2>1, <3>1, <3>2, <3>4, EditsKept DEF lines
  <2>10. ASSUME NEW u \in Shells, Quits(u) \/ Opens(u) \/ Closes(u) PROVE HostFileInv'
    BY <2>1, <2>10, QuitsKept, OpensKept, ClosesKept
  <2>11. ASSUME sds \/ kds \/ (\E h \in Hosts : CidEnds(h)) PROVE HostFileInv'
    BY <2>1, <2>11, ReadersKept
  <2> QED
    BY <2>5, <2>6, <2>7, <2>8, <2>9, <2>10, <2>11 DEF HostNext
<1> QED
  BY <1>1, <1>2

\* At first nobody is in a command, and the file is what the shells have been told.
LEMMA HostFileStart == HostInit => HostFileInv
<1> SUFFICES ASSUME HostInit PROVE HostFileInv
  OBVIOUS
<1>1. \A u \in Shells : shell[u] = Idle
  BY DEF HostInit
<1>2. Idle \in [at : {"idle", "holds", "marks", "sets", "writes"}, lines : Seq(HostLines), told : Sayings, stale : BOOLEAN]
  <2>1. [h \in Hosts |-> "absent"] \in Sayings /\ <<>> \in Seq(HostLines)
    BY DEF Sayings
  <2> QED
    BY <2>1 DEF Idle
<1>3. Idle.at = "idle" /\ Idle.told = [h \in Hosts |-> "absent"]
  BY DEF Idle
<1>4. HostTypes
  BY <1>2, <1>3 DEF HostInit, HostTypes, Sayings
<1>5. OneWrites /\ LinesAgree
  BY <1>1, <1>3 DEF OneWrites, LinesAgree, Writes, Asks
<1>6. FileAgrees /\ CidsAreOn
  BY <1>3 DEF HostInit, FileAgrees, CidsAreOn
<1> QED
  BY <1>4, <1>5, <1>6 DEF HostFileInv

\* Without a command under way, what has been told of a host is what its line says.
LEMMA AgreedFileIsRight == HostFileInv => HostFileIsRight
<1> SUFFICES ASSUME HostFileInv, ~overlap, \A u \in Shells : shell[u].at = "idle"
             PROVE  /\ \A h \in Hosts : LineState(h) = IF told[h] = "lost" THEN "absent" ELSE told[h]
                    /\ file # NoFile => \A h \in Hosts : Cardinality(LineOf(h, file)) <= 1
                    /\ file # NoFile /\ (\A k \in DOMAIN file : file[k].glued = NoHost) =>
                         Selected = {h \in Hosts : told[h] = "on"}
                    /\ up \subseteq behind \cup {h \in Hosts : told[h] = "on"}
  BY DEF HostFileIsRight
<1>1. HostTypes /\ FileAgrees /\ CidsAreOn /\ \A u \in Shells : ~Writes(u)
  BY DEF HostFileInv, Writes
<1>2. CASE file = NoFile
  BY <1>1, <1>2 DEF FileAgrees, LineState, CidsAreOn
<1>3. CASE file # NoFile
  <2>1. file \in Seq(HostLines) /\ Agree(file, told) /\ told \in Sayings
    BY <1>1, <1>3 DEF FileAgrees, HostTypes
  <2>2. ASSUME NEW h \in Hosts
        PROVE  /\ LineState(h) = IF told[h] = "lost" THEN "absent" ELSE told[h]
               /\ Cardinality(LineOf(h, file)) <= 1
    <3>1. told[h] \in {"on", "off", "absent", "lost"}
      BY <2>1 DEF Sayings
    <3>2. CASE LineOf(h, file) = {}
      <4>1. told[h] \in {"absent", "lost"}
        BY <2>1, <3>1, <3>2 DEF Agree, LineOf
      <4>2. Cardinality(LineOf(h, file)) = 0
        BY <3>2, FS_EmptySet
      <4> QED
        BY <3>2, <4>1, <4>2 DEF LineState
    <3>3. CASE LineOf(h, file) # {}
      <4>1. PICK k \in DOMAIN file : LineOf(h, file) = {k} /\ file[k].host = h
        BY <2>1, <3>3, OneLine
      <4>2. Cardinality({k}) = 1
        BY FS_Singleton
      <4>3. told[h] = IF file[k].off THEN "off" ELSE "on"
        BY <2>1, <4>1 DEF Agree
      <4>4. LineState(h) = IF ~file[k].off THEN "on" ELSE "off"
        BY <1>3, <4>1 DEF LineState
      <4> QED
        BY <4>1, <4>2, <4>3, <4>4
    <3> QED
      BY <3>2, <3>3
  <2>3. ASSUME \A k \in DOMAIN file : file[k].glued = NoHost
        PROVE  Selected = {h \in Hosts : told[h] = "on"}
    <3>1. ASSUME NEW i \in DOMAIN file PROVE (5 * Cardinality(GluedBefore(i))) % 6 = 0
      <4>1. \A j \in 1 .. i - 1 : j \in DOMAIN file
        BY <2>1
      <4>2. GluedBefore(i) = {}
        BY <2>3, <4>1 DEF GluedBefore
      <4>3. Cardinality(GluedBefore(i)) = 0
        BY <4>2, FS_EmptySet
      <4> QED
        BY <4>3
    <3>2. Selected = {file[k].host : k \in {i \in DOMAIN file : ~file[i].off}}
      BY <1>3, <3>1 DEF Selected
    <3>3. \A k \in DOMAIN file : file[k].host \in Hosts /\ told[file[k].host] = IF file[k].off THEN "off" ELSE "on"
      BY <2>1, LineIsHost DEF Agree
    <3>4. \A h \in Hosts : told[h] = "on" => \E k \in DOMAIN file : file[k].host = h
      BY <2>1 DEF Agree
    <3> QED
      BY <3>2, <3>3, <3>4
  <2> QED
    BY <1>1, <2>2, <2>3 DEF CidsAreOn
<1> QED
  BY <1>2, <1>3

\* Steps of another part leave the table of hosts alone.
LEMMA HostTables ==
  /\ HostProgramsInit => HostInit
  /\ [HostProgramsNext]_partVars => [HostNext]_hostVars
BY DEF HostProgramsInit, HostProgramsNext, Mapper, Naming, AppLists, HostFiles, Conf, Transfers, Users, partVars

\* Whatever addhost, delhost, chosts and sfs are called for and in what order they read, ask
\* and write, while no two of them have overlapped and none is under way: the file has the
\* hosts that they have been told of, once each and marked as told, readers of words select
\* those that are on, if no line is glued, and no CID runs on another host that was not
\* marked off behind its back (addhost, delhost, chosts, sfs, sds, kds).
THEOREM HostFileStaysRight == HostProgramsSpec => []HostFileIsRight
BY HostFileStart, HostFileStep, AgreedFileIsRight, HostTables, PTL DEF HostProgramsSpec

-----------------------------------------------------------------------------
(* The files and users that a CID serves.                                   *)

FileSet    == [exists : BOOLEAN, of : Seq(Nat)]
AnswerSet  == [status : {"SUCCESS", "FAILURE"}, size : Nat]
SegmentSet == [segment : Nat]
CallSet ==
  [at : {"before", "sends", "waits", "receives", "over", "dead"}, op : {"NONE", "PUT", "GET", "REMOVE"},
   path : Paths \cup {NoPath}, size : Nat, got : Seq(Nat), result : {"none", "yes", "no"}]
TransferTypes ==
  /\ localFile \in [Locals -> FileSet] /\ remoteFile \in [Paths -> FileSet]
  /\ call \in [Callers -> CallSet]
  /\ toCid \in [Callers -> Seq(Nat)] /\ toCaller \in [Callers -> Seq(AnswerSet \cup SegmentSet)]
  /\ calls \in Seq(Callers) /\ IsInjective(calls)
  /\ transfer \in [call : Callers \cup {NoCaller}, size : Nat, got : Seq(Nat)]
  /\ alive \in BOOLEAN /\ touched \subseteq Callers /\ changes \in Nat

LocalFile(b) == localFile[LocalOf[b]]
CidFile(b)   == remoteFile[call[b].path]
InLine(b)    == b \in ToSet(calls)
InHand(b)    == transfer.call = b
Succeeded(b) == toCaller[b] # <<>> /\ toCaller[b][1].status = "SUCCESS"

\* What holds of a caller and of what is on the way, whatever others change.
InLineShape(b) ==
  InLine(b) => toCaller[b] = <<>> /\ ~InHand(b) /\ call[b].at \notin {"before", "receives"} /\ call[b].result # "yes"
InHandShape(b) ==
  InHand(b) =>
    /\ call[b].at # "before" /\ Len(transfer.got) <= transfer.size
    /\ \/ call[b].op = "PUT" /\ toCaller[b] = <<>> /\ call[b].result # "yes" /\ transfer.size = call[b].size
       \/ call[b].op = "GET" /\ (call[b].at = "waits" => Succeeded(b))
StreamShape(b) ==
  /\ call[b].at = "sends" =>
       /\ call[b].op = "PUT" /\ Len(call[b].got) <= call[b].size
       /\ InLine(b) => Len(toCid[b]) = Len(call[b].got)
       /\ InHand(b) => Len(transfer.got) + Len(toCid[b]) = Len(call[b].got)
  /\ call[b].at \in {"sends", "waits"} =>
       \A k \in DOMAIN toCaller[b] : IF k = 1 THEN toCaller[b][k] \in AnswerSet ELSE toCaller[b][k] \in SegmentSet
  /\ call[b].at = "receives" => call[b].op = "GET" /\ \A k \in DOMAIN toCaller[b] : toCaller[b][k] \in SegmentSet
Shape(b) ==
  /\ call[b].at = "before" => toCid[b] = <<>> /\ toCaller[b] = <<>> /\ call[b].got = <<>> /\ call[b].op = "NONE"
  /\ call[b].at # "before" => call[b].path \in Paths /\ call[b].op # "NONE"
  /\ call[b].result # "none" => call[b].at = "over"
  /\ call[b].at = "waits" /\ call[b].op = "GET" => call[b].got = <<>>
  /\ InLineShape(b) /\ InHandShape(b) /\ StreamShape(b)

\* Segments s and then t are what file f begins with.
Begins(s, t, f) ==
  s # <<>> \/ t # <<>> =>
    /\ f.exists /\ Len(s) + Len(t) <= Len(f.of)
    /\ \A k \in DOMAIN s : s[k] = f.of[k]
    /\ \A k \in DOMAIN t : t[k] = f.of[Len(s) + k]

PutAgrees(b) ==
  /\ LocalFile(b).exists => Len(LocalFile(b).of) = call[b].size
  /\ call[b].at = "waits" => LocalFile(b).exists
  /\ InLine(b) => Begins(<<>>, toCid[b], LocalFile(b))
  /\ InHand(b) => Begins(transfer.got, toCid[b], LocalFile(b))
  /\ call[b].at \in {"sends", "waits"} /\ Succeeded(b) /\ LocalFile(b).exists => CidFile(b) = LocalFile(b)
  /\ call[b].result = "yes" => CidFile(b) = LocalFile(b) /\ LocalFile(b).exists
  /\ call[b].size > 0 /\ alive /\ Served(b) => CidFile(b) = LocalFile(b) \/ ~CidFile(b).exists
GetInHand(b) == InHand(b) => CidFile(b).exists /\ Len(CidFile(b).of) = transfer.size
GetAnswered(b) ==
  call[b].at = "waits" /\ Succeeded(b) =>
    /\ CidFile(b).exists /\ toCaller[b][1].size = Len(CidFile(b).of) /\ Len(toCaller[b]) - 1 <= Len(CidFile(b).of)
    /\ \A k \in DOMAIN toCaller[b] : k > 1 => toCaller[b][k].segment = CidFile(b).of[k - 1]
    /\ InHand(b) => Len(toCaller[b]) = Len(transfer.got) + 1
GetReceives(b) ==
  call[b].at = "receives" =>
    /\ CidFile(b).exists /\ call[b].size = Len(CidFile(b).of) /\ Len(call[b].got) + Len(toCaller[b]) <= call[b].size
    /\ \A k \in DOMAIN call[b].got : call[b].got[k] = CidFile(b).of[k]
    /\ \A k \in DOMAIN toCaller[b] : toCaller[b][k].segment = CidFile(b).of[Len(call[b].got) + k]
    /\ InHand(b) => Len(call[b].got) + Len(toCaller[b]) = Len(transfer.got)
GetAgrees(b) ==
  /\ GetInHand(b) /\ GetAnswered(b) /\ GetReceives(b)
  /\ call[b].result = "yes" => CidFile(b) = LocalFile(b) /\ LocalFile(b).exists
RemoveAgrees(b) ==
  /\ call[b].at = "waits" /\ Succeeded(b) => ~CidFile(b).exists
  /\ call[b].result = "yes" => ~CidFile(b).exists
Agrees(b) ==
  b \notin touched =>
    /\ call[b].op = "PUT" => PutAgrees(b)
    /\ call[b].op = "GET" => GetAgrees(b)
    /\ call[b].op = "REMOVE" => RemoveAgrees(b)

\* An empty file is one that is being written, or was written from nothing.
WrittenEmpty(p) ==
  \E c \in Callers : call[c].op = "PUT" /\ call[c].path = p /\ (InHand(c) \/ call[c].size = 0)
EmptyIsWritten == alive => \A p \in Paths : remoteFile[p] = Content(<<>>) => WrittenEmpty(p)

TransferInv == TransferTypes /\ (\A b \in Callers : Shape(b) /\ Agrees(b)) /\ EmptyIsWritten

UserTypes ==
  /\ userFile \in Seq(Logins) /\ draft \in Seq(Logins)
  /\ clerk \in [Servers -> [at : {"idle", "adds", "copies", "renames"}, login : Logins \cup {NoLogin}]]
  /\ \A s \in Servers : clerk[s].at # "idle" => clerk[s].login \in Logins
\* While no two changes overlap that do not bear each other, who deletes is alone.
UsersAreListed ==
  /\ ToSet(userFile) = enrolled /\ IsInjective(userFile)
  /\ \A s \in Servers : clerk[s].at = "adds" =>
       clerk[s].login \notin enrolled /\ \A r \in Servers \ {s} : clerk[r].at = "adds" => clerk[r].login # clerk[s].login
  /\ \A s \in Servers : clerk[s].at \in {"copies", "renames"} => \A r \in Servers \ {s} : clerk[r].at = "idle"
  /\ \A s \in Servers : clerk[s].at = "renames" => ToSet(draft) = enrolled \ {clerk[s].login} /\ IsInjective(draft)
UserInv == UserTypes /\ (~raced => UsersAreListed)

\* A caller is not disturbed by a step that leaves alone what he and the CID hold of his call,
\* and his files, unless it notes that he is touched.
LEMMA Undisturbed ==
  ASSUME NEW b \in Callers, Shape(b), Agrees(b),
         call'[b] = call[b], toCid'[b] = toCid[b], toCaller'[b] = toCaller[b],
         InLine(b)' = InLine(b), InHand(b)' = InHand(b), InHand(b) => transfer' = transfer,
         alive' => alive, touched \subseteq touched',
         b \notin touched' /\ call[b].at # "before" =>
           LocalFile(b)' = LocalFile(b) /\ (InLine(b) \/ CidFile(b)' = CidFile(b))
  PROVE  Shape(b)' /\ Agrees(b)'
<1>1. Shape(b)'
  BY DEF Shape, InLineShape, InHandShape, StreamShape, Succeeded
<1>2. Agrees(b)'
  <2> SUFFICES ASSUME b \notin touched'
               PROVE  /\ call[b].op = "PUT" => PutAgrees(b)'
                      /\ call[b].op = "GET" => GetAgrees(b)'
                      /\ call[b].op = "REMOVE" => RemoveAgrees(b)'
    BY DEF Agrees
  <2>1. call[b].at = "before" => call[b].op = "NONE"
    BY DEF Shape
  <2> SUFFICES ASSUME call[b].at # "before"
               PROVE  /\ call[b].op = "PUT" => PutAgrees(b)'
                      /\ call[b].op = "GET" => GetAgrees(b)'
                      /\ call[b].op = "REMOVE" => RemoveAgrees(b)'
    BY <2>1
  <2>2. LocalFile(b)' = LocalFile(b) /\ (InLine(b) \/ CidFile(b)' = CidFile(b)) /\ b \notin touched
    OBVIOUS
  <2>3. InLine(b) => ~InHand(b) /\ ~Succeeded(b) /\ call[b].at # "receives" /\ call[b].result # "yes"
    BY DEF Shape, InLineShape, Succeeded
  <2>4. Served(b)' => ~InLine(b) /\ ~InHand(b) /\ Served(b)
    BY DEF Served, Begun, InLine, InHand
  <2>5. Succeeded(b)' = Succeeded(b)
    BY DEF Succeeded
  <2>6. ASSUME call[b].op = "PUT" PROVE PutAgrees(b)'
    <3>1. PutAgrees(b)
      BY <2>2, <2>6 DEF Agrees
    <3> QED
      BY <2>2, <2>3, <2>4, <2>5, <3>1 DEF PutAgrees
  <2>7. ASSUME call[b].op = "GET" PROVE GetAgrees(b)'
    <3>1. GetAgrees(b)
      BY <2>2, <2>7 DEF Agrees
    <3> QED
      BY <2>2, <2>3, <2>5, <3>1 DEF GetAgrees, GetInHand, GetAnswered, GetReceives
  <2>8. ASSUME call[b].op = "REMOVE" PROVE RemoveAgrees(b)'
    <3>1. RemoveAgrees(b)
      BY <2>2, <2>8 DEF Agrees
    <3> QED
      BY <2>2, <2>3, <2>5, <3>1 DEF RemoveAgrees
  <2> QED
    BY <2>6, <2>7, <2>8
<1> QED
  BY <1>1, <1>2

\* Files that a step does not write are as empty as before.
LEMMA EmptyKept ==
  ASSUME EmptyIsWritten, alive' => alive,
         \A b \in Callers : call[b].op = "PUT" => call'[b].op = "PUT" /\ call'[b].path = call[b].path
                                                 /\ call'[b].size = call[b].size,
         NEW P, \A p \in Paths : p \notin P => remoteFile'[p] = remoteFile[p],
         \A b \in Callers : call[b].op = "PUT" /\ InHand(b) => InHand(b)' \/ call[b].path \in P,
         \A p \in P : remoteFile'[p] = Content(<<>>) => WrittenEmpty(p)' \/ ~alive'
  PROVE  EmptyIsWritten'
<1> SUFFICES ASSUME alive', NEW p \in Paths, remoteFile'[p] = Content(<<>>) PROVE WrittenEmpty(p)'
  BY DEF EmptyIsWritten, Content
<1>1. CASE p \in P
  BY <1>1
<1>2. CASE p \notin P
  <2>1. PICK b \in Callers : call[b].op = "PUT" /\ call[b].path = p /\ (InHand(b) \/ call[b].size = 0)
    BY <1>2 DEF EmptyIsWritten, WrittenEmpty
  <2> QED
    BY <1>2, <2>1 DEF WrittenEmpty
<1> QED
  BY <1>1, <1>2

\* A step that writes no file of the host leaves EmptyIsWritten.
LEMMA EmptyUntouched ==
  ASSUME EmptyIsWritten, alive' => alive, UNCHANGED remoteFile,
         \A b \in Callers : call[b].op = "PUT" => call'[b].op = "PUT" /\ call'[b].path = call[b].path
                                                 /\ call'[b].size = call[b].size,
         \A b \in Callers : call[b].op = "PUT" /\ InHand(b) => InHand(b)'
  PROVE  EmptyIsWritten'
<1> DEFINE P == {}
<1>1. \A p \in P : remoteFile'[p] = Content(<<>>) => WrittenEmpty(p)' \/ ~alive'
  OBVIOUS
<1>2. \A p \in Paths : p \notin P => remoteFile'[p] = remoteFile[p]
  OBVIOUS
<1> HIDE DEF P
<1> QED
  BY <1>1, <1>2, EmptyKept

\* Those who wait for the CID, one after the other.
LEMMA JoinsLine ==
  ASSUME NEW q \in Seq(Callers), IsInjective(q), NEW c \in Callers, c \notin ToSet(q)
  PROVE  Append(q, c) \in Seq(Callers) /\ IsInjective(Append(q, c)) /\ ToSet(Append(q, c)) = ToSet(q) \cup {c}
<1>1. /\ Append(q, c) \in Seq(Callers) /\ DOMAIN Append(q, c) = 1 .. Len(q) + 1 /\ Len(q) \in Nat /\ DOMAIN q = 1 .. Len(q)
      /\ Append(q, c)[Len(q) + 1] = c /\ \A k \in 1 .. Len(q) : Append(q, c)[k] = q[k]
  OBVIOUS
<1>2. ToSet(Append(q, c)) = ToSet(q) \cup {c}
  BY <1>1 DEF ToSet
<1>3. IsInjective(Append(q, c))
  BY <1>1 DEF IsInjective, ToSet
<1> QED
  BY <1>1, <1>2, <1>3

\* Who is first in a line without repetitions is not in the rest of it.
LEMMA LeavesLine ==
  ASSUME NEW q \in Seq(Callers), IsInjective(q), q # <<>>
  PROVE  /\ Tail(q) \in Seq(Callers) /\ IsInjective(Tail(q)) /\ ToSet(Tail(q)) = ToSet(q) \ {Head(q)}
         /\ Head(q) \in Callers /\ Head(q) \in ToSet(q)
<1>1. /\ Tail(q) \in Seq(Callers) /\ Len(q) \in Nat \ {0} /\ DOMAIN q = 1 .. Len(q) /\ DOMAIN Tail(q) = 1 .. Len(q) - 1
      /\ Head(q) = q[1] /\ Head(q) \in Callers /\ \A k \in 1 .. Len(q) - 1 : Tail(q)[k] = q[k + 1]
  OBVIOUS
<1>2. \A k \in DOMAIN q : k = 1 \/ (k - 1 \in DOMAIN Tail(q) /\ Tail(q)[k - 1] = q[k])
  BY <1>1
<1>3. ToSet(Tail(q)) = ToSet(q) \ {Head(q)}
  <2>1. \A k \in DOMAIN Tail(q) : k + 1 \in DOMAIN q /\ k + 1 # 1 /\ 1 \in DOMAIN q
    BY <1>1
  <2>2. \A x \in ToSet(Tail(q)) : x \in ToSet(q) /\ x # Head(q)
    BY <1>1, <2>1 DEF ToSet, IsInjective
  <2>3. \A x \in ToSet(q) : x = Head(q) \/ x \in ToSet(Tail(q))
    <3> SUFFICES ASSUME NEW k \in DOMAIN q PROVE q[k] = Head(q) \/ q[k] \in ToSet(Tail(q))
      BY DEF ToSet
    <3> QED
      BY <1>1, <1>2 DEF ToSet
  <2> QED
    BY <2>2, <2>3
<1>4. IsInjective(Tail(q))
  BY <1>1 DEF IsInjective
<1>5. Head(q) \in ToSet(q)
  BY <1>1 DEF ToSet
<1> QED
  BY <1>1, <1>3, <1>4, <1>5

\* The steps of a caller.
LEMMA CallsKept ==
  ASSUME TransferInv, NEW c \in Callers, NEW op \in {"PUT", "GET", "REMOVE"}, NEW path \in Paths,
         NEW at, NEW size \in Nat, Calls(c, op, path, at, size),
         IF op = "PUT" THEN at = "sends" /\ (LocalFile(c).exists => Len(LocalFile(c).of) = size) ELSE at = "waits"
  PROVE  TransferInv'
<1>1. /\ alive /\ call[c].at = "before" /\ calls' = Append(calls, c)
      /\ call' = [call EXCEPT ![c] = [call[c] EXCEPT !.at = at, !.op = op, !.path = path, !.size = size]]
      /\ UNCHANGED <<remoteFile, transfer, alive, changes, localFile, toCid, toCaller, touched>>
  BY DEF Calls, KeepsCid
<1>2. TransferTypes /\ (\A b \in Callers : Shape(b) /\ Agrees(b)) /\ EmptyIsWritten
  BY DEF TransferInv
<1>3. ~InLine(c) /\ ~InHand(c) /\ toCid[c] = <<>> /\ toCaller[c] = <<>> /\ call[c].got = <<>> /\ call[c].op = "NONE"
      /\ call[c].result = "none"
  BY <1>1, <1>2 DEF Shape, InLineShape, InHandShape, TransferTypes, CallSet
<1>4. calls' \in Seq(Callers) /\ IsInjective(calls') /\ ToSet(calls') = ToSet(calls) \cup {c}
  BY <1>1, <1>2, <1>3, JoinsLine DEF TransferTypes, InLine
<1>5. call'[c] = [at |-> at, op |-> op, path |-> path, size |-> size, got |-> <<>>, result |-> "none"]
      /\ \A b \in Callers \ {c} : call'[b] = call[b]
  BY <1>1, <1>2, <1>3 DEF TransferTypes, CallSet
<1>6. TransferTypes'
  <2>1. call'[c] \in CallSet
    BY <1>5 DEF CallSet
  <2>2. call' \in [Callers -> CallSet]
    BY <1>1, <1>2, <2>1 DEF TransferTypes
  <2> QED
    BY <1>1, <1>2, <1>4, <2>2 DEF TransferTypes
<1>7. ASSUME NEW b \in Callers \ {c} PROVE Shape(b)' /\ Agrees(b)'
  <2>1. InLine(b)' = InLine(b) /\ InHand(b)' = InHand(b)
    BY <1>1, <1>4 DEF InLine, InHand
  <2>2. LocalFile(b)' = LocalFile(b) /\ CidFile(b)' = CidFile(b)
    BY <1>1, <1>5 DEF LocalFile, CidFile
  <2> QED
    BY <1>1, <1>2, <1>5, <2>1, <2>2, Undisturbed
<1>8. Shape(c)'
  <2>1. InLine(c)' /\ ~InHand(c)'
    BY <1>1, <1>3, <1>4 DEF InLine, InHand
  <2>2. InLineShape(c)' /\ InHandShape(c)' /\ StreamShape(c)'
    BY <1>1, <1>3, <1>5, <2>1 DEF InLineShape, InHandShape, StreamShape
  <2> QED
    BY <1>5, <2>2 DEF Shape
<1>9. Agrees(c)'
  <2>1. InLine(c)' /\ ~InHand(c)' /\ ~Succeeded(c)' /\ ~Served(c)'
    BY <1>1, <1>3, <1>4 DEF InLine, InHand, Succeeded, Served
  <2>2. LocalFile(c)' = LocalFile(c)
    BY <1>1 DEF LocalFile
  <2>3. op = "PUT" => PutAgrees(c)'
    BY <1>1, <1>3, <1>5, <2>1, <2>2 DEF PutAgrees, Begins
  <2>4. op = "GET" => GetAgrees(c)'
    BY <1>5, <2>1 DEF GetAgrees, GetInHand, GetAnswered, GetReceives
  <2>5. op = "REMOVE" => RemoveAgrees(c)'
    BY <1>5, <2>1 DEF RemoveAgrees
  <2> QED
    BY <1>5, <2>3, <2>4, <2>5 DEF Agrees
<1>10. EmptyIsWritten'
  <2>1. \A b \in Callers : call[b].op = "PUT" => call'[b] = call[b]
    BY <1>3, <1>5
  <2>2. \A b \in Callers : InHand(b) => InHand(b)'
    BY <1>1 DEF InHand
  <2> QED
    BY <1>1, <1>2, <2>1, <2>2, EmptyUntouched
<1> QED
  BY <1>6, <1>7, <1>8, <1>9, <1>10 DEF TransferInv

\* A caller sends his request.
LEMMA BeginsKept ==
  ASSUME TransferInv, NEW c \in Callers, NEW p \in Paths, file_put(c, p) \/ file_get(c, p) \/ file_remove(c, p)
  PROVE  TransferInv'
<1>1. ASSUME file_put(c, p) PROVE TransferInv'
  <2>1. PICK size \in IF LocalFile(c).exists THEN {Len(LocalFile(c).of)} ELSE 0 .. MaxSegments :
               Calls(c, "PUT", p, "sends", size)
    BY <1>1 DEF file_put, LocalFile
  <2>2. LocalFile(c) \in FileSet
    BY LoginFilesAssumption DEF TransferInv, TransferTypes, LocalFile
  <2>3. size \in Nat /\ (LocalFile(c).exists => Len(LocalFile(c).of) = size)
    BY <2>2, LoginFilesAssumption DEF FileSet
  <2> QED
    BY <2>1, <2>3, CallsKept
<1>2. ASSUME file_get(c, p) PROVE TransferInv'
  BY <1>2, CallsKept DEF file_get
<1>3. ASSUME file_remove(c, p) PROVE TransferInv'
  BY <1>3, CallsKept DEF file_remove
<1> QED
  BY <1>1, <1>2, <1>3

\* The segment after those that have been sent is of the caller's file.
LEMMA BeginsWithNext ==
  ASSUME NEW s \in Seq(Nat), NEW t \in Seq(Nat), NEW f \in FileSet, f.exists, Begins(s, t, f), Len(s) + Len(t) < Len(f.of)
  PROVE  Begins(s, Append(t, f.of[Len(s) + Len(t) + 1]), f)
<1> DEFINE x == f.of[Len(s) + Len(t) + 1]
<1>1. f.of \in Seq(Nat) /\ Len(s) \in Nat /\ Len(t) \in Nat /\ Len(f.of) \in Nat
  BY DEF FileSet
<1>2. x \in Nat
  BY <1>1
<1> HIDE DEF x
<1>3. /\ Len(Append(t, x)) = Len(t) + 1 /\ DOMAIN Append(t, x) = 1 .. Len(t) + 1 /\ DOMAIN t = 1 .. Len(t)
      /\ Append(t, x)[Len(t) + 1] = x /\ \A k \in 1 .. Len(t) : Append(t, x)[k] = t[k]
  BY <1>1, <1>2
<1>4. \A k \in DOMAIN s : s[k] = f.of[k]
  BY DEF Begins
<1>5. \A k \in DOMAIN t : t[k] = f.of[Len(s) + k]
  BY DEF Begins
<1>6. \A k \in DOMAIN Append(t, x) : Append(t, x)[k] = f.of[Len(s) + k]
  <2> SUFFICES ASSUME NEW k \in 1 .. Len(t) + 1 PROVE Append(t, x)[k] = f.of[Len(s) + k]
    BY <1>3
  <2>1. CASE k = Len(t) + 1
    <3>1. Len(s) + k = Len(s) + Len(t) + 1
      BY <1>1, <2>1
    <3> QED
      BY <1>3, <2>1, <3>1 DEF x
  <2>2. CASE k # Len(t) + 1
    <3>1. k \in 1 .. Len(t) /\ k \in DOMAIN t
      BY <1>1, <1>3, <2>2
    <3> QED
      BY <1>3, <1>5, <3>1
  <2> QED
    BY <2>1, <2>2
<1>7. PICK a : a = Append(t, x)
  OBVIOUS
<1>8. Len(s) + Len(a) <= Len(f.of) /\ \A k \in DOMAIN a : a[k] = f.of[Len(s) + k]
  BY <1>1, <1>3, <1>6, <1>7
<1>9. Begins(s, a, f)
  BY <1>4, <1>8 DEF Begins
<1> QED
  BY <1>7, <1>9 DEF x

\* A step of a caller changes nothing at the CID, and of the others only what it touches.
LEMMA CallerStep ==
  ASSUME TransferInv, NEW c \in Callers, UNCHANGED <<remoteFile, transfer, alive, changes, calls>>,
         NEW new \in CallSet, call' = [call EXCEPT ![c] = new], new.op = call[c].op, new.path = call[c].path,
         new.op = "PUT" => new.size = call[c].size,
         NEW sent \in Seq(Nat), toCid' = [toCid EXCEPT ![c] = sent],
         NEW left \in Seq(AnswerSet \cup SegmentSet), toCaller' = [toCaller EXCEPT ![c] = left],
         \/ UNCHANGED <<localFile, touched>>
         \/ \E content \in FileSet : WritesLocal(c, content),
         Shape(c)', Agrees(c)'
  PROVE  TransferInv'
<1>1. TransferTypes /\ (\A b \in Callers : Shape(b) /\ Agrees(b)) /\ EmptyIsWritten
  BY DEF TransferInv
<1>2. call'[c] = new /\ \A b \in Callers \ {c} : call'[b] = call[b] /\ toCid'[b] = toCid[b] /\ toCaller'[b] = toCaller[b]
  BY <1>1 DEF TransferTypes
<1>3. localFile' \in [Locals -> FileSet] /\ touched' \subseteq Callers /\ touched \subseteq touched'
  BY <1>1 DEF TransferTypes, WritesLocal, Begun
<1>4. TransferTypes'
  BY <1>1, <1>3 DEF TransferTypes
<1>5. ASSUME NEW b \in Callers \ {c} PROVE Shape(b)' /\ Agrees(b)'
  <2>1. InLine(b)' = InLine(b) /\ InHand(b)' = InHand(b) /\ CidFile(b)' = CidFile(b)
    BY <1>2 DEF InLine, InHand, CidFile
  <2>2. b \notin touched' /\ call[b].at # "before" => LocalFile(b)' = LocalFile(b)
    BY <1>1, LoginFilesAssumption DEF WritesLocal, Begun, LocalFile, TransferTypes
  <2> QED
    BY <1>1, <1>2, <1>3, <2>1, <2>2, Undisturbed
<1>6. EmptyIsWritten'
  <2>1. \A b \in Callers : call[b].op = "PUT" => call'[b].op = "PUT" /\ call'[b].path = call[b].path /\ call'[b].size = call[b].size
    BY <1>2
  <2>2. \A b \in Callers : InHand(b) => InHand(b)'
    BY DEF InHand
  <2> QED
    BY <1>1, <2>1, <2>2, EmptyUntouched
<1> QED
  BY <1>4, <1>5, <1>6 DEF TransferInv

\* What holds of a caller whose call has ended without success.
LEMMA FailedCall ==
  ASSUME TransferInv, NEW c \in Callers, UNCHANGED <<remoteFile, transfer, alive, calls>>, call[c].at # "before",
         call'[c].op = call[c].op, call'[c].path = call[c].path, call'[c].size = call[c].size,
         <<call'[c].at, call'[c].result>> \in {<<"over", "no">>, <<"dead", "none">>},
         toCid'[c] = toCid[c], toCaller'[c] = toCaller[c], touched' \in SUBSET Callers, touched \subseteq touched',
         call[c].op = "GET" \/ LocalFile(c)' = LocalFile(c)
  PROVE  Shape(c)' /\ Agrees(c)'
<1>1. Shape(c) /\ Agrees(c)
  BY DEF TransferInv
<1>2. InLine(c)' = InLine(c) /\ InHand(c)' = InHand(c) /\ CidFile(c)' = CidFile(c)
  BY DEF InLine, InHand, CidFile
<1>3. (call'[c].at = "over" /\ call'[c].result = "no") \/ (call'[c].at = "dead" /\ call'[c].result = "none")
  OBVIOUS
<1>4. Shape(c)'
  BY <1>1, <1>2, <1>3 DEF Shape, InLineShape, InHandShape, StreamShape
<1>5. Agrees(c)'
  <2> SUFFICES ASSUME c \notin touched'
               PROVE  /\ call[c].op = "PUT" => PutAgrees(c)'
                      /\ call[c].op = "GET" => GetAgrees(c)'
                      /\ call[c].op = "REMOVE" => RemoveAgrees(c)'
    BY DEF Agrees
  <2>1. ASSUME call[c].op = "PUT" PROVE PutAgrees(c)'
    <3>1. PutAgrees(c) /\ LocalFile(c)' = LocalFile(c)
      BY <1>1, <2>1 DEF Agrees
    <3>2. Served(c)' => Served(c)
      BY DEF Served, Begun
    <3> QED
      BY <1>2, <1>3, <3>1, <3>2 DEF PutAgrees
  <2>2. ASSUME call[c].op = "GET" PROVE GetAgrees(c)'
    <3>1. GetAgrees(c)
      BY <1>1, <2>2 DEF Agrees
    <3> QED
      BY <1>2, <1>3, <3>1 DEF GetAgrees, GetInHand, GetAnswered, GetReceives
  <2>3. call[c].op = "REMOVE" => RemoveAgrees(c)'
    BY <1>3 DEF RemoveAgrees
  <2> QED
    BY <2>1, <2>2, <2>3
<1> QED
  BY <1>4, <1>5

\* A call that fails leaves what is on the way as it is.
LEMMA ReturnsNo ==
  ASSUME TransferInv, NEW c \in Callers, Returns(c, "no"), call[c].at \notin {"before", "over", "dead"},
         UNCHANGED <<remoteFile, transfer, alive, changes, calls, toCid, toCaller>>,
         \/ UNCHANGED <<localFile, touched>>
         \/ call[c].op = "GET" /\ \E content \in FileSet : WritesLocal(c, content)
  PROVE  TransferInv'
<1>1. TransferTypes
  BY DEF TransferInv
<1>2. PICK new : /\ new = [call[c] EXCEPT !.at = "over", !.got = <<>>, !.result = "no"]
                 /\ call' = [call EXCEPT ![c] = new]
  BY DEF Returns
<1>3. /\ new \in CallSet /\ new.op = call[c].op /\ new.path = call[c].path /\ new.size = call[c].size
      /\ new.at = "over" /\ new.result = "no" /\ call'[c] = new
  <2>1. call[c] \in CallSet /\ <<>> \in Seq(Nat) /\ call'[c] = new
    BY <1>1, <1>2 DEF TransferTypes
  <2> QED
    BY <1>2, <2>1 DEF CallSet
<1>4. /\ toCid[c] \in Seq(Nat) /\ toCid' = [toCid EXCEPT ![c] = toCid[c]]
      /\ toCaller[c] \in Seq(AnswerSet \cup SegmentSet) /\ toCaller' = [toCaller EXCEPT ![c] = toCaller[c]]
  BY <1>1 DEF TransferTypes
<1>5. touched' \in SUBSET Callers /\ touched \subseteq touched' /\ (call[c].op = "GET" \/ LocalFile(c)' = LocalFile(c))
  BY <1>1 DEF TransferTypes, WritesLocal, LocalFile, Begun
<1>6. Shape(c)' /\ Agrees(c)'
  BY <1>3, <1>4, <1>5, FailedCall
<1> QED
  BY <1>2, <1>3, <1>4, <1>6, CallerStep

\* file_put reads a segment of its file and sends it, or all are sent.
LEMMA SendsKept == ASSUME TransferInv, NEW c \in Callers, SendsSegment(c) PROVE TransferInv'
<1> DEFINE source == LocalFile(c)
           next == Len(call[c].got) + 1
<1>1. /\ call[c].at = "sends" /\ UNCHANGED <<remoteFile, transfer, alive, changes, localFile, toCaller, calls, touched>>
      /\ IF ~source.exists \/ (next - 1 < call[c].size /\ Len(source.of) <= next - 1) THEN Returns(c, "no") /\ UNCHANGED toCid
         ELSE IF next - 1 = call[c].size THEN call' = [call EXCEPT ![c].at = "waits"] /\ UNCHANGED toCid
         ELSE /\ call' = [call EXCEPT ![c].got = Append(@, source.of[next])]
              /\ toCid' = [toCid EXCEPT ![c] = Append(@, source.of[next])]
  <2>1. Len(call[c].got) \in Nat
    BY DEF TransferInv, TransferTypes, CallSet
  <2> QED
    BY <2>1 DEF SendsSegment, KeepsCid, LocalFile
<1>2. TransferTypes /\ Shape(c) /\ Agrees(c)
  BY DEF TransferInv
<1>3. call[c] \in CallSet /\ source \in FileSet /\ toCid[c] \in Seq(Nat) /\ toCaller[c] \in Seq(AnswerSet \cup SegmentSet)
  BY <1>2, LoginFilesAssumption DEF TransferTypes, LocalFile
<1>4. /\ call[c].op = "PUT" /\ call[c].path \in Paths /\ call[c].result = "none" /\ Len(call[c].got) <= call[c].size
      /\ Len(call[c].got) \in Nat /\ call[c].size \in Nat
      /\ next = Len(call[c].got) + 1 /\ next - 1 = Len(call[c].got)
  BY <1>1, <1>2, <1>3 DEF Shape, StreamShape, CallSet
<1>5. InLine(c)' = InLine(c) /\ InHand(c)' = InHand(c) /\ LocalFile(c)' = source /\ Succeeded(c)' = Succeeded(c)
  BY <1>1 DEF InLine, InHand, LocalFile, Succeeded
<1>6. c \notin touched => PutAgrees(c)
  BY <1>2, <1>4 DEF Agrees
<1> HIDE DEF source, next
<1>7. CASE ~source.exists \/ (next - 1 < call[c].size /\ Len(source.of) <= next - 1)
  BY <1>1, <1>7, ReturnsNo
<1>8. CASE source.exists /\ next - 1 = call[c].size
  <2>1. PICK new : new = [call[c] EXCEPT !.at = "waits"] /\ call' = [call EXCEPT ![c] = new] /\ toCid' = toCid
    <3>1. ~(~source.exists \/ (next - 1 < call[c].size /\ Len(source.of) <= next - 1))
      BY <1>4, <1>8
    <3> QED
      BY <1>1, <1>8, <3>1
  <2>2. /\ new \in CallSet /\ new.op = "PUT" /\ new.path = call[c].path /\ new.size = call[c].size /\ new.at = "waits"
        /\ new.result = "none" /\ new.got = call[c].got /\ call'[c] = new
    BY <1>2, <1>3, <1>4, <2>1 DEF CallSet, TransferTypes
  <2>3. Shape(c)'
    BY <1>1, <1>2, <1>4, <1>5, <2>1, <2>2 DEF Shape, InLineShape, InHandShape, StreamShape
  <2>4. CidFile(c)' = CidFile(c) /\ (Served(c)' => Served(c))
    BY <1>1, <2>2 DEF CidFile, Served, Begun
  <2>5. c \notin touched => PutAgrees(c)'
    BY <1>1, <1>4, <1>5, <1>6, <1>8, <2>1, <2>2, <2>4 DEF PutAgrees, source
  <2>6. Agrees(c)'
    BY <1>1, <2>2, <2>5 DEF Agrees
  <2>7. toCid' = [toCid EXCEPT ![c] = toCid[c]] /\ toCaller' = [toCaller EXCEPT ![c] = toCaller[c]]
    BY <1>1, <1>2, <2>1 DEF TransferTypes
  <2> QED
    BY <1>1, <1>3, <1>4, <2>1, <2>2, <2>3, <2>6, <2>7, CallerStep
<1>9. CASE source.exists /\ next - 1 # call[c].size /\ ~(next - 1 < call[c].size /\ Len(source.of) <= next - 1)
  <2>1. /\ Len(call[c].got) < call[c].size /\ Len(call[c].got) < Len(source.of) /\ Len(source.of) \in Nat
        /\ source.of[next] \in Nat
    BY <1>3, <1>4, <1>9 DEF FileSet
  <2>2. PICK new, more : /\ new = [call[c] EXCEPT !.got = Append(call[c].got, source.of[next])]
                         /\ more = Append(toCid[c], source.of[next])
                         /\ call' = [call EXCEPT ![c] = new] /\ toCid' = [toCid EXCEPT ![c] = more]
    BY <1>1, <1>9
  <2>3. /\ more \in Seq(Nat) /\ Len(more) = Len(toCid[c]) + 1 /\ Append(call[c].got, source.of[next]) \in Seq(Nat)
        /\ Len(Append(call[c].got, source.of[next])) = Len(call[c].got) + 1
    BY <1>3, <2>1, <2>2 DEF CallSet
  <2>4. /\ new \in CallSet /\ new.op = "PUT" /\ new.path = call[c].path /\ new.size = call[c].size /\ new.at = "sends"
        /\ new.result = "none" /\ Len(new.got) = Len(call[c].got) + 1 /\ call'[c] = new /\ toCid'[c] = more
    BY <1>1, <1>2, <1>3, <1>4, <2>2, <2>3 DEF CallSet, TransferTypes
  <2>5. /\ InLine(c) => Len(toCid[c]) = Len(call[c].got)
        /\ InHand(c) => Len(transfer.got) + Len(toCid[c]) = Len(call[c].got)
        /\ Len(toCid[c]) \in Nat /\ Len(transfer.got) \in Nat /\ transfer.got \in Seq(Nat)
    BY <1>1, <1>2, <1>3 DEF Shape, StreamShape, TransferTypes
  <2>6. Shape(c)'
    <3>1. InLineShape(c)' /\ InHandShape(c)'
      BY <1>1, <1>2, <1>4, <1>5, <2>4 DEF Shape, InLineShape, InHandShape
    <3>2. StreamShape(c)'
      <4>1. /\ Len(new.got) <= new.size
            /\ InLine(c) => Len(more) = Len(new.got)
            /\ InHand(c) => Len(transfer.got) + Len(more) = Len(new.got)
        <5>1. Len(new.got) <= new.size
          BY <1>4, <2>1, <2>4
        <5>2. InLine(c) => Len(more) = Len(new.got)
          BY <2>3, <2>4, <2>5
        <5>3. ASSUME InHand(c) PROVE Len(transfer.got) + Len(more) = Len(new.got)
          <6>1. /\ Len(transfer.got) + Len(toCid[c]) = Len(call[c].got) /\ Len(transfer.got) \in Nat
                /\ Len(more) = Len(toCid[c]) + 1 /\ Len(new.got) = Len(call[c].got) + 1 /\ Len(toCid[c]) \in Nat
            BY <2>3, <2>4, <2>5, <5>3
          <6>2. \A i, j, k \in Nat : i + j = k => i + (j + 1) = k + 1
            OBVIOUS
          <6>3. Len(transfer.got) + (Len(toCid[c]) + 1) = Len(call[c].got) + 1
            BY <1>4, <6>1, <6>2
          <6> QED
            BY <6>1, <6>3, Zenon
        <5> QED
          BY <5>1, <5>2, <5>3
      <4> QED
        BY <1>1, <1>2, <1>4, <1>5, <2>4, <4>1 DEF Shape, StreamShape
    <3> QED
      BY <1>1, <1>4, <2>4, <3>1, <3>2 DEF Shape
  <2>7. CidFile(c)' = CidFile(c) /\ (Served(c)' => Served(c))
    BY <1>1, <2>4 DEF CidFile, Served, Begun
  <2>8. ASSUME c \notin touched, InLine(c) PROVE Begins(<<>>, more, source)
    <3>1. PICK e : e = <<>> /\ e \in Seq(Nat) /\ Len(e) = 0
      <4>1. <<>> \in Seq(Nat) /\ Len(<<>>) = 0
        OBVIOUS
      <4> QED
        BY <4>1, Zenon
    <3>2. Begins(e, toCid[c], source) /\ Len(e) + Len(toCid[c]) + 1 = next /\ Len(e) + Len(toCid[c]) < Len(source.of)
      BY <1>4, <1>6, <2>1, <2>5, <2>8, <3>1 DEF PutAgrees, source
    <3>3. Begins(e, Append(toCid[c], source.of[Len(e) + Len(toCid[c]) + 1]), source)
      BY <1>3, <1>9, <3>1, <3>2, BeginsWithNext
    <3> QED
      BY <2>2, <3>1, <3>2, <3>3
  <2>9. ASSUME c \notin touched, InHand(c) PROVE Begins(transfer.got, more, source)
    <3>1. Begins(transfer.got, toCid[c], source)
      BY <1>6, <2>9 DEF PutAgrees, source
    <3>3. Len(transfer.got) + Len(toCid[c]) + 1 = next /\ Len(transfer.got) + Len(toCid[c]) < Len(source.of)
      BY <1>4, <2>1, <2>5, <2>9
    <3>2. Begins(transfer.got, Append(toCid[c], source.of[Len(transfer.got) + Len(toCid[c]) + 1]), source)
      BY <1>3, <1>9, <2>5, <3>1, <3>3, BeginsWithNext
    <3> QED
      BY <2>2, <3>2, <3>3
  <2>10. c \notin touched => PutAgrees(c)'
    BY <1>1, <1>4, <1>5, <1>6, <1>9, <2>4, <2>7, <2>8, <2>9 DEF PutAgrees, source
  <2>11. Agrees(c)'
    BY <1>1, <2>4, <2>10 DEF Agrees
  <2>12. toCaller' = [toCaller EXCEPT ![c] = toCaller[c]]
    BY <1>1, <1>2 DEF TransferTypes
  <2> QED
    BY <1>1, <1>3, <1>4, <2>2, <2>3, <2>4, <2>6, <2>11, <2>12, CallerStep
<1> QED
  BY <1>7, <1>8, <1>9

\* An answer has come: a call that is no file_get ends with it.
LEMMA AnswerHeard ==
  ASSUME TransferInv, NEW c \in Callers, call[c].at = "waits", toCaller[c] # <<>>,
         toCaller' = [toCaller EXCEPT ![c] = Tail(@)],
         toCaller[c][1].status # "SUCCESS" \/ call[c].op # "GET",
         Returns(c, IF toCaller[c][1].status = "SUCCESS" THEN "yes" ELSE "no"),
         UNCHANGED <<remoteFile, transfer, alive, changes, calls, toCid, localFile, touched>>
  PROVE  TransferInv'
<1>1. TransferTypes /\ Shape(c) /\ Agrees(c)
  BY DEF TransferInv
<1>2. PICK new, left : /\ new = [call[c] EXCEPT !.at = "over", !.got = <<>>,
                                                !.result = IF Succeeded(c) THEN "yes" ELSE "no"]
                       /\ left = Tail(toCaller[c])
                       /\ call' = [call EXCEPT ![c] = new] /\ toCaller' = [toCaller EXCEPT ![c] = left]
  BY DEF Returns, Succeeded
<1>3. /\ call[c] \in CallSet /\ <<>> \in Seq(Nat) /\ call'[c] = new /\ toCaller'[c] = left
      /\ left \in Seq(AnswerSet \cup SegmentSet) /\ toCid[c] \in Seq(Nat) /\ toCid' = [toCid EXCEPT ![c] = toCid[c]]
  BY <1>1, <1>2 DEF TransferTypes
<1>4. /\ new \in CallSet /\ new.op = call[c].op /\ new.path = call[c].path /\ new.size = call[c].size
      /\ new.at = "over" /\ new.result = IF Succeeded(c) THEN "yes" ELSE "no"
  BY <1>2, <1>3 DEF CallSet
<1>5. /\ ~InLine(c) /\ (InHand(c) => call[c].op = "GET") /\ call[c].op # "NONE" /\ call[c].path \in Paths
  BY <1>1 DEF Shape, InLineShape, InHandShape
<1>6. /\ InLine(c)' = InLine(c) /\ InHand(c)' = InHand(c) /\ LocalFile(c)' = LocalFile(c) /\ CidFile(c)' = CidFile(c)
      /\ Served(c)' => Served(c)
  BY <1>3, <1>4 DEF InLine, InHand, LocalFile, CidFile, Served, Begun
<1>7. Shape(c)'
  BY <1>1, <1>3, <1>4, <1>5, <1>6 DEF Shape, InLineShape, InHandShape, StreamShape
<1>8. ASSUME c \notin touched, call[c].op = "PUT" PROVE PutAgrees(c)'
  <2>1. PutAgrees(c)
    BY <1>1, <1>8 DEF Agrees
  <2>2. new.result = "yes" => CidFile(c) = LocalFile(c) /\ LocalFile(c).exists
    BY <1>4, <2>1 DEF PutAgrees
  <2> QED
    BY <1>3, <1>4, <1>5, <1>6, <1>8, <2>1, <2>2 DEF PutAgrees
<1>9. ASSUME c \notin touched, call[c].op = "GET" PROVE GetAgrees(c)'
  <2>1. GetAgrees(c) /\ ~Succeeded(c)
    BY <1>1, <1>9 DEF Agrees, Succeeded
  <2> QED
    BY <1>3, <1>4, <1>6, <2>1 DEF GetAgrees, GetInHand, GetAnswered, GetReceives
<1>10. ASSUME c \notin touched, call[c].op = "REMOVE" PROVE RemoveAgrees(c)'
  <2>1. RemoveAgrees(c)
    BY <1>1, <1>10 DEF Agrees
  <2> QED
    BY <1>3, <1>4, <1>6, <2>1 DEF RemoveAgrees
<1>11. Agrees(c)'
  BY <1>3, <1>4, <1>8, <1>9, <1>10 DEF Agrees
<1> QED
  BY <1>2, <1>3, <1>4, <1>7, <1>11, CallerStep

\* The answer to a file_get is the length of the file; its segments follow.
LEMMA LengthHeard ==
  ASSUME TransferInv, NEW c \in Callers, call[c].at = "waits", toCaller[c] # <<>>,
         toCaller' = [toCaller EXCEPT ![c] = Tail(@)],
         toCaller[c][1].status = "SUCCESS", call[c].op = "GET",
         call' = [call EXCEPT ![c] = [@ EXCEPT !.at = "receives", !.size = toCaller[c][1].size]],
         WritesLocal(c, Content(<<>>)),
         UNCHANGED <<remoteFile, transfer, alive, changes, calls, toCid>>
  PROVE  TransferInv'
<1>1. TransferTypes /\ Shape(c) /\ Agrees(c)
  BY DEF TransferInv
<1>2. PICK new, left : /\ new = [call[c] EXCEPT !.at = "receives", !.size = toCaller[c][1].size]
                       /\ left = Tail(toCaller[c])
                       /\ call' = [call EXCEPT ![c] = new] /\ toCaller' = [toCaller EXCEPT ![c] = left]
  OBVIOUS
<1>3. /\ call[c] \in CallSet /\ call'[c] = new /\ toCaller'[c] = left
      /\ left \in Seq(AnswerSet \cup SegmentSet) /\ toCid[c] \in Seq(Nat) /\ toCid' = [toCid EXCEPT ![c] = toCid[c]]
  BY <1>1, <1>2 DEF TransferTypes
<1>4. /\ Len(toCaller[c]) \in Nat \ {0} /\ DOMAIN toCaller[c] = 1 .. Len(toCaller[c]) /\ Len(left) = Len(toCaller[c]) - 1
      /\ DOMAIN left = 1 .. Len(toCaller[c]) - 1 /\ \A k \in DOMAIN left : left[k] = toCaller[c][k + 1]
  <2>1. toCaller[c] \in Seq(AnswerSet \cup SegmentSet)
    BY <1>1 DEF TransferTypes
  <2> QED
    BY <1>2, <2>1
<1>5. toCaller[c][1] \in AnswerSet /\ \A k \in DOMAIN left : left[k] \in SegmentSet
  <2>1. \A k \in DOMAIN toCaller[c] : IF k = 1 THEN toCaller[c][k] \in AnswerSet ELSE toCaller[c][k] \in SegmentSet
    BY <1>1 DEF Shape, StreamShape
  <2>2. 1 \in DOMAIN toCaller[c] /\ \A k \in DOMAIN left : k + 1 \in DOMAIN toCaller[c] /\ k + 1 # 1
    BY <1>4
  <2> QED
    BY <1>4, <2>1, <2>2
<1>6. /\ new \in CallSet /\ new.op = "GET" /\ new.path = call[c].path /\ new.size = toCaller[c][1].size
      /\ new.at = "receives" /\ new.result = call[c].result /\ new.got = call[c].got
  BY <1>2, <1>3, <1>5 DEF CallSet, AnswerSet
<1>7. Succeeded(c) /\ ~InLine(c) /\ call[c].path \in Paths /\ call[c].result = "none" /\ call[c].got = <<>>
  BY <1>1 DEF Shape, InLineShape, Succeeded
<1>8. InLine(c)' = InLine(c) /\ InHand(c)' = InHand(c) /\ CidFile(c)' = CidFile(c) /\ touched \subseteq touched'
  BY <1>3, <1>6 DEF InLine, InHand, CidFile, WritesLocal
<1>9. Shape(c)'
  BY <1>1, <1>3, <1>5, <1>6, <1>7, <1>8 DEF Shape, InLineShape, InHandShape, StreamShape
<1>10. ASSUME c \notin touched PROVE GetAgrees(c)'
  <2>1. /\ CidFile(c).exists /\ toCaller[c][1].size = Len(CidFile(c).of) /\ Len(toCaller[c]) - 1 <= Len(CidFile(c).of)
        /\ \A k \in DOMAIN toCaller[c] : k > 1 => toCaller[c][k].segment = CidFile(c).of[k - 1]
        /\ InHand(c) => Len(toCaller[c]) = Len(transfer.got) + 1 /\ Len(CidFile(c).of) = transfer.size
    BY <1>1, <1>7, <1>10 DEF Agrees, GetAgrees, GetInHand, GetAnswered, GetReceives
  <2>2. /\ new.size = Len(CidFile(c).of) /\ new.got = <<>> /\ Len(new.got) = 0 /\ Len(new.got) + Len(left) <= new.size
    BY <1>4, <1>6, <1>7, <2>1
  <2>3. ASSUME InHand(c) PROVE Len(new.got) + Len(left) = Len(transfer.got)
    <3>1. Len(transfer.got) \in Nat /\ Len(toCaller[c]) = Len(transfer.got) + 1
      BY <1>1, <2>1, <2>3 DEF TransferTypes
    <3>2. Len(left) = Len(transfer.got)
      BY <1>4, <3>1
    <3> QED
      BY <2>2, <3>1, <3>2
  <2>4. ASSUME NEW k \in DOMAIN left PROVE left[k].segment = CidFile(c).of[Len(new.got) + k]
    <3>1. k + 1 \in DOMAIN toCaller[c] /\ k + 1 > 1 /\ (k + 1) - 1 = k /\ Len(new.got) + k = k
      BY <1>4, <2>2
    <3> QED
      BY <1>4, <2>1, <3>1
  <2>5. \A k \in DOMAIN new.got : new.got[k] = CidFile(c).of[k]
    BY <2>2
  <2>6. GetReceives(c)'
    BY <1>3, <1>6, <1>8, <2>1, <2>2, <2>3, <2>4, <2>5 DEF GetReceives
  <2>7. GetInHand(c)'
    BY <1>8, <2>1 DEF GetInHand
  <2> QED
    BY <1>3, <1>6, <1>7, <2>6, <2>7 DEF GetAgrees, GetAnswered
<1>11. Agrees(c)'
  BY <1>3, <1>6, <1>8, <1>10 DEF Agrees
<1>12. Content(<<>>) \in FileSet
  BY DEF Content, FileSet
<1> QED
  BY <1>2, <1>3, <1>6, <1>7, <1>9, <1>11, <1>12, CallerStep

\* A caller takes the answer of the CID, or finds that it has hung up.
LEMMA GetsKept == ASSUME TransferInv, NEW c \in Callers, GetsAnswer(c) PROVE TransferInv'
<1>1. call[c].at = "waits" /\ (toCaller[c] # <<>> \/ HungUp(c)) /\ UNCHANGED <<remoteFile, transfer, alive, changes, toCid, calls>>
  BY DEF GetsAnswer, KeepsCid
<1>2. CASE HungUp(c)
  BY <1>1, <1>2, ReturnsNo DEF GetsAnswer
<1>3. CASE ~HungUp(c)
  <2>1. toCaller[c] # <<>> /\ toCaller[c] \in Seq(AnswerSet \cup SegmentSet)
    BY <1>1, <1>3 DEF TransferInv, TransferTypes
  <2>2. Head(toCaller[c]) = toCaller[c][1]
    BY <2>1
  <2>3. CASE toCaller[c][1].status = "SUCCESS" /\ call[c].op = "GET"
    BY <1>1, <1>3, <2>1, <2>2, <2>3, LengthHeard DEF GetsAnswer, Hears
  <2>4. CASE ~(toCaller[c][1].status = "SUCCESS" /\ call[c].op = "GET")
    BY <1>1, <1>3, <2>1, <2>2, <2>4, AnswerHeard DEF GetsAnswer, Hears
  <2> QED
    BY <2>3, <2>4
<1> QED
  BY <1>2, <1>3

\* All has come: the caller's file is that of the CID.
LEMMA AllReceived ==
  ASSUME TransferInv, NEW c \in Callers, call[c].at = "receives", Len(call[c].got) = call[c].size,
         WritesLocal(c, Content(call[c].got)), Returns(c, "yes"),
         UNCHANGED <<remoteFile, transfer, alive, changes, calls, toCid, toCaller>>
  PROVE  TransferInv'
<1>1. TransferTypes /\ Shape(c) /\ Agrees(c)
  BY DEF TransferInv
<1>2. PICK new : /\ new = [call[c] EXCEPT !.at = "over", !.got = <<>>, !.result = "yes"]
                 /\ call' = [call EXCEPT ![c] = new]
  BY DEF Returns
<1>3. /\ call[c] \in CallSet /\ <<>> \in Seq(Nat) /\ call'[c] = new /\ toCid[c] \in Seq(Nat)
      /\ toCaller[c] \in Seq(AnswerSet \cup SegmentSet)
      /\ toCid' = [toCid EXCEPT ![c] = toCid[c]] /\ toCaller' = [toCaller EXCEPT ![c] = toCaller[c]]
  BY <1>1, <1>2 DEF TransferTypes
<1>4. /\ new \in CallSet /\ new.op = call[c].op /\ new.path = call[c].path /\ new.size = call[c].size
      /\ new.at = "over" /\ new.result = "yes"
  BY <1>2, <1>3 DEF CallSet
<1>5. ~InLine(c) /\ call[c].path \in Paths /\ call[c].op = "GET"
  BY <1>1 DEF Shape, InLineShape, StreamShape
<1>6. /\ InLine(c)' = InLine(c) /\ InHand(c)' = InHand(c) /\ CidFile(c)' = CidFile(c) /\ touched \subseteq touched'
      /\ LocalFile(c)' = Content(call[c].got)
  BY <1>1, <1>3, <1>4, LoginFilesAssumption DEF InLine, InHand, LocalFile, CidFile, WritesLocal, TransferTypes
<1>7. Shape(c)'
  BY <1>1, <1>3, <1>4, <1>5, <1>6 DEF Shape, InLineShape, InHandShape, StreamShape
<1>8. ASSUME c \notin touched PROVE GetAgrees(c)'
  <2>1. /\ CidFile(c).exists /\ call[c].size = Len(CidFile(c).of) /\ GetInHand(c)
        /\ \A k \in DOMAIN call[c].got : call[c].got[k] = CidFile(c).of[k]
    BY <1>1, <1>5, <1>8 DEF Agrees, GetAgrees, GetReceives
  <2>2. CidFile(c) \in FileSet
    BY <1>1, <1>5 DEF CidFile, TransferTypes
  <2>3. call[c].got = CidFile(c).of
    <3>1. call[c].got \in Seq(Nat) /\ CidFile(c).of \in Seq(Nat) /\ Len(call[c].got) = Len(CidFile(c).of)
      BY <1>3, <2>1, <2>2 DEF CallSet, FileSet
    <3> QED
      BY <2>1, <3>1
  <2>4. CidFile(c) = Content(call[c].got)
    BY <2>1, <2>2, <2>3 DEF Content, FileSet
  <2> QED
    BY <1>3, <1>4, <1>6, <2>1, <2>4 DEF GetAgrees, GetInHand, GetAnswered, GetReceives
<1>9. Agrees(c)'
  BY <1>3, <1>4, <1>5, <1>6, <1>8 DEF Agrees
<1>10. Content(call[c].got) \in FileSet
  BY <1>3 DEF Content, FileSet, CallSet
<1> QED
  BY <1>2, <1>3, <1>4, <1>7, <1>9, <1>10, CallerStep

\* file_get takes a segment from the connection.
LEMMA SegmentHeard ==
  ASSUME TransferInv, NEW c \in Callers, call[c].at = "receives", Len(call[c].got) < call[c].size, toCaller[c] # <<>>,
         call' = [call EXCEPT ![c].got = Append(@, Head(toCaller[c]).segment)],
         toCaller' = [toCaller EXCEPT ![c] = Tail(@)],
         UNCHANGED <<remoteFile, transfer, alive, changes, calls, toCid, localFile, touched>>
  PROVE  TransferInv'
<1> DEFINE x == toCaller[c][1].segment
<1>1. TransferTypes /\ Shape(c) /\ Agrees(c)
  BY DEF TransferInv
<1>2. toCaller[c] \in Seq(AnswerSet \cup SegmentSet) /\ call[c] \in CallSet /\ call[c].got \in Seq(Nat)
  BY <1>1 DEF TransferTypes, CallSet
<1>3. PICK new, left, more : /\ more = Append(call[c].got, x)
                             /\ new = [call[c] EXCEPT !.got = more]
                             /\ left = Tail(toCaller[c])
                             /\ call' = [call EXCEPT ![c] = new] /\ toCaller' = [toCaller EXCEPT ![c] = left]
  <2>1. Head(toCaller[c]) = toCaller[c][1]
    BY <1>2
  <2> QED
    BY <2>1
<1>4. /\ Len(toCaller[c]) \in Nat \ {0} /\ DOMAIN toCaller[c] = 1 .. Len(toCaller[c]) /\ Len(left) = Len(toCaller[c]) - 1
      /\ DOMAIN left = 1 .. Len(toCaller[c]) - 1 /\ \A k \in DOMAIN left : left[k] = toCaller[c][k + 1]
      /\ left \in Seq(AnswerSet \cup SegmentSet)
  BY <1>2, <1>3
<1>5. call[c].op = "GET" /\ \A k \in DOMAIN toCaller[c] : toCaller[c][k] \in SegmentSet
  BY <1>1 DEF Shape, StreamShape
<1>6. 1 \in DOMAIN toCaller[c] /\ x \in Nat
  BY <1>4, <1>5 DEF SegmentSet
<1> HIDE DEF x
<1>7. /\ more \in Seq(Nat) /\ Len(more) = Len(call[c].got) + 1 /\ DOMAIN more = 1 .. Len(call[c].got) + 1
      /\ more[Len(call[c].got) + 1] = x /\ \A k \in DOMAIN call[c].got : more[k] = call[c].got[k]
      /\ DOMAIN call[c].got = 1 .. Len(call[c].got) /\ Len(call[c].got) \in Nat
  BY <1>2, <1>3, <1>6
<1>8. /\ new \in CallSet /\ new.op = "GET" /\ new.path = call[c].path /\ new.size = call[c].size
      /\ new.at = "receives" /\ new.result = call[c].result /\ new.got = more
  BY <1>2, <1>3, <1>5, <1>7 DEF CallSet
<1>9. /\ call'[c] = new /\ toCaller'[c] = left /\ toCid[c] \in Seq(Nat) /\ toCid' = [toCid EXCEPT ![c] = toCid[c]]
      /\ call[c].result = "none" /\ call[c].path \in Paths /\ ~InLine(c)
  BY <1>1, <1>3 DEF TransferTypes, Shape, InLineShape
<1>10. /\ InLine(c)' = InLine(c) /\ InHand(c)' = InHand(c) /\ CidFile(c)' = CidFile(c) /\ LocalFile(c)' = LocalFile(c)
  BY <1>8, <1>9 DEF InLine, InHand, CidFile, LocalFile
<1>11. Shape(c)'
  <2>1. \A k \in DOMAIN left : left[k] \in SegmentSet
    <3>1. \A k \in DOMAIN left : k + 1 \in DOMAIN toCaller[c]
      BY <1>4
    <3> QED
      BY <1>4, <1>5, <3>1
  <2> QED
    BY <1>1, <1>5, <1>8, <1>9, <1>10, <2>1 DEF Shape, InLineShape, InHandShape, StreamShape
<1>12. ASSUME c \notin touched PROVE GetAgrees(c)'
  <2>1. GetInHand(c) /\ GetReceives(c)
    BY <1>1, <1>5, <1>12 DEF Agrees, GetAgrees
  <2>2. /\ CidFile(c).exists /\ call[c].size = Len(CidFile(c).of) /\ Len(call[c].got) + Len(toCaller[c]) <= call[c].size
        /\ \A k \in DOMAIN call[c].got : call[c].got[k] = CidFile(c).of[k]
        /\ \A k \in DOMAIN toCaller[c] : toCaller[c][k].segment = CidFile(c).of[Len(call[c].got) + k]
        /\ InHand(c) => Len(call[c].got) + Len(toCaller[c]) = Len(transfer.got)
    BY <2>1 DEF GetReceives
  <2>3. Len(more) + Len(left) = Len(call[c].got) + Len(toCaller[c])
    <3>1. \A i, j \in Nat : (i + 1) + (j - 1) = i + j
      OBVIOUS
    <3>2. (Len(call[c].got) + 1) + (Len(toCaller[c]) - 1) = Len(call[c].got) + Len(toCaller[c])
      BY <1>4, <1>7, <3>1
    <3> QED
      BY <1>4, <1>7, <3>2, Zenon
  <2>4. \A k \in DOMAIN more : more[k] = CidFile(c).of[k]
    <3>1. x = CidFile(c).of[Len(call[c].got) + 1]
      BY <1>6, <2>2 DEF x
    <3>2. \A k \in DOMAIN more : k = Len(call[c].got) + 1 \/ k \in DOMAIN call[c].got
      BY <1>7
    <3> QED
      BY <1>7, <2>2, <3>1, <3>2
  <2>5. ASSUME NEW k \in DOMAIN left PROVE left[k].segment = CidFile(c).of[Len(more) + k]
    <3>1. k + 1 \in DOMAIN toCaller[c] /\ Len(call[c].got) + (k + 1) = Len(more) + k
      <4>1. k \in Nat /\ k + 1 \in DOMAIN toCaller[c]
        BY <1>4
      <4>2. \A i, j \in Nat : i + (j + 1) = (i + 1) + j
        OBVIOUS
      <4> QED
        BY <1>7, <4>1, <4>2
    <3> QED
      BY <1>4, <2>2, <3>1
  <2>6. GetReceives(c)'
    <3>1. call'[c].size = call[c].size /\ call'[c].got = more /\ toCaller'[c] = left
      BY <1>8, <1>9
    <3>2. \A k \in DOMAIN left : left[k].segment = CidFile(c).of[Len(more) + k]
      BY <2>5
    <3>3. CidFile(c)'.exists /\ call'[c].size = Len(CidFile(c)'.of) /\ Len(call'[c].got) + Len(toCaller'[c]) <= call'[c].size
      BY <1>10, <2>2, <2>3, <3>1
    <3>4. \A k \in DOMAIN call'[c].got : call'[c].got[k] = CidFile(c)'.of[k]
      BY <1>10, <2>4, <3>1, Zenon
    <3>5. \A k \in DOMAIN toCaller'[c] : toCaller'[c][k].segment = CidFile(c)'.of[Len(call'[c].got) + k]
      BY <1>10, <3>1, <3>2, Zenon
    <3>6. InHand(c)' => Len(call'[c].got) + Len(toCaller'[c]) = Len(transfer'.got)
      BY <1>10, <2>2, <2>3, <3>1
    <3> QED
      BY <3>3, <3>4, <3>5, <3>6, Zenon DEF GetReceives
  <2>7. GetInHand(c)'
    BY <1>10, <2>1 DEF GetInHand
  <2> QED
    BY <1>8, <1>9, <2>6, <2>7 DEF GetAgrees, GetAnswered
<1>13. Agrees(c)'
  BY <1>8, <1>9, <1>12 DEF Agrees
<1> QED
  BY <1>3, <1>4, <1>5, <1>8, <1>9, <1>11, <1>13, CallerStep

\* file_get goes on receiving, is done, or finds the connection closed.
LEMMA ReceivesKept == ASSUME TransferInv, NEW c \in Callers, ReceivesSegment(c) PROVE TransferInv'
<1>1. call[c].at = "receives" /\ UNCHANGED <<remoteFile, transfer, alive, changes, toCid, calls>>
  BY DEF ReceivesSegment, KeepsCid
<1>2. call[c].op = "GET" /\ Missing \in FileSet
  <2>1. call[c].op = "GET"
    BY <1>1 DEF TransferInv, Shape, StreamShape
  <2>2. <<>> \in Seq(Nat)
    OBVIOUS
  <2>3. Missing \in FileSet
    BY <2>2 DEF Missing, FileSet
  <2> QED
    BY <2>1, <2>3
<1>3. CASE /\ Len(call[c].got) = call[c].size
           /\ WritesLocal(c, Content(call[c].got)) /\ Returns(c, "yes") /\ UNCHANGED toCaller
  BY <1>1, <1>3, AllReceived
<1>4. CASE /\ Len(call[c].got) < call[c].size /\ toCaller[c] # <<>>
           /\ call' = [call EXCEPT ![c].got = Append(@, Head(toCaller[c]).segment)] /\ Hears(c)
           /\ UNCHANGED <<localFile, touched>>
  BY <1>1, <1>4, SegmentHeard DEF Hears
<1>5. CASE WritesLocal(c, Missing) /\ Returns(c, "no") /\ UNCHANGED toCaller
  BY <1>1, <1>2, <1>5, ReturnsNo
<1> QED
  BY <1>3, <1>4, <1>5 DEF ReceivesSegment

\* What a writer leaves that has not closed its file is a file.
LEMMA SavedIsFile == ASSUME NEW got \in Seq(Nat), NEW content \in SavedOf(got) PROVE content \in FileSet
<1>1. PICK k \in 0 .. Len(got) : content = Content(SubSeq(got, 1, k))
  BY DEF SavedOf
<1>2. SubSeq(got, 1, k) \in Seq(Nat)
  OBVIOUS
<1> QED
  BY <1>1, <1>2 DEF Content, FileSet

\* A caller dies; a file that he was writing keeps a part.
LEMMA DiesKept == ASSUME TransferInv, NEW c \in Callers, CallerDies(c) PROVE TransferInv'
<1>1. /\ call[c].at \notin {"before", "over", "dead"}
      /\ UNCHANGED <<remoteFile, transfer, alive, changes, toCid, toCaller, calls>>
  BY DEF CallerDies, KeepsCid
<1>2. TransferTypes /\ Shape(c)
  BY DEF TransferInv
<1>3. PICK new : new = [call[c] EXCEPT !.at = "dead", !.got = <<>>] /\ call' = [call EXCEPT ![c] = new]
  BY DEF CallerDies
<1>4. /\ call[c] \in CallSet /\ <<>> \in Seq(Nat) /\ call'[c] = new /\ toCid[c] \in Seq(Nat)
      /\ toCaller[c] \in Seq(AnswerSet \cup SegmentSet)
      /\ toCid' = [toCid EXCEPT ![c] = toCid[c]] /\ toCaller' = [toCaller EXCEPT ![c] = toCaller[c]]
  BY <1>1, <1>2, <1>3 DEF TransferTypes
<1>5. call[c].result = "none" /\ (call[c].at = "receives" => call[c].op = "GET")
  BY <1>1, <1>2, <1>4 DEF Shape, StreamShape, CallSet
<1>6. /\ new \in CallSet /\ new.op = call[c].op /\ new.path = call[c].path /\ new.size = call[c].size
      /\ new.at = "dead" /\ new.result = "none"
  BY <1>3, <1>4, <1>5 DEF CallSet
<1>7. \/ UNCHANGED <<localFile, touched>>
      \/ call[c].op = "GET" /\ \E content \in FileSet : WritesLocal(c, content)
  <2>1. CASE call[c].at = "receives"
    <3>1. PICK content \in SavedOf(call[c].got) : WritesLocal(c, content)
      BY <2>1 DEF CallerDies
    <3>2. call[c].got \in Seq(Nat)
      BY <1>4 DEF CallSet
    <3> QED
      BY <1>5, <2>1, <3>1, <3>2, SavedIsFile
  <2>2. CASE call[c].at # "receives"
    BY <2>2 DEF CallerDies
  <2> QED
    BY <2>1, <2>2
<1>8. touched' \in SUBSET Callers /\ touched \subseteq touched' /\ (call[c].op = "GET" \/ LocalFile(c)' = LocalFile(c))
  BY <1>2, <1>7 DEF TransferTypes, WritesLocal, LocalFile, Begun
<1>9. Shape(c)' /\ Agrees(c)'
  BY <1>1, <1>4, <1>6, <1>8, FailedCall
<1> QED
  BY <1>1, <1>3, <1>4, <1>6, <1>7, <1>9, CallerStep

\* The steps of the CID: of the others it disturbs only those it touches.
LEMMA CidStep ==
  ASSUME TransferInv, NEW c \in Callers, UNCHANGED <<call, localFile, changes>>, TransferTypes',
         \A b \in Callers \ {c} : InLine(b)' = InLine(b) /\ ~InHand(b) /\ ~InHand(b)',
         \A b \in Callers \ {c} : toCid'[b] = toCid[b] /\ toCaller'[b] = toCaller[b],
         alive' => alive,
         UNCHANGED <<remoteFile, touched>> \/ \E content \in FileSet : WritesRemote(c, content),
         Shape(c)', Agrees(c)', EmptyIsWritten'
  PROVE  TransferInv'
<1>1. TransferTypes /\ (\A b \in Callers : Shape(b) /\ Agrees(b))
  BY DEF TransferInv
<1>2. ASSUME NEW b \in Callers \ {c} PROVE Shape(b)' /\ Agrees(b)'
  <2>1. touched \subseteq touched' /\ LocalFile(b)' = LocalFile(b)
    BY DEF WritesRemote, LocalFile
  <2>2. b \notin touched' /\ call[b].at # "before" => InLine(b) \/ CidFile(b)' = CidFile(b)
    <3>1. CASE UNCHANGED <<remoteFile, touched>>
      BY <3>1 DEF CidFile
    <3>2. ASSUME NEW content \in FileSet, WritesRemote(c, content), call[b].at # "before", b \notin touched', ~InLine(b)
          PROVE  CidFile(b)' = CidFile(b)
      <4>1. call[b].path \in Paths /\ call[b].path # call[c].path
        BY <1>1, <3>2 DEF Shape, WritesRemote, Begun, InLine
      <4> QED
        BY <1>1, <3>2, <4>1 DEF WritesRemote, CidFile, TransferTypes
    <3> QED
      BY <3>1, <3>2
  <2>3. InHand(b)' = InHand(b) /\ (InHand(b) => transfer' = transfer)
    BY DEF InHand
  <2> QED
    BY <1>1, <2>1, <2>2, <2>3, Undisturbed
<1> QED
  BY <1>2 DEF TransferInv

\* A write of the CID changes one file of its host.
LEMMA WritesTyped ==
  ASSUME TransferTypes, NEW c \in Callers, call[c].path \in Paths, NEW content \in FileSet, WritesRemote(c, content)
  PROVE  /\ remoteFile' \in [Paths -> FileSet] /\ touched' \subseteq Callers /\ touched \subseteq touched'
         /\ remoteFile'[call[c].path] = content /\ \A p \in Paths : p # call[c].path => remoteFile'[p] = remoteFile[p]
BY DEF TransferTypes, WritesRemote, Begun

\* Who is first in the line is served next.
LEMMA Accepted ==
  ASSUME TransferInv, NEW c \in Callers, Accept(c)
  PROVE  /\ calls' \in Seq(Callers) /\ IsInjective(calls') /\ InLine(c) /\ ~InLine(c)' /\ toCaller[c] = <<>>
         /\ call[c].at \notin {"before", "receives"} /\ call[c].result # "yes" /\ call[c].path \in Paths
         /\ \A b \in Callers : ~InHand(b) /\ (b # c => InLine(b)' = InLine(b))
<1>1. TransferTypes /\ Shape(c) /\ transfer.call = NoCaller /\ calls # <<>> /\ c = Head(calls) /\ calls' = Tail(calls)
  BY DEF TransferInv, Accept
<1>2. /\ calls' \in Seq(Callers) /\ IsInjective(calls') /\ ToSet(calls') = ToSet(calls) \ {c} /\ c \in ToSet(calls)
  BY <1>1, LeavesLine DEF TransferTypes
<1>3. \A b \in Callers : ~InHand(b)
  BY <1>1, LoginFilesAssumption DEF InHand
<1> QED
  BY <1>1, <1>2, <1>3 DEF InLine, Shape, InLineShape

\* The CID takes up a file_put: the segments come next.
LEMMA FilePutKept == ASSUME TransferInv, NEW c \in Callers, OpFilePut(c), UNCHANGED <<toCid, localFile, call, changes>> PROVE TransferInv'
<1>1. TransferTypes /\ Shape(c) /\ Agrees(c) /\ EmptyIsWritten
  BY DEF TransferInv
<1>2. call[c].op = "PUT" /\ Accept(c) /\ UNCHANGED toCaller
  BY DEF OpFilePut
<1>3. /\ calls' \in Seq(Callers) /\ IsInjective(calls') /\ InLine(c) /\ ~InLine(c)' /\ toCaller[c] = <<>>
      /\ call[c].at \notin {"before", "receives"} /\ call[c].result # "yes" /\ call[c].path \in Paths
      /\ \A b \in Callers : ~InHand(b) /\ (b # c => InLine(b)' = InLine(b))
  BY <1>2, Accepted
<1>4. ~Succeeded(c)' /\ LocalFile(c)' = LocalFile(c) /\ call[c] \in CallSet /\ <<>> \in Seq(Nat)
  BY <1>1, <1>2, <1>3 DEF Succeeded, LocalFile, TransferTypes
<1>5. CASE call[c].path \in Locked
  <2>1. alive' = FALSE /\ UNCHANGED <<remoteFile, transfer, touched>>
    BY <1>5 DEF OpFilePut
  <2>2. TransferTypes'
    BY <1>1, <1>2, <1>3, <2>1 DEF TransferTypes
  <2>3. \A b \in Callers : ~InHand(b)'
    BY <1>3, <2>1 DEF InHand
  <2>4. Shape(c)'
    BY <1>1, <1>2, <1>3, <2>3 DEF Shape, InLineShape, InHandShape, StreamShape
  <2>5. c \notin touched => PutAgrees(c)'
    BY <1>1, <1>2, <1>3, <1>4, <2>1, <2>3 DEF Agrees, PutAgrees
  <2>6. Agrees(c)' /\ EmptyIsWritten'
    BY <1>2, <2>1, <2>5 DEF Agrees, EmptyIsWritten
  <2> QED
    BY <1>2, <1>3, <2>1, <2>2, <2>3, <2>4, <2>6, CidStep
<1>6. CASE call[c].path \notin Locked
  <2>1. PICK content : content = Content(<<>>) /\ WritesRemote(c, content) /\ UNCHANGED alive
                       /\ transfer' = [call |-> c, size |-> call[c].size, got |-> <<>>]
    BY <1>6 DEF OpFilePut
  <2>2. content \in FileSet
    BY <1>4, <2>1 DEF Content, FileSet
  <2>3. /\ remoteFile' \in [Paths -> FileSet] /\ touched' \subseteq Callers /\ touched \subseteq touched'
        /\ remoteFile'[call[c].path] = content /\ \A p \in Paths : p # call[c].path => remoteFile'[p] = remoteFile[p]
    BY <1>1, <1>3, <2>1, <2>2, WritesTyped
  <2>4. transfer' \in [call : Callers \cup {NoCaller}, size : Nat, got : Seq(Nat)]
    BY <1>4, <2>1 DEF CallSet
  <2>5. TransferTypes'
    BY <1>1, <1>2, <1>3, <2>1, <2>3, <2>4 DEF TransferTypes
  <2>6. InHand(c)' /\ (\A b \in Callers \ {c} : ~InHand(b)') /\ ~Served(c)' /\ transfer'.got = <<>> /\ Len(transfer'.got) = 0
        /\ transfer'.size = call[c].size /\ transfer'.size \in Nat
    BY <1>4, <2>1 DEF InHand, Served, CallSet
  <2>7. Shape(c)'
    <3>1. InLineShape(c)' /\ InHandShape(c)'
      BY <1>2, <1>3, <2>6 DEF InLineShape, InHandShape
    <3>2. StreamShape(c)'
      <4>1. Len(toCid[c]) \in Nat /\ (InLine(c) /\ call[c].at = "sends" => Len(toCid[c]) = Len(call[c].got))
        BY <1>1 DEF TransferTypes, Shape, StreamShape
      <4>2. call[c].at = "sends" => Len(transfer'.got) + Len(toCid[c]) = Len(call[c].got)
        BY <1>3, <2>6, <4>1
      <4> QED
        BY <1>1, <1>2, <1>3, <4>2 DEF Shape, StreamShape
    <3> QED
      BY <1>1, <1>2, <1>3, <3>1, <3>2 DEF Shape
  <2>8. c \notin touched => PutAgrees(c)'
    BY <1>1, <1>2, <1>3, <1>4, <2>6 DEF Agrees, PutAgrees
  <2>9. Agrees(c)'
    BY <1>2, <2>3, <2>8 DEF Agrees
  <2>10. EmptyIsWritten'
    <3> DEFINE P == {call[c].path}
    <3>1. \A p \in P : WrittenEmpty(p)'
      BY <1>2, <2>6 DEF WrittenEmpty
    <3>2. \A p \in Paths : p \notin P => remoteFile'[p] = remoteFile[p]
      BY <2>3
    <3> HIDE DEF P
    <3> QED
      BY <1>1, <1>3, <2>1, <3>1, <3>2, EmptyKept
  <2> QED
    BY <1>2, <1>3, <2>1, <2>2, <2>5, <2>6, <2>7, <2>9, <2>10, CidStep
<1> QED
  BY <1>5, <1>6

\* The CID takes up a file_get: it says the size, and sends next.
LEMMA FileGetKept ==
  ASSUME TransferInv, NEW c \in Callers, OpFileGet(c), UNCHANGED <<toCid, localFile, call, changes>>
  PROVE  TransferInv'
<1>1. TransferTypes /\ Shape(c) /\ Agrees(c) /\ EmptyIsWritten
  BY DEF TransferInv
<1>2. call[c].op = "GET" /\ Accept(c) /\ UNCHANGED <<remoteFile, touched, alive>>
  BY DEF OpFileGet
<1>3. /\ calls' \in Seq(Callers) /\ IsInjective(calls') /\ InLine(c) /\ ~InLine(c)' /\ toCaller[c] = <<>>
      /\ call[c].at \notin {"before", "receives"} /\ call[c].result # "yes" /\ call[c].path \in Paths
      /\ \A b \in Callers : ~InHand(b) /\ (b # c => InLine(b)' = InLine(b))
  BY <1>2, Accepted
<1>4. /\ LocalFile(c)' = LocalFile(c) /\ CidFile(c)' = CidFile(c) /\ call[c] \in CallSet /\ <<>> \in Seq(Nat)
      /\ CidFile(c) \in FileSet /\ Len(CidFile(c).of) \in Nat
  BY <1>1, <1>2, <1>3 DEF LocalFile, CidFile, TransferTypes, FileSet
<1>5. PICK status \in {"SUCCESS", "FAILURE"}, size \in Nat :
        /\ toCaller' = [toCaller EXCEPT ![c] = Append(toCaller[c], [status |-> status, size |-> size])]
        /\ \/ /\ status = "SUCCESS" /\ CidFile(c).exists /\ size = Len(CidFile(c).of)
              /\ transfer' = [call |-> c, size |-> size, got |-> <<>>]
           \/ status = "FAILURE" /\ UNCHANGED transfer
  BY <1>4 DEF OpFileGet, CidFile, Reply
<1> DEFINE answer == [status |-> status, size |-> size]
<1>6. /\ toCaller' = [toCaller EXCEPT ![c] = <<answer>>]
      /\ answer \in AnswerSet /\ answer.status = status /\ answer.size = size
  <2>1. answer \in AnswerSet /\ answer.status = status /\ answer.size = size
    BY DEF AnswerSet
  <2>2. toCaller' = [toCaller EXCEPT ![c] = Append(toCaller[c], answer)]
    BY <1>5
  <2> HIDE DEF answer
  <2>3. Append(toCaller[c], answer) = <<answer>>
    BY <1>3
  <2> QED
    BY <2>1, <2>2, <2>3
<1> HIDE DEF answer
<1>7. <<answer>> \in Seq(AnswerSet \cup SegmentSet) /\ Len(<<answer>>) = 1 /\ DOMAIN <<answer>> = {1} /\ <<answer>>[1] = answer
      /\ <<answer>> # <<>>
  BY <1>6
<1>8. toCaller'[c] = <<answer>> /\ \A b \in Callers \ {c} : toCaller'[b] = toCaller[b]
  BY <1>1, <1>6 DEF TransferTypes
<1>9. TransferTypes'
  <2>1. transfer' \in [call : Callers \cup {NoCaller}, size : Nat, got : Seq(Nat)]
    <3>1. CASE transfer' = [call |-> c, size |-> size, got |-> <<>>]
      BY <1>4, <3>1
    <3>2. CASE UNCHANGED transfer
      BY <1>1, <3>2 DEF TransferTypes
    <3> QED
      BY <1>5, <3>1, <3>2
  <2> QED
    BY <1>1, <1>2, <1>3, <1>6, <1>7, <2>1 DEF TransferTypes
<1>10. Succeeded(c)' = (status = "SUCCESS") /\ \A b \in Callers \ {c} : ~InHand(b)'
  <2>1. Succeeded(c)' = (status = "SUCCESS")
    BY <1>6, <1>7, <1>8 DEF Succeeded
  <2>2. transfer'.call = c \/ transfer' = transfer
    BY <1>5
  <2> QED
    BY <1>3, <2>1, <2>2 DEF InHand
<1>11. InHand(c)' => status = "SUCCESS" /\ CidFile(c).exists /\ size = Len(CidFile(c).of) /\ transfer'.size = size
                     /\ Len(transfer'.got) = 0
  BY <1>3, <1>5 DEF InHand
<1>12. call[c].at # "sends"
  BY <1>1, <1>2 DEF Shape, StreamShape
<1>13. Shape(c)'
  <2>1. InLineShape(c)' /\ InHandShape(c)'
    <3>1. InHand(c)' => Len(transfer'.got) <= transfer'.size
      BY <1>11
    <3> QED
      BY <1>2, <1>3, <1>4, <1>10, <1>11, <3>1 DEF InLineShape, InHandShape
  <2>2. StreamShape(c)'
    BY <1>2, <1>3, <1>6, <1>7, <1>8, <1>12 DEF StreamShape
  <2> QED
    BY <1>1, <1>2, <1>3, <2>1, <2>2 DEF Shape
<1>14. GetAgrees(c)'
  <2>1. GetInHand(c)'
    BY <1>4, <1>11 DEF GetInHand
  <2>2. GetAnswered(c)'
    <3>1. status = "SUCCESS" => CidFile(c).exists /\ size = Len(CidFile(c).of)
      BY <1>5
    <3>2. Len(<<answer>>) - 1 <= Len(CidFile(c).of) /\ (InHand(c)' => Len(<<answer>>) = Len(transfer'.got) + 1)
      BY <1>4, <1>7, <1>11
    <3>3. \A k \in DOMAIN <<answer>> : ~(k > 1)
      BY <1>7
    <3> QED
      BY <1>4, <1>6, <1>7, <1>8, <1>10, <3>1, <3>2, <3>3 DEF GetAnswered
  <2> QED
    BY <1>2, <1>3, <2>1, <2>2 DEF GetAgrees, GetReceives
<1>15. Agrees(c)'
  BY <1>2, <1>14 DEF Agrees
<1>16. EmptyIsWritten'
  BY <1>1, <1>2, <1>3, EmptyUntouched
<1> QED
  BY <1>2, <1>3, <1>8, <1>9, <1>10, <1>13, <1>15, <1>16, CidStep

\* The CID takes up a file_remove, and is done with it.
LEMMA RemoveKept ==
  ASSUME TransferInv, NEW c \in Callers, OpRemove(c), UNCHANGED <<toCid, localFile, call, changes>>
  PROVE  TransferInv'
<1>1. TransferTypes /\ Shape(c) /\ Agrees(c) /\ EmptyIsWritten
  BY DEF TransferInv
<1>2. call[c].op = "REMOVE" /\ Accept(c) /\ UNCHANGED <<transfer, alive>>
  BY DEF OpRemove
<1>3. /\ calls' \in Seq(Callers) /\ IsInjective(calls') /\ InLine(c) /\ ~InLine(c)' /\ toCaller[c] = <<>>
      /\ call[c].at \notin {"before", "receives"} /\ call[c].result # "yes" /\ call[c].path \in Paths
      /\ \A b \in Callers : ~InHand(b) /\ (b # c => InLine(b)' = InLine(b))
  BY <1>2, Accepted
<1>4. PICK status \in {"SUCCESS", "FAILURE"} :
        /\ toCaller' = [toCaller EXCEPT ![c] = Append(toCaller[c], [status |-> status, size |-> 0])]
        /\ \/ status = "SUCCESS" /\ WritesRemote(c, Missing)
           \/ status = "FAILURE" /\ UNCHANGED <<remoteFile, touched>>
  BY DEF OpRemove, Reply
<1> DEFINE answer == [status |-> status, size |-> 0]
<1>5. toCaller' = [toCaller EXCEPT ![c] = <<answer>>] /\ answer \in AnswerSet /\ answer.status = status
  <2>1. answer \in AnswerSet /\ answer.status = status
    BY DEF AnswerSet
  <2>2. toCaller' = [toCaller EXCEPT ![c] = Append(toCaller[c], answer)]
    BY <1>4
  <2> HIDE DEF answer
  <2>3. Append(toCaller[c], answer) = <<answer>>
    BY <1>3
  <2> QED
    BY <2>1, <2>2, <2>3
<1> HIDE DEF answer
<1>6. <<answer>> \in Seq(AnswerSet \cup SegmentSet) /\ DOMAIN <<answer>> = {1} /\ <<answer>>[1] = answer /\ <<answer>> # <<>>
  BY <1>5
<1>7. toCaller'[c] = <<answer>> /\ \A b \in Callers \ {c} : toCaller'[b] = toCaller[b]
  BY <1>1, <1>5 DEF TransferTypes
<1>8. Missing \in FileSet /\ ~Missing.exists /\ Missing # Content(<<>>)
  <2>1. <<>> \in Seq(Nat)
    OBVIOUS
  <2> QED
    BY <2>1 DEF Missing, FileSet, Content
<1>9. /\ remoteFile' \in [Paths -> FileSet] /\ touched' \subseteq Callers
      /\ status = "SUCCESS" => remoteFile'[call[c].path] = Missing
      /\ \A p \in Paths : remoteFile'[p] = remoteFile[p] \/ (p = call[c].path /\ remoteFile'[p] = Missing)
  <2>1. CASE status = "SUCCESS" /\ WritesRemote(c, Missing)
    BY <1>1, <1>3, <1>8, <2>1, WritesTyped
  <2>2. CASE status = "FAILURE" /\ UNCHANGED <<remoteFile, touched>>
    BY <1>1, <2>2 DEF TransferTypes
  <2> QED
    BY <1>4, <2>1, <2>2
<1>10. TransferTypes'
  BY <1>1, <1>2, <1>3, <1>5, <1>6, <1>9 DEF TransferTypes
<1>11. Succeeded(c)' = (status = "SUCCESS") /\ \A b \in Callers : ~InHand(b)'
  BY <1>2, <1>3, <1>5, <1>6, <1>7 DEF Succeeded, InHand
<1>12. call[c].at # "sends" /\ call[c] \in CallSet
  BY <1>1, <1>2 DEF Shape, StreamShape, TransferTypes
<1>13. Shape(c)'
  <2>1. InLineShape(c)' /\ InHandShape(c)'
    BY <1>3, <1>11 DEF InLineShape, InHandShape
  <2>2. StreamShape(c)'
    BY <1>2, <1>3, <1>5, <1>6, <1>7, <1>12 DEF StreamShape
  <2> QED
    BY <1>1, <1>2, <1>3, <2>1, <2>2 DEF Shape
<1>14. RemoveAgrees(c)'
  BY <1>2, <1>3, <1>8, <1>9, <1>11 DEF RemoveAgrees, CidFile
<1>15. Agrees(c)'
  BY <1>2, <1>14 DEF Agrees
<1>16. EmptyIsWritten'
  <2> DEFINE P == {p \in Paths : remoteFile'[p] = Missing}
  <2>1. \A p \in P : remoteFile'[p] # Content(<<>>)
    BY <1>8
  <2>2. \A p \in Paths : p \notin P => remoteFile'[p] = remoteFile[p]
    BY <1>9
  <2> HIDE DEF P
  <2> QED
    BY <1>1, <1>2, <1>3, <2>1, <2>2, EmptyKept
<1> QED
  BY <1>2, <1>3, <1>4, <1>7, <1>8, <1>10, <1>11, <1>13, <1>15, <1>16, CidStep

\* The CID has received a segment, or all, or no more comes.
LEMMA ReceiveKept ==
  ASSUME TransferInv, NEW c \in Callers, receiveFile(c), UNCHANGED <<localFile, call, changes>>
  PROVE  TransferInv'
<1> DEFINE got == transfer.got
<1>1. TransferTypes /\ Shape(c) /\ Agrees(c) /\ EmptyIsWritten
  BY DEF TransferInv
<1>2. call[c].op = "PUT" /\ InHand(c) /\ alive /\ UNCHANGED <<calls, alive>>
  BY DEF receiveFile, InHand
<1>3. /\ ~InLine(c) /\ toCaller[c] = <<>> /\ call[c].at \notin {"before", "receives"} /\ call[c].result # "yes"
      /\ call[c].path \in Paths /\ transfer.size = call[c].size /\ Len(got) <= call[c].size
  BY <1>1, <1>2 DEF Shape, InLineShape, InHandShape, StreamShape
<1>4. /\ got \in Seq(Nat) /\ Len(got) \in Nat /\ call[c] \in CallSet /\ call[c].size \in Nat /\ toCid[c] \in Seq(Nat)
      /\ transfer = [call |-> c, size |-> call[c].size, got |-> got]
  BY <1>1, <1>2, <1>3 DEF TransferTypes, CallSet, InHand
<1>5. /\ InLine(c)' = InLine(c) /\ LocalFile(c)' = LocalFile(c)
      /\ \A b \in Callers \ {c} : InLine(b)' = InLine(b) /\ ~InHand(b)
  BY <1>2 DEF InLine, InHand, LocalFile
<1>6. LocalFile(c) \in FileSet /\ (c \notin touched => PutAgrees(c))
  BY <1>1, <1>2, LoginFilesAssumption DEF LocalFile, TransferTypes, Agrees
<1> HIDE DEF got
<1>7. CASE /\ Len(got) < transfer.size /\ toCid[c] # <<>>
           /\ transfer' = [transfer EXCEPT !.got = Append(@, Head(toCid[c]))]
           /\ toCid' = [toCid EXCEPT ![c] = Tail(@)] /\ UNCHANGED <<remoteFile, touched, toCaller>>
  <2>1. PICK x, more, left : /\ x = toCid[c][1] /\ more = Append(got, x) /\ left = Tail(toCid[c])
                             /\ transfer' = [call |-> c, size |-> call[c].size, got |-> more]
                             /\ toCid' = [toCid EXCEPT ![c] = left]
    <3>1. Head(toCid[c]) = toCid[c][1]
      BY <1>4, <1>7
    <3> QED
      BY <1>4, <1>7, <3>1
  <2>2. /\ Len(toCid[c]) \in Nat \ {0} /\ DOMAIN toCid[c] = 1 .. Len(toCid[c]) /\ Len(left) = Len(toCid[c]) - 1
        /\ DOMAIN left = 1 .. Len(toCid[c]) - 1 /\ \A k \in DOMAIN left : left[k] = toCid[c][k + 1]
        /\ left \in Seq(Nat) /\ x \in Nat
    BY <1>4, <1>7, <2>1
  <2>3. /\ more \in Seq(Nat) /\ Len(more) = Len(got) + 1 /\ DOMAIN more = 1 .. Len(got) + 1 /\ DOMAIN got = 1 .. Len(got)
        /\ more[Len(got) + 1] = x /\ \A k \in DOMAIN got : more[k] = got[k]
    BY <1>4, <2>1, <2>2
  <2>4. InHand(c)' /\ (\A b \in Callers \ {c} : ~InHand(b)') /\ ~Served(c)' /\ Len(more) <= call[c].size
    BY <1>3, <1>4, <1>7, <2>1, <2>3 DEF InHand, Served
  <2>5. /\ toCid'[c] = left /\ (\A b \in Callers \ {c} : toCid'[b] = toCid[b])
        /\ transfer'.got = more /\ transfer'.size = call[c].size
    BY <1>1, <2>1 DEF TransferTypes
  <2>6. TransferTypes'
    <3>1. transfer' \in [call : Callers \cup {NoCaller}, size : Nat, got : Seq(Nat)]
      BY <1>4, <2>1, <2>3
    <3> QED
      BY <1>1, <1>2, <1>7, <2>1, <2>2, <3>1 DEF TransferTypes
  <2>7. Len(more) + Len(left) = Len(got) + Len(toCid[c])
    <3>1. \A i, j \in Nat : (i + 1) + (j - 1) = i + j
      OBVIOUS
    <3>2. (Len(got) + 1) + (Len(toCid[c]) - 1) = Len(got) + Len(toCid[c])
      BY <1>4, <2>2, <3>1
    <3> QED
      BY <2>2, <2>3, <3>2, Zenon
  <2>8. Shape(c)'
    <3>1. InLineShape(c)' /\ InHandShape(c)'
      BY <1>2, <1>3, <1>5, <1>7, <2>4, <2>5 DEF InLineShape, InHandShape
    <3>2. call[c].at = "sends" => Len(more) + Len(left) = Len(call[c].got)
      BY <1>1, <1>2, <2>7 DEF Shape, StreamShape, got
    <3>3. StreamShape(c)'
      BY <1>1, <1>2, <1>3, <1>5, <1>7, <2>5, <3>2 DEF Shape, StreamShape
    <3> QED
      BY <1>1, <1>2, <1>3, <3>1, <3>3 DEF Shape
  <2>9. ASSUME c \notin touched PROVE Begins(more, left, LocalFile(c))
    <3>1. Begins(got, toCid[c], LocalFile(c))
      BY <1>2, <1>6, <2>9 DEF PutAgrees, got
    <3>2. PICK f : f = LocalFile(c)
      OBVIOUS
    <3>3. /\ f.exists /\ Len(got) + Len(toCid[c]) <= Len(f.of)
          /\ \A k \in DOMAIN got : got[k] = f.of[k]
          /\ \A k \in DOMAIN toCid[c] : toCid[c][k] = f.of[Len(got) + k]
      BY <1>7, <3>1, <3>2 DEF Begins
    <3>4. \A k \in DOMAIN more : more[k] = f.of[k]
      <4>1. x = f.of[Len(got) + 1]
        BY <2>1, <2>2, <3>3
      <4>2. \A k \in DOMAIN more : k = Len(got) + 1 \/ k \in DOMAIN got
        BY <1>4, <2>3
      <4> QED
        BY <2>3, <3>3, <4>1, <4>2
    <3>5. ASSUME NEW k \in DOMAIN left PROVE left[k] = f.of[Len(more) + k]
      <4>1. k \in Nat /\ k + 1 \in DOMAIN toCid[c]
        BY <2>2
      <4>2. \A i, j \in Nat : i + (j + 1) = (i + 1) + j
        OBVIOUS
      <4>3. Len(got) + (k + 1) = (Len(got) + 1) + k
        BY <1>4, <4>1, <4>2
      <4> QED
        BY <2>2, <2>3, <3>3, <4>1, <4>3
    <3> QED
      BY <2>7, <3>2, <3>3, <3>4, <3>5 DEF Begins
  <2>10. c \notin touched => PutAgrees(c)'
    BY <1>2, <1>3, <1>5, <1>6, <1>7, <2>4, <2>5, <2>9 DEF PutAgrees, Succeeded
  <2>11. Agrees(c)' /\ EmptyIsWritten'
    <3>1. \A b \in Callers : call[b].op = "PUT" /\ InHand(b) => InHand(b)'
      BY <1>5, <2>4
    <3> QED
      BY <1>1, <1>2, <1>7, <2>10, <3>1, EmptyUntouched DEF Agrees
  <2> QED
    BY <1>2, <1>5, <1>7, <2>4, <2>5, <2>6, <2>8, <2>11, CidStep
<1>8. ASSUME NEW content \in FileSet, NEW status \in {"SUCCESS", "FAILURE"},
             WritesRemote(c, content), Reply(c, status, 0), transfer' = NoTransfer, UNCHANGED toCid,
             content = Content(<<>>) => call[c].size = 0,
             status = "SUCCESS" => content = Content(got) /\ Len(got) = call[c].size,
             status = "FAILURE" => ~content.exists
      PROVE  TransferInv'
  <2> DEFINE answer == [status |-> status, size |-> 0]
  <2>1. toCaller' = [toCaller EXCEPT ![c] = <<answer>>] /\ answer \in AnswerSet /\ answer.status = status
    <3>1. answer \in AnswerSet /\ answer.status = status
      BY DEF AnswerSet
    <3>2. toCaller' = [toCaller EXCEPT ![c] = Append(toCaller[c], answer)]
      BY <1>8 DEF Reply
    <3> HIDE DEF answer
    <3>3. Append(toCaller[c], answer) = <<answer>>
      BY <1>3
    <3> QED
      BY <3>1, <3>2, <3>3
  <2> HIDE DEF answer
  <2>2. <<answer>> \in Seq(AnswerSet \cup SegmentSet) /\ DOMAIN <<answer>> = {1} /\ <<answer>>[1] = answer /\ <<answer>> # <<>>
    BY <2>1
  <2>3. toCaller'[c] = <<answer>> /\ \A b \in Callers \ {c} : toCaller'[b] = toCaller[b]
    BY <1>1, <2>1 DEF TransferTypes
  <2>4. /\ remoteFile' \in [Paths -> FileSet] /\ touched' \subseteq Callers /\ touched \subseteq touched'
        /\ remoteFile'[call[c].path] = content /\ \A p \in Paths : p # call[c].path => remoteFile'[p] = remoteFile[p]
    BY <1>1, <1>3, <1>8, WritesTyped
  <2>5. TransferTypes'
    <3>1. transfer' \in [call : Callers \cup {NoCaller}, size : Nat, got : Seq(Nat)]
      <4>1. <<>> \in Seq(Nat)
        OBVIOUS
      <4> QED
        BY <1>8, <4>1 DEF NoTransfer
    <3> QED
      BY <1>1, <1>2, <1>8, <2>1, <2>2, <2>4, <3>1 DEF TransferTypes
  <2>6. (\A b \in Callers : ~InHand(b)') /\ Succeeded(c)' = (status = "SUCCESS") /\ CidFile(c)' = content
    <3>1. \A b \in Callers : ~InHand(b)'
      BY <1>8, LoginFilesAssumption DEF InHand, NoTransfer
    <3>2. Succeeded(c)' = (status = "SUCCESS")
      BY <2>1, <2>2, <2>3 DEF Succeeded
    <3>3. CidFile(c)' = content
      BY <2>4 DEF CidFile
    <3> QED
      BY <3>1, <3>2, <3>3
  <2>7. Shape(c)'
    <3>1. InLineShape(c)' /\ InHandShape(c)'
      BY <1>3, <1>5, <2>6 DEF InLineShape, InHandShape
    <3>2. StreamShape(c)'
      BY <1>1, <1>2, <1>3, <1>5, <1>8, <2>1, <2>2, <2>3, <2>6 DEF Shape, StreamShape
    <3> QED
      BY <1>1, <1>2, <1>3, <1>8, <3>1, <3>2 DEF Shape
  <2>8. ASSUME c \notin touched PROVE PutAgrees(c)'
    <3>1. PutAgrees(c) /\ Begins(got, toCid[c], LocalFile(c))
      BY <1>2, <1>6, <2>8 DEF PutAgrees, got
    <3>2. ASSUME status = "SUCCESS", LocalFile(c).exists PROVE content = LocalFile(c)
      <4>1. LocalFile(c).of \in Seq(Nat) /\ Len(LocalFile(c).of) = call[c].size /\ Len(got) = call[c].size
        BY <1>6, <1>8, <3>1, <3>2 DEF PutAgrees, FileSet
      <4>2. \A k \in DOMAIN got : got[k] = LocalFile(c).of[k]
        BY <1>4, <3>1 DEF Begins
      <4>3. got = LocalFile(c).of
        BY <1>4, <4>1, <4>2
      <4> QED
        BY <1>6, <1>8, <3>2, <4>3 DEF Content, FileSet
    <3>3. status = "SUCCESS" /\ call[c].size > 0 => LocalFile(c).exists
      <4>1. status = "SUCCESS" /\ call[c].size > 0 => got # <<>>
        BY <1>4, <1>8
      <4> QED
        BY <3>1, <4>1 DEF Begins
    <3>4. call[c].size > 0 => content = LocalFile(c) \/ ~content.exists
      BY <1>8, <3>2, <3>3
    <3>5. /\ LocalFile(c).exists => Len(LocalFile(c).of) = call[c].size
          /\ call[c].at = "waits" => LocalFile(c).exists
      BY <3>1 DEF PutAgrees
    <3> QED
      BY <1>2, <1>3, <1>5, <1>8, <2>6, <3>2, <3>4, <3>5 DEF PutAgrees
  <2>9. Agrees(c)'
    BY <1>2, <2>4, <2>8 DEF Agrees
  <2>10. EmptyIsWritten'
    <3> DEFINE P == {call[c].path}
    <3>1. \A p \in P : remoteFile'[p] = Content(<<>>) => WrittenEmpty(p)'
      BY <1>2, <1>8, <2>4 DEF WrittenEmpty
    <3>2. \A p \in Paths : p \notin P => remoteFile'[p] = remoteFile[p]
      BY <2>4
    <3>3. \A b \in Callers : call[b].op = "PUT" /\ InHand(b) => call[b].path \in P
      BY <1>5
    <3> HIDE DEF P
    <3> QED
      BY <1>1, <1>2, <1>8, <3>1, <3>2, <3>3, EmptyKept
  <2> QED
    BY <1>2, <1>5, <1>8, <2>3, <2>5, <2>6, <2>7, <2>9, <2>10, CidStep
<1>9. CASE /\ Len(got) = transfer.size
           /\ WritesRemote(c, Content(got)) /\ Reply(c, "SUCCESS", 0) /\ transfer' = NoTransfer /\ UNCHANGED toCid
  <2>1. Content(got) \in FileSet
    BY <1>4 DEF Content, FileSet
  <2>2. Content(got) = Content(<<>>) => call[c].size = 0
    <3>1. Content(got) = Content(<<>>) => got = <<>>
      BY DEF Content
    <3> QED
      BY <1>3, <1>4, <1>9, <3>1
  <2>3. Len(got) = call[c].size
    BY <1>3, <1>9
  <2> QED
    BY <1>8, <1>9, <2>1, <2>2, <2>3
<1>10. CASE /\ Len(got) < transfer.size /\ toCid[c] = <<>> /\ Gone(c)
            /\ WritesRemote(c, Unreceived(got)) /\ Reply(c, "FAILURE", 0) /\ transfer' = NoTransfer /\ UNCHANGED toCid
  <2>1. Unreceived(got) \in FileSet /\ ~Unreceived(got).exists /\ Unreceived(got) # Content(<<>>)
    <3>1. <<>> \in Seq(Nat)
      OBVIOUS
    <3> QED
      BY <3>1 DEF Unreceived, Missing, Content, FileSet
  <2> QED
    BY <1>8, <1>10, <2>1
<1> QED
  BY <1>7, <1>9, <1>10 DEF receiveFile, got

\* The CID sends a segment, or has sent all.
LEMMA SendKept ==
  ASSUME TransferInv, NEW c \in Callers, sendFile(c), UNCHANGED <<localFile, call, changes>>
  PROVE  TransferInv'
<1> DEFINE sent == Len(transfer.got)
           source == CidFile(c)
<1>1. TransferTypes /\ Shape(c) /\ Agrees(c) /\ EmptyIsWritten
  BY DEF TransferInv
<1>2. call[c].op = "GET" /\ InHand(c) /\ alive /\ UNCHANGED <<remoteFile, touched, calls, toCid>>
  BY DEF sendFile, InHand
<1>3. /\ ~InLine(c) /\ call[c].at # "before" /\ call[c].path \in Paths /\ call[c].at # "sends" /\ sent <= transfer.size
      /\ call[c].at = "waits" => Succeeded(c)
  BY <1>1, <1>2 DEF Shape, InLineShape, InHandShape, StreamShape
<1>4. /\ transfer.got \in Seq(Nat) /\ sent \in Nat /\ transfer.size \in Nat
      /\ transfer = [call |-> c, size |-> transfer.size, got |-> transfer.got]
      /\ toCaller[c] \in Seq(AnswerSet \cup SegmentSet) /\ Len(toCaller[c]) \in Nat /\ DOMAIN toCaller[c] = 1 .. Len(toCaller[c])
      /\ source \in FileSet /\ Len(source.of) \in Nat
  BY <1>1, <1>2, <1>3 DEF TransferTypes, InHand, CidFile, FileSet
<1>5. /\ InLine(c)' = InLine(c) /\ LocalFile(c)' = LocalFile(c) /\ CidFile(c)' = CidFile(c)
      /\ \A b \in Callers \ {c} : InLine(b)' = InLine(b) /\ ~InHand(b)
  BY <1>2 DEF InLine, InHand, LocalFile, CidFile
<1>6. c \notin touched => GetAgrees(c)
  BY <1>1, <1>2 DEF Agrees
<1> HIDE DEF sent, source
<1>7. CASE transfer' = NoTransfer /\ UNCHANGED <<toCaller, alive>>
  <2>1. TransferTypes'
    <3>1. transfer' \in [call : Callers \cup {NoCaller}, size : Nat, got : Seq(Nat)]
      <4>1. <<>> \in Seq(Nat)
        OBVIOUS
      <4> QED
        BY <1>7, <4>1 DEF NoTransfer
    <3> QED
      BY <1>1, <1>2, <1>7, <3>1 DEF TransferTypes
  <2>2. \A b \in Callers : ~InHand(b)'
    BY <1>7, LoginFilesAssumption DEF InHand, NoTransfer
  <2>3. Succeeded(c)' = Succeeded(c)
    BY <1>7 DEF Succeeded
  <2>4. Shape(c)'
    BY <1>1, <1>2, <1>3, <1>5, <1>7, <2>2 DEF Shape, InLineShape, InHandShape, StreamShape
  <2>5. c \notin touched => GetAgrees(c)'
    BY <1>5, <1>6, <1>7, <2>2, <2>3 DEF GetAgrees, GetInHand, GetAnswered, GetReceives
  <2>6. Agrees(c)' /\ EmptyIsWritten'
    BY <1>1, <1>2, <1>5, <1>7, <2>5, EmptyUntouched DEF Agrees
  <2> QED
    BY <1>2, <1>5, <1>7, <2>1, <2>2, <2>4, <2>6, CidStep
<1>8. CASE /\ sent # transfer.size /\ ~(Len(source.of) <= sent)
           /\ transfer' = [transfer EXCEPT !.got = Append(@, source.of[sent + 1])]
           /\ toCaller' = [toCaller EXCEPT ![c] = Append(@, [segment |-> source.of[sent + 1]])]
           /\ alive' \in BOOLEAN
  <2>0. \A got : [transfer EXCEPT !.got = got] = [call |-> c, size |-> transfer.size, got |-> got]
    <3>1. transfer \in [call : Callers \cup {NoCaller}, size : Nat, got : Seq(Nat)] /\ transfer.call = c
      BY <1>1, <1>2 DEF TransferTypes, InHand
    <3> QED
      BY <3>1
  <2> DEFINE x       == source.of[sent + 1]
             more    == Append(transfer.got, x)
             segment == [segment |-> x]
             left    == Append(toCaller[c], segment)
  <2>1. /\ x = source.of[sent + 1] /\ more = Append(transfer.got, x)
        /\ segment = [segment |-> x] /\ left = Append(toCaller[c], segment)
        /\ transfer' = [call |-> c, size |-> transfer.size, got |-> more] /\ toCaller' = [toCaller EXCEPT ![c] = left]
    BY <1>8, <2>0
  <2> HIDE DEF x, more, segment, left
  <2>2. x \in Nat /\ segment \in SegmentSet /\ segment.segment = x
    BY <1>4, <1>8, <2>1 DEF FileSet, SegmentSet
  <2>3. /\ more \in Seq(Nat) /\ Len(more) = sent + 1 /\ sent + 1 <= transfer.size
    BY <1>3, <1>4, <1>8, <2>1, <2>2 DEF sent
  <2>4. /\ left \in Seq(AnswerSet \cup SegmentSet) /\ Len(left) = Len(toCaller[c]) + 1 /\ DOMAIN left = 1 .. Len(toCaller[c]) + 1
        /\ left[Len(toCaller[c]) + 1] = segment /\ \A k \in DOMAIN toCaller[c] : left[k] = toCaller[c][k]
    BY <1>4, <2>1, <2>2
  <2>5. /\ toCaller'[c] = left /\ (\A b \in Callers \ {c} : toCaller'[b] = toCaller[b])
        /\ transfer'.got = more /\ transfer'.size = transfer.size
    BY <1>1, <2>1 DEF TransferTypes
  <2>6. TransferTypes'
    <3>1. transfer' \in [call : Callers \cup {NoCaller}, size : Nat, got : Seq(Nat)]
      BY <1>4, <2>1, <2>3
    <3> QED
      BY <1>1, <1>2, <1>8, <2>1, <2>4, <3>1 DEF TransferTypes
  <2>7. InHand(c)' /\ (\A b \in Callers \ {c} : ~InHand(b)') /\ (alive' => alive)
    BY <1>2, <2>1 DEF InHand
  <2>8. toCaller[c] # <<>> => Succeeded(c)' = Succeeded(c) /\ left[1] = toCaller[c][1] /\ 1 \in DOMAIN toCaller[c] /\ Len(toCaller[c]) > 0
    <3>1. toCaller[c] # <<>> => 1 \in DOMAIN toCaller[c] /\ left # <<>> /\ Len(toCaller[c]) > 0
      BY <1>4, <2>4
    <3> QED
      BY <2>4, <2>5, <3>1 DEF Succeeded
  <2>9. call[c].at = "waits" => toCaller[c] # <<>> /\ Succeeded(c)
    BY <1>3 DEF Succeeded
  <2>10. \A k \in DOMAIN left : k \in DOMAIN toCaller[c] \/ k = Len(toCaller[c]) + 1
    BY <1>4, <2>4
  <2>11. Shape(c)'
    <3>1. InLineShape(c)' /\ InHandShape(c)'
      BY <1>2, <1>3, <1>5, <2>3, <2>5, <2>8, <2>9 DEF InLineShape, InHandShape
    <3>2. ASSUME call[c].at = "waits", NEW k \in DOMAIN left
          PROVE  IF k = 1 THEN left[k] \in AnswerSet ELSE left[k] \in SegmentSet
      <4>1. \A j \in DOMAIN toCaller[c] : IF j = 1 THEN toCaller[c][j] \in AnswerSet ELSE toCaller[c][j] \in SegmentSet
        BY <1>1, <3>2 DEF Shape, StreamShape
      <4>2. CASE k \in DOMAIN toCaller[c]
        BY <2>4, <4>1, <4>2
      <4>3. CASE k = Len(toCaller[c]) + 1
        <5>1. k # 1
          BY <1>4, <2>8, <2>9, <3>2, <4>3
        <5> QED
          BY <2>2, <2>4, <4>3, <5>1
      <4> QED
        BY <2>10, <4>2, <4>3
    <3>3. ASSUME call[c].at = "receives", NEW k \in DOMAIN left PROVE left[k] \in SegmentSet
      <4>1. \A j \in DOMAIN toCaller[c] : toCaller[c][j] \in SegmentSet
        BY <1>1, <3>3 DEF Shape, StreamShape
      <4> QED
        BY <2>2, <2>4, <2>10, <4>1
    <3>4. StreamShape(c)'
      BY <1>2, <1>3, <2>5, <3>2, <3>3 DEF StreamShape
    <3> QED
      BY <1>1, <1>2, <1>3, <3>1, <3>4 DEF Shape
  <2>12. ASSUME c \notin touched PROVE GetAgrees(c)'
    <3>1. GetInHand(c) /\ GetAnswered(c) /\ GetReceives(c) /\ source.exists /\ Len(source.of) = transfer.size
      BY <1>2, <1>6, <2>12 DEF GetAgrees, GetInHand, source
    <3>2. GetInHand(c)'
      BY <1>5, <2>5, <3>1 DEF GetInHand, source
    <3>3. ASSUME call[c].at = "waits" PROVE GetAnswered(c)'
      <4>1. /\ toCaller[c][1].size = Len(source.of)
            /\ \A k \in DOMAIN toCaller[c] : k > 1 => toCaller[c][k].segment = source.of[k - 1]
            /\ Len(toCaller[c]) = sent + 1
        BY <1>2, <2>9, <3>1, <3>3 DEF GetAnswered, source, sent
      <4>2. Len(left) = Len(more) + 1 /\ Len(left) - 1 <= Len(source.of)
        BY <1>4, <2>3, <2>4, <3>1, <4>1
      <4>3. ASSUME NEW k \in DOMAIN left, k > 1 PROVE left[k].segment = source.of[k - 1]
        <5>1. CASE k \in DOMAIN toCaller[c]
          BY <2>4, <4>1, <4>3, <5>1
        <5>2. CASE k = Len(toCaller[c]) + 1
          <6>1. k - 1 = sent + 1
            BY <1>4, <4>1, <5>2
          <6> QED
            BY <2>1, <2>2, <2>4, <5>2, <6>1
        <5> QED
          BY <2>10, <5>1, <5>2
      <4> QED
        BY <1>5, <2>5, <2>8, <2>9, <3>1, <3>3, <4>1, <4>2, <4>3 DEF GetAnswered, source
    <3>4. ASSUME call[c].at = "receives" PROVE GetReceives(c)'
      <4> DEFINE had == Len(call[c].got)
      <4>1. /\ call[c].size = Len(source.of) /\ had + Len(toCaller[c]) = sent
            /\ \A k \in DOMAIN call[c].got : call[c].got[k] = source.of[k]
            /\ \A k \in DOMAIN toCaller[c] : toCaller[c][k].segment = source.of[had + k]
        BY <1>2, <3>1, <3>4 DEF GetReceives, source, sent
      <4>2. had \in Nat
        BY <1>1 DEF TransferTypes, CallSet
      <4> HIDE DEF had
      <4>3. had + (Len(toCaller[c]) + 1) = sent + 1
        BY <1>4, <4>1, <4>2
      <4>4. had + Len(left) = Len(more) /\ had + Len(left) <= call[c].size
        BY <2>3, <2>4, <3>1, <4>1, <4>3
      <4>5. ASSUME NEW k \in DOMAIN left PROVE left[k].segment = source.of[had + k]
        <5>1. CASE k \in DOMAIN toCaller[c]
          BY <2>4, <4>1, <5>1
        <5>2. CASE k = Len(toCaller[c]) + 1
          BY <2>1, <2>2, <2>4, <4>3, <5>2
        <5> QED
          BY <2>10, <5>1, <5>2
      <4> QED
        BY <1>5, <2>5, <3>1, <4>1, <4>4, <4>5 DEF GetReceives, source, had
    <3> QED
      BY <1>5, <1>6, <2>12, <3>2, <3>3, <3>4 DEF GetAgrees, GetAnswered, GetReceives
  <2>13. Agrees(c)'
    BY <1>2, <2>12 DEF Agrees
  <2>14. EmptyIsWritten'
    BY <1>1, <1>2, <1>5, <2>7, EmptyUntouched
  <2> QED
    BY <1>2, <1>5, <2>5, <2>6, <2>7, <2>11, <2>13, <2>14, CidStep
<1> QED
  BY <1>7, <1>8 DEF sendFile, sent, source, CidFile

\* So it is with all that the CID does for its callers.
LEMMA ServesKept == ASSUME TransferInv, CidServes PROVE TransferInv'
<1>1. PICK c \in Callers : \/ (OpFilePut(c) \/ OpFileGet(c) \/ OpRemove(c)) /\ UNCHANGED toCid
                           \/ receiveFile(c) \/ sendFile(c)
  BY DEF CidServes
<1>2. UNCHANGED <<localFile, call, changes>>
  BY DEF CidServes
<1> QED
  BY <1>1, <1>2, FilePutKept, FileGetKept, RemoveKept, ReceiveKept, SendKept

\* What others write touches whoever has begun.
LEMMA ChangesKept == ASSUME TransferInv, Changes PROVE TransferInv'
<1>1. /\ TransferTypes /\ (\A b \in Callers : Shape(b) /\ Agrees(b)) /\ EmptyIsWritten
      /\ UNCHANGED <<call, toCid, toCaller, calls, transfer, alive>> /\ changes' = changes + 1
  BY DEF TransferInv, Changes
<1>2. changes' \in Nat
  BY <1>1 DEF TransferTypes
<1>3. PICK content \in FileSet :
        /\ content # Content(<<>>)
        /\ \/ \E f \in Locals :
                /\ localFile' = [localFile EXCEPT ![f] = content]
                /\ touched' = touched \cup {c \in Begun : LocalOf[c] = f} /\ UNCHANGED remoteFile
           \/ \E p \in Paths :
                /\ remoteFile' = [remoteFile EXCEPT ![p] = content]
                /\ touched' = touched \cup {c \in Begun : call[c].path = p} /\ UNCHANGED localFile
  <2>1. PICK n \in 1 .. MaxSegments :
          LET content == Content([k \in 1 .. n |-> changes']) IN
          \/ \E f \in Locals :
               /\ localFile[f].exists /\ localFile' = [localFile EXCEPT ![f] = content]
               /\ touched' = touched \cup {c \in Begun : LocalOf[c] = f} /\ UNCHANGED remoteFile
          \/ \E p \in Paths :
               /\ remoteFile[p].exists /\ remoteFile' = [remoteFile EXCEPT ![p] = content]
               /\ touched' = touched \cup {c \in Begun : call[c].path = p} /\ UNCHANGED localFile
    BY DEF Changes
  <2> DEFINE of == [k \in 1 .. n |-> changes']
  <2>2. of \in Seq(Nat) /\ of # <<>>
    <3>1. n \in Nat /\ 1 \in 1 .. n /\ of \in [1 .. n -> Nat]
      BY <1>2, LoginFilesAssumption
    <3>2. of \in Seq(Nat) /\ DOMAIN of = 1 .. n
      BY <3>1
    <3> HIDE DEF of
    <3> QED
      BY <3>1, <3>2
  <2> HIDE DEF of
  <2>3. Content(of) \in FileSet /\ Content(of) # Content(<<>>)
    BY <2>2 DEF Content, FileSet
  <2> QED
    BY <2>1, <2>3 DEF of
<1>4. TransferTypes' /\ touched \subseteq touched'
  <2>1. localFile' \in [Locals -> FileSet] /\ remoteFile' \in [Paths -> FileSet]
    BY <1>1, <1>3 DEF TransferTypes
  <2>2. touched' \subseteq Callers /\ touched \subseteq touched'
    BY <1>1, <1>3 DEF TransferTypes, Begun
  <2> QED
    BY <1>1, <1>2, <2>1, <2>2 DEF TransferTypes
<1>5. ASSUME NEW b \in Callers PROVE Shape(b)' /\ Agrees(b)'
  <2>1. InLine(b)' = InLine(b) /\ InHand(b)' = InHand(b)
    BY <1>1 DEF InLine, InHand
  <2>2. ASSUME b \notin touched', call[b].at # "before" PROVE LocalFile(b)' = LocalFile(b) /\ CidFile(b)' = CidFile(b)
    <3>1. b \in Begun /\ call[b].path \in Paths /\ LocalOf[b] \in Locals
      BY <1>1, <2>2, LoginFilesAssumption DEF Begun, Shape
    <3> QED
      BY <1>1, <1>3, <2>2, <3>1 DEF LocalFile, CidFile, TransferTypes
  <2> QED
    BY <1>1, <1>4, <2>1, <2>2, Undisturbed
<1>6. EmptyIsWritten'
  <2> DEFINE P == {p \in Paths : remoteFile'[p] = content}
  <2>1. \A p \in P : remoteFile'[p] # Content(<<>>)
    BY <1>3
  <2>2. \A p \in Paths : p \notin P => remoteFile'[p] = remoteFile[p]
    BY <1>1, <1>3 DEF TransferTypes
  <2>3. \A b \in Callers : InHand(b) => InHand(b)'
    BY <1>1 DEF InHand
  <2> HIDE DEF P
  <2> QED
    BY <1>1, <2>1, <2>2, <2>3, EmptyKept
<1> QED
  BY <1>4, <1>5, <1>6 DEF TransferInv

\* What a CID that dies was receiving is no longer looked for.
LEMMA CidDiesKept == ASSUME TransferInv, CidDies PROVE TransferInv'
<1>1. /\ TransferTypes /\ (\A b \in Callers : Shape(b) /\ Agrees(b)) /\ EmptyIsWritten
      /\ alive' = FALSE /\ transfer' = NoTransfer /\ UNCHANGED <<localFile, call, toCid, toCaller, calls, changes>>
  BY DEF TransferInv, CidDies
<1>2. transfer' \in [call : Callers \cup {NoCaller}, size : Nat, got : Seq(Nat)]
  <2>1. <<>> \in Seq(Nat)
    OBVIOUS
  <2> QED
    BY <1>1, <2>1 DEF NoTransfer
<1>3. (\A b \in Callers : ~InHand(b)' /\ InLine(b)' = InLine(b) /\ LocalFile(b)' = LocalFile(b)) /\ EmptyIsWritten'
  BY <1>1, LoginFilesAssumption DEF InHand, InLine, NoTransfer, EmptyIsWritten, LocalFile
<1>4. CASE transfer.call = NoCaller
  <2>1. UNCHANGED <<remoteFile, touched>> /\ \A b \in Callers : ~InHand(b)
    BY <1>4, LoginFilesAssumption DEF CidDies, InHand
  <2>2. TransferTypes'
    BY <1>1, <1>2, <2>1 DEF TransferTypes
  <2>3. ASSUME NEW b \in Callers PROVE Shape(b)' /\ Agrees(b)'
    <3>1. CidFile(b)' = CidFile(b) /\ InHand(b)' = InHand(b)
      BY <1>1, <1>3, <2>1 DEF CidFile, InHand
    <3> QED
      BY <1>1, <1>3, <2>1, <3>1, Undisturbed
  <2> QED
    BY <1>3, <2>2, <2>3 DEF TransferInv
<1>5. ASSUME NEW c \in Callers, InHand(c) PROVE TransferInv'
  <2>1. /\ ~InLine(c) /\ call[c].at # "before" /\ call[c].path \in Paths
        /\ \/ call[c].op = "PUT" /\ toCaller[c] = <<>> /\ call[c].result # "yes"
           \/ call[c].op = "GET"
    BY <1>1, <1>5 DEF Shape, InLineShape, InHandShape
  <2>2. IF call[c].op = "PUT" THEN \E content \in FileSet : WritesRemote(c, content) ELSE UNCHANGED <<remoteFile, touched>>
    <3>1. CASE call[c].op = "PUT"
      <4>1. PICK content \in SavedOf(transfer.got) : WritesRemote(c, content)
        BY <1>5, <3>1, LoginFilesAssumption DEF CidDies, InHand
      <4>2. transfer.got \in Seq(Nat)
        BY <1>1 DEF TransferTypes
      <4> QED
        BY <3>1, <4>1, <4>2, SavedIsFile
    <3>2. CASE call[c].op # "PUT"
      BY <1>5, <3>2 DEF CidDies, InHand
    <3> QED
      BY <3>1, <3>2
  <2>3. TransferTypes' /\ touched \subseteq touched'
    <3>1. /\ remoteFile' \in [Paths -> FileSet] /\ touched' \subseteq Callers /\ touched \subseteq touched'
      <4>1. CASE UNCHANGED <<remoteFile, touched>>
        BY <1>1, <4>1 DEF TransferTypes
      <4>2. ASSUME NEW content \in FileSet, WritesRemote(c, content)
            PROVE  remoteFile' \in [Paths -> FileSet] /\ touched' \subseteq Callers /\ touched \subseteq touched'
        BY <1>1, <2>1, <4>2, WritesTyped
      <4> QED
        BY <2>2, <4>1, <4>2
    <3> QED
      BY <1>1, <1>2, <3>1 DEF TransferTypes
  <2>4. Succeeded(c)' = Succeeded(c) /\ (\A b \in Callers \ {c} : ~InHand(b))
    BY <1>1, <1>5 DEF Succeeded, InHand
  <2>5. Shape(c)'
    BY <1>1, <1>3, <2>1 DEF Shape, InLineShape, InHandShape, StreamShape
  <2>6. ASSUME call[c].op = "PUT", c \notin touched PROVE PutAgrees(c)'
    <3>1. PutAgrees(c) /\ ~Succeeded(c)
      BY <1>1, <2>1, <2>6 DEF Agrees, Succeeded
    <3> QED
      BY <1>1, <1>3, <2>1, <2>4, <2>6, <3>1 DEF PutAgrees
  <2>7. ASSUME call[c].op = "GET", c \notin touched PROVE GetAgrees(c)'
    <3>1. GetAgrees(c) /\ CidFile(c)' = CidFile(c)
      BY <1>1, <2>2, <2>7 DEF Agrees, CidFile
    <3> QED
      BY <1>1, <1>3, <2>4, <3>1 DEF GetAgrees, GetInHand, GetAnswered, GetReceives
  <2>8. Agrees(c)'
    BY <1>1, <2>1, <2>3, <2>6, <2>7 DEF Agrees
  <2> QED
    BY <1>1, <1>3, <2>2, <2>3, <2>4, <2>5, <2>8, CidStep
<1>6. transfer.call = NoCaller \/ \E c \in Callers : InHand(c)
  BY <1>1 DEF TransferTypes, InHand
<1> QED
  BY <1>4, <1>5, <1>6


\* A step of a transfer keeps the invariant.
LEMMA TransferStep == ASSUME TransferInv, TransferNext PROVE TransferInv'
<1>1. CidServes \/ Changes \/ CidDies \/ \E c \in Callers :
         \/ \E p \in Paths : file_put(c, p) \/ file_get(c, p) \/ file_remove(c, p)
         \/ SendsSegment(c) \/ GetsAnswer(c) \/ ReceivesSegment(c) \/ CallerDies(c)
  BY DEF TransferNext
<1>2. ASSUME NEW c \in Callers, NEW p \in Paths, file_put(c, p) \/ file_get(c, p) \/ file_remove(c, p) PROVE TransferInv'
  BY <1>2, BeginsKept
<1> QED
  BY <1>1, <1>2, ServesKept, ChangesKept, CidDiesKept, SendsKept, GetsKept, ReceivesKept, DiesKept

\* At first no call is under way.
LEMMA TransferStart == FilesInit => TransferInv
<1> SUFFICES ASSUME FilesInit PROVE TransferInv
  OBVIOUS
<1>1. <<>> \in Seq(Nat) /\ <<>> \in Seq(Callers) /\ <<>> \in Seq(AnswerSet \cup SegmentSet) /\ <<0, 0>> \in Seq(Nat)
      /\ Len(<<>>) = 0 /\ DOMAIN <<>> = {}
  OBVIOUS
<1>2. TransferTypes
  <2>1. Missing \in FileSet /\ Content(<<0, 0>>) \in FileSet
    BY <1>1 DEF Missing, Content, FileSet
  <2>2. localFile \in [Locals -> FileSet] /\ remoteFile \in [Paths -> FileSet]
    BY <2>1 DEF FilesInit
  <2>3. call \in [Callers -> CallSet]
    BY <1>1 DEF FilesInit, CallSet
  <2>4. IsInjective(calls)
    BY <1>1 DEF FilesInit, IsInjective
  <2> QED
    BY <1>1, <2>2, <2>3, <2>4 DEF FilesInit, TransferTypes, NoTransfer
<1>3. ASSUME NEW b \in Callers PROVE Shape(b) /\ Agrees(b)
  <2>1. /\ call[b].at = "before" /\ call[b].op = "NONE" /\ call[b].got = <<>> /\ call[b].result = "none"
        /\ toCid[b] = <<>> /\ toCaller[b] = <<>>
    BY DEF FilesInit
  <2>2. ~InLine(b) /\ ~InHand(b)
    BY <1>1, LoginFilesAssumption DEF FilesInit, InLine, InHand, NoTransfer, ToSet
  <2> QED
    BY <2>1, <2>2 DEF Shape, InLineShape, InHandShape, StreamShape, Agrees
<1>4. EmptyIsWritten
  BY DEF FilesInit, EmptyIsWritten, Missing, Content
<1> QED
  BY <1>2, <1>3, <1>4 DEF TransferInv

\* While what transfers change stays, so does the invariant.
LEMMA TransferStutter == ASSUME TransferInv, UNCHANGED transferVars PROVE TransferInv'
<1>1. UNCHANGED <<localFile, remoteFile, call, toCid, toCaller, calls, transfer, alive, touched, changes>>
  BY DEF transferVars
<1>2. TransferTypes' /\ EmptyIsWritten'
  BY <1>1 DEF TransferInv, TransferTypes, EmptyIsWritten, WrittenEmpty, InHand
<1>3. ASSUME NEW b \in Callers PROVE Shape(b)' /\ Agrees(b)'
  <2>1. InLine(b)' = InLine(b) /\ InHand(b)' = InHand(b) /\ LocalFile(b)' = LocalFile(b) /\ CidFile(b)' = CidFile(b)
    BY <1>1 DEF InLine, InHand, LocalFile, CidFile
  <2>2. Shape(b) /\ Agrees(b) /\ TransferTypes
    BY DEF TransferInv
  <2> QED
    BY <1>1, <2>1, <2>2, Undisturbed
<1> QED
  BY <1>2, <1>3 DEF TransferInv

-----------------------------------------------------------------------------
(* The users.                                                              *)

\* At first no login is being added or deleted.
LEMMA UserStart == FilesInit => UserInv
<1> SUFFICES ASSUME FilesInit PROVE UserInv
  OBVIOUS
<1>1. <<>> \in Seq(Logins) /\ IsInjective(<<>>) /\ ToSet(<<>>) = {}
  BY DEF IsInjective, ToSet
<1>2. UserTypes
  BY <1>1 DEF FilesInit, UserTypes
<1>3. UsersAreListed
  BY <1>1 DEF FilesInit, UsersAreListed
<1> QED
  BY <1>2, <1>3 DEF UserInv

\* The transfers leave the file of logins alone.
LEMMA UserStutter == ASSUME UserInv, UNCHANGED userVars PROVE UserInv'
<1>1. UNCHANGED <<userFile, draft, clerk, enrolled, raced>>
  BY DEF userVars
<1> QED
  BY <1>1 DEF UserInv, UserTypes, UsersAreListed

\* A line more, that was not there.
LEMMA LineAdded ==
  ASSUME NEW lines \in Seq(Logins), IsInjective(lines), NEW l \in Logins, l \notin ToSet(lines)
  PROVE  /\ Append(lines, l) \in Seq(Logins) /\ IsInjective(Append(lines, l))
         /\ ToSet(Append(lines, l)) = ToSet(lines) \cup {l}
<1> DEFINE more == Append(lines, l)
<1>1. /\ more \in Seq(Logins) /\ DOMAIN more = DOMAIN lines \cup {Len(lines) + 1} /\ more[Len(lines) + 1] = l
      /\ \A k \in DOMAIN lines : more[k] = lines[k]
  OBVIOUS
<1>2. \A k \in DOMAIN lines : lines[k] # l
  BY DEF ToSet
<1> HIDE DEF more
<1>3. IsInjective(more)
  BY <1>1, <1>2 DEF IsInjective
<1>4. ToSet(more) = ToSet(lines) \cup {l}
  BY <1>1 DEF ToSet
<1> QED
  BY <1>1, <1>3, <1>4 DEF more

\* A line less: the only one of l.
LEMMA LineRemoved ==
  ASSUME NEW lines \in Seq(Logins), IsInjective(lines), NEW l
  PROVE  /\ RemoveFirst(lines, l) \in Seq(Logins) /\ IsInjective(RemoveFirst(lines, l))
         /\ ToSet(RemoveFirst(lines, l)) = ToSet(lines) \ {l}
<1>1. DOMAIN lines = 1 .. Len(lines) /\ Len(lines) \in Nat
  OBVIOUS
<1>2. CASE \A i \in 1 .. Len(lines) : lines[i] # l
  <2>1. RemoveFirst(lines, l) = lines
    BY <1>2 DEF RemoveFirst
  <2>2. ToSet(lines) = ToSet(lines) \ {l}
    BY <1>1, <1>2 DEF ToSet
  <2> QED
    BY <2>1, <2>2
<1>3. ASSUME NEW i \in 1 .. Len(lines), lines[i] = l
      PROVE  /\ RemoveFirst(lines, l) \in Seq(Logins) /\ IsInjective(RemoveFirst(lines, l))
             /\ ToSet(RemoveFirst(lines, l)) = ToSet(lines) \ {l}
  <2> DEFINE less == RemoveAt(lines, i)
             Was(j) == IF j < i THEN j ELSE j + 1
  <2>1. {k \in 1 .. Len(lines) : lines[k] = l} = {i}
    BY <1>1, <1>3 DEF IsInjective
  <2>2. Min({i}) = i
    BY DEF Min
  <2>3. RemoveFirst(lines, l) = less
    BY <1>3, <2>1, <2>2 DEF RemoveFirst, SelectInSeq
  <2>4. less \in Seq(Logins) /\ DOMAIN less = 1 .. Len(lines) - 1 /\ \A j \in 1 .. Len(lines) - 1 : less[j] = lines[Was(j)]
    <3>1. i \in DOMAIN lines
      BY <1>1
    <3> QED
      BY <3>1, RemovedLines
  <2>5. \A j \in DOMAIN less : Was(j) \in DOMAIN lines /\ Was(j) # i
    BY <1>1, <2>4
  <2>6. \A j, k \in DOMAIN less : Was(j) = Was(k) => j = k
    BY <1>1, <2>4
  <2>7. ASSUME NEW k \in DOMAIN lines, k # i PROVE \E j \in DOMAIN less : Was(j) = k
    <3>1. CASE k < i
      BY <1>1, <2>4, <3>1
    <3>2. CASE ~(k < i)
      <4>1. k - 1 \in DOMAIN less /\ Was(k - 1) = k
        BY <1>1, <2>4, <2>7, <3>2
      <4> QED
        BY <4>1
    <3> QED
      BY <3>1, <3>2
  <2>8. \A k \in DOMAIN lines : lines[k] = l => k = i
    BY <1>1, <1>3 DEF IsInjective
  <2> HIDE DEF less, Was
  <2>9. IsInjective(less)
    BY <2>4, <2>5, <2>6 DEF IsInjective
  <2>10. ToSet(less) = ToSet(lines) \ {l}
    <3>1. \A j \in DOMAIN less : less[j] \in ToSet(lines) \ {l}
      BY <2>4, <2>5, <2>8 DEF ToSet
    <3>2. ASSUME NEW x \in ToSet(lines) \ {l} PROVE x \in ToSet(less)
      <4>1. PICK k \in DOMAIN lines : lines[k] = x
        BY DEF ToSet
      <4>2. k # i
        BY <1>3, <4>1
      <4>3. PICK j \in DOMAIN less : Was(j) = k
        BY <2>7, <4>2
      <4> QED
        BY <2>4, <4>1, <4>3 DEF ToSet
    <3>3. ToSet(less) \subseteq ToSet(lines) \ {l}
      BY <3>1 DEF ToSet
    <3> QED
      BY <3>2, <3>3
  <2> QED
    BY <2>3, <2>4, <2>9, <2>10
<1> QED
  BY <1>2, <1>3

\* A step of a CID for an administrator keeps the invariant.
LEMMA UserStep == ASSUME UserInv, UserNext PROVE UserInv'
<1>1. UserTypes /\ UsersAreListed
  BY DEF UserInv, UserNext
<1> DEFINE Clerks == [at : {"idle", "adds", "copies", "renames"}, login : Logins \cup {NoLogin}]
<1>2. ASSUME NEW s \in Servers, NEW at, NEW l, Clerk(s, at, l)
      PROVE  clerk'[s].at = at /\ clerk'[s].login = l /\ \A r \in Servers \ {s} : clerk'[r] = clerk[r]
  BY <1>1, <1>2 DEF Clerk, UserTypes
<1>3. ASSUME NEW s \in Servers, NEW at \in {"idle", "adds", "copies", "renames"}, NEW l \in Logins \cup {NoLogin}, Clerk(s, at, l),
             at = "idle" \/ l \in Logins, userFile' \in Seq(Logins), draft' \in Seq(Logins)
      PROVE  UserTypes'
  <2>1. clerk' \in [Servers -> Clerks]
    BY <1>1, <1>3 DEF Clerk, UserTypes
  <2>2. \A r \in Servers : clerk'[r].at # "idle" => clerk'[r].login \in Logins
    BY <1>1, <1>2, <1>3 DEF UserTypes
  <2> QED
    BY <1>3, <2>1, <2>2 DEF UserTypes
<1>4. ASSUME NEW s \in Servers, NEW l \in Logins, OpAddUser(s, l) PROVE UserInv'
  <2>1. Clerk(s, "adds", l) /\ UNCHANGED <<userFile, draft, enrolled>> /\ l \notin enrolled
    BY <1>1, <1>4 DEF OpAddUser, validSynergyuser, UsersAreListed
  <2>2. UserTypes'
    BY <1>1, <1>3, <2>1 DEF UserTypes
  <2>3. ASSUME ~raced' PROVE UsersAreListed'
    <3>1. \A r \in Servers : clerk[r].at \notin {"copies", "renames"} /\ clerk[r].login # l
      BY <1>4, <2>3 DEF OpAddUser
    <3> QED
      BY <1>1, <1>2, <2>1, <3>1 DEF UsersAreListed
  <2> QED
    BY <2>2, <2>3 DEF UserInv
<1>5. ASSUME NEW s \in Servers, NEW l \in Logins, OpDeleteUser(s, l) PROVE UserInv'
  <2>1. Clerk(s, "copies", l) /\ UNCHANGED <<userFile, draft, enrolled>>
    BY <1>5 DEF OpDeleteUser
  <2>2. UserTypes'
    BY <1>1, <1>3, <2>1 DEF UserTypes
  <2>3. ASSUME ~raced' PROVE UsersAreListed'
    <3>1. \A r \in Servers : clerk[r].at = "idle"
      BY <1>5, <2>3 DEF OpDeleteUser
    <3> QED
      BY <1>1, <1>2, <2>1, <3>1 DEF UsersAreListed
  <2> QED
    BY <2>2, <2>3 DEF UserInv
<1>6. ASSUME NEW s \in Servers, addUser(s) PROVE UserInv'
  <2> DEFINE l == clerk[s].login
  <2>1. /\ clerk[s].at = "adds" /\ Clerk(s, "idle", NoLogin) /\ UNCHANGED <<draft, raced>>
        /\ userFile' = Append(userFile, l) /\ enrolled' = enrolled \cup {l} /\ l \in Logins /\ l \notin enrolled
    BY <1>1, <1>6 DEF addUser, UserTypes, UsersAreListed
  <2> HIDE DEF l
  <2>2. userFile' \in Seq(Logins) /\ IsInjective(userFile') /\ ToSet(userFile') = enrolled'
    BY <1>1, <2>1, LineAdded DEF UserTypes, UsersAreListed
  <2>3. UserTypes'
    BY <1>1, <1>3, <2>1, <2>2 DEF UserTypes
  <2>4. UsersAreListed'
    <3>1. \A r \in Servers \ {s} : clerk[r].at = "adds" => clerk[r].login # l
      BY <1>1, <2>1 DEF UsersAreListed, l
    <3>2. \A r \in Servers : clerk[r].at \notin {"copies", "renames"}
      BY <1>1, <2>1 DEF UsersAreListed
    <3> QED
      BY <1>1, <1>2, <2>1, <2>2, <3>1, <3>2 DEF UsersAreListed
  <2> QED
    BY <2>3, <2>4 DEF UserInv
<1>7. ASSUME NEW s \in Servers, deleteUser(s) PROVE UserInv'
  <2>1. clerk[s].at \in {"copies", "renames"} /\ clerk[s].login \in Logins
    BY <1>1, <1>7 DEF deleteUser, UserTypes
  <2>2. \A r \in Servers \ {s} : clerk[r].at = "idle"
    BY <1>1, <2>1 DEF UsersAreListed
  <2>3. CASE /\ clerk[s].at = "copies" /\ Clerk(s, "renames", clerk[s].login)
             /\ draft' = RemoveFirst(userFile, clerk[s].login) /\ UNCHANGED <<userFile, enrolled>>
    <3>1. draft' \in Seq(Logins) /\ IsInjective(draft') /\ ToSet(draft') = enrolled \ {clerk[s].login}
      BY <1>1, <2>3, LineRemoved DEF UserTypes, UsersAreListed
    <3>2. UserTypes'
      BY <1>1, <1>3, <2>1, <2>3, <3>1 DEF UserTypes
    <3>3. UsersAreListed'
      BY <1>1, <1>2, <2>2, <2>3, <3>1 DEF UsersAreListed
    <3> QED
      BY <3>2, <3>3 DEF UserInv
  <2>4. CASE /\ clerk[s].at = "renames" /\ Clerk(s, "idle", NoLogin)
             /\ userFile' = draft /\ draft' = <<>> /\ enrolled' = enrolled \ {clerk[s].login}
    <3>1. IsInjective(userFile') /\ ToSet(userFile') = enrolled'
      BY <1>1, <2>4 DEF UsersAreListed
    <3>2. UserTypes'
      <4>1. <<>> \in Seq(Logins)
        OBVIOUS
      <4> QED
        BY <1>1, <1>3, <2>4, <4>1 DEF UserTypes
    <3>3. UsersAreListed'
      BY <1>2, <2>2, <2>4, <3>1 DEF UsersAreListed
    <3> QED
      BY <3>2, <3>3 DEF UserInv
  <2> QED
    BY <1>7, <2>3, <2>4 DEF deleteUser
<1>8. ASSUME NEW s \in Servers, ServerDies(s) PROVE UserInv'
  <2>1. Clerk(s, "idle", NoLogin) /\ UNCHANGED <<userFile, draft, enrolled, raced>>
    BY <1>8 DEF ServerDies
  <2>2. UserTypes'
    BY <1>1, <1>3, <2>1 DEF UserTypes
  <2>3. UsersAreListed'
    BY <1>1, <1>2, <2>1 DEF UsersAreListed
  <2> QED
    BY <2>2, <2>3 DEF UserInv
<1> QED
  BY <1>4, <1>5, <1>6, <1>7, <1>8 DEF UserNext

-----------------------------------------------------------------------------
(* Nothing else changes the files or the users.                            *)

\* A step of the transfers, or of the commands on logins, keeps both invariants.
LEMMA FilesStep == TransferInv /\ UserInv /\ [HostProgramsNext]_partVars => TransferInv' /\ UserInv'
<1> SUFFICES ASSUME TransferInv, UserInv, [HostProgramsNext]_partVars PROVE TransferInv' /\ UserInv'
  OBVIOUS
<1>1. CASE Transfers
  <2>1. TransferNext /\ UNCHANGED userVars
    BY <1>1 DEF Transfers
  <2> QED
    BY <2>1, TransferStep, UserStutter
<1>2. CASE Users
  <2>1. UserNext /\ UNCHANGED transferVars
    BY <1>2 DEF Users
  <2> QED
    BY <2>1, UserStep, TransferStutter
<1>3. CASE ~Transfers /\ ~Users
  <2>1. UNCHANGED filesVars
    BY <1>3 DEF HostProgramsNext, Mapper, Naming, AppLists, HostFiles, Conf, partVars
  <2>2. UNCHANGED transferVars /\ UNCHANGED userVars
    BY <2>1 DEF filesVars
  <2> QED
    BY <2>2, TransferStutter, UserStutter
<1> QED
  BY <1>1, <1>2, <1>3

\* The two invariants say what is asked of the files.
LEMMA AgreedFilesAreRight == TransferInv /\ UserInv => LoginFilesAreRight
<1> SUFFICES ASSUME TransferInv, UserInv PROVE LoginFilesAreRight
  OBVIOUS
<1>1. TransfersAreRight
  <2> SUFFICES ASSUME NEW c \in Callers, c \notin touched
               PROVE  LET source == localFile[LocalOf[c]]
                          result == remoteFile[call[c].path] IN
                      /\ call[c].result = "yes" /\ call[c].op \in {"PUT", "GET"} => source = result /\ source.exists
                      /\ call[c].result = "yes" /\ call[c].op = "REMOVE" => ~result.exists
                      /\ call[c].op = "PUT" /\ call[c].size > 0 /\ alive /\ Served(c) => result = source \/ ~result.exists
    BY DEF TransfersAreRight
  <2>1. Agrees(c)
    BY DEF TransferInv
  <2> QED
    BY <2>1 DEF Agrees, PutAgrees, GetAgrees, RemoveAgrees, LocalFile, CidFile
<1>2. alive => \A p \in Paths :
        remoteFile[p] = Content(<<>>) => \E c \in Callers : call[c].op = "PUT" /\ call[c].path = p
                                                             /\ (transfer.call = c \/ call[c].size = 0)
  BY DEF TransferInv, EmptyIsWritten, WrittenEmpty, InHand
<1>3. ~raced => ToSet(userFile) = enrolled /\ IsInjective(userFile)
  BY DEF UserInv, UsersAreListed
<1> QED
  BY <1>1, <1>2, <1>3 DEF LoginFilesAreRight

\* Whoever dies, and however callers, CIDs and others interleave: unless somebody else has
\* changed one of its files, a transfer that is reported done has made them the same, and one
\* that the CID is done with has left all of the file or none (receiveFile, sendFile); a user is
\* on the list, once, from his addition to his deletion (addUser, deleteUser).
THEOREM LoginFilesStayRight == HostProgramsSpec => []LoginFilesAreRight
<1>1. HostProgramsInit => TransferInv /\ UserInv
  BY TransferStart, UserStart DEF HostProgramsInit
<1> QED
  BY <1>1, FilesStep, AgreedFilesAreRight, PTL DEF HostProgramsSpec

-----------------------------------------------------------------------------
(* The list of applications that a CID keeps.                               *)

Asked    == {"SAVE", "CHANGE", "GET_APP", "DEL_APP", "KILL_APP"}
States   == {"INACTIVE", "RUNNING", "ENDED", "NONE"}
Pointers == Apps \cup {NullApp}
EntrySet   == [next : Pointers, port : Nat, status : States, flag : BOOLEAN]
RequestSet == [op : Asked \cup {"DEL_LIST", "LIST"}, app : Pointers, status : States, port : Nat]
Views      == [at : {"look", "waits", "menu", "kills"}, view : Seq([app : Apps, port : Nat])]

\* The list, the DACs and the monitor have their types.
ListTypes ==
  /\ end_p \in Pointers /\ list_p \in Pointers /\ freed \in SUBSET Apps
  /\ entry \in [Apps -> EntrySet] /\ listed \in Seq(Apps)
DacTypes ==
  /\ requests \in Seq(RequestSet) /\ asked \in Nat
  /\ controller \in [Apps -> {"none", "INACTIVE", "RUNNING", "gone"}] /\ dacport \in [Apps -> Nat]
  /\ monitor \in Views
  /\ \A k \in DOMAIN requests : requests[k].op \in Asked => requests[k].app \in Apps

\* What the last entry points to: nothing, or an entry that is no more.
Rest == IF listed = <<>> THEN end_p ELSE entry[listed[Len(listed)]].next
\* The entries hang one from the other in the order of listed, each once, and none is freed.
ListChain ==
  /\ list_cnt = Len(listed)
  /\ \A j, k \in DOMAIN listed : listed[j] = listed[k] => j = k
  /\ \A k \in DOMAIN listed : listed[k] \notin freed
  /\ listed # <<>> => end_p = listed[1]
  /\ \A k \in DOMAIN listed : k < Len(listed) => entry[listed[k]].next = listed[k + 1]
  /\ Rest \in Bad
\* The pointer to the last entry is wrong only when that entry points to one that is no more,
\* which is so only after a deletion.
ListTail ==
  /\ Rest # NullApp => asked > 0
  /\ listed # <<>> => list_p = listed[Len(listed)] \/ (Rest # NullApp /\ list_p \in freed)
DeletionsAsked ==
  \A k \in DOMAIN requests : requests[k].op \in {"GET_APP", "DEL_APP", "KILL_APP"} => asked > 0

\* What a DAC sends first is its SAVE_APP, and it sends it once.
SavesFirst ==
  \A k \in DOMAIN requests : requests[k].op = "SAVE" =>
     /\ \A j \in 1 .. (k - 1) : requests[j].app # requests[k].app
     /\ requests[k].app \notin freed /\ \A j \in DOMAIN listed : listed[j] # requests[k].app
\* Nobody has heard of an application whose DAC has not started.
Unknown(a) ==
  /\ dacport[a] = 0 /\ a \notin freed
  /\ \A k \in DOMAIN requests : requests[k].app # a
  /\ \A k \in DOMAIN listed : listed[k] # a
  /\ \A k \in DOMAIN monitor.view : monitor.view[k].app # a
NoneIsUnknown == \A a \in Apps : controller[a] = "none" => Unknown(a)
\* The port of a DAC that lives is the one in its entry, on its way, or on the screen.
PortsAgree == \A a \in Apps : dacport[a] # 0 =>
  /\ \A k \in DOMAIN listed : listed[k] = a => entry[a].port = dacport[a]
  /\ \A k \in DOMAIN requests : requests[k].op = "SAVE" /\ requests[k].app = a => requests[k].port = dacport[a]
  /\ \A k \in DOMAIN monitor.view : monitor.view[k].app = a => monitor.view[k].port \in {0, dacport[a]}
\* The state of a DAC that lives is the last one on its way, or else the one in its entry.
Tells(k, a) == requests[k].op = "CHANGE" /\ requests[k].app = a
StatesAgree == \A a \in Apps : dacport[a] # 0 =>
  /\ \A k \in DOMAIN requests :
       Tells(k, a) /\ (\A j \in DOMAIN requests : Tells(j, a) => j <= k) => requests[k].status = controller[a]
  /\ (\A k \in DOMAIN requests : ~Tells(k, a)) =>
       /\ \A k \in DOMAIN requests : requests[k].op = "SAVE" /\ requests[k].app = a => controller[a] = "INACTIVE"
       /\ \A k \in DOMAIN listed : listed[k] = a => entry[a].status = controller[a]

ReportsInv == DeletionsAsked /\ SavesFirst /\ NoneIsUnknown /\ PortsAgree /\ StatesAgree
\* What a CID is like that has followed a pointer to nowhere is not said.
AppListInv ==
  /\ wrong \in BOOLEAN
  /\ IF wrong THEN asked > 0 ELSE ListTypes /\ DacTypes /\ ListChain /\ ListTail /\ ReportsInv

\* No more applications are listed than there are.
LEMMA NumberListed ==
  ASSUME ListTypes, ListChain PROVE Len(listed) \in Nat /\ Len(listed) <= MaxApps
<1>1. /\ MaxApps \in Nat /\ Apps = 1 .. MaxApps /\ listed \in Seq(Apps)
  BY AppListAssumption DEF ListTypes, Apps
<1>2. /\ listed \in [1 .. Len(listed) -> Apps] /\ Len(listed) \in Nat
  BY <1>1
<1>3. listed \in Injection(1 .. Len(listed), Apps)
  BY <1>2 DEF ListChain, Injection, IsInjective
<1>4. ASSUME NEW n \in Nat PROVE IsFiniteSet(1 .. n) /\ Cardinality(1 .. n) = n
  BY FS_Interval
<1>5. IsFiniteSet(Apps) /\ Cardinality(Apps) = MaxApps
  BY <1>1, <1>4
<1>6. IsFiniteSet(1 .. Len(listed)) /\ Cardinality(1 .. Len(listed)) = Len(listed)
  BY <1>2, <1>4
<1>7. Cardinality(1 .. Len(listed)) <= Cardinality(Apps)
  BY <1>3, <1>5, <1>6, FS_Injection
<1> QED
  BY <1>2, <1>5, <1>6, <1>7

\* The walk from end_p visits what is listed, in order, and stays behind the last entry.  The
\* equation that defines the walk has this solution and, by the least place where another
\* would differ, no other.
LEMMA WalkAlongList ==
  ASSUME ListTypes, ListChain
  PROVE  Walk = [k \in 1 .. MaxApps + 1 |-> IF k <= Len(listed) THEN listed[k] ELSE Rest]
<1> DEFINE D == 1 .. MaxApps + 1
           Next1(f) == [k \in D |-> IF k = 1 THEN end_p ELSE IF f[k - 1] \in Bad THEN f[k - 1] ELSE entry[f[k - 1]].next]
           w == [k \in D |-> IF k <= Len(listed) THEN listed[k] ELSE Rest]
<1>1. /\ MaxApps \in Nat /\ Len(listed) \in Nat /\ Len(listed) <= MaxApps
      /\ \A k \in 1 .. Len(listed) : listed[k] \in Apps /\ listed[k] \notin Bad
  <2>1. \A k \in 1 .. Len(listed) : listed[k] \in Apps /\ listed[k] \notin freed
    <3>1. listed \in Seq(Apps)
      BY DEF ListTypes
    <3>2. DOMAIN listed = 1 .. Len(listed) /\ \A k \in DOMAIN listed : listed[k] \in Apps
      BY <3>1
    <3> QED
      BY <3>2 DEF ListChain
  <2>2. NullApp \notin Apps
    BY AppListAssumption DEF Apps, NullApp
  <2> QED
    BY <2>1, <2>2, NumberListed, AppListAssumption DEF Bad
<1>2. w = Next1(w)
  <2>1. ASSUME NEW k \in D PROVE w[k] = Next1(w)[k]
    <3>1. CASE k = 1
      <4>1. k <= Len(listed) <=> listed # <<>>
        BY <1>1, <3>1 DEF ListTypes
      <4> QED
        BY <3>1, <4>1 DEF ListChain, Rest
    <3>2. CASE k # 1
      <4>1. k - 1 \in D /\ k \in Nat
        BY <1>1, <3>2
      <4>2. Next1(w)[k] = IF w[k - 1] \in Bad THEN w[k - 1] ELSE entry[w[k - 1]].next
        BY <3>2
      <4>3. CASE k - 1 <= Len(listed)
        <5>1. k - 1 \in 1 .. Len(listed)
          BY <1>1, <4>1, <4>3
        <5>2. w[k - 1] = listed[k - 1] /\ w[k - 1] \notin Bad
          BY <1>1, <4>1, <5>1
        <5>3. CASE k - 1 < Len(listed)
          <6>1. entry[listed[k - 1]].next = listed[(k - 1) + 1] /\ (k - 1) + 1 = k /\ k <= Len(listed)
            <7>1. k - 1 \in DOMAIN listed
              BY <5>1 DEF ListTypes
            <7>2. entry[listed[k - 1]].next = listed[(k - 1) + 1]
              BY <5>3, <7>1 DEF ListChain
            <7>3. (k - 1) + 1 = k /\ k <= Len(listed)
              BY <1>1, <4>1, <5>3
            <7> QED
              BY <7>2, <7>3
          <6> QED
            BY <4>2, <5>2, <6>1
        <5>4. CASE k - 1 = Len(listed)
          <6>1. listed # <<>> /\ ~(k <= Len(listed))
            BY <1>1, <4>1, <5>1, <5>4
          <6>2. Rest = entry[listed[k - 1]].next
            BY <5>4, <6>1 DEF Rest
          <6> QED
            BY <4>2, <5>2, <6>1, <6>2
        <5> QED
          BY <1>1, <4>1, <4>3, <5>3, <5>4
      <4>4. CASE ~(k - 1 <= Len(listed))
        <5>1. w[k - 1] = Rest /\ w[k] = Rest /\ Rest \in Bad
          BY <1>1, <4>1, <4>4 DEF ListChain
        <5> QED
          BY <4>2, <5>1
      <4> QED
        BY <4>3, <4>4
    <3> QED
      BY <3>1, <3>2
  <2> HIDE DEF D
  <2> QED
    BY <2>1
<1>3. Walk = CHOOSE f : f = Next1(f)
  BY Zenon DEF Walk
<1> HIDE DEF w
<1>4. Walk = Next1(Walk)
  <2> HIDE DEF Next1
  <2> QED
    BY <1>2, <1>3, Zenon
<1>5. w = [k \in D |-> w[k]] /\ Walk = [k \in D |-> Walk[k]]
  BY <1>2, <1>4
<1>6. \A k \in D : Walk[k] = w[k]
  <2>1. SUFFICES ASSUME \E k \in D : Walk[k] # w[k] PROVE FALSE
    OBVIOUS
  <2>2. PICK k \in D : Walk[k] # w[k] /\ \A j \in D : Walk[j] # w[j] => k <= j
    <3> DEFINE S == {k \in D : Walk[k] # w[k]}
    <3>1. S \subseteq Nat /\ S # {}
      BY <2>1
    <3>2. PICK i \in S : \A j \in S : i <= j
      <4> HIDE DEF S
      <4> QED
        BY <3>1, LeastIn
    <3> QED
      BY <3>2
  <2>3. /\ Walk[k] = Next1(Walk)[k] /\ w[k] = Next1(w)[k]
    BY <1>2, <1>4
  <2>4. k # 1
    BY <2>2, <2>3
  <2>5. k - 1 \in D /\ ~(k <= k - 1)
    BY <1>1, <2>4
  <2>6. Walk[k - 1] = w[k - 1]
    BY <2>2, <2>5
  <2> QED
    BY <2>2, <2>3, <2>6
<1>7. Walk = w
  <2> HIDE DEF D
  <2> QED
    BY <1>5, <1>6
<1> QED
  BY <1>7 DEF w

\* So the CID shows what is listed, finds an entry when it is listed, and strays when the last
\* entry points to one that is no more.
LEMMA WhatIsFound ==
  ASSUME ListTypes, ListChain
  PROVE  /\ Shown = listed
         /\ Strays <=> Rest \in freed
         /\ \A S \in SUBSET Apps :
              /\ Finds(S) <=> \E k \in DOMAIN listed : listed[k] \in S
              /\ Finds(S) => \E k \in DOMAIN listed : listed[k] \in S /\ FirstMet(S) = listed[k]
<1>1. /\ MaxApps \in Nat /\ Len(listed) \in Nat /\ Len(listed) <= MaxApps
      /\ listed \in Seq(Apps) /\ DOMAIN listed = 1 .. Len(listed)
  BY NumberListed, AppListAssumption DEF ListTypes
<1>2. /\ DOMAIN Walk = 1 .. MaxApps + 1
      /\ \A k \in 1 .. MaxApps + 1 : Walk[k] = IF k <= Len(listed) THEN listed[k] ELSE Rest
  BY WalkAlongList
<1>3. \A k \in DOMAIN listed : k \in DOMAIN Walk /\ Walk[k] = listed[k]
  BY <1>1, <1>2
<1>4. \A k \in DOMAIN Walk : k \in DOMAIN listed \/ Walk[k] = Rest
  BY <1>1, <1>2
<1>5. MaxApps + 1 \in DOMAIN Walk /\ Walk[MaxApps + 1] = Rest
  BY <1>1, <1>2
<1>6. Shown = listed
  BY <1>1, <1>3 DEF Shown, ListChain
<1>7. Strays <=> Rest \in freed
  <2>1. \A k \in DOMAIN listed : listed[k] \notin freed
    BY DEF ListChain
  <2> QED
    BY <1>3, <1>4, <1>5, <2>1 DEF Strays, Visits
<1>8. ASSUME NEW S \in SUBSET Apps
      PROVE  /\ Finds(S) <=> \E k \in DOMAIN listed : listed[k] \in S
             /\ Finds(S) => \E k \in DOMAIN listed : listed[k] \in S /\ FirstMet(S) = listed[k]
  <2>1. \A k \in DOMAIN listed : listed[k] \notin freed
    BY DEF ListChain
  <2>2. NullApp \notin Apps
    BY AppListAssumption DEF Apps, NullApp
  <2>3. \A k \in DOMAIN Walk : Walk[k] \in S \ freed <=> k \in DOMAIN listed /\ listed[k] \in S
    BY <1>3, <1>4, <2>1, <2>2 DEF ListChain, Bad
  <2>4. Visits(S \ freed) = {k \in DOMAIN listed : listed[k] \in S}
    BY <1>3, <2>3 DEF Visits
  <2>5. ASSUME Finds(S) PROVE \E k \in DOMAIN listed : listed[k] \in S /\ FirstMet(S) = listed[k]
    <3> DEFINE V == Visits(S \ freed)
    <3>1. V # {} /\ V \subseteq Nat
      <4>1. Visits(S \ freed) # {}
        BY <2>5 DEF Finds
      <4>2. V \subseteq 1 .. Len(listed)
        BY <1>1, <2>4
      <4>3. 1 .. Len(listed) \subseteq Nat
        OBVIOUS
      <4> QED
        BY <4>1, <4>2, <4>3, Zenon
    <3> HIDE DEF V
    <3>2. \E k \in V : \A j \in V : k <= j
      BY <3>1, LeastIn
    <3>3. (CHOOSE k \in V : \A j \in V : k <= j) \in V
      BY <3>2
    <3>4. FirstMet(S) = Walk[CHOOSE k \in V : \A j \in V : k <= j]
      BY DEF FirstMet, V
    <3>5. PICK k \in V : FirstMet(S) = Walk[k]
      BY <3>3, <3>4
    <3> QED
      BY <1>3, <2>4, <3>5 DEF V
  <2> QED
    BY <2>4, <2>5 DEF Finds
<1> QED
  BY <1>6, <1>7, <1>8

\* The entry before another one is the one that is listed before it.
LEMMA BeforeListed ==
  ASSUME ListTypes, ListChain, NEW i \in 2 .. Len(listed)
  PROVE  Before(listed[i]) = listed[i - 1]
<1>1. /\ Len(listed) \in Nat /\ listed \in Seq(Apps) /\ i \in DOMAIN listed /\ i - 1 \in DOMAIN listed
      /\ 1 \in DOMAIN listed /\ i \in Nat /\ listed # <<>>
  BY DEF ListTypes
<1>2. end_p # listed[i]
  BY <1>1 DEF ListChain
<1> DEFINE S == {b \in Apps : entry[b].next = listed[i]}
<1>3. listed[i - 1] \in S
  <2>1. entry[listed[i - 1]].next = listed[(i - 1) + 1] /\ (i - 1) + 1 = i
    BY <1>1 DEF ListChain
  <2> QED
    BY <1>1, <2>1
<1>4. ASSUME NEW k \in DOMAIN listed, listed[k] \in S PROVE k = i - 1
  <2>1. entry[listed[k]].next = listed[i]
    BY <1>4
  <2>2. listed[i] \in Apps /\ listed[i] \notin freed /\ NullApp \notin Apps
    BY <1>1, AppListAssumption DEF ListChain, Apps, NullApp
  <2>3. k # Len(listed)
    <3>1. k = Len(listed) => entry[listed[k]].next = Rest
      BY <1>1 DEF Rest
    <3> QED
      BY <2>1, <2>2, <3>1 DEF ListChain, Bad
  <2>4. k \in Nat /\ k < Len(listed) /\ k + 1 \in DOMAIN listed
    BY <1>1, <2>3
  <2>5. listed[k + 1] = listed[i]
    BY <2>1, <2>4 DEF ListChain
  <2>6. k + 1 = i
    BY <1>1, <2>4, <2>5 DEF ListChain
  <2> QED
    BY <1>1, <2>4, <2>6
<1>5. S \in SUBSET Apps
  OBVIOUS
<1>6. Before(listed[i]) = FirstMet(S)
  BY <1>2 DEF Before
<1> HIDE DEF S
<1>7. PICK k \in DOMAIN listed : listed[k] \in S /\ FirstMet(S) = listed[k]
  BY <1>1, <1>3, <1>5, WhatIsFound
<1> QED
  BY <1>4, <1>6, <1>7

\* What is listed are applications.
LEMMA ListFacts ==
  ASSUME ListTypes
  PROVE  /\ Len(listed) \in Nat /\ DOMAIN listed = 1 .. Len(listed)
         /\ \A k \in 1 .. Len(listed) : listed[k] \in Apps
         /\ listed = <<>> <=> Len(listed) = 0
         /\ NullApp \notin Apps
<1>1. NullApp \notin Apps
  BY AppListAssumption DEF Apps, NullApp
<1> QED
  BY <1>1 DEF ListTypes

\* A step that leaves the pointers alone leaves the chain alone.
LEMMA SameChain ==
  ASSUME ListTypes, ListChain, ListTail, \A b \in Apps : entry'[b].next = entry[b].next,
         UNCHANGED <<end_p, list_p, list_cnt, freed, listed, asked>>
  PROVE  ListChain' /\ ListTail'
<1>1. /\ Len(listed) \in Nat /\ DOMAIN listed = 1 .. Len(listed)
      /\ \A k \in 1 .. Len(listed) : listed[k] \in Apps
      /\ listed # <<>> => Len(listed) \in 1 .. Len(listed)
  BY ListFacts
<1>2. Rest' = Rest /\ Bad' = Bad
  BY <1>1 DEF Rest, Bad
<1>3. \A k \in DOMAIN listed : k < Len(listed) => entry'[listed[k]].next = listed[k + 1]
  BY <1>1 DEF ListChain
<1>4. ListChain'
  BY <1>2, <1>3 DEF ListChain
<1> QED
  BY <1>2, <1>4 DEF ListTail

\* An application that is saved becomes the last, unless the pointer to the last is wrong.
LEMMA SaveStep ==
  ASSUME ListTypes, ListChain, ListTail, NEW a \in Apps, NEW port \in Nat, a \notin freed,
         \A k \in DOMAIN listed : listed[k] # a, OpSaveAppMsg(a, port), asked' = asked
  PROVE  /\ wrong' => asked > 0
         /\ ListTypes' /\ (~wrong' => ListChain' /\ ListTail')
         /\ entry'[a].port = port /\ entry'[a].status = "INACTIVE"
         /\ \A b \in Apps \ {a} : entry'[b].port = entry[b].port /\ entry'[b].status = entry[b].status
<1>1. /\ Len(listed) \in Nat /\ DOMAIN listed = 1 .. Len(listed)
      /\ \A k \in 1 .. Len(listed) : listed[k] \in Apps
      /\ listed = <<>> <=> Len(listed) = 0
      /\ NullApp \notin Apps /\ list_cnt = Len(listed)
  BY ListFacts DEF ListChain
<1>2. /\ listed' = Append(listed, a) /\ freed' = freed /\ list_p' = a
      /\ list_cnt' = list_cnt + 1
      /\ end_p' = IF list_cnt = 0 THEN a ELSE end_p
      /\ wrong' = (list_cnt > 0 /\ list_p \in Bad)
      /\ entry' = [b \in Apps |-> IF b = a THEN [Unwritten EXCEPT !.port = port]
           ELSE IF list_cnt > 0 /\ b = list_p THEN [entry[b] EXCEPT !.next = a] ELSE entry[b]]
  BY DEF OpSaveAppMsg
<1>3. /\ listed' \in Seq(Apps) /\ Len(listed') = Len(listed) + 1 /\ DOMAIN listed' = 1 .. Len(listed) + 1
      /\ listed'[Len(listed) + 1] = a /\ \A k \in 1 .. Len(listed) : listed'[k] = listed[k]
      /\ listed' # <<>>
  BY <1>2 DEF ListTypes
<1>4. /\ entry'[a] = [next |-> NullApp, port |-> port, status |-> "INACTIVE", flag |-> FALSE]
      /\ \A b \in Apps \ {a} : entry[b] \in EntrySet /\ entry'[b] =
           IF list_cnt > 0 /\ b = list_p THEN [entry[b] EXCEPT !.next = a] ELSE entry[b]
  BY <1>2 DEF Unwritten, ListTypes
<1>5. ListTypes'
  <2>1. \A b \in Apps : entry'[b] \in EntrySet
    <3>1. entry'[a] \in EntrySet
      BY <1>4 DEF EntrySet, States, Pointers
    <3>2. ASSUME NEW b \in Apps \ {a}, NEW e \in EntrySet, e = entry[b]
          PROVE  [e EXCEPT !.next = a] \in EntrySet
      BY DEF EntrySet, Pointers
    <3> QED
      BY <1>4, <3>1, <3>2
  <2>2. entry' \in [Apps -> EntrySet]
    BY <1>2, <2>1
  <2> QED
    BY <1>2, <1>3, <2>2 DEF ListTypes, Pointers
<1>6. wrong' => asked > 0
  <2>1. SUFFICES ASSUME list_cnt > 0, list_p \in Bad PROVE asked > 0
    BY <1>2
  <2>2. listed # <<>> /\ listed[Len(listed)] \in Apps /\ listed[Len(listed)] \notin freed
    BY <1>1, <2>1 DEF ListChain
  <2> QED
    BY <1>1, <2>1, <2>2 DEF ListTail, Bad
<1>7. ASSUME ~wrong' PROVE ListChain' /\ ListTail'
  <2>1. Rest' = NullApp /\ Rest' \in Bad'
    BY <1>3, <1>4 DEF Rest, Bad
  <2>2. list_cnt > 0 => list_p = listed[Len(listed)]
    <3>1. ~(list_cnt > 0 /\ list_p \in Bad)
      BY <1>2, <1>7
    <3>2. list_cnt > 0 => listed # <<>>
      BY <1>1
    <3> QED
      BY <3>1, <3>2 DEF ListTail, Bad
  <2>3. end_p' = listed'[1]
    BY <1>1, <1>2, <1>3 DEF ListChain
  <2>4. ASSUME NEW k \in 1 .. Len(listed) PROVE entry'[listed'[k]].next = listed'[k + 1]
    <3>1. listed'[k] = listed[k] /\ listed[k] \in Apps \ {a} /\ list_cnt > 0 /\ k \in Nat /\ k <= Len(listed)
      BY <1>1, <1>3
    <3>2. CASE k = Len(listed)
      <4>1. entry'[listed[k]] = [entry[listed[k]] EXCEPT !.next = a] /\ entry[listed[k]] \in EntrySet
        BY <1>4, <2>2, <3>1, <3>2
      <4>2. entry'[listed[k]].next = a
        BY <4>1 DEF EntrySet
      <4> QED
        BY <1>3, <3>1, <3>2, <4>2
    <3>3. CASE k # Len(listed)
      <4>1. Len(listed) \in DOMAIN listed /\ listed[k] # listed[Len(listed)]
        BY <1>1, <3>1, <3>3 DEF ListChain
      <4>2. entry'[listed[k]] = entry[listed[k]]
        BY <1>4, <2>2, <3>1, <4>1
      <4>3. k < Len(listed) /\ k + 1 \in 1 .. Len(listed)
        <5>1. Len(listed) \in Nat /\ k \in Nat /\ k \in 1 .. Len(listed)
          BY <1>1, <3>1
        <5> QED
          BY <3>3, <5>1
      <4>4. entry[listed[k]].next = listed[k + 1]
        BY <1>1, <4>3 DEF ListChain
      <4> QED
        BY <1>3, <3>1, <4>2, <4>3, <4>4
    <3> QED
      BY <3>2, <3>3
  <2>5. \A j, k \in DOMAIN listed' : listed'[j] = listed'[k] => j = k
    <3>1. \A j, k \in 1 .. Len(listed) : listed[j] = listed[k] => j = k
      BY <1>1 DEF ListChain
    <3>2. \A k \in 1 .. Len(listed) : listed[k] # a
      BY <1>1
    <3>3. \A k \in DOMAIN listed' : k \in 1 .. Len(listed) \/ k = Len(listed) + 1
      BY <1>1, <1>3
    <3> QED
      BY <1>3, <3>1, <3>2, <3>3
  <2>6. \A k \in DOMAIN listed' : listed'[k] \notin freed'
    BY <1>1, <1>2, <1>3 DEF ListChain
  <2>7. list_cnt' = Len(listed')
    BY <1>1, <1>2, <1>3
  <2>8. \A k \in DOMAIN listed' : k < Len(listed') => entry'[listed'[k]].next = listed'[k + 1]
    BY <1>1, <1>3, <2>4
  <2>9. ListChain'
    BY <2>1, <2>3, <2>5, <2>6, <2>7, <2>8 DEF ListChain
  <2> QED
    BY <1>2, <1>3, <2>1, <2>9 DEF ListTail
<1>8. \A b \in Apps \ {a} : entry'[b].port = entry[b].port /\ entry'[b].status = entry[b].status
  BY <1>4 DEF EntrySet
<1> QED
  BY <1>4, <1>5, <1>6, <1>7, <1>8

\* What is still listed is as it was; what is freed was listed.
Thinned ==
  /\ \A k \in DOMAIN listed' : \E j \in DOMAIN listed :
       /\ listed'[k] = listed[j]
       /\ entry'[listed[j]].port = entry[listed[j]].port
       /\ entry'[listed[j]].status = entry[listed[j]].status
  /\ \A b \in freed' : b \in freed \/ \E j \in DOMAIN listed : listed[j] = b

\* Deleting one entry, first, last or between, leaves the others as they were.
LEMMA UnlinkStep ==
  ASSUME ListTypes, ListChain, ListTail, asked > 0, NEW i \in DOMAIN listed, Unlink(listed[i]), asked' = asked
  PROVE  ListTypes' /\ ListChain' /\ ListTail' /\ Thinned
<1> DEFINE n == Len(listed)
           a == listed[i]
           from(j) == IF j < i THEN j ELSE j + 1
<1>1. /\ n \in Nat /\ DOMAIN listed = 1 .. n
      /\ \A k \in 1 .. n : listed[k] \in Apps
      /\ listed = <<>> <=> n = 0
      /\ NullApp \notin Apps
  BY ListFacts
<1>2. i \in 1 .. n /\ i \in Nat /\ a \in Apps
  BY <1>1
<1>3. \A j, k \in 1 .. n : listed[j] = listed[k] => j = k
  BY <1>1 DEF ListChain
<1>4. (CHOOSE k \in DOMAIN listed : listed[k] = a) = i
  <2>1. \A k \in DOMAIN listed : listed[k] = a => k = i
    BY <1>1, <1>3, <1>2
  <2> QED
    BY <2>1
<1>5. /\ listed' = RemoveAt(listed, i) /\ list_cnt' = n - 1 /\ freed' = freed \cup {a}
      /\ \/ end_p = a /\ end_p' = entry[a].next /\ entry' = [entry EXCEPT ![a] = Unwritten] /\ list_p' = list_p
         \/ /\ end_p # a /\ end_p' = end_p /\ entry[a].next = NullApp
            /\ list_p' = Before(a) /\ entry' = [entry EXCEPT ![a] = Unwritten]
         \/ /\ end_p # a /\ end_p' = end_p /\ entry[a].next # NullApp /\ list_p' = list_p
            /\ entry' = [[entry EXCEPT ![a] = Unwritten] EXCEPT ![Before(a)].next = entry[a].next]
  BY <1>4 DEF Unlink, ListChain
<1>6. /\ listed' \in Seq(Apps) /\ Len(listed') = n - 1 /\ DOMAIN listed' = 1 .. n - 1
      /\ \A j \in 1 .. n - 1 : listed'[j] = listed[from(j)]
      /\ listed' = <<>> <=> n = 1
  <2>1. listed \in Seq(Apps)
    BY DEF ListTypes
  <2>2. /\ RemoveAt(listed, i) \in Seq(Apps)
        /\ Len(RemoveAt(listed, i)) = Len(listed) - 1
        /\ \A j \in 1 .. Len(listed) - 1 :
             RemoveAt(listed, i)[j] = IF j < i THEN listed[j] ELSE listed[j + 1]
    BY <2>1, RemoveAtProperties
  <2>3. listed' \in Seq(Apps) /\ Len(listed') = n - 1
    BY <1>5, <2>2
  <2>4. DOMAIN listed' = 1 .. n - 1 /\ (listed' = <<>> <=> n - 1 = 0)
    BY <2>3
  <2>5. n - 1 = 0 <=> n = 1
    BY <1>1
  <2> QED
    BY <1>5, <2>2, <2>3, <2>4, <2>5
<1>7. \A j \in 1 .. n - 1 : from(j) \in 1 .. n /\ from(j) # i /\ listed[from(j)] \in Apps \ {a}
  <2>1. \A j \in 1 .. n - 1 : from(j) \in 1 .. n /\ from(j) # i
    BY <1>1, <1>2
  <2> HIDE DEF from
  <2> QED
    BY <1>1, <1>2, <1>3, <2>1
<1>8. entry[a].next = IF i < n THEN listed[i + 1] ELSE Rest
  <2>1. CASE i < n
    BY <1>1, <1>2, <2>1 DEF ListChain
  <2>2. CASE ~(i < n)
    BY <1>1, <1>2, <2>2 DEF Rest
  <2> QED
    BY <2>1, <2>2
<1>9. end_p = a <=> i = 1
  <2>1. end_p = listed[1] /\ 1 \in 1 .. n
    BY <1>1, <1>2 DEF ListChain
  <2> QED
    BY <1>2, <1>3, <2>1
<1>10. i # 1 => Before(a) = listed[i - 1] /\ i - 1 \in 1 .. n - 1
  <2>1. i # 1 => i \in 2 .. n /\ i - 1 \in 1 .. n - 1
    BY <1>1, <1>2
  <2> QED
    BY <2>1, BeforeListed
<1>11. Unwritten \in EntrySet /\ Rest \in Bad /\ Bad \subseteq Bad' /\ Bad \subseteq Pointers
  BY <1>5 DEF Unwritten, EntrySet, Pointers, States, ListChain, Bad, ListTypes
<1>12. /\ entry' \in [Apps -> EntrySet]
       /\ \A b \in Apps \ {a} : /\ entry'[b].port = entry[b].port /\ entry'[b].status = entry[b].status
                                /\ entry'[b].next = IF i # 1 /\ entry[a].next # NullApp /\ b = listed[i - 1]
                                                    THEN entry[a].next ELSE entry[b].next
  <2>1. entry \in [Apps -> EntrySet] /\ entry[a].next \in Pointers
    BY <1>2 DEF ListTypes, EntrySet
  <2> DEFINE E == [entry EXCEPT ![a] = Unwritten]
  <2>2. E \in [Apps -> EntrySet] /\ \A b \in Apps \ {a} : E[b] = entry[b]
    BY <1>2, <1>11, <2>1
  <2>3. CASE i = 1 \/ entry[a].next = NullApp
    <3>1. entry' = E
      BY <1>5, <1>9, <2>3
    <3> QED
      BY <2>2, <2>3, <3>1
  <2>4. CASE i # 1 /\ entry[a].next # NullApp
    <3>1. listed[i - 1] \in Apps \ {a}
      <4>1. i - 1 \in 1 .. n /\ i - 1 # i
        BY <1>1, <1>2, <2>4
      <4> QED
        BY <1>1, <1>2, <1>3, <4>1
    <3>2. entry' = [E EXCEPT ![listed[i - 1]].next = entry[a].next]
      BY <1>5, <1>9, <1>10, <2>4
    <3> HIDE DEF E
    <3>3. E[listed[i - 1]] \in EntrySet
      BY <2>2, <3>1
    <3>4. /\ [E[listed[i - 1]] EXCEPT !.next = entry[a].next] \in EntrySet
          /\ [E[listed[i - 1]] EXCEPT !.next = entry[a].next].next = entry[a].next
          /\ [E[listed[i - 1]] EXCEPT !.next = entry[a].next].port = E[listed[i - 1]].port
          /\ [E[listed[i - 1]] EXCEPT !.next = entry[a].next].status = E[listed[i - 1]].status
      BY <2>1, <3>3 DEF EntrySet
    <3>5. entry' = [E EXCEPT ![listed[i - 1]] = [E[listed[i - 1]] EXCEPT !.next = entry[a].next]]
      BY <3>2
    <3>6. entry' \in [Apps -> EntrySet] /\ entry'[listed[i - 1]] = [E[listed[i - 1]] EXCEPT !.next = entry[a].next]
          /\ \A b \in Apps \ {listed[i - 1]} : entry'[b] = E[b]
      BY <2>2, <3>1, <3>4, <3>5
    <3> QED
      BY <2>2, <2>4, <3>1, <3>4, <3>6
  <2> QED
    BY <2>3, <2>4
<1>13. ListTypes'
  <2>1. entry[a].next \in Pointers /\ end_p \in Pointers /\ list_p \in Pointers /\ freed \in SUBSET Apps
    BY <1>2 DEF ListTypes, EntrySet
  <2>2. end_p' \in Pointers /\ freed' \in SUBSET Apps
    BY <1>2, <1>5, <2>1
  <2>3. i # 1 => Before(a) \in Pointers
    BY <1>1, <1>10, <1>2 DEF Pointers
  <2>4. list_p' \in Pointers
    BY <1>5, <1>9, <2>1, <2>3
  <2> QED
    BY <1>6, <1>12, <2>2, <2>4 DEF ListTypes
<1> HIDE DEF a
\* The next of those that stay.
<1>14. ASSUME NEW j \in 1 .. n - 1, j < n - 1 PROVE entry'[listed'[j]].next = listed'[j + 1]
  <2>1. /\ j \in Nat /\ j + 1 \in 1 .. n - 1 /\ listed'[j] = listed[from(j)] /\ listed'[j + 1] = listed[from(j + 1)]
    BY <1>1, <1>6, <1>14
  <2>2. listed[from(j)] \in Apps \ {a} /\ from(j) \in 1 .. n
    BY <1>7
  <2>3. from(j) < n => entry[listed[from(j)]].next = listed[from(j) + 1]
    BY <1>1, <2>2 DEF ListChain
  <2>4. from(j) < n
    BY <1>1, <1>2, <1>14, <2>1
  <2>5. CASE from(j) = i - 1
    <3>1. i # 1 /\ i < n /\ from(j + 1) = i + 1 /\ listed[from(j)] = listed[i - 1]
      BY <1>1, <1>2, <1>14, <2>1, <2>5
    <3>2. entry[a].next = listed[i + 1] /\ listed[i + 1] # NullApp
      BY <1>1, <1>2, <1>8, <3>1
    <3> QED
      BY <1>12, <2>1, <2>2, <3>1, <3>2
  <2>6. CASE from(j) # i - 1
    <3>1. from(j + 1) = from(j) + 1
      BY <1>2, <2>1, <2>6
    <3>2. i # 1 => listed[from(j)] # listed[i - 1]
      <4>1. i # 1 => i - 1 \in 1 .. n
        BY <1>1, <1>2
      <4> HIDE DEF from
      <4> QED
        BY <1>3, <2>2, <2>6, <4>1
    <3> QED
      BY <1>12, <2>1, <2>2, <2>3, <2>4, <3>1, <3>2
  <2> QED
    BY <2>5, <2>6
<1>15. /\ Rest' \in Bad'
       /\ listed' # <<>> => list_p' = listed'[n - 1] \/ (Rest' # NullApp /\ list_p' \in freed')
  <2>1. CASE n = 1
    <3>1. listed' = <<>> /\ i = 1 /\ ~(i < n)
      BY <1>1, <1>2, <1>6, <2>1
    <3>2. Rest' = Rest
      BY <1>5, <1>8, <1>9, <3>1 DEF Rest
    <3> QED
      BY <1>11, <3>1, <3>2
  <2>2. CASE n # 1
    <3>1. n - 1 \in 1 .. n - 1 /\ listed' # <<>> /\ listed # <<>>
      BY <1>1, <1>2, <1>6, <2>2
    <3>2. Rest' = entry'[listed'[n - 1]].next
      BY <1>6, <3>1 DEF Rest
    <3>3. Rest = entry[listed[n]].next
      BY <3>1 DEF Rest
    <3>4. list_p = listed[n] \/ (Rest # NullApp /\ list_p \in freed)
      BY <3>1 DEF ListTail
    <3>5. CASE i = n
      <4>1. listed'[n - 1] = listed[n - 1] /\ listed[n - 1] \in Apps \ {a} /\ i # 1 /\ entry[a].next = Rest
        <5>1. n \in Nat /\ i # 1 /\ ~(i < n) /\ from(n - 1) = n - 1
          <6>1. n \in Nat /\ i = n /\ n # 1
            BY <1>1, <2>2, <3>5
          <6>2. n - 1 < n /\ ~(n < n)
            BY <6>1
          <6> QED
            BY <6>1, <6>2
        <5>2. listed'[n - 1] = listed[from(n - 1)] /\ listed[from(n - 1)] \in Apps \ {a}
          <6> HIDE DEF from
          <6> QED
            BY <1>6, <1>7, <3>1
        <5> QED
          BY <1>8, <5>1, <5>2
      <4>2. entry'[listed[n - 1]].next = IF Rest # NullApp THEN Rest ELSE entry[listed[n - 1]].next
        BY <1>12, <3>5, <4>1
      <4>3. CASE Rest = NullApp
        <5>1. list_p' = listed'[n - 1]
          BY <1>5, <1>9, <1>10, <3>5, <4>1, <4>3
        <5>2. entry[listed[n - 1]].next = a
          <6>1. n - 1 \in DOMAIN listed /\ n - 1 < n /\ (n - 1) + 1 = n
            BY <1>1, <3>1
          <6> QED
            BY <3>5, <6>1 DEF ListChain, a
        <5>3. a \in Bad'
          BY <1>5 DEF Bad
        <5> QED
          BY <3>2, <4>1, <4>2, <4>3, <5>1, <5>2, <5>3
      <4>4. CASE Rest # NullApp
        <5>1. list_p' = list_p /\ list_p \in freed'
          BY <1>5, <1>9, <3>4, <3>5, <4>1, <4>4 DEF a
        <5> QED
          BY <1>11, <3>2, <4>1, <4>2, <4>4, <5>1
      <4> QED
        BY <4>3, <4>4
    <3>6. CASE i # n
      <4>1. i < n /\ listed'[n - 1] = listed[n] /\ listed[n] \in Apps \ {a}
        <5>1. i < n /\ from(n - 1) = n
          <6>1. n \in Nat /\ i \in Nat /\ i <= n
            BY <1>1, <1>2
          <6>2. i < n /\ ~(n - 1 < i) /\ (n - 1) + 1 = n
            BY <3>6, <6>1
          <6> QED
            BY <6>2
        <5> HIDE DEF from
        <5> QED
          BY <1>6, <1>7, <3>1, <5>1
      <4>2. entry[a].next \in Apps
        <5>1. i + 1 \in 1 .. n
          BY <1>1, <1>2, <4>1
        <5> QED
          BY <1>1, <1>8, <4>1, <5>1
      <4>3. i # 1 => listed[n] # listed[i - 1]
        <5>1. i # 1 => i - 1 \in 1 .. n /\ n \in 1 .. n /\ i - 1 # n
          BY <1>1, <1>2
        <5> QED
          BY <1>3, <5>1
      <4>4. entry'[listed[n]].next = Rest
        BY <1>12, <3>3, <4>1, <4>3
      <4>5. list_p' = list_p
        BY <1>1, <1>5, <4>2
      <4> QED
        BY <1>5, <1>11, <3>2, <3>4, <4>1, <4>4, <4>5
    <3> QED
      BY <3>5, <3>6
  <2> QED
    BY <2>1, <2>2
<1>16. ListTail'
  BY <1>6, <1>15 DEF ListTail
<1>17. ListChain'
  <2>1. \A j, k \in 1 .. n - 1 : from(j) = from(k) => j = k
    BY <1>2
  <2> HIDE DEF from
  <2>2. \A j, k \in DOMAIN listed' : listed'[j] = listed'[k] => j = k
    BY <1>3, <1>6, <1>7, <2>1
  <2>3. \A k \in DOMAIN listed' : listed'[k] \notin freed'
    <3>1. \A k \in 1 .. n : listed[k] \notin freed
      BY <1>1 DEF ListChain
    <3> QED
      BY <1>5, <1>6, <1>7, <3>1
  <2>4. listed' # <<>> => end_p' = listed'[1]
    <3>1. SUFFICES ASSUME n # 1 PROVE end_p' = listed'[1]
      BY <1>6
    <3>2. 1 \in 1 .. n - 1 /\ listed'[1] = listed[from(1)]
      BY <1>1, <1>2, <1>6, <3>1
    <3>3. CASE i = 1
      BY <1>1, <1>5, <1>8, <1>9, <3>1, <3>2, <3>3 DEF from
    <3>4. CASE i # 1
      <4>1. from(1) = 1
        BY <1>2, <3>4 DEF from
      <4>2. end_p = listed[1]
        BY <1>1, <1>2 DEF ListChain
      <4> QED
        BY <1>5, <1>9, <3>2, <3>4, <4>1, <4>2
    <3> QED
      BY <3>3, <3>4
  <2>5. \A k \in DOMAIN listed' : k < Len(listed') => entry'[listed'[k]].next = listed'[k + 1]
    BY <1>6, <1>14
  <2>6. list_cnt' = Len(listed')
    BY <1>5, <1>6
  <2> QED
    BY <1>15, <2>2, <2>3, <2>4, <2>5, <2>6 DEF ListChain
<1>18. Thinned
  <2>1. ASSUME NEW k \in DOMAIN listed'
        PROVE  /\ from(k) \in DOMAIN listed /\ listed'[k] = listed[from(k)]
               /\ entry'[listed[from(k)]].port = entry[listed[from(k)]].port
               /\ entry'[listed[from(k)]].status = entry[listed[from(k)]].status
    BY <1>1, <1>6, <1>7, <1>12
  <2>2. \A b \in freed' : b \in freed \/ \E j \in DOMAIN listed : listed[j] = b
    BY <1>5 DEF a
  <2> HIDE DEF from
  <2> QED
    BY <2>1, <2>2 DEF Thinned
<1> QED
  BY <1>13, <1>16, <1>17, <1>18

\* So does deleting all that do not run.
LEMMA DelAppListStep ==
  ASSUME ListTypes, ListChain, ListTail, OpDelAppList, ~Strays, asked' = asked
  PROVE  ListTypes' /\ ListChain' /\ ListTail' /\ Thinned /\ wrong' = wrong
<1> DEFINE n == Len(listed)
           K == {k \in DOMAIN listed : entry[listed[k]].status = "RUNNING"}
           m == Len(listed')
<1>1. /\ n \in Nat /\ DOMAIN listed = 1 .. n /\ listed \in Seq(Apps)
      /\ \A k \in 1 .. n : listed[k] \in Apps
      /\ NullApp \notin Apps /\ Shown = listed
  BY ListFacts, WhatIsFound DEF ListTypes
<1>2. /\ listed' = Sublist(listed, K) /\ list_cnt' = m /\ list_p' = LastKept(listed')
      /\ end_p' = (IF listed' = <<>> THEN NullApp ELSE Head(listed'))
      /\ entry' = Relinked(listed') /\ freed' = freed \cup (ToSet(listed) \ ToSet(listed')) /\ wrong' = wrong
  <2>1. Shown = listed
    BY <1>1
  <2> QED
    BY <2>1 DEF OpDelAppList
<1>3. /\ listed' \in Seq(Apps)
      /\ \A k \in DOMAIN listed' : Place(K, k) \in K /\ listed'[k] = listed[Place(K, k)]
      /\ \A j, k \in DOMAIN listed' : j < k => Place(K, j) < Place(K, k)
  <2>1. K \in SUBSET DOMAIN listed
    OBVIOUS
  <2> HIDE DEF K
  <2> QED
    <3>1. listed \in Seq(Apps)
      BY DEF ListTypes
    <3>2. /\ Sublist(listed, K) \in Seq(Apps)
          /\ \A k \in DOMAIN Sublist(listed, K) : Place(K, k) \in K /\ Sublist(listed, K)[k] = listed[Place(K, k)]
          /\ \A j, k \in DOMAIN Sublist(listed, K) : j < k => Place(K, j) < Place(K, k)
      BY <2>1, <3>1, SublistElements
    <3> QED
      BY <1>2, <3>2
<1>4. /\ m \in Nat /\ DOMAIN listed' = 1 .. m
      /\ \A k \in 1 .. m : listed'[k] \in Apps
      /\ listed' = <<>> <=> m = 0
      /\ listed' # <<>> => Head(listed') = listed'[1] /\ Last(listed') = listed'[m]
  BY <1>3 DEF Last
<1>5. ASSUME NEW j \in 1 .. m, NEW k \in 1 .. m, j < k PROVE listed'[j] # listed'[k]
  <2>1. /\ Place(K, j) \in 1 .. n /\ Place(K, k) \in 1 .. n /\ Place(K, j) < Place(K, k)
        /\ listed'[j] = listed[Place(K, j)] /\ listed'[k] = listed[Place(K, k)]
    BY <1>1, <1>3, <1>4, <1>5
  <2>2. \A x, y \in 1 .. n : x < y => listed[x] # listed[y]
    BY <1>1 DEF ListChain
  <2> QED
    BY <2>1, <2>2
<1>6. \A j, k \in 1 .. m : listed'[j] = listed'[k] => j = k
  <2>1. \A j, k \in 1 .. m : j = k \/ j < k \/ k < j
    BY <1>4
  <2> QED
    BY <1>5, <2>1
<1>7. \A b \in Apps : b \in ToSet(listed') <=> \E k \in 1 .. m : listed'[k] = b
  BY <1>4 DEF ToSet
<1>8. \A a \in Apps : entry'[a] = IF a \notin ToSet(listed') THEN Unwritten ELSE [entry[a] EXCEPT !.next =
     IF \E k \in 2 .. m : listed'[k - 1] = a
     THEN listed'[CHOOSE k \in 2 .. m : listed'[k - 1] = a] ELSE NullApp]
  BY <1>2 DEF Relinked
<1>9. \A k \in 1 .. m : /\ entry'[listed'[k]].next = IF k < m THEN listed'[k + 1] ELSE NullApp
                        /\ entry'[listed'[k]] \in EntrySet
                        /\ entry'[listed'[k]].port = entry[listed'[k]].port
                        /\ entry'[listed'[k]].status = entry[listed'[k]].status
  <2> TAKE k \in 1 .. m
  <2> DEFINE a == listed'[k]
             S == {l \in 2 .. m : listed'[l - 1] = a}
             next == IF S # {} THEN listed'[CHOOSE l \in S : TRUE] ELSE NullApp
  <2>1. a \in Apps /\ a \in ToSet(listed') /\ k \in Nat /\ k <= m
    BY <1>4, <1>7
  <2>2. \A l \in 2 .. m : listed'[l - 1] = a => l = k + 1
    <3>1. \A l \in 2 .. m : l - 1 \in 1 .. m /\ l \in Nat
      BY <1>4
    <3>2. \A l \in 2 .. m : listed'[l - 1] = a => l - 1 = k
      BY <1>6, <3>1
    <3> QED
      BY <2>1, <3>1, <3>2
  <2>3. k < m => k + 1 \in 2 .. m /\ (k + 1) - 1 = k
    BY <1>4, <2>1
  <2>4. k + 1 \in 2 .. m => k < m
    BY <1>4, <2>1
  <2>5. (IF \E l \in 2 .. m : listed'[l - 1] = a
         THEN listed'[CHOOSE l \in 2 .. m : listed'[l - 1] = a] ELSE NullApp)
        = IF k < m THEN listed'[k + 1] ELSE NullApp
    <3>1. CASE k < m
      <4>1. k + 1 \in 2 .. m /\ listed'[(k + 1) - 1] = a
        BY <2>3, <3>1
      <4>2. (CHOOSE l \in 2 .. m : listed'[l - 1] = a) = k + 1
        <5>1. \E l \in 2 .. m : listed'[l - 1] = a
          BY <4>1
        <5> HIDE DEF a
        <5> QED
          BY <2>2, <5>1
      <4> QED
        BY <3>1, <4>1, <4>2
    <3>2. CASE ~(k < m)
      <4>1. ~ \E l \in 2 .. m : listed'[l - 1] = a
        <5> HIDE DEF a
        <5> QED
          BY <2>2, <2>4, <3>2
      <4> QED
        BY <3>2, <4>1
    <3> QED
      BY <3>1, <3>2
  <2>6. entry'[a] = [entry[a] EXCEPT !.next = IF k < m THEN listed'[k + 1] ELSE NullApp]
    <3> HIDE DEF a
    <3> QED
      BY <1>8, <2>1, <2>5
  <2>7. (IF k < m THEN listed'[k + 1] ELSE NullApp) \in Pointers
    <3>1. k < m => k + 1 \in 1 .. m
      BY <1>4, <2>1
    <3> QED
      BY <1>4, <3>1 DEF Pointers
  <2>8. entry[a] \in EntrySet
    BY <2>1 DEF ListTypes
  <2> HIDE DEF a
  <2>9. \A e \in EntrySet, p \in Pointers :
          /\ [e EXCEPT !.next = p] \in EntrySet /\ [e EXCEPT !.next = p].next = p
          /\ [e EXCEPT !.next = p].port = e.port /\ [e EXCEPT !.next = p].status = e.status
    BY DEF EntrySet
  <2>10. /\ entry'[a].next = IF k < m THEN listed'[k + 1] ELSE NullApp
         /\ entry'[a] \in EntrySet
         /\ entry'[a].port = entry[a].port
         /\ entry'[a].status = entry[a].status
    BY <2>6, <2>7, <2>8, <2>9
  <2> QED
    BY <2>10 DEF a
<1>10. ListTypes'
  <2>1. \A b \in Apps : entry'[b] \in EntrySet
    <3>1. Unwritten \in EntrySet
      BY DEF Unwritten, EntrySet, Pointers, States
    <3> QED
      BY <1>7, <1>8, <1>9, <3>1
  <2>2. entry' \in [Apps -> EntrySet]
    BY <1>2, <2>1 DEF Relinked
  <2>3. m # 0 => listed'[1] \in Apps /\ listed'[m] \in Apps
    BY <1>4
  <2>4. end_p' \in Pointers /\ list_p' \in Pointers
    BY <1>2, <1>4, <2>3 DEF Pointers, LastKept
  <2>5. ToSet(listed) \in SUBSET Apps
    BY <1>1 DEF ToSet
  <2>6. freed' \in SUBSET Apps
    BY <1>2, <2>5 DEF ListTypes
  <2> QED
    BY <1>3, <2>2, <2>4, <2>6 DEF ListTypes
<1>11. Rest' = NullApp
  <2>1. m # 0 => entry'[listed'[m]].next = NullApp
    BY <1>4, <1>9
  <2> QED
    BY <1>2, <1>4, <2>1 DEF Rest
<1>12. \A k \in DOMAIN listed' : listed'[k] \notin freed'
  <2>1. \A k \in DOMAIN listed' : listed'[k] \in ToSet(listed')
    BY <1>4, <1>7
  <2>2. \A k \in DOMAIN listed : listed[k] \notin freed
    BY DEF ListChain
  <2>3. K \subseteq DOMAIN listed
    OBVIOUS
  <2> HIDE DEF K
  <2> QED
    BY <1>2, <1>3, <2>1, <2>2, <2>3
<1>13. ListChain'
  <2>1. Rest' \in Bad'
    BY <1>11 DEF Bad
  <2>2. listed' # <<>> => end_p' = listed'[1]
    BY <1>2, <1>4
  <2>3. \A k \in DOMAIN listed' : k < m => entry'[listed'[k]].next = listed'[k + 1]
    BY <1>4, <1>9
  <2>4. \A j, k \in DOMAIN listed' : listed'[j] = listed'[k] => j = k
    BY <1>4, <1>6
  <2> QED
    BY <1>2, <1>12, <2>1, <2>2, <2>3, <2>4 DEF ListChain
<1>14. ListTail'
  BY <1>2, <1>4, <1>11 DEF ListTail, LastKept
<1>15. Thinned
  <2>1. \A k \in DOMAIN listed' :
          /\ Place(K, k) \in DOMAIN listed /\ listed'[k] = listed[Place(K, k)]
          /\ entry'[listed[Place(K, k)]].port = entry[listed[Place(K, k)]].port
          /\ entry'[listed[Place(K, k)]].status = entry[listed[Place(K, k)]].status
    <3>1. K \subseteq DOMAIN listed
      OBVIOUS
    <3> HIDE DEF K
    <3> QED
      BY <1>3, <1>4, <1>9, <3>1
  <2>2. \A b \in freed' : b \in freed \/ \E j \in DOMAIN listed : listed[j] = b
    BY <1>2 DEF ToSet
  <2> HIDE DEF K
  <2> QED
    BY <2>1, <2>2 DEF Thinned
<1> QED
  BY <1>2, <1>10, <1>13, <1>14, <1>15

\* So does one that leaves the whole list alone.
LEMMA KeptStep ==
  ASSUME ListTypes, ListChain, ListTail, KeepsList, listed' = listed, asked' = asked
  PROVE  ListTypes' /\ ListChain' /\ ListTail' /\ Thinned
<1>1. UNCHANGED <<end_p, list_p, list_cnt, entry, freed, listed, asked>>
  BY DEF KeepsList
<1>2. ListTypes'
  BY <1>1 DEF ListTypes
<1>3. ListChain' /\ ListTail'
  BY <1>1, SameChain
<1>4. Thinned
  BY <1>1 DEF Thinned
<1> QED
  BY <1>2, <1>3, <1>4

\* A walk that finds nothing leaves the list as it is.
LEMMA NothingFoundStep ==
  ASSUME ListTypes, ListChain, ListTail, NothingFound, asked' = asked
  PROVE  ListTypes' /\ ListChain' /\ ListTail' /\ Thinned /\ KeepsList /\ listed' = listed /\ (wrong' => asked > 0)
<1>1. KeepsList /\ listed' = listed /\ wrong' = Strays
  BY DEF NothingFound
<1>2. Strays => Rest \in freed
  BY WhatIsFound
<1>3. NullApp \notin freed
  BY ListFacts DEF ListTypes
<1>4. wrong' => asked > 0
  BY <1>1, <1>2, <1>3 DEF ListTail
<1> QED
  BY <1>1, <1>4, KeptStep

\* And one that sets a field, other than next, of one entry.
LEMMA FieldStep ==
  ASSUME ListTypes, ListChain, ListTail, NEW a \in Apps, NEW e \in EntrySet,
         e.next = entry[a].next, entry' = [entry EXCEPT ![a] = e],
         UNCHANGED <<end_p, list_p, list_cnt, freed, wrong, listed, asked>>
  PROVE  /\ ListTypes' /\ ListChain' /\ ListTail'
         /\ entry'[a] = e /\ \A b \in Apps \ {a} : entry'[b] = entry[b]
<1>1. entry' \in [Apps -> EntrySet] /\ entry'[a] = e /\ \A b \in Apps \ {a} : entry'[b] = entry[b]
  BY DEF ListTypes
<1>2. \A b \in Apps : entry'[b].next = entry[b].next
  BY <1>1
<1>3. ListTypes'
  BY <1>1 DEF ListTypes
<1> QED
  BY <1>1, <1>2, <1>3, SameChain

\* What serving request r does to the list: it adds, it changes a state, or it deletes.
SavesEntry(r) ==
  /\ r.op = "SAVE" /\ listed' = Append(listed, r.app) /\ freed' = freed
  /\ entry'[r.app].port = r.port /\ entry'[r.app].status = "INACTIVE"
  /\ \A b \in Apps \ {r.app} : entry'[b].port = entry[b].port /\ entry'[b].status = entry[b].status
ChangesEntry(r) ==
  /\ r.op = "CHANGE" /\ listed' = listed /\ freed' = freed
  /\ \A b \in Apps : entry'[b].port = entry[b].port
  /\ \A b \in Apps \ {r.app} : entry'[b].status = entry[b].status
  /\ (\E k \in DOMAIN listed : listed[k] = r.app) => entry'[r.app].status = r.status
DeletesEntries(r) == r.op \notin {"SAVE", "CHANGE"} /\ Thinned

\* A state that is told reaches the entry of its application, when there is one.
LEMMA ChangeStep ==
  ASSUME ListTypes, ListChain, ListTail, ~wrong, asked' = asked,
         NEW r \in RequestSet, r.app \in Apps, r.op = "CHANGE", OpChangeAppMsg(r.app, r.status)
  PROVE  /\ wrong' => asked > 0
         /\ ~wrong' => ListTypes' /\ ListChain' /\ ListTail' /\ ChangesEntry(r)
<1> DEFINE a == r.app
<1>1. Finds({a}) <=> \E k \in DOMAIN listed : listed[k] = a
  BY WhatIsFound
<1>2. CASE Finds({a})
  <2>1. /\ entry' = [entry EXCEPT ![a].status = r.status]
        /\ UNCHANGED <<end_p, list_p, list_cnt, freed, wrong, listed, asked>>
    BY <1>2 DEF OpChangeAppMsg
  <2> DEFINE e == [entry[a] EXCEPT !.status = r.status]
  <2>2. entry[a] \in EntrySet /\ r.status \in States
    BY DEF ListTypes, RequestSet
  <2>3. e \in EntrySet /\ e.next = entry[a].next /\ e.port = entry[a].port /\ e.status = r.status
    BY <2>2 DEF EntrySet
  <2>4. entry' = [entry EXCEPT ![a] = e]
    BY <2>1
  <2> HIDE DEF e
  <2>5. /\ ListTypes' /\ ListChain' /\ ListTail'
        /\ entry'[a] = e /\ \A b \in Apps \ {a} : entry'[b] = entry[b]
    BY <2>1, <2>3, <2>4, FieldStep
  <2> QED
    BY <2>1, <2>3, <2>5 DEF ChangesEntry
<1>3. CASE ~Finds({a})
  <2>1. NothingFound
    BY <1>3 DEF OpChangeAppMsg
  <2>2. /\ ListTypes' /\ ListChain' /\ ListTail' /\ (wrong' => asked > 0)
        /\ entry' = entry /\ freed' = freed /\ listed' = listed
    BY <2>1, NothingFoundStep DEF KeepsList
  <2> QED
    BY <1>1, <1>3, <2>2 DEF ChangesEntry
<1> QED
  BY <1>2, <1>3

\* GET_APP marks an entry.
LEMMA GetAppStep ==
  ASSUME ListTypes, ListChain, ListTail, ~wrong, asked' = asked, NEW title, OpGetApp(title)
  PROVE  /\ wrong' => asked > 0
         /\ ListTypes' /\ ListChain' /\ ListTail' /\ Thinned
<1> DEFINE fresh == {a \in Apps : TitleOf[a] = title /\ ~entry[a].flag}
<1>1. CASE Finds(fresh)
  <2>1. PICK k \in DOMAIN listed : FirstMet(fresh) = listed[k]
    BY <1>1, WhatIsFound
  <2>2. listed[k] \in Apps
    BY ListFacts
  <2>3. /\ entry' = [entry EXCEPT ![listed[k]].flag = TRUE]
        /\ UNCHANGED <<end_p, list_p, list_cnt, freed, wrong, listed, asked>>
    BY <1>1, <2>1 DEF OpGetApp
  <2> DEFINE a == listed[k]
             e == [entry[a] EXCEPT !.flag = TRUE]
  <2>4. entry[a] \in EntrySet
    BY <2>2 DEF ListTypes
  <2>5. e \in EntrySet /\ e.next = entry[a].next /\ e.port = entry[a].port /\ e.status = entry[a].status
    BY <2>4 DEF EntrySet
  <2>6. entry' = [entry EXCEPT ![a] = e]
    BY <2>3
  <2> HIDE DEF e
  <2>7. /\ ListTypes' /\ ListChain' /\ ListTail'
        /\ entry'[a] = e /\ \A b \in Apps \ {a} : entry'[b] = entry[b]
    <3> HIDE DEF a
    <3> QED
      BY <2>2, <2>3, <2>5, <2>6, FieldStep DEF a
  <2>8. \A j \in DOMAIN listed : /\ entry'[listed[j]].port = entry[listed[j]].port
                                 /\ entry'[listed[j]].status = entry[listed[j]].status
    BY <2>5, <2>7, ListFacts
  <2>9. Thinned
    BY <2>3, <2>8 DEF Thinned
  <2> QED
    BY <2>3, <2>7, <2>9
<1>2. CASE ~Finds(fresh)
  <2>1. NothingFound
    BY <1>2 DEF OpGetApp
  <2> QED
    BY <2>1, NothingFoundStep
<1> QED
  BY <1>1, <1>2

\* DEL_APP and KILL_APP delete an entry or leave the list as it is.
LEMMA DeletionStep ==
  ASSUME ListTypes, ListChain, ListTail, ~wrong, asked' = asked, asked > 0, NEW a \in Apps,
         OpDelApp(a) \/ delete_app(a)
  PROVE  ListTypes' /\ ListChain' /\ ListTail' /\ Thinned
<1>1. CASE Finds({a}) /\ Unlink(a)
  <2>1. PICK i \in DOMAIN listed : listed[i] = a
    BY <1>1, WhatIsFound
  <2> QED
    BY <1>1, <2>1, UnlinkStep
<1>2. CASE KeepsList /\ listed' = listed
  BY <1>2, KeptStep
<1> QED
  BY <1>1, <1>2 DEF OpDelApp, delete_app, NothingFound

\* What a request served does to the list.
LEMMA ListServed ==
  ASSUME ListTypes, DacTypes, ListChain, ListTail, DeletionsAsked, SavesFirst, ~wrong, ServesNext
  PROVE  /\ wrong' => asked > 0
         /\ ~wrong' => /\ ListTypes' /\ ListChain' /\ ListTail'
                       /\ SavesEntry(Head(requests)) \/ ChangesEntry(Head(requests)) \/ DeletesEntries(Head(requests))
<1> DEFINE r == Head(requests)
<1>1. /\ asked' = asked /\ 1 \in DOMAIN requests /\ r = requests[1] /\ r \in RequestSet
      /\ r.op \in Asked => r.app \in Apps
  BY DEF ServesNext, DacTypes
<1> HIDE DEF r
<1>2. CASE r.op = "SAVE" /\ OpSaveAppMsg(r.app, r.port)
  <2>1. r.app \in Apps /\ r.port \in Nat /\ r.app \notin freed /\ \A k \in DOMAIN listed : listed[k] # r.app
    BY <1>1, <1>2 DEF SavesFirst, Asked, RequestSet
  <2>2. /\ wrong' => asked > 0
        /\ ListTypes' /\ (~wrong' => ListChain' /\ ListTail')
        /\ entry'[r.app].port = r.port /\ entry'[r.app].status = "INACTIVE"
        /\ \A b \in Apps \ {r.app} : entry'[b].port = entry[b].port /\ entry'[b].status = entry[b].status
    BY <1>1, <1>2, <2>1, SaveStep
  <2>3. listed' = Append(listed, r.app) /\ freed' = freed
    BY <1>2 DEF OpSaveAppMsg
  <2> QED
    BY <1>2, <2>2, <2>3 DEF SavesEntry, r
<1>3. CASE r.op = "CHANGE" /\ OpChangeAppMsg(r.app, r.status)
  <2>1. r.app \in Apps
    BY <1>1, <1>3 DEF Asked
  <2>2. /\ wrong' => asked > 0
        /\ ~wrong' => ListTypes' /\ ListChain' /\ ListTail' /\ ChangesEntry(r)
    BY <1>1, <1>3, <2>1, ChangeStep
  <2> QED
    BY <2>2 DEF r
<1>4. CASE r.op = "GET_APP" /\ OpGetApp(TitleOf[r.app])
  <2>1. /\ wrong' => asked > 0
        /\ ListTypes' /\ ListChain' /\ ListTail' /\ Thinned
    BY <1>1, <1>4, GetAppStep
  <2> QED
    BY <1>4, <2>1 DEF DeletesEntries, r
<1>5. CASE r.op \in {"DEL_APP", "KILL_APP"} /\ (OpDelApp(r.app) \/ delete_app(r.app))
  <2>1. r.app \in Apps /\ asked > 0
    BY <1>1, <1>5 DEF Asked, DeletionsAsked
  <2>2. ListTypes' /\ ListChain' /\ ListTail' /\ Thinned
    BY <1>1, <1>5, <2>1, DeletionStep
  <2> QED
    BY <1>5, <2>1, <2>2 DEF DeletesEntries, r
<1>6. CASE r.op = "DEL_LIST" /\ OpDelAppList
  <2>1. CASE Strays
    <3>1. NothingFound
      BY <1>6, <2>1 DEF OpDelAppList
    <3> QED
      BY <1>1, <1>6, <3>1, NothingFoundStep DEF DeletesEntries, r
  <2>2. CASE ~Strays
    <3>1. ListTypes' /\ ListChain' /\ ListTail' /\ Thinned /\ wrong' = wrong
      BY <1>1, <1>6, <2>2, DelAppListStep
    <3> QED
      BY <1>6, <3>1 DEF DeletesEntries, r
  <2> QED
    BY <2>1, <2>2
<1>7. CASE r.op = "LIST" /\ OpGetAppList
  <2>1. KeepsList /\ wrong' = wrong /\ listed' = listed
    BY <1>7 DEF OpGetAppList
  <2>2. ListTypes' /\ ListChain' /\ ListTail' /\ Thinned
    BY <1>1, <2>1, KeptStep
  <2> QED
    BY <1>7, <2>1, <2>2 DEF DeletesEntries, r
<1> QED
  BY <1>2, <1>3, <1>4, <1>5, <1>6, <1>7 DEF ServesNext, r

\* The monitor is shown what is listed, and its types and those of the requests are kept.
LEMMA ViewServed ==
  ASSUME ListTypes, ListChain, DacTypes, ServesNext
  PROVE  /\ DacTypes'
         /\ \A k \in DOMAIN monitor'.view :
              \/ k \in DOMAIN monitor.view /\ monitor'.view[k] = monitor.view[k]
              \/ /\ k \in DOMAIN listed /\ monitor'.view[k].app = listed[k]
                 /\ monitor'.view[k].port \in {0, entry[listed[k]].port}
<1> DEFINE r == Head(requests)
<1>1. /\ requests \in Seq(RequestSet) /\ requests # <<>> /\ requests' = Tail(requests)
      /\ UNCHANGED <<controller, dacport, asked>>
      /\ \/ monitor' = monitor
         \/ OpGetAppList
  BY DEF ServesNext, DacTypes
<1>2. /\ requests' \in Seq(RequestSet)
      /\ \A k \in DOMAIN requests' : k + 1 \in DOMAIN requests /\ requests'[k] = requests[k + 1]
  BY <1>1
<1>3. \A k \in DOMAIN requests' : requests'[k].op \in Asked => requests'[k].app \in Apps
  BY <1>2 DEF DacTypes
<1>4. CASE monitor' = monitor
  BY <1>1, <1>2, <1>3, <1>4 DEF DacTypes
<1>5. CASE OpGetAppList
  <2>1. Shown = listed /\ Len(listed) \in Nat /\ DOMAIN listed = 1 .. Len(listed)
        /\ \A k \in 1 .. Len(listed) : listed[k] \in Apps
    BY WhatIsFound, ListFacts
  <2> DEFINE V == [k \in 1 .. Len(listed) |->
               [app |-> listed[k], port |-> IF entry[listed[k]].status = "ENDED" THEN 0 ELSE entry[listed[k]].port]]
  <2>2. monitor' = [at |-> "menu", view |-> V]
    BY <1>5, <2>1 DEF OpGetAppList
  <2>3. \A k \in 1 .. Len(listed) : /\ V[k] \in [app : Apps, port : Nat]
                                    /\ V[k].app = listed[k] /\ V[k].port \in {0, entry[listed[k]].port}
    <3> TAKE k \in 1 .. Len(listed)
    <3>1. entry[listed[k]].port \in Nat
      BY <2>1 DEF ListTypes, EntrySet
    <3> DEFINE p == IF entry[listed[k]].status = "ENDED" THEN 0 ELSE entry[listed[k]].port
    <3>2. p \in Nat /\ p \in {0, entry[listed[k]].port} /\ listed[k] \in Apps
      BY <2>1, <3>1
    <3>3. V[k] = [app |-> listed[k], port |-> p]
      OBVIOUS
    <3> HIDE DEF p, V
    <3> QED
      BY <3>2, <3>3
  <2>4. V \in Seq([app : Apps, port : Nat]) /\ DOMAIN V = 1 .. Len(listed)
    <3>1. V \in [1 .. Len(listed) -> [app : Apps, port : Nat]]
      BY <2>3
    <3>2. Len(listed) \in Nat
      BY <2>1
    <3> DEFINE View == [app : Apps, port : Nat]
    <3>3. V \in [1 .. Len(listed) -> View]
      BY <3>1
    <3> HIDE DEF V, View
    <3>4. V \in Seq(View) /\ DOMAIN V = 1 .. Len(listed)
      BY <3>2, <3>3
    <3> QED
      BY <3>4 DEF View
  <2> HIDE DEF V
  <2>5. monitor'.view = V
    BY <2>2
  <2>6. monitor' \in [at : {"look", "waits", "menu", "kills"}, view : Seq([app : Apps, port : Nat])]
    BY <2>2, <2>4
  <2>7. DacTypes'
    BY <1>1, <1>2, <1>3, <2>6 DEF DacTypes, Views
  <2> QED
    BY <2>1, <2>3, <2>4, <2>5, <2>7
<1> QED
  BY <1>1, <1>4, <1>5

\* What DACs report stays true when the CID serves a request.
LEMMA ReportsServed ==
  ASSUME ListTypes, ListChain, DacTypes, ReportsInv, ServesNext,
         SavesEntry(Head(requests)) \/ ChangesEntry(Head(requests)) \/ DeletesEntries(Head(requests))
  PROVE  ReportsInv'
<1> DEFINE r == Head(requests)
<1>1. /\ requests # <<>> /\ r = requests[1] /\ 1 \in DOMAIN requests /\ r \in RequestSet
      /\ \A k \in DOMAIN requests' : k \in Nat /\ k + 1 \in DOMAIN requests /\ requests'[k] = requests[k + 1]
      /\ \A k \in DOMAIN requests : k = 1 \/ (k - 1 \in DOMAIN requests' /\ requests'[k - 1] = requests[k] /\ k \in Nat)
      /\ UNCHANGED <<controller, dacport, asked>>
  <2>1. requests \in Seq(RequestSet) /\ requests # <<>> /\ requests' = Tail(requests)
        /\ UNCHANGED <<controller, dacport, asked>>
    BY DEF ServesNext, DacTypes
  <2>2. /\ \A k \in DOMAIN requests' : k \in Nat /\ k + 1 \in DOMAIN requests /\ requests'[k] = requests[k + 1]
        /\ 1 \in DOMAIN requests /\ r = requests[1] /\ r \in RequestSet
    BY <2>1
  <2>3. ASSUME NEW k \in DOMAIN requests, k # 1
        PROVE  k - 1 \in DOMAIN requests' /\ requests'[k - 1] = requests[k] /\ k \in Nat
    <3>1. k - 1 \in DOMAIN requests' /\ k \in Nat
      BY <2>1, <2>3
    <3> QED
      BY <2>2, <3>1
  <2> QED
    BY <2>1, <2>2, <2>3
<1>2. SavesEntry(r) \/ ChangesEntry(r) \/ DeletesEntries(r)
  OBVIOUS
<1>3. r.op \in Asked => r.app \in Apps
  BY <1>1 DEF DacTypes
<1> HIDE DEF r
<1>4. Len(listed) \in Nat /\ DOMAIN listed = 1 .. Len(listed) /\ (\A k \in DOMAIN listed : listed[k] \in Apps)
  BY ListFacts
\* What is listed or freed then.
<1>5. ASSUME NEW k \in DOMAIN listed'
      PROVE  \/ /\ \E j \in DOMAIN listed : listed[j] = listed'[k]
                /\ entry'[listed'[k]].port = entry[listed'[k]].port
                /\ entry'[listed'[k]].status = entry[listed'[k]].status \/ (r.op = "CHANGE" /\ listed'[k] = r.app)
             \/ r.op = "SAVE" /\ r.app \in Apps /\ listed'[k] = r.app /\ entry'[r.app].port = r.port /\ entry'[r.app].status = "INACTIVE"
  <2>1. CASE SavesEntry(r)
    <3>1. listed' = Append(listed, r.app) /\ r.app \in Apps
      BY <1>3, <2>1 DEF SavesEntry, Asked
    <3>2. (k \in DOMAIN listed /\ listed'[k] = listed[k]) \/ listed'[k] = r.app
      BY <3>1 DEF ListTypes
    <3> QED
      BY <1>4, <2>1, <3>1, <3>2 DEF SavesEntry
  <2>2. CASE ChangesEntry(r)
    <3>1. listed' = listed /\ listed[k] \in Apps
      BY <1>4, <2>2 DEF ChangesEntry
    <3> QED
      BY <2>2, <3>1 DEF ChangesEntry
  <2>3. CASE DeletesEntries(r)
    BY <2>3 DEF DeletesEntries, Thinned
  <2> QED
    BY <1>2, <2>1, <2>2, <2>3
<1>6. \A b \in freed' : b \in freed \/ \E j \in DOMAIN listed : listed[j] = b
  BY <1>2 DEF SavesEntry, ChangesEntry, DeletesEntries, Thinned
<1>7. \A k \in DOMAIN monitor'.view :
        \/ k \in DOMAIN monitor.view /\ monitor'.view[k] = monitor.view[k]
        \/ /\ k \in DOMAIN listed /\ monitor'.view[k].app = listed[k]
           /\ monitor'.view[k].port \in {0, entry[listed[k]].port}
  BY ViewServed
<1>8. DeletionsAsked'
  BY <1>1 DEF DeletionsAsked, ReportsInv
<1>9. SavesFirst'
  <2> SUFFICES ASSUME NEW k \in DOMAIN requests', requests'[k].op = "SAVE"
               PROVE  /\ \A j \in 1 .. (k - 1) : requests'[j].app # requests'[k].app
                      /\ requests'[k].app \notin freed' /\ \A j \in DOMAIN listed' : listed'[j] # requests'[k].app
    BY DEF SavesFirst
  <2> DEFINE b == requests'[k].app
  <2>1. /\ k \in Nat /\ k + 1 \in DOMAIN requests /\ requests'[k] = requests[k + 1]
        /\ \A j \in 1 .. ((k + 1) - 1) : requests[j].app # b
        /\ b \notin freed /\ \A j \in DOMAIN listed : listed[j] # b
    BY <1>1 DEF SavesFirst, ReportsInv
  <2>2. ASSUME NEW j \in 1 .. (k - 1) PROVE requests'[j].app # b
    <3>1. j \in DOMAIN requests' /\ j + 1 \in 1 .. ((k + 1) - 1)
      <4>1. DOMAIN requests' = 1 .. Len(requests')
        BY ViewServed DEF DacTypes
      <4> QED
        BY <2>1, <4>1
    <3>2. requests'[j] = requests[j + 1]
      BY <1>1, <3>1
    <3> QED
      BY <2>1, <3>1, <3>2
  <2>3. r.app # b
    <3>1. 1 \in 1 .. ((k + 1) - 1)
      <4>1. DOMAIN requests' = 1 .. Len(requests')
        BY ViewServed DEF DacTypes
      <4> QED
        BY <2>1, <4>1
    <3> QED
      BY <1>1, <2>1, <3>1
  <2> HIDE DEF b
  <2>4. b \notin freed'
    BY <1>6, <2>1
  <2>5. \A j \in DOMAIN listed' : listed'[j] # b
    BY <1>5, <2>1, <2>3
  <2> QED
    BY <2>2, <2>4, <2>5 DEF b
<1>10. NoneIsUnknown'
  <2> SUFFICES ASSUME NEW a \in Apps, controller'[a] = "none" PROVE Unknown(a)'
    BY DEF NoneIsUnknown
  <2>1. Unknown(a)
    BY <1>1 DEF NoneIsUnknown, ReportsInv
  <2>2. dacport'[a] = 0 /\ a \notin freed'
    BY <1>1, <1>6, <2>1 DEF Unknown
  <2>3. \A k \in DOMAIN requests' : requests'[k].app # a
    BY <1>1, <2>1 DEF Unknown
  <2>4. r.app # a
    BY <1>1, <2>1 DEF Unknown
  <2>5. \A k \in DOMAIN listed' : listed'[k] # a
    BY <1>5, <2>1, <2>4 DEF Unknown
  <2>6. \A k \in DOMAIN monitor'.view : monitor'.view[k].app # a
    BY <1>7, <2>1 DEF Unknown
  <2> QED
    BY <2>2, <2>3, <2>5, <2>6 DEF Unknown
<1>11. PortsAgree'
  <2> SUFFICES ASSUME NEW a \in Apps, dacport'[a] # 0
      PROVE  /\ \A k \in DOMAIN listed' : listed'[k] = a => entry'[a].port = dacport'[a]
             /\ \A k \in DOMAIN requests' : requests'[k].op = "SAVE" /\ requests'[k].app = a => requests'[k].port = dacport'[a]
             /\ \A k \in DOMAIN monitor'.view : monitor'.view[k].app = a => monitor'.view[k].port \in {0, dacport'[a]}
    BY DEF PortsAgree
  <2>1. /\ dacport' = dacport
        /\ \A k \in DOMAIN listed : listed[k] = a => entry[a].port = dacport[a]
        /\ \A k \in DOMAIN requests : requests[k].op = "SAVE" /\ requests[k].app = a => requests[k].port = dacport[a]
        /\ \A k \in DOMAIN monitor.view : monitor.view[k].app = a => monitor.view[k].port \in {0, dacport[a]}
    BY <1>1 DEF PortsAgree, ReportsInv
  <2>2. \A k \in DOMAIN listed' : listed'[k] = a => entry'[a].port = dacport[a]
    BY <1>1, <1>5, <2>1
  <2>3. \A k \in DOMAIN requests' : requests'[k].op = "SAVE" /\ requests'[k].app = a => requests'[k].port = dacport[a]
    BY <1>1, <2>1
  <2>4. \A k \in DOMAIN monitor'.view : monitor'.view[k].app = a => monitor'.view[k].port \in {0, dacport[a]}
    BY <1>7, <2>1
  <2> QED
    BY <2>1, <2>2, <2>3, <2>4
<1>12. StatesAgree'
  <2> SUFFICES ASSUME NEW a \in Apps, dacport'[a] # 0
      PROVE  /\ \A k \in DOMAIN requests' : Tells(k, a)' /\ (\A j \in DOMAIN requests' : Tells(j, a)' => j <= k) => requests'[k].status = controller'[a]
             /\ (\A k \in DOMAIN requests' : ~Tells(k, a)') =>
                  /\ \A k \in DOMAIN requests' : requests'[k].op = "SAVE" /\ requests'[k].app = a => controller'[a] = "INACTIVE"
                  /\ \A k \in DOMAIN listed' : listed'[k] = a => entry'[a].status = controller'[a]
    BY DEF StatesAgree
  <2>1. /\ controller' = controller
        /\ \A k \in DOMAIN requests : Tells(k, a) /\ (\A j \in DOMAIN requests : Tells(j, a) => j <= k) => requests[k].status = controller[a]
        /\ (\A k \in DOMAIN requests : ~Tells(k, a)) =>
             /\ \A k \in DOMAIN requests : requests[k].op = "SAVE" /\ requests[k].app = a => controller[a] = "INACTIVE"
             /\ \A k \in DOMAIN listed : listed[k] = a => entry[a].status = controller[a]
    BY <1>1 DEF StatesAgree, ReportsInv
  <2>2. \A k \in DOMAIN requests' : Tells(k, a)' <=> Tells(k + 1, a)
    BY <1>1 DEF Tells
  <2>3. \A k \in DOMAIN requests : k # 1 => (Tells(k, a) <=> Tells(k - 1, a)')
    BY <1>1 DEF Tells
  <2>4. ASSUME NEW k \in DOMAIN requests', Tells(k, a)', \A j \in DOMAIN requests' : Tells(j, a)' => j <= k
        PROVE  requests'[k].status = controller'[a]
    <3>1. k \in Nat /\ k + 1 \in DOMAIN requests /\ Tells(k + 1, a) /\ requests'[k] = requests[k + 1]
      BY <1>1, <2>2, <2>4
    <3>2. ASSUME NEW j \in DOMAIN requests, Tells(j, a) PROVE j <= k + 1
      <4>1. CASE j = 1
        BY <3>1, <4>1
      <4>2. CASE j # 1
        <5>1. j \in Nat /\ j - 1 \in DOMAIN requests' /\ Tells(j - 1, a)'
          BY <1>1, <2>3, <3>2, <4>2
        <5>2. j - 1 <= k
          BY <2>4, <5>1
        <5> QED
          BY <3>1, <5>1, <5>2
      <4> QED
        BY <4>1, <4>2
    <3> QED
      BY <2>1, <3>1, <3>2
  <2>5. ASSUME \A k \in DOMAIN requests' : ~Tells(k, a)'
        PROVE  /\ \A k \in DOMAIN requests' : requests'[k].op = "SAVE" /\ requests'[k].app = a => controller'[a] = "INACTIVE"
               /\ \A k \in DOMAIN listed' : listed'[k] = a => entry'[a].status = controller'[a]
    <3>1. \A k \in DOMAIN requests : Tells(k, a) => k = 1
      BY <1>1, <2>3, <2>5
    <3>2. CASE Tells(1, a)
      <4>1. r.op = "CHANGE" /\ r.app = a /\ r.status = controller[a]
        <5>1. \A j \in DOMAIN requests : Tells(j, a) => j <= 1
          BY <3>1
        <5> QED
          BY <1>1, <2>1, <3>2, <5>1 DEF Tells
      <4>2. \A k \in DOMAIN requests' : ~(requests'[k].op = "SAVE" /\ requests'[k].app = a)
        <5> SUFFICES ASSUME NEW k \in DOMAIN requests', requests'[k].op = "SAVE", requests'[k].app = a PROVE FALSE
          OBVIOUS
        <5>1. k + 1 \in DOMAIN requests /\ requests[k + 1].op = "SAVE" /\ requests[k + 1].app = a /\ k \in Nat
          BY <1>1
        <5>2. 1 \in 1 .. ((k + 1) - 1)
          <6>1. DOMAIN requests' = 1 .. Len(requests')
            BY ViewServed DEF DacTypes
          <6> QED
            BY <5>1, <6>1
        <5> QED
          BY <1>1, <4>1, <5>1, <5>2 DEF SavesFirst, ReportsInv
      <4>3. ChangesEntry(r)
        BY <1>2, <4>1 DEF SavesEntry, DeletesEntries
      <4>4. \A k \in DOMAIN listed' : listed'[k] = a => entry'[a].status = controller'[a]
        BY <2>1, <4>1, <4>3 DEF ChangesEntry
      <4> QED
        BY <4>2, <4>4
    <3>3. CASE ~Tells(1, a)
      <4>1. \A k \in DOMAIN requests : ~Tells(k, a)
        BY <3>1, <3>3
      <4>2. /\ \A k \in DOMAIN requests : requests[k].op = "SAVE" /\ requests[k].app = a => controller[a] = "INACTIVE"
            /\ \A k \in DOMAIN listed : listed[k] = a => entry[a].status = controller[a]
        BY <2>1, <4>1
      <4>3. \A k \in DOMAIN requests' : requests'[k].op = "SAVE" /\ requests'[k].app = a => controller'[a] = "INACTIVE"
        BY <1>1, <2>1, <4>2
      <4>4. ASSUME NEW k \in DOMAIN listed', listed'[k] = a PROVE entry'[a].status = controller'[a]
        <5>1. ~(r.op = "CHANGE" /\ a = r.app)
          BY <1>1, <3>3 DEF Tells
        <5> QED
          BY <1>1, <1>5, <2>1, <4>2, <4>4, <5>1
      <4> QED
        BY <4>3, <4>4
    <3> QED
      BY <3>2, <3>3
  <2> QED
    BY <2>4, <2>5
<1> QED
  BY <1>8, <1>9, <1>10, <1>11, <1>12 DEF ReportsInv

\* A step of the DACs, pcheck or others, that leaves the list alone and may send r: r is true
\* of its DAC, and the state of a DAC that lives changes only with r.
DacStep(sent, r) ==
  /\ UNCHANGED <<listVars, listed>> /\ asked' \in {asked, asked + 1}
  /\ requests' = IF sent THEN Append(requests, r) ELSE requests
  /\ \A k \in DOMAIN monitor'.view : \E j \in DOMAIN monitor.view : monitor'.view[k] = monitor.view[j]
  /\ sent =>
       /\ r.op \in Asked => r.app \in Apps
       /\ r.op \in {"GET_APP", "DEL_APP", "KILL_APP"} => asked' > 0
       /\ r.op = "SAVE" => controller[r.app] = "none" /\ controller'[r.app] = "INACTIVE" /\ r.port = dacport'[r.app]
       /\ r.op # "SAVE" /\ r.app \in Apps => controller[r.app] # "none" /\ controller'[r.app] # "none"
       /\ r.op = "CHANGE" => dacport'[r.app] = 0 \/ r.status = controller'[r.app]
  /\ \A a \in Apps :
       \/ dacport'[a] = 0 /\ controller[a] # "none" /\ controller'[a] # "none"
       \/ dacport'[a] = dacport[a] /\ controller'[a] = controller[a]
       \/ sent /\ r.op = "SAVE" /\ r.app = a
       \/ sent /\ r.op = "CHANGE" /\ r.app = a /\ dacport'[a] = dacport[a]

\* Such a step leaves the invariant true.
LEMMA ReportsMade ==
  ASSUME ListTypes, DacTypes, ListChain, ListTail, ReportsInv,
         NEW sent \in BOOLEAN, NEW r \in RequestSet, DacStep(sent, r)
  PROVE  ListTypes' /\ ListChain' /\ ListTail' /\ ReportsInv'
<1>1. /\ UNCHANGED <<end_p, list_p, list_cnt, entry, freed, wrong, listed>>
      /\ asked \in Nat /\ asked' \in Nat /\ asked <= asked'
  BY DEF DacStep, listVars, DacTypes
<1>2. ListTypes' /\ ListChain' /\ ListTail'
  <2>1. ListTypes' /\ ListChain'
    BY <1>1 DEF ListTypes, ListChain, Rest, Bad
  <2>2. Rest' = Rest
    BY <1>1 DEF Rest
  <2> QED
    BY <1>1, <2>1, <2>2 DEF ListTail
<1> DEFINE n == Len(requests)
<1>3. /\ n \in Nat /\ DOMAIN requests = 1 .. n
      /\ DOMAIN requests' = IF sent THEN 1 .. n + 1 ELSE 1 .. n
      /\ \A k \in 1 .. n : requests'[k] = requests[k]
      /\ sent => requests'[n + 1] = r
  BY DEF DacTypes, DacStep
<1>4. \A k \in DOMAIN requests' : (k \in DOMAIN requests /\ requests'[k] = requests[k]) \/ (sent /\ k = n + 1 /\ requests'[k] = r)
  BY <1>3
<1>5. \A k \in DOMAIN monitor'.view : \E j \in DOMAIN monitor.view : monitor'.view[k] = monitor.view[j]
  BY DEF DacStep
<1>6. sent =>
       /\ r.op \in Asked => r.app \in Apps
       /\ r.op \in {"GET_APP", "DEL_APP", "KILL_APP"} => asked' > 0
       /\ r.op = "SAVE" => controller[r.app] = "none" /\ controller'[r.app] = "INACTIVE" /\ r.port = dacport'[r.app]
       /\ r.op # "SAVE" /\ r.app \in Apps => controller[r.app] # "none" /\ controller'[r.app] # "none"
       /\ r.op = "CHANGE" => dacport'[r.app] = 0 \/ r.status = controller'[r.app]
  BY DEF DacStep
<1>7. \A a \in Apps :
       \/ dacport'[a] = 0 /\ controller[a] # "none" /\ controller'[a] # "none"
       \/ dacport'[a] = dacport[a] /\ controller'[a] = controller[a]
       \/ sent /\ r.op = "SAVE" /\ r.app = a
       \/ sent /\ r.op = "CHANGE" /\ r.app = a /\ dacport'[a] = dacport[a]
  BY DEF DacStep
<1>8. sent /\ r.op = "SAVE" => r.app \in Apps /\ Unknown(r.app)
  BY <1>6 DEF Asked, ReportsInv, NoneIsUnknown
<1>9. DeletionsAsked'
  BY <1>1, <1>4, <1>6 DEF DeletionsAsked, ReportsInv
<1>10. SavesFirst'
  <2> SUFFICES ASSUME NEW k \in DOMAIN requests', requests'[k].op = "SAVE"
               PROVE  /\ \A j \in 1 .. (k - 1) : requests'[j].app # requests'[k].app
                      /\ requests'[k].app \notin freed' /\ \A j \in DOMAIN listed' : listed'[j] # requests'[k].app
    BY DEF SavesFirst
  <2>1. CASE k \in DOMAIN requests /\ requests'[k] = requests[k]
    <3>1. /\ \A j \in 1 .. (k - 1) : requests[j].app # requests[k].app
          /\ requests[k].app \notin freed /\ \A j \in DOMAIN listed : listed[j] # requests[k].app
      BY <2>1 DEF SavesFirst, ReportsInv
    <3>2. \A j \in 1 .. (k - 1) : j \in 1 .. n
      BY <1>3, <2>1
    <3> QED
      BY <1>1, <1>3, <2>1, <3>1, <3>2
  <2>2. CASE sent /\ k = n + 1 /\ requests'[k] = r
    <3>1. Unknown(r.app)
      BY <1>8, <2>2
    <3>2. \A j \in 1 .. (k - 1) : j \in 1 .. n
      BY <1>3, <2>2
    <3> QED
      BY <1>1, <1>3, <2>2, <3>1, <3>2 DEF Unknown
  <2> QED
    BY <1>4, <2>1, <2>2
<1>11. NoneIsUnknown'
  <2> SUFFICES ASSUME NEW a \in Apps, controller'[a] = "none" PROVE Unknown(a)'
    BY DEF NoneIsUnknown
  <2>1. ~(sent /\ r.app = a)
    BY <1>6
  <2>2. dacport'[a] = dacport[a] /\ controller[a] = "none"
    BY <1>7, <2>1
  <2>3. Unknown(a)
    BY <2>2 DEF NoneIsUnknown, ReportsInv
  <2> QED
    BY <1>1, <1>4, <1>5, <2>1, <2>2, <2>3 DEF Unknown
<1>12. ASSUME NEW a \in Apps, dacport'[a] # 0
       PROVE  \/ dacport'[a] = dacport[a] /\ (controller'[a] = controller[a] \/ (sent /\ r.op = "CHANGE" /\ r.app = a))
              \/ sent /\ r.op = "SAVE" /\ r.app = a /\ Unknown(a)
  BY <1>7, <1>8, <1>12
<1>13. PortsAgree'
  <2> SUFFICES ASSUME NEW a \in Apps, dacport'[a] # 0
      PROVE  /\ \A k \in DOMAIN listed' : listed'[k] = a => entry'[a].port = dacport'[a]
             /\ \A k \in DOMAIN requests' : requests'[k].op = "SAVE" /\ requests'[k].app = a => requests'[k].port = dacport'[a]
             /\ \A k \in DOMAIN monitor'.view : monitor'.view[k].app = a => monitor'.view[k].port \in {0, dacport'[a]}
    BY DEF PortsAgree
  <2>1. CASE Unknown(a)
    BY <1>1, <1>4, <1>5, <1>6, <2>1 DEF Unknown
  <2>2. CASE dacport'[a] = dacport[a]
    <3>1. /\ \A k \in DOMAIN listed : listed[k] = a => entry[a].port = dacport[a]
          /\ \A k \in DOMAIN requests : requests[k].op = "SAVE" /\ requests[k].app = a => requests[k].port = dacport[a]
          /\ \A k \in DOMAIN monitor.view : monitor.view[k].app = a => monitor.view[k].port \in {0, dacport[a]}
      BY <2>2 DEF PortsAgree, ReportsInv
    <3>2. \A k \in DOMAIN requests' : requests'[k].op = "SAVE" /\ requests'[k].app = a => requests'[k].port = dacport'[a]
      BY <1>4, <1>6, <2>2, <3>1
    <3> QED
      BY <1>1, <1>5, <2>2, <3>1, <3>2
  <2> QED
    BY <1>12, <2>1, <2>2
<1>14. StatesAgree'
  <2> SUFFICES ASSUME NEW a \in Apps, dacport'[a] # 0
      PROVE  /\ \A k \in DOMAIN requests' : Tells(k, a)' /\ (\A j \in DOMAIN requests' : Tells(j, a)' => j <= k) => requests'[k].status = controller'[a]
             /\ (\A k \in DOMAIN requests' : ~Tells(k, a)') =>
                  /\ \A k \in DOMAIN requests' : requests'[k].op = "SAVE" /\ requests'[k].app = a => controller'[a] = "INACTIVE"
                  /\ \A k \in DOMAIN listed' : listed'[k] = a => entry'[a].status = controller'[a]
    BY DEF StatesAgree
  <2>1. CASE sent /\ r.op = "CHANGE" /\ r.app = a
    <3>1. PICK l \in Nat : l = n + 1
      BY <1>3
    <3>2. Tells(l, a)' /\ l \in DOMAIN requests' /\ requests'[l].status = controller'[a]
      BY <1>3, <1>6, <2>1, <3>1 DEF Tells
    <3>3. \A k \in DOMAIN requests' : l <= k => k = l
      BY <1>3, <2>1, <3>1
    <3> QED
      BY <3>2, <3>3
  <2>2. CASE ~(sent /\ r.op = "CHANGE" /\ r.app = a)
    <3>1. /\ \A k \in DOMAIN requests' : Tells(k, a)' => k \in DOMAIN requests /\ Tells(k, a) /\ requests'[k] = requests[k]
          /\ \A k \in DOMAIN requests : k \in DOMAIN requests' /\ (Tells(k, a)' <=> Tells(k, a))
      BY <1>3, <1>4, <2>2 DEF Tells
    <3>2. CASE Unknown(a)
      <4>1. \A k \in DOMAIN requests' : ~Tells(k, a)'
        BY <3>1, <3>2 DEF Unknown, Tells
      <4>2. \A k \in DOMAIN requests' : requests'[k].op = "SAVE" /\ requests'[k].app = a => controller'[a] = "INACTIVE"
        BY <1>4, <1>6, <3>2 DEF Unknown
      <4>3. \A k \in DOMAIN listed' : listed'[k] # a
        BY <1>1, <3>2 DEF Unknown
      <4> QED
        BY <4>1, <4>2, <4>3
    <3>3. CASE dacport'[a] = dacport[a] /\ controller'[a] = controller[a]
      <4>1. /\ \A k \in DOMAIN requests : Tells(k, a) /\ (\A j \in DOMAIN requests : Tells(j, a) => j <= k) => requests[k].status = controller[a]
            /\ (\A k \in DOMAIN requests : ~Tells(k, a)) =>
                 /\ \A k \in DOMAIN requests : requests[k].op = "SAVE" /\ requests[k].app = a => controller[a] = "INACTIVE"
                 /\ \A k \in DOMAIN listed : listed[k] = a => entry[a].status = controller[a]
        BY <3>3 DEF StatesAgree, ReportsInv
      <4>2. ASSUME NEW k \in DOMAIN requests', Tells(k, a)', \A j \in DOMAIN requests' : Tells(j, a)' => j <= k
            PROVE  requests'[k].status = controller'[a]
        BY <3>1, <3>3, <4>1, <4>2
      <4>3. ASSUME \A k \in DOMAIN requests' : ~Tells(k, a)'
            PROVE  /\ \A k \in DOMAIN requests' : requests'[k].op = "SAVE" /\ requests'[k].app = a => controller'[a] = "INACTIVE"
                   /\ \A k \in DOMAIN listed' : listed'[k] = a => entry'[a].status = controller'[a]
        <5>1. /\ \A k \in DOMAIN requests : requests[k].op = "SAVE" /\ requests[k].app = a => controller[a] = "INACTIVE"
              /\ \A k \in DOMAIN listed : listed[k] = a => entry[a].status = controller[a]
          BY <3>1, <4>1, <4>3
        <5> QED
          BY <1>1, <1>4, <1>6, <3>3, <5>1
      <4> QED
        BY <4>2, <4>3
    <3> QED
      BY <1>12, <2>2, <3>2, <3>3
  <2> QED
    BY <2>1, <2>2
<1> QED
  BY <1>2, <1>9, <1>10, <1>11, <1>13, <1>14 DEF ReportsInv

\* What is on the screen of pcheck was there before.
NoNewViews ==
  /\ monitor' \in Views
  /\ \A k \in DOMAIN monitor'.view : \E j \in DOMAIN monitor.view : monitor'.view[k] = monitor.view[j]

\* Unless it is answered, pcheck knows of no new application.
LEMMA MonitorForgets ==
  ASSUME DacTypes
  PROVE  /\ monitor' = monitor => NoNewViews
         /\ \A place \in {"look", "waits"} : MonitorAt(place) => NoNewViews
         /\ monitor.view # <<>> =>
              \A place \in {"look", "kills"} : monitor' = [at |-> place, view |-> Tail(monitor.view)] => NoNewViews
<1>1. monitor \in Views
  BY DEF DacTypes, Views
<1>2. monitor' = monitor => NoNewViews
  BY <1>1 DEF NoNewViews
<1>3. ASSUME NEW place \in {"look", "waits"}, MonitorAt(place) PROVE NoNewViews
  <2>1. monitor'.view = <<>> /\ monitor' \in Views
    BY <1>3 DEF MonitorAt, Views
  <2> QED
    BY <2>1 DEF NoNewViews
<1>4. ASSUME monitor.view # <<>>, NEW place \in {"look", "kills"}, monitor' = [at |-> place, view |-> Tail(monitor.view)]
      PROVE  NoNewViews
  <2> DEFINE View == [app : Apps, port : Nat]
  <2>1. monitor.view \in Seq(View)
    BY <1>1 DEF Views
  <2> HIDE DEF View
  <2>2. /\ Tail(monitor.view) \in Seq(View)
        /\ \A k \in DOMAIN Tail(monitor.view) : k + 1 \in DOMAIN monitor.view /\ Tail(monitor.view)[k] = monitor.view[k + 1]
    BY <1>4, <2>1
  <2>3. monitor' \in Views
    BY <1>4, <2>2 DEF View, Views
  <2>4. monitor'.view = Tail(monitor.view)
    BY <1>4
  <2> QED
    BY <2>2, <2>3, <2>4 DEF NoNewViews
<1> QED
  BY <1>2, <1>3, <1>4

\* Types are kept by what is sent.
LEMMA SendTypes ==
  ASSUME DacTypes, NoNewViews, asked' \in Nat,
         controller' \in [Apps -> {"none", "INACTIVE", "RUNNING", "gone"}], dacport' \in [Apps -> Nat],
         NEW sent \in BOOLEAN, NEW r \in RequestSet, sent /\ r.op \in Asked => r.app \in Apps,
         requests' = IF sent THEN Append(requests, r) ELSE requests
  PROVE  DacTypes'
<1>1. requests \in Seq(RequestSet)
  BY DEF DacTypes
<1>2. /\ requests' \in Seq(RequestSet)
      /\ \A k \in DOMAIN requests' : (k \in DOMAIN requests /\ requests'[k] = requests[k]) \/ (sent /\ requests'[k] = r)
  <2>1. CASE sent
    BY <1>1, <2>1
  <2>2. CASE ~sent
    BY <1>1, <2>2
  <2> QED
    BY <2>1, <2>2
<1>3. \A k \in DOMAIN requests' : requests'[k].op \in Asked => requests'[k].app \in Apps
  BY <1>2 DEF DacTypes
<1> QED
  BY <1>2, <1>3 DEF DacTypes, NoNewViews, Views

\* What is asked is a request.
LEMMA AskIsRequest ==
  ASSUME NEW op \in Asked \cup {"DEL_LIST", "LIST"}, NEW a \in Pointers, NEW s \in States
  PROVE  /\ Ask(op, a, s) \in RequestSet /\ Ask(op, a, s).op = op /\ Ask(op, a, s).app = a
         /\ Ask(op, a, s).status = s /\ Ask(op, a, s).port = 0
BY DEF Ask, RequestSet

Reported == DacTypes' /\ \E sent \in BOOLEAN, r \in RequestSet : DacStep(sent, r)

\* A step that changes no DAC.
LEMMA AskStep ==
  ASSUME DacTypes, NoNewViews, UNCHANGED <<listVars, controller, dacport, listed>>,
         NEW op \in {"DEL_LIST", "LIST", "GET_APP", "DEL_APP", "KILL_APP", "CHANGE"}, NEW a \in Pointers, NEW s \in States,
         Sends(Ask(op, a, s)), asked' \in {asked, asked + 1},
         op \in {"GET_APP", "DEL_APP", "KILL_APP"} => asked' = asked + 1 /\ a \in Apps /\ controller[a] # "none",
         op = "CHANGE" => a \in Apps /\ controller[a] # "none" /\ dacport[a] = 0,
         op \in {"DEL_LIST", "LIST"} => a = NullApp
  PROVE  Reported
<1> DEFINE r == Ask(op, a, s)
<1>1. r \in RequestSet /\ r.op = op /\ r.app = a /\ r.status = s
  BY AskIsRequest DEF Asked
<1>2. requests' = Append(requests, r)
  BY DEF Sends
<1> HIDE DEF r
<1>3. asked \in Nat /\ asked' \in Nat /\ (asked' = asked + 1 => asked' > 0)
  BY DEF DacTypes
<1>4. NullApp \notin Apps
  BY AppListAssumption DEF Apps, NullApp
<1>5. DacTypes'
  <2>1. controller' \in [Apps -> {"none", "INACTIVE", "RUNNING", "gone"}] /\ dacport' \in [Apps -> Nat]
    BY DEF DacTypes
  <2>2. r.op \in Asked => r.app \in Apps
    BY <1>1 DEF Asked
  <2> QED
    BY <1>1, <1>2, <1>3, <2>1, <2>2, SendTypes
<1>6. DacStep(TRUE, r)
  <2>1. /\ r.op \in Asked => r.app \in Apps
        /\ r.op # "SAVE"
    BY <1>1 DEF Asked
  <2> QED
    BY <1>1, <1>2, <1>3, <1>4, <2>1 DEF DacStep, NoNewViews
<1> QED
  BY <1>1, <1>5, <1>6 DEF Reported

\* A step that sends nothing.
LEMMA SilentStep ==
  ASSUME DacTypes, NoNewViews, UNCHANGED <<listVars, requests, listed, asked>>,
         \/ UNCHANGED <<controller, dacport>>
         \/ \E a \in Apps : controller[a] # "none" /\ Leaves(a)
  PROVE  Reported
<1>1. \A a \in Apps : \/ dacport'[a] = 0 /\ controller[a] # "none" /\ controller'[a] # "none"
                      \/ dacport'[a] = dacport[a] /\ controller'[a] = controller[a]
  BY DEF Leaves, DacTypes
<1>2. controller' \in [Apps -> {"none", "INACTIVE", "RUNNING", "gone"}] /\ dacport' \in [Apps -> Nat] /\ asked' \in Nat
  BY DEF Leaves, DacTypes
<1>3. Ask("LIST", NullApp, "NONE") \in RequestSet
  BY AskIsRequest DEF Pointers, States
<1>4. DacTypes'
  BY <1>2, <1>3, SendTypes
<1>5. DacStep(FALSE, Ask("LIST", NullApp, "NONE"))
  BY <1>1 DEF DacStep, NoNewViews
<1> QED
  BY <1>3, <1>4, <1>5 DEF Reported

\* A step by which a DAC tells its state.
LEMMA SaysStep ==
  ASSUME DacTypes, NoNewViews, UNCHANGED <<listVars, listed, asked>>,
         NEW a \in Apps, NEW s \in {"INACTIVE", "RUNNING", "ENDED"}, controller[a] # "none", DacSays(a, s)
  PROVE  Reported
<1> DEFINE r == Ask("CHANGE", a, s)
<1>1. r \in RequestSet /\ r.op = "CHANGE" /\ r.app = a /\ r.status = s
  BY AskIsRequest DEF Asked, Pointers, States
<1>2. requests' = Append(requests, r)
  BY DEF Sends, DacSays
<1> HIDE DEF r
<1>3. /\ controller' \in [Apps -> {"none", "INACTIVE", "RUNNING", "gone"}] /\ dacport' \in [Apps -> Nat]
      /\ controller'[a] # "none" /\ (dacport'[a] = 0 \/ (dacport'[a] = dacport[a] /\ controller'[a] = s))
      /\ \A b \in Apps \ {a} : controller'[b] = controller[b] /\ dacport'[b] = dacport[b]
  <2>1. CASE s = "ENDED"
    BY <2>1 DEF DacSays, Leaves, DacTypes
  <2>2. CASE s # "ENDED"
    BY <2>2 DEF DacSays, DacTypes
  <2> QED
    BY <2>1, <2>2
<1>4. DacTypes'
  <2>1. asked' \in Nat
    BY DEF DacTypes
  <2> QED
    BY <1>1, <1>2, <1>3, <2>1, SendTypes
<1>5. DacStep(TRUE, r)
  <2>1. \A b \in Apps :
       \/ dacport'[b] = 0 /\ controller[b] # "none" /\ controller'[b] # "none"
       \/ dacport'[b] = dacport[b] /\ controller'[b] = controller[b]
       \/ r.op = "CHANGE" /\ r.app = b /\ dacport'[b] = dacport[b]
    BY <1>1, <1>3
  <2> QED
    BY <1>1, <1>2, <1>3, <2>1 DEF DacStep, NoNewViews
<1> QED
  BY <1>1, <1>4, <1>5 DEF Reported

\* The start of a DAC.
LEMMA InitDacStep ==
  ASSUME DacTypes, NEW a \in Apps, initDac(a)
  PROVE  Reported
<1> DEFINE free == {p \in DacPorts : \A b \in Apps : dacport[b] # p}
           port == CHOOSE p \in free : \A q \in free : p <= q
           r == [Ask("SAVE", a, "INACTIVE") EXCEPT !.port = port]
<1>1. /\ controller[a] = "none" /\ controller' = [controller EXCEPT ![a] = "INACTIVE"]
      /\ free # {} /\ dacport' = [dacport EXCEPT ![a] = port] /\ requests' = Append(requests, r)
      /\ UNCHANGED <<listVars, monitor, listed, asked>>
  BY DEF initDac, Sends
<1>2. port \in Nat
  <2>1. free \subseteq Nat
    BY AppListAssumption
  <2> HIDE DEF free
  <2>2. \E p \in free : \A q \in free : p <= q
    BY <1>1, <2>1, LeastIn
  <2>3. port \in free
    BY <2>2
  <2> QED
    BY <2>1, <2>3
<1> HIDE DEF port
<1>3. r \in RequestSet /\ r.op = "SAVE" /\ r.app = a /\ r.port = port
  BY <1>2 DEF Ask, RequestSet, Asked, Pointers, States
<1> HIDE DEF r
<1>4. /\ controller' \in [Apps -> {"none", "INACTIVE", "RUNNING", "gone"}] /\ dacport' \in [Apps -> Nat]
      /\ controller'[a] = "INACTIVE" /\ dacport'[a] = port
      /\ \A b \in Apps \ {a} : controller'[b] = controller[b] /\ dacport'[b] = dacport[b]
  BY <1>1, <1>2 DEF DacTypes
<1>5. NoNewViews
  BY <1>1, MonitorForgets
<1>6. DacTypes'
  <2>1. asked' \in Nat
    BY <1>1 DEF DacTypes
  <2> QED
    BY <1>1, <1>3, <1>4, <1>5, <2>1, SendTypes
<1>7. DacStep(TRUE, r)
  <2>1. \A b \in Apps :
       \/ dacport'[b] = dacport[b] /\ controller'[b] = controller[b]
       \/ r.op = "SAVE" /\ r.app = b
    BY <1>3, <1>4
  <2> QED
    BY <1>1, <1>3, <1>4, <1>5, <2>1 DEF DacStep, NoNewViews
<1> QED
  BY <1>3, <1>6, <1>7 DEF Reported

\* A DAC that lives, an application that is listed or on the screen has started; if nobody
\* listens at the port on the screen, that DAC is gone.
LEMMA KnownApplications ==
  ASSUME DacTypes, ReportsInv
  PROVE  /\ \A a \in Apps : dacport[a] # 0 => controller[a] # "none"
         /\ \A a \in ToSet(listed) \cap Apps : controller[a] # "none"
         /\ \A k \in DOMAIN monitor.view :
              LET r == monitor.view[k] IN
              /\ r.app \in Apps /\ controller[r.app] # "none"
              /\ r.port # 0 /\ Listeners(r) = {} => dacport[r.app] = 0
<1>1. \A a \in Apps : controller[a] = "none" => Unknown(a)
  BY DEF ReportsInv, NoneIsUnknown
<1>2. \A a \in Apps : dacport[a] # 0 => controller[a] # "none"
  BY <1>1 DEF Unknown
<1>3. \A a \in ToSet(listed) \cap Apps : controller[a] # "none"
  BY <1>1 DEF Unknown, ToSet
<1>4. ASSUME NEW k \in DOMAIN monitor.view
      PROVE  /\ monitor.view[k].app \in Apps /\ controller[monitor.view[k].app] # "none"
             /\ monitor.view[k].port # 0 /\ Listeners(monitor.view[k]) = {} => dacport[monitor.view[k].app] = 0
  <2>1. monitor.view[k] \in [app : Apps, port : Nat]
    <3> DEFINE View == [app : Apps, port : Nat]
    <3>1. monitor.view \in Seq(View)
      BY DEF DacTypes, Views
    <3> HIDE DEF View
    <3>2. monitor.view[k] \in View
      BY <1>4, <3>1
    <3> QED
      BY <3>2 DEF View
  <2>2. monitor.view[k].app \in Apps /\ controller[monitor.view[k].app] # "none"
    BY <1>1, <2>1 DEF Unknown
  <2>3. dacport[monitor.view[k].app] # 0 => monitor.view[k].port \in {0, dacport[monitor.view[k].app]}
    BY <2>2 DEF PortsAgree, ReportsInv
  <2> QED
    BY <2>2, <2>3 DEF Listeners
<1> QED
  BY <1>2, <1>3, <1>4

\* Whatever the DACs, pcheck and others do is such a step.
LEMMA ReportedStep ==
  ASSUME DacTypes, ReportsInv, listed \in Seq(Apps),
         \/ ShowsList \/ RemovesInactive \/ UpdatesView \/ killallapp
         \/ \E k \in DOMAIN monitor.view : killapp(monitor.view[k]) \/ check_proc(monitor.view[k])
         \/ \E a \in Apps : initDac(a) \/ Proceeds(a) \/ DacDies(a) \/ Others(a)
  PROVE  Reported
<1>0. NullApp \in Pointers /\ Apps \subseteq Pointers /\ "NONE" \in States /\ "ENDED" \in States
  BY DEF Pointers, States
<1>1. CASE ShowsList \/ RemovesInactive
  <2>1. NoNewViews
    BY <1>1, MonitorForgets DEF ShowsList, RemovesInactive
  <2>2. \E op \in {"DEL_LIST", "LIST"} : Sends(Ask(op, NullApp, "NONE"))
    BY <1>1 DEF ShowsList, RemovesInactive
  <2>3. UNCHANGED <<listVars, controller, dacport, listed, asked>>
    BY <1>1 DEF ShowsList, RemovesInactive
  <2> QED
    BY <1>0, <2>1, <2>2, <2>3, AskStep
<1>2. CASE UpdatesView
  <2>1. NoNewViews
    BY <1>2, MonitorForgets DEF UpdatesView
  <2> QED
    BY <1>2, <2>1, SilentStep DEF UpdatesView
<1>3. ASSUME NEW r, exit_app(r), NoNewViews, UNCHANGED <<listVars, listed, asked>> PROVE Reported
  <2>1. PICK a \in Apps : dacport[a] # 0 /\ DacSays(a, "ENDED")
    BY <1>3 DEF exit_app, Listeners
  <2>2. controller[a] # "none"
    BY <2>1, KnownApplications
  <2> QED
    BY <1>3, <2>1, <2>2, SaysStep
<1>4. ASSUME NEW k \in DOMAIN monitor.view, killapp(monitor.view[k]) PROVE Reported
  <2> DEFINE r == monitor.view[k]
  <2>1. NoNewViews /\ UNCHANGED <<listVars, listed, asked>> /\ r.port # 0
    BY <1>4, MonitorForgets DEF killapp, Ends
  <2>2. CASE Listeners(r) = {}
    <3>1. Sends(Ask("CHANGE", r.app, "ENDED")) /\ UNCHANGED <<controller, dacport>>
      BY <1>4, <2>2 DEF killapp
    <3>2. r.app \in Apps /\ controller[r.app] # "none" /\ dacport[r.app] = 0
      BY <1>4, <2>1, <2>2, KnownApplications
    <3> HIDE DEF r
    <3> QED
      BY <1>0, <2>1, <3>1, <3>2, AskStep
  <2>3. CASE Listeners(r) # {}
    BY <1>3, <1>4, <2>1, <2>3 DEF killapp
  <2> QED
    BY <2>2, <2>3
<1>5. ASSUME NEW k \in DOMAIN monitor.view, check_proc(monitor.view[k]) PROVE Reported
  <2>1. NoNewViews
    BY <1>5, MonitorForgets DEF check_proc
  <2> QED
    BY <1>3, <1>5, <2>1 DEF check_proc
<1>6. CASE killallapp
  <2>1. monitor.view # <<>> /\ UNCHANGED <<listVars, listed, asked>>
    BY <1>6 DEF killallapp
  <2>2. NoNewViews
    <3>1. \/ MonitorAt("look")
          \/ \E place \in {"look", "kills"} : monitor' = [at |-> place, view |-> Tail(monitor.view)]
      BY <1>6 DEF killallapp
    <3> QED
      BY <2>1, <3>1, MonitorForgets
  <2>3. UNCHANGED <<requests, controller, dacport>> \/ exit_app(Head(monitor.view))
    BY <1>6 DEF killallapp
  <2> QED
    BY <1>3, <2>1, <2>2, <2>3, SilentStep
<1>7. ASSUME NEW a \in Apps, initDac(a) PROVE Reported
  BY <1>7, InitDacStep
<1>8. ASSUME NEW a \in Apps, Proceeds(a) PROVE Reported
  <2>1. NoNewViews /\ UNCHANGED <<listVars, listed, asked>>
    BY <1>8, MonitorForgets DEF Proceeds
  <2>2. controller[a] # "none" /\ \E s \in {"INACTIVE", "RUNNING", "ENDED"} : DacSays(a, s)
    BY <1>8, KnownApplications DEF Proceeds
  <2> QED
    BY <2>1, <2>2, SaysStep
<1>9. ASSUME NEW a \in Apps, DacDies(a) PROVE Reported
  <2>1. NoNewViews /\ UNCHANGED <<listVars, requests, listed, asked>> /\ Leaves(a) /\ dacport[a] # 0
    BY <1>9, MonitorForgets DEF DacDies
  <2>2. controller[a] # "none"
    BY <2>1, KnownApplications
  <2> QED
    BY <2>1, <2>2, SilentStep
<1>10. ASSUME NEW a \in Apps, Others(a) PROVE Reported
  <2>1. NoNewViews /\ UNCHANGED <<listVars, controller, dacport, listed>> /\ asked' = asked + 1
    BY <1>10, MonitorForgets DEF Others
  <2>2. PICK op \in {"GET_APP", "DEL_APP", "KILL_APP"} : Sends(Ask(op, a, "NONE"))
    BY <1>10 DEF Others
  <2>3. controller[a] # "none"
    BY <1>10, KnownApplications DEF Others
  <2> QED
    BY <1>0, <2>1, <2>2, <2>3, AskStep
<1> QED
  BY <1>1, <1>2, <1>4, <1>5, <1>6, <1>7, <1>8, <1>9, <1>10

\* The invariant holds at the start.
LEMMA AppListBegins == AppListInit => AppListInv
<1> SUFFICES ASSUME AppListInit PROVE AppListInv
  OBVIOUS
<1> USE DEF AppListInit
<1>1. ListTypes
  BY DEF ListTypes, EntrySet, Unwritten, Pointers, States
<1>2. DacTypes
  BY DEF DacTypes, Views
<1>3. ListChain /\ ListTail
  BY DEF ListChain, ListTail, Rest, Bad
<1>4. ReportsInv
  BY DEF ReportsInv, DeletionsAsked, SavesFirst, NoneIsUnknown, Unknown, PortsAgree, StatesAgree
<1> QED
  BY <1>1, <1>2, <1>3, <1>4 DEF AppListInv

\* Each step keeps it: the CID serves a request, or something is reported.
LEMMA AppListStep == AppListInv /\ [AppListNext]_appVars => AppListInv'
<1> SUFFICES ASSUME AppListInv, [AppListNext]_appVars PROVE AppListInv'
  OBVIOUS
<1>1. CASE UNCHANGED appVars
  <2> USE <1>1 DEF appVars, listVars
  <2>1. Rest' = Rest /\ Bad' = Bad
    BY DEF Rest, Bad
  <2>2. (ListTypes' <=> ListTypes) /\ (DacTypes' <=> DacTypes)
    BY DEF ListTypes, DacTypes
  <2>3. (ListChain' <=> ListChain) /\ (ListTail' <=> ListTail)
    BY <2>1 DEF ListChain, ListTail
  <2>4. (DeletionsAsked' <=> DeletionsAsked) /\ (SavesFirst' <=> SavesFirst)
    BY DEF DeletionsAsked, SavesFirst
  <2>5. (NoneIsUnknown' <=> NoneIsUnknown) /\ (PortsAgree' <=> PortsAgree)
    BY DEF NoneIsUnknown, Unknown, PortsAgree
  <2>6. StatesAgree' <=> StatesAgree
    BY DEF StatesAgree, Tells
  <2> QED
    BY <2>2, <2>3, <2>4, <2>5, <2>6 DEF AppListInv, ReportsInv
<1>2. ASSUME AppListNext PROVE ~wrong /\ ListTypes /\ DacTypes /\ ListChain /\ ListTail /\ ReportsInv
  BY <1>2 DEF AppListNext, AppListInv
<1>3. CASE AppListNext /\ ServesNext
  <2>1. /\ wrong' => asked > 0
        /\ ~wrong' => /\ ListTypes' /\ ListChain' /\ ListTail'
                      /\ SavesEntry(Head(requests)) \/ ChangesEntry(Head(requests)) \/ DeletesEntries(Head(requests))
    BY <1>2, <1>3, ListServed DEF ReportsInv
  <2>2. DacTypes' /\ asked' = asked
    BY <1>2, <1>3, ViewServed DEF ServesNext
  <2>3. ~wrong' => ReportsInv'
    BY <1>2, <1>3, <2>1, ReportsServed
  <2>4. wrong' \in BOOLEAN
    <3>1. wrong \in BOOLEAN /\ Strays \in BOOLEAN
      BY DEF AppListInv, Strays
    <3>2. \A a, port : OpSaveAppMsg(a, port) => wrong' \in BOOLEAN
      BY Zenon DEF OpSaveAppMsg
    <3>3. NothingFound => wrong' \in BOOLEAN
      BY <3>1 DEF NothingFound
    <3>4. \A a : OpDelApp(a) \/ delete_app(a) => wrong' \in BOOLEAN
      BY <3>1, <3>3 DEF OpDelApp, delete_app, Unlink
    <3>5. OpDelAppList \/ OpGetAppList => wrong' \in BOOLEAN
      BY <3>1, <3>3 DEF OpDelAppList, OpGetAppList
    <3>6. \A a, status : OpChangeAppMsg(a, status) \/ OpGetApp(a) => wrong' \in BOOLEAN
      BY <3>1, <3>3 DEF OpChangeAppMsg, OpGetApp
    <3> QED
      BY <1>3, <3>2, <3>4, <3>5, <3>6 DEF ServesNext
  <2> QED
    BY <2>1, <2>2, <2>3, <2>4 DEF AppListInv
<1>4. CASE AppListNext /\ ~ServesNext
  <2>1. Reported
    BY <1>2, <1>4, ReportedStep DEF AppListNext, ListTypes
  <2>2. PICK sent \in BOOLEAN, r \in RequestSet : DacStep(sent, r)
    BY <2>1 DEF Reported
  <2>3. ListTypes' /\ ListChain' /\ ListTail' /\ ReportsInv'
    BY <1>2, <1>4, <2>2, ReportsMade
  <2>4. wrong' = wrong
    BY <2>2 DEF DacStep, listVars
  <2> QED
    BY <1>2, <1>4, <2>1, <2>3, <2>4 DEF AppListInv, Reported
<1> QED
  BY <1>1, <1>3, <1>4

\* The invariant says what is asked of the list.
LEMMA AppListHolds == AppListInv => AppListIsTrue
<1> SUFFICES ASSUME AppListInv PROVE AppListIsTrue
  OBVIOUS
<1>1. CASE wrong
  BY <1>1 DEF AppListInv, AppListIsTrue
<1>2. CASE ~wrong
  <2>1. ListTypes /\ DacTypes /\ ListChain /\ ListTail /\ ReportsInv
    BY <1>2 DEF AppListInv
  <2>2. Shown = listed /\ (Strays <=> Rest \in freed)
    BY <2>1, WhatIsFound
  <2>3. listed # <<>> /\ ~Strays => list_p = Last(listed)
    BY <2>1, <2>2 DEF ListChain, ListTail, Bad, Last
  <2>4. ASSUME NEW a \in ToSet(listed), dacport[a] # 0, \A r \in ToSet(requests) : r.app # a
        PROVE  entry[a].status = controller[a]
    <3>1. PICK k \in DOMAIN listed : listed[k] = a
      BY DEF ToSet
    <3>2. a \in Apps
      BY <2>1, <3>1, ListFacts
    <3>3. \A j \in DOMAIN requests : ~Tells(j, a)
      BY <2>4 DEF Tells, ToSet
    <3> QED
      BY <2>1, <2>4, <3>1, <3>2, <3>3 DEF ReportsInv, StatesAgree
  <2> QED
    BY <1>2, <2>2, <2>3, <2>4 DEF AppListIsTrue
<1> QED
  BY <1>1, <1>2

\* The other parts of HostPrograms leave the list alone.
LEMMA AppListAlone == [HostProgramsNext]_partVars => [AppListNext]_appVars
BY DEF HostProgramsNext, partVars, Mapper, Naming, AppLists, HostFiles, Conf, Transfers, Users

\* However DACs start, report, end and die, pcheck kills and deletes, and others fetch and
\* delete: what the CID shows is what was saved and not deleted, in order and with the state
\* told last, and it follows a pointer to nowhere only after a DEL_APP or a KILL_APP
\* (OpSaveAppMsg to OpDelAppList, delete_app).
THEOREM AppListStaysTrue == HostProgramsSpec => []AppListIsTrue
<1>1. HostProgramsInit => AppListInv
  BY AppListBegins DEF HostProgramsInit
<1>2. AppListInv /\ [HostProgramsNext]_partVars => AppListInv'
  BY AppListAlone, AppListStep
<1> QED
  BY <1>1, <1>2, AppListHolds, PTL DEF HostProgramsSpec
=============================================================================
