----------------------------- MODULE HostPrograms -----------------------------
(***************************************************************************)
(* What runs on a host beside the applications: PMD, and how the programs  *)
(* of a login are found with it; the list of applications that the CID     *)
(* keeps; the files and users that CIDs serve; the table of hosts; the     *)
(* configurator.  They share no state that is modelled (Names has a PMD of *)
(* one entry of its own), so that a step of one changes nothing for        *)
(* another, and it is enough to look at each by itself: the initial state  *)
(* chooses which.  Where it is not PMD's turn, the modelled PMD only ends, *)
(* before the part looked at begins.                                       *)
(***************************************************************************)
EXTENDS PortMapper, Names, AppList, HostTable, Configurator, LoginFiles

VARIABLE part   \* the part that is looked at

mapperVars == <<table, reply, running>>
partVars == <<part, mapperVars, namesVars, appVars, hostVars, confVars, filesVars>>

HostProgramsInit ==
  /\ part \in {"pmd", "names", "applist", "hosts", "conf", "files", "users"}
  /\ Init /\ NamesInit /\ AppListInit /\ HostInit /\ ConfInit /\ FilesInit
  /\ part # "files" => \A f \in Locals : localFile[f] = Missing

Mapper    == Next /\ (part # "pmd" => ~running') /\ UNCHANGED <<part, namesVars, appVars, hostVars, confVars, filesVars>>
Naming    == part = "names" /\ ~running /\ NamesNext /\ UNCHANGED <<part, mapperVars, appVars, hostVars, confVars, filesVars>>
AppLists  == part = "applist" /\ ~running /\ AppListNext /\ UNCHANGED <<part, mapperVars, namesVars, hostVars, confVars, filesVars>>
HostFiles == part = "hosts" /\ ~running /\ HostNext /\ UNCHANGED <<part, mapperVars, namesVars, appVars, confVars, filesVars>>
Conf      == part = "conf" /\ ~running /\ ConfNext /\ UNCHANGED <<part, mapperVars, namesVars, appVars, hostVars, filesVars>>
Transfers == part = "files" /\ ~running /\ TransferNext /\ UNCHANGED <<part, mapperVars, namesVars, appVars, hostVars, confVars, userVars>>
Users     == part = "users" /\ ~running /\ UserNext /\ UNCHANGED <<part, mapperVars, namesVars, appVars, hostVars, confVars, transferVars>>

HostProgramsNext == Mapper \/ Naming \/ AppLists \/ HostFiles \/ Conf \/ Transfers \/ Users

HostProgramsSpec == HostProgramsInit /\ [][HostProgramsNext]_partVars
=============================================================================
