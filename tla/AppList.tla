-------------------------------- MODULE AppList --------------------------------
(***************************************************************************)
(* The list of applications that the CID of a login keeps (cid.c,          *)
(* OpSaveAppMsg to OpDelAppList, delete_app), the DACs that announce       *)
(* themselves and their states there, and pcheck, which shows the list and *)
(* kills what its user chooses (ssh/pcheck.c).  An application is saved    *)
(* once, so that it names the memory of its entry.  INACTIVE stands for    *)
(* the states before it runs (N, p, o, r), ENDED for exited and killed.    *)
(***************************************************************************)
EXTENDS Naturals, Sequences, SequencesExt, FiniteSets, Sublists

CONSTANTS
  MaxApps,   \* how many applications there are, numbered as their DACs start
  TitleOf,   \* TitleOf[a]: the name of a up to its '$'
  DacPorts,  \* the ports that DACs can be given
  MaxAsked,  \* bound on the requests GET_APP, DEL_APP and KILL_APP
  MaxWaiting \* bound on the connections that wait at the CID

ASSUME AppListAssumption ==
  /\ MaxApps \in Nat /\ DOMAIN TitleOf = 1 .. MaxApps /\ DacPorts \subseteq Nat \ {0}
  /\ MaxAsked \in Nat /\ MaxWaiting \in Nat

Apps    == 1 .. MaxApps
NullApp == 0   \* the NULL pointer

VARIABLES
  end_p, list_p, list_cnt,  \* the first entry, the last one and their number
  entry,    \* entry[a]: [next, port, status, flag]
  freed,    \* entries whose memory has been freed
  wrong,    \* the CID has followed a pointer to nowhere
  requests, \* the connections that wait at the CID
  controller, \* controller[a]: where its DAC is
  dacport,  \* dacport[a]: the port at which its DAC listens; 0 for none
  monitor,  \* pcheck: [at, view], and the rest of the list it is killing
  listed,   \* history: the applications saved and not deleted, in order
  asked     \* how often GET_APP, DEL_APP and KILL_APP were asked

listVars == <<end_p, list_p, list_cnt, entry, freed, wrong>>
appVars == <<listVars, requests, controller, dacport, monitor, listed, asked>>

Unwritten == [next |-> NullApp, port |-> 0, status |-> "INACTIVE", flag |-> FALSE]
AppListInit ==
  /\ end_p = NullApp /\ list_p = NullApp /\ list_cnt = 0
  /\ entry = [a \in Apps |-> Unwritten]
  /\ freed = {} /\ wrong = FALSE /\ requests = <<>>
  /\ controller = [a \in Apps |-> "none"] /\ dacport = [a \in Apps |-> 0]
  /\ monitor = [at |-> "look", view |-> <<>>] /\ listed = <<>> /\ asked = 0

-----------------------------------------------------------------------------
(* The list.  A walk from end_p along next ends at NULL or in freed memory.  *)

Bad == {NullApp} \cup freed
Walk[k \in 1 .. MaxApps + 1] ==
  IF k = 1 THEN end_p ELSE IF Walk[k - 1] \in Bad THEN Walk[k - 1] ELSE entry[Walk[k - 1]].next
Visits(S)   == {k \in DOMAIN Walk : Walk[k] \in S}
Finds(S)    == Visits(S \ freed) # {}
FirstMet(S) == Walk[CHOOSE k \in Visits(S \ freed) : \A j \in Visits(S \ freed) : k <= j]
\* The entry before a; a itself when it is the first one.
Before(a) == IF end_p = a THEN a ELSE FirstMet({b \in Apps : entry[b].next = a})
\* A walk that does not find what it looks for goes on to the end, wherever that is.
Strays == Visits(freed) # {}
Shown == [k \in 1 .. list_cnt |-> Walk[k]]

KeepsList == UNCHANGED <<end_p, list_p, list_cnt, entry, freed>>
NothingFound == wrong' = Strays /\ KeepsList /\ UNCHANGED listed

OpSaveAppMsg(a, port) ==
  /\ list_cnt' = list_cnt + 1 /\ list_p' = a /\ listed' = Append(listed, a)
  /\ end_p' = IF list_cnt = 0 THEN a ELSE end_p
  /\ wrong' = (list_cnt > 0 /\ list_p \in Bad)
  /\ entry' = [b \in Apps |-> IF b = a THEN [Unwritten EXCEPT !.port = port]
                 ELSE IF list_cnt > 0 /\ b = list_p THEN [entry[b] EXCEPT !.next = a] ELSE entry[b]]
  /\ UNCHANGED freed

OpChangeAppMsg(a, status) ==
  IF Finds({a})
  THEN /\ entry' = [entry EXCEPT ![a].status = status]
       /\ UNCHANGED <<end_p, list_p, list_cnt, freed, wrong, listed>>
  ELSE NothingFound

\* By its title, the first that was not yet asked for; by its full name it changes nothing.
OpGetApp(title) ==
  LET fresh == {a \in Apps : TitleOf[a] = title /\ ~entry[a].flag} IN
  IF Finds(fresh)
  THEN /\ entry' = [entry EXCEPT ![FirstMet(fresh)].flag = TRUE]
       /\ UNCHANGED <<end_p, list_p, list_cnt, freed, wrong, listed>>
  ELSE NothingFound

\* The first entry, the last, whose predecessor still points to it, or one between.
Unlink(a) ==
  LET Forgotten == [entry EXCEPT ![a] = Unwritten] IN
  /\ list_cnt' = list_cnt - 1 /\ freed' = freed \cup {a}
  /\ listed' = RemoveAt(listed, CHOOSE k \in DOMAIN listed : listed[k] = a)
  /\ IF end_p = a THEN end_p' = entry[a].next /\ entry' = Forgotten /\ UNCHANGED list_p
     ELSE /\ UNCHANGED end_p
          /\ IF entry[a].next = NullApp THEN list_p' = Before(a) /\ entry' = Forgotten
             ELSE entry' = [Forgotten EXCEPT ![Before(a)].next = entry[a].next] /\ UNCHANGED list_p
  /\ UNCHANGED wrong

OpDelApp(a) ==
  IF ~Finds({a}) THEN NothingFound
  ELSE IF entry[a].status = "RUNNING"
       THEN KeepsList /\ UNCHANGED <<wrong, listed>>
       ELSE Unlink(a)

\* delete_app, of OpKillApp: findout is not initialised, so that it may follow NULL.
delete_app(a) ==
  IF Finds({a}) THEN Unlink(a)
  ELSE wrong' \in {Strays, TRUE} /\ KeepsList /\ UNCHANGED listed

\* All that do not run are removed, in one walk.
Relinked(kept) ==
  [a \in Apps |-> IF a \notin ToSet(kept) THEN Unwritten ELSE [entry[a] EXCEPT !.next =
     IF \E k \in 2 .. Len(kept) : kept[k - 1] = a
     THEN kept[CHOOSE k \in 2 .. Len(kept) : kept[k - 1] = a] ELSE NullApp]]
\* Mutant of LastKept: the pointer to the first entry is taken for the one to the last.
LastKeptFirst(kept) == IF kept = <<>> THEN NullApp ELSE Head(kept)
LastKept(kept)      == IF kept = <<>> THEN NullApp ELSE Last(kept)
OpDelAppList ==
  LET Running(s) == Sublist(s, {k \in DOMAIN s : entry[s[k]].status = "RUNNING"})
      kept       == Running(Shown) IN
  IF Strays THEN NothingFound
  ELSE /\ list_cnt' = Len(kept) /\ list_p' = LastKept(kept)
       /\ end_p' = IF kept = <<>> THEN NullApp ELSE Head(kept)
       /\ entry' = Relinked(kept) /\ freed' = freed \cup (ToSet(Shown) \ ToSet(kept))
       /\ listed' = Running(listed) /\ UNCHANGED wrong

-----------------------------------------------------------------------------
(* The CID accepts in turn; who asks for the list waits for it.             *)

Ask(op, a, status) == [op |-> op, app |-> a, status |-> status, port |-> 0]
Sends(r) == Len(requests) < MaxWaiting /\ requests' = Append(requests, r)

\* getapplist: the monitor sees the list as it is now; what has ended has no port of interest.
OpGetAppList ==
  /\ monitor' = [at |-> "menu", view |-> [k \in DOMAIN Shown |->
                   [app |-> Shown[k], port |-> IF entry[Shown[k]].status = "ENDED" THEN 0 ELSE entry[Shown[k]].port]]]
  /\ KeepsList /\ UNCHANGED <<wrong, listed>>
ServesNext ==
  /\ requests # <<>> /\ requests' = Tail(requests)
  /\ LET r == Head(requests) IN
     /\ \/ r.op = "SAVE" /\ OpSaveAppMsg(r.app, r.port)
        \/ r.op = "CHANGE" /\ OpChangeAppMsg(r.app, r.status)
        \/ r.op = "GET_APP" /\ OpGetApp(TitleOf[r.app])
        \/ r.op = "DEL_APP" /\ OpDelApp(r.app)
        \/ r.op = "KILL_APP" /\ delete_app(r.app)
        \/ r.op = "DEL_LIST" /\ OpDelAppList
        \/ r.op = "LIST" /\ OpGetAppList
     /\ r.op # "LIST" => UNCHANGED monitor
  /\ UNCHANGED <<controller, dacport, asked>>

-----------------------------------------------------------------------------
(* The DAC of application a.                                                *)

Leaves(a) ==
  dacport' = [dacport EXCEPT ![a] = 0] /\ controller' = [controller EXCEPT ![a] = "gone"]
DacSays(a, status) ==
  /\ Sends(Ask("CHANGE", a, status))
  /\ IF status = "ENDED" THEN Leaves(a)
     ELSE controller' = [controller EXCEPT ![a] = status] /\ UNCHANGED dacport
initDac(a) ==
  /\ controller[a] = "none" /\ controller' = [controller EXCEPT ![a] = "INACTIVE"]
  /\ \A b \in 1 .. (a - 1) : controller[b] # "none"
  /\ LET free == {p \in DacPorts : \A b \in Apps : dacport[b] # p}
         port == CHOOSE p \in free : \A q \in free : p <= q IN
     /\ free # {} /\ dacport' = [dacport EXCEPT ![a] = port]
     /\ Sends([Ask("SAVE", a, "INACTIVE") EXCEPT !.port = port])
  /\ UNCHANGED <<listVars, monitor, listed, asked>>
\* OpVerifyApp, OpStart, and the end of the last process, or of DAC by exit_dac or SIGTERM.
Proceeds(a) ==
  /\ \/ controller[a] = "INACTIVE" /\ \E s \in {"INACTIVE", "RUNNING"} : DacSays(a, s)
     \/ controller[a] = "RUNNING" /\ DacSays(a, "ENDED")
     \/ dacport[a] # 0 /\ DacSays(a, "ENDED")
  /\ UNCHANGED <<listVars, monitor, listed, asked>>
DacDies(a) ==
  /\ dacport[a] # 0 /\ Leaves(a)
  /\ UNCHANGED <<listVars, requests, monitor, listed, asked>>

-----------------------------------------------------------------------------
(* pcheck: it shows the list, and acts on what it has shown.                *)

MonitorAt(place) == monitor' = [at |-> place, view |-> <<>>]
ShowsList ==
  /\ monitor.at = "look" /\ MonitorAt("waits") /\ Sends(Ask("LIST", NullApp, "NONE"))
  /\ UNCHANGED <<listVars, controller, dacport, listed, asked>>
RemovesInactive ==
  /\ monitor.at = "menu" /\ monitor.view # <<>>
  /\ MonitorAt("look") /\ Sends(Ask("DEL_LIST", NullApp, "NONE"))
  /\ UNCHANGED <<listVars, controller, dacport, listed, asked>>
UpdatesView ==
  /\ monitor.at = "menu" /\ MonitorAt("look")
  /\ UNCHANGED <<listVars, requests, controller, dacport, listed, asked>>

Ends(r) == r.port = 0
\* exit_app: whoever listens at the port now is told to kill its application.
Listeners(r) == {a \in Apps : dacport[a] # 0 /\ dacport[a] = r.port}
exit_app(r)  == \E a \in Listeners(r) : DacSays(a, "ENDED")
\* The user picks an application; if no DAC answers, the CID is told that it was killed.
killapp(r) ==
  /\ monitor.at = "menu" /\ ~Ends(r) /\ MonitorAt("look")
  /\ IF Listeners(r) = {} THEN Sends(Ask("CHANGE", r.app, "ENDED")) /\ UNCHANGED <<controller, dacport>>
     ELSE exit_app(r)
  /\ UNCHANGED <<listVars, listed, asked>>
\* ... or all of them, one by one, up to the first whose DAC does not answer; or, from the
\* list of its processes, all of one application.
killallapp ==
  /\ monitor.at \in {"menu", "kills"} /\ monitor.view # <<>>
  /\ LET r == Head(monitor.view) IN
     IF ~Ends(r) /\ Listeners(r) = {}
     THEN MonitorAt("look") /\ UNCHANGED <<requests, controller, dacport>>
     ELSE /\ monitor' = [at   |-> IF Len(monitor.view) = 1 THEN "look" ELSE "kills",
                         view |-> Tail(monitor.view)]
          /\ IF Ends(r) THEN UNCHANGED <<requests, controller, dacport>> ELSE exit_app(r)
  /\ UNCHANGED <<listVars, listed, asked>>
check_proc(r) ==
  /\ monitor.at = "menu" /\ ~Ends(r) /\ exit_app(r) /\ MonitorAt("look")
  /\ UNCHANGED <<listVars, listed, asked>>

\* getapp and delapp of cidlib, and a KILL_APP, for application a.
Others(a) ==
  /\ asked < MaxAsked /\ asked' = asked + 1 /\ a \in ToSet(listed)
  /\ \E op \in {"GET_APP", "DEL_APP", "KILL_APP"} : Sends(Ask(op, a, "NONE"))
  /\ UNCHANGED <<listVars, controller, dacport, monitor, listed>>

\* What a CID does that has followed a pointer to nowhere is not looked at.
AppListNext ==
  /\ ~wrong
  /\ \/ ServesNext \/ ShowsList \/ RemovesInactive \/ UpdatesView \/ killallapp
     \/ \E k \in DOMAIN monitor.view : killapp(monitor.view[k]) \/ check_proc(monitor.view[k])
     \/ \E a \in Apps : initDac(a) \/ Proceeds(a) \/ DacDies(a) \/ Others(a)

AppListSpec == AppListInit /\ [][AppListNext]_appVars

-----------------------------------------------------------------------------
(* Properties. *)

\* What the CID shows are the applications saved and not deleted, in the order of their
\* saving; the next is appended to the last, unless that has just been deleted; an application
\* whose DAC lives is shown in the state that the DAC has told last, unless a message of it is
\* under way; and the CID follows a pointer to nowhere only after a DEL_APP or a KILL_APP
\* (cid.c:2718-3006).
AppListIsTrue ==
  IF wrong THEN asked > 0
  ELSE /\ Shown = listed
       /\ listed # <<>> /\ ~Strays => list_p = Last(listed)
       /\ \A a \in ToSet(listed) :
            dacport[a] # 0 /\ (\A r \in ToSet(requests) : r.app # a) => entry[a].status = controller[a]
=============================================================================
