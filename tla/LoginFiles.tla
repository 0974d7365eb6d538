------------------------------- MODULE LoginFiles -------------------------------
(***************************************************************************)
(* The files that CIDs keep for others.  Transfers: file_put, file_get and *)
(* file_remove of cidlib, by callers of one call each, at a CID that       *)
(* serves one connection after the other; a file is a sequence of          *)
(* segments, read and sent one by one while others may change it.  Users:  *)
(* the file of Synergy users, which the CIDs of several hosts share.       *)
(*                                                                         *)
(* All callers have the login of the CID.  A file changes in place, and    *)
(* keeps no segments of its own when it is emptied.                        *)
(***************************************************************************)
EXTENDS Naturals, Sequences, SequencesExt, FiniteSets

CONSTANTS
  Callers,
  Locals, LocalOf, \* the callers' files; LocalOf[c]: the one that c reads or writes
  Paths,           \* files at the CID
  Locked,          \* those the CID can neither write nor remove
  MaxSegments,     \* bound on the length of a file
  MaxChanges,      \* bound on the changes by others
  Servers,         \* CIDs that share the file of users
  Logins,
  MaxKills,        \* bound on the callers and CIDs that die
  NoPath, NoCaller, NoLogin

ASSUME LoginFilesAssumption ==
  /\ LocalOf \in [Callers -> Locals] /\ Locked \subseteq Paths
  /\ NoCaller \notin Callers /\ NoPath \notin Paths /\ NoLogin \notin Logins
  /\ MaxSegments \in Nat \ {0} /\ MaxChanges \in Nat /\ MaxKills \in Nat

VARIABLES
  localFile, remoteFile, \* [exists, of]
  call,      \* call[c]: [at, op, path, size, got, result]
  toCid, toCaller, \* what is on the way
  calls,     \* the connections that wait at the CID
  transfer,  \* what the CID is doing: [call, size, got]
  alive,     \* the CID runs
  touched,   \* history: callers one of whose files somebody else has changed
  changes,   \* changes by others
  userFile, draft,  \* the lines of synergy.user and of synergy.user.tmp
  clerk,     \* clerk[s]: what the CID s is doing for an administrator: [at, login]
  enrolled,  \* history: the users that were added and not deleted
  raced,     \* history: two changes that do not bear each other have overlapped
  kills      \* deaths

transferVars == <<localFile, remoteFile, call, toCid, toCaller, calls, transfer, alive, touched, changes>>
userVars     == <<userFile, draft, clerk, enrolled, raced>>
filesVars    == <<transferVars, userVars, kills>>

Missing     == [exists |-> FALSE, of |-> <<>>]
Content(q)  == [exists |-> TRUE, of |-> q]
NoTransfer  == [call |-> NoCaller, size |-> 0, got |-> <<>>]
FilesInit ==
  /\ localFile \in [Locals -> {Missing, Content(<<0, 0>>)}] /\ remoteFile = [p \in Paths |-> Missing]
  /\ call = [c \in Callers |-> [at |-> "before", op |-> "NONE", path |-> NoPath, size |-> 0,
                                got |-> <<>>, result |-> "none"]]
  /\ toCid = [c \in Callers |-> <<>>] /\ toCaller = [c \in Callers |-> <<>>]
  /\ calls = <<>> /\ transfer = NoTransfer /\ alive = TRUE /\ touched = {} /\ changes = 0
  /\ userFile = <<>> /\ draft = <<>> /\ clerk = [s \in Servers |-> [at |-> "idle", login |-> NoLogin]]
  /\ enrolled = {} /\ raced = FALSE /\ kills = 0

-----------------------------------------------------------------------------
(* The caller. *)

KeepsCid == UNCHANGED <<remoteFile, transfer, alive, changes>>
Gone(c) == call[c].at \in {"over", "dead"}
Begun   == {c \in Callers : call[c].at # "before"}
Calls(c, op, path, at, size) ==
  /\ alive /\ call[c].at = "before" /\ calls' = Append(calls, c)
  /\ call' = [call EXCEPT ![c] = [@ EXCEPT !.at = at, !.op = op, !.path = path, !.size = size]]
  /\ KeepsCid /\ UNCHANGED <<localFile, toCid, toCaller, touched>>
\* The length of a file that is not there is not known.
file_put(c, path) ==
  LET source == localFile[LocalOf[c]] IN
  \E size \in IF source.exists THEN {Len(source.of)} ELSE 0 .. MaxSegments : Calls(c, "PUT", path, "sends", size)
file_get(c, path)    == Calls(c, "GET", path, "waits", 0)
file_remove(c, path) == Calls(c, "REMOVE", path, "waits", 0)

Returns(c, result) == call' = [call EXCEPT ![c] = [@ EXCEPT !.at = "over", !.got = <<>>, !.result = result]]
\* sendFile of cidlib; a file that is not there, or has become shorter, ends the call.
SendsSegment(c) ==
  LET source == localFile[LocalOf[c]]
      sent   == Len(call[c].got) IN
  /\ call[c].at = "sends"
  /\ IF ~source.exists \/ (sent < call[c].size /\ Len(source.of) <= sent) THEN Returns(c, "no") /\ UNCHANGED toCid
     ELSE IF sent = call[c].size THEN call' = [call EXCEPT ![c].at = "waits"] /\ UNCHANGED toCid
     ELSE /\ call' = [call EXCEPT ![c].got = Append(@, source.of[sent + 1])]
          /\ toCid' = [toCid EXCEPT ![c] = Append(@, source.of[sent + 1])]
  /\ KeepsCid /\ UNCHANGED <<localFile, toCaller, calls, touched>>

\* The CID has done all it does for c.
Served(c) == c \in Begun /\ c \notin ToSet(calls) /\ transfer.call # c
HungUp(c) == toCaller[c] = <<>> /\ (~alive \/ Served(c))
Hears(c)  == toCaller' = [toCaller EXCEPT ![c] = Tail(@)]
WritesLocal(c, content) ==
  /\ localFile' = [localFile EXCEPT ![LocalOf[c]] = content]
  /\ touched' = touched \cup {b \in Begun \ {c} : LocalOf[b] = LocalOf[c]}
\* The answer; to a GET it is the length, and the caller's file is emptied.
GetsAnswer(c) ==
  /\ call[c].at = "waits" /\ (toCaller[c] # <<>> \/ HungUp(c))
  /\ IF HungUp(c) THEN Returns(c, "no") /\ UNCHANGED <<localFile, toCaller, touched>>
     ELSE LET answer == Head(toCaller[c]) IN
          /\ Hears(c)
          /\ IF answer.status = "SUCCESS" /\ call[c].op = "GET"
             THEN call' = [call EXCEPT ![c] = [@ EXCEPT !.at = "receives", !.size = answer.size]] /\ WritesLocal(c, Content(<<>>))
             ELSE Returns(c, IF answer.status = "SUCCESS" THEN "yes" ELSE "no") /\ UNCHANGED <<localFile, touched>>
  /\ KeepsCid /\ UNCHANGED <<toCid, calls>>
\* receiveFile of cidlib; if the CID ends before, the caller's file is removed.
ReceivesSegment(c) ==
  /\ call[c].at = "receives"
  /\ \/ /\ Len(call[c].got) = call[c].size
        /\ WritesLocal(c, Content(call[c].got)) /\ Returns(c, "yes") /\ UNCHANGED toCaller
     \/ /\ Len(call[c].got) < call[c].size /\ toCaller[c] # <<>>
        /\ call' = [call EXCEPT ![c].got = Append(@, Head(toCaller[c]).segment)] /\ Hears(c)
        /\ UNCHANGED <<localFile, touched>>
     \/ /\ Len(call[c].got) < call[c].size /\ HungUp(c)
        /\ WritesLocal(c, Missing) /\ Returns(c, "no") /\ UNCHANGED toCaller
  /\ KeepsCid /\ UNCHANGED <<toCid, calls>>

-----------------------------------------------------------------------------
(* The CID. *)

Reply(c, status, size) == toCaller' = [toCaller EXCEPT ![c] = Append(@, [status |-> status, size |-> size])]
WritesRemote(c, content) ==
  /\ remoteFile' = [remoteFile EXCEPT ![call[c].path] = content]
  /\ touched' = touched \cup {b \in Begun \ {c} : call[b].path = call[c].path /\ b \notin ToSet(calls)}
Accept(c) == alive /\ transfer.call = NoCaller /\ calls # <<>> /\ c = Head(calls) /\ calls' = Tail(calls)

\* If the file cannot be opened, fclose is given NULL.
OpFilePut(c) ==
  /\ call[c].op = "PUT" /\ Accept(c)
  /\ IF call[c].path \in Locked THEN alive' = FALSE /\ UNCHANGED <<remoteFile, transfer, touched>>
     ELSE /\ WritesRemote(c, Content(<<>>)) /\ UNCHANGED alive
          /\ transfer' = [call |-> c, size |-> call[c].size, got |-> <<>>]
  /\ UNCHANGED toCaller
OpFileGet(c) ==
  LET source == remoteFile[call[c].path] IN
  /\ call[c].op = "GET" /\ Accept(c)
  /\ IF source.exists
     THEN Reply(c, "SUCCESS", Len(source.of)) /\ transfer' = [call |-> c, size |-> Len(source.of), got |-> <<>>]
     ELSE Reply(c, "FAILURE", 0) /\ UNCHANGED transfer
  /\ UNCHANGED <<remoteFile, touched, alive>>
OpRemove(c) ==
  /\ call[c].op = "REMOVE" /\ Accept(c)
  /\ IF remoteFile[call[c].path].exists /\ call[c].path \notin Locked
     THEN WritesRemote(c, Missing) /\ Reply(c, "SUCCESS", 0)
     ELSE Reply(c, "FAILURE", 0) /\ UNCHANGED <<remoteFile, touched>>
  /\ UNCHANGED <<transfer, alive>>

\* What is left of a file that was not received whole.
\* Mutant of Unreceived: the segments that have come.
UnreceivedKept(got) == Content(got)
Unreceived(got)     == Missing
receiveFile(c) ==
  LET got == transfer.got IN
  /\ alive /\ transfer.call = c /\ call[c].op = "PUT"
  /\ \/ /\ Len(got) = transfer.size
        /\ WritesRemote(c, Content(got)) /\ Reply(c, "SUCCESS", 0) /\ transfer' = NoTransfer /\ UNCHANGED toCid
     \/ /\ Len(got) < transfer.size /\ toCid[c] # <<>>
        /\ transfer' = [transfer EXCEPT !.got = Append(@, Head(toCid[c]))]
        /\ toCid' = [toCid EXCEPT ![c] = Tail(@)] /\ UNCHANGED <<remoteFile, touched, toCaller>>
     \/ /\ Len(got) < transfer.size /\ toCid[c] = <<>> /\ Gone(c)
        /\ WritesRemote(c, Unreceived(got)) /\ Reply(c, "FAILURE", 0) /\ transfer' = NoTransfer /\ UNCHANGED toCid
  /\ UNCHANGED <<calls, alive>>
\* To a caller that is gone the CID may write once more, or dies of SIGPIPE.
sendFile(c) ==
  LET source == remoteFile[call[c].path]
      sent   == Len(transfer.got) IN
  /\ alive /\ transfer.call = c /\ call[c].op = "GET"
  /\ IF sent = transfer.size \/ Len(source.of) <= sent THEN transfer' = NoTransfer /\ UNCHANGED <<toCaller, alive>>
     ELSE /\ transfer' = [transfer EXCEPT !.got = Append(@, source.of[sent + 1])]
          /\ toCaller' = [toCaller EXCEPT ![c] = Append(@, [segment |-> source.of[sent + 1]])]
          /\ alive' \in IF Gone(c) THEN BOOLEAN ELSE {TRUE}
  /\ UNCHANGED <<remoteFile, touched, calls, toCid>>

CidServes ==
  /\ \E c \in Callers :
       \/ (OpFilePut(c) \/ OpFileGet(c) \/ OpRemove(c)) /\ UNCHANGED toCid
       \/ receiveFile(c) \/ sendFile(c)
  /\ UNCHANGED <<localFile, call, changes>>

-----------------------------------------------------------------------------
(* Others, and deaths. *)

Changes ==
  /\ changes < MaxChanges /\ changes' = changes + 1
  /\ \E n \in 1 .. MaxSegments :
       LET content == Content([k \in 1 .. n |-> changes']) IN
       \/ \E f \in Locals :
            /\ localFile[f].exists /\ localFile' = [localFile EXCEPT ![f] = content]
            /\ touched' = touched \cup {c \in Begun : LocalOf[c] = f} /\ UNCHANGED remoteFile
       \/ \E p \in Paths :
            /\ remoteFile[p].exists /\ remoteFile' = [remoteFile EXCEPT ![p] = content]
            /\ touched' = touched \cup {c \in Begun : call[c].path = p} /\ UNCHANGED localFile
  /\ UNCHANGED <<call, toCid, toCaller, calls, transfer, alive>>

Kill == kills < MaxKills /\ kills' = kills + 1
\* What has been written to a file that is still open may be in it or not.
SavedOf(got) == {Content(SubSeq(got, 1, k)) : k \in 0 .. Len(got)}
CallerDies(c) ==
  /\ call[c].at \notin {"before", "over", "dead"}
  /\ call' = [call EXCEPT ![c] = [@ EXCEPT !.at = "dead", !.got = <<>>]]
  /\ IF call[c].at = "receives" THEN \E content \in SavedOf(call[c].got) : WritesLocal(c, content)
     ELSE UNCHANGED <<localFile, touched>>
  /\ KeepsCid /\ UNCHANGED <<toCid, toCaller, calls>>
CidDies ==
  /\ alive /\ alive' = FALSE /\ transfer' = NoTransfer
  /\ IF transfer.call # NoCaller /\ call[transfer.call].op = "PUT"
     THEN \E content \in SavedOf(transfer.got) : WritesRemote(transfer.call, content)
     ELSE UNCHANGED <<remoteFile, touched>>
  /\ UNCHANGED <<localFile, call, toCid, toCaller, calls, changes>>

TransferNext ==
  \/ /\ \/ CidServes \/ Changes
        \/ \E c \in Callers :
             \/ \E p \in Paths : file_put(c, p) \/ file_get(c, p) \/ file_remove(c, p)
             \/ SendsSegment(c) \/ GetsAnswer(c) \/ ReceivesSegment(c)
             \/ call[c].at = "sends" /\ ~alive /\ CallerDies(c)   \* of SIGPIPE
     /\ UNCHANGED kills
  \/ Kill /\ (CidDies \/ \E c \in Callers : CallerDies(c))

-----------------------------------------------------------------------------
(* The users.  Every login asked for has an account.                        *)

validSynergyuser(l) == l \in ToSet(userFile)
Clerk(s, at, l) == clerk' = [clerk EXCEPT ![s] = [at |-> at, login |-> l]]
\* Someone who is a user is not added, and someone who is not one is not deleted.  Two
\* additions bear each other, unless they are of the same user.
OpAddUser(s, l) ==
  /\ clerk[s].at = "idle" /\ ~validSynergyuser(l)
  /\ Clerk(s, "adds", l) /\ UNCHANGED <<userFile, draft, enrolled>>
  /\ raced' = \E r \in Servers : clerk[r].at \in {"copies", "renames"} \/ clerk[r].login = l
OpDeleteUser(s, l) ==
  /\ clerk[s].at = "idle" /\ validSynergyuser(l)
  /\ Clerk(s, "copies", l) /\ UNCHANGED <<userFile, draft, enrolled>>
  /\ raced' = \E r \in Servers : clerk[r].at # "idle"
addUser(s) ==
  /\ clerk[s].at = "adds" /\ Clerk(s, "idle", NoLogin)
  /\ userFile' = Append(userFile, clerk[s].login) /\ enrolled' = enrolled \cup {clerk[s].login}
  /\ UNCHANGED <<draft, raced>>
deleteUser(s) ==
  /\ UNCHANGED raced
  /\ \/ /\ clerk[s].at = "copies" /\ Clerk(s, "renames", clerk[s].login)
        /\ draft' = RemoveFirst(userFile, clerk[s].login) /\ UNCHANGED <<userFile, enrolled>>
     \/ /\ clerk[s].at = "renames" /\ Clerk(s, "idle", NoLogin)
        /\ userFile' = draft /\ draft' = <<>> /\ enrolled' = enrolled \ {clerk[s].login}
ServerDies(s) ==
  clerk[s].at # "idle" /\ Clerk(s, "idle", NoLogin) /\ UNCHANGED <<userFile, draft, enrolled, raced>>

\* What becomes of the file when a deletion has overlapped with a change is not looked at.
UserNext ==
  /\ ~raced
  /\ \/ /\ UNCHANGED kills
        /\ \E s \in Servers : addUser(s) \/ deleteUser(s) \/ \E l \in Logins : OpAddUser(s, l) \/ OpDeleteUser(s, l)
     \/ Kill /\ \E s \in Servers : ServerDies(s)

FilesNext ==
  \/ TransferNext /\ UNCHANGED userVars
  \/ UserNext /\ UNCHANGED transferVars

FilesSpec == FilesInit /\ [][FilesNext]_filesVars

-----------------------------------------------------------------------------
(* Properties. *)

\* Unless somebody else changes one of the two files, they are the same after a transfer that
\* was reported done, a removed one is gone, and a file_put that the CID is done with has left
\* all of the file or none, whether its caller has died or not (cid.c:982, 1085, cidlib.c:192).
TransfersAreRight ==
  \A c \in Callers \ touched :
    LET source == localFile[LocalOf[c]]
        result == remoteFile[call[c].path] IN
    /\ call[c].result = "yes" /\ call[c].op \in {"PUT", "GET"} => source = result /\ source.exists
    /\ call[c].result = "yes" /\ call[c].op = "REMOVE" => ~result.exists
    /\ call[c].op = "PUT" /\ call[c].size > 0 /\ alive /\ Served(c) => result = source \/ ~result.exists

\* No transfer leaves an empty or partial file, but a death, or a file_put of a file that is
\* not there and whose length is taken for 0; a user is on the list, once, from his addition
\* to his deletion, whenever a CID dies (cid.c:1085, 1119).
LoginFilesAreRight ==
  /\ TransfersAreRight
  /\ alive => \A p \in Paths :
       remoteFile[p] = Content(<<>>) => \E c \in Callers : call[c].op = "PUT" /\ call[c].path = p
                                                            /\ (transfer.call = c \/ call[c].size = 0)
  /\ ~raced => ToSet(userFile) = enrolled /\ IsInjective(userFile)
=============================================================================
