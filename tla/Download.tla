------------------------------ MODULE Download ------------------------------
(***************************************************************************)
(* PluginCore::getFile (fsplugin_impl.hpp) with the AdbClient operations   *)
(* it makes (syncStat, openSyncTransport, syncRecv, and shellCommand for   *)
(* the rm of a move), adbd serving the file, another program editing it on *)
(* the device, a device that falls asleep, a user who presses Cancel, a    *)
(* local disk that refuses, and a host process that dies at any step.      *)
(* A blocking socket call is one step: what it guarantees is               *)
(* TransportContract.                                                      *)
(*                                                                         *)
(* A file is what a later reader can tell apart: which remote version its  *)
(* bytes come from, how many of that version's chunks it holds, its date.  *)
(***************************************************************************)
EXTENDS Integers

CONSTANTS
    MaxVersion,     \* bound: how often the remote file is rewritten
    Chunks,         \* Chunks[v]: how many DATA packets version v takes
    MaxCalls,       \* bound: calls of getFile
    MaxCrashes      \* bound: deaths of the host process
ASSUME DownloadAssumption ==
    /\ MaxVersion \in Nat \ {0} /\ MaxCalls \in Nat /\ MaxCrashes \in Nat
    /\ Chunks \in [0..MaxVersion -> Nat] /\ Chunks[0] = 0

Versions == 1..MaxVersion
Now      == MaxVersion + 1      \* the date of a file just written locally
LinkDate == MaxVersion + 2      \* the date of the symlink itself

NoFile  == [ver |-> -1, got |-> 0, date |-> 0]
Mine    == [ver |-> 0, got |-> 0, date |-> 0]         \* the user's earlier local file
Created == [ver |-> -2, got |-> 0, date |-> Now]      \* open(O_CREAT | O_TRUNC)
Exists(f) == f # NoFile
Whole(f)  == f.ver >= 0 /\ f.got = Chunks[f.ver]

VARIABLES
    pc,         \* where getFile is (or idle, dead)
    flags,      \* FS_COPYFLAGS_OVERWRITE, FS_COPYFLAGS_MOVE
    info,       \* remoteInfo.mtime, as statted
    viaTemp,    \* viaTempFile
    why,        \* recvErr in flight: ADB_CANCELLED or any other message
    code,       \* what the last call returned
    notice,     \* *error is not empty
    stallCancelled,
    cancel,     \* the user has pressed Cancel during this call
    target, temp,   \* the local file, and the file at tempDownloadPath
    kind,       \* on the device: a plain file, or a symlink to one
    remote,     \* its current version, 0 = there is none
    served,     \* the version adbd opened for this RECV, -1 = not yet
    sent,       \* DATA packets adbd has sent
    asleep,     \* the device answers nothing
    calls, crashes,
    before, began   \* ghosts: target and remote when the call started

local  == <<target, temp>>
device == <<kind, remote, served, sent, asleep>>
ghosts == <<calls, crashes, before, began>>
args   == <<flags, info, viaTemp>>
result == <<code, notice>>
user   == <<stallCancelled, cancel>>
vars == <<pc, args, why, result, user, local, device, ghosts>>

Init ==
    /\ pc = "idle" /\ flags = [overwrite |-> FALSE, move |-> FALSE]
    /\ info = 0 /\ viaTemp = FALSE /\ why = "none" /\ code = "none" /\ notice = FALSE
    /\ stallCancelled = FALSE /\ cancel = FALSE
    /\ target \in {NoFile, Mine} /\ temp = NoFile
    /\ kind \in {"file", "link"} /\ remote \in 0..1 /\ served = -1 /\ sent = 0
    /\ asleep = FALSE /\ calls = 0 /\ crashes = 0 /\ before = NoFile /\ began = 0

-----------------------------------------------------------------------------
(* The device, and the user.                                               *)

\* Another app saves the file: a new version replaces the old one whole, and
\* an adbd that has the old one open keeps reading the old one.  Or removes it.
RemoteEdited ==
    /\ remote > 0
    /\ \/ remote < MaxVersion /\ remote' = remote + 1
       \/ remote' = 0
    /\ UNCHANGED <<pc, args, why, result, user, local, kind, served, sent, asleep, ghosts>>

SleepsOrWakes ==
    /\ asleep' = ~asleep
    /\ UNCHANGED <<pc, args, why, result, user, local, kind, remote, served, sent, ghosts>>

AdbdOpens ==
    /\ pc = "header" /\ served = -1 /\ ~asleep
    /\ served' = remote
    /\ UNCHANGED <<pc, args, why, result, user, local, kind, remote, sent, asleep, ghosts>>

UserCancels ==
    /\ pc \notin {"idle", "dead"} /\ ~cancel /\ cancel' = TRUE
    /\ UNCHANGED <<pc, args, why, result, stallCancelled, local, device, ghosts>>

-----------------------------------------------------------------------------
(* getFile up to the transfer.                                             *)

GoTo(l)   == pc' = l /\ UNCHANGED result
Return(c, said) == pc' = "idle" /\ code' = c /\ notice' = said

Start(overwrite, move) ==
    /\ pc = "idle" /\ calls < MaxCalls /\ calls' = calls + 1
    /\ flags' = [overwrite |-> overwrite, move |-> move]
    /\ stallCancelled' = FALSE /\ cancel' = FALSE /\ why' = "none"
    /\ served' = -1 /\ sent' = 0
    /\ before' = target /\ began' = remote
    /\ pc' = "stat" /\ code' = "none" /\ notice' = FALSE
    /\ UNCHANGED <<info, viaTemp, local, kind, remote, asleep, crashes>>

\* A session of its own, no callback on it: a sleeping device holds it for good.
StatFails ==
    /\ pc = "stat" /\ Return("READERROR", TRUE)
    /\ UNCHANGED <<args, why, user, local, device, ghosts>>

\* adbd's STAT is an lstat: a link is described, not followed.
Stat ==
    /\ pc = "stat" /\ ~asleep
    /\ IF remote = 0 /\ kind = "file"
       THEN Return("NOTFOUND", FALSE) /\ UNCHANGED info
       ELSE /\ info' = (IF kind = "link" THEN LinkDate ELSE remote)
            /\ GoTo(IF kind = "link" THEN "restat" ELSE "open")
    /\ UNCHANGED <<flags, viaTemp, why, user, local, device, ghosts>>

\* lstat("link/.") resolves a link to a directory; one to a plain file is
\* ENOTDIR, which syncStat reports as "does not exist", like a dangling one.
\* Best effort: in every such case, and on any error, the link's numbers stay.
Restat ==
    /\ pc = "restat" /\ GoTo("open")
    /\ UNCHANGED <<args, why, user, local, device, ghosts>>

\* Mutant: every download is written straight to its final name.
NeverTemp == FALSE

UseTemp == Exists(target)       \* const bool viaTempFile = targetExists

Put(f) == IF viaTemp THEN temp' = f /\ UNCHANGED target
                     ELSE target' = f /\ UNCHANGED temp
Written == IF viaTemp THEN temp ELSE target     \* the file at writePath

Open ==
    /\ pc = "open"
    /\ IF Exists(target) /\ ~flags.overwrite
       THEN Return("EXISTS", FALSE) /\ UNCHANGED <<viaTemp, local>>
       ELSE /\ viaTemp' = UseTemp
            /\ IF viaTemp' THEN temp' = Created /\ UNCHANGED target
                           ELSE target' = Created /\ UNCHANGED temp
            /\ GoTo("connect")
    /\ UNCHANGED <<flags, info, why, user, device, ghosts>>

OpenFails ==
    /\ pc = "open" /\ ~(Exists(target) /\ ~flags.overwrite)
    /\ viaTemp' = UseTemp /\ Return("WRITEERROR", TRUE)
    /\ UNCHANGED <<flags, info, why, user, local, device, ghosts>>

-----------------------------------------------------------------------------
(* syncRecv.  From "request" on the stall callback is installed.           *)

Hooked   == {"request", "header", "payload", "write", "failBody"}
SyncRecv == Hooked \cup {"connect"}

RecvFails(reason) == pc' = "cleanup" /\ why' = reason /\ UNCHANGED result

Connect ==
    /\ pc = "connect" /\ ~asleep /\ GoTo("request")
    /\ UNCHANGED <<args, why, user, local, device, ghosts>>

SendRequest ==
    /\ pc = "request" /\ ~asleep /\ GoTo("header")
    /\ UNCHANGED <<args, why, user, local, device, ghosts>>

\* Connection refused, reset or closed, or a reply that is not in the protocol.
SessionBreaks ==
    /\ pc \in {"connect", "request", "header", "payload", "failBody"}
    /\ RecvFails("io")
    /\ UNCHANGED <<args, user, local, device, ghosts>>

\* Mutant: no callback on the socket; Cancel is polled between chunks only.
StallNeverCancelled == FALSE /\ UNCHANGED vars

\* Nothing to read or no room to write: SOCKET_TIMEOUT_MS passes, the callback
\* is polled.  cancellationOr is not applied to the body of a FAIL.
Stalled == asleep \/ (pc = "header" /\ served = -1)

StallCancelled ==
    /\ pc \in {"request", "header", "payload", "failBody"} /\ Stalled /\ cancel
    /\ stallCancelled' = TRUE
    /\ RecvFails(IF pc = "failBody" THEN "io" ELSE "cancelled")
    /\ UNCHANGED <<args, cancel, local, device, ghosts>>

HeaderData ==
    /\ pc = "header" /\ served > 0 /\ sent < Chunks[served] /\ ~asleep
    /\ GoTo("payload")
    /\ UNCHANGED <<args, why, user, local, device, ghosts>>

\* Mutant: the end of the stream counts as the end of the file.
EndsAnywhere == served > 0 /\ sent <= Chunks[served]

\* adbd's DONE is the only way out of the loop that is not a failure.
EndsTransfer == served > 0 /\ sent = Chunks[served]

HeaderDone ==
    /\ pc = "header" /\ EndsTransfer /\ ~asleep
    /\ Put([Written EXCEPT !.ver = served])     \* tells an empty version's file apart
    /\ GoTo(IF viaTemp THEN "rename" ELSE "stamp")
    /\ UNCHANGED <<args, why, user, device, ghosts>>

\* The file is gone or unreadable, or adbd's own read failed half way.
HeaderFail ==
    /\ pc = "header" /\ served >= 0 /\ ~asleep /\ GoTo("failBody")
    /\ UNCHANGED <<args, why, user, local, device, ghosts>>

ReadPayload ==
    /\ pc = "payload" /\ ~asleep /\ GoTo("write")
    /\ UNCHANGED <<args, why, user, local, device, ghosts>>

ReadFailBody ==
    /\ pc = "failBody" /\ ~asleep /\ RecvFails("io")
    /\ UNCHANGED <<args, user, local, device, ghosts>>

\* Mutant: a short write is taken up again from the start of the chunk.
WriteChunkTwice ==
    /\ pc = "write"
    /\ \E k \in 1..2 : Put([ver |-> served, got |-> Written.got + k, date |-> Now])
    /\ sent' = sent + 1
    /\ IF cancel THEN RecvFails("cancelled") ELSE GoTo("header") /\ UNCHANGED why
    /\ UNCHANGED <<args, user, kind, remote, served, asleep, ghosts>>

\* writeAllToFd, then the progress callback: Cancel between two chunks.
WriteChunk ==
    /\ pc = "write"
    /\ Put([ver |-> served, got |-> Written.got + 1, date |-> Now])
    /\ sent' = sent + 1
    /\ IF cancel THEN RecvFails("cancelled") ELSE GoTo("header") /\ UNCHANGED why
    /\ UNCHANGED <<args, user, kind, remote, served, asleep, ghosts>>

DiskFull ==
    /\ pc = "write" /\ RecvFails("io")
    /\ UNCHANGED <<args, user, local, device, ghosts>>

-----------------------------------------------------------------------------
(* getFile after the transfer.                                             *)

\* Mutant: a cancelled transfer keeps what it has.
CleanupKeepsFile ==
    /\ pc = "cleanup"
    /\ IF why = "cancelled" THEN Return("USERABORT", FALSE) /\ UNCHANGED local
                            ELSE Return("READERROR", TRUE) /\ Put(NoFile)
    /\ UNCHANGED <<args, why, user, device, ghosts>>

Cleanup ==
    /\ pc = "cleanup" /\ Put(NoFile)            \* unlink(writePath)
    /\ IF why = "cancelled" THEN Return("USERABORT", FALSE) ELSE Return("READERROR", TRUE)
    /\ UNCHANGED <<args, why, user, device, ghosts>>

Rename ==
    /\ pc = "rename" /\ target' = temp /\ temp' = NoFile /\ GoTo("stamp")
    /\ UNCHANGED <<args, why, user, device, ghosts>>

RenameFails ==
    /\ pc = "rename" /\ temp' = NoFile /\ Return("WRITEERROR", TRUE)
    /\ UNCHANGED <<args, why, user, target, device, ghosts>>

\* Mutant: the date is that of the moment the download finished.
StampNothing ==
    /\ pc = "stamp" /\ UNCHANGED target
    /\ IF flags.move THEN GoTo("delete") ELSE Return("OK", FALSE)
    /\ UNCHANGED <<args, why, user, temp, device, ghosts>>

Stamp ==
    /\ pc = "stamp" /\ target' = [target EXCEPT !.date = info]
    /\ IF flags.move THEN GoTo("delete") ELSE Return("OK", FALSE)
    /\ UNCHANGED <<args, why, user, temp, device, ghosts>>

\* Mutant: the file is removed, and the move goes on to remove the source as well.
StampFailsAndDeletes ==
    /\ pc = "stamp" /\ target' = NoFile
    /\ IF flags.move THEN GoTo("delete") ELSE Return("WRITEERROR", TRUE)
    /\ UNCHANGED <<args, why, user, temp, device, ghosts>>

\* A copy with the wrong date is worse than none: it is removed.
StampFails ==
    /\ pc = "stamp" /\ target' = NoFile /\ Return("WRITEERROR", TRUE)
    /\ UNCHANGED <<args, why, user, temp, device, ghosts>>

\* deleteFile runs rm: the command may take effect whether or not its output
\* comes back, and either failure leaves the code at OK with a message.
Delete ==
    /\ pc = "delete" /\ ~asleep
    /\ remote' = 0 /\ \E said \in BOOLEAN : Return("OK", said)
    /\ UNCHANGED <<args, why, user, local, kind, served, sent, asleep, ghosts>>

DeleteFails ==
    /\ pc = "delete" /\ Return("OK", TRUE)
    /\ UNCHANGED <<args, why, user, local, device, ghosts>>

-----------------------------------------------------------------------------
(* The host process dies with its plugin.  The next one has another pid,   *)
(* so it never sees the temp file of the dead one.                         *)

Crash ==
    /\ pc \notin {"idle", "dead"} /\ crashes < MaxCrashes /\ crashes' = crashes + 1
    /\ pc' = "dead" /\ code' = "none" /\ UNCHANGED notice
    /\ UNCHANGED <<args, why, user, local, device, calls, before, began>>

Restart ==
    /\ pc = "dead" /\ temp' = NoFile /\ GoTo("idle")
    /\ UNCHANGED <<args, why, user, target, device, ghosts>>

Thread ==
    \/ StatFails \/ Stat \/ Restat \/ Open \/ OpenFails \/ Connect \/ SendRequest
    \/ SessionBreaks \/ StallCancelled \/ HeaderData \/ HeaderDone \/ HeaderFail
    \/ ReadPayload \/ ReadFailBody \/ WriteChunk \/ DiskFull \/ Cleanup
    \/ Rename \/ RenameFails \/ Stamp \/ StampFails \/ Delete \/ DeleteFails

Next ==
    \/ \E overwrite, move \in BOOLEAN : Start(overwrite, move)
    \/ Thread \/ RemoteEdited \/ SleepsOrWakes \/ AdbdOpens \/ UserCancels
    \/ Crash \/ Restart

Spec == Init /\ [][Next]_vars

\* The steps the thread takes without the surroundings doing it a disservice:
\* no failure is promised, least of all that a silent connection breaks.
ThreadRuns ==
    \/ Stat \/ Restat \/ Open \/ Connect \/ SendRequest \/ StallCancelled
    \/ HeaderData \/ HeaderDone \/ HeaderFail \/ ReadPayload \/ ReadFailBody
    \/ WriteChunk \/ Cleanup \/ Rename \/ Stamp \/ Delete
FairSpec == Spec /\ WF_vars(ThreadRuns)
-----------------------------------------------------------------------------
(* Properties.                                                             *)

Files == [ver : -2..MaxVersion, got : Nat, date : 0..LinkDate]
FileOK(f) == f \in Files /\ f.got <= (IF f.ver > 0 THEN Chunks[f.ver] ELSE 0)

\* Every variable stays in its range; no file holds more than its version has.
TypeOK ==
    /\ pc \in {"idle", "dead", "stat", "restat", "open", "connect", "request", "header",
              "payload", "write", "failBody", "cleanup", "rename", "stamp", "delete"}
    /\ flags \in [overwrite : BOOLEAN, move : BOOLEAN]
    /\ info \in 0..LinkDate /\ viaTemp \in BOOLEAN /\ why \in {"none", "io", "cancelled"}
    /\ code \in {"none", "OK", "EXISTS", "NOTFOUND", "READERROR", "WRITEERROR", "USERABORT"}
    /\ notice \in BOOLEAN /\ stallCancelled \in BOOLEAN /\ cancel \in BOOLEAN
    /\ FileOK(target) /\ FileOK(temp) /\ FileOK(before)
    /\ kind \in {"file", "link"} /\ remote \in 0..MaxVersion /\ began \in 0..MaxVersion
    /\ served \in -1..MaxVersion /\ sent \in Nat /\ asleep \in BOOLEAN
    /\ calls \in 0..MaxCalls /\ crashes \in 0..MaxCrashes

\* getFile says OK only over a file that is one whole version of the remote one,
\* whatever broke, slept or was edited meanwhile; nothing of it stays at the temp name.
OkIsWhole == code = "OK" => Whole(target) /\ target.ver > 0 /\ temp = NoFile

\* Any other answer leaves the local name as the call found it, temp file gone
\* (or, only when the new file could not be dated, nothing there at all), and
\* "aborted" is said only to a user who asked for it.
FailureChangesNothing ==
    pc = "idle" /\ code \notin {"none", "OK"} =>
        /\ temp = NoFile
        /\ target = before \/ (code = "WRITEERROR" /\ target = NoFile)
        /\ code = "USERABORT" => cancel

\* A whole local file is never seen half overwritten, not even by a crash: it is
\* replaced in one step by a whole one, restamped, or removed for want of a date.
ReplaceIsAtomic ==
    [][Whole(before) /\ Whole(target) /\ target' # target =>
         Whole(target') \/ (pc = "stamp" /\ target' = NoFile)]_vars

\* The project's headline requirement, for a plain file: a copy carries a date the
\* remote file had during this call, and never a later one than its own contents
\* (a stale copy that looked newer would be skipped by every later sync).
DateIsFromTheFile ==
    code = "OK" /\ kind = "file" => began <= target.date /\ target.date <= target.ver

\* A move gives the order to remove the source only over a whole, dated copy.
SourceGoesLast ==
    pc = "delete" => flags.move /\ Whole(target) /\ target.ver > 0 /\ target.date = info

\* A user who presses Cancel once the callback is installed gets out of the
\* transfer, device asleep or not.
CancelLeavesTransfer == (pc \in Hooked /\ cancel) ~> (pc \notin Hooked)

\* fsplugin_impl.hpp:530-534: a download through a symlink does not carry the
\* date of the link.
LinkDateNotKept == code = "OK" /\ kind = "link" => target.date # LinkDate

\* adbclient.hpp:667-671: a transport failure after the stall callback gave up is
\* reported as the cancellation it is, never as an I/O error.
StallCancelIsAbort == code = "READERROR" => ~stallCancelled
=============================================================================
