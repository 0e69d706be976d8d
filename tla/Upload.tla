------------------------------- MODULE Upload -------------------------------
(***************************************************************************)
(* PluginCore::putFile (fsplugin_impl.hpp) with AdbClient::syncSend        *)
(* (adbclient.hpp): one upload of one local file.  Client and adbd run     *)
(* side by side: packets wait in the socket buffers, adbd may refuse any   *)
(* of them and hang up while the client is still writing, another program  *)
(* edits the local file under the open descriptor, the device falls        *)
(* asleep, the user presses Cancel.  adbd goes on with what is in the      *)
(* buffers after the client has given up.                                  *)
(***************************************************************************)
EXTENDS Integers, Sequences

CONSTANTS
    MaxVersion,     \* bound: how often the local file is edited
    Chunks,         \* Chunks[v]: DATA packets of local version v
    Dates,          \* Dates[v]: its modification time, any 64-bit value
    Wrap,           \* 2^32: the mtime field of a DONE packet holds 0 .. Wrap - 1
    Window          \* packets the socket buffers hold
ASSUME UploadAssumption ==
    /\ MaxVersion \in Nat \ {0} /\ Wrap \in Nat \ {0} /\ Window \in Nat \ {0}
    /\ Chunks \in [1..MaxVersion -> Nat] /\ Dates \in [1..MaxVersion -> Int]

Unset == -1
NoRemote == [there |-> FALSE, parts |-> <<>>, date |-> Unset]
Packet(id, val) == [id |-> id, val |-> val]

VARIABLES
    pc, flags,      \* where putFile is; OVERWRITE and MOVE
    seen,           \* the local version its stat() described
    sent, chunk,    \* syncSend: DATA packets written, and the one in its buffer
    code, notice,   \* what it returned; whose words *error holds
    cancel,         \* the user has pressed Cancel
    local,          \* the local file: is it there, and its version
    asleep,
    chan, adbd, reply,  \* packets in the buffers; adbd's side; what it answered
    remote          \* the file on the device

call == <<flags, seen>>
link == <<asleep, chan, adbd, reply, remote>>
vars == <<pc, call, sent, chunk, code, notice, cancel, local, link>>

Init ==
    /\ pc = "idle" /\ flags = [overwrite |-> FALSE, move |-> FALSE]
    /\ seen = 1 /\ sent = 0 /\ chunk = 0 /\ code = "none" /\ notice = "none"
    /\ cancel = FALSE /\ local = [there |-> TRUE, ver |-> 1] /\ asleep = FALSE
    /\ chan = <<>> /\ adbd = "idle" /\ reply = "none"
    /\ remote \in {NoRemote, [there |-> TRUE, parts |-> <<0>>, date |-> 0]}

-----------------------------------------------------------------------------
(* The other program on the computer, the device's sleep, the user.        *)

\* In place, under any descriptor that is open on the file.
LocalEdited ==
    /\ local.there /\ local.ver < MaxVersion /\ local' = [local EXCEPT !.ver = @ + 1]
    /\ UNCHANGED <<pc, call, sent, chunk, code, notice, cancel, link>>

SleepsOrWakes ==
    /\ asleep' = ~asleep
    /\ UNCHANGED <<pc, call, sent, chunk, code, notice, cancel, local, chan, adbd, reply, remote>>

UserCancels ==
    /\ pc \notin {"idle", "returned"} /\ ~cancel /\ cancel' = TRUE
    /\ UNCHANGED <<pc, call, sent, chunk, code, notice, local, link>>

-----------------------------------------------------------------------------
(* adbd: one SEND session, from the packets in the buffers.                *)

Client == <<pc, call, sent, chunk, code, notice, cancel, local, asleep>>

AdbdTakes(id) ==
    /\ ~asleep /\ adbd \in {"idle", "open"} /\ chan # <<>> /\ Head(chan).id = id
    /\ chan' = Tail(chan) /\ UNCHANGED Client

AdbdOpens ==
    /\ AdbdTakes("SEND") /\ adbd' = "open" /\ UNCHANGED reply
    /\ remote' = [there |-> TRUE, parts |-> <<>>, date |-> Unset]

AdbdWrites ==
    /\ AdbdTakes("DATA") /\ UNCHANGED <<adbd, reply>>
    /\ remote' = [remote EXCEPT !.parts = Append(@, Head(chan).val)]

AdbdFinishes ==
    /\ AdbdTakes("DONE") /\ adbd' = "done" /\ reply' = "OKAY"
    /\ remote' = [remote EXCEPT !.date = Head(chan).val]

\* Read-only target, card full: FAIL, and the connection is closed behind it.
\* Whether the partial file stays is adbd's business.
AdbdRefuses ==
    /\ \E id \in {"SEND", "DATA", "DONE"} : AdbdTakes(id)
    /\ adbd' = "gone" /\ reply' = "FAIL"
    /\ remote' \in (IF adbd = "open" THEN {remote, NoRemote} ELSE {remote})

\* The server or the link dies, or adbd reads the end the client has closed.
BeforeSession == pc \in {"idle", "stat", "remoteStat", "open", "connect"}
AdbdLeaves ==
    /\ adbd \in {"idle", "open"} /\ ~BeforeSession
    /\ adbd' = "gone" /\ UNCHANGED <<reply, chan>>
    /\ remote' \in (IF adbd = "open" THEN {remote, NoRemote} ELSE {remote})
    /\ UNCHANGED Client

-----------------------------------------------------------------------------
(* putFile up to the transfer.                                             *)

GoTo(l) == pc' = l /\ UNCHANGED <<code, notice>>
Return(c, who) == pc' = "returned" /\ code' = c /\ notice' = who

Start(overwrite, move) ==
    /\ pc = "idle" /\ GoTo("stat") /\ flags' = [overwrite |-> overwrite, move |-> move]
    /\ UNCHANGED <<seen, sent, chunk, cancel, local, link>>

Stat ==
    /\ pc = "stat" /\ seen' = local.ver
    /\ GoTo(IF flags.overwrite THEN "open" ELSE "remoteStat")
    /\ UNCHANGED <<flags, sent, chunk, cancel, local, link>>

LocalFails ==
    /\ pc \in {"stat", "open"} /\ Return("READERROR", "errno")
    /\ UNCHANGED <<call, sent, chunk, cancel, local, link>>

\* Mutant: the STAT is made and its answer not looked at.
RemoteStatIgnored ==
    /\ pc = "remoteStat" /\ ~asleep /\ GoTo("open")
    /\ UNCHANGED <<call, sent, chunk, cancel, local, link>>

RemoteStat ==
    /\ pc = "remoteStat" /\ ~asleep
    /\ IF remote.there THEN Return("EXISTS", "none") ELSE GoTo("open")
    /\ UNCHANGED <<call, sent, chunk, cancel, local, link>>

Open ==
    /\ pc = "open" /\ GoTo("connect")
    /\ UNCHANGED <<call, sent, chunk, cancel, local, link>>

Connect ==
    /\ pc = "connect" /\ ~asleep /\ GoTo("request")
    /\ UNCHANGED <<call, sent, chunk, cancel, local, link>>

\* The STAT session or the handshake of the SEND session failed.
SessionRefused ==
    /\ pc \in {"remoteStat", "connect"} /\ Return("WRITEERROR", "errno")
    /\ UNCHANGED <<call, sent, chunk, cancel, local, link>>

-----------------------------------------------------------------------------
(* syncSend, with the stall callback installed.                            *)

Size == Chunks[seen]

\* A write is accepted when the buffers have room, and for a while after the
\* other end has hung up.
Accepts == adbd = "gone" \/ Len(chan) < Window
Writes(p) ==
    /\ Accepts /\ chan' = (IF adbd = "gone" THEN chan ELSE Append(chan, p))
    /\ UNCHANGED <<asleep, adbd, reply, remote>>

Writing == {"request", "data", "done"}
Hooked  == Writing \cup {"read", "pending", "final", "failBody"}

SendRequest ==
    /\ pc = "request" /\ Writes(Packet("SEND", 0)) /\ GoTo("read")
    /\ UNCHANGED <<call, sent, chunk, cancel, local>>

\* Mutant: reads what the file holds now instead of the size stat() gave.
ReadLocalToEnd ==
    /\ pc = "read" /\ sent < Chunks[local.ver]
    /\ chunk' = local.ver /\ GoTo("data")
    /\ UNCHANGED <<call, sent, cancel, local, link>>

ReadLocal ==
    /\ pc = "read" /\ sent < Size /\ sent < Chunks[local.ver]
    /\ chunk' = local.ver /\ GoTo("data")
    /\ UNCHANGED <<call, sent, cancel, local, link>>

\* Mutant: a short read of the local file is sent as the end of it.
ReadLocalShort ==
    /\ pc = "read" /\ sent < Size /\ GoTo("done")
    /\ UNCHANGED <<call, sent, chunk, cancel, local, link>>

\* The file has become shorter than stat() said, or cannot be read.
ReadLocalFails ==
    /\ pc = "read" /\ sent < Size /\ Return("WRITEERROR", "errno")
    /\ UNCHANGED <<call, sent, chunk, cancel, local, link>>

\* One DATA packet, then the progress callback: Cancel between two chunks.
WriteData ==
    /\ pc = "data" /\ Writes(Packet("DATA", chunk)) /\ sent' = sent + 1
    /\ IF cancel THEN Return("USERABORT", "none") ELSE GoTo("read")
    /\ UNCHANGED <<call, chunk, cancel, local>>

AllSent ==
    /\ pc = "read" /\ sent = Size /\ GoTo("done")
    /\ UNCHANGED <<call, sent, chunk, cancel, local, link>>

\* Mutant: time(nullptr) instead of the file's date.
MtimeNow == Wrap - 1

MtimeArg == Dates[seen] % Wrap      \* static_cast<uint32_t>(mtime)

WriteDone ==
    /\ pc = "done" /\ Writes(Packet("DONE", MtimeArg)) /\ GoTo("final")
    /\ UNCHANGED <<call, sent, chunk, cancel, local>>

WriteBreaks ==
    /\ pc \in Writing /\ adbd = "gone"
    /\ IF pc = "data" THEN GoTo("pending") ELSE Return("WRITEERROR", "errno")
    /\ UNCHANGED <<call, sent, chunk, cancel, local, link>>

\* readPendingSyncFail: adbd's own words if they are there (a reset may have
\* thrown them away), else those of errno.
Pending ==
    /\ pc = "pending"
    /\ \E who \in {"errno"} \cup (IF reply = "FAIL" THEN {"adbd"} ELSE {}) :
         Return("WRITEERROR", who)
    /\ UNCHANGED <<call, sent, chunk, cancel, local, link>>

\* Mutant: any reply to the DONE will do.
AnyReply == reply # "none"

\* The one way to succeed: adbd says OKAY to the DONE.
Acknowledged == reply = "OKAY"

FinalOkay ==
    /\ pc = "final" /\ ~asleep /\ Acknowledged
    /\ IF flags.move THEN GoTo("unlink") ELSE Return("OK", "none")
    /\ UNCHANGED <<call, sent, chunk, cancel, local, link>>

FinalFail ==
    /\ pc = "final" /\ ~asleep /\ reply = "FAIL" /\ GoTo("failBody")
    /\ UNCHANGED <<call, sent, chunk, cancel, local, link>>

ReadFailBody ==
    /\ pc = "failBody" /\ ~asleep /\ Return("WRITEERROR", "adbd")
    /\ UNCHANGED <<call, sent, chunk, cancel, local, link>>

FinalBreaks ==
    /\ pc \in {"final", "failBody"} /\ Return("WRITEERROR", "errno")
    /\ UNCHANGED <<call, sent, chunk, cancel, local, link>>

\* Mutant: a stalled socket just waits; Cancel is polled between chunks only.
NeverStalled == FALSE

\* No room to write, or no answer to read, for SOCKET_TIMEOUT_MS.
Stalled ==
    \/ pc \in Writing /\ ~Accepts
    \/ pc \in {"final", "failBody"} /\ (asleep \/ (reply = "none" /\ adbd # "gone"))

StallCancelled ==
    /\ Stalled /\ cancel
    /\ IF pc = "failBody" THEN Return("WRITEERROR", "errno") ELSE Return("USERABORT", "none")
    /\ UNCHANGED <<call, sent, chunk, cancel, local, link>>

-----------------------------------------------------------------------------
(* A move ends with the local file.                                        *)

Unlink ==
    /\ pc = "unlink" /\ local' = [local EXCEPT !.there = FALSE] /\ Return("OK", "none")
    /\ UNCHANGED <<call, sent, chunk, cancel, link>>

UnlinkFails ==
    /\ pc = "unlink" /\ Return("OK", "errno")
    /\ UNCHANGED <<call, sent, chunk, cancel, local, link>>

\* The steps the thread takes by itself; failures are nobody's promise.
ThreadRuns ==
    \/ Stat \/ RemoteStat \/ Open \/ Connect \/ SendRequest \/ ReadLocal
    \/ ReadLocalFails \/ WriteData \/ AllSent \/ WriteDone \/ Pending
    \/ FinalOkay \/ FinalFail \/ ReadFailBody \/ StallCancelled \/ Unlink
    \/ (adbd = "gone" /\ reply = "none" /\ FinalBreaks)

Next ==
    \/ \E overwrite, move \in BOOLEAN : Start(overwrite, move)
    \/ ThreadRuns
    \/ LocalFails \/ SessionRefused \/ WriteBreaks \/ FinalBreaks \/ UnlinkFails
    \/ AdbdOpens \/ AdbdWrites \/ AdbdFinishes \/ AdbdRefuses \/ AdbdLeaves
    \/ LocalEdited \/ SleepsOrWakes \/ UserCancels

Spec == Init /\ [][Next]_vars
FairSpec == Spec /\ WF_vars(ThreadRuns)
-----------------------------------------------------------------------------
(* Properties.                                                             *)

Stages == Hooked \cup {"idle", "stat", "remoteStat", "open", "connect", "unlink", "returned"}

\* Every variable stays in its range.
TypeOK ==
    /\ pc \in Stages /\ flags \in [overwrite : BOOLEAN, move : BOOLEAN]
    /\ seen \in 1..MaxVersion /\ sent \in 0..Size /\ chunk \in 0..MaxVersion
    /\ code \in {"none", "OK", "EXISTS", "READERROR", "WRITEERROR", "USERABORT"}
    /\ notice \in {"none", "errno", "adbd"} /\ cancel \in BOOLEAN
    /\ local \in [there : BOOLEAN, ver : 1..MaxVersion] /\ asleep \in BOOLEAN
    /\ chan \in Seq([id : {"SEND", "DATA", "DONE"}, val : 0..(MaxVersion + Wrap)])
    /\ Len(chan) <= Window
    /\ adbd \in {"idle", "open", "done", "gone"} /\ reply \in {"none", "OKAY", "FAIL"}
    /\ remote.there \in BOOLEAN /\ remote.parts \in Seq(0..MaxVersion)
    /\ remote.date \in Unset..(Wrap - 1)

\* The remote file is what stat() described, to the last chunk, in order; a chunk
\* can only be newer than that, and only if the file really was edited meanwhile.
HoldsTheFile ==
    /\ remote.there /\ Len(remote.parts) = Size
    /\ \A i \in 1..Size : remote.parts[i] \in seen..local.ver
    /\ remote.date # Unset

\* putFile says OK only when adbd holds the whole file, whichever packets were
\* still in the buffers when anything broke.
OkIsWhole == code = "OK" => HoldsTheFile

\* The other half of the headline requirement: the date that arrives is the one
\* the local file had, for every date the protocol's 32 bits can carry.
DateArrives == code = "OK" /\ Dates[seen] \in 0..(Wrap - 1) => remote.date = Dates[seen]

\* Without OVERWRITE a file that was on the device is not touched, at any moment
\* of the call nor by packets that adbd takes after it.
ExistingIsKept ==
    [][remote.there /\ remote.date = 0 /\ remote' # remote => flags.overwrite]_vars

\* The local source of a move disappears only when the device holds it whole.
SourceGoesLast ==
    [][local.there /\ ~local'.there => flags.move /\ HoldsTheFile]_vars

\* What the user is told is true: an abort was asked for, the words of adbd are
\* words adbd sent, and a refusal is never reported as a success.
AnswerIsHonest ==
    /\ code = "USERABORT" => cancel
    /\ notice = "adbd" => reply = "FAIL"
    /\ reply = "FAIL" => code # "OK"

\* A user who presses Cancel gets out of the transfer, device asleep or not,
\* buffers full or not.
CancelLeavesTransfer == (pc \in Hooked /\ cancel) ~> (pc \notin Hooked)

\* fsplugin_impl.hpp:699-700: the local file's real mtime is what gets sent.
RealDateArrives == code = "OK" => remote.date = Dates[seen]
=============================================================================
