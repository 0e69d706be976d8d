------------------------------ MODULE DeviceOps ------------------------------
(***************************************************************************)
(* The operations PluginCore runs on the device itself, with shell         *)
(* commands and STATs: renameOrMove (runDeviceMove, runDeviceCopy),        *)
(* setModificationTime, deleteFile, removeDir, makeDir, and the codes the  *)
(* exports of fsplugin.cpp make of them.  Every session is one step;       *)
(* between two of them other apps change the same files.  The shell gives  *)
(* no exit status: a command with no output has succeeded, as far as the   *)
(* plugin can tell, and so has one whose connection the server closed.     *)
(* What these operations do to the listing cache is Listing's.             *)
(***************************************************************************)
EXTENDS Integers

CONSTANTS
    Paths,          \* paths that are used
    FileOf,         \* FileOf[p]: the file p names; two paths may name the same
    Device,         \* Device[p]: the device it is on
    Versions,       \* the contents other apps give their files
    Dates,          \* Dates[v]: the date a file with contents v got from its app
    Asked,          \* dates that FsSetTimeW is called with
    LastTouchT,     \* the last date touch -t can express (the end of year 9999)
    Shared          \* bound: the files other apps change
Files == {FileOf[p] : p \in Paths}
ASSUME DeviceAssumption ==
    /\ Paths # {} /\ Shared \subseteq Files /\ Versions \subseteq Nat \ {0}
    /\ LastTouchT \in Nat /\ Asked \subseteq Nat
    /\ Dates \in [Versions -> Nat]
    /\ \A p, q \in Paths : FileOf[p] = FileOf[q] => Device[p] = Device[q]

Never  == -1
Now    == -2            \* the date of what a command has just written
Absent == [ver |-> 0, date |-> Never]
Folder == [ver |-> -1, date |-> Now]
Torn   == [ver |-> -2, date |-> Now]        \* a copy that stopped half way
There(f)    == f.ver # 0
IsFolder(f) == f.ver = Folder.ver
FromApps == {[ver |-> v, date |-> Dates[v]] : v \in Versions}

VARIABLES
    pc, op,     \* where the call is, and what was asked for
    want,       \* the date to set
    code,       \* what the export returns
    files,      \* on the devices
    before,     \* ghost: files when the call began
    meddled,    \* ghost: the files that other apps changed during the call
    lost        \* ghost: a command did not run, and its silence passed for success

ghosts == <<before, meddled, lost>>
vars   == <<pc, op, want, code, files, ghosts>>

SomePath == CHOOSE p \in Paths : TRUE
Call(kind, from, to, overwrite) ==
    [kind |-> kind, from |-> from, to |-> to, overwrite |-> overwrite]
NoCall  == Call("delete", SomePath, SomePath, TRUE)
NoFiles == [f \in Files |-> Absent]

Init ==
    /\ pc = "idle" /\ op = NoCall /\ want = Never /\ code = "none" /\ files = NoFiles
    /\ before = NoFiles /\ meddled = {} /\ lost = FALSE

-----------------------------------------------------------------------------
\* Another app writes its file f or removes it.
OtherApp(f) ==
    /\ pc # "done"
    /\ \E x \in {Absent} \cup FromApps : x # files[f] /\ files' = [files EXCEPT ![f] = x]
    /\ meddled' = IF pc = "idle" THEN {} ELSE meddled \cup {f}
    /\ UNCHANGED <<pc, op, want, code, before, lost>>

-----------------------------------------------------------------------------
(* The calls.                                                              *)

GoTo(l)   == pc' = l /\ UNCHANGED code
Return(c) == pc' = "done" /\ code' = c

Begin(o, l, date) ==
    /\ pc = "idle" /\ pc' = l /\ op' = o /\ want' = date /\ before' = files
    /\ UNCHANGED <<code, files, meddled, lost>>

\* The export returns, and nothing of the call stays.
Answer ==
    /\ pc = "done" /\ pc' = "idle" /\ op' = NoCall /\ want' = Never /\ code' = "none"
    /\ before' = NoFiles /\ meddled' = {} /\ lost' = FALSE
    /\ UNCHANGED files

FsDeleteFile(p) == Begin(Call("delete", p, p, TRUE), "command", Never)
FsRemoveDir(p)  == Begin(Call("rmdir", p, p, TRUE), "command", Never)
FsMkDir(p)      == Begin(Call("make", p, p, TRUE), "command", Never)
\* With a date to set: FsSetTimeW answers TRUE to an unset one and does nothing.
FsSetTime(p, d) == Begin(Call("touch", p, p, TRUE), "stampStat", d)

\* FsRenMovFileW: two devices are refused before anything is asked of either.
FsRenMovFile(from, to, move, overwrite) ==
    LET o == Call(IF move THEN "move" ELSE "copy", from, to, overwrite)
    IN  IF Device[from] = Device[to]
        THEN Begin(o, IF overwrite THEN "branch" ELSE "check", Never)
        ELSE Begin(o, "refuse", Never)

RefuseOtherDevice ==
    /\ pc = "refuse" /\ Return("NOTSUPPORTED")
    /\ UNCHANGED <<op, want, files, ghosts>>

\* A STAT that could not be made.
StatFails ==
    /\ pc \in {"check", "statSource", "stampStat"} /\ Return("ERROR")
    /\ UNCHANGED <<op, want, files, ghosts>>

Source == files[FileOf[op.from]]
Target == files[FileOf[op.to]]

\* Mutant: mv -n and cp -n are trusted with it.
CheckTargetSkipped ==
    /\ pc = "check" /\ GoTo("branch")
    /\ UNCHANGED <<op, want, files, ghosts>>

\* Without overwrite: the target must not be there.
CheckTarget ==
    /\ pc = "check"
    /\ IF There(Target) THEN Return("EXISTS") ELSE GoTo("branch")
    /\ UNCHANGED <<op, want, files, ghosts>>

\* Mutant: left to cp.
SamePathIsFine == FALSE

\* A textual comparison: another name of the same file passes.
SamePath == op.from = op.to

Branch ==
    /\ pc = "branch"
    /\ IF op.kind = "move" THEN GoTo("command")
       ELSE IF SamePath THEN Return("ERROR") ELSE GoTo("statSource")
    /\ UNCHANGED <<op, want, files, ghosts>>

\* Mutant: the answer "does not exist" is not looked at.
StatSourceUnchecked ==
    /\ pc = "statSource" /\ want' = Source.date /\ GoTo("command")
    /\ UNCHANGED <<op, files, ghosts>>

StatSource ==
    /\ pc = "statSource"
    /\ IF ~There(Source) \/ IsFolder(Source)
       THEN Return("ERROR") /\ UNCHANGED want
       ELSE want' = Source.date /\ GoTo("command")
    /\ UNCHANGED <<op, files, ghosts>>

-----------------------------------------------------------------------------
(* The device's own commands.                                              *)

From   == FileOf[op.from]
To     == FileOf[op.to]
Put(f, x) == [files EXCEPT ![f] = x]

\* What the commands make of the files when they do what they are for, and no
\* outcome when they refuse.  mv and cp put a file into a folder at the target.
\* Onto itself, mv may do nothing in silence, as rename(2), and cp truncate the file.
Mv ==
    IF ~There(Source) \/ (IsFolder(Source) /\ There(Target)) THEN {}
    ELSE IF From = To THEN {files}
    ELSE IF IsFolder(Target) THEN {Put(From, Absent)}
    ELSE {[files EXCEPT ![To] = Source, ![From] = Absent]}
Cp ==
    IF ~There(Source) \/ IsFolder(Source) THEN {}
    ELSE IF IsFolder(Target) THEN {files}
    ELSE IF From # To THEN {Put(To, [Source EXCEPT !.date = Now])}
    ELSE {Put(To, Torn)}
RmF   == IF IsFolder(Target) THEN {} ELSE {Put(To, Absent)}
RmRf  == {Put(To, Absent)}
MkDir == IF ~There(Target) THEN {Put(To, Folder)} ELSE IF IsFolder(Target) THEN {files} ELSE {}

Done == CASE op.kind = "move"   -> Mv
          [] op.kind = "copy"   -> Cp
          [] op.kind = "delete" -> RmF
          [] op.kind = "rmdir"  -> RmRf
          [] op.kind = "make"   -> MkDir

\* A copy between file systems can stop half way, beside an intact source.
HalfDone == IF Done # {} /\ From # To /\ ~IsFolder(Target) THEN {Put(To, Torn)} ELSE {}

AfterCommand == IF op.kind = "copy" THEN GoTo("stampStat") ELSE Return("OK")

CommandSilent ==
    /\ pc = "command" /\ files' \in Done /\ AfterCommand
    /\ UNCHANGED <<op, want, ghosts>>

\* The device went away and the server closed the connection in good order.
CommandLost ==
    /\ pc = "command" /\ lost' = TRUE /\ AfterCommand
    /\ UNCHANGED <<op, want, files, before, meddled>>

\* It printed something, or the connection broke; with or without an effect.
CommandFails ==
    /\ pc = "command" /\ files' \in {files} \cup Done \cup HalfDone /\ Return("ERROR")
    /\ UNCHANGED <<op, want, ghosts>>

-----------------------------------------------------------------------------
(* setModificationTime, also the last part of a copy.                      *)

StampStat ==
    /\ pc = "stampStat"
    /\ IF There(Target) THEN GoTo("touchEpoch") ELSE Return("ERROR")
    /\ UNCHANGED <<op, want, files, ghosts>>

\* touch -c: silent about a file that is no longer there.
Touched(d) == IF There(Target) THEN Put(To, [Target EXCEPT !.date = d]) ELSE files

TouchEpoch ==
    /\ pc = "touchEpoch" /\ files' = Touched(want) /\ Return("OK")
    /\ UNCHANGED <<op, want, ghosts>>

\* Any output counts as a rejection of the @epoch form, whatever it says; a toybox
\* without that form leaves the file alone.
TouchEpochComplains ==
    /\ pc = "touchEpoch" /\ files' \in {files, Touched(want)} /\ GoTo("touchT")
    /\ UNCHANGED <<op, want, ghosts>>

\* formatTouchTArg: four digits for the year, and no more.
FormatTouchTArg == want <= LastTouchT

\* Mutant: neither the range nor what touch prints is looked at.
TouchTUnchecked ==
    /\ pc = "touchT" /\ Return("OK")
    /\ files' = IF FormatTouchTArg THEN Touched(want) ELSE files
    /\ UNCHANGED <<op, want, ghosts>>

\* TZ=UTC makes the device read the date as it was formatted.
TouchT ==
    /\ pc = "touchT"
    /\ IF FormatTouchTArg THEN files' = Touched(want) /\ Return("OK")
                          ELSE Return("ERROR") /\ UNCHANGED files
    /\ UNCHANGED <<op, want, ghosts>>

TouchLost ==
    /\ \/ pc = "touchEpoch"
       \/ pc = "touchT" /\ FormatTouchTArg
    /\ lost' = TRUE /\ Return("OK")
    /\ UNCHANGED <<op, want, files, before, meddled>>

TouchFails ==
    /\ \/ pc = "touchEpoch"
       \/ pc = "touchT" /\ FormatTouchTArg
    /\ files' \in {files, Touched(want)} /\ Return("ERROR")
    /\ UNCHANGED <<op, want, ghosts>>

-----------------------------------------------------------------------------
Plugin ==
    \/ Answer \/ RefuseOtherDevice \/ StatFails \/ CheckTarget \/ Branch \/ StatSource
    \/ CommandSilent \/ CommandLost \/ CommandFails
    \/ StampStat \/ TouchEpoch \/ TouchEpochComplains \/ TouchT \/ TouchLost \/ TouchFails

Next ==
    \/ \E p \in Paths : FsDeleteFile(p) \/ FsRemoveDir(p) \/ FsMkDir(p)
    \/ \E p \in Paths, d \in Asked : FsSetTime(p, d)
    \/ \E from, to \in Paths, move, overwrite \in BOOLEAN : FsRenMovFile(from, to, move, overwrite)
    \/ Plugin
    \/ \E f \in Shared : OtherApp(f)

Spec == Init /\ [][Next]_vars
-----------------------------------------------------------------------------
(* Properties.                                                             *)

DateRange == {Dates[v] : v \in Versions} \cup Asked \cup {Now}
FileTypes == [ver : {Folder.ver, Torn.ver} \cup Versions, date : DateRange] \cup {Absent}

\* Every variable stays in its range; a copy runs with a date to give its result.
TypeOK ==
    /\ pc \in {"idle", "done", "refuse", "check", "branch", "statSource", "command",
               "stampStat", "touchEpoch", "touchT"}
    /\ op \in [kind : {"move", "copy", "delete", "rmdir", "make", "touch"},
               from : Paths, to : Paths, overwrite : BOOLEAN]
    /\ want \in DateRange \cup {Never}
    /\ (pc = "command" /\ op.kind = "copy") \/ pc \in {"stampStat", "touchEpoch", "touchT"}
         => want \in DateRange
    /\ code \in {"none", "OK", "EXISTS", "NOTSUPPORTED", "ERROR"}
    /\ files \in [Files -> FileTypes] /\ before \in [Files -> FileTypes]
    /\ meddled \subseteq Shared /\ lost \in BOOLEAN

\* The files as the user wants them after the call.
Wanted ==
    CASE op.kind = "move"  -> [before EXCEPT ![From] = Absent, ![To] = before[From]]
      [] op.kind = "copy"  -> [before EXCEPT ![To] = before[From]]
      [] op.kind = "make"  -> [before EXCEPT ![To] = [Folder EXCEPT !.date = files[To].date]]
      [] op.kind = "touch" -> [before EXCEPT ![To].date = want]
      [] OTHER             -> [before EXCEPT ![To] = Absent]

IntoFolder == op.kind \in {"move", "copy"} /\ IsFolder(before[To])

\* A copy onto another name of its source, that only cp itself might notice.
HiddenAlias == op.kind = "copy" /\ From = To /\ op.from # op.to

\* OK means exactly the change asked for, the date of a copy included, and nothing
\* else on the device; a refusal means no change.  The exceptions are other apps
\* at work on the two files meanwhile, a command whose loss was silent, a target
\* that is a folder, which mv and cp put the file into, and a hidden alias.
AnswerIsTrue ==
    /\ code = "OK" /\ {From, To} \cap meddled = {} /\ ~lost /\ ~IntoFolder /\ ~HiddenAlias
         => \A f \in Files \ meddled : files[f] = Wanted[f]
    /\ code \in {"EXISTS", "NOTSUPPORTED"} => \A f \in Files \ meddled : files[f] = before[f]

\* Without overwrite no command changes a file that was at the target when the call
\* began and that no other app has replaced since, whatever happens to the source.
ExistingIsKept ==
    [][Plugin /\ op.kind \in {"move", "copy"} /\ ~op.overwrite
         /\ There(before[To]) /\ To \notin meddled => files'[To] = before[To]]_vars

\* A copy leaves the contents of its source alone, at any moment and however it
\* fails: whatever cp does with a file copied onto itself if both paths are spelt
\* alike, and except for a copy between two names of one file.
CopyKeepsSource ==
    [][Plugin /\ op.kind = "copy" /\ ~HiddenAlias => files'[From].ver = files[From].ver]_vars
=============================================================================
