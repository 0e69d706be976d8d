----------------------------- MODULE Installer -----------------------------
(***************************************************************************)
(* scripts/install.sh and the register_plugin.py it calls, run one after   *)
(* the other on a disk that may be full and a host that may stop, beside a *)
(* Double Commander that reads doublecmd.xml when it starts and writes its *)
(* own copy back when it quits.                                            *)
(*                                                                         *)
(* The disk maps file names to contents.  A copy opens and truncates its   *)
(* target and fills it afterwards; os.replace is one step.                 *)
(***************************************************************************)
EXTENDS Integers, SequencesExt, Selection

CONSTANTS Builds,     \* builds of fsplugin.wfx64
          Foreign,    \* those of another platform
          Configs,    \* what doublecmd.xml may hold at first, as lists of entries
          Extra,      \* the entry of another plugin, which the user may add
          Unreadable, \* the content of a doublecmd.xml that does not parse
          MaxRuns,    \* bound: runs of the installer
          MaxNow      \* bound: seconds on the clock

\* An entry of <WfxPlugins>, and this plugin's.
Entries  == [name : STRING, path : STRING]
Entry(name, path) == [name |-> name, path |-> path]
PathValue == "plugins/wfx/adb/fsplugin.wfx64"
OwnEntry == Entry("ADB", PathValue)

\* What the user means by "this plugin's entry" and by "the others".
Ours   == [name : {"ADB"}, path : STRING] \cup [name : STRING, path : {PathValue}]
Theirs == Entries \ Ours

ASSUME InstallerAssumption ==
    /\ Foreign \subseteq Builds /\ Unreadable \notin Builds
    /\ Configs \subseteq Seq(Entries) /\ Unreadable \notin Seq(Entries)
    /\ OwnEntry \in Entries /\ Extra \in Theirs
    /\ MaxRuns \in Nat /\ MaxNow \in Nat

VARIABLES disk,        \* file name |-> content
          now,         \* the second date and datetime.now() print
          dc,          \* Double Commander: running, and the entries it holds
          inst,        \* the run under way
          runs,        \* runs so far
          overwritten, \* history: whole contents a run has put others in place of
          lost,        \* history: contents a run could not keep (OpenBackup, DcQuits)
          overlap,     \* history: Double Commander ran while the registrar did
          registered,  \* history: the installer has said "Done"
          wanted       \* history: the entries of other plugins the user has set up

vars == <<disk, now, dc, inst, runs, overwritten, lost, overlap, registered, wanted>>
history == <<overwritten, lost, overlap, registered, wanted>>

(***************************************************************************)
(* Files.                                                                  *)
(***************************************************************************)
Whole(content) == [whole |-> TRUE, of |-> content]
Torn == [whole |-> FALSE, of |-> Unreadable]

Target == <<"fsplugin.wfx64">>
ConfigXml == <<"doublecmd.xml">>
TempConfig == <<"doublecmd.xml", "tmp-register">>
WriteInPlace == ConfigXml                                     \* mutant
TempName == TempConfig
Backup(file, second) == Append(file, "bak") \o <<ToString(second)>>

Exists(file) == file \in DOMAIN disk
With(files, file, content) ==
    [f \in DOMAIN files \cup {file} |-> IF f = file THEN content ELSE files[f]]
Without(files, file) == [f \in DOMAIN files \ {file} |-> files[f]]
Renamed(files, from, to) == Without(With(files, to, files[from]), from)

(***************************************************************************)
(* The registrar's change to the entries.                                  *)
(***************************************************************************)
Owns(e) == e.name = "ADB" \/ e.path = PathValue
Foreigners == {e \in Entries : ~Owns(e)}
Register(entries) == Append(Only(entries, Foreigners), OwnEntry)

Parses(file) == Exists(file) /\ disk[file].whole /\ disk[file].of # Unreadable

NoRun == [pc |-> "idle", source |-> Unreadable, register |-> TRUE, found |-> TRUE,
          second |-> 0, entries |-> <<>>]

Init ==
    \E config \in Configs, old \in Builds :
        /\ disk \in {With(<<>>, ConfigXml, Whole(config)), <<>>,
                     With(With(<<>>, ConfigXml, Whole(config)), Target, Whole(old)),
                     With(<<>>, ConfigXml, Whole(Unreadable))}
        /\ wanted = IF Parses(ConfigXml) THEN Only(config, Theirs) ELSE <<>>
        /\ now = 0 /\ runs = 0
        /\ dc = [up |-> FALSE, entries |-> <<>>]
        /\ inst = NoRun
        /\ overwritten = {} /\ lost = {} /\ overlap = FALSE /\ registered = FALSE

(***************************************************************************)
(* install.sh: the file.  Under "set -e" a failing cp ends the script.     *)
(***************************************************************************)
At(pc) == inst.pc = pc
GoTo(pc) == inst' = [inst EXCEPT !.pc = pc]
Ends == inst' = NoRun

\* What the first bytes of the file say against uname.
Loadable(build) == build \notin Foreign

Start(build, register) ==
    /\ At("idle") /\ runs < MaxRuns
    /\ runs' = runs + 1
    /\ inst' = IF ~Loadable(build) THEN NoRun
               ELSE [NoRun EXCEPT !.pc = "keepOld", !.source = build,
                                  !.register = register, !.found = Exists(ConfigXml)]
    /\ UNCHANGED <<disk, now, dc, history>>

KeepOld ==
    /\ At("keepOld")
    /\ inst' = [inst EXCEPT !.pc = IF Exists(Target) THEN "openBackup" ELSE "openTarget",
                            !.second = now]
    /\ UNCHANGED <<disk, now, dc, runs, history>>

\* A backup made within the same second has this one's name, and gives way to it.
OpenBackup(pc, file, next) ==
    /\ At(pc)
    /\ disk' = With(disk, Backup(file, inst.second), Torn)
    /\ lost' = lost \cup (IF Exists(Backup(file, inst.second))
                          THEN {disk[Backup(file, inst.second)].of} ELSE {})
    /\ GoTo(next)
    /\ UNCHANGED <<now, dc, runs, overwritten, overlap, registered, wanted>>

FillBackup(pc, file, next) ==
    /\ At(pc)
    /\ disk' = With(disk, Backup(file, inst.second), disk[file])
    /\ GoTo(next)
    /\ UNCHANGED <<now, dc, runs, history>>

BackupPlugin == OpenBackup("openBackup", Target, "fillBackup")
                    \/ FillBackup("fillBackup", Target, "openTarget")

BackupFailsUnseen ==                                                   \* mutant
    /\ inst.pc \in {"openBackup", "fillBackup"} /\ GoTo("openTarget")
    /\ UNCHANGED <<disk, now, dc, runs, history>>
BackupFails ==
    /\ inst.pc \in {"openBackup", "fillBackup"} /\ Ends
    /\ UNCHANGED <<disk, now, dc, runs, history>>

OpenTarget ==
    /\ At("openTarget")
    /\ overwritten' = overwritten \cup
                        (IF Exists(Target) /\ disk[Target].whole THEN {disk[Target].of} ELSE {})
    /\ disk' = With(disk, Target, Torn)
    /\ GoTo("fillTarget")
    /\ UNCHANGED <<now, dc, runs, lost, overlap, registered, wanted>>

FillTarget ==
    /\ At("fillTarget")
    /\ disk' = With(disk, Target, Whole(inst.source))
    /\ GoTo("installed")
    /\ UNCHANGED <<now, dc, runs, history>>

CopyFails ==
    /\ inst.pc \in {"openTarget", "fillTarget"} /\ Ends
    /\ UNCHANGED <<disk, now, dc, runs, history>>

(***************************************************************************)
(* install.sh: whether to register.  havePgrep, and whether the registrar  *)
(* and a working python3 are there, are facts of the host.                 *)
(***************************************************************************)
LeaveToUser ==
    /\ At("installed") /\ ~(inst.register /\ inst.found)
    /\ Ends
    /\ UNCHANGED <<disk, now, dc, runs, history>>

DcRunningUnasked(havePgrep) == FALSE                                   \* mutant
DcRunning(havePgrep) == havePgrep /\ dc.up

CheckRunning(havePgrep) ==
    /\ At("installed") /\ inst.register /\ inst.found
    /\ IF DcRunning(havePgrep)
       THEN Ends /\ overlap' = overlap
       ELSE GoTo("registrar") /\ overlap' = (overlap \/ (~havePgrep /\ dc.up))
    /\ UNCHANGED <<disk, now, dc, runs, overwritten, lost, registered, wanted>>

NoRegistrar ==
    /\ At("registrar") /\ Ends
    /\ UNCHANGED <<disk, now, dc, runs, history>>

(***************************************************************************)
(* register_plugin.py: parse, back up, write beside, replace.              *)
(***************************************************************************)
Parse ==
    /\ At("registrar")
    /\ IF Parses(ConfigXml)
       THEN inst' = [inst EXCEPT !.pc = "openCopy", !.second = now,
                                 !.entries = Register(disk[ConfigXml].of)]
       ELSE Ends
    /\ UNCHANGED <<disk, now, dc, runs, history>>

BackupConfig == OpenBackup("openCopy", ConfigXml, "fillCopy")
                    \/ FillBackup("fillCopy", ConfigXml, "openTemp")

BackupConfigFails ==
    /\ inst.pc \in {"openCopy", "fillCopy"} /\ Ends
    /\ UNCHANGED <<disk, now, dc, runs, history>>

OpenTemp ==
    /\ At("openTemp")
    /\ disk' = With(disk, TempName, Torn)
    /\ GoTo("fillTemp")
    /\ UNCHANGED <<now, dc, runs, history>>

FillTemp ==
    /\ At("fillTemp")
    /\ disk' = With(disk, TempName, Whole(inst.entries))
    /\ GoTo("replace")
    /\ UNCHANGED <<now, dc, runs, history>>

Replace ==
    /\ At("replace")
    /\ overwritten' = overwritten \cup {disk[ConfigXml].of}
    /\ disk' = Renamed(disk, TempName, ConfigXml)
    /\ registered' = TRUE
    /\ Ends
    /\ UNCHANGED <<now, dc, runs, lost, overlap, wanted>>

WriteFails ==
    /\ inst.pc \in {"openTemp", "fillTemp", "replace"}
    /\ disk' = Without(disk, TempName)
    /\ Ends
    /\ UNCHANGED <<now, dc, runs, history>>

(***************************************************************************)
(* The surroundings: the host stops, time passes, Double Commander runs.   *)
(***************************************************************************)
Interrupted ==
    /\ ~At("idle") /\ Ends
    /\ UNCHANGED <<disk, now, dc, runs, history>>

\* What the user changed in a session of Double Commander that did not quit is gone.
HostStops ==
    /\ ~At("idle") \/ dc.up
    /\ Ends
    /\ dc' = [dc EXCEPT !.up = FALSE]
    /\ wanted' = IF dc.up THEN IF Parses(ConfigXml) THEN Only(disk[ConfigXml].of, Theirs) ELSE <<>>
                 ELSE wanted
    /\ UNCHANGED <<disk, now, runs, overwritten, lost, overlap, registered>>

Tick ==
    /\ now < MaxNow /\ now' = now + 1
    /\ UNCHANGED <<disk, dc, inst, runs, history>>

Registering == inst.pc \in {"registrar", "openCopy", "fillCopy", "openTemp", "fillTemp", "replace"}

DcStarts ==
    /\ ~dc.up
    /\ dc' = [up |-> TRUE, entries |-> IF Parses(ConfigXml) THEN disk[ConfigXml].of ELSE <<>>]
    /\ overlap' = (overlap \/ Registering)
    /\ UNCHANGED <<disk, now, inst, runs, overwritten, lost, registered, wanted>>

UserAddsPlugin ==
    /\ dc.up /\ ~Contains(dc.entries, Extra)
    /\ dc' = [dc EXCEPT !.entries = Append(dc.entries, Extra)]
    /\ wanted' = IF Contains(wanted, Extra) THEN wanted ELSE Append(wanted, Extra)
    /\ UNCHANGED <<disk, now, inst, runs, overwritten, lost, overlap, registered>>

\* What it writes between the registrar's copy and its replacement has no backup.
Replacing == {"openTemp", "fillTemp", "replace"}
DcQuits ==
    /\ dc.up
    /\ dc' = [dc EXCEPT !.up = FALSE]
    /\ disk' = With(disk, ConfigXml, Whole(dc.entries))
    /\ lost' = lost \cup (IF inst.pc \in Replacing THEN {dc.entries} ELSE {})
    /\ UNCHANGED <<now, inst, runs, overwritten, overlap, registered, wanted>>

Next ==
    \/ \E build \in Builds, register \in BOOLEAN : Start(build, register)
    \/ KeepOld \/ BackupPlugin \/ BackupFails
    \/ OpenTarget \/ FillTarget \/ CopyFails
    \/ LeaveToUser \/ \E havePgrep \in BOOLEAN : CheckRunning(havePgrep)
    \/ NoRegistrar \/ Parse \/ BackupConfig \/ BackupConfigFails
    \/ OpenTemp \/ FillTemp \/ Replace \/ WriteFails
    \/ Interrupted \/ HostStops \/ Tick \/ DcStarts \/ UserAddsPlugin \/ DcQuits

Spec == Init /\ [][Next]_vars

(***************************************************************************)
(* Properties.                                                             *)
(***************************************************************************)

(* Whatever fails and wherever the host stops, no step takes doublecmd.xml *)
(* away once it is there or leaves a part of a file in its place, also     *)
(* over the temporary file an earlier run left behind (register_plugin.py  *)
(* 124-133).                                                               *)
ConfigIsWhole ==
    [][/\ Exists(ConfigXml) => Exists(ConfigXml)'
       /\ Exists(ConfigXml)' => disk'[ConfigXml].whole]_vars

(* "Backs up anything it overwrites first" (install.sh:18): every plugin   *)
(* and every doublecmd.xml that runs of the installer have put another in  *)
(* place of is still whole somewhere on the disk, after any failures and   *)
(* any number of runs.  Excepted are the contents of a backup that a later *)
(* one of the same second replaced, and those a Double Commander wrote to  *)
(* doublecmd.xml between the backup and the replacement.                   *)
OverwrittenSurvives ==
    \A content \in overwritten \ lost : \E file \in DOMAIN disk : disk[file] = Whole(content)

(* After "Done" the configuration in force has exactly one entry of this   *)
(* plugin, and at every moment it has the other plugins' entries as the    *)
(* user set them up, through later runs, failed ones among them, and later *)
(* sessions of Double Commander.  Excepted is a Double Commander that ran  *)
(* while the registrar did, unseen because pgrep is missing or because it  *)
(* started after the check.                                                *)
InForce == IF dc.up THEN dc.entries
           ELSE IF Parses(ConfigXml) THEN disk[ConfigXml].of ELSE <<>>
RegisteredStays ==
    overlap \/ /\ registered => Only(InForce, Ours) = <<OwnEntry>>
               /\ Only(InForce, Theirs) = wanted
=============================================================================
