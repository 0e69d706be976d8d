--------------------------- MODULE DeviceOpsProofs ---------------------------
(***************************************************************************)
(* DeviceOps.tla, for any paths, files, devices, dates and other apps: the *)
(* answer of an operation is what happened on the device, a file at the    *)
(* target is not overwritten unasked, and a copy leaves its source alone.  *)
(***************************************************************************)
EXTENDS DeviceOps, TLAPS

Asking   == {"refuse", "check", "branch", "statSource", "command"}
Stamping == {"stampStat", "touchEpoch", "touchT"}

\* Which calls come by which steps; a copy that has come past Branch has two paths.
Route ==
    /\ pc \in {"refuse", "check", "branch"} => op.kind \in {"move", "copy"}
    /\ pc = "statSource" => op.kind = "copy"
    /\ pc = "command" => op.kind # "touch"
    /\ pc \in Stamping => op.kind \in {"copy", "touch"}
    /\ pc \in {"statSource", "command"} \cup Stamping /\ op.kind = "copy" => op.from # op.to
    /\ pc # "done" => code = "none"
    /\ pc = "idle" => op.kind = "delete"

\* Up to the command, what is not as it was is another app's doing.
Untouched == pc \in Asking => \A f \in Files \ meddled : files[f] = before[f]

\* The date of a copy is read before the copy is made.
DateInHand == pc = "command" /\ op.kind = "copy" /\ From \notin meddled => want = before[From].date

\* A call to which none of AnswerIsTrue's exceptions applies so far.
Calm == {From, To} \cap meddled = {} /\ ~lost /\ ~IntoFolder /\ ~HiddenAlias

\* From the command of a copy on, and in a touch, only the date is still to come.
OnlyDateMissing ==
    pc \in Stamping /\ Calm =>
        /\ \A f \in Files \ (meddled \cup {To}) : files[f] = before[f]
        /\ files[To].ver = before[IF op.kind = "copy" THEN From ELSE To].ver
        /\ op.kind = "copy" => There(before[From]) /\ want = before[From].date
        /\ pc # "stampStat" => There(files[To])

\* A call that may not overwrite comes no further than its check, if that has to
\* stop it.
StoppedInTime ==
    op.kind \in {"move", "copy"} /\ ~op.overwrite /\ There(before[To]) /\ To \notin meddled
        => pc \in {"refuse", "check", "done"} /\ files[To] = before[To]

IInv ==
    /\ TypeOK /\ Route /\ Untouched /\ DateInHand /\ OnlyDateMissing /\ StoppedInTime
    /\ AnswerIsTrue

-----------------------------------------------------------------------------
(* Files.                                                                  *)

\* The files the code makes are files; one that is there has a date.
LEMMA FilesMade ==
    /\ Absent \in FileTypes /\ Folder \in FileTypes /\ Torn \in FileTypes
    /\ ~There(Absent) /\ There(Folder) /\ There(Torn) /\ Now \in DateRange
    /\ \A x \in FileTypes : There(x) => x.date \in DateRange
BY DeviceAssumption
DEF DeviceAssumption, FileTypes, DateRange, Absent, Folder, Torn, There, Now, Never

\* A file with another date is a file, the same otherwise.
LEMMA FileRedated ==
    ASSUME NEW x \in FileTypes, There(x), NEW d \in DateRange
    PROVE  /\ [x EXCEPT !.date = d] \in FileTypes
           /\ [x EXCEPT !.date = d].ver = x.ver /\ [x EXCEPT !.date = d].date = d
<1>1. x \in [ver : {Folder.ver, Torn.ver} \cup Versions, date : DateRange]
  BY DEF FileTypes, There, Absent
<1> QED
  BY <1>1 DEF FileTypes

\* A file is its contents and its date.
LEMMA FileEqual ==
    ASSUME NEW x \in FileTypes, NEW y \in FileTypes, x.ver = y.ver, x.date = y.date
    PROVE  x = y
<1> DEFINE R == [ver : {Folder.ver, Torn.ver} \cup Versions \cup {0}, date : DateRange \cup {Never}]
<1>1. x \in R /\ y \in R
  BY DEF FileTypes, Absent
<1> QED
  BY <1>1

\* From and To are files of the device; one file can be replaced by another.
LEMMA Places ==
    ASSUME TypeOK
    PROVE  /\ files \in [Files -> FileTypes] /\ before \in [Files -> FileTypes]
           /\ From \in Files /\ To \in Files
           /\ Source = files[From] /\ Target = files[To]
           /\ Source \in FileTypes /\ Target \in FileTypes
BY DEF TypeOK, From, To, Source, Target, Files

LEMMA PutChanges ==
    ASSUME TypeOK, NEW f \in Files, NEW x \in FileTypes
    PROVE  /\ Put(f, x) \in [Files -> FileTypes]
           /\ Put(f, x)[f] = x
           /\ \A g \in Files : g # f => Put(f, x)[g] = files[g]
BY DEF TypeOK, Put

\* A command changes nothing but the files it is given, and leaves files.
LEMMA CommandChanges ==
    ASSUME TypeOK, op.kind # "touch", NEW g \in Done
    PROVE  g \in [Files -> FileTypes] /\ \A f \in Files \ {From, To} : g[f] = files[f]
<1>0. /\ files \in [Files -> FileTypes] /\ From \in Files /\ To \in Files
      /\ Source \in FileTypes /\ Absent \in FileTypes /\ Folder \in FileTypes /\ Torn \in FileTypes
  BY Places, FilesMade
<1>1. CASE op.kind = "move"
  <2>1. g \in Mv
    BY <1>1 DEF Done
  <2>2. g = files \/ g = Put(From, Absent) \/ g = [files EXCEPT ![To] = Source, ![From] = Absent]
    BY <2>1 DEF Mv
  <2>3. /\ [files EXCEPT ![To] = Source, ![From] = Absent] \in [Files -> FileTypes]
        /\ \A f \in Files \ {From, To} :
             [files EXCEPT ![To] = Source, ![From] = Absent][f] = files[f]
    BY <1>0
  <2> QED
    BY <1>0, <2>2, <2>3 DEF Put
<1>2. CASE op.kind = "copy"
  <2>1. g \in Cp
    BY <1>2 DEF Done
  <2>2. g = files \/ g = Put(To, Torn) \/ (There(Source) /\ g = Put(To, [Source EXCEPT !.date = Now]))
    BY <2>1 DEF Cp
  <2>3. There(Source) => [Source EXCEPT !.date = Now] \in FileTypes
    BY <1>0, FilesMade, FileRedated
  <2> QED
    BY <1>0, <2>2, <2>3 DEF Put
<1>3. CASE op.kind \in {"delete", "rmdir", "make"}
  <2>1. g = files \/ g = Put(To, Absent) \/ g = Put(To, Folder)
    BY <1>3 DEF Done, RmF, RmRf, MkDir
  <2> QED
    BY <1>0, <2>1 DEF Put
<1> QED
  BY <1>1, <1>2, <1>3 DEF TypeOK

\* A copy that stopped half way is beside its source.
LEMMA HalfDoneChanges ==
    ASSUME TypeOK, NEW g \in HalfDone
    PROVE  g = Put(To, Torn) /\ From # To /\ g \in [Files -> FileTypes]
BY FilesMade, Places, PutChanges DEF HalfDone

\* touch changes the date and nothing else.
LEMMA TouchChanges ==
    ASSUME TypeOK, want \in DateRange
    PROVE  /\ Touched(want) \in [Files -> FileTypes]
           /\ \A f \in Files \ {To} : Touched(want)[f] = files[f]
           /\ Touched(want)[To].ver = files[To].ver
           /\ There(files[To]) => Touched(want)[To].date = want
<1>1. files \in [Files -> FileTypes] /\ Target = files[To]
  BY DEF TypeOK, Target, To
<1>2. CASE There(Target)
  <2>1. Touched(want) = Put(To, [Target EXCEPT !.date = want])
    BY <1>2 DEF Touched
  <2> QED
    BY <1>1, <1>2, <2>1, Places, FileRedated DEF Put
<1>3. CASE ~There(Target)
  BY <1>1, <1>3 DEF Touched
<1> QED
  BY <1>2, <1>3

-----------------------------------------------------------------------------
(* The invariant.                                                          *)

LEMMA Initially == Init => IInv
<1> SUFFICES ASSUME Init PROVE IInv
  OBVIOUS
<1>0. SomePath \in Paths
  BY DeviceAssumption DEF DeviceAssumption, SomePath
<1>1. NoFiles \in [Files -> FileTypes]
  BY FilesMade DEF NoFiles
<1>2. TypeOK
  BY <1>0, <1>1 DEF Init, TypeOK, NoCall, Call
<1>3. op.kind = "delete"
  BY DEF Init, NoCall, Call
<1>4. Route /\ Untouched /\ DateInHand /\ OnlyDateMissing /\ StoppedInTime /\ AnswerIsTrue
  BY <1>3 DEF Init, Route, Untouched, DateInHand, OnlyDateMissing, StoppedInTime, AnswerIsTrue,
         Asking, Stamping
<1> QED
  BY <1>2, <1>4 DEF IInv

\* Where a call begins.
Begins(o, l, date) ==
    /\ o \in [kind : {"move", "copy", "delete", "rmdir", "make", "touch"},
              from : Paths, to : Paths, overwrite : BOOLEAN]
    /\ \/ l = "command" /\ o.kind \in {"delete", "rmdir", "make"} /\ date = Never
       \/ l = "stampStat" /\ o.kind = "touch" /\ date \in Asked
       \/ l = "refuse" /\ o.kind \in {"move", "copy"} /\ date = Never
       \/ l = "check" /\ o.kind \in {"move", "copy"} /\ ~o.overwrite /\ date = Never
       \/ l = "branch" /\ o.kind \in {"move", "copy"} /\ o.overwrite /\ date = Never

Starts == \E o, l, date : Begins(o, l, date) /\ Begin(o, l, date)

\* The exports begin nothing else.
LEMMA EveryStep ==
    ASSUME [Next]_vars
    PROVE  Starts \/ Plugin \/ (\E f \in Shared : OtherApp(f)) \/ UNCHANGED vars
<1>1. ASSUME NEW p \in Paths, FsDeleteFile(p) \/ FsRemoveDir(p) \/ FsMkDir(p) PROVE Starts
  <2>1. ASSUME NEW k \in {"delete", "rmdir", "make"}, Begin(Call(k, p, p, TRUE), "command", Never)
        PROVE Starts
    <3>1. Begins(Call(k, p, p, TRUE), "command", Never)
      BY DEF Begins, Call
    <3> QED
      BY <2>1, <3>1 DEF Starts
  <2> QED
    BY <1>1, <2>1 DEF FsDeleteFile, FsRemoveDir, FsMkDir
<1>2. ASSUME NEW p \in Paths, NEW d \in Asked, FsSetTime(p, d) PROVE Starts
  <2>1. Begins(Call("touch", p, p, TRUE), "stampStat", d)
    BY DEF Begins, Call
  <2> QED
    BY <1>2, <2>1 DEF FsSetTime, Starts
<1>3. ASSUME NEW from \in Paths, NEW to \in Paths, NEW move \in BOOLEAN, NEW overwrite \in BOOLEAN,
             FsRenMovFile(from, to, move, overwrite)
      PROVE Starts
  <2> DEFINE o == Call(IF move THEN "move" ELSE "copy", from, to, overwrite)
             l == IF Device[from] = Device[to] THEN IF overwrite THEN "branch" ELSE "check"
                  ELSE "refuse"
  <2>1. Begin(o, l, Never)
    BY <1>3 DEF FsRenMovFile
  <2>2. Begins(o, l, Never)
    BY DEF Begins, Call
  <2> HIDE DEF o, l
  <2> QED
    BY <2>1, <2>2 DEF Starts
<1> QED
  BY <1>1, <1>2, <1>3 DEF Next

LEMMA TypeStep == TypeOK /\ Route /\ [Next]_vars => TypeOK'
<1> SUFFICES ASSUME TypeOK, Route, [Next]_vars PROVE TypeOK'
  OBVIOUS
<1> USE FilesMade, Places DEF ghosts
<1>1. ASSUME Starts PROVE TypeOK'
  <2>1. PICK o, l, date : Begins(o, l, date) /\ Begin(o, l, date)
    BY <1>1 DEF Starts
  <2>2. date \in DateRange \cup {Never} /\ (date \in Asked => date \in DateRange)
    BY <2>1, DeviceAssumption DEF Begins, DateRange
  <2> QED
    BY <2>1, <2>2 DEF Begins, Begin, TypeOK
<1>2. ASSUME NEW f \in Shared, OtherApp(f) PROVE TypeOK'
  <2>1. PICK x \in {Absent} \cup FromApps : files' = [files EXCEPT ![f] = x]
    BY <1>2 DEF OtherApp
  <2>2. x \in FileTypes /\ f \in Files
    BY DeviceAssumption, FilesMade DEF DeviceAssumption, FromApps, FileTypes, DateRange
  <2>3. files' \in [Files -> FileTypes]
    BY <2>1, <2>2
  <2> QED
    BY <1>2, <2>3 DEF OtherApp, TypeOK
<1>3. CASE Answer
  <2>1. NoCall \in [kind : {"move", "copy", "delete", "rmdir", "make", "touch"},
                    from : Paths, to : Paths, overwrite : BOOLEAN]
    BY DeviceAssumption DEF DeviceAssumption, NoCall, Call, SomePath
  <2> QED
    BY <1>3, <2>1 DEF Answer, TypeOK, NoFiles
<1>4. CASE RefuseOtherDevice \/ StatFails \/ CheckTarget \/ Branch \/ StampStat
  BY <1>4 DEF RefuseOtherDevice, StatFails, CheckTarget, Branch, StampStat, GoTo, Return, TypeOK, Route
<1>5. CASE StatSource
  BY <1>5 DEF StatSource, GoTo, Return, TypeOK, Route
<1>6. CASE CommandSilent
  <2>1. files' \in [Files -> FileTypes]
    BY <1>6, CommandChanges DEF CommandSilent, Route
  <2> QED
    BY <1>6, <2>1 DEF CommandSilent, AfterCommand, GoTo, Return, TypeOK
<1>7. CASE CommandLost
  BY <1>7 DEF CommandLost, AfterCommand, GoTo, Return, TypeOK
<1>8. CASE CommandFails
  <2>1. files' \in [Files -> FileTypes]
    BY <1>8, CommandChanges, HalfDoneChanges DEF CommandFails, Route
  <2> QED
    BY <1>8, <2>1 DEF CommandFails, Return, TypeOK
<1>9. CASE TouchEpoch \/ TouchEpochComplains \/ TouchT \/ TouchLost \/ TouchFails
  <2>1. want \in DateRange
    BY <1>9 DEF TouchEpoch, TouchEpochComplains, TouchT, TouchLost, TouchFails, TypeOK
  <2>2. files' \in {files, Touched(want)}
    BY <1>9 DEF TouchEpoch, TouchEpochComplains, TouchT, TouchLost, TouchFails
  <2>3. files' \in [Files -> FileTypes]
    BY <2>1, <2>2, TouchChanges
  <2> QED
    BY <1>9, <2>1, <2>3
    DEF TouchEpoch, TouchEpochComplains, TouchT, TouchLost, TouchFails, GoTo, Return, TypeOK
<1>10. CASE UNCHANGED vars
  BY <1>10 DEF vars, TypeOK
<1> QED
  BY EveryStep, <1>1, <1>2, <1>3, <1>4, <1>5, <1>6, <1>7, <1>8, <1>9, <1>10 DEF Plugin

LEMMA RouteStep == TypeOK /\ Route /\ [Next]_vars => Route'
<1> SUFFICES ASSUME TypeOK, Route, [Next]_vars PROVE Route'
  OBVIOUS
<1> USE DEF ghosts, Route, Stamping
<1>1. ASSUME Starts PROVE Route'
  <2>1. PICK o, l, date : Begins(o, l, date) /\ Begin(o, l, date)
    BY <1>1 DEF Starts
  <2> QED
    BY <2>1 DEF Begins, Begin
<1>2. ASSUME NEW f \in Shared, OtherApp(f) PROVE Route'
  BY <1>2 DEF OtherApp
<1>3. CASE Answer \/ RefuseOtherDevice \/ StatFails \/ CheckTarget \/ Branch \/ StatSource
  BY <1>3 DEF Answer, RefuseOtherDevice, StatFails, CheckTarget, Branch, StatSource, GoTo, Return,
              SamePath, NoCall, Call
<1>4. CASE CommandSilent \/ CommandLost \/ CommandFails
  BY <1>4 DEF CommandSilent, CommandLost, CommandFails, AfterCommand, GoTo, Return
<1>5. CASE StampStat \/ TouchEpoch \/ TouchEpochComplains \/ TouchT \/ TouchLost \/ TouchFails
  BY <1>5 DEF StampStat, TouchEpoch, TouchEpochComplains, TouchT, TouchLost, TouchFails, GoTo, Return
<1>6. CASE UNCHANGED vars
  BY <1>6 DEF vars
<1> QED
  BY EveryStep, <1>1, <1>2, <1>3, <1>4, <1>5, <1>6 DEF Plugin

LEMMA UntouchedStep == TypeOK /\ Untouched /\ [Next]_vars => Untouched'
<1> SUFFICES ASSUME TypeOK, Untouched, [Next]_vars PROVE Untouched'
  OBVIOUS
<1> USE DEF ghosts, Untouched, Asking
<1>1. ASSUME Starts PROVE Untouched'
  <2>1. PICK o, l, date : Begins(o, l, date) /\ Begin(o, l, date)
    BY <1>1 DEF Starts
  <2> QED
    BY <2>1 DEF Begin
<1>2. ASSUME NEW f \in Shared, OtherApp(f) PROVE Untouched'
  <2>1. PICK x \in {Absent} \cup FromApps : files' = [files EXCEPT ![f] = x]
    BY <1>2 DEF OtherApp
  <2> QED
    BY <1>2, <2>1 DEF OtherApp, TypeOK
<1>3. CASE Answer \/ RefuseOtherDevice \/ StatFails \/ CheckTarget \/ Branch \/ StatSource
  BY <1>3 DEF Answer, RefuseOtherDevice, StatFails, CheckTarget, Branch, StatSource, GoTo, Return
<1>4. CASE CommandSilent \/ CommandLost \/ CommandFails
  BY <1>4 DEF CommandSilent, CommandLost, CommandFails, AfterCommand, GoTo, Return
<1>5. CASE StampStat \/ TouchEpoch \/ TouchEpochComplains \/ TouchT \/ TouchLost \/ TouchFails
  BY <1>5 DEF StampStat, TouchEpoch, TouchEpochComplains, TouchT, TouchLost, TouchFails, GoTo, Return
<1>6. CASE UNCHANGED vars
  BY <1>6 DEF vars
<1> QED
  BY EveryStep, <1>1, <1>2, <1>3, <1>4, <1>5, <1>6 DEF Plugin

LEMMA DateInHandStep ==
    TypeOK /\ Route /\ Untouched /\ DateInHand /\ [Next]_vars => DateInHand'
<1> SUFFICES ASSUME TypeOK, Route, Untouched, DateInHand, [Next]_vars PROVE DateInHand'
  OBVIOUS
<1> USE DEF ghosts, DateInHand, From
<1>1. ASSUME Starts PROVE DateInHand'
  <2>1. PICK o, l, date : Begins(o, l, date) /\ Begin(o, l, date)
    BY <1>1 DEF Starts
  <2> QED
    BY <2>1 DEF Begins, Begin
<1>2. ASSUME NEW f \in Shared, OtherApp(f) PROVE DateInHand'
  BY <1>2 DEF OtherApp
<1>3. CASE StatSource
  BY <1>3, Places DEF StatSource, GoTo, Return, Untouched, Asking
<1>4. CASE Answer \/ RefuseOtherDevice \/ StatFails \/ CheckTarget \/ Branch
  BY <1>4 DEF Answer, RefuseOtherDevice, StatFails, CheckTarget, Branch, GoTo, Return
<1>5. CASE CommandSilent \/ CommandLost \/ CommandFails
  BY <1>5 DEF CommandSilent, CommandLost, CommandFails, AfterCommand, GoTo, Return
<1>6. CASE StampStat \/ TouchEpoch \/ TouchEpochComplains \/ TouchT \/ TouchLost \/ TouchFails
  BY <1>6 DEF StampStat, TouchEpoch, TouchEpochComplains, TouchT, TouchLost, TouchFails, GoTo, Return
<1>7. CASE UNCHANGED vars
  BY <1>7 DEF vars
<1> QED
  BY EveryStep, <1>1, <1>2, <1>3, <1>4, <1>5, <1>6, <1>7 DEF Plugin

\* What a cp does in a call to which no exception applies.
LEMMA CpCopies ==
    ASSUME TypeOK, Route, Untouched, Calm, pc = "command", op.kind = "copy", NEW g \in Done
    PROVE  /\ From # To /\ There(before[From])
           /\ \A f \in Files \ (meddled \cup {To}) : g[f] = before[f]
           /\ g[To].ver = before[From].ver
<1>1. files[From] = before[From] /\ files[To] = before[To]
  BY Places DEF Untouched, Asking, Calm
<1>2. From # To /\ ~IsFolder(Target)
  BY <1>1, Places DEF Calm, HiddenAlias, IntoFolder, Route
<1>3. There(Source) /\ g = Put(To, [Source EXCEPT !.date = Now])
  BY <1>2 DEF Done, Cp
<1>4. /\ [Source EXCEPT !.date = Now] \in FileTypes
      /\ [Source EXCEPT !.date = Now].ver = before[From].ver
  BY <1>1, <1>3, Places, FilesMade, FileRedated
<1>5. \A f \in Files \ meddled : files[f] = before[f]
  BY DEF Untouched, Asking
<1>6. g[To] = [Source EXCEPT !.date = Now] /\ \A f \in Files : f # To => g[f] = files[f]
  <2>1. PICK x : x = [Source EXCEPT !.date = Now]
    OBVIOUS
  <2>2. x \in FileTypes /\ To \in Files /\ g = Put(To, x)
    BY <1>3, <1>4, <2>1, Places
  <2>3. g[To] = x /\ \A f \in Files : f # To => g[f] = files[f]
    BY <2>2, PutChanges
  <2> QED
    BY <2>1, <2>3
<1> QED
  BY <1>1, <1>2, <1>3, <1>4, <1>5, <1>6, Places

LEMMA OnlyDateMissingStep ==
    TypeOK /\ Route /\ Untouched /\ DateInHand /\ OnlyDateMissing /\ [Next]_vars => OnlyDateMissing'
<1> SUFFICES ASSUME TypeOK, Route, Untouched, DateInHand, OnlyDateMissing, [Next]_vars,
                    pc' \in Stamping, Calm'
             PROVE  OnlyDateMissing'
  BY DEF OnlyDateMissing
<1> USE DEF ghosts, From, To
<1>1. ASSUME Starts PROVE OnlyDateMissing'
  <2>1. PICK o, l, date : Begins(o, l, date) /\ Begin(o, l, date)
    BY <1>1 DEF Starts
  <2>2. op'.kind = "touch" /\ pc' = "stampStat" /\ files' = before'
    BY <2>1 DEF Begins, Begin, Stamping
  <2> QED
    BY <2>2 DEF OnlyDateMissing
<1>2. ASSUME NEW f \in Shared, OtherApp(f) PROVE OnlyDateMissing'
  <2>1. UNCHANGED <<pc, op, want, before, lost>>
    BY <1>2 DEF OtherApp
  <2>2. PICK x \in {Absent} \cup FromApps : files' = [files EXCEPT ![f] = x]
    BY <1>2 DEF OtherApp
  <2>3. meddled' = meddled \cup {f} /\ f # From /\ f # To /\ Calm
    BY <1>2, <2>1 DEF OtherApp, Calm, IntoFolder, HiddenAlias, Stamping
  <2>4. \A g \in Files : g # f => files'[g] = files[g]
    BY <2>2, Places
  <2> QED
    BY <2>1, <2>3, <2>4, Places DEF OnlyDateMissing
<1>3. CASE CommandSilent
  <2>1. op.kind = "copy" /\ pc' = "stampStat" /\ UNCHANGED <<op, want, ghosts>>
    BY <1>3 DEF CommandSilent, AfterCommand, GoTo, Return, Stamping
  <2>2. Calm /\ files' \in Done /\ pc = "command"
    BY <1>3, <2>1 DEF CommandSilent, Calm, IntoFolder, HiddenAlias
  <2>3. want = before[From].date
    BY <2>1, <2>2 DEF DateInHand, Calm
  <2> QED
    BY <2>1, <2>2, <2>3, CpCopies DEF OnlyDateMissing
<1>4. CASE StampStat
  <2>1. pc' = "touchEpoch" /\ There(Target) /\ UNCHANGED <<op, want, files, ghosts>> /\ Calm
    BY <1>4 DEF StampStat, GoTo, Return, Stamping, Calm, IntoFolder, HiddenAlias
  <2>2. pc \in Stamping
    BY <1>4 DEF StampStat, Stamping
  <2> QED
    BY <2>1, <2>2, Places DEF OnlyDateMissing
<1>5. CASE TouchEpochComplains
  <2>1. /\ pc = "touchEpoch" /\ pc' = "touchT" /\ files' \in {files, Touched(want)}
        /\ UNCHANGED <<op, want, ghosts>> /\ Calm
    BY <1>5 DEF TouchEpochComplains, GoTo, Calm, IntoFolder, HiddenAlias
  <2>2. want \in DateRange
    BY <2>1 DEF TypeOK
  <2>3. files'[To].ver = files[To].ver /\ \A f \in Files \ {To} : files'[f] = files[f]
    BY <2>1, <2>2, TouchChanges
  <2> QED
    BY <2>1, <2>3 DEF OnlyDateMissing, Stamping, There
<1>6. CASE \/ Answer \/ RefuseOtherDevice \/ StatFails \/ CheckTarget \/ Branch \/ StatSource
           \/ CommandLost \/ CommandFails \/ TouchEpoch \/ TouchT \/ TouchLost \/ TouchFails
  <2>1. pc' \notin Stamping \/ lost'
    BY <1>6 DEF Answer, RefuseOtherDevice, StatFails, CheckTarget, Branch, StatSource, CommandLost,
         CommandFails, TouchEpoch, TouchT, TouchLost, TouchFails, GoTo, Return, Stamping
  <2> QED
    BY <2>1 DEF Calm
<1>7. CASE UNCHANGED vars
  BY <1>7 DEF vars, OnlyDateMissing, Calm, IntoFolder, HiddenAlias
<1> QED
  BY EveryStep, <1>1, <1>2, <1>3, <1>4, <1>5, <1>6, <1>7 DEF Plugin

LEMMA StoppedInTimeStep == TypeOK /\ Route /\ Untouched /\ StoppedInTime /\ [Next]_vars => StoppedInTime'
<1> SUFFICES ASSUME TypeOK, Route, Untouched, StoppedInTime, [Next]_vars PROVE StoppedInTime'
  OBVIOUS
<1> USE DEF ghosts, StoppedInTime, To
<1>1. ASSUME Starts PROVE StoppedInTime'
  <2>1. PICK o, l, date : Begins(o, l, date) /\ Begin(o, l, date)
    BY <1>1 DEF Starts
  <2> QED
    BY <2>1 DEF Begins, Begin
<1>2. ASSUME NEW f \in Shared, OtherApp(f) PROVE StoppedInTime'
  <2>1. PICK x \in {Absent} \cup FromApps : files' = [files EXCEPT ![f] = x]
    BY <1>2 DEF OtherApp
  <2>2. UNCHANGED <<pc, op, before>> /\ (pc # "idle" => meddled' = meddled \cup {f})
    BY <1>2 DEF OtherApp
  <2>3. f # To => files'[To] = files[To]
    BY <2>1, Places
  <2> QED
    BY <1>2, <2>2, <2>3 DEF Route
<1>3. CASE Answer
  BY <1>3 DEF Answer, NoCall, Call
<1>4. CASE CheckTarget
  <2>1. To \notin meddled => files[To] = before[To]
    BY <1>4, Places DEF CheckTarget, Untouched, Asking
  <2> QED
    BY <1>4, <2>1 DEF CheckTarget, GoTo, Return, Target
<1>5. CASE RefuseOtherDevice \/ StatFails \/ Branch \/ StatSource
  BY <1>5 DEF RefuseOtherDevice, StatFails, Branch, StatSource, GoTo, Return
<1>6. CASE CommandSilent \/ CommandLost \/ CommandFails
  <2>1. pc = "command" /\ UNCHANGED <<op, before, meddled>>
    BY <1>6 DEF CommandSilent, CommandLost, CommandFails
  <2> QED
    BY <2>1
<1>7. CASE StampStat \/ TouchEpoch \/ TouchEpochComplains \/ TouchT \/ TouchLost \/ TouchFails
  <2>1. pc \in Stamping /\ UNCHANGED <<op, before, meddled>>
    BY <1>7 DEF StampStat, TouchEpoch, TouchEpochComplains, TouchT, TouchLost, TouchFails, Stamping
  <2> QED
    BY <2>1 DEF Stamping
<1>8. CASE UNCHANGED vars
  BY <1>8 DEF vars
<1> QED
  BY EveryStep, <1>1, <1>2, <1>3, <1>4, <1>5, <1>6, <1>7, <1>8 DEF Plugin

-----------------------------------------------------------------------------
(* The answer.                                                             *)

\* A command that is the whole of its call does what was wanted.
LEMMA CommandDoesWhatIsWanted ==
    ASSUME TypeOK, Route, Untouched, Calm, pc = "command", op.kind # "copy",
           CommandSilent, NEW f \in Files \ meddled
    PROVE  files'[f] = Wanted'[f]
<1>0. /\ \A h \in Files \ meddled : files[h] = before[h]
      /\ files[From] = before[From] /\ files[To] = before[To]
      /\ From \in Files /\ To \in Files /\ files \in [Files -> FileTypes]
      /\ before \in [Files -> FileTypes] /\ Source = files[From] /\ Target = files[To]
  BY Places DEF Untouched, Asking, Calm
<1>1. files' \in Done /\ UNCHANGED <<op, before>> /\ From' = From /\ To' = To
  BY DEF CommandSilent, ghosts, From, To
<1> USE <1>0, <1>1
<1>2. CASE op.kind = "move"
  <2>1. files' \in Mv
    BY <1>2 DEF Done
  <2>2. Wanted' = [before EXCEPT ![From] = Absent, ![To] = before[From]]
    BY <1>2 DEF Wanted
  <2>3. CASE From = To
    BY <2>1, <2>2, <2>3 DEF Mv
  <2>4. CASE From # To
    <3>1. ~IsFolder(Target)
      BY <1>2 DEF Calm, IntoFolder
    <3>2. files' = [files EXCEPT ![To] = Source, ![From] = Absent]
      BY <2>1, <2>4, <3>1 DEF Mv
    <3> QED
      BY <2>2, <2>4, <3>2
  <2> QED
    BY <2>3, <2>4
<1>3. CASE op.kind \in {"delete", "rmdir"}
  <2>1. files' = Put(To, Absent)
    BY <1>3 DEF Done, RmF, RmRf
  <2>2. Wanted' = [before EXCEPT ![To] = Absent]
    BY <1>3 DEF Wanted
  <2> QED
    BY <2>1, <2>2 DEF Put
<1>4. CASE op.kind = "make"
  <2>1. Wanted' = [before EXCEPT ![To] = [Folder EXCEPT !.date = files'[To].date]]
    BY <1>4 DEF Wanted
  <2>2. CASE files' = Put(To, Folder)
    <3>1. files'[To] = Folder /\ [Folder EXCEPT !.date = Folder.date] = Folder
      BY <2>2 DEF Put, Folder
    <3> QED
      BY <2>1, <2>2, <3>1 DEF Put
  <2>3. CASE files' = files /\ IsFolder(Target)
    <3>1. [Folder EXCEPT !.date = Target.date] = Target
      <4>1. There(Target) /\ Folder \in FileTypes /\ Target \in FileTypes
        BY <2>3, FilesMade DEF IsFolder, There, Folder
      <4>2. Target.date \in DateRange /\ There(Folder)
        BY <4>1, FilesMade
      <4>3. /\ [Folder EXCEPT !.date = Target.date] \in FileTypes
            /\ [Folder EXCEPT !.date = Target.date].ver = Target.ver
            /\ [Folder EXCEPT !.date = Target.date].date = Target.date
        BY <2>3, <4>1, <4>2, FileRedated DEF IsFolder
      <4> QED
        BY <4>1, <4>3, FileEqual
    <3> QED
      BY <2>1, <2>3, <3>1
  <2> QED
    BY <1>4, <2>2, <2>3 DEF Done, MkDir
<1> QED
  BY <1>2, <1>3, <1>4 DEF TypeOK, Route

\* So does a touch that ends its call, also that of a copy.
LEMMA TouchDoesWhatIsWanted ==
    ASSUME TypeOK, Route, OnlyDateMissing, Calm, pc \in {"touchEpoch", "touchT"},
           files' = Touched(want), UNCHANGED <<op, want, before>>, NEW f \in Files \ meddled
    PROVE  files'[f] = Wanted'[f]
<1> DEFINE origin == IF op.kind = "copy" THEN From ELSE To
<1>0. /\ From \in Files /\ To \in Files /\ files \in [Files -> FileTypes]
      /\ before \in [Files -> FileTypes] /\ From' = From /\ To' = To /\ want \in DateRange
  BY Places DEF From, To, TypeOK
<1>1. /\ \A h \in Files \ (meddled \cup {To}) : files[h] = before[h]
      /\ files[To].ver = before[origin].ver /\ There(files[To])
      /\ op.kind = "copy" => want = before[From].date
  BY DEF OnlyDateMissing, Stamping
<1>2. /\ files' \in [Files -> FileTypes] /\ files'[To].date = want
      /\ files'[To].ver = files[To].ver
      /\ \A h \in Files \ {To} : files'[h] = files[h]
  BY <1>0, <1>1, TouchChanges
<1>3. CASE op.kind = "copy"
  <2>1. Wanted' = [before EXCEPT ![To] = before[From]]
    BY <1>0, <1>3 DEF Wanted
  <2>2. files'[To] = before[From]
    BY <1>0, <1>1, <1>2, <1>3, FileEqual
  <2> QED
    BY <1>0, <1>1, <1>2, <2>1, <2>2
<1>4. CASE op.kind = "touch"
  <2>1. Wanted' = [before EXCEPT ![To] = [before[To] EXCEPT !.date = want]]
    BY <1>0, <1>4 DEF Wanted
  <2>2. There(before[To])
    BY <1>1, <1>4 DEF There
  <2>3. files'[To] = [before[To] EXCEPT !.date = want]
    <3>1. /\ [before[To] EXCEPT !.date = want] \in FileTypes
          /\ [before[To] EXCEPT !.date = want].ver = before[To].ver
          /\ [before[To] EXCEPT !.date = want].date = want
      BY <1>0, <2>2, FileRedated
    <3>2. files'[To] \in FileTypes /\ files'[To].ver = before[To].ver /\ files'[To].date = want
      BY <1>0, <1>1, <1>2, <1>4
    <3> QED
      BY <3>1, <3>2, FileEqual
  <2> QED
    BY <1>0, <1>1, <1>2, <2>1, <2>3
<1> QED
  BY <1>3, <1>4 DEF Route, Stamping

LEMMA AnswerStep ==
    IInv /\ [Next]_vars => AnswerIsTrue'
<1> SUFFICES ASSUME IInv, [Next]_vars PROVE AnswerIsTrue'
  OBVIOUS
<1> USE DEF IInv
<1>0. TypeOK /\ Route /\ Untouched /\ OnlyDateMissing /\ AnswerIsTrue
  OBVIOUS
\* A step that returns nothing owes nothing.
<1>1. code' = "none" => AnswerIsTrue'
  BY DEF AnswerIsTrue
<1>2. code' = "ERROR" => AnswerIsTrue'
  BY DEF AnswerIsTrue
<1>3. pc # "done" => code = "none"
  BY DEF Route
<1>4. ASSUME Starts PROVE AnswerIsTrue'
  <2>1. PICK o, l, date : Begins(o, l, date) /\ Begin(o, l, date)
    BY <1>4 DEF Starts
  <2> QED
    BY <1>1, <1>3, <2>1 DEF Begin
<1>5. ASSUME NEW f \in Shared, OtherApp(f) PROVE AnswerIsTrue'
  BY <1>1, <1>3, <1>5 DEF OtherApp
<1>6. CASE Answer
  BY <1>1, <1>6 DEF Answer
<1>7. CASE RefuseOtherDevice \/ CheckTarget
  <2>1. \/ code' = "none"
        \/ /\ code' \in {"NOTSUPPORTED", "EXISTS"} /\ pc \in Asking
           /\ UNCHANGED <<files, ghosts>>
    BY <1>3, <1>7 DEF RefuseOtherDevice, CheckTarget, GoTo, Return, Asking
  <2>2. pc \in Asking => \A f \in Files \ meddled : files[f] = before[f]
    BY <1>0 DEF Untouched
  <2> QED
    BY <1>1, <2>1, <2>2 DEF AnswerIsTrue, ghosts
<1>8. CASE \/ StatFails \/ Branch \/ StatSource \/ CommandFails \/ StampStat
           \/ TouchEpochComplains \/ TouchFails
  BY <1>1, <1>2, <1>3, <1>8
  DEF StatFails, Branch, StatSource, CommandFails, StampStat, TouchEpochComplains, TouchFails,
      GoTo, Return
<1>9. CASE CommandLost \/ TouchLost
  <2>1. lost' /\ code' \in {"none", "OK"}
    BY <1>3, <1>9 DEF CommandLost, TouchLost, AfterCommand, GoTo, Return
  <2> QED
    BY <2>1 DEF AnswerIsTrue
<1>10. CASE CommandSilent
  <2>1. pc = "command" /\ UNCHANGED <<op, want, ghosts>> /\ From' = From /\ To' = To
    BY <1>10 DEF CommandSilent, From, To
  <2>2. CASE op.kind = "copy"
    BY <1>1, <1>3, <1>10, <2>2 DEF CommandSilent, AfterCommand, GoTo
  <2>3. CASE op.kind # "copy"
    <3>1. code' = "OK"
      BY <1>10, <2>3 DEF CommandSilent, AfterCommand, Return
    <3>2. ASSUME {From, To} \cap meddled = {}, ~lost, ~IntoFolder, ~HiddenAlias
          PROVE  \A f \in Files \ meddled : files'[f] = Wanted'[f]
      <4>1. Calm
        BY <3>2 DEF Calm
      <4> QED
        BY <1>0, <1>10, <2>1, <2>3, <4>1, CommandDoesWhatIsWanted
    <3>3. IntoFolder' = IntoFolder /\ HiddenAlias' = HiddenAlias
      BY <2>1 DEF IntoFolder, HiddenAlias, ghosts
    <3> QED
      BY <2>1, <3>1, <3>2, <3>3 DEF AnswerIsTrue, ghosts
  <2> QED
    BY <2>2, <2>3
<1>11. CASE TouchEpoch \/ TouchT
  <2>1. CASE code' = "OK"
    <3>1. /\ pc \in {"touchEpoch", "touchT"} /\ files' = Touched(want)
          /\ UNCHANGED <<op, want, ghosts>>
      BY <1>11, <2>1 DEF TouchEpoch, TouchT, Return
    <3>2. ASSUME {From, To} \cap meddled = {}, ~lost, ~IntoFolder, ~HiddenAlias
          PROVE  \A f \in Files \ meddled : files'[f] = Wanted'[f]
      <4>1. Calm
        BY <3>2 DEF Calm
      <4>2. UNCHANGED <<op, want, before>>
        BY <3>1 DEF ghosts
      <4> QED
        BY <1>0, <3>1, <4>1, <4>2, TouchDoesWhatIsWanted
    <3>3. /\ IntoFolder' = IntoFolder /\ HiddenAlias' = HiddenAlias
          /\ From' = From /\ To' = To /\ UNCHANGED <<meddled, lost>>
      BY <3>1 DEF IntoFolder, HiddenAlias, ghosts, From, To
    <3> QED
      BY <2>1, <3>2, <3>3 DEF AnswerIsTrue
  <2>2. CASE code' # "OK"
    BY <1>2, <1>11, <2>2 DEF TouchEpoch, TouchT, Return
  <2> QED
    BY <2>1, <2>2
<1>12. CASE UNCHANGED vars
  <2>1. /\ IntoFolder' = IntoFolder /\ HiddenAlias' = HiddenAlias /\ From' = From /\ To' = To
        /\ Wanted' = Wanted /\ UNCHANGED <<code, files, before, meddled, lost>>
    BY <1>12 DEF vars, ghosts, IntoFolder, HiddenAlias, From, To, Wanted
  <2> QED
    BY <1>0, <2>1 DEF AnswerIsTrue
<1> QED
  BY EveryStep, <1>4, <1>5, <1>6, <1>7, <1>8, <1>9, <1>10, <1>11, <1>12 DEF Plugin

-----------------------------------------------------------------------------
LEMMA Invariance == Spec => []IInv
<1>1. Init => IInv
  BY Initially
<1>2. IInv /\ [Next]_vars => IInv'
  BY TypeStep, RouteStep, UntouchedStep, DateInHandStep, OnlyDateMissingStep, StoppedInTimeStep,
     AnswerStep DEF IInv
<1> QED
  BY <1>1, <1>2, PTL DEF Spec

\* Every file on a device is one that an app or the code makes, and a copy that has
\* to be dated has a date.
THEOREM TypeCorrect == Spec => []TypeOK
<1>1. IInv => TypeOK
  BY DEF IInv
<1> QED
  BY <1>1, Invariance, PTL

\* What renameOrMove, setModificationTime and the simple commands answer is what
\* happened on the device, but for the exceptions AnswerIsTrue names.
THEOREM DeviceAnswersAreTrue == Spec => []AnswerIsTrue
<1>1. IInv => AnswerIsTrue
  BY DEF IInv
<1> QED
  BY <1>1, Invariance, PTL

\* Without overwrite no step of a call changes the file that was at its target.
THEOREM DeviceKeepsExisting == Spec => ExistingIsKept
<1>1. IInv /\ [Next]_vars =>
        [Plugin /\ op.kind \in {"move", "copy"} /\ ~op.overwrite
           /\ There(before[To]) /\ To \notin meddled => files'[To] = before[To]]_vars
  <2> SUFFICES ASSUME IInv, Plugin, op.kind \in {"move", "copy"}, ~op.overwrite,
                      There(before[To]), To \notin meddled
               PROVE  files'[To] = before[To]
    OBVIOUS
  <2>1. pc \in {"refuse", "check", "done"} /\ files[To] = before[To]
    BY DEF IInv, StoppedInTime
  <2>2. UNCHANGED files
    BY <2>1 DEF Plugin, Answer, RefuseOtherDevice, StatFails, CheckTarget, Branch, StatSource,
         CommandSilent, CommandLost, CommandFails, StampStat, TouchEpoch, TouchEpochComplains,
         TouchT, TouchLost, TouchFails
  <2> QED
    BY <2>1, <2>2
<1> QED
  BY <1>1, Invariance, PTL DEF Spec, ExistingIsKept

\* No step of a copy changes the contents of its source.
THEOREM CopiesKeepTheirSource == Spec => CopyKeepsSource
<1>1. IInv /\ [Next]_vars =>
        [Plugin /\ op.kind = "copy" /\ ~HiddenAlias => files'[From].ver = files[From].ver]_vars
  <2> SUFFICES ASSUME IInv, Plugin, op.kind = "copy", ~HiddenAlias
               PROVE  files'[From].ver = files[From].ver
    OBVIOUS
  <2> USE DEF IInv
  <2>1. pc = "command" => From # To
    BY DEF Route, HiddenAlias
  <2>2. CASE CommandSilent \/ CommandLost \/ CommandFails
    <3>1. /\ pc = "command" /\ Cp = Done
          /\ files' \in {files} \cup Done \cup HalfDone
      BY <2>2 DEF CommandSilent, CommandLost, CommandFails, Done
    <3>2. \A g \in Cp : g[From] = files[From]
      BY <2>1, <3>1, Places DEF Cp, Put
    <3>3. \A g \in HalfDone : g[From] = files[From]
      BY Places, HalfDoneChanges DEF Put
    <3> QED
      BY <3>1, <3>2, <3>3
  <2>3. CASE TouchEpoch \/ TouchEpochComplains \/ TouchT \/ TouchLost \/ TouchFails
    <3>1. files' \in {files, Touched(want)} /\ want \in DateRange
      BY <2>3 DEF TouchEpoch, TouchEpochComplains, TouchT, TouchLost, TouchFails, TypeOK
    <3> QED
      BY <3>1, Places, TouchChanges
  <2>4. CASE Answer \/ RefuseOtherDevice \/ StatFails \/ CheckTarget \/ Branch \/ StatSource \/ StampStat
    BY <2>4 DEF Answer, RefuseOtherDevice, StatFails, CheckTarget, Branch, StatSource, StampStat
  <2> QED
    BY <2>2, <2>3, <2>4 DEF Plugin
<1> QED
  BY <1>1, Invariance, PTL DEF Spec, CopyKeepsSource
=============================================================================
