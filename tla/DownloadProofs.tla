--------------------------- MODULE DownloadProofs ---------------------------
(***************************************************************************)
(* Download.tla, for any number of versions, chunks, calls and crashes:    *)
(* a successful getFile leaves a whole file, a failed one leaves the local *)
(* name as it was, and a whole file is replaced in one step.               *)
(***************************************************************************)
EXTENDS Download, TLAPS

Busy     == pc \notin {"idle", "dead"}
Transfer == SyncRecv \cup {"cleanup"}

\* Until open() nothing local has changed and adbd has not been asked for the file.
BeforeOpen ==
    pc \in {"stat", "restat", "open"} =>
        temp = NoFile /\ target = before /\ served = -1 /\ sent = 0

\* While bytes arrive they go beside an existing file, or to a name that was free.
WritesAside ==
    pc \in Transfer =>
        IF viaTemp THEN target = before /\ before # NoFile
                   ELSE temp = NoFile /\ before = NoFile

\* The file being written holds exactly the chunks adbd has sent of one version.
HoldsWhatWasSent ==
    /\ pc \in SyncRecv =>
         /\ Written.got = sent /\ Written # NoFile
         /\ sent > 0 => Written.ver = served /\ served > 0
         /\ served > 0 => sent <= Chunks[served]
    /\ pc \in {"connect", "request"} => served = -1 /\ sent = 0
    /\ pc \in {"payload", "write"} => served > 0 /\ sent < Chunks[served]

\* A finished transfer is a whole version, at the temp name and then at the real one.
Finished ==
    /\ pc = "rename" => viaTemp /\ Whole(temp) /\ temp.ver > 0 /\ target = before
    /\ pc \in {"stamp", "delete"} => Whole(target) /\ target.ver > 0 /\ temp = NoFile
    /\ pc = "delete" => target.date = info /\ flags.move

\* What the last call has left behind.
Outcome ==
    /\ pc # "idle" => code = "none"
    /\ pc = "idle" => temp = NoFile
    /\ OkIsWhole /\ FailureChangesNothing
    /\ pc = "cleanup" => (why = "cancelled" => cancel)

IInv == TypeOK /\ BeforeOpen /\ WritesAside /\ HoldsWhatWasSent /\ Finished /\ Outcome

\* What the fields of a file may be.
LEMMA FileFields ==
    ASSUME NEW f, FileOK(f)
    PROVE  f.ver \in -2..MaxVersion /\ f.got \in Nat /\ f.date \in 0..LinkDate
  BY DEF FileOK, Files

\* The files the code makes are files, and what their fields are.
LEMMA FilesMade ==
    /\ FileOK(NoFile) /\ FileOK(Mine) /\ FileOK(Created)
    /\ NoFile.ver = -1 /\ NoFile.got = 0 /\ Created.ver = -2 /\ Created.got = 0
    /\ Created # NoFile
<1> USE DownloadAssumption DEF DownloadAssumption, LinkDate, Now
<1>1. NoFile \in Files /\ Mine \in Files /\ Created \in Files
  BY DEF Files, NoFile, Mine, Created
<1> QED
  BY <1>1 DEF FileOK, NoFile, Mine, Created

\* So is a file with chunks of a version in it, up to all of them.
LEMMA FileWritten ==
    ASSUME NEW v \in 1..MaxVersion, NEW g \in Nat, g <= Chunks[v]
    PROVE  FileOK([ver |-> v, got |-> g, date |-> Now])
<1>1. [ver |-> v, got |-> g, date |-> Now] \in Files
  BY DownloadAssumption DEF DownloadAssumption, Files, Now, LinkDate
<1> QED
  BY <1>1 DEF FileOK

\* utimensat changes the date and nothing else.
LEMMA FileRedated ==
    ASSUME NEW f, FileOK(f), NEW d \in 0..LinkDate
    PROVE  /\ FileOK([f EXCEPT !.date = d])
           /\ [f EXCEPT !.date = d].ver = f.ver /\ [f EXCEPT !.date = d].got = f.got
           /\ [f EXCEPT !.date = d].date = d
<1> DEFINE g == [f EXCEPT !.date = d]
<1>1. f \in Files /\ f.got <= (IF f.ver > 0 THEN Chunks[f.ver] ELSE 0)
  BY DEF FileOK
<1>2. g \in Files /\ g.ver = f.ver /\ g.got = f.got /\ g.date = d
  BY <1>1 DEF Files
<1> QED
  BY <1>1, <1>2 DEF FileOK

\* Naming the version a file was received from changes nothing else.
LEMMA FileNamed ==
    ASSUME NEW f, FileOK(f), NEW v \in 1..MaxVersion, f.got <= Chunks[v]
    PROVE  /\ FileOK([f EXCEPT !.ver = v])
           /\ [f EXCEPT !.ver = v].ver = v /\ [f EXCEPT !.ver = v].got = f.got
<1> DEFINE g == [f EXCEPT !.ver = v]
<1>1. f \in Files
  BY DEF FileOK
<1>2. g \in Files /\ g.ver = v /\ g.got = f.got
  BY <1>1, DownloadAssumption DEF DownloadAssumption, Files
<1> QED
  BY <1>2 DEF FileOK

\* Before the first call every conjunct holds.
LEMMA InitIInv == Init => IInv
<1> SUFFICES ASSUME Init PROVE IInv
  OBVIOUS
<1> USE DownloadAssumption DEF DownloadAssumption, Init
<1>1. FileOK(NoFile) /\ FileOK(Mine)
  BY DEF FileOK, Files, NoFile, Mine, LinkDate
<1>2. FileOK(target) /\ FileOK(temp) /\ FileOK(before)
  BY <1>1
<1>3. /\ flags \in [overwrite : BOOLEAN, move : BOOLEAN] /\ info \in 0..LinkDate
      /\ remote \in 0..MaxVersion /\ began \in 0..MaxVersion /\ served \in -1..MaxVersion
      /\ calls \in 0..MaxCalls /\ crashes \in 0..MaxCrashes
  BY DEF LinkDate
<1>4. TypeOK
  BY <1>2, <1>3 DEF TypeOK
<1>5. BeforeOpen /\ WritesAside /\ HoldsWhatWasSent /\ Finished /\ Outcome
  BY DEF BeforeOpen, WritesAside, HoldsWhatWasSent, Finished, Outcome, Transfer, SyncRecv,
         Hooked, OkIsWhole, FailureChangesNothing
<1> QED
  BY <1>4, <1>5 DEF IInv

\* Every step of getFile, of adbd, of the user and of a dying host preserves them.
LEMMA NextIInv == IInv /\ [Next]_vars => IInv'
<1> SUFFICES ASSUME IInv, [Next]_vars PROVE IInv'
  OBVIOUS
<1> USE DownloadAssumption DEF DownloadAssumption, IInv, TypeOK, BeforeOpen, WritesAside,
        HoldsWhatWasSent, Finished, Outcome, Transfer, SyncRecv, Hooked, OkIsWhole,
        FailureChangesNothing, Whole, Written, Exists, Now, LinkDate, args, result, user, local, device, ghosts
<1> USE FilesMade
<1>1. ASSUME NEW overwrite \in BOOLEAN, NEW move \in BOOLEAN, Start(overwrite, move)
      PROVE IInv'
  <2>1. TypeOK'
    <3>1. flags' \in [overwrite : BOOLEAN, move : BOOLEAN]
      BY <1>1 DEF Start
    <3>2. FileOK(target)' /\ FileOK(temp)' /\ FileOK(before)'
      BY <1>1 DEF Start
    <3>3. began' \in 0..MaxVersion /\ calls' \in 0..MaxCalls /\ served' = -1 /\ sent' = 0
      BY <1>1 DEF Start
    <3>4. /\ pc' = "stat" /\ code' = "none" /\ notice' \in BOOLEAN /\ why' = "none"
          /\ stallCancelled' \in BOOLEAN /\ cancel' \in BOOLEAN
          /\ UNCHANGED <<info, viaTemp, kind, remote, asleep, crashes>>
      BY <1>1 DEF Start
    <3> QED
      BY <3>1, <3>2, <3>3, <3>4
  <2>2. BeforeOpen' /\ WritesAside' /\ HoldsWhatWasSent' /\ Finished' /\ Outcome'
    BY <1>1 DEF Start
  <2> QED
    BY <2>1, <2>2
<1>2. CASE StatFails
  BY <1>2 DEF StatFails, Return
<1>3. CASE Stat
  <2>1. TypeOK'
    <3>1. info' \in 0..LinkDate
      <4>1. info' \in {info, LinkDate, remote}
        BY <1>3 DEF Stat
      <4> QED
        BY <4>1
    <3>2. pc' \in {"idle", "restat", "open"} /\ code' \in {"NOTFOUND", "none"} /\ notice' \in BOOLEAN
      BY <1>3 DEF Stat, Return, GoTo
    <3> QED
      BY <1>3, <3>1, <3>2 DEF Stat
  <2>2. BeforeOpen' /\ WritesAside' /\ HoldsWhatWasSent' /\ Finished' /\ Outcome'
    BY <1>3 DEF Stat, Return, GoTo
  <2> QED
    BY <2>1, <2>2
<1>4. CASE Restat
  BY <1>4 DEF Restat, GoTo
<1>5. CASE Open
  <2>1. TypeOK'
    <3>1. CASE target # NoFile /\ ~flags.overwrite
      BY <1>5, <3>1 DEF Open, Return
    <3>2. CASE target # NoFile /\ flags.overwrite
      BY <1>5, <3>2 DEF Open, GoTo, UseTemp
    <3>3. CASE target = NoFile
      BY <1>5, <3>3 DEF Open, GoTo, UseTemp
    <3> QED
      BY <3>1, <3>2, <3>3
  <2>2. BeforeOpen' /\ WritesAside' /\ HoldsWhatWasSent' /\ Finished' /\ Outcome'
    <3>1. CASE target # NoFile /\ ~flags.overwrite
      BY <1>5, <3>1 DEF Open, Return
    <3>2. CASE target # NoFile /\ flags.overwrite
      BY <1>5, <3>2 DEF Open, GoTo, UseTemp
    <3>3. CASE target = NoFile
      <4>1. viaTemp' = FALSE /\ target' = Created /\ temp' = temp /\ pc' = "connect"
        BY <1>5, <3>3 DEF Open, GoTo, UseTemp
      <4> QED
        BY <1>5, <3>3, <4>1 DEF Open, GoTo
    <3> QED
      BY <3>1, <3>2, <3>3
  <2> QED
    BY <2>1, <2>2
<1>6. CASE OpenFails
  BY <1>6 DEF OpenFails, Return, UseTemp
<1>7. CASE Connect
  BY <1>7 DEF Connect, GoTo
<1>8. CASE SendRequest
  BY <1>8 DEF SendRequest, GoTo
<1>9. CASE SessionBreaks
  BY <1>9 DEF SessionBreaks, RecvFails
<1>10. CASE StallCancelled
  BY <1>10 DEF StallCancelled, RecvFails
<1>11. CASE HeaderData
  BY <1>11 DEF HeaderData, GoTo
<1>12. CASE HeaderDone
  <2> DEFINE g == [Written EXCEPT !.ver = served]
  <2>1. served \in 1..MaxVersion
    BY <1>12 DEF HeaderDone, EndsTransfer
  <2>2. FileOK(Written)
    OBVIOUS
  <2>3. Written.got = Chunks[served]
    BY <1>12 DEF HeaderDone, EndsTransfer
  <2>4. FileOK(g) /\ Whole(g) /\ g.ver > 0
    <3>1. PICK f : f = Written
      OBVIOUS
    <3>2. FileOK(f) /\ f.got = Chunks[served] /\ f.got <= Chunks[served]
      BY <2>1, <2>2, <2>3, <3>1
    <3>3. /\ FileOK([f EXCEPT !.ver = served])
          /\ [f EXCEPT !.ver = served].ver = served /\ [f EXCEPT !.ver = served].got = f.got
      BY ONLY <2>1, <3>2, FileNamed
    <3> QED
      BY <2>1, <3>1, <3>2, <3>3
  <2> HIDE DEF g
  <2>5. CASE viaTemp
    <3>1. temp' = g /\ target' = target /\ pc' = "rename"
      BY <1>12, <2>5 DEF HeaderDone, GoTo, Put, g
    <3>2. TypeOK'
      BY <1>12, <2>4, <2>5, <3>1 DEF HeaderDone, GoTo
    <3> QED
      BY <1>12, <2>4, <2>5, <3>1, <3>2 DEF HeaderDone, GoTo
  <2>6. CASE ~viaTemp
    <3>1. target' = g /\ temp' = temp /\ pc' = "stamp"
      BY <1>12, <2>6 DEF HeaderDone, GoTo, Put, g
    <3>2. TypeOK'
      BY <1>12, <2>4, <2>6, <3>1 DEF HeaderDone, GoTo
    <3> QED
      BY <1>12, <2>4, <2>6, <3>1, <3>2 DEF HeaderDone, GoTo
  <2> QED
    BY <2>5, <2>6
<1>13. CASE HeaderFail
  BY <1>13 DEF HeaderFail, GoTo
<1>14. CASE ReadPayload
  BY <1>14 DEF ReadPayload, GoTo
<1>15. CASE ReadFailBody
  BY <1>15 DEF ReadFailBody, RecvFails
<1>16. CASE WriteChunk
  <2>1. TypeOK'
    BY <1>16, FileWritten DEF WriteChunk, Put, RecvFails, GoTo
  <2>2. BeforeOpen' /\ WritesAside' /\ HoldsWhatWasSent' /\ Finished' /\ Outcome'
    BY <1>16, FileWritten DEF WriteChunk, Put, RecvFails, GoTo
  <2> QED
    BY <2>1, <2>2
<1>17. CASE DiskFull
  BY <1>17 DEF DiskFull, RecvFails
<1>18. CASE Cleanup
  <2>1. TypeOK'
    BY <1>18 DEF Cleanup, Put, Return
  <2>2. BeforeOpen' /\ WritesAside' /\ HoldsWhatWasSent' /\ Finished' /\ Outcome'
    BY <1>18 DEF Cleanup, Put, Return
  <2> QED
    BY <2>1, <2>2
<1>19. CASE Rename
  BY <1>19 DEF Rename, GoTo
<1>20. CASE RenameFails
  BY <1>20 DEF RenameFails, Return
<1>21. CASE Stamp
  <2>1. TypeOK'
    BY <1>21, FileRedated DEF Stamp, GoTo, Return
  <2>2. BeforeOpen' /\ WritesAside' /\ HoldsWhatWasSent' /\ Finished' /\ Outcome'
    <3>1. Whole(target') /\ target'.ver > 0 /\ target'.date = info
      BY <1>21, FileRedated DEF Stamp
    <3>2. temp' = NoFile /\ info' = info /\ flags' = flags /\ cancel' = cancel
      BY <1>21 DEF Stamp
    <3>3. (pc' = "delete" /\ flags.move /\ code' = "none") \/ (pc' = "idle" /\ code' = "OK")
      BY <1>21 DEF Stamp, GoTo, Return
    <3> QED
      BY <3>1, <3>2, <3>3
  <2> QED
    BY <2>1, <2>2
<1>22. CASE StampFails
  BY <1>22 DEF StampFails, Return
<1>23. CASE Delete
  BY <1>23 DEF Delete, Return
<1>24. CASE DeleteFails
  BY <1>24 DEF DeleteFails, Return
<1>25. CASE RemoteEdited
  BY <1>25 DEF RemoteEdited
<1>26. CASE SleepsOrWakes
  BY <1>26 DEF SleepsOrWakes
<1>27. CASE AdbdOpens
  BY <1>27 DEF AdbdOpens
<1>28. CASE UserCancels
  BY <1>28 DEF UserCancels
<1>29. CASE Crash
  BY <1>29 DEF Crash
<1>30. CASE Restart
  BY <1>30 DEF Restart, GoTo
<1>31. CASE UNCHANGED vars
  BY <1>31 DEF vars
<1> QED
  BY <1>1, <1>2, <1>3, <1>4, <1>5, <1>6, <1>7, <1>8, <1>9, <1>10, <1>11, <1>12, <1>13, <1>14, <1>15, <1>16, <1>17, <1>18, <1>19, <1>20, <1>21, <1>22, <1>23, <1>24, <1>25, <1>26, <1>27, <1>28, <1>29, <1>30, <1>31 DEF Next, Thread

\* The inductive invariant holds in every reachable state, crashes included.
LEMMA AlwaysIInv == Spec => []IInv
  BY InitIInv, NextIInv, PTL DEF Spec

\* Every variable stays in its range, and no file holds more than its version has.
THEOREM TypeCorrect == Spec => []TypeOK
<1>1. IInv => TypeOK
  BY DEF IInv
<1> QED
  BY <1>1, AlwaysIInv, PTL

\* getFile answers OK only over a whole version of the remote file.
THEOREM DownloadIsWhole == Spec => []OkIsWhole
<1>1. IInv => OkIsWhole
  BY DEF IInv, Outcome
<1> QED
  BY <1>1, AlwaysIInv, PTL

\* A failed or cancelled getFile leaves the local name as it found it.
THEOREM FailedDownloadChangesNothing == Spec => []FailureChangesNothing
<1>1. IInv => FailureChangesNothing
  BY DEF IInv, Outcome
<1> QED
  BY <1>1, AlwaysIInv, PTL

\* A move orders the source removed only over a whole and dated copy.
THEOREM SourceIsDeletedLast == Spec => []SourceGoesLast
<1>1. IInv => SourceGoesLast
  BY DEF IInv, Finished, SourceGoesLast
<1> QED
  BY <1>1, AlwaysIInv, PTL

\* The steps that touch the file at the local name.
TouchesTarget == Open \/ HeaderDone \/ WriteChunk \/ Cleanup \/ Rename \/ Stamp \/ StampFails

\* Every other step leaves that file alone.
LEMMA OthersLeaveTarget == [Next]_vars /\ ~TouchesTarget => target' = target
<1> SUFFICES ASSUME [Next]_vars, ~TouchesTarget PROVE target' = target
  OBVIOUS
<1> USE DEF TouchesTarget, local
<1>1. ASSUME NEW overwrite \in BOOLEAN, NEW move \in BOOLEAN, Start(overwrite, move)
      PROVE target' = target
  BY <1>1 DEF Start
<1>2. CASE Thread
  BY <1>2 DEF Thread, StatFails, Stat, Restat, OpenFails, Connect, SendRequest, SessionBreaks,
     StallCancelled, HeaderData, HeaderFail, ReadPayload, ReadFailBody, DiskFull,
     RenameFails, Delete, DeleteFails
<1>3. CASE RemoteEdited \/ SleepsOrWakes \/ AdbdOpens \/ UserCancels \/ Crash \/ Restart
  BY <1>3 DEF RemoteEdited, SleepsOrWakes, AdbdOpens, UserCancels, Crash, Restart
<1>4. CASE UNCHANGED vars
  BY <1>4 DEF vars
<1> QED
  BY <1>1, <1>2, <1>3, <1>4 DEF Next

\* One step of the program never leaves half of a file where a whole one was.
LEMMA ReplaceStep == IInv /\ IInv' /\ [Next]_vars =>
    (Whole(before) /\ Whole(target) /\ target' # target =>
        Whole(target') \/ (pc = "stamp" /\ target' = NoFile))
<1> SUFFICES ASSUME IInv, IInv', [Next]_vars, Whole(before), target' # target
             PROVE Whole(target') \/ (pc = "stamp" /\ target' = NoFile)
  OBVIOUS
<1>1. before # NoFile
  BY FilesMade DEF Whole
<1>2. CASE Open
  <2>1. target = before
    BY <1>2 DEF Open, IInv, BeforeOpen
  <2>2. UseTemp = TRUE
    BY <1>1, <2>1 DEF UseTemp, Exists
  <2> QED
    BY <1>2, <2>2 DEF Open, local
<1>3. CASE HeaderDone \/ WriteChunk \/ Cleanup
  <2>1. pc \in Transfer /\ Put(temp') /\ viaTemp
    BY <1>1, <1>3 DEF HeaderDone, WriteChunk, Cleanup, Put, Transfer, SyncRecv, Hooked,
       IInv, WritesAside
  <2> QED
    BY <1>3, <2>1 DEF HeaderDone, WriteChunk, Cleanup, Put
<1>4. CASE Rename
  BY <1>4 DEF Rename, IInv, Finished
<1>5. CASE Stamp
  <2>1. pc = "stamp" /\ target' = [target EXCEPT !.date = info]
    BY <1>5 DEF Stamp
  <2>2. Whole(target) /\ FileOK(target) /\ info \in 0..LinkDate
    BY <2>1 DEF IInv, Finished, TypeOK
  <2> QED
    BY <2>1, <2>2, FileRedated DEF Whole
<1>6. CASE StampFails
  BY <1>6 DEF StampFails
<1> QED
  BY <1>2, <1>3, <1>4, <1>5, <1>6, OthersLeaveTarget DEF TouchesTarget

\* A whole local file is replaced in one step, whatever fails or dies meanwhile.
THEOREM DownloadReplacesAtomically == Spec => ReplaceIsAtomic
<1>1. IInv /\ IInv' /\ [Next]_vars =>
        [Whole(before) /\ Whole(target) /\ target' # target =>
           Whole(target') \/ (pc = "stamp" /\ target' = NoFile)]_vars
  BY ReplaceStep
<1> QED
  BY <1>1, AlwaysIInv, PTL DEF Spec, ReplaceIsAtomic

-----------------------------------------------------------------------------
(* The date.  STAT comes before RECV, and the remote file only gets newer: *)
(* so the date in hand is never later than the bytes that are received.    *)

AfterStat == Transfer \cup {"restat", "open", "rename", "stamp", "delete"}

DateInHand ==
    kind = "file" =>
        /\ Busy /\ remote > 0 => began <= remote
        /\ pc \in AfterStat =>
             /\ began <= info
             /\ remote > 0 => info <= remote
             /\ served > 0 => info <= served
        /\ pc = "rename" => info <= temp.ver
        /\ pc \in {"stamp", "delete"} => info <= target.ver
        /\ DateIsFromTheFile

\* STAT takes the date in hand; no later step makes it newer than the bytes.
LEMMA DateStep == IInv /\ DateInHand /\ [Next]_vars => DateInHand'
<1> SUFFICES ASSUME IInv, DateInHand, [Next]_vars, kind' = "file" PROVE DateInHand'
  BY DEF DateInHand
<1> USE DownloadAssumption, FilesMade
    DEF DownloadAssumption, DateInHand, DateIsFromTheFile, AfterStat, Transfer, SyncRecv, Hooked,
        Busy, args, result, user, local, device, ghosts, GoTo, Return, RecvFails
<1>0. TypeOK /\ BeforeOpen /\ HoldsWhatWasSent /\ (pc # "idle" => code = "none")
  BY DEF IInv, Outcome
<1> USE <1>0 DEF TypeOK
<1>1. ASSUME NEW overwrite \in BOOLEAN, NEW move \in BOOLEAN, Start(overwrite, move)
      PROVE DateInHand'
  BY <1>1 DEF Start
<1>2. CASE StatFails \/ Restat \/ OpenFails \/ Connect \/ SendRequest
  BY <1>2 DEF StatFails, Restat, OpenFails, Connect, SendRequest
<1>3. CASE Stat
  BY <1>3 DEF Stat, BeforeOpen
<1>4. CASE Open
  BY <1>4 DEF Open
<1>5. CASE SessionBreaks \/ StallCancelled \/ HeaderData \/ HeaderFail \/ ReadPayload
  BY <1>5 DEF SessionBreaks, StallCancelled, HeaderData, HeaderFail, ReadPayload
<1>6. CASE HeaderDone
  <2>1. /\ served \in 1..MaxVersion /\ FileOK(Written) /\ Written.got <= Chunks[served]
        /\ pc = "header"
    BY <1>6 DEF HeaderDone, EndsTransfer, Written, HoldsWhatWasSent
  <2>2. [Written EXCEPT !.ver = served].ver = served
    BY <2>1, FileNamed
  <2>3. (pc' = "rename" /\ temp'.ver = served) \/ (pc' = "stamp" /\ target'.ver = served)
    BY <1>6, <2>2 DEF HeaderDone, Put
  <2> QED
    BY <1>6, <2>1, <2>3 DEF HeaderDone
<1>7. CASE ReadFailBody \/ DiskFull \/ Cleanup \/ RenameFails \/ StampFails
  BY <1>7 DEF ReadFailBody, DiskFull, Cleanup, RenameFails, StampFails, Put
<1>8. CASE WriteChunk
  BY <1>8 DEF WriteChunk
<1>9. CASE Rename
  BY <1>9 DEF Rename
<1>10. CASE Stamp
  BY <1>10, FileRedated DEF Stamp
<1>11. CASE Delete \/ DeleteFails
  BY <1>11 DEF Delete, DeleteFails, IInv, Finished
<1>12. CASE RemoteEdited
  BY <1>12 DEF RemoteEdited
<1>13. CASE AdbdOpens
  BY <1>13 DEF AdbdOpens
<1>14. CASE SleepsOrWakes \/ UserCancels \/ Crash \/ Restart
  BY <1>14 DEF SleepsOrWakes, UserCancels, Crash, Restart
<1>15. CASE UNCHANGED vars
  BY <1>15 DEF vars
<1> QED
  BY <1>1, <1>2, <1>3, <1>4, <1>5, <1>6, <1>7, <1>8, <1>9, <1>10, <1>11, <1>12, <1>13,
     <1>14, <1>15 DEF Next, Thread

\* A downloaded plain file carries a date the remote file had during the call, and
\* never one later than its own contents.
THEOREM DownloadKeepsTheDate == Spec => []DateIsFromTheFile
<1>1. Init => DateInHand
  BY DEF Init, DateInHand, DateIsFromTheFile, AfterStat, Transfer, SyncRecv, Hooked, Busy
<1>2. DateInHand => DateIsFromTheFile
  BY DEF DateInHand, DateIsFromTheFile
<1> QED
  BY <1>1, <1>2, DateStep, AlwaysIInv, PTL DEF Spec
=============================================================================
