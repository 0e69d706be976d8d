------------------------------- MODULE Panel -------------------------------
(***************************************************************************)
(* A panel of Double Commander over the plugin: FsFindFirstW, FsFindNextW  *)
(* and FsFindClose turn what adbd lists into rows, and the path of a row,  *)
(* made from what is shown, comes back in every later call.  Names cross   *)
(* the border twice; this module runs the conversions (Unicode, Paths,     *)
(* FileTime) in the order the calls make them and keeps beside every row   *)
(* the device, the path and the date it was made from.                     *)
(***************************************************************************)
EXTENDS Paths, FileTime

CONSTANTS
    Buses,          \* the devices the adb server may know
    Listings,       \* what the root of a device may hold
    DeepListings,   \* and any other directory
    UserDates,      \* ticks of the dates a user may type in
    LocalDir,       \* where downloads go, with its final slash
    MaxDepth,       \* bound: levels a panel goes down from the list of devices
    MaxPath         \* MAX_PATH, scaled down

Byte    == 0..255
Texts   == Seq(Byte)
\* A field of a line of the adb server. A state of several words ("no permissions ...")
\* counts as its first: parseDevicesL takes the others for fields it does not know. A
\* device with no serial number, or with a blank in it, is outside.
Words   == Seq(Byte \ {Space, Tab, CR, Newline}) \ {<<>>}
Names   == Seq((1..255) \ {Slash}) \ {<<>>}     \* what a file can be called on the device
Dates   == {t \in Nat : AtUnixEpoch + (t * TicksPerSecond) < Word * Word}
Devices == [serial : Words, model : Words \cup {<<>>}, state : Words]
ASSUME PanelAssumption ==
    /\ MaxPath \in Nat
    /\ Buses \subseteq Seq(Devices)
    /\ (Listings \cup DeepListings) \subseteq Seq([name : Names, mtime : Dates])
    /\ UserDates \subseteq 0..((Word * Word) - 1)
    /\ LocalDir \in Texts /\ LocalDir # <<>> /\ Last(LocalDir) = Slash
\* adbd gives a model in letters, digits and underscores, and a serial number is ASCII
\* without a slash; only PickedIsMeant needs as much of the names of devices.
ASSUME SpelledAssumption ==
    \A bus \in Buses : \A d \in Range(bus) :
        LET name == DisplayNameForDevice(d) IN WellFormed(name) /\ ~Contains(name, Slash)

VARIABLES
    cwd,        \* the panel's path, as Double Commander has it (UTF-16)
    here,       \* ghost: the device and the path it stands for
    handle,     \* the FindHandle: entries still to come, and whether it is open
    listed,     \* ghost: what there was to list, and how it is to be told
    rows,       \* what the panel shows
    warned,     \* serials named in the dialog of FsFindFirstW
    request     \* the last thing asked of a device, and ghost: what was meant
vars == <<cwd, here, handle, listed, rows, warned, request>>

Root     == <<Slash>>
NoHandle == [open |-> FALSE, entries |-> <<>>]
Nowhere  == [serial |-> <<>>, path |-> <<>>]
NoRequest == [op |-> "none", at |-> Nowhere, meant |-> Nowhere]

Init ==
    /\ cwd = Root /\ here = Nowhere /\ handle = NoHandle
    /\ listed = <<>> /\ rows = <<>> /\ warned = <<>> /\ request = NoRequest

\* Levels below the list of devices.
Depth ==
    IF here = Nowhere THEN 0
    ELSE IF here.path = Root THEN 1
    ELSE 1 + Len(Only(here.path, {Slash}))

-----------------------------------------------------------------------------
(* listDirectory's result: entries [name, mtime], with (ghost) what each is *)
(* on the device.                                                          *)

\* The adb server's line for a device (of its other fields, one on either side).
Product   == <<112, 58, 120>>        \* "p:x"
Transport == <<116, 58, 109>>        \* "t:m"
DevicesText(bus) ==
    FlattenSeq([i \in DOMAIN bus |->
        bus[i].serial \o <<Space, Space>> \o bus[i].state \o <<Space>> \o Product
        \o (IF bus[i].model = <<>> THEN <<>> ELSE <<Space>> \o ModelPrefix \o bus[i].model)
        \o <<Space>> \o Transport \o <<Newline>>])

UsableOn(bus)   == Only(bus, {d \in Range(bus) : d.state = Usable})
UnusableOn(bus) == Only(bus, {d \in Range(bus) : d.state # Usable})
DeviceRoot(d)   == [serial |-> d.serial, path |-> Root]

ListRootDevices(bus) ==
    LET usable == UsableOn(ParseDevicesL(DevicesText(bus)))
    IN  [i \in DOMAIN usable |->
            [name |-> DisplayNameForDevice(usable[i]), mtime |-> 0,
             of |-> DeviceRoot(UsableOn(bus)[i])]]

Warning(bus) ==
    LET bad == UnusableOn(ParseDevicesL(DevicesText(bus)))
    IN  [i \in DOMAIN bad |-> bad[i].serial]

AppendEntries(entries) ==
    LET real == Only(entries, {e \in Range(entries) : e.name \notin {<<Dot>>, <<Dot, Dot>>}})
    IN  [i \in DOMAIN real |->
            [name |-> real[i].name, mtime |-> real[i].mtime,
             of |-> [serial |-> here.serial, path |-> JoinWfxPath(here.path, real[i].name)]]]

-----------------------------------------------------------------------------
(* The find functions.                                                     *)

FillFindData(e) == Utf8ToWideBuf(e.name, MaxPath)

Row(e) == [units |-> FillFindData(e).units, date |-> TimeToFileTime(e.mtime), of |-> e.of,
           mtime |-> e.mtime]

\* Mutant: a name that does not fit ends the listing.
UpToTheFirstUnfit(entries) == IF entries # <<>> /\ FillFindData(Head(entries)).fits THEN entries ELSE <<>>

\* advanceFindData: the entries from the first one that fits.
Fitting(entries) ==
    LET first == SelectInSubSeq(entries, 1, Len(entries), LAMBDA e : FillFindData(e).fits)
    IN  IF first = 0 THEN <<>> ELSE SubSeq(entries, first, Len(entries))

\* A panel that has its path and no rows yet.
Unlisted == listed = <<>> /\ ~handle.open

\* The listing's failures leave the panel as an empty one does (Listing has them).
FsFindFirst(entries) ==
    LET fitting == Fitting(entries)
    IN  /\ IF fitting = <<>> THEN handle' = NoHandle /\ rows' = <<>>
           ELSE /\ rows' = <<Row(Head(fitting))>>
                /\ handle' = [open |-> TRUE, entries |-> Tail(fitting)]
        /\ request' = NoRequest
        /\ UNCHANGED <<cwd, here>>

OpenRoot(bus) ==
    /\ ParseWfxPath(WideToUtf8(cwd)).isRoot
    /\ FsFindFirst(ListRootDevices(bus))
    /\ warned' = Warning(bus)
    /\ listed' = [i \in DOMAIN bus |->
                    [of |-> DeviceRoot(bus[i]), name |-> DisplayNameForDevice(bus[i]),
                     row |-> bus[i].state = Usable]]

\* A directory whose name did not survive the way to the panel and back does not
\* open, or another one does; nothing is followed from there.
OpenDirectory(entries) ==
    /\ ~ParseWfxPath(WideToUtf8(cwd)).isRoot
    /\ request.at = here
    /\ FsFindFirst(AppendEntries(entries))
    /\ listed' = [i \in DOMAIN AppendEntries(entries) |->
                    [of |-> AppendEntries(entries)[i].of, name |-> AppendEntries(entries)[i].name,
                     row |-> TRUE]]
    /\ warned' = <<>>

FsFindNext ==
    LET fitting == Fitting(handle.entries)
    IN  /\ handle.open /\ fitting # <<>>
        /\ rows' = Append(rows, Row(Head(fitting)))
        /\ handle' = [handle EXCEPT !.entries = Tail(fitting)]
        /\ UNCHANGED <<cwd, here, listed, warned, request>>

\* Double Commander closes a handle after the FsFindNextW that returns false.
FsFindClose ==
    /\ handle.open /\ Fitting(handle.entries) = <<>> /\ handle' = NoHandle
    /\ UNCHANGED <<cwd, here, listed, rows, warned, request>>

-----------------------------------------------------------------------------
(* Calls on a row of a panel that is complete.                             *)

PathOf(r) == JoinWfxPath(cwd, r.units)
Asked(r)  == LET rp == ParseWfxPath(WideToUtf8(PathOf(r)))
             IN  [serial |-> rp.serial, path |-> rp.path]

Call(r, op, args) ==
    /\ ~handle.open /\ request = NoRequest
    /\ request' = [op |-> op, at |-> Asked(r), meant |-> r.of, args |-> args]
    /\ UNCHANGED <<cwd, here, handle, listed, rows, warned>>

\* The words of "rm -f ", "rm -rf " and "touch -c -d @t " in front of a path.
Rm        == <<114, 109>>
ForceFile == <<45, 102>>
ForceDir  == <<45, 114, 102>>
Command(words, path) ==
    FlattenSeq([i \in DOMAIN words |-> words[i] \o <<Space>>]) \o ShellQuote(path)

\* The key of the cached listing invalidatePathAndParent drops.
Drops(r) == ParentWfxDir(WideToUtf8(PathOf(r)))

DeleteFile(r) ==
    Call(r, "rm", [words |-> <<Rm, ForceFile, r.of.path>>, drops |-> Drops(r),
                   command |-> Command(<<Rm, ForceFile>>, Asked(r).path)])
RemoveDir(r) ==
    Call(r, "rmdir", [words |-> <<Rm, ForceDir, r.of.path>>, drops |-> Drops(r),
                      command |-> Command(<<Rm, ForceDir>>, Asked(r).path)])

\* The local name Double Commander asks for ends like the row.
GetFile(r) ==
    LET local == LocalDir \o WideToUtf8(r.units)
    IN  Call(r, "get", [local |-> local, temp |-> TempDownloadPath(local)])

\* FsSetTimeW, with the date Double Commander has from the row or from its user.
SetTime(r, ft, mtime) ==
    IF IsUnsetFileTime(ft) THEN UNCHANGED vars
    ELSE Call(r, "touch", [ticks |-> Ticks(ft), seconds |-> FileTimeToTime(ft), mtime |-> mtime])

\* The panel is opened for a row.
Enter(r) ==
    /\ ~handle.open /\ request = NoRequest
    /\ Depth < MaxDepth
    /\ cwd' = PathOf(r) /\ here' = r.of
    /\ handle' = NoHandle /\ listed' = <<>> /\ rows' = <<>> /\ warned' = <<>>
    /\ request' = [op |-> "list", at |-> Asked(r), meant |-> r.of]

\* And for the list of devices again.
GoToRoot ==
    /\ ~handle.open /\ cwd' = Root /\ here' = Nowhere /\ handle' = NoHandle
    /\ listed' = <<>> /\ rows' = <<>> /\ warned' = <<>> /\ request' = NoRequest

OnRow(i) ==
    \/ DeleteFile(rows[i]) \/ RemoveDir(rows[i]) \/ GetFile(rows[i]) \/ Enter(rows[i])
    \/ SetTime(rows[i], rows[i].date, rows[i].mtime)
    \/ \E ticks \in UserDates : SetTime(rows[i], Split(ticks), -1)

Next ==
    \/ Unlisted /\ \E bus \in Buses : OpenRoot(bus)
    \/ Unlisted /\ Depth = 1 /\ \E entries \in Listings : OpenDirectory(entries)
    \/ Unlisted /\ Depth > 1 /\ \E entries \in DeepListings : OpenDirectory(entries)
    \/ FsFindNext \/ FsFindClose \/ GoToRoot
    \/ \E i \in DOMAIN rows : OnRow(i)

Spec == Init /\ [][Next]_vars

-----------------------------------------------------------------------------
(* Properties.                                                             *)

\* What a call reaches is what its row was made from: the same device and the same
\* path, however its name is spelled; a removal has that path as one literal word of
\* the device's shell, and drops the listing the row was shown in from the cache.  Only
\* a name that is not UTF-8 cannot make the way back (utils.hpp, fsplugin.cpp).
PickedIsMeant ==
    /\ request # NoRequest /\ WellFormed(request.meant.path) =>
        /\ request.at = request.meant
        /\ request.op \in {"rm", "rmdir"} =>
              ShellWords(request.args.command) = [words |-> request.args.words, literal |-> TRUE]
    /\ request.op \in {"rm", "rmdir"} => request.args.drops = WideToUtf8(cwd)

\* A complete panel shows every entry once and in order, but for those whose name
\* does not fit, and names every device it cannot show (advanceFindData,
\* listRootDevices).
NameOf(x) == SubSeq(x.of.path, LastSlash(x.of.path) + 1, Len(x.of.path))
RowsAreTheListing ==
    ~handle.open /\ listed # <<>> =>
        LET Fits(x)  == x.row /\ Len(Utf8ToWide(x.name)) < MaxPath
            expected == Only(listed, {x \in Range(listed) : Fits(x)})
            unusable == Only(listed, {x \in Range(listed) : ~x.row})
        IN  /\ Len(rows) = Len(expected)
            /\ \A i \in DOMAIN expected : rows[i].of = expected[i].of
            /\ warned = [i \in DOMAIN unusable |-> unusable[i].of.serial]

\* Rows are well-formed UTF-16 that fits cFileName with its NUL, whatever bytes the
\* device sent, and the damage stays where the bad bytes are: but for replacement
\* characters, the row of a file is what is well-formed in its name, in order, nothing
\* swallowed by the bytes before it and nothing invented (decodeUtf8, utf8ToWideBuf,
\* fillFindData).
RowsAreReadable ==
    \A i \in DOMAIN rows :
        LET Whole(s) == Only(s, WholeUnits)
        IN  /\ WellFormedWide(rows[i].units) /\ Len(rows[i].units) < MaxPath
            /\ rows[i].of.path # Root => Whole(rows[i].units) = Whole(GoodCharacters(NameOf(rows[i])))

\* The file a download is written to stands beside its target, is another one, has
\* a name the file system takes, and no character of it is cut (tempDownloadPath).
\* Only a name of dots, as long as a name can be and with the suffix of a temporary
\* file, is its own temporary name.
TempNameIsGood ==
    request.op = "get" =>
        LET slash == LastSlash(request.args.local)
            base  == SubSeq(request.args.temp, slash + 1, Len(request.args.temp))
        IN  /\ SubSeq(request.args.temp, 1, slash) = SubSeq(request.args.local, 1, slash)
            /\ \A i \in DOMAIN base : base[i] # Slash
            /\ request.args.temp = request.args.local =>
                  /\ Len(base) = MaxFileNameBytes
                  /\ \A i \in 1..(Len(base) - Len(TempSuffix)) : base[i] = Dot
            /\ Len(base) <= MaxFileNameBytes /\ WellFormed(base)

\* The seconds sent with touch are those of the date the panel has, to the second:
\* the file's own when the date comes from its row, and also before 1970
\* (timeToFileTime, fileTimeToTime).
DateComesBack ==
    request.op = "touch" =>
        /\ request.args.mtime >= 0 => request.args.seconds = request.args.mtime
        /\ LET off == request.args.ticks - AtUnixEpoch - (request.args.seconds * TicksPerSecond)
           IN  -TicksPerSecond < off /\ off < TicksPerSecond
=============================================================================
