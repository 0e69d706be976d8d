# adb-wfx-plugin in TLA+

TLA+ models of the Double Commander plugin that shows Android devices through a
local adb server, the TLC runs that check them, and TLAPS proofs of the results
that hold for every value of the constants. `PROJECT.json` lists the runs, the
mutants, the source lines behind every definition, the findings and the hazards.

The plugin is header-only C++ under one shim: `fsplugin.cpp` exports the WFX
functions, `fsplugin_impl.hpp` (PluginCore) does the work, `adbclient.hpp` speaks
the adb sync and shell protocols over `transport.hpp`, `adbutils.hpp` keeps the
listing cache. Two of its properties are repeated all over the source: *a copy
never carries a wrong date*, and *nothing is reported that did not happen*.

## 1. Inventory

| component | state | operations | who it talks to |
|---|---|---|---|
| `TcpTransport` (transport.hpp) | socket, `lastError_`, stall callback | connectTo, writeAll, readExactly, readSome, setStallCallback, close | kernel and adb server; the callback runs Double Commander's code |
| `AdbClient` (adbclient.hpp) | none between calls; a transport per session | listDevices, syncList, syncStat, syncRecv, syncSend, shellCommand | one new connection per operation |
| PluginCore transfers (fsplugin_impl.hpp:505-740) | local files | getFile, putFile | several sessions in a row, local file system |
| PluginCore device operations (742-924, 1069-1219) | files on the device | renameOrMove, setModificationTime, deleteFile, removeDir, makeDir | STAT sessions and shell commands |
| `ListingCache` and listDirectory (adbutils.hpp:88-185, fsplugin_impl.hpp:419-475) | listings with the time they were stored | get, put, invalidate, clear | panel thread and worker thread share it |
| `fsplugin.cpp` | the one AdbClient and PluginCore, callbacks, find handles | the `Fs*W` exports | Double Commander |
| adbserver.hpp | a child process while FsInitW runs | port, search for `adb`, spawn, wait | FsInitW; the adb server |
| codec (adbproto.hpp) | none | framing of host requests and sync packets | AdbClient |
| UTF and FILETIME (utils.hpp), device names, WFX paths, quoting, temporary names (adbutils.hpp and statics of fsplugin_impl.hpp) | none | pure functions | every name and date that crosses the border |
| scripts/install.sh, register_plugin.py | the plugin file, doublecmd.xml, their backups | install, register | Double Commander, which rewrites the file on exit |

What is hard here, and what makes each part correct:

- **Transport.** Every call can be cut by EINTR, a timeout, a partial transfer; the
  retry loops are nested and both read errno after running foreign code. Correct:
  exact byte counts, end of stream only at the end, a user's Cancel obeyed.
- **getFile.** STAT, RECV and `rm` are three sessions; the remote file may change
  between them and the local side can fail or die at any step. Correct: OK means a
  whole, dated copy; anything else leaves the user's file alone; a move removes its
  source last; an old local file is never seen half overwritten.
- **putFile.** adbd refuses and hangs up while packets are still in the buffers.
  Correct: OK only on a whole file with its date, adbd's own reason in the message,
  no declined overwrite.
- **Listing cache.** Reads, stores and invalidations of two threads in any order, on a
  clock that is not monotonic. Correct: the plugin's own changes show, nothing is
  served for longer than its time to live.
- **Device operations.** Check, then act, in different sessions, with commands whose
  only result is the text they print. Correct: OK means exactly the change asked for.
- **Names.** A row of a panel is UTF-16 cut to a buffer, made from bytes the device
  chose; its path comes back as text, is taken apart into a serial, a path and a parent,
  quoted for a shell, or cut for a temporary file. Correct: the file picked is the file
  touched, and nothing shown is malformed.
- **Start.** FsInitW may be called again; it deletes a client a core still refers to,
  forks, waits, and anything may throw. Correct: no core without its client, no child
  left behind, the first adb in the documented order.
- **Conversations.** Every length on the wire is the other end's word, and the stream
  may end after any byte. Correct: requests arrive whole or not at all, an answer that
  was cut is never a good one, every call returns.
- **Installer.** Two files replaced in several steps on a disk that may be full, beside a
  Double Commander that writes one of them when it quits. Correct: nothing overwritten
  without a backup, the configuration always whole, other plugins' entries kept.

## 2. The modules

    TransportContract <-- refines -- Transport          what one blocking call promises
          ^ (a blocking call is one step of these)
      Download   Upload   Listing   DeviceOps           PluginCore with AdbClient and the device

      Startup <-- Session                               FsInitW; the conversations of its client
      Unicode <-- Paths <-- Panel --> FileTime          names and dates, through the find functions
      Selection <-- Installer, Paths                    the two scripts and Double Commander

Between them the first modules split a PluginCore operation along what it depends on:
Download and Upload take a transfer packet by packet, DeviceOps takes a session
as one step and looks at the files, Listing takes an operation as "takes effect,
succeeds or fails" and looks at the cache. No state is shared between the last
two in the code but the cache, which only Listing has.

**Transport.tla** is one thread in `writeAll`, `readExactly` or `readSome`. `pc` is
the loop it is in: `attempt` (inside send or recv), `retry` (retryOnEintr), `loop`
(loopTransfer); a step is one kernel call or one decision. `errno`, `lastError`,
`hook` (a callback is installed) and `stop` (what it would answer) are state;
the callback may leave any errno. **TransportContract.tla** is the abstract
specification: bytes move, and a call ends by success, end of stream (only when
the peer is gone), refusal (only when the callback said stop) or failure.

**Download.tla** is `getFile` with `syncStat`, `openSyncTransport`, `syncRecv` and the
`rm` of a move. `pc` follows the function: stat, restat (through a link), open
(direct or temp file), connect, request, header / payload / failBody / write (the
packet loop), cleanup, rename, stamp, delete. A file is a record of the remote
version its bytes come from, how many of its packets it holds, and its date.
Beside the thread run the device (RemoteEdited, SleepsOrWakes, AdbdOpens), the user
(UserCancels) and the end of the process (Crash, Restart).

**Upload.tla** is `putFile` with `syncSend`, and an adbd that runs beside it:
packets wait in `chan` (at most `Window`), adbd takes them one by one, may refuse
any and leave; the client's final read, its look for a pending FAIL after a broken
write, and the stall callback are steps of their own. `Wrap` is 2^32: the DONE
packet's mtime is taken modulo it.

**Listing.tla** is `ListingCache` with `listDirectory` in several panel threads (Hit,
Miss, CheckIsDirectory, ThroughSymlink, SyncList, Store, ListFails) and a worker
(Begin, TakesEffect, Succeeds or Fails, Drop per invalidation, Finish; Clear for
FsStatusInfoW and FsDisconnectW). A directory is a version number, a listing the
version it was read at, an entry's age what the clock would say; `Tick` and
`ClockSetBack` move the clock.

**DeviceOps.tla** is `renameOrMove` (runDeviceMove, runDeviceCopy),
`setModificationTime` with its two forms of touch, and the three simple commands,
with the codes the exports return. The STAT of the target, the STAT of the source,
the command, the STAT before the touch and each touch are separate steps. mv, cp,
rm, mkdir and touch are modelled as sets of outcomes from what the code relies on
them to do; they can also fail half way, and a command that never ran can look
like one that had nothing to say (shellCommand takes a clean end of stream as the
end of the command).

**Startup.tla** is FsInitW with adbserver.hpp. `init` is the step it is at; the child
runs beside it, and any step that may throw may do so. What is installed may change
between two calls, the environment variables may not. **Session.tla** extends it:
listDevices, syncList, syncStat and shellCommand are held by the client FsInitW made,
over a connection to a port somebody listens on or not. The stream is a sequence of
tokens - one for a character, a hexadecimal digit, a 32-bit number, a four-letter word -
so that every length, and every place where it can be cut, is there. `pc` is the read or
write the client is in, `want` the size of its buffer. The other end (`mode`) reads
`out`, serves what it understands, refuses, sends `Garbage`, or breaks at any token.

**Panel.tla** is the find functions of fsplugin.cpp and the calls on a row. It runs the
conversions in the order the calls make them and keeps, beside every row, the device, the
path and the date the row was made from (`of`, `mtime`); `request` has what reaches the
device and what was meant. The conversions are functions of sequences of numbers:
**Unicode.tla** (with the standard's own table as a reference definition), **Paths.tla**
(host:devices-l and display names, WFX paths and parents, temporary names, shellQuote, and a
reader of POSIX words as the device's shell is one) and **FileTime.tla**.

**Installer.tla** is install.sh and register_plugin.py. The disk maps names to contents. A
cp is two steps, open-and-truncate and fill; os.replace is one. `inst` is where the run
under way stands; it can fail, be interrupted, or lose its host at any step. Double
Commander starts, gets a plugin added by its user, and quits, at any moment.

Code that is not the plugin's (adbd, toybox, other apps, the user, the clock, the
link) is marked external in the map.

## 3. The runs

All are exhaustive for their bounds. `Spec` is used when only safety is checked.

| run | instance | distinct states | checks |
|---|---|---|---|
| transport | 3 bytes, 2 EINTR | 33,000 | TypeOK, ExactCount, ImplementsContract, StopIsHeeded, SettledLinkReturns |
| download | versions of 2, 1 and 0 packets and no file, 2 calls, 1 crash | 251,220 | TypeOK, OkIsWhole, FailureChangesNothing, DateIsFromTheFile, SourceGoesLast, ReplaceIsAtomic, CancelLeavesTransfer |
| upload | versions of 2, 3 and 1 packets, window 2, dates inside and outside 32 bits | 40,232 | TypeOK, OkIsWhole, DateArrives, ExistingIsKept, SourceGoesLast, AnswerIsHonest, CancelLeavesTransfer |
| listing | 2 panels, a directory and a linked one beneath it, TTL 2 | 2,137,845 | TypeOK, OwnChangesShow, ServedIsYoung |
| device_ops | 2 files on a device (one with two names), 1 on another | 1,016,930 | TypeOK, AnswerIsTrue, ExistingIsKept, CopyKeepsSource |
| panel | 4 sets of devices, 3,380 listings, 2 levels | 222,620 | PickedIsMeant, RowsAreTheListing, RowsAreReadable, TempNameIsGood, DateComesBack |
| session | 7 environments, 7 operations, 2 calls of FsInitW, 1 signal | 220,708 | TypeOK, RequestsArriveWhole, AnswerIsTheDevices, CoreHasItsClient, StartIsClean, CallsReturn |
| installer | 2 builds and a foreign one, 4 configurations, 2 runs, 2 seconds | 2,077,703 | ConfigIsWhole, OverwrittenSurvives, RegisteredStays |
| download_link_date, download_stall_cancel, upload_date, listing_failure | smaller instances of the same modules | | one property each, violated: section 6 |

Why the bounds are enough to show something:

- *transport*: three bytes allow two partial transfers before the last one, so an
  attempt can fail with some, none or all of the request moved; two EINTR hit both
  the inner and the outer loop in one call.
- *download*: two packets give a file that is partly there; a second version of
  another length tells a mixed file from a whole one; the second call starts from
  whatever the first left, the one crash included.
- *upload*: the window is smaller than the longest version, so the client blocks
  on a full buffer; the file both grows and shrinks between two versions.
- *listing*: the defects are orders of read, store and invalidate, for which two
  panels, one worker and two directories are enough: each directory changes once,
  and the versions only tell "before" from "after". The two panels are
  interchangeable (symmetry; no liveness is checked there).
- *device_ops*: calls in any number; a move between two files, a copy onto another
  name of its source and a refused one to another device all occur. Other apps
  touch one of the two files: the other plays each role without interference. One
  of the two dates of contents is beyond what `touch -t` can express.
- *panel*: names hold one byte on either side of every boundary of the standard's table, in
  every order up to three bytes and the relevant ones of four, and all pairs of pieces a
  conversion treats apart (apostrophe, blank, newline, two- and four-byte characters, a
  lone continuation, a surrogate). MAX_PATH is 12 units and a file name 11 bytes, with names
  just under, at and past each, also with a pair or a character across the limit. A FILETIME
  has words of 6 values, two ticks a second and 1970 at tick 8, so dates fall before, at
  and after it and between seconds, and the product is larger than one word.
- *session*: lengths are two digits of base three, so eight characters fit a request and a
  command of eight with its service name does not; paths and refusals go up to and past
  their limits of 3; garbage has wrong lengths and words at each place a length or a word
  is read. Ports 0, 1, 2 and 3 with a largest one of 2 lie on all sides of the range.
- *installer*: two runs within one second or not tell colliding backups from others; with
  two builds the second run overwrites what the first installed; the configurations have no
  entry, one of another plugin, one of this plugin, and two of it under other names.

**Fairness.** The thread is a thread of a running process, and each step the models
give it is either local or a kernel call that returns: weak fairness of `Step` in
Transport (send and recv have timeouts, so an attempt ends in data, an error or
EAGAIN; `UserDecides` and `LinkChanges` are not fair), and of `ThreadRuns` in Download
and Upload. `ThreadRuns` leaves out every step where the surroundings do the thread a
disservice - a connection that breaks, a disk that is full, adbd's answers, a
device that wakes up - so no liveness property is owed to a failure that need not
come. A device may sleep for ever. In Session the thread is fair in the same sense
(`InitRuns`, `ClientRuns`), `ChildExits` because `adb start-server` ends, and `PeerSettles`
because the other end answers or its connection ends: these conversations install no stall
callback, so with a device that says nothing for ever they do not return, and CallsReturn
does not claim it. Listing, DeviceOps, Panel and Installer promise no progress, and have
no fairness.

## 4. The properties

The definition's comment states each one. The ones the project is about:

- `ImplementsContract`: the nested loops of TcpTransport implement TransportContract;
  in particular a stalled read never looks like an end of stream, which would make
  a truncated download or a cut command pass for a complete one.
- `OkIsWhole` (both directions), `DateIsFromTheFile`, `DateArrives`: OK means a whole
  file with a date it had. A download is dated from a STAT made *before* the
  transfer; the property shows that this makes a copy look older than its contents at
  worst, never newer.
- `FailureChangesNothing`, `ReplaceIsAtomic`, `SourceGoesLast`, `ExistingIsKept`: what
  failures, crashes and declined overwrites may not destroy.
- `CancelLeavesTransfer`, `StopIsHeeded`: Cancel ends a transfer, with a device that
  never answers again.
- `OwnChangesShow`: a finished change of the plugin is in every listing it serves from
  the cache, whatever two panels were doing, with one exception: a listing that was
  being read at the moment of the invalidation and is stored after it. The code does
  not prevent that; the exception is exactly that wide, and `ServedIsYoung` bounds how
  long such a listing lives.
- `AnswerIsTrue`: the answer of a device operation is what happened on the device, with
  the date of a copy; its exceptions are named in its comment: other apps
  on the same two files, a silently lost command, a folder as target of a file, and a
  copy onto another name of its source, which only cp itself can notice.
- `PickedIsMeant`: a call on a row reaches the device and path the row was made from,
  whatever the name is made of, and the commands of a removal (rm, rmdir) have that path as
  one literal word of the device's shell. The words of the other commands are not looked at.
  Excepted is a name that is not UTF-8, which is shown with replacement characters and cannot
  come back; the exception is part of the formula.
- `RowsAreReadable`: rows are well-formed whatever bytes came and fit their buffer, and bad
  bytes cost nothing but themselves: without replacement characters, the row of a file is the
  well-formed characters of its name (`GoodCharacters`, by the standard's table), in order. The
  row of a device is a text the plugin composes and has only to be well-formed and to fit.
- `RowsAreTheListing`: every entry once and in order, except those whose name does not fit
  `cFileName`, and every device that cannot be used is named. A device too has to fit: the
  property says so since a proof of it without that clause failed.
- `TempNameIsGood`: a download's temporary file is another file than its target, with one
  exception, a name of dots that ends in the suffix of temporary files and is as long as a
  name can be: cutting it for the suffix gives the name itself.
- `RequestsArriveWhole`, `AnswerIsTheDevices`: no other reading of what the client writes,
  and no cut reply that passes for a whole one; only a command's output has no last byte to
  tell.
- `CoreHasItsClient`, `StartIsClean`: hold through a second FsInitW whatever throws in it,
  because of the order in which the old core and client are dropped.
- `ConfigIsWhole`, `OverwrittenSurvives`, `RegisteredStays`: what the installer promises in its
  own comments, over failures, interruptions and repeated runs. ConfigIsWhole is an action
  property: no step takes doublecmd.xml away once it is there, or leaves a part of a file in its
  place. OverwrittenSurvives excepts single contents, which `lost` collects: those of a backup
  that another one of the same second replaces, and those a Double Commander writes between the
  registrar's backup and its replacement. RegisteredStays excepts a Double Commander that starts
  after the check (or is not seen, without pgrep) and overwrites the registration when it quits.

## 5. What is proved

TLAPS checks these for every value of the constants that satisfies the module's
assumptions, which say what kind of value a constant is and no more: sizes are naturals,
maps have the right domains (`TransportAssumption`, `DownloadAssumption`,
`ListingAssumption`, `UploadAssumption`), dates a user can have are dates
(`DeviceAssumption`), entries of doublecmd.xml have a name and a path, and the plugin the
user may add is another one (`InstallerAssumption`); ports are naturals, places are
directories (`StartupAssumption`); a request is a sequence of characters, a text the
device frames fits its length field and a directory entry is not the answer for a missing
file (`SessionAssumption`, `PeerAssumption`). Each proof is by one inductive invariant,
and states its properties for any number of steps, calls, runs and failures.

**TransportProofs** (`TypeCorrect`, `CountIsExact`, `TransportImplementsContract`).
`IInv == TypeOK /\ CallShape /\ WireCount /\ CauseKnown`. `ExactCount` is not inductive:
the count of the pending attempt sits in `result` until the loop adds it, so `WireCount`
says at each `pc` what `wire` is in terms of `done` and `result`; `CauseKnown` ties an
errno or a zero result to its reason (peer gone, or callback said stop), which the
refinement needs when a call ends several steps later; `CallShape` says that a call in
progress has a byte left to move. The refinement is Init to Init
and each step to a step or a stutter of the contract.

**DownloadProofs** (`TypeCorrect`, `DownloadIsWhole`, `FailedDownloadChangesNothing`,
`SourceIsDeletedLast`, `DownloadReplacesAtomically`, `DownloadKeepsTheDate`).
`IInv == TypeOK /\ BeforeOpen /\ WritesAside /\ HoldsWhatWasSent /\ Finished /\ Outcome`:
until the open nothing local has changed; while it is open the file written to
is aside unless there was none before; it holds exactly the packets adbd sent so far of the one
version it serves; after DONE that is all of them; what a returned call left is what
its code says. The date needs a second invariant, `DateInHand`, over the first: the
statted date lies between the version at the start of the call and the one served.
`DownloadReplacesAtomically` is an action property, from the invariant in both states.

**ListingProofs** (`TypeCorrect`, `OwnChangesAreShown`, `ServedAreYoung`).
`IInv == TypeOK /\ OwnIsPast /\ OwnIsFresh /\ MadeIsDropped /\ AgesAreClose`. `Fresh(q, n)`
says that the cache entry of q, and every panel's reading of q in flight, is at
version n or later or is marked as overtaken. The lemma `FreshStays` shows that every
step keeps it; `MadeIsDropped` shows that while a worker invalidates, the directories
it has changed are fresh or still to be dropped (`PathAndParentCovers`: the path and its
parent are all the listings an operation shows in), which becomes `OwnIsFresh` at
Finish. `AgesAreClose` bounds the difference of wall-clock age and real age by what
the clock was set back.

**UploadProofs** (`TypeCorrect`, `OkMeansWholeUpload`, `UploadKeepsDate`,
`UploadAnswersAreTrue`, `UploadKeepsExisting`, `SourceIsUnlinkedLast`).
A packet is with the client, in the buffers or in adbd's file, and OkIsWhole speaks of the
file only, so `IInv` follows it: `PacketsInOrder` (SEND first, DONE last, chunks of one
version or later between them), `NoneLost` (what was sent is what adbd holds and what is in
the buffers), `Progress` and `RemoteFile` (what client and adbd have come to), `MayWrite`
(who is past the remote STAT may overwrite, or has nothing to), `Outcome` (OK means that
OKAY was read). ExistingIsKept is about packets adbd takes when the client may long have
given up, for which MayWrite is stated of the buffers and not of the client.

**DeviceOpsProofs** (`TypeCorrect`, `DeviceAnswersAreTrue`, `DeviceKeepsExisting`,
`CopiesKeepTheirSource`). `IInv` says at each `pc` what was done so far, outside of what
other apps meddled with: nothing up to the command (`Untouched`), afterwards everything but
the date (`OnlyDateMissing`), and the date in hand is the source's before the copy
(`DateInHand`); `StoppedInTime` shows that a call that may not overwrite does not come
past its check when there is something to overwrite; `Route` which call comes by which step.

**InstallerProofs** (`ConfigurationStaysWhole`, `BackupsSurvive`, `RegistrationStays`).
`PluginKept` and `ConfigKept` say what a backup holds at each `pc` from its opening to the
replacement: a torn backup exists only while it is filled, and then its run has overwritten
nothing. `BackupsKept` strengthens OverwrittenSurvives to backups, which only a run of
the same second writes to again (`Names`: no backup has the name of a file that is overwritten). `ConfigNotTorn` is the state part of ConfigIsWhole; no action gives doublecmd.xml
up, since os.replace is one step. `EntriesKept` relates
three lists of entries - doublecmd.xml's, the running Double Commander's and the
registrar's - to what the user wants; the lemmas about lists (`OnlyAppend`, `OnlyOf`,
`OnlyAgain`, `Registered`) say that dropping this plugin's entries and adding one leaves the
others as they were, for lists of any length.

**SessionProofs** (`HexRoundTrip`, `TypeCorrect`, `RequestsArrive`, `AnswersAreTheDevices`,
`CoreAlwaysHasItsClient`, `StartAlwaysClean`). `IInv == StartupInv /\ SessionInv`.
`StartupInv` says where FsInitW stands with its child, its core and the port both ends
read off one variable. `SessionInv` is about streams: `TakesTurns` says that while the
connection is up either a request is on its way, or its OKAY, or an answer, and nothing
else; `HeardIsMeant` that what the other end took for requests is a beginning of what the
operation means. AnswerIsTheDevices is not inductive, since it only speaks of calls that have
returned: `AnswerIsCarried` says for every `pc` that what the client has read, put in front
of what is on its way, begins what the device said, and is all of it unless the stream was
cut. That a framed request is read back as written rests on `HexRoundTrip`: parseHexLength
inverts the length field for every base, number of digits and length that fits.

**PanelProofs** (`DatesComeBack`, `RowsStayReadable`, `RowsShowTheListing`,
`TempNamesAreGood`, `PicksAreMeant`), under `PanelAssumption` - a device is a line of words,
listings have names without NUL and slash and dates a FILETIME can hold, downloads go to a
directory -, `SpelledAssumption` - the display name of a device is UTF-8 without a slash; adbd
gives models in letters, digits and underscores, serials are ASCII, and only `PicksAreMeant` uses it -,
`PathsAssumption` - the suffix of temporary files is ASCII without a slash and leaves room for a
byte of the name - and `FileTimeAssumption`. `IInv == TypeInv /\ DateComesBack`; `TypeInv` says
of every row that it is the row of an entry that fits the buffer. What is hard is in the lemmas:

- `DateRoundTrip` and `WithinASecond` split a FILETIME into its words and ticks for every word
  size and resolution.
- `Utf8ToWideIs`: for every sequence of bytes, Utf8ToWide makes well-formed UTF-16 with exactly
  the ASCII characters of the input. decodeUtf8 steps by what it finds, so that `Chained` orders
  the places it stops at, and `Backwards` goes from the last of them to the first: what was made
  of the bytes from there on is well-formed. `WideToUtf8Is` goes the other way alike: whatever
  units DC passes, the path is well-formed UTF-8.
- `Undamaged`: the argument for RowsAreReadable. Where a character of the standard's table
  begins, decodeUtf8 takes all of it for the code point it encodes (`DecodesBack`, `CodedBack`);
  where none begins, it puts one replacement, and what it takes behind that place are
  continuation bytes, at which no character begins (`DecodedChar`). The two ways through the
  text, of the decoder by characters and of the reference byte by byte, then pass the same
  characters, from the last to the first.
- `WellFormedIs`: a text is well-formed when it has a set of `Boundaries`, each one or the end
  the next of the one before. A cut that Utf8TruncatedLength makes is at such a boundary
  (`WellFormedCut`), the suffix after it is well-formed by itself, and so is the name of the
  temporary file. `DotsOnly` is the argument for the exception: a name that is equal to what
  remains after cutting it and adding the suffix is dots before the suffix.
- `Parsed`: ParseDevicesL reads back every device the server wrote, for any number of devices
  and any words. `Reads` follows the two readers (lines of the text, fields of a line) word by
  word; a word grows until a separator ends it.
- `FittingOnly`: the entries advanceFindData skips and those `Only` leaves out are the same, so
  that the invariant `ToldIsListed` holds: the rows there are, and the fitting entries still in
  the handle, are together what is expected of the listing. A closed handle has no entries, and
  the rows are then all of it.
- `RoundTrip`: a well-formed name comes back from UTF-16 as it was. Each character decodes to
  what encodes to it, the `Boundaries` order the characters, and the second surrogate of one is
  never taken for the first of the next. `ReadQuoted`: the device's shell, one character at a
  time (`ShellStep`), reads a quoted word back and ends it where the quoting does; `RemovalReads`
  is that for the two removals, whatever bytes the path is made of. `SerialBack` finds the serial
  again in the display name of a device, `ParseTop` and `ParseDeeper` what a panel's path with
  a name behind it stands for, and `ParentBack` the listing it came from.

PickedIsMeant speaks of the last call only, and is not inductive: what a call reaches depends on
the way the panel came. `MeantInv` adds that every row and every entry in the handle was made
in `here` (`MadeAt`), and `Anchored`: the panel's path is well-formed UTF-16 and names `here`, or
the panel is being opened for a row whose name was not UTF-8 and shows nothing yet. That second
case is why `Anchored` has a disjunction: Double Commander then stands where no listing can be
opened, and only going back to the root is left.

Where a definition is recursive (the length field, a directory's entries in a stream, the
entries left of a list) its values are found by induction. The library's induction theorems
cannot be instantiated here; the lemma `Counting` states the principle for a set of numbers
instead of a predicate, and is proved from the pigeonhole principle of FiniteSetTheorems.

**Only model-checked**: liveness (`StopIsHeeded`, `SettledLinkReturns`,
`CancelLeavesTransfer`, `CallsReturn`), which is beyond the prover. Every safety invariant that
a run checks is stated by a theorem.

## 6. Findings

Each is a run whose one property is what the repository says of itself, and which
TLC refutes. Line numbers and quotations are in `PROJECT.json`.

1. *download_link_date*: the second STAT, through `link/.`, works for links to
   directories only; a download through a link to a file gets the date of the link.
2. *download_stall_cancel*: a stall cancelled inside the body of a FAIL comes back as
   an I/O error.
3. *upload_date*: a local date outside 0 .. 2^32 - 1 is sent wrapped, with FS_FILE_OK.
4. *listing_failure*: an operation that took effect and failed afterwards (output,
   a broken connection, a FAIL) invalidates nothing; a panel keeps seeing the listing
   from before it until it expires.

Shown by the models and not counted as disagreements, because the code names them or
cannot do otherwise: the cache race above; a directory that vanishes between STAT and
LIST is cached as empty; the move that deletes a version written after RECV; a copy
onto another name of the same file; a file put at the target between the check and
the command; the file a crash leaves behind; a Double Commander that starts while the
registrar runs.

Read in the code while modelling it, and small: writeAll stores its "cancelled" text at
every timeout, also at one it waits through, and a later end of stream is then reported
with it (transport.hpp:264); syncRecv installs the stall callback after the handshake, so
that part of a download cannot be cancelled (adbclient.hpp:463), and neither can a listing
or a command; readPendingSyncFail takes a FAIL whose body is cut for a complete one
(adbclient.hpp:243-247); the comment at utils.hpp:61-64 says that malformed input advances
one byte, while an overlong form or a surrogate advances by its announced length
(106-109); removing the row of a device runs `rm -rf /` there (fsplugin_impl.hpp:749);
two downloads at once whose long names are cut to the same one share a temporary file;
install.sh fills the plugin file in place while a running Double Commander may have it
mapped (259); the registrar does not fsync before os.replace; sizes of 4 GiB and more come
wrapped from the sync protocol; a cache key is a spelling, so a change made under `/sdcard`
does not drop the listing of `/storage/emulated/0`.

## 7. Not modelled

Vendored SDK headers, build and release scripts, tests. In the modelled parts: the order of
the four bytes of a number; the wording of messages, device states and dialogs beyond
what a property tells apart (a state of several words is its first one, and a device has a
serial number without blanks: `Words` has no others, and parseDevicesL would cut one at the blank); FsGetDefRootName and progress percentages; option parsing and
the reading of a library's header in install.sh (its verdict is `Foreign`); the layout of the
XML around the entries; file modes; a power failure that loses what was written but not
synced (HostStops keeps it); two plugin operations at once on one file (Double Commander's
worker runs one at a time). A failed listing, on which FsFindFirstW shows an error or an
empty panel, is in Listing and not in Panel. The codec of sync SEND and RECV is packets in
Upload and Download, and tokens only in Session.

## 8. Plan

Every component of the plugin has a module, and every module a proof of each of its safety
properties. What could still be added:

- Failed and cancelled listings in Panel, which Listing has alone, so that the path a panel
  keeps after an error is part of PickedIsMeant.
- The bytes of SEND and RECV in Session, so that the packets of Upload and Download become
  a refinement of the stream and not a second reading of the same code.
