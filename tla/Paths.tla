------------------------------- MODULE Paths -------------------------------
(***************************************************************************)
(* The names the plugin makes and takes apart (adbutils.hpp, adbproto.hpp  *)
(* and the static helpers of fsplugin_impl.hpp): the text of host:devices-l*)
(* and the display names made from it, WFX paths, the words of a shell     *)
(* command, the name a download is written under.  Bytes are numbers.      *)
(***************************************************************************)
EXTENDS Unicode, Selection

Tab == 9
Newline == 10
CR == 13
Space == 32
Apostrophe == 39
Open == 40
Close == 41
Dot == 46
Slash == 47
Backslash == 92

CONSTANTS
    MaxFileNameBytes,   \* MAX_FILE_NAME_BYTES, scaled down
    TempSuffix          \* TEMP_DOWNLOAD_SUFFIX and the pid
ASSUME PathsAssumption ==
    /\ MaxFileNameBytes \in Nat
    /\ TempSuffix \in Seq((1..127) \ {Slash}) /\ Len(TempSuffix) \in 1..(MaxFileNameBytes - 1)

\* The maximal non-empty runs of s without a separator: what splitFields makes
\* of a line, and the loop over lines of parseDevicesL of the text (an empty
\* line holds no device).
Runs(s, separators) ==
    LET acc[i \in 0..Len(s)] ==
            LET before == acc[i - 1]
            IN  IF i = 0 THEN [all |-> <<>>, run |-> <<>>]
                ELSE IF s[i] \notin separators THEN [before EXCEPT !.run = Append(@, s[i])]
                ELSE IF before.run = <<>> THEN before
                ELSE [all |-> Append(before.all, before.run), run |-> <<>>]
        end == acc[Len(s)]
    IN  IF end.run = <<>> THEN end.all ELSE Append(end.all, end.run)

-----------------------------------------------------------------------------
(* Devices.                                                                *)

ModelPrefix == <<109, 111, 100, 101, 108, 58>>      \* "model:"
Usable      == <<100, 101, 118, 105, 99, 101>>      \* "device"

TrimTrailingWhitespace(s) ==
    SubSeq(s, 1, Max({0} \cup {i \in DOMAIN s : s[i] \notin {Space, Tab, CR, Newline}}))

SplitFields(line) == Runs(line, {Space, Tab})

\* parseDevicesL.  Its header line belongs to the output of the adb command; the
\* service does not send it.
ParseDevicesL(text) ==
    LET fields   == [i \in DOMAIN Runs(text, {Newline}) |->
                        SplitFields(TrimTrailingWhitespace(Runs(text, {Newline})[i]))]
        devices  == Only(fields, {f \in Range(fields) : Len(f) >= 2})
        Model(f) == LET m == SelectLastInSubSeq(f, 3, Len(f), LAMBDA x : IsPrefix(ModelPrefix, x))
                    IN  IF m = 0 THEN <<>> ELSE SubSeq(f[m], Len(ModelPrefix) + 1, Len(f[m]))
    IN  [i \in DOMAIN devices |->
            [serial |-> devices[i][1], state |-> devices[i][2], model |-> Model(devices[i])]]

DisplayNameForDevice(d) ==
    IF d.model = <<>> THEN d.serial
    ELSE d.model \o <<Space, Open>> \o d.serial \o <<Close>>

SerialFromDisplayName(n) ==
    LET opens == {i \in 1..(Len(n) - 1) : n[i] = Space /\ n[i + 1] = Open}
        start == Max(opens) + 2
    IN  IF n = <<>> \/ Last(n) # Close \/ opens = {} \/ Len(n) <= start THEN n
        ELSE SubSeq(n, start, Len(n) - 1)

-----------------------------------------------------------------------------
(* WFX paths.                                                              *)

ParseRemotePath(w) ==
    LET start == IF w[1] = Slash THEN 2 ELSE 1
        next  == SelectInSubSeq(w, start, Len(w), LAMBDA c : c = Slash)
    IN  IF w \in {<<>>, <<Slash>>}
        THEN [isRoot |-> TRUE, serial |-> <<>>, path |-> <<Slash>>]
        ELSE IF next = 0
        THEN [isRoot |-> FALSE, serial |-> SubSeq(w, start, Len(w)), path |-> <<Slash>>]
        ELSE [isRoot |-> FALSE, serial |-> SubSeq(w, start, next - 1),
              path |-> SubSeq(w, next, Len(w))]

ParseWfxPath(w) == [ParseRemotePath(w) EXCEPT !.serial = SerialFromDisplayName(@)]

JoinWfxPath(dir, leaf) ==
    IF dir # <<>> /\ Last(dir) = Slash THEN dir \o leaf ELSE dir \o <<Slash>> \o leaf

LastSlash(w) == SelectLastInSeq(w, LAMBDA c : c = Slash)

ParentWfxDir(w) == IF LastSlash(w) <= 1 THEN <<Slash>> ELSE SubSeq(w, 1, LastSlash(w) - 1)

\* Mutant: the name is cut to the budget, wherever that falls.
CutAnywhere(s, maxBytes) == IF Len(s) <= maxBytes THEN Len(s) ELSE maxBytes

\* How much of a name tempDownloadPath keeps.
KeptLength(s, maxBytes) == Utf8TruncatedLength(s, maxBytes)

TempDownloadPath(localPath) ==
    LET dir    == SubSeq(localPath, 1, LastSlash(localPath))
        base   == SubSeq(localPath, LastSlash(localPath) + 1, Len(localPath))
        budget == Max({0, MaxFileNameBytes - Len(TempSuffix) - 1})
    IN  dir \o <<Dot>> \o SubSeq(base, 1, KeptLength(base, budget)) \o TempSuffix

-----------------------------------------------------------------------------
(* Shell words.                                                            *)

\* Mutant: an apostrophe is escaped with a backslash inside the quotes.
BackslashInQuotes(c) == IF c = Apostrophe THEN <<Backslash, Apostrophe>> ELSE <<c>>

\* One character of shellQuote.
Quoted(c) ==
    IF c = Apostrophe THEN <<Apostrophe, Backslash, Apostrophe, Apostrophe>> ELSE <<c>>

ShellQuote(arg) ==
    <<Apostrophe>> \o FlattenSeq([i \in DOMAIN arg |-> Quoted(arg[i])]) \o <<Apostrophe>>

\* The shell on the device, as POSIX describes it: the words of a command line,
\* and whether it has to do anything but split it (expand, redirect, run another
\* command, ask for the rest of a quotation).
Plain == (97..122) \cup (65..90) \cup (48..57) \cup {Slash, Dot, 45} \cup (128..255)
NothingRead == [words |-> <<>>, word |-> <<>>, open |-> FALSE, mode |-> "bare", literal |-> TRUE]
Put(st, c)  == [st EXCEPT !.word = Append(@, c), !.open = TRUE]
Finish(st)  ==
    IF st.open THEN [st EXCEPT !.words = Append(@, st.word), !.word = <<>>, !.open = FALSE] ELSE st

\* One character of the line.
ShellStep(st, c) ==
    IF st.mode = "quoted"
    THEN IF c = Apostrophe THEN [st EXCEPT !.mode = "bare"] ELSE Put(st, c)
    ELSE IF st.mode = "escaped" THEN [Put(st, c) EXCEPT !.mode = "bare"]
    ELSE CASE c = Apostrophe -> [st EXCEPT !.mode = "quoted", !.open = TRUE]
           [] c = Backslash  -> [st EXCEPT !.mode = "escaped"]
           [] c = Space      -> Finish(st)
           [] c \in Plain    -> Put(st, c)
           [] OTHER          -> [st EXCEPT !.literal = FALSE]

ShellWords(line) ==
    LET read[i \in 0..Len(line)] == IF i = 0 THEN NothingRead ELSE ShellStep(read[i - 1], line[i])
        end == read[Len(line)]
    IN  [words |-> Finish(end).words, literal |-> end.literal /\ end.mode = "bare"]
=============================================================================
