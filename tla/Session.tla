------------------------------ MODULE Session ------------------------------
(***************************************************************************)
(* The conversations of AdbClient that answer a question: listDevices,     *)
(* syncList, syncStat, shellCommand (adbclient.hpp over the codec of       *)
(* adbproto.hpp), held by the client FsInitW has made.  One session runs   *)
(* on one connection, which may end or break after any byte.               *)
(*                                                                         *)
(* The stream is a sequence of tokens: a character, a hexadecimal digit, a *)
(* 32-bit number, a four-letter word and the fixed part of a service name  *)
(* are one token each, and lengths count tokens.  How the socket delivers  *)
(* exactly the bytes asked for is Transport's matter.                      *)
(***************************************************************************)
EXTENDS Startup

CONSTANTS
    Operations,     \* [kind, serial, arg]: what the core may ask for
    DeviceTexts,    \* what host:devices-l answers
    Contents,       \* sequences of entries LIST may answer, and STAT one of
    Outputs,        \* what a command may print
    Reasons,        \* messages of FAIL replies
    Garbage,        \* what a desynchronized or foreign peer may send
    Serials,        \* the devices the server knows
    HexBase, HexDigits,     \* 16 and 4
    SyncPathMax,    \* SYNC_PATH_MAX
    FailMax         \* SYNC_FAIL_MESSAGE_MAX

ASSUME SessionAssumption ==
    /\ HexBase \in Nat \ {0, 1} /\ HexDigits \in Nat \ {0}
    /\ SyncPathMax \in Nat /\ FailMax \in Nat
    /\ Operations \subseteq
          [kind : {"devices", "list", "stat", "shell"}, serial : Seq(Nat), arg : Seq(Nat)]
    /\ Outputs \subseteq Seq(Nat) /\ Garbage \subseteq Seq(Nat) /\ Serials \subseteq Seq(Nat)
    /\ Contents \subseteq Seq([mode : Nat, size : Nat, mtime : Nat, name : Seq(Nat)])

\* Words and the names of services.
OKAY == 1001
FAIL == 1002
LIST == 1003
STAT == 1004
DENT == 1005
DONE == 1006
Devices   == <<2001>>               \* "host:devices-l"
BindTo(s) == <<2002>> \o s          \* "host:transport:" + s
Sync      == <<2003>>               \* "sync:"
Shell(c)  == <<2004>> \o c          \* "shell:" + c

VARIABLES
    pc, op, stage,      \* the session, and which of its requests it has come to
    want,               \* the size of the buffer it reads into
    acc,                \* *out so far
    result,
    conn, out, in,      \* the connection and its two streams
    mode, heard,        \* the peer; ghost: the requests it has understood
    truth               \* ghost: what it answered, and whether that was all nonsense
session == <<pc, op, stage, want, acc, result>>
peer    == <<mode, heard, truth>>
stream  == <<conn, out, in>>
vars    == <<session, stream, peer, startup>>

NoOp     == [kind |-> "none", serial |-> <<>>, arg |-> <<>>]
NoResult == [ok |-> FALSE, value |-> <<>>, error |-> <<>>]
NoTruth  == [value |-> <<>>, reason |-> <<>>, whole |-> TRUE, sane |-> TRUE]
Own      == <<0>>       \* any message of the client's own

Idle ==
    /\ pc = "idle" /\ op = NoOp /\ stage = 1 /\ want = 0 /\ acc = <<>> /\ result = NoResult
    /\ conn = "down" /\ out = <<>> /\ in = <<>> /\ mode = "host" /\ heard = <<>> /\ truth = NoTruth
Init == StartupInit /\ Idle

-----------------------------------------------------------------------------
(* adbproto.hpp.                                                           *)

\* The worth of the k-th digit from the right.
Weight[k \in 0..HexDigits] == IF k = 0 THEN 1 ELSE HexBase * Weight[k - 1]

HostRequestMax == Weight[HexDigits] - 1     \* HOST_REQUEST_MAX_SIZE

Hex(n) == [i \in 1..HexDigits |-> (n \div Weight[HexDigits - i]) % HexBase]

\* Mutant: "%04x" of a length with more digits, cut to the first four.
EncodeCutLength(service) ==
    (IF Len(service) > HostRequestMax THEN Hex(Len(service) \div HexBase)
     ELSE Hex(Len(service))) \o service

EncodeHostRequest(service) ==
    IF Len(service) > HostRequestMax THEN <<>> ELSE Hex(Len(service)) \o service

\* -1 for a malformed one.
ParseHexLength(digits) ==
    LET value[i \in 0..Len(digits)] ==
            IF i = 0 THEN 0 ELSE (value[i - 1] * HexBase) + digits[i]
    IN  IF \E i \in DOMAIN digits : digits[i] \notin 0..(HexBase - 1) THEN -1
        ELSE value[Len(digits)]

SyncPacket(id, payload) == <<id, Len(payload)>> \o payload
Dent(e)     == <<DENT, e.mode, e.size, e.mtime, Len(e.name)>> \o e.name
DoneEntry   == <<DONE, 0, 0, 0, 0>>
Absent(s)   == s.mode = 0 /\ s.size = 0 /\ s.mtime = 0

(* The other end writes a length as the client does, in HexDigits digits, its  *)
(* messages are no longer than a sync packet allows, and what exists is not    *)
(* all zero.                                                                   *)
ASSUME PeerAssumption ==
    /\ DeviceTexts \subseteq {t \in Seq(Nat) : Len(t) <= HostRequestMax}
    /\ Reasons \subseteq {m \in Seq(Nat) : Len(m) <= HostRequestMax /\ Len(m) <= FailMax}
    /\ \A c \in Contents : \A i \in DOMAIN c : ~Absent(c[i])

-----------------------------------------------------------------------------
(* The steps of a session.                                                 *)

Requests(o) ==
    CASE o.kind = "devices" -> <<Devices>>
      [] o.kind = "shell"   -> <<BindTo(o.serial), Shell(o.arg)>>
      [] OTHER              -> <<BindTo(o.serial), Sync>>
Packet(o) == IF o.kind = "list" THEN LIST ELSE STAT

Take(n) == in' = SubSeq(in, n + 1, Len(in))
Has(n)  == Len(in) >= n
Cut(n)  == ~Has(n) /\ conn # "up"

\* Every way out closes the connection; what readers of an error may not see is
\* cleared.
End(r) ==
    /\ pc' = "done" /\ result' = r /\ conn' = "down" /\ in' = <<>> /\ out' = <<>>
    /\ want' = 0 /\ acc' = <<>> /\ UNCHANGED <<op, stage>>
\* Mutant: an error in the middle keeps the entries read so far.
FailedKeeps(e) == [ok |-> FALSE, value |-> acc, error |-> e]

Failed(e) == [ok |-> FALSE, value |-> IF op.kind = "shell" THEN acc ELSE <<>>, error |-> e]
Answer(v) == [ok |-> TRUE, value |-> v, error |-> <<>>]
Step(next) == pc' = next /\ UNCHANGED <<op, stage, result, conn, out>>

\* An export without a core, and checkPathLength, answer at once.
Call(o) ==
    /\ init = "out" /\ pc = "idle" /\ op' = o
    /\ IF core = 0 \/ (o.kind \in {"list", "stat"} /\ Len(o.arg) > SyncPathMax)
       THEN pc' = "done" /\ result' = [NoResult EXCEPT !.error = Own]
       ELSE pc' = "connect" /\ UNCHANGED result
    /\ UNCHANGED <<stage, want, acc, stream>>

Connect ==
    /\ pc = "connect" /\ client.port \in listening
    /\ conn' = "up" /\ pc' = "request"
    /\ UNCHANGED <<op, stage, want, acc, result, out, in>>

NobodyListens == pc = "connect" /\ client.port \notin listening /\ End(Failed(Own))
ConnectFails  == pc = "connect" /\ End(Failed(Own))

Request ==
    /\ pc = "request"
    /\ LET request == EncodeHostRequest(Requests(op)[stage])
       IN  IF request = <<>> THEN End(Failed(Own))
           ELSE /\ out' = IF conn = "up" THEN out \o request ELSE out
                /\ pc' = "status" /\ UNCHANGED <<op, stage, want, acc, result, conn, in>>

Status ==
    /\ pc = "status" /\ Has(1)
    /\ CASE Head(in) = OKAY ->
              /\ Take(1) /\ UNCHANGED <<want, acc>>
              /\ UNCHANGED <<op, result, conn, out>>
              /\ IF stage < Len(Requests(op)) THEN stage' = stage + 1 /\ pc' = "request"
                 ELSE stage' = stage /\ pc' = (CASE op.kind = "devices" -> "length"
                                                 [] op.kind = "shell"   -> "output"
                                                 [] OTHER               -> "packet")
         [] Head(in) = FAIL -> Take(1) /\ Step("refusedLength") /\ UNCHANGED <<want, acc>>
         [] OTHER           -> End(Failed(Own))

\* readLengthPrefixedMessage, for a payload and for the reason of a FAIL.
Length ==
    /\ pc \in {"length", "refusedLength"} /\ Has(HexDigits)
    /\ LET n == ParseHexLength(SubSeq(in, 1, HexDigits))
       IN  IF n < 0 THEN End(Failed(Own))
           ELSE /\ Take(HexDigits) /\ want' = n /\ UNCHANGED acc
                /\ Step(IF pc = "length" THEN "payload" ELSE "reason")

Payload == pc = "payload" /\ Has(want) /\ End(Answer(SubSeq(in, 1, want)))
Reason  == pc = "reason" /\ Has(want) /\ End(Failed(SubSeq(in, 1, want)))

WriteSyncPacket ==
    /\ pc = "packet"
    /\ out' = IF conn = "up" THEN out \o SyncPacket(Packet(op), op.arg) ELSE out
    /\ pc' = (IF op.kind = "list" THEN "entry" ELSE "stat")
    /\ UNCHANGED <<op, stage, want, acc, result, conn, in>>

\* A sync FAIL, in the LIST loop and in front of a STAT reply.
SyncFail ==
    /\ pc \in {"entry", "stat"} /\ Has(2) /\ in[1] = FAIL
    /\ IF in[2] > FailMax THEN End(Failed(Own))
       ELSE Take(2) /\ want' = in[2] /\ UNCHANGED acc /\ Step("reason")

\* Mutant: the length of a name is believed.
NameOfAnyLength(n) == TRUE

NameFits(n) == n <= SyncPathMax

ReadListEntry ==
    /\ pc = "entry" /\ Has(1) /\ in[1] # FAIL
    /\ IF in[1] \notin {DENT, DONE} THEN End(Failed(Own))
       ELSE /\ Has(5)
            /\ IF ~NameFits(in[5]) THEN End(Failed(Own))
               ELSE want' = in[5] /\ Step("name") /\ UNCHANGED <<in, acc>>

ReadName ==
    /\ pc = "name" /\ Has(5 + want)
    /\ IF in[1] = DONE THEN End(Answer(acc))
       ELSE /\ acc' = Append(acc, [mode |-> in[2], size |-> in[3], mtime |-> in[4],
                                   name |-> SubSeq(in, 6, 5 + want)])
            /\ Take(5 + want) /\ want' = 0 /\ Step("entry")

ReadStat ==
    /\ pc = "stat" /\ Has(1) /\ in[1] # FAIL
    /\ IF in[1] # STAT THEN End(Failed(Own))
       ELSE /\ Has(4)
            /\ LET s == [mode |-> in[2], size |-> in[3], mtime |-> in[4]]
               IN  End(Answer(IF Absent(s) THEN <<>> ELSE <<s>>))

ReadOutput ==
    /\ pc = "output" /\ in # <<>>
    /\ acc' = acc \o in /\ in' = <<>> /\ UNCHANGED want /\ Step("output")

\* Mutant: only an error ends the reading.
AtErrorOnly == conn = "reset"

AtEndOfOutput == conn \in {"eof", "reset"}

OutputEnds ==
    /\ pc = "output" /\ in = <<>> /\ AtEndOfOutput
    /\ End(IF conn = "eof" THEN Answer(acc) ELSE Failed(Own))

\* Any other read that the stream ends in, and any write to a broken connection.
Needs ==
    CASE pc \in {"length", "refusedLength"} -> HexDigits
      [] pc \in {"payload", "reason"}       -> want
      [] pc = "name"                        -> 5 + want
      [] pc = "entry" /\ Has(1)             -> IF in[1] = FAIL THEN 2
                                               ELSE IF in[1] \in {DENT, DONE} THEN 5 ELSE 1
      [] pc = "stat" /\ Has(1)              -> IF in[1] = FAIL THEN 2
                                               ELSE IF in[1] = STAT THEN 4 ELSE 1
      [] OTHER                              -> 1
ReadFails ==
    /\ pc \in {"status", "length", "refusedLength", "payload", "reason", "entry", "name", "stat"}
    /\ Cut(Needs) /\ End(Failed(Own))
WriteFails == pc \in {"request", "packet"} /\ conn # "up" /\ End(Failed(Own))

Return ==
    /\ pc = "done"
    /\ pc' = "idle" /\ op' = NoOp /\ stage' = 1 /\ result' = NoResult
    /\ UNCHANGED <<want, acc, stream>>

-----------------------------------------------------------------------------
(* The adb server and adbd behind it.                                      *)

Hears(n, what, next) ==
    /\ out' = SubSeq(out, n + 1, Len(out)) /\ heard' = Append(heard, what) /\ mode' = next
    /\ UNCHANGED session
Replies(tokens, value) ==
    /\ in' = in \o tokens /\ truth' = [truth EXCEPT !.value = value] /\ conn' = "up"
RepliesAndEnds(tokens, value) ==
    /\ in' = in \o tokens /\ truth' = [truth EXCEPT !.value = value] /\ conn' = "eof"
Refuses(tokens, reason) ==
    /\ in' = in \o tokens /\ truth' = [truth EXCEPT !.reason = reason] /\ conn' = "eof"

\* One framed request.
ServeRequest ==
    LET n       == ParseHexLength(SubSeq(out, 1, HexDigits))
        service == SubSeq(out, HexDigits + 1, HexDigits + n)
        to(c)   == Hears(HexDigits + n, service, c)
    IN  /\ conn = "up" /\ mode \in {"host", "device"} /\ Len(out) >= HexDigits
        /\ n >= 0 /\ Len(out) >= HexDigits + n
        /\ \/ /\ mode = "host" /\ service = Devices /\ to("host")
              /\ \E t \in DeviceTexts :
                    RepliesAndEnds(<<OKAY>> \o Hex(Len(t)) \o t, t)
           \/ /\ mode = "host" /\ \E s \in Serials : service = BindTo(s)
              /\ to("device") /\ Replies(<<OKAY>>, <<>>)
           \/ /\ mode = "device" /\ service = Sync /\ to("sync") /\ Replies(<<OKAY>>, <<>>)
           \/ /\ mode = "device" /\ service # <<>> /\ Head(service) = Head(Shell(<<>>)) /\ to("shell")
              /\ \E o \in Outputs : RepliesAndEnds(<<OKAY>> \o o, o)
           \/ /\ to("host")
              /\ \E m \in Reasons : Refuses(<<FAIL>> \o Hex(Len(m)) \o m, m)

\* What LIST answers: its first i entries, and all of it.
Sent(c) ==
    LET upTo[i \in 0..Len(c)] == IF i = 0 THEN <<>> ELSE upTo[i - 1] \o Dent(c[i])
    IN  upTo
Stream(c) == Sent(c)[Len(c)] \o DoneEntry

ServeSync ==
    LET path == SubSeq(out, 3, 2 + out[2])
        to   == Hears(2 + out[2], <<out[1]>> \o path, "sync")
    IN  /\ conn = "up" /\ mode = "sync" /\ Len(out) >= 2 /\ Len(out) >= 2 + out[2]
        /\ to
        /\ \/ /\ out[1] = LIST
              /\ \E c \in Contents :
                    Replies(Stream(c), c)
           \/ /\ out[1] = STAT
              /\ \/ Replies(<<STAT, 0, 0, 0>>, <<>>)
                 \/ \E c \in Contents : \E e \in Range(c) :
                       LET s == [mode |-> e.mode, size |-> e.size, mtime |-> e.mtime]
                       IN  Replies(<<STAT, e.mode, e.size, e.mtime>>, <<s>>)
           \/ \E m \in Reasons : Refuses(<<FAIL, Len(m)>> \o m, m)

\* Something else answers, or the stream has lost its place.
Garbles ==
    /\ conn = "up" /\ out # <<>> /\ out' = <<>>
    /\ \E g \in Garbage : in' = in \o g
    /\ truth' = [truth EXCEPT !.sane = FALSE]
    /\ conn' = "eof" /\ UNCHANGED <<session, mode, heard>>

\* The connection ends, in good order or not, and what is on its way may be lost
\* from any token on.
Breaks ==
    /\ conn \in {"up", "eof"} /\ \E c \in {"eof", "reset"} : conn' = c
    /\ \E k \in 0..Len(in) :
          /\ in' = SubSeq(in, 1, k)
          /\ truth' = [truth EXCEPT !.whole = @ /\ k = Len(in)]
    /\ UNCHANGED <<out, session, mode, heard>>

-----------------------------------------------------------------------------

\* What the thread does by itself, and what happens to it.
ClientRuns ==
    /\ \/ Connect \/ NobodyListens \/ Request \/ Status \/ Length \/ Payload \/ Reason
       \/ WriteSyncPacket \/ SyncFail \/ ReadListEntry \/ ReadName \/ ReadStat
       \/ ReadOutput \/ OutputEnds \/ ReadFails
    /\ UNCHANGED <<peer, startup>>
ClientIsFailed == (ConnectFails \/ WriteFails) /\ UNCHANGED <<peer, startup>>
ClientIsCalled == (\E o \in Operations : Call(o)) /\ UNCHANGED <<peer, startup>>
ClientReturns  ==
    /\ Return /\ mode' = "host" /\ heard' = <<>> /\ truth' = NoTruth /\ UNCHANGED startup
PeerRuns ==
    (ServeRequest \/ ServeSync \/ Garbles \/ Breaks) /\ UNCHANGED startup
PeerSettles == conn = "up" /\ PeerRuns

Next ==
    \/ pc = "idle" /\ StartupNext /\ UNCHANGED <<session, stream, peer>>
    \/ ClientRuns \/ ClientIsFailed \/ ClientIsCalled \/ ClientReturns \/ PeerRuns

\* The thread runs on, and the other end answers or the connection ends: there is
\* no stall callback in these conversations.
Fairness == StartupFairness /\ WF_vars(ClientRuns) /\ WF_vars(PeerSettles)

Spec == Init /\ [][Next]_vars /\ Fairness

-----------------------------------------------------------------------------
(* Properties.                                                             *)

\* Whatever length stands on the wire, what the client allocates for it is bounded
\* (readListEntry, readSyncFailMessage, readLengthPrefixedMessage).
TypeOK ==
    /\ stage \in 1..2 /\ want \in 0..(SyncPathMax + FailMax + HostRequestMax)
    /\ pc = "name" => want <= SyncPathMax
    /\ pc \in {"reason", "payload"} => want <= FailMax \/ want <= HostRequestMax
    /\ conn = "down" => in = <<>> /\ out = <<>>

\* What the other end takes for a request is the next one that was meant, never
\* its beginning or its end: above all the command its shell runs
\* (encodeHostRequest, checkPathLength, writeSyncPacket).
RequestsArriveWhole ==
    LET meant == Requests(op) \o <<<<Packet(op)>> \o op.arg>>
    IN  op # NoOp => IsPrefix(heard, meant)

\* A good answer is the whole of what the device said, from its first entry to its
\* last; a failed one leaves no entries behind and shows the device's reason if
\* that arrived.  (For the output of a command there is no last byte to tell, so it
\* may be the beginning of it.)
AnswerIsTheDevices ==
    pc = "done" /\ truth.sane =>
        /\ result.ok =>
              IF op.kind = "shell" THEN IsPrefix(result.value, truth.value)
                                        /\ (truth.whole => result.value = truth.value)
              ELSE result.value = truth.value
        /\ ~result.ok =>
              /\ op.kind # "shell" => result.value = <<>>
              /\ truth.whole /\ truth.reason # <<>> => result.error = truth.reason

\* FsInitW and every conversation return, when adb start-server ends and the other
\* end answers or hangs up.
CallsReturn ==
    /\ init # "out" ~> init = "out"
    /\ pc \notin {"idle", "done"} ~> pc = "done"
=============================================================================
