----------------------------- MODULE Transport -----------------------------
(***************************************************************************)
(* TcpTransport (transport.hpp): one plugin thread making blocking calls   *)
(* on a socket with SO_RCVTIMEO / SO_SNDTIMEO set.  A step is one kernel   *)
(* call or one decision of a retry loop, so the peer, the user and signals *)
(* act between any two of them.                                            *)
(*   writeAll    = loopTransfer(send)                                      *)
(*   readExactly = loopTransfer(readSome)   -- two nested loops, each of   *)
(*   readSome    = retryOnEintr(recv)          which polls the callback    *)
(* errno is state: the stall callback runs the file manager's own code     *)
(* and may leave any value behind, and the loops read errno after it.      *)
(***************************************************************************)
EXTENDS Integers

CONSTANTS
    MaxBytes,       \* bound: the largest request
    MaxSignals      \* bound: how many EINTR the run sees
ASSUME TransportAssumption == MaxBytes \in Nat \ {0} /\ MaxSignals \in Nat

Ops == {"writeAll", "readExactly", "readSome"}
Errnos == {"none", "EINTR", "EAGAIN", "ERR"}

VARIABLES
    pc,         \* idle | attempt (in send/recv) | retry (retryOnEintr) | loop (loopTransfer)
    op, n,      \* the call and the byte count it was asked for
    done,       \* loopTransfer's count
    result,     \* what the last attempt returned: -1, 0 or a count
    errno,
    lastError,  \* the text class behind lastError()
    answer,     \* what the last call returned
    hook,       \* a stall callback is installed
    stop,       \* what that callback would answer now: the user wants to stop
    link,       \* up | asleep | gone (closed or reset, for good)
    wire,       \* ghost: bytes the kernel really moved for this call
    refused,    \* ghost: the callback said stop: never | before | now (this call)
    signals     \* ghost: EINTR seen so far

call == <<op, n>>
vars == <<pc, op, n, done, result, errno, lastError, answer, hook, stop, link,
          wire, refused, signals>>

Init ==
    /\ pc = "idle" /\ op = "readExactly" /\ n = 0 /\ done = 0 /\ result = 0
    /\ errno = "none" /\ lastError = "none" /\ answer = "none"
    /\ hook = FALSE /\ stop = FALSE /\ link = "up"
    /\ wire = 0 /\ refused = "never" /\ signals = 0

-----------------------------------------------------------------------------
(* The surroundings: the peer, the user, and the owner of the transport.   *)

LinkChanges ==
    /\ link # "gone" /\ link' \in {"up", "asleep", "gone"} \ {link}
    /\ UNCHANGED <<pc, call, done, result, errno, lastError, answer, hook, stop,
                   wire, refused, signals>>

\* The callback's answer is the file manager's business and may change back.
UserDecides ==
    /\ stop' = ~stop
    /\ UNCHANGED <<pc, call, done, result, errno, lastError, answer, hook, link,
                   wire, refused, signals>>

\* Installed between two calls, once the sync: handshake is over.
SetStallCallback ==
    /\ pc = "idle" /\ ~hook /\ hook' = TRUE
    /\ UNCHANGED <<pc, call, done, result, errno, lastError, answer, stop, link,
                   wire, refused, signals>>

-----------------------------------------------------------------------------
(* A call: how it starts and how it returns.                               *)

Begin(o, k) ==
    /\ pc = "idle" /\ (o = "readSome" => k > 0)
    /\ op' = o /\ n' = k /\ done' = 0 /\ wire' = 0
    /\ refused' = (IF refused = "never" THEN "never" ELSE "before")
    /\ IF k = 0 THEN pc' = pc /\ answer' = "ok"      \* while (done < n) never runs
                ELSE pc' = "attempt" /\ answer' = "none"
    /\ UNCHANGED <<result, errno, lastError, hook, stop, link, signals>>

Return(a) == pc' = "idle" /\ answer' = a
GoTo(l)   == pc' = l /\ UNCHANGED answer

\* readSome hands r to its caller: the user of the transport, or loopTransfer.
ReadSomeReturns(r) ==
    /\ result' = r
    /\ IF op = "readSome"
       THEN Return(IF r > 0 THEN "ok" ELSE IF r = 0 THEN "eof" ELSE "fail")
       ELSE GoTo("loop")

-----------------------------------------------------------------------------
(* One kernel call.                                                        *)

\* writeAll's lambda sets lastError_ before the loop decides anything.
WriteFailureText(e) ==
    IF e = "EAGAIN" THEN "cancelled" ELSE IF e = "EINTR" THEN lastError ELSE "write"

\* Mutant: asks for n bytes instead of the remaining n - done.
AttemptMovesWholeRequest ==
    /\ pc = "attempt" /\ link = "up"
    /\ \E k \in 1..n :
         /\ wire' = wire + k
         /\ IF op = "writeAll" THEN result' = k /\ GoTo("loop") ELSE ReadSomeReturns(k)
    /\ UNCHANGED <<call, done, errno, lastError, hook, stop, link, refused, signals>>

AttemptMoves ==
    /\ pc = "attempt" /\ link = "up"
    /\ \E k \in 1..(n - done) :
         /\ wire' = wire + k
         /\ IF op = "writeAll" THEN result' = k /\ GoTo("loop") ELSE ReadSomeReturns(k)
    /\ UNCHANGED <<call, done, errno, lastError, hook, stop, link, refused, signals>>

AttemptErrs(e) ==
    /\ errno' = e /\ result' = -1
    /\ IF op = "writeAll"
       THEN lastError' = WriteFailureText(e) /\ GoTo("loop")
       ELSE UNCHANGED lastError /\ GoTo("retry")
    /\ UNCHANGED <<call, done, hook, stop, link, wire, refused>>

AttemptInterrupted ==
    /\ pc = "attempt" /\ signals < MaxSignals
    /\ signals' = signals + 1 /\ AttemptErrs("EINTR")

\* SOCKET_TIMEOUT_MS passed and not a byte moved.
AttemptTimesOut ==
    /\ pc = "attempt" /\ link = "asleep"
    /\ UNCHANGED signals /\ AttemptErrs("EAGAIN")

AttemptBreaks ==
    /\ pc = "attempt" /\ link = "gone"
    /\ UNCHANGED signals /\ AttemptErrs("ERR")

\* recv returns 0 at end of stream; the code also provides for send doing so.
AttemptEnds ==
    /\ pc = "attempt" /\ link = "gone"
    /\ IF op = "writeAll"
       THEN lastError' = "closed" /\ result' = 0 /\ GoTo("loop")
       ELSE UNCHANGED lastError /\ ReadSomeReturns(0)
    /\ UNCHANGED <<call, done, errno, hook, stop, link, wire, refused, signals>>

-----------------------------------------------------------------------------
(* The two retry loops.                                                    *)

ShouldKeepWaiting(installed) == ~installed \/ ~stop

\* The callback answered stop; errno is whatever it left behind.
Refused ==
    /\ refused' = "now"
    /\ \/ errno' \in {errno, "ERR"} /\ UNCHANGED signals
       \/ signals < MaxSignals /\ errno' = "EINTR" /\ signals' = signals + 1

ReadFailureText(e) == IF e = "EAGAIN" THEN "cancelled" ELSE "read"

RetryAgain ==
    /\ pc = "retry"
    /\ errno = "EINTR" \/ (errno = "EAGAIN" /\ ShouldKeepWaiting(hook))
    /\ GoTo("attempt")
    /\ UNCHANGED <<call, done, result, errno, lastError, hook, stop, link, wire,
                   refused, signals>>

\* Mutant: a cancelled stall comes back as 0, which callers read as end of stream.
RetryRefusedAsEof ==
    /\ pc = "retry" /\ errno = "EAGAIN" /\ ~ShouldKeepWaiting(hook)
    /\ Refused
    /\ lastError' = ReadFailureText(errno')
    /\ ReadSomeReturns(0)
    /\ UNCHANGED <<call, done, hook, stop, link, wire>>

RetryRefused ==
    /\ pc = "retry" /\ errno = "EAGAIN" /\ ~ShouldKeepWaiting(hook)
    /\ Refused
    /\ lastError' = ReadFailureText(errno')
    /\ ReadSomeReturns(-1)
    /\ UNCHANGED <<call, done, hook, stop, link, wire>>

RetryError ==
    /\ pc = "retry" /\ errno = "ERR"
    /\ lastError' = ReadFailureText(errno)
    /\ ReadSomeReturns(-1)
    /\ UNCHANGED <<call, done, errno, hook, stop, link, wire, refused, signals>>

\* Mutant: readExactly leaves the callback to the inner loop.
WriteCallbackOnly == hook /\ op = "writeAll"

\* The callback the outer loop consults: both callers pass the installed one.
LoopCallback == hook

LoopAgain ==
    /\ pc = "loop" /\ result = -1
    /\ errno = "EINTR" \/ (errno = "EAGAIN" /\ ShouldKeepWaiting(LoopCallback))
    /\ GoTo("attempt")
    /\ UNCHANGED <<call, done, result, errno, lastError, hook, stop, link, wire,
                   refused, signals>>

LoopRefused ==
    /\ pc = "loop" /\ result = -1 /\ errno = "EAGAIN" /\ ~ShouldKeepWaiting(LoopCallback)
    /\ Refused /\ Return("fail")
    /\ UNCHANGED <<call, done, result, lastError, hook, stop, link, wire>>

\* Mutant: a 0-byte result is "nothing moved yet" and the loop goes round again.
LoopFailsOnErrorOnly ==
    /\ pc = "loop" /\ (result = 0 \/ (result = -1 /\ errno = "ERR"))
    /\ IF result = 0 THEN GoTo("attempt") ELSE Return("fail")
    /\ UNCHANGED <<call, done, result, errno, lastError, hook, stop, link, wire,
                   refused, signals>>

LoopFails ==
    /\ pc = "loop" /\ (result = 0 \/ (result = -1 /\ errno = "ERR"))
    /\ Return("fail")
    /\ UNCHANGED <<call, done, result, errno, lastError, hook, stop, link, wire,
                   refused, signals>>

\* Mutant: off by one, the last byte is taken as read.
LoopAdvancesOffByOne ==
    /\ pc = "loop" /\ result > 0
    /\ done' = done + result
    /\ IF done' >= n - 1 THEN Return("ok") ELSE GoTo("attempt")
    /\ UNCHANGED <<call, result, errno, lastError, hook, stop, link, wire, refused,
                   signals>>

LoopAdvances ==
    /\ pc = "loop" /\ result > 0
    /\ done' = done + result
    /\ IF done' = n THEN Return("ok") ELSE GoTo("attempt")
    /\ UNCHANGED <<call, result, errno, lastError, hook, stop, link, wire, refused,
                   signals>>

Step ==
    \/ AttemptMoves \/ AttemptInterrupted \/ AttemptTimesOut \/ AttemptBreaks
    \/ AttemptEnds \/ RetryAgain \/ RetryRefused \/ RetryError
    \/ LoopAgain \/ LoopRefused \/ LoopFails \/ LoopAdvances

Next ==
    \/ \E o \in Ops, k \in 0..MaxBytes : Begin(o, k)
    \/ Step \/ LinkChanges \/ UserDecides \/ SetStallCallback

\* The thread runs, and a kernel call returns: data, an error, or its timeout.
Spec == Init /\ [][Next]_vars
FairSpec == Spec /\ WF_vars(Step)
-----------------------------------------------------------------------------
(* Properties.                                                             *)

\* Every variable stays in its range.
TypeOK ==
    /\ pc \in {"idle", "attempt", "retry", "loop"}
    /\ op \in Ops /\ n \in 0..MaxBytes /\ done \in 0..n /\ result \in -1..MaxBytes
    /\ errno \in Errnos
    /\ lastError \in {"none", "cancelled", "closed", "write", "read"}
    /\ answer \in {"none", "ok", "eof", "fail"}
    /\ hook \in BOOLEAN /\ stop \in BOOLEAN /\ link \in {"up", "asleep", "gone"}
    /\ wire \in 0..n /\ refused \in {"never", "before", "now"} /\ signals \in 0..MaxSignals

\* The bytes counted by loopTransfer are the bytes the socket moved, across
\* partial transfers, EINTR, timeouts and two polls per stall: a success is
\* the whole request and no attempt is counted twice or dropped.
ExactCount ==
    /\ op # "readSome" /\ pc \in {"attempt", "retry"} => wire = done
    /\ pc = "loop" => wire = done + (IF result > 0 THEN result ELSE 0)
    /\ pc = "idle" /\ answer = "ok" /\ op # "readSome" => wire = n

\* Transport.tla does what class Transport promises: exact counts, end of
\* stream only when the peer is gone (never for a stalled socket), and failure
\* only when the peer is gone or the stall callback said stop.
Contract == INSTANCE TransportContract WITH
    call <- IF pc = "idle" THEN "none" ELSE op,
    want <- n, moved <- wire, peerGone <- link = "gone", refused <- refused = "now"
ImplementsContract == Contract!Spec

\* Once the callback is installed, a user who wants to stop and does not
\* change their mind gets the thread back, however the link behaves
\* (readExactly polls in two nested loops: dropping either poll hangs it).
StopIsHeeded == (pc # "idle" /\ hook /\ stop) ~> (pc = "idle" \/ ~stop)

\* With a link that stays awake, or stays dead, every call returns: no retry
\* loop spins on end of stream or on an error.
SettledLinkReturns == <>[](link # "asleep") => []<>(pc = "idle")
=============================================================================
