------------------------- MODULE TransportContract -------------------------
(***************************************************************************)
(* What class Transport promises its callers (the comments on writeAll,    *)
(* readExactly, readSome and setStallCallback in transport.hpp), with      *)
(* nothing of how TcpTransport keeps the promise: no errno, no retry loop, *)
(* no polling.  Transport.tla is shown to implement it.                    *)
(***************************************************************************)
EXTENDS Integers

CONSTANT MaxBytes           \* the largest request a caller makes

Ops == {"writeAll", "readExactly", "readSome"}

VARIABLES
    call,       \* the operation in progress, or "none"
    want,       \* the byte count it was asked for
    moved,      \* the bytes that really crossed the socket for it
    answer,     \* what the last call returned
    peerGone,   \* the other end has closed or reset the connection
    refused     \* the stall callback answered "stop" during this call

vars == <<call, want, moved, answer, peerGone, refused>>

Init ==
    /\ call = "none" /\ want = 0 /\ moved = 0 /\ answer = "none"
    /\ peerGone = FALSE /\ refused = FALSE

\* An empty request needs no byte and succeeds at once.
Begin(o, k) ==
    /\ call = "none"
    /\ want' = k /\ moved' = 0 /\ refused' = FALSE
    /\ IF k = 0 THEN call' = call /\ answer' = "ok"
                ELSE call' = o /\ answer' = "none"
    /\ UNCHANGED peerGone

MoveBytes ==
    /\ call # "none" /\ ~peerGone
    /\ \E k \in 1..(want - moved) : moved' = moved + k
    /\ UNCHANGED <<call, want, answer, peerGone, refused>>

\* One read is one receive: it returns in the step that moved its bytes.
ReadSomeReturns ==
    /\ call = "readSome" /\ ~peerGone
    /\ \E k \in 1..want : moved' = k
    /\ call' = "none" /\ answer' = "ok"
    /\ UNCHANGED <<want, peerGone, refused>>

\* writeAll and readExactly succeed with every byte moved, never with fewer.
Succeed ==
    /\ call \in {"writeAll", "readExactly"} /\ moved = want
    /\ call' = "none" /\ answer' = "ok"
    /\ UNCHANGED <<want, moved, peerGone, refused>>

\* End of stream is the peer's doing: a stalled socket never reports it.
EndOfStream ==
    /\ call = "readSome" /\ peerGone
    /\ call' = "none" /\ answer' = "eof"
    /\ UNCHANGED <<want, moved, peerGone, refused>>

Refuse ==
    /\ call # "none" /\ refused' = TRUE
    /\ UNCHANGED <<call, want, moved, answer, peerGone>>

\* A call fails only because the peer is gone or the callback said stop
\* (which may be in the very step that ends it).
Fail ==
    /\ call # "none"
    /\ refused' \in {refused, TRUE} /\ (peerGone \/ refused')
    /\ call' = "none" /\ answer' = "fail"
    /\ UNCHANGED <<want, moved, peerGone>>

PeerGoes == peerGone' = TRUE /\ UNCHANGED <<call, want, moved, answer, refused>>

Next ==
    \/ \E o \in Ops, k \in 0..MaxBytes : Begin(o, k)
    \/ MoveBytes \/ ReadSomeReturns \/ Succeed \/ EndOfStream
    \/ Refuse \/ Fail \/ PeerGoes

Spec == Init /\ [][Next]_vars
=============================================================================
