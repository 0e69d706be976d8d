-------------------------- MODULE TransportProofs --------------------------
(***************************************************************************)
(* Transport.tla, for every request size and any number of signals:        *)
(* its type invariant, the exact byte count, and that it implements the    *)
(* contract of class Transport.                                            *)
(***************************************************************************)
EXTENDS Transport, TLAPS

\* Inside a call there is a byte left to move, and readSome never enters loopTransfer.
CallShape ==
    /\ pc # "idle" => n > 0 /\ done < n /\ answer = "none"
    /\ pc = "loop" => op # "readSome"
    /\ pc = "retry" => op # "writeAll" /\ result = -1 /\ errno # "none"
    /\ pc = "loop" /\ result = -1 => errno # "none"

\* What has crossed the socket, at each place the thread can be.
WireCount ==
    /\ pc \in {"attempt", "retry"} => wire = done
    /\ pc \in {"attempt", "retry"} /\ op = "readSome" => done = 0
    /\ pc = "loop" => wire = done + (IF result > 0 THEN result ELSE 0)
    /\ pc = "idle" /\ answer = "ok" /\ op # "readSome" => wire = n

\* A failure in flight already has its cause.
CauseKnown ==
    /\ pc = "retry" /\ errno = "ERR" => link = "gone"
    /\ pc = "loop" /\ result = 0 => link = "gone"
    /\ pc = "loop" /\ result = -1 /\ errno = "ERR" => link = "gone" \/ refused = "now"

IInv == TypeOK /\ CallShape /\ WireCount /\ CauseKnown

\* The initial state, with no call in progress, satisfies the invariant.
LEMMA InitIInv == Init => IInv
<1> SUFFICES ASSUME Init PROVE IInv
  OBVIOUS
<1> USE TransportAssumption DEF TransportAssumption, Init
<1>1. n \in 0..MaxBytes /\ done \in 0..n /\ result \in -1..MaxBytes /\ signals \in 0..MaxSignals
  OBVIOUS
<1>2. op \in Ops /\ errno \in Errnos /\ hook \in BOOLEAN /\ stop \in BOOLEAN
  BY DEF Ops, Errnos
<1>3. TypeOK
  BY <1>1, <1>2 DEF TypeOK
<1>4. CallShape /\ WireCount /\ CauseKnown
  BY DEF CallShape, WireCount, CauseKnown
<1> QED
  BY <1>3, <1>4 DEF IInv

\* Every kernel call, loop decision, and change of the surroundings preserves it.
LEMMA NextIInv == IInv /\ [Next]_vars => IInv'
<1> SUFFICES ASSUME IInv, [Next]_vars PROVE IInv'
  OBVIOUS
<1> USE TransportAssumption DEF TransportAssumption, IInv, TypeOK, CallShape, WireCount, CauseKnown, Ops, Errnos,
        call, Return, GoTo, ReadSomeReturns
<1>1. ASSUME NEW o \in Ops, NEW k \in 0..MaxBytes, Begin(o, k) PROVE IInv'
  BY <1>1 DEF Begin
<1>2. CASE AttemptMoves
  BY <1>2 DEF AttemptMoves
<1>3. CASE AttemptInterrupted
  BY <1>3 DEF AttemptInterrupted, AttemptErrs, WriteFailureText
<1>4. CASE AttemptTimesOut
  BY <1>4 DEF AttemptTimesOut, AttemptErrs, WriteFailureText
<1>5. CASE AttemptBreaks
  BY <1>5 DEF AttemptBreaks, AttemptErrs, WriteFailureText
<1>6. CASE AttemptEnds
  BY <1>6 DEF AttemptEnds
<1>7. CASE RetryAgain
  BY <1>7 DEF RetryAgain
<1>8. CASE RetryRefused
  BY <1>8 DEF RetryRefused, Refused, ReadFailureText
<1>9. CASE RetryError
  BY <1>9 DEF RetryError, ReadFailureText
<1>10. CASE LoopAgain
  BY <1>10 DEF LoopAgain
<1>11. CASE LoopRefused
  BY <1>11 DEF LoopRefused, Refused
<1>12. CASE LoopFails
  BY <1>12 DEF LoopFails
<1>13. CASE LoopAdvances
  BY <1>13 DEF LoopAdvances
<1>14. CASE LinkChanges
  BY <1>14 DEF LinkChanges
<1>15. CASE UserDecides
  BY <1>15 DEF UserDecides
<1>16. CASE SetStallCallback
  BY <1>16 DEF SetStallCallback
<1>17. CASE UNCHANGED vars
  BY <1>17 DEF vars
<1> QED
  BY <1>1, <1>2, <1>3, <1>4, <1>5, <1>6, <1>7, <1>8, <1>9, <1>10, <1>11, <1>12,
     <1>13, <1>14, <1>15, <1>16, <1>17 DEF Next, Step

\* The inductive invariant holds in every reachable state.
LEMMA AlwaysIInv == Spec => []IInv
  BY InitIInv, NextIInv, PTL DEF Spec

\* Every variable of the transport keeps its range, whatever the link and the user do.
THEOREM TypeCorrect == Spec => []TypeOK
<1>1. IInv => TypeOK
  BY DEF IInv
<1> QED
  BY <1>1, AlwaysIInv, PTL

\* loopTransfer's count is the socket's: a successful writeAll or readExactly
\* moved exactly the bytes it was asked for.
THEOREM CountIsExact == Spec => []ExactCount
<1>1. IInv => ExactCount
  BY DEF IInv, WireCount, ExactCount
<1> QED
  BY <1>1, AlwaysIInv, PTL
\* Outside a call nothing of the contract moves; inside, each step of the code is
\* the contract's step named here, or a stutter.
LEMMA StepIsContractStep == IInv /\ [Next]_vars => [Contract!Next]_Contract!vars
<1> SUFFICES ASSUME IInv, [Next]_vars PROVE [Contract!Next]_Contract!vars
  OBVIOUS
<1> USE TransportAssumption DEF TransportAssumption, IInv, TypeOK, CallShape, WireCount,
        CauseKnown, Ops, Errnos, call, Return, GoTo, ReadSomeReturns
<1>1. ASSUME NEW o \in Ops, NEW k \in 0..MaxBytes, Begin(o, k)
      PROVE Contract!Begin(o, k)
  BY <1>1 DEF Begin, Contract!Begin
<1>2. ASSUME AttemptMoves, op # "readSome" PROVE Contract!MoveBytes
  BY <1>2 DEF AttemptMoves, Contract!MoveBytes
<1>3. ASSUME AttemptMoves, op = "readSome" PROVE Contract!ReadSomeReturns
  BY <1>3 DEF AttemptMoves, Contract!ReadSomeReturns
<1>4. ASSUME AttemptInterrupted \/ AttemptTimesOut \/ AttemptBreaks
      PROVE UNCHANGED Contract!vars
  BY <1>4 DEF AttemptInterrupted, AttemptTimesOut, AttemptBreaks, AttemptErrs, Contract!vars
<1>5. ASSUME AttemptEnds, op # "readSome" PROVE UNCHANGED Contract!vars
  BY <1>5 DEF AttemptEnds, Contract!vars
<1>6. ASSUME AttemptEnds, op = "readSome" PROVE Contract!EndOfStream
  BY <1>6 DEF AttemptEnds, Contract!EndOfStream
<1>7. ASSUME RetryAgain \/ LoopAgain PROVE UNCHANGED Contract!vars
  BY <1>7 DEF RetryAgain, LoopAgain, Contract!vars
<1>8. ASSUME RetryRefused, op = "readSome" PROVE Contract!Fail
  <2>1. pc = "retry" /\ Return("fail") /\ refused' = "now" /\ UNCHANGED <<n, wire, link>>
    BY <1>8 DEF RetryRefused, Refused
  <2> QED
    BY <1>8, <2>1 DEF Contract!Fail
<1>9. ASSUME RetryRefused, op # "readSome" PROVE Contract!Refuse
  BY <1>9 DEF RetryRefused, Refused, Contract!Refuse
<1>10. ASSUME RetryError, op = "readSome" PROVE Contract!Fail
  BY <1>10 DEF RetryError, Contract!Fail
<1>11. ASSUME RetryError, op # "readSome" PROVE UNCHANGED Contract!vars
  BY <1>11 DEF RetryError, Contract!vars
<1>12. ASSUME LoopRefused PROVE Contract!Fail
  BY <1>12 DEF LoopRefused, Refused, Contract!Fail
<1>13. ASSUME LoopFails PROVE Contract!Fail
  BY <1>13 DEF LoopFails, Contract!Fail
<1>14. ASSUME LoopAdvances, done' = n PROVE Contract!Succeed
  BY <1>14 DEF LoopAdvances, Contract!Succeed
<1>15. ASSUME LoopAdvances, done' # n PROVE UNCHANGED Contract!vars
  BY <1>15 DEF LoopAdvances, Contract!vars
<1>16. ASSUME LinkChanges PROVE Contract!PeerGoes \/ UNCHANGED Contract!vars
  BY <1>16 DEF LinkChanges, Contract!PeerGoes, Contract!vars
<1>17. ASSUME UserDecides \/ SetStallCallback \/ UNCHANGED vars
       PROVE UNCHANGED Contract!vars
  BY <1>17 DEF UserDecides, SetStallCallback, vars, Contract!vars
<1> QED
  BY <1>1, <1>2, <1>3, <1>4, <1>5, <1>6, <1>7, <1>8, <1>9, <1>10, <1>11, <1>12,
     <1>13, <1>14, <1>15, <1>16, <1>17
  DEF Next, Step, Contract!Next, Contract!Ops

\* TcpTransport implements the promise of class Transport: exact counts, end of
\* stream only from the peer, failure only for a cause the contract knows.
THEOREM TransportImplementsContract == Spec => ImplementsContract
<1>1. Init => Contract!Init
  BY DEF Init, Contract!Init
<1> QED
  BY <1>1, AlwaysIInv, StepIsContractStep, PTL DEF Spec, ImplementsContract, Contract!Spec
=============================================================================
