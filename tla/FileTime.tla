------------------------------ MODULE FileTime ------------------------------
(***************************************************************************)
(* FILETIME <-> time_t (utils.hpp): ticks since 1601 in two words of 32    *)
(* bits, against seconds since 1970.  The words, the tick and the distance *)
(* of the epochs are parameters; the code's are 2^32, 10^7 and 11644473600.*)
(***************************************************************************)
EXTENDS Integers

CONSTANTS
    Word,               \* values of a DWORD
    TicksPerSecond,     \* FILETIME_TICKS_PER_SECOND
    EpochSeconds        \* FILETIME_AT_UNIX_EPOCH, in seconds
ASSUME FileTimeAssumption ==
    /\ Word \in Nat \ {0} /\ TicksPerSecond \in Nat \ {0} /\ EpochSeconds \in Nat
    /\ EpochSeconds * TicksPerSecond < Word * Word

AtUnixEpoch == EpochSeconds * TicksPerSecond
FILETIME    == [high : 0..(Word - 1), low : 0..(Word - 1)]
Ticks(ft)   == (ft.high * Word) + ft.low
Split(n)    == [high |-> n \div Word, low |-> n % Word]

\* In uint64_t, so a negative t wraps and comes round again.
TimeToFileTime(t) == Split((AtUnixEpoch + (t * TicksPerSecond)) % (Word * Word))

\* A zero FILETIME, or a null pointer.
IsUnsetFileTime(ft) == ft = [high |-> 0, low |-> 0]

\* Mutant: the subtraction is made in uint64_t for any date.
FileTimeWrapping(ft) == ((Ticks(ft) - AtUnixEpoch) % (Word * Word)) \div TicksPerSecond

FileTimeToTime(ft) ==
    IF IsUnsetFileTime(ft) THEN 0
    ELSE IF Ticks(ft) < AtUnixEpoch THEN -((AtUnixEpoch - Ticks(ft)) \div TicksPerSecond)
    ELSE (Ticks(ft) - AtUnixEpoch) \div TicksPerSecond
=============================================================================
