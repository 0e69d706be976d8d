------------------------------ MODULE Unicode ------------------------------
(***************************************************************************)
(* The UTF-8 <-> UTF-16 conversions of utils.hpp, through which every name *)
(* crosses the border between Double Commander and the device.  Bytes and  *)
(* UTF-16 units are numbers, positions count from 1.                       *)
(***************************************************************************)
EXTENDS Integers, SequencesExt

Replacement  == 65533       \* UNICODE_REPLACEMENT_CHARACTER
MaxCodePoint == 1114111     \* UNICODE_MAX_CODE_POINT

High(u)         == 55296 <= u /\ u <= 56319
Low(u)          == 56320 <= u /\ u <= 57343
Surrogate(c)    == High(c) \/ Low(c)
Continuation(b) == b \in 128..191       \* (b & 0xC0) == 0x80

AppendUtf8(c) ==
    LET Six(shift) == 128 + ((c \div shift) % 64)
    IN  IF c <= 127 THEN <<c>>
        ELSE IF c <= 2047 THEN <<192 + (c \div 64), Six(1)>>
        ELSE IF c <= 65535 THEN <<224 + (c \div 4096), Six(64), Six(1)>>
        ELSE <<240 + (c \div 262144), Six(4096), Six(64), Six(1)>>

AppendWide(c) ==
    IF c <= 65535 THEN <<c>>
    ELSE <<55296 + ((c - 65536) \div 1024), 56320 + ((c - 65536) % 1024)>>

-----------------------------------------------------------------------------
(* decodeUtf8: the length its lead byte announces (0: no lead byte), the    *)
(* bits the lead contributes, and the smallest code point of that length.  *)

SeqLen(lead) ==
    CASE lead <= 127        -> 1
      [] lead \in 192..223  -> 2
      [] lead \in 224..239  -> 3
      [] lead \in 240..247  -> 4
      [] OTHER              -> 0
LeadMark     == <<0, 192, 224, 240>>
MinCodePoint == <<0, 128, 2048, 65536>>

\* Mutant: the three-byte encodings of surrogates are let through.
ScalarOrSurrogate(c, n) == c < MinCodePoint[n] \/ c > MaxCodePoint

NotScalar(c, n) == c < MinCodePoint[n] \/ c > MaxCodePoint \/ Surrogate(c)

DecodeUtf8(s, p) ==
    LET n        == SeqLen(s[p])
        Bad(k)   == [codepoint |-> Replacement, consumed |-> k]
        value[k \in 0..(n - 1)] ==
            IF k = 0 THEN s[p] - LeadMark[n] ELSE (64 * value[k - 1]) + (s[p + k] % 64)
    IN  IF \/ n = 0
           \/ Len(s) - p + 1 < n
           \/ \E k \in 1..(n - 1) : ~Continuation(s[p + k])
        THEN Bad(1)
        ELSE IF NotScalar(value[n - 1], n) THEN Bad(n)
        ELSE [codepoint |-> value[n - 1], consumed |-> n]

\* The loop of utf8ToWide, without the NUL it appends: From[p] is what the
\* bytes from p on become.  The domain ends just past s: a decoder that read or
\* moved further would not be defined there.
Utf8ToWide(s) ==
    LET From[p \in 1..(Len(s) + 1)] ==
            IF p > Len(s) THEN <<>>
            ELSE LET d == DecodeUtf8(s, p)
                 IN  AppendWide(d.codepoint) \o From[p + d.consumed]
    IN  From[1]

WideToUtf8(w) ==
    LET Pair(i)  == High(w[i]) /\ i < Len(w) /\ Low(w[i + 1])
        Value(i) == IF Pair(i) THEN 65536 + (w[i] - 55296) * 1024 + (w[i + 1] - 56320)
                    ELSE IF Surrogate(w[i]) THEN Replacement ELSE w[i]
        From[i \in 1..(Len(w) + 1)] ==
            IF i > Len(w) THEN <<>>
            ELSE AppendUtf8(Value(i)) \o From[IF Pair(i) THEN i + 2 ELSE i + 1]
    IN  From[1]

\* utf8ToWideBuf(src, dest, destChars): what fits in front of a NUL, never half
\* a surrogate pair, and whether it is everything.
Utf8ToWideBuf(s, destChars) ==
    LET wide == Utf8ToWide(s)
        max  == destChars - 1
    IN  IF Len(wide) <= max THEN [fits |-> TRUE, units |-> wide]
        ELSE [fits  |-> FALSE,
              units |-> SubSeq(wide, 1, IF max > 0 /\ High(wide[max]) THEN max - 1 ELSE max)]

\* utf8TruncatedLength(s, maxBytes): s is not cut inside a character.
Utf8TruncatedLength(s, maxBytes) ==
    IF Len(s) <= maxBytes THEN Len(s)
    ELSE Max({0} \cup {n \in 1..maxBytes : ~Continuation(s[n + 1])})

-----------------------------------------------------------------------------
(* Reference definitions, from the Unicode standard and not from the code.  *)

\* Table 3-7 of the standard: the well-formed sequences of each length.
WellFormedChar(c) ==
    CASE Len(c) = 1 -> c[1] <= 127
      [] Len(c) = 2 -> c[1] \in 194..223 /\ c[2] \in 128..191
      [] Len(c) = 3 ->
            /\ c[1] \in 224..239 /\ c[3] \in 128..191
            /\ c[2] \in (CASE c[1] = 224 -> 160..191 [] c[1] = 237 -> 128..159
                           [] OTHER -> 128..191)
      [] Len(c) = 4 ->
            /\ c[1] \in 240..244 /\ c[3] \in 128..191 /\ c[4] \in 128..191
            /\ c[2] \in (CASE c[1] = 240 -> 144..191 [] c[1] = 244 -> 128..143
                           [] OTHER -> 128..191)
      [] OTHER -> FALSE

\* s is a row of well-formed characters.
WellFormed(s) ==
    LET From[p \in 1..(Len(s) + 1)] ==
            \/ p > Len(s)
            \/ \E n \in 1..4 :
                  /\ p + n <= Len(s) + 1
                  /\ WellFormedChar(SubSeq(s, p, p + n - 1)) /\ From[p + n]
    IN  From[1]

\* The units of what is no replacement.
WholeUnits == (0..65535) \ {Replacement}

\* The well-formed characters of s in UTF-16, whatever stands between them.
GoodCharacters(s) ==
    LET Begins(p) == {n \in 1..4 : p + n <= Len(s) + 1 /\ WellFormedChar(SubSeq(s, p, p + n - 1))}
        From[p \in 1..(Len(s) + 1)] ==
            IF p > Len(s) THEN <<>>
            ELSE (IF Begins(p) = {} THEN <<>>
                  ELSE Utf8ToWide(SubSeq(s, p, p + (CHOOSE n \in Begins(p) : TRUE) - 1))) \o From[p + 1]
    IN  From[1]

\* Every half of a surrogate pair has its other half beside it.
WellFormedWide(w) ==
    \A i \in DOMAIN w :
        /\ High(w[i]) => i < Len(w) /\ Low(w[i + 1])
        /\ Low(w[i])  => i > 1 /\ High(w[i - 1])
=============================================================================
