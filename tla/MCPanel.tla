------------------------------ MODULE MCPanel ------------------------------
(***************************************************************************)
(* A small instance of Panel: names of every shape the conversions tell    *)
(* apart.                                                                  *)
(***************************************************************************)
EXTENDS Panel

\* ".t1" for ".adbwfx.tmp.<pid>"; 7 bytes of a name are kept.
MCTempSuffix == <<Dot, 116, 49>>
MCLocalDir   == <<Slash, 108, Slash>>

\* Serials as adb makes them: plain, with brackets of a network service's instance,
\* all brackets.  Models likewise.  One is too long for a row.
MCBuses ==
    LET Device(serial, model, state) == [serial |-> serial, model |-> model, state |-> state]
        offline == <<111, 102, 102>>
        e1 == <<101, 49>>
        x2 == <<120, Open, 50, Close>>
        b2 == <<Open, 50, Close>>
        Ab == <<65, Open, 98, Close>>
        longest == [i \in 1..12 |-> 97]
    IN  {<<Device(e1, <<>>, Usable)>>,
         <<Device(longest, <<>>, Usable), Device(e1, <<>>, Usable), Device(longest, <<>>, offline)>>,
         <<Device(x2, Ab, Usable), Device(e1, <<65>>, offline)>>,
         <<Device(e1, <<65>>, Usable), Device(b2, <<65>>, Usable), Device(x2, <<>>, Usable)>>}

\* One byte on either side of every boundary of the table of well-formed sequences,
\* alone and in every order.
Bytes == {65, 128, 143, 144, 159, 160, 191, 193, 194, 224, 237, 240, 244, 245}
Shapes ==
    {s \in UNION {[1..n -> Bytes] : n \in 1..3} : s[1] >= 128}
    \cup {s \in [1..4 -> Bytes] : /\ s[1] \in {240, 244, 245} /\ s[2] >= 128
                                /\ {s[3], s[4]} \subseteq {65, 128, 191}}

\* Whole characters and other pieces, in names of up to two of them and a few that
\* do not fit a row or the file system's limit.
Grin  == <<240, 159, 152, 128>>
Eacute == <<195, 169>>
Pieces == {<<65>>, <<Apostrophe>>, <<Space>>, <<Newline>>, <<Backslash>>, <<36>>, <<Dot>>,
           Eacute, Grin, <<239, 191, 189>>, <<128>>, <<237, 160, 128>>}
TwoPieces == Pieces \cup {p \o q : p \in Pieces, q \in Pieces}
Many(p, n) == FlattenSeq([i \in 1..n |-> p])
Long == {<<65>> \o Many(Eacute, 4), <<65>> \o Grin \o Grin, Many(<<65>>, 4) \o Grin,
         Many(<<65>>, 3) \o Grin, Many(<<65>>, 4) \o Many(Eacute, 2), Many(<<65>>, 8),
         Many(<<65>>, 11), Many(<<65>>, 10) \o Grin, Many(<<65>>, 9) \o Grin, Many(Eacute, 12),
         Many(<<Dot>>, 8) \o MCTempSuffix}

Entry(name, t) == [name |-> name, mtime |-> t]
Self == Entry(<<Dot>>, 1)
Up   == Entry(<<Dot, Dot>>, 1)
MCListings ==
    {<<Entry(s, 0)>> : s \in Shapes}
    \cup {<<Self, Up, Entry(s, 3)>> : s \in TwoPieces \ {<<Dot>>, <<Dot, Dot>>}}
    \cup {<<Entry(s, 1), Entry(<<65>>, 2)>> : s \in Long}
    \cup {<<Entry(<<65>>, 2), Entry(s, 4), Entry(r, 1)>> : s \in Long, r \in Long}
MCDeepListings == {<<Entry(<<Apostrophe, Space>> \o Grin, 2)>>}

\* Ticks of a date: two a second, 1970 at 8, words of 6.
MCUserDates == {0, 1, 6, 7, 8, 9}
=============================================================================
