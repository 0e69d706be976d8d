----------------------------- MODULE MCSession -----------------------------
(***************************************************************************)
(* A small instance of Session: lengths of up to eight in two digits of    *)
(* three, so that a command of eight characters no longer fits a request.  *)
(***************************************************************************)
EXTENDS Session

Env(number, value, adbPath, sdk, home, executable) ==
    [port |-> [number |-> number, value |-> value], adbPath |-> adbPath,
     path |-> <<NoDir, "bin">>, sdk |-> <<sdk, NoDir>>, home |-> home, executable |-> executable]

\* Port texts in, at and past the range, no number, and none at all; an adb before
\* and behind the others, and one behind a duplicate.
MCEnvironments ==
    {Env(TRUE, 2, "mine", "sdk", TRUE, {"mine", "snap"}), Env(TRUE, 2, "mine", "sdk", TRUE, {"snap", "sdk"}),
     Env(TRUE, 3, "none", "bin", FALSE, {"usr", "library"}), Env(TRUE, 0, "none", "bin", FALSE, {"usr"}),
     Env(FALSE, 1, "usr", "sdk", TRUE, {"usr", "bin"}), Env(FALSE, 0, "none", "sdk", TRUE, {}),
     Env(FALSE, 0, "none", "sdk", TRUE, {"library", "bin"})}
MCLocations ==
    <<[dir |-> "usr", home |-> FALSE], [dir |-> "library", home |-> TRUE], [dir |-> "snap", home |-> FALSE]>>

Ask(kind, serial, arg) == [kind |-> kind, serial |-> serial, arg |-> arg]
MCOperations ==
    {Ask("devices", <<>>, <<>>), Ask("list", <<1>>, <<5, 6>>), Ask("list", <<1>>, <<5, 6, 5, 6>>),
     Ask("stat", <<1>>, <<5>>), Ask("stat", <<2>>, <<5>>), Ask("shell", <<1>>, <<7, 0, 0>>),
     Ask("shell", <<1>>, <<7, 0, 0, 0, 0, 0, 0, 0>>)}
MCSerials == {<<1>>}
MCDeviceTexts == {<<>>, <<1, 9>>}

Entry(m, s, t, n) == [mode |-> m, size |-> s, mtime |-> t, name |-> n]
MCContents == {<<>>, <<Entry(0, 0, 1, <<5>>), Entry(4, 1, 2, <<5, 6, 7>>)>>}
MCOutputs  == {<<>>, <<8, 9>>}
MCReasons  == {<<3>>, <<3, 4>>}

\* Replies of the right shape with a wrong length or word in them, and nonsense.
MCGarbage ==
    {<<9>>, <<OKAY, 9, 9>>, <<OKAY, 2, 2>>, <<FAIL, 2, 2, 3>>, <<FAIL, 99, 3>>, <<DENT, 4, 1, 2, 99, 5>>,
     <<DENT, 4, 1, 2, 1, 5, 9>>, <<STAT, 4, 1>>}
=============================================================================
