------------------------------ MODULE Startup ------------------------------
(***************************************************************************)
(* FsInitW (fsplugin.cpp) and what it calls in adbserver.hpp: the port, the*)
(* adb binary, the child process that starts the server, and the exchange  *)
(* of the old client and core for new ones, of which any step may throw.   *)
(* A second FsInitW finds what the first one left.                         *)
(***************************************************************************)
EXTENDS Integers, SequencesExt

CONSTANTS
    Environments,   \* [port, adbPath, path, sdk, home, executable]: see below
    Locations,      \* the fixed install locations, [dir, home] (home: below $HOME)
    MaxPort,        \* 65535, scaled down
    DefaultPort,    \* ADB_DEFAULT_PORT
    MaxInits,       \* bound: calls of FsInitW
    MaxSignals      \* bound: signals that interrupt waitpid

(* An environment has a port text [number, value] (a decimal number and     *)
(* nothing else; otherwise value tells 0, unset, from 1), a directory       *)
(* or NoDir for $ADB_PATH, sequences  *)
(* of directories for $PATH and the two SDK variables (NoDir: an empty      *)
(* element, an unset variable), whether $HOME is set, and the directories   *)
(* that hold an adb one may execute.  The binary in a directory goes by the *)
(* directory's name.                                                        *)
NoDir == "none"
ASSUME StartupAssumption ==
    /\ MaxInits \in Nat /\ MaxSignals \in Nat /\ MaxPort \in Nat /\ DefaultPort \in 1..MaxPort
    /\ Environments \subseteq
          [port : [number : BOOLEAN, value : Nat], adbPath : STRING, path : Seq(STRING),
           sdk : Seq(STRING), home : BOOLEAN, executable : SUBSET (STRING \ {NoDir})]
    /\ Locations \in Seq([dir : STRING \ {NoDir}, home : BOOLEAN])

VARIABLES
    env,
    init,       \* where FsInitW stands, "out" when it has returned
    started,    \* ghost: the binary it has spawned
    child,      \* the child: "none", "running", "exited", "reaped"
    childOk,    \* its exit status is 0
    listening,  \* ports an adb server listens on
    client,     \* gAdbClient: which one it is (0: null) and its factory's port
    core,       \* gPluginCore: the client it refers to (0: null)
    inits, signals
process == <<started, child, childOk, listening>>
globals == <<client, core>>
startup == <<env, init, process, globals, inits, signals>>

StartupInit ==
    /\ env \in Environments /\ init = "out" /\ started = NoDir
    /\ child = "none" /\ childOk = FALSE /\ listening \in {{}, {DefaultPort}}
    /\ client = [gen |-> 0, port |-> 0] /\ core = 0 /\ inits = 0 /\ signals = 0

-----------------------------------------------------------------------------
(* adbserver.hpp.                                                          *)

AdbServerPort(text) == IF text.number /\ text.value \in 1..MaxPort THEN text.value ELSE DefaultPort

\* All places in the order of their priority.
Places(e) ==
    <<e.adbPath>> \o e.path \o e.sdk
    \o [i \in DOMAIN Locations |-> IF Locations[i].home => e.home THEN Locations[i].dir ELSE NoDir]

\* Where the candidates stand among them, each at its first place.
AdbBinaryCandidates(e) ==
    {i \in DOMAIN Places(e) :
        Places(e)[i] # NoDir /\ \A j \in 1..(i - 1) : Places(e)[j] # Places(e)[i]}

FindAdbBinary(e) ==
    LET found == {i \in AdbBinaryCandidates(e) : Places(e)[i] \in e.executable}
    IN  IF found = {} THEN NoDir ELSE Places(e)[Min(found)]

\* The adb that was started reads the same variable, and gives up on a bad value.
OwnPorts(text) ==
    IF text.number THEN {text.value} \cap (1..MaxPort) ELSE IF text.value = 0 THEN {DefaultPort} ELSE {}

ChildExits ==
    /\ child = "running" /\ child' = "exited"
    /\ \/ \E p \in OwnPorts(env.port) : childOk' = TRUE /\ listening' = listening \cup {p}
       \/ childOk' = FALSE /\ UNCHANGED listening
    /\ UNCHANGED <<env, init, started, globals, inits, signals>>

-----------------------------------------------------------------------------
(* FsInitW.                                                                *)

\* What is installed may have changed since; the variables have not.
FsInit ==
    /\ init = "out" /\ inits < MaxInits /\ inits' = inits + 1
    /\ \E e \in Environments :
          /\ [e EXCEPT !.executable = {}] = [env EXCEPT !.executable = {}]
          /\ env' = e
    /\ init' = "start" /\ started' = NoDir /\ child' = "none" /\ childOk' = FALSE
    /\ UNCHANGED <<listening, globals, signals>>

NothingToStart ==
    /\ init = "start" /\ FindAdbBinary(env) = NoDir /\ init' = "reset"
    /\ UNCHANGED <<env, process, globals, inits, signals>>

Spawn ==
    /\ init = "start" /\ FindAdbBinary(env) # NoDir
    /\ started' = FindAdbBinary(env) /\ child' = "running" /\ init' = "waitpid"
    /\ UNCHANGED <<env, childOk, listening, globals, inits, signals>>

SpawnFails ==
    /\ init = "start" /\ FindAdbBinary(env) # NoDir /\ init' = "reset"
    /\ UNCHANGED <<env, process, globals, inits, signals>>

\* Mutant: an interrupted waitpid is the end of the wait.
InterruptedGivesUp == "reset"

Interrupted == "waitpid"

Signal ==
    /\ init = "waitpid" /\ signals < MaxSignals /\ signals' = signals + 1
    /\ init' = Interrupted
    /\ UNCHANGED <<env, process, globals, inits>>

\* waitpid returns the status, or ECHILD where the host ignores SIGCHLD and the
\* child is gone by itself.
Waited ==
    /\ init = "waitpid" /\ child = "exited" /\ child' = "reaped" /\ init' = "reset"
    /\ UNCHANGED <<env, started, childOk, listening, globals, inits, signals>>

\* Mutant: the old core stays until the new one replaces it.
ResetNothing == init = "reset" /\ init' = "client" /\ UNCHANGED <<env, process, globals, inits, signals>>

ResetCore ==
    /\ init = "reset" /\ core' = 0 /\ init' = "client"
    /\ UNCHANGED <<env, process, client, inits, signals>>

NewClient ==
    /\ init = "client" /\ init' = "core"
    /\ client' = [gen |-> client.gen + 1, port |-> AdbServerPort(env.port)]
    /\ UNCHANGED <<env, process, core, inits, signals>>

NewCore ==
    /\ init = "core" /\ core' = client.gen /\ init' = "out"
    /\ UNCHANGED <<env, process, client, inits, signals>>

\* catch (...): from the strings in front of the spawn, or an allocation.
Throws ==
    /\ init \in {"start", "client", "core"} /\ init' = "out"
    /\ UNCHANGED <<env, process, globals, inits, signals>>

InitRuns     == NothingToStart \/ Spawn \/ Waited \/ ResetCore \/ NewClient \/ NewCore
StartupNext  == FsInit \/ InitRuns \/ SpawnFails \/ Signal \/ ChildExits \/ Throws
\* The thread runs on, and adb start-server ends some day.
StartupFairness == WF_startup(InitRuns) /\ WF_startup(ChildExits)

-----------------------------------------------------------------------------
(* Properties.                                                             *)

\* A core never refers to a client that has been replaced, at no step of a second
\* FsInitW and whatever throws in it (the order of the resets in FsInitW).
CoreHasItsClient == core # 0 => core = client.gen

\* When FsInitW has returned its child has been waited for, the binary it ran was
\* the first executable one in the order of priority, and a server that child
\* started is where the client connects.
StartIsClean ==
    init = "out" =>
        /\ child \in {"none", "reaped"}
        /\ started # NoDir =>
              \E i \in DOMAIN Places(env) :
                  /\ started = Places(env)[i] /\ started \in env.executable
                  /\ \A j \in 1..(i - 1) : Places(env)[j] \notin env.executable
        /\ childOk /\ core # 0 => client.port \in listening
=============================================================================
