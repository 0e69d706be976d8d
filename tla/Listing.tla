------------------------------- MODULE Listing -------------------------------
(***************************************************************************)
(* ListingCache (adbutils.hpp) between the two threads Double Commander    *)
(* calls a plugin from: panels that list directories                       *)
(* (PluginCore::listDirectory) and a worker that changes things on the     *)
(* device (putFile, the shell commands) and then invalidates.  Every cache *)
(* operation is one step under its mutex; nothing else is.  Other apps     *)
(* change the device too, wall-clock seconds pass, the clock is set back.  *)
(*                                                                         *)
(* A directory is the number of changes made to it so far, a listing the   *)
(* number it was read at.  An entry holds its age as the clock would tell  *)
(* it, clock_() - storedAt.  Another name of the same directory (a symlink *)
(* to it) is another path, whose changes are OtherAppChanges to this one.  *)
(***************************************************************************)
EXTENDS Integers, Sequences

CONSTANTS
    Panels,
    Paths,          \* WFX directories
    Below,          \* Below[q]: q and the directories beneath it
    ParentOf,       \* for those that have their parent in Paths
    Links,          \* the paths that are symlinks to a directory
    Missing,        \* Missing[q]: versions at which q is not there
    Operations,     \* what the worker is asked for: [from, to], equal but in a move
    TTL,            \* LISTING_CACHE_TTL_SECONDS
    MaxVersion,     \* bound: changes to one directory
    MaxBack         \* bound: seconds the wall clock is set back, once
Versions == 0..MaxVersion

\* What an operation names: a file in directory dir, or dir itself.
FileTargets == [dir : Paths, file : {TRUE}]
DirTargets  == [dir : DOMAIN ParentOf, file : {FALSE}]
Targets     == FileTargets \cup DirTargets

ASSUME ListingAssumption ==
    /\ Paths # {} /\ Below \in [Paths -> SUBSET Paths] /\ \A q \in Paths : q \in Below[q]
    /\ DOMAIN ParentOf \subseteq Paths /\ \A q \in DOMAIN ParentOf : ParentOf[q] \in Paths
    /\ Links \subseteq Paths /\ Missing \in [Paths -> SUBSET Versions]
    /\ Operations \subseteq [from : Targets, to : Targets]
    /\ TTL \in Nat \ {0} /\ MaxVersion \in Nat /\ MaxBack \in Nat

Oldest == TTL + MaxBack     \* ages from here on are all expired, for good
None   == [ver |-> -1, age |-> 0, real |-> 0, raced |-> FALSE]

VARIABLES
    ver,        \* the device: changes made to each directory so far
    cache,      \* entries_: real and raced are ghosts (see Store, Drop)
    back,       \* ghost: seconds the clock has been set back
    pc, dir, read, raced,   \* each panel's listDirectory
    wpc, op, todo,  \* the worker's operation, and its invalidations to come
    made,       \* ghost: the versions its changes made
    own         \* ghost: the versions its finished operations made

panel  == <<pc, dir, read, raced>>
worker == <<wpc, op, todo, made, own>>
vars   == <<ver, cache, back, panel, worker>>

SomePath == CHOOSE q \in Paths : TRUE
SomeFile == [dir |-> SomePath, file |-> TRUE]
Nothing  == [from |-> SomeFile, to |-> SomeFile]
Zero     == [q \in Paths |-> 0]

Init ==
    /\ ver = Zero /\ cache = [q \in Paths |-> None] /\ back = 0
    /\ pc = [t \in Panels |-> "idle"] /\ dir = [t \in Panels |-> SomePath]
    /\ read = [t \in Panels |-> -1] /\ raced = [t \in Panels |-> FALSE]
    /\ wpc = "idle" /\ op = Nothing /\ todo = <<>> /\ made = Zero /\ own = Zero

-----------------------------------------------------------------------------
(* The device and the clock.                                               *)

Changed(S) ==
    /\ \A q \in S : ver[q] < MaxVersion
    /\ ver' = [q \in Paths |-> IF q \in S THEN ver[q] + 1 ELSE ver[q]]

OtherAppChanges(q) ==
    /\ Changed({q}) /\ UNCHANGED <<cache, back, panel, worker>>

OneMore(n)    == IF n < Oldest THEN n + 1 ELSE n
Aged(e)       == IF e.ver < 0 THEN e ELSE [e EXCEPT !.age = OneMore(@), !.real = OneMore(@)]
PutBack(e, k) == IF e.ver < 0 THEN e ELSE [e EXCEPT !.age = @ - k]

Tick ==
    /\ cache' = [q \in Paths |-> Aged(cache[q])]
    /\ UNCHANGED <<ver, back, panel, worker>>

\* An NTP correction, or the user.  (A jump ahead only makes entries expire.)
ClockSetBack(k) ==
    /\ back = 0 /\ back' = k
    /\ cache' = [q \in Paths |-> PutBack(cache[q], k)]
    /\ UNCHANGED <<ver, panel, worker>>

-----------------------------------------------------------------------------
(* listDirectory, in a panel's thread.                                     *)

Cached(q) == cache[q].ver >= 0

\* Mutant: the last second counts as well.
LiveOneMoreSecond(e) == e.ver >= 0 /\ e.age >= 0 /\ e.age <= TTL

Live(e) == e.ver >= 0 /\ e.age >= 0 /\ e.age < TTL

Hit(t, q) ==
    /\ pc[t] = "idle" /\ Live(cache[q])
    /\ UNCHANGED vars

\* An expired entry is erased on the way.
Miss(t, q) ==
    /\ pc[t] = "idle" /\ ~Live(cache[q])
    /\ cache' = [cache EXCEPT ![q] = None]
    /\ pc' = [pc EXCEPT ![t] = "stat"] /\ dir' = [dir EXCEPT ![t] = q]
    /\ UNCHANGED <<ver, back, read, raced, worker>>

There(q) == ver[q] \notin Missing[q]
Returns(t) ==
    /\ pc' = [pc EXCEPT ![t] = "idle"] /\ dir' = [dir EXCEPT ![t] = SomePath]
    /\ read' = [read EXCEPT ![t] = -1] /\ raced' = [raced EXCEPT ![t] = FALSE]

\* checkIsDirectory: a symlink is statted once more, through "link/.".
CheckIsDirectory(t) ==
    /\ pc[t] = "stat" /\ There(dir[t])
    /\ pc' = [pc EXCEPT ![t] = IF dir[t] \in Links THEN "through" ELSE "list"]
    /\ UNCHANGED <<ver, cache, back, dir, read, raced, worker>>

ThroughSymlink(t) ==
    /\ pc[t] = "through" /\ There(dir[t])
    /\ pc' = [pc EXCEPT ![t] = "list"]
    /\ UNCHANGED <<ver, cache, back, dir, read, raced, worker>>

\* It is not there, or any of the sessions failed: nothing is cached.
ListFails(t) ==
    /\ pc[t] \in {"stat", "through", "list"}
    /\ Returns(t) /\ UNCHANGED <<ver, cache, back, worker>>

\* Mutant: an error of the LIST session is not looked at.
SyncListUnchecked(t) ==
    /\ pc[t] = "list"
    /\ \E v \in {-1, ver[dir[t]]} : read' = [read EXCEPT ![t] = v]
    /\ pc' = [pc EXCEPT ![t] = "store"]
    /\ UNCHANGED <<ver, cache, back, dir, raced, worker>>

\* A directory that has gone since the STAT lists as an empty one.
SyncList(t) ==
    /\ pc[t] = "list" /\ read' = [read EXCEPT ![t] = ver[dir[t]]]
    /\ pc' = [pc EXCEPT ![t] = "store"]
    /\ UNCHANGED <<ver, cache, back, dir, raced, worker>>

\* resolveSymlinkTargets, which never fails the listing; then cache_.put.
Store(t) ==
    /\ pc[t] = "store"
    /\ cache' = [cache EXCEPT ![dir[t]] =
         [ver |-> read[t], age |-> 0, real |-> 0, raced |-> raced[t]]]
    /\ Returns(t) /\ UNCHANGED <<ver, back, worker>>

-----------------------------------------------------------------------------
(* The worker's thread.                                                    *)

\* The listings that show a target, and invalidatePathAndParent for it (for a
\* file, the first of its two invalidations finds nothing to drop).
Shows(x) == IF x.file THEN {x.dir} ELSE Below[x.dir] \cup {ParentOf[x.dir]}

\* Mutant: the path itself is dropped, its parent is not.
ItselfOnly(x) == IF x.file THEN <<>> ELSE <<x.dir>>

PathAndParent(x) == IF x.file THEN <<x.dir>> ELSE <<x.dir, ParentOf[x.dir]>>

Affected(o) == Shows(o.from) \cup Shows(o.to)

\* A move names two paths; an upload, a delete, a mkdir, a touch name one, and
\* so does a copy, for its cp and for its touch.
Begin(o) ==
    /\ wpc = "idle" /\ wpc' = "command" /\ op' = o /\ made' = Zero
    /\ UNCHANGED <<ver, cache, back, panel, todo, own>>

\* The device does it, at once or bit by bit as an upload arrives.
TakesEffect ==
    /\ wpc = "command" /\ Changed(Affected(op))
    /\ made' = [q \in Paths |-> IF q \in Affected(op) THEN ver'[q] ELSE 0]
    /\ UNCHANGED <<cache, back, panel, wpc, op, todo, own>>

\* No output, or adbd's OKAY; and an upload the user cancels.
Succeeds ==
    /\ wpc = "command" /\ wpc' = "drop"
    /\ todo' = PathAndParent(op.from)
                 \o (IF op.to = op.from THEN <<>> ELSE PathAndParent(op.to))
    /\ op' = Nothing /\ UNCHANGED <<ver, cache, back, panel, made, own>>

\* Output, a FAIL, a broken connection: whatever took effect, no invalidation.
Fails ==
    /\ wpc = "command" /\ wpc' = "idle" /\ made' = Zero /\ op' = Nothing
    /\ UNCHANGED <<ver, cache, back, panel, todo, own>>

\* cache_.invalidate.  A panel that is reading one of those is overtaken.
Drop ==
    /\ wpc = "drop" /\ todo # <<>> /\ todo' = Tail(todo)
    /\ cache' = [q \in Paths |-> IF q \in Below[Head(todo)] THEN None ELSE cache[q]]
    /\ raced' = [t \in Panels |-> raced[t] \/ (pc[t] # "idle" /\ dir[t] \in Below[Head(todo)])]
    /\ UNCHANGED <<ver, back, pc, dir, read, wpc, op, made, own>>

Finish ==
    /\ wpc = "drop" /\ todo = <<>> /\ wpc' = "idle" /\ made' = Zero
    /\ own' = [q \in Paths |-> IF made[q] > own[q] THEN made[q] ELSE own[q]]
    /\ UNCHANGED <<ver, cache, back, panel, op, todo>>

\* FsStatusInfoW at the start of a write operation, and FsDisconnectW.
Clear ==
    /\ wpc = "idle" /\ cache' = [q \in Paths |-> None]
    /\ UNCHANGED <<ver, back, panel, worker>>

PanelRuns(t) == CheckIsDirectory(t) \/ ThroughSymlink(t) \/ ListFails(t) \/ SyncList(t) \/ Store(t)
ListDirectory(t, q) == Hit(t, q) \/ Miss(t, q)

Next ==
    \/ \E q \in Paths : OtherAppChanges(q)
    \/ Tick \/ \E k \in 1..MaxBack : ClockSetBack(k)
    \/ \E t \in Panels, q \in Paths : ListDirectory(t, q)
    \/ \E t \in Panels : PanelRuns(t)
    \/ \E o \in Operations : Begin(o)
    \/ TakesEffect \/ Succeeds \/ Fails \/ Drop \/ Finish \/ Clear

Spec == Init /\ [][Next]_vars
-----------------------------------------------------------------------------
(* Properties.                                                             *)

Ages == (0 - MaxBack)..Oldest
Entries == [ver : Versions, age : Ages, real : 0..Oldest, raced : BOOLEAN]

\* Every variable stays in its range; what is stored is a listing that was read.
TypeOK ==
    /\ ver \in [Paths -> Versions] /\ back \in 0..MaxBack
    /\ cache \in [Paths -> Entries \cup {None}]
    /\ pc \in [Panels -> {"idle", "stat", "through", "list", "store"}]
    /\ dir \in [Panels -> Paths] /\ raced \in [Panels -> BOOLEAN]
    /\ read \in [Panels -> Versions \cup {-1}]
    /\ \A t \in Panels : pc[t] = "store" => read[t] \in Versions
    /\ wpc \in {"idle", "command", "drop"} /\ op \in Operations \cup {Nothing} /\ todo \in Seq(Paths)
    /\ made \in [Paths -> Versions] /\ own \in [Paths -> Versions]

\* The plugin's own finished change is in every listing it serves from the cache,
\* whatever the order in which two panels read and store while the worker works:
\* the one exception is a listing that was being read at the very moment of the
\* invalidation, and was stored after it.
OwnChangesShow ==
    \A q \in Paths : Cached(q) /\ ~cache[q].raced => cache[q].ver >= own[q]

\* What get() hands out was stored less than TTL real seconds ago, plus those the
\* wall clock has been set back.
ServedIsYoung == \A q \in Paths : Live(cache[q]) => cache[q].real < TTL + back

\* fsplugin_impl.hpp:1213-1215 and 707-711: every mutating operation invalidates the
\* affected directories, so that what it did is not hidden behind a stale listing
\* when it returns, whether it succeeded or not.
FailureShowsToo ==
    [][wpc # "idle" /\ wpc' = "idle" =>
         \A q \in Paths : Cached(q) /\ ~cache[q].raced => cache[q].ver >= made[q]]_vars
=============================================================================
