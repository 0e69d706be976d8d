--------------------------- MODULE SessionProofs ---------------------------
(***************************************************************************)
(* What is proved of FsInitW (Startup) and of the conversations that answer*)
(* a question (Session), for every environment, every list of install      *)
(* locations, every text the device may send and every base and number of  *)
(* digits of the length field.                                             *)
(***************************************************************************)
EXTENDS Session, SequenceTheorems, FiniteSetTheorems, TLAPS

-----------------------------------------------------------------------------
(* Induction over the natural numbers, in the form the provers can use: the*)
(* set of the numbers a claim holds of.                                    *)

\* A set that holds 0 and with every number its successor holds all numbers.  Were
\* n missing, k |-> k + 1 would fit the members up to n into fewer places.
LEMMA Counting ==
    ASSUME NEW T, 0 \in T, \A n \in Nat : n \in T => n + 1 \in T
    PROVE  \A n \in Nat : n \in T
<1> SUFFICES ASSUME NEW n \in Nat, n \notin T PROVE FALSE
    OBVIOUS
<1> DEFINE A == (0..n) \cap T
           f == [k \in A |-> k + 1]
<1>1. 0 \in A
    OBVIOUS
<1>2. IsFiniteSet(A)
    <2>1. IsFiniteSet(0..n) /\ A \in SUBSET (0..n)
        BY FS_Interval
    <2> HIDE DEF A
    <2> QED BY <2>1, FS_Subset
<1>3. /\ Cardinality(A) \in Nat
      /\ IsFiniteSet(A \ {0}) /\ Cardinality(A \ {0}) = Cardinality(A) - 1
    <2> HIDE DEF A
    <2> QED BY <1>1, <1>2, FS_RemoveElement, FS_CardinalityType
<1>4. f \in [A -> A \ {0}]
    OBVIOUS
<1>5. \E x, y \in A : x # y /\ f[x] = f[y]
    <2>1. Cardinality(A \ {0}) < Cardinality(A)
        BY <1>3
    <2> HIDE DEF A, f
    <2> QED BY <2>1, <1>2, <1>3, <1>4, FS_PigeonHole
<1> QED BY <1>5

\* Every nonempty set of numbers has a least one.
LEMMA Least ==
    ASSUME NEW T, T \subseteq Nat, T # {}
    PROVE  \E m \in T : \A k \in T : m <= k
<1> SUFFICES ASSUME \A m \in T : \E k \in T : k < m PROVE FALSE
    OBVIOUS
<1> DEFINE Below == {n \in Nat : \A k \in T : n <= k}
<1>1. 0 \in Below
    OBVIOUS
<1>2. ASSUME NEW n \in Nat, n \in Below PROVE n + 1 \in Below
    BY <1>2
<1>3. \A n \in Nat : n \in Below
    <2> HIDE DEF Below
    <2> QED BY <1>1, <1>2, Counting
<1>4. PICK k \in T : TRUE
    OBVIOUS
<1> QED BY <1>3, <1>4

LEMMA MinIsLeast ==
    ASSUME NEW T, T \subseteq Nat, T # {}
    PROVE  Min(T) \in T /\ \A k \in T : Min(T) <= k
BY Least DEF Min

-----------------------------------------------------------------------------
(* FsInitW.                                                                *)

Directories == STRING \cup {NoDir}

LEMMA PlacesType ==
    ASSUME NEW e \in Environments
    PROVE  Places(e) \in Seq(Directories)
<1> DEFINE fixed == [i \in DOMAIN Locations |->
                        IF Locations[i].home => e.home THEN Locations[i].dir ELSE NoDir]
<1>1. fixed \in Seq(Directories)
    <2>1. Len(Locations) \in Nat /\ DOMAIN Locations = 1..Len(Locations)
        BY StartupAssumption, LenProperties
    <2>2. ASSUME NEW i \in 1..Len(Locations) PROVE fixed[i] \in Directories
        <3>1. Locations[i] \in [dir : STRING \ {NoDir}, home : BOOLEAN]
            BY StartupAssumption, ElementOfSeq
        <3> QED BY <2>1, <3>1 DEF Directories
    <2>3. fixed = [i \in 1..Len(Locations) |-> fixed[i]]
        BY <2>1
    <2> HIDE DEF fixed
    <2> QED BY <2>1, <2>2, <2>3, IsASeq
<1>2. /\ <<e.adbPath>> \in Seq(Directories) /\ e.path \in Seq(Directories)
      /\ e.sdk \in Seq(Directories)
    <2>1. e.adbPath \in STRING /\ e.path \in Seq(STRING) /\ e.sdk \in Seq(STRING)
        BY StartupAssumption
    <2> QED BY <2>1, SeqMonotonic DEF Directories
<1> HIDE DEF fixed
<1>3. (<<e.adbPath>> \o e.path \o e.sdk) \o fixed \in Seq(Directories)
    BY <1>1, <1>2, ConcatProperties
<1> QED BY <1>3 DEF Places, fixed

\* What FindAdbBinary finds is executable, and nothing in front of it is: the first
\* place of a directory stands for all of them.
LEMMA FoundIsFirst ==
    ASSUME NEW e \in Environments, FindAdbBinary(e) # NoDir
    PROVE  \E i \in DOMAIN Places(e) :
              /\ FindAdbBinary(e) = Places(e)[i] /\ FindAdbBinary(e) \in e.executable
              /\ \A j \in 1..(i - 1) : Places(e)[j] \notin e.executable
<1> DEFINE found == {i \in AdbBinaryCandidates(e) : Places(e)[i] \in e.executable}
           first == Min(found)
<1>1. DOMAIN Places(e) \subseteq Nat
    BY PlacesType, LenProperties
<1>2. found # {} /\ FindAdbBinary(e) = Places(e)[first]
    BY DEF FindAdbBinary
<1>3. found \subseteq Nat /\ found \subseteq DOMAIN Places(e)
    BY <1>1 DEF AdbBinaryCandidates
<1>4. first \in found /\ \A k \in found : first <= k
    <2> HIDE DEF found
    <2> QED BY <1>2, <1>3, MinIsLeast
<1>5. ASSUME NEW j \in 1..(first - 1), Places(e)[j] \in e.executable PROVE FALSE
    <2> DEFINE same == {k \in 1..j : Places(e)[k] = Places(e)[j]}
    <2>1. j \in DOMAIN Places(e)
        BY <1>3, <1>4, PlacesType, LenProperties
    <2>2. PICK k \in same : \A l \in same : k <= l
        <3>1. same \subseteq Nat /\ same # {}
            BY <1>3, <1>4
        <3> HIDE DEF same
        <3> QED BY <3>1, Least
    <2>3. k \in DOMAIN Places(e) /\ Places(e)[k] \in e.executable /\ k <= j
        BY <2>1, <2>2, <1>3, <1>4, <1>5, PlacesType, LenProperties
    <2>4. Places(e)[k] # NoDir
        BY <2>3, StartupAssumption
    <2>5. \A l \in 1..(k - 1) : Places(e)[l] # Places(e)[k]
        BY <2>2
    <2>6. k \in found
        BY <2>3, <2>4, <2>5 DEF AdbBinaryCandidates
    <2> QED BY <2>6, <2>3, <1>4, <1>3, <1>1
<1> HIDE DEF first
<1> QED BY <1>2, <1>3, <1>4, <1>5

StartupType ==
    /\ env \in Environments /\ childOk \in BOOLEAN
    /\ init \in {"out", "start", "waitpid", "reset", "client", "core"}

\* Between the two resets nobody can follow a core to a client.
CoreIsReset == init \in {"client", "core"} => core = 0

\* Where FsInitW stands with the child it has spawned.
ChildIsTheInits ==
    /\ init = "start" => child = "none" /\ started = NoDir /\ ~childOk
    /\ init = "waitpid" => child \in {"running", "exited"}
    /\ init \in {"reset", "client", "core", "out"} => child \in {"none", "reaped"}
    /\ started # NoDir => started = FindAdbBinary(env)

\* Both sides of the conversation to come read the port off the same variable.
PortIsAgreed ==
    /\ childOk => AdbServerPort(env.port) \in listening
    /\ init = "core" \/ core # 0 => client.port = AdbServerPort(env.port)

StartupInv == StartupType /\ CoreHasItsClient /\ CoreIsReset /\ ChildIsTheInits /\ PortIsAgreed

LEMMA StartupBegins == StartupInit => StartupInv
BY DEF StartupInit, StartupInv, StartupType, CoreHasItsClient, CoreIsReset, ChildIsTheInits,
       PortIsAgreed

\* A server that came up listens where AdbServerPort points to, or nowhere.
LEMMA OwnPortIsTheClients ==
    ASSUME NEW e \in Environments, NEW p \in OwnPorts(e.port)
    PROVE  p = AdbServerPort(e.port)
BY StartupAssumption DEF OwnPorts, AdbServerPort

LEMMA StartupKeeps == StartupInv /\ StartupNext => StartupInv'
<1> SUFFICES ASSUME StartupInv, StartupNext PROVE StartupInv'
    OBVIOUS
<1> USE DEF StartupInv, StartupType, process, globals
<1>1. CASE FsInit
    <2>1. PICK e \in Environments :
              [e EXCEPT !.executable = {}] = [env EXCEPT !.executable = {}] /\ env' = e
        BY <1>1 DEF FsInit
    <2>2. e.port = env.port
        <3>1. /\ e.port = [e EXCEPT !.executable = {}].port
              /\ env.port = [env EXCEPT !.executable = {}].port
            BY StartupAssumption
        <3> QED BY <2>1, <3>1
    <2>3. StartupType' /\ CoreHasItsClient' /\ CoreIsReset'
        BY <1>1, <2>1 DEF FsInit, CoreHasItsClient, CoreIsReset
    <2>4. ChildIsTheInits'
        BY <1>1 DEF FsInit, ChildIsTheInits
    <2>5. PortIsAgreed'
        BY <1>1, <2>1, <2>2 DEF FsInit, PortIsAgreed
    <2> QED BY <2>3, <2>4, <2>5
<1>2. CASE ChildExits
    <2>1. init = "waitpid"
        BY <1>2 DEF ChildExits, ChildIsTheInits
    <2>2. childOk' \in BOOLEAN
        BY <1>2 DEF ChildExits
    <2>3. childOk' => AdbServerPort(env.port) \in listening'
        BY <1>2, OwnPortIsTheClients DEF ChildExits
    <2> QED BY <1>2, <2>1, <2>2, <2>3
            DEF ChildExits, CoreHasItsClient, CoreIsReset, ChildIsTheInits, PortIsAgreed
<1>3. CASE Spawn \/ SpawnFails \/ NothingToStart
    BY <1>3 DEF Spawn, SpawnFails, NothingToStart, CoreHasItsClient, CoreIsReset, ChildIsTheInits,
                PortIsAgreed
<1>4. CASE Signal \/ Waited
    BY <1>4 DEF Signal, Interrupted, Waited, CoreHasItsClient, CoreIsReset, ChildIsTheInits,
                PortIsAgreed
<1>5. CASE ResetCore \/ Throws
    BY <1>5 DEF ResetCore, Throws, CoreHasItsClient, CoreIsReset, ChildIsTheInits, PortIsAgreed
<1>6. CASE NewClient \/ NewCore
    BY <1>6 DEF NewClient, NewCore, CoreHasItsClient, CoreIsReset, ChildIsTheInits, PortIsAgreed
<1> QED BY <1>1, <1>2, <1>3, <1>4, <1>5, <1>6 DEF StartupNext, InitRuns

LEMMA StartupStays == StartupInv /\ UNCHANGED startup => StartupInv'
BY DEF StartupInv, StartupType, CoreHasItsClient, CoreIsReset, ChildIsTheInits, PortIsAgreed,
       startup, process, globals

LEMMA StartupInvImplies == StartupInv => CoreHasItsClient /\ StartIsClean
<1> SUFFICES ASSUME StartupInv, init = "out" PROVE StartIsClean
    BY DEF StartupInv, StartIsClean
<1>1. child \in {"none", "reaped"} /\ (childOk /\ core # 0 => client.port \in listening)
    BY DEF StartupInv, ChildIsTheInits, PortIsAgreed
<1>2. ASSUME started # NoDir
      PROVE  \E i \in DOMAIN Places(env) :
                /\ started = Places(env)[i] /\ started \in env.executable
                /\ \A j \in 1..(i - 1) : Places(env)[j] \notin env.executable
    <2>1. env \in Environments /\ started = FindAdbBinary(env)
        BY <1>2 DEF StartupInv, StartupType, ChildIsTheInits
    <2> QED BY <1>2, <2>1, FoundIsFirst
<1> QED BY <1>1, <1>2 DEF StartIsClean

-----------------------------------------------------------------------------
(* The length field.                                                       *)

\* A value for every index up to N, each computed from its predecessor.
Follows(g, c, N, step) == g[0] = c /\ \A i \in 1..N : g[i] = step[<<g[i - 1], i>>]

\* Such values exist.
LEMMA Recursion ==
    ASSUME NEW S, NEW c, NEW N \in Nat, NEW step,
           c \in S, \A v \in S, i \in 1..N : step[<<v, i>>] \in S
    PROVE  \E g \in [0..N -> S] : Follows(g, c, N, step)
<1> DEFINE Upto(n) == \E g \in [0..n -> S] : Follows(g, c, n, step)
           T == {n \in Nat : n <= N => Upto(n)}
<1>1. 0 \in T
    <2>1. Upto(0)
        <3> WITNESS [i \in 0..0 |-> c] \in [0..0 -> S]
        <3> QED BY DEF Follows
    <2> QED BY <2>1
<1>2. ASSUME NEW n \in Nat, Upto(n), n + 1 <= N PROVE Upto(n + 1)
    <2>1. PICK g \in [0..n -> S] : g[0] = c /\ \A i \in 1..n : g[i] = step[<<g[i - 1], i>>]
        BY <1>2 DEF Follows
    <2> DEFINE h == [i \in 0..(n + 1) |-> IF i <= n THEN g[i] ELSE step[<<g[n], n + 1>>]]
    <2>2. h \in [0..(n + 1) -> S]
        BY <1>2
    <2>3. h[0] = c
        BY <2>1
    <2>4. ASSUME NEW i \in 1..(n + 1) PROVE h[i] = step[<<h[i - 1], i>>]
        <3>1. CASE i \in 1..n
            BY <2>1, <3>1
        <3>2. CASE i = n + 1
            <4>1. n \in 0..(n + 1) /\ n + 1 \in 0..(n + 1) /\ (n + 1) - 1 = n
                OBVIOUS
            <4>2. h[n] = g[n]
                BY <4>1
            <4>3. h[n + 1] = step[<<g[n], n + 1>>]
                BY <4>1
            <4> QED BY <3>2, <4>1, <4>2, <4>3
        <3> QED BY <3>1, <3>2
    <2>5. Follows(h, c, n + 1, step)
        BY <2>3, <2>4 DEF Follows
    <2> HIDE DEF h
    <2> QED BY <2>2, <2>5
<1> HIDE DEF Upto
<1>3. ASSUME NEW n \in Nat, n \in T PROVE n + 1 \in T
    BY <1>2, <1>3
<1>4. N \in T
    <2> HIDE DEF T
    <2> QED BY <1>1, <1>3, Counting
<1>5. Upto(N)
    BY <1>4
<1> QED BY <1>5 DEF Upto

LEMMA WeightIs ==
    /\ Weight \in [0..HexDigits -> Nat \ {0}] /\ Weight[0] = 1
    /\ \A k \in 1..HexDigits : Weight[k] = HexBase * Weight[k - 1]
<1> DEFINE S == Nat \ {0}
           step == [p \in S \X (1..HexDigits) |-> HexBase * p[1]]
<1>1. ASSUME NEW v \in S PROVE HexBase * v \in S
    BY SessionAssumption
<1>2. \A v \in S, i \in 1..HexDigits : step[<<v, i>>] \in S
    BY <1>1
<1>3. HexDigits \in Nat /\ 1 \in S
    BY SessionAssumption
<1>4. PICK g \in [0..HexDigits -> S] : Follows(g, 1, HexDigits, step)
    <2> HIDE DEF step, S
    <2> QED BY <1>2, <1>3, Recursion
<1>5. ASSUME NEW i \in 1..HexDigits PROVE g[i] = HexBase * g[i - 1]
    <2>1. i - 1 \in 0..HexDigits /\ g[i - 1] \in S
        BY <1>3
    <2>2. step[<<g[i - 1], i>>] = HexBase * g[i - 1]
        BY <2>1
    <2> QED BY <1>4, <2>2 DEF Follows
<1>6. g = [k \in 0..HexDigits |-> IF k = 0 THEN 1 ELSE HexBase * g[k - 1]]
    BY <1>3, <1>4, <1>5 DEF Follows
<1>7. Weight = [k \in 0..HexDigits |-> IF k = 0 THEN 1 ELSE HexBase * Weight[k - 1]]
    BY <1>6 DEF Weight
<1> DEFINE Def(w) == \A k \in 0..HexDigits : w[k] = IF k = 0 THEN 1 ELSE HexBase * w[k - 1]
           T(w) == {k \in Nat : k <= HexDigits => w[k] \in S}
<1>8. Def(Weight)
    BY <1>7
<1>9. 0 \in T(Weight) /\ Weight[0] = 1
    BY <1>3, <1>8
<1>10. ASSUME NEW k \in Nat, k \in T(Weight) PROVE k + 1 \in T(Weight)
    <2> SUFFICES ASSUME k + 1 <= HexDigits PROVE Weight[k + 1] \in S
        OBVIOUS
    <2>1. Weight[k] \in S
        BY <1>3, <1>10
    <2>2. Weight[k + 1] = HexBase * Weight[k]
        BY <1>3, <1>8
    <2> QED BY <1>1, <2>1, <2>2
<1>11. \A k \in Nat : k \in T(Weight)
    <2> HIDE DEF T
    <2> QED BY <1>9, <1>10, Counting
<1>12. \A k \in 0..HexDigits : Weight[k] \in S
    BY <1>3, <1>11
<1>13. Weight \in [0..HexDigits -> S]
    BY <1>7, <1>12
<1> QED BY <1>3, <1>8, <1>9, <1>13

LEMMA LimitType == HostRequestMax \in Nat
BY WeightIs, SessionAssumption DEF HostRequestMax

\* The values parseHexLength comes to, digit by digit.
Values(digits, v) ==
    v[0] = 0 /\ \A i \in 1..Len(digits) : v[i] = (v[i - 1] * HexBase) + digits[i]

LEMMA ParsedDigits ==
    ASSUME NEW d \in Seq(0..(HexBase - 1))
    PROVE  \E v \in [0..Len(d) -> Nat] : Values(d, v) /\ ParseHexLength(d) = v[Len(d)]
<1> DEFINE N == Len(d)
           step == [p \in Nat \X (1..N) |-> (p[1] * HexBase) + d[p[2]]]
           Def(w) == w = [i \in 0..N |-> IF i = 0 THEN 0 ELSE (w[i - 1] * HexBase) + d[i]]
           value == CHOOSE w : Def(w)
           T(w) == {k \in Nat : k <= N => w[k] \in Nat}
<1>1. N \in Nat /\ HexBase \in Nat /\ \A i \in 1..N : d[i] \in Nat /\ d[i] \in 0..(HexBase - 1)
    BY LenProperties, ElementOfSeq, SessionAssumption
<1>2. ASSUME NEW v \in Nat, NEW i \in 1..N PROVE (v * HexBase) + d[i] \in Nat
    BY <1>1
<1>3. \A v \in Nat, i \in 1..N : step[<<v, i>>] \in Nat
    BY <1>2
<1>4. PICK g \in [0..N -> Nat] : Follows(g, 0, N, step)
    <2> HIDE DEF step, N
    <2> QED BY <1>1, <1>3, Recursion
<1>5. ASSUME NEW i \in 1..N PROVE g[i] = (g[i - 1] * HexBase) + d[i]
    <2> HIDE DEF N
    <2>1. i - 1 \in 0..N
        BY <1>1
    <2>2. g[i - 1] \in Nat
        BY <2>1, Zenon
    <2>3. step[<<g[i - 1], i>>] = (g[i - 1] * HexBase) + d[i]
        BY <2>2, Zenon
    <2> QED BY <1>4, <2>3 DEF Follows
<1>6. Def(g)
    <2> HIDE DEF N
    <2> QED BY <1>1, <1>4, <1>5 DEF Follows
<1>7. Def(value)
    <2> HIDE DEF Def
    <2> QED BY <1>6
<1>8. 0 \in T(value) /\ value[0] = 0
    <2> HIDE DEF value, N
    <2> QED BY <1>1, <1>7
<1>9. \A i \in 1..N : value[i] = (value[i - 1] * HexBase) + d[i]
    <2> HIDE DEF value, N
    <2> QED BY <1>1, <1>7
<1>10. ASSUME NEW k \in Nat, k \in T(value) PROVE k + 1 \in T(value)
    <2> HIDE DEF value, N
    <2> SUFFICES ASSUME k + 1 <= N PROVE value[k + 1] \in Nat
        OBVIOUS
    <2>1. value[k] \in Nat /\ k + 1 \in 1..N
        BY <1>1, <1>10
    <2>2. value[k + 1] = (value[k] * HexBase) + d[k + 1]
        BY <1>9, <2>1
    <2> QED BY <1>2, <2>1, <2>2
<1>11. \A k \in Nat : k \in T(value)
    <2> HIDE DEF T
    <2> QED BY <1>8, <1>10, Counting
<1>12. value \in [0..N -> Nat]
    <2>1. \A k \in 0..N : value[k] \in Nat
        <3> HIDE DEF value, N
        <3> QED BY <1>1, <1>11
    <2> HIDE DEF value, N
    <2> QED BY <1>7, <2>1
<1>13. ParseHexLength(d) = value[N]
    <2>1. DOMAIN d = 1..N
        BY LenProperties
    <2>2. ~\E i \in DOMAIN d : d[i] \notin 0..(HexBase - 1)
        BY <1>1, <2>1
    <2> QED BY <2>2 DEF ParseHexLength
<1>14. Values(d, value)
    <2> HIDE DEF value
    <2> QED BY <1>8, <1>9 DEF Values
<1> HIDE DEF value
<1> QED BY <1>12, <1>13, <1>14

LEMMA Retyped ==
    ASSUME NEW S, NEW T, NEW s \in Seq(S), \A i \in 1..Len(s) : s[i] \in T
    PROVE  s \in Seq(T)
<1>1. Len(s) \in Int /\ 1 \in Int
    BY LenProperties
<1>2. SubSeq(s, 1, Len(s)) \in Seq(T)
    BY <1>1, SubSeqProperties
<1> QED BY <1>2, SubSeqFull

LEMMA Carry ==
    ASSUME NEW a \in Nat, NEW b \in Nat, NEW w \in Nat, NEW base \in Nat, a + 1 <= w, b + 1 <= base
    PROVE  (a * base) + b + 1 <= base * w
<1>1. (a + 1) * base <= w * base
    OBVIOUS
<1>2. (a + 1) * base = (a * base) + base /\ w * base = base * w /\ a * base \in Nat
    OBVIOUS
<1> QED BY <1>1, <1>2

\* A length of HexDigits digits is below HexBase^HexDigits.
LEMMA ParsedLength ==
    ASSUME NEW d \in Seq(Nat), Len(d) = HexDigits
    PROVE  ParseHexLength(d) \in -1..HostRequestMax
<1>1. CASE \E i \in DOMAIN d : d[i] \notin 0..(HexBase - 1)
    BY <1>1, LimitType DEF ParseHexLength
<1>2. CASE \A i \in DOMAIN d : d[i] \in 0..(HexBase - 1)
    <2>1. d \in Seq(0..(HexBase - 1))
        <3>1. Len(d) \in Nat /\ DOMAIN d = 1..Len(d)
            BY LenProperties
        <3>2. \A i \in 1..Len(d) : d[i] \in 0..(HexBase - 1)
            BY <1>2, <3>1
        <3> QED BY <3>2, Retyped
    <2>2. PICK v \in [0..Len(d) -> Nat] : Values(d, v) /\ ParseHexLength(d) = v[Len(d)]
        BY <2>1, ParsedDigits
    <2>3. Len(d) \in Nat /\ HexBase \in Nat \ {0} /\ HexDigits \in Nat
        BY LenProperties, SessionAssumption
    <2> DEFINE T == {k \in Nat : k <= Len(d) => v[k] + 1 <= Weight[k]}
    <2>4. 0 \in T
        BY <2>2, WeightIs DEF Values
    <2>5. ASSUME NEW k \in Nat, k \in T PROVE k + 1 \in T
        <3> SUFFICES ASSUME k + 1 <= Len(d) PROVE v[k + 1] + 1 <= Weight[k + 1]
            OBVIOUS
        <3>1. v[k] \in Nat /\ v[k] + 1 <= Weight[k] /\ Weight[k] \in Nat
            BY <2>3, <2>5, WeightIs
        <3>2. Weight[k + 1] = HexBase * Weight[k]
            BY <2>3, WeightIs
        <3>3. d[k + 1] \in 0..(HexBase - 1) /\ v[k + 1] = (v[k] * HexBase) + d[k + 1]
            <4>1. k + 1 \in 1..Len(d) /\ k + 1 \in DOMAIN d /\ (k + 1) - 1 = k
                BY <2>3, LenProperties
            <4>2. d[k + 1] \in 0..(HexBase - 1)
                BY <1>2, <4>1
            <4> QED BY <2>2, <4>1, <4>2 DEF Values
        <3>4. (v[k] * HexBase) + d[k + 1] + 1 <= HexBase * Weight[k]
            <4>1. d[k + 1] \in Nat /\ d[k + 1] + 1 <= HexBase
                BY <2>3, <3>3
            <4> QED BY <2>3, <3>1, <4>1, Carry
        <3> QED BY <3>2, <3>3, <3>4
    <2>6. \A k \in Nat : k \in T
        <3> HIDE DEF T
        <3> QED BY <2>4, <2>5, Counting
    <2>7. v[Len(d)] + 1 <= Weight[Len(d)]
        BY <2>3, <2>6
    <2> QED BY <2>2, <2>3, <2>7, WeightIs DEF HostRequestMax
<1> QED BY <1>1, <1>2

LEMMA Quotient ==
    ASSUME NEW n \in Nat, NEW d \in Nat \ {0}, NEW q \in Nat, NEW r \in Nat, n = (d * q) + r, r < d
    PROVE  n \div d = q
<1> DEFINE p == n \div d
<1>1. p \in Nat /\ d * p <= n /\ n < (d * p) + d
    OBVIOUS
<1> HIDE DEF p
<1>2. CASE p < q
    <2>1. d * (p + 1) <= d * q
        BY <1>1, <1>2
    <2>2. d * (p + 1) = (d * p) + d /\ d * p \in Nat /\ d * q \in Nat
        BY <1>1
    <2> QED BY <1>1, <2>1, <2>2
<1>3. CASE q < p
    <2>1. d * (q + 1) <= d * p
        BY <1>1, <1>3
    <2>2. d * (q + 1) = (d * q) + d /\ d * p \in Nat /\ d * q \in Nat
        BY <1>1
    <2> QED BY <1>1, <2>1, <2>2
<1> QED BY <1>1, <1>2, <1>3 DEF p

\* Dividing by b and w at once leaves the digits in front of those that dividing by
\* w leaves.
LEMMA NextDigit ==
    ASSUME NEW n \in Nat, NEW w \in Nat \ {0}, NEW b \in Nat \ {0}
    PROVE  n \div w = ((n \div (b * w)) * b) + ((n \div w) % b)
<1> DEFINE q == n \div w
           r == n % w
           s == q \div b
           t == q % b
<1>1. q \in Nat /\ r \in Nat /\ n = (w * q) + r /\ r < w
    OBVIOUS
<1> HIDE DEF q, r
<1>2. s \in Nat /\ t \in Nat /\ q = (b * s) + t /\ t < b
    BY <1>1
<1> HIDE DEF s, t
<1>3. n = ((b * w) * s) + ((w * t) + r)
    <2>1. w * ((b * s) + t) = (w * (b * s)) + (w * t)
        BY <1>2
    <2>2. w * (b * s) = (b * w) * s
        BY <1>2
    <2> QED BY <1>1, <1>2, <2>1, <2>2
<1>4. (w * t) + r < b * w /\ (w * t) + r \in Nat /\ b * w \in Nat \ {0}
    <2>1. (t * w) + r + 1 <= w * b
        BY <1>1, <1>2, Carry
    <2>2. t * w = w * t /\ w * b = b * w /\ w * t \in Nat /\ b * w \in Nat /\ b * w # 0
        BY <1>2
    <2> QED BY <1>1, <2>1, <2>2
<1>5. n \div (b * w) = s
    <2> DEFINE d == b * w
               x == (w * t) + r
    <2>1. d \in Nat \ {0} /\ x \in Nat /\ x < d /\ n = (d * s) + x
        BY <1>3, <1>4
    <2> HIDE DEF d, x
    <2>2. n \div d = s
        BY <2>1, <1>2, Quotient
    <2> QED BY <2>2 DEF d
<1>6. q = (s * b) + t
    BY <1>2
<1> QED BY <1>5, <1>6 DEF q, t

LEMMA HexType ==
    ASSUME NEW n \in Nat
    PROVE  Hex(n) \in Seq(0..(HexBase - 1)) /\ Hex(n) \in Seq(Nat) /\ Len(Hex(n)) = HexDigits
<1>1. HexDigits \in Nat /\ HexBase \in Nat \ {0}
    BY SessionAssumption
<1>2. ASSUME NEW i \in 1..HexDigits
      PROVE  (n \div Weight[HexDigits - i]) % HexBase \in 0..(HexBase - 1)
    <2>1. Weight[HexDigits - i] \in Nat \ {0}
        BY <1>1, WeightIs
    <2>2. ASSUME NEW w \in Nat \ {0}, NEW b \in Nat \ {0} PROVE (n \div w) % b \in 0..(b - 1)
        OBVIOUS
    <2> QED BY <1>1, <2>1, <2>2
<1>3. Hex(n) \in Seq(0..(HexBase - 1))
    BY <1>1, <1>2, IsASeq DEF Hex
<1>4. Len(Hex(n)) = HexDigits
    BY <1>1 DEF Hex
<1>5. \A i \in 1..Len(Hex(n)) : Hex(n)[i] \in Nat
    BY <1>1, <1>3, ElementOfSeq
<1> QED BY <1>3, <1>4, <1>5, Retyped

\* What parseHexLength reads is what encodeHostRequest has written: after i digits
\* it holds n without its last HexDigits - i ones.
THEOREM HexRoundTrip ==
    ASSUME NEW n \in 0..HostRequestMax
    PROVE  ParseHexLength(Hex(n)) = n
<1> DEFINE d == Hex(n)
           left(k) == n \div Weight[HexDigits - k]
           T(v) == {k \in Nat : k <= HexDigits => v[k] = left(k)}
<1>1. n \in Nat /\ HexDigits \in Nat /\ HexBase \in Nat \ {0}
    BY LimitType, SessionAssumption
<1>2. d \in Seq(0..(HexBase - 1)) /\ Len(d) = HexDigits
    BY <1>1, HexType
<1>3. PICK v \in [0..HexDigits -> Nat] : Values(d, v) /\ ParseHexLength(d) = v[HexDigits]
    <2> HIDE DEF d
    <2> QED BY <1>2, ParsedDigits
<1>4. 0 \in T(v)
    <2>1. n < Weight[HexDigits] /\ Weight[HexDigits] \in Nat \ {0}
        BY <1>1, WeightIs DEF HostRequestMax
    <2>2. ASSUME NEW w \in Nat \ {0}, n < w PROVE n \div w = 0
        BY <1>1, <2>2
    <2>3. left(0) = 0
        BY <1>1, <2>1, <2>2
    <2>4. v[0] = 0
        BY <1>3 DEF Values
    <2> QED BY <2>3, <2>4
<1>5. ASSUME NEW k \in Nat, k \in T(v) PROVE k + 1 \in T(v)
    <2> SUFFICES ASSUME k + 1 <= HexDigits PROVE v[k + 1] = left(k + 1)
        OBVIOUS
    <2> DEFINE w == Weight[HexDigits - (k + 1)]
    <2>1. w \in Nat \ {0} /\ Weight[HexDigits - k] = HexBase * w
        <3>1. HexDigits - k \in 1..HexDigits /\ (HexDigits - k) - 1 = HexDigits - (k + 1)
            BY <1>1
        <3>2. HexDigits - (k + 1) \in 0..HexDigits
            BY <1>1
        <3> QED BY <3>1, <3>2, WeightIs
    <2>2. v[k] = n \div (HexBase * w)
        BY <1>1, <1>5, <2>1
    <2>3. d[k + 1] = (n \div w) % HexBase
        BY <1>1 DEF Hex
    <2>4. v[k + 1] = (v[k] * HexBase) + d[k + 1]
        <3>1. k + 1 \in 1..Len(d) /\ (k + 1) - 1 = k
            BY <1>1, <1>2
        <3> HIDE DEF d
        <3> QED BY <1>3, <3>1 DEF Values
    <2> HIDE DEF w, d
    <2>5. v[k + 1] = n \div w
        <3>1. n \div w = ((n \div (HexBase * w)) * HexBase) + ((n \div w) % HexBase)
            BY <1>1, <2>1, NextDigit
        <3> QED BY ONLY <2>2, <2>3, <2>4, <3>1, Zenon
    <2> QED BY <2>5 DEF w
<1>6. \A k \in Nat : k \in T(v)
    <2> HIDE DEF T
    <2> QED BY <1>4, <1>5, Counting
<1>7. v[HexDigits] = n \div 1
    <2>1. v[HexDigits] = left(HexDigits)
        BY <1>1, <1>6
    <2>2. HexDigits - HexDigits = 0
        BY <1>1
    <2> QED BY <2>1, <2>2, WeightIs
<1> QED BY <1>1, <1>3, <1>7

LEMMA ServiceType ==
    ASSUME NEW o \in Operations, NEW i \in DOMAIN Requests(o)
    PROVE  Requests(o)[i] \in Seq(Nat)
<1>1. o.serial \in Seq(Nat) /\ o.arg \in Seq(Nat)
    BY SessionAssumption
<1>2. Devices \in Seq(Nat) /\ Sync \in Seq(Nat)
    BY DEF Devices, Sync
<1>3. BindTo(o.serial) \in Seq(Nat) /\ Shell(o.arg) \in Seq(Nat)
    BY <1>1, ConcatProperties DEF BindTo, Shell
<1> QED BY <1>2, <1>3 DEF Requests

\* The other end reads off a frame the service that was put into it, and nothing
\* stays behind.
LEMMA FrameIsRead ==
    ASSUME NEW s \in Seq(Nat), Len(s) <= HostRequestMax
    PROVE  LET f == EncodeHostRequest(s)
               n == ParseHexLength(SubSeq(f, 1, HexDigits))
           IN  /\ f \in Seq(Nat) /\ f # <<>> /\ Len(f) = HexDigits + Len(s)
               /\ n = Len(s) /\ SubSeq(f, HexDigits + 1, HexDigits + n) = s
               /\ SubSeq(f, HexDigits + n + 1, Len(f)) = <<>>
<1> DEFINE h == Hex(Len(s))
<1>1. HexDigits \in Nat \ {0} /\ Len(s) \in 0..HostRequestMax /\ HostRequestMax \in Nat
    BY SessionAssumption, LimitType, LenProperties
<1>2. h \in Seq(Nat) /\ Len(h) = HexDigits
    BY <1>1, HexType
<1>3. EncodeHostRequest(s) = h \o s
    BY <1>1 DEF EncodeHostRequest
<1>4. h \o s \in Seq(Nat) /\ Len(h \o s) = HexDigits + Len(s)
    <2> HIDE DEF h
    <2> QED BY <1>2, ConcatProperties
<1>5. SubSeq(h \o s, 1, HexDigits) = h
    <2>1. SubSeq(h \o s, 1, HexDigits) = SubSeq(h, 1, HexDigits)
        <3> HIDE DEF h
        <3> QED BY <1>1, <1>2, SubSeqOfConcat1
    <2> HIDE DEF h
    <2> QED BY <1>2, <2>1, SubSeqFull
<1>6. ParseHexLength(h) = Len(s)
    BY <1>1, HexRoundTrip
<1>7. SubSeq(h \o s, HexDigits + 1, HexDigits + Len(s)) = s
    <2> HIDE DEF h
    <2>1. CASE Len(s) = 0
        BY <1>1, <2>1, SubSeqEmpty, EmptySeq
    <2>2. CASE Len(s) # 0
        <3> DEFINE m == HexDigits + 1
                   n == HexDigits + Len(s)
        <3>0. m \in (Len(h) + 1)..(Len(h) + Len(s)) /\ n \in (Len(h) + 1)..(Len(h) + Len(s))
            BY <1>1, <1>2, <2>2
        <3>2. m - Len(h) = 1 /\ n - Len(h) = Len(s)
            BY <1>1, <1>2
        <3> HIDE DEF m, n
        <3>3. SubSeq(h \o s, m, n) = SubSeq(s, m - Len(h), n - Len(h))
            BY ONLY <1>1, <1>2, <3>0, SubSeqOfConcat2, Zenon
        <3>1. SubSeq(h \o s, HexDigits + 1, HexDigits + Len(s)) = SubSeq(s, 1, Len(s))
            BY <3>2, <3>3 DEF m, n
        <3> QED BY <3>1, SubSeqFull
    <2> QED BY <2>1, <2>2
<1>8. SubSeq(h \o s, HexDigits + Len(s) + 1, HexDigits + Len(s)) = <<>>
    BY <1>1, SubSeqEmpty
<1> HIDE DEF h
<1>9. h \o s # <<>>
    BY <1>1, <1>4, EmptySeq
<1> QED BY <1>3, <1>4, <1>5, <1>6, <1>7, <1>8, <1>9

-----------------------------------------------------------------------------
(* Streams and their beginnings.                                           *)

Begins(s, t) == Len(s) <= Len(t) /\ \A i \in 1..Len(s) : s[i] = t[i]

LEMMA BeginsWith ==
    ASSUME NEW s \in Seq(Nat), NEW t \in Seq(Nat)
    PROVE  /\ Begins(s, s) /\ Begins(<<>>, t) /\ (Begins(s, t) <=> IsPrefix(s, t))
           /\ Begins(s, t) /\ Len(s) = Len(t) => s = t
<1>1. Begins(s, s) /\ Begins(<<>>, t)
    BY LenProperties, EmptySeq DEF Begins
<1>2. Begins(s, t) /\ Len(s) = Len(t) => s = t
    BY SeqEqual DEF Begins
<1>3. ASSUME Len(s) <= Len(t)
      PROVE  (\A i \in 1..Len(s) : s[i] = t[i]) <=> SubSeq(s, 1, Len(s)) = SubSeq(t, 1, Len(s))
    <2> DEFINE u == SubSeq(t, 1, Len(s))
    <2>1. Len(s) \in Nat /\ Len(t) \in Nat
        BY LenProperties
    <2>2. \A i \in 1..Len(s) : t[i] \in Nat
        BY <1>3, <2>1, ElementOfSeq
    <2>3. u \in Seq(Nat) /\ Len(u) = Len(s) /\ \A i \in 1..Len(s) : u[i] = t[i]
        BY <2>1, <2>2, SubSeqProperties
    <2>4. SubSeq(s, 1, Len(s)) = s
        BY SubSeqFull
    <2> HIDE DEF u
    <2>5. (\A i \in 1..Len(s) : s[i] = t[i]) => s = u
        BY <2>3, SeqEqual
    <2>6. s = u => \A i \in 1..Len(s) : s[i] = t[i]
        BY <2>3
    <2> QED BY <2>4, <2>5, <2>6 DEF u
<1> QED BY <1>1, <1>2, <1>3 DEF Begins, IsPrefix

\* What stays of a stream that has been cut off begins it too.
LEMMA CutBegins ==
    ASSUME NEW s \in Seq(Nat), NEW t \in Seq(Nat), Begins(s, t), NEW k \in 0..Len(s)
    PROVE  /\ SubSeq(s, 1, k) \in Seq(Nat) /\ Begins(SubSeq(s, 1, k), t)
           /\ k = Len(s) => SubSeq(s, 1, k) = s
<1> DEFINE u == SubSeq(s, 1, k)
<1>1. Len(s) \in Nat /\ Len(t) \in Nat /\ k \in Nat /\ k <= Len(s)
    BY LenProperties
<1>2. \A i \in 1..k : s[i] \in Nat
    BY <1>1, ElementOfSeq
<1>3. u \in Seq(Nat) /\ Len(u) = k /\ \A i \in 1..k : u[i] = s[i]
    BY <1>1, <1>2, SubSeqProperties
<1>4. k = Len(s) => u = s
    BY SubSeqFull
<1> HIDE DEF u
<1>5. Len(s) <= Len(t) /\ \A i \in 1..Len(s) : s[i] = t[i]
    BY DEF Begins
<1>6. ASSUME NEW i \in 1..k PROVE u[i] = t[i]
    <2>1. i \in 1..Len(s)
        BY <1>1
    <2> QED BY <1>3, <1>5, <2>1
<1>7. Begins(u, t)
    BY <1>1, <1>3, <1>5, <1>6 DEF Begins
<1> QED BY <1>3, <1>4, <1>7 DEF u

\* Reading the head of a stream leaves its rest.
LEMMA HeadIsRead ==
    ASSUME NEW s \in Seq(Nat), NEW u \in Seq(Nat), NEW t \in Seq(Nat),
           Begins(s, u \o t), Len(u) <= Len(s)
    PROVE  /\ SubSeq(s, 1, Len(u)) = u
           /\ SubSeq(s, Len(u) + 1, Len(s)) \in Seq(Nat)
           /\ s = u \o SubSeq(s, Len(u) + 1, Len(s))
           /\ Begins(SubSeq(s, Len(u) + 1, Len(s)), t)
           /\ s = u \o t => SubSeq(s, Len(u) + 1, Len(s)) = t
<1> DEFINE h == SubSeq(s, 1, Len(u))
           r == SubSeq(s, Len(u) + 1, Len(s))
<1>1. Len(s) \in Nat /\ Len(t) \in Nat /\ Len(u) \in Nat
    BY LenProperties
<1>2. \A i \in 1..Len(s) : s[i] \in Nat
    BY ElementOfSeq
<1>3. h \in Seq(Nat) /\ Len(h) = Len(u) /\ \A i \in 1..Len(u) : h[i] = s[i]
    BY <1>1, <1>2, SubSeqProperties
<1>4. r \in Seq(Nat) /\ Len(r) = Len(s) - Len(u) /\ \A i \in 1..Len(r) : r[i] = s[Len(u) + i]
    <2>1. \A i \in (Len(u) + 1)..Len(s) : s[i] \in Nat
        BY <1>1, <1>2
    <2>2. /\ r \in Seq(Nat) /\ Len(r) = IF Len(u) + 1 <= Len(s) THEN Len(s) - (Len(u) + 1) + 1 ELSE 0
          /\ \A i \in 1..(Len(s) - (Len(u) + 1) + 1) : r[i] = s[(Len(u) + 1) + i - 1]
        BY <1>1, <2>1, SubSeqProperties
    <2>3. Len(r) = Len(s) - Len(u)
        BY <1>1, <2>2
    <2> HIDE DEF r
    <2>4. ASSUME NEW i \in 1..Len(r) PROVE r[i] = s[Len(u) + i]
        <3>1. i \in 1..(Len(s) - (Len(u) + 1) + 1) /\ (Len(u) + 1) + i - 1 = Len(u) + i
            BY <1>1, <2>3
        <3> QED BY <2>2, <3>1
    <2> QED BY <2>2, <2>3, <2>4
<1>5. /\ Len(u \o t) = Len(u) + Len(t) /\ u \o t \in Seq(Nat)
      /\ \A i \in 1..(Len(u) + Len(t)) : (u \o t)[i] = IF i <= Len(u) THEN u[i] ELSE t[i - Len(u)]
    BY ConcatProperties
<1> HIDE DEF h, r
<1>6. Len(s) <= Len(u) + Len(t) /\ \A i \in 1..Len(s) : s[i] = (u \o t)[i]
    BY <1>5 DEF Begins
<1>7. h = u
    <2>1. ASSUME NEW i \in 1..Len(u) PROVE h[i] = u[i]
        <3>1. i \in 1..Len(s) /\ i \in 1..(Len(u) + Len(t)) /\ i <= Len(u)
            BY <1>1
        <3>2. s[i] = (u \o t)[i] /\ (u \o t)[i] = u[i]
            BY <1>5, <1>6, <3>1
        <3> QED BY <1>3, <3>2
    <2> QED BY <1>3, <2>1, SeqEqual
<1>8. Begins(r, t)
    <2>1. ASSUME NEW i \in 1..Len(r) PROVE r[i] = t[i]
        <3>1. Len(u) + i \in 1..Len(s) /\ Len(u) + i \in 1..(Len(u) + Len(t))
              /\ ~(Len(u) + i <= Len(u)) /\ (Len(u) + i) - Len(u) = i
            BY <1>1, <1>4, <1>6
        <3>2. r[i] = s[Len(u) + i]
            BY <1>4
        <3>3. s[Len(u) + i] = (u \o t)[Len(u) + i]
            BY <1>6, <3>1
        <3>4. (u \o t)[Len(u) + i] = t[(Len(u) + i) - Len(u)]
            BY <1>5, <3>1
        <3>5. (u \o t)[Len(u) + i] = t[i]
            BY <3>1, <3>4
        <3> QED BY <3>2, <3>3, <3>5, Zenon
    <2>2. Len(r) <= Len(t)
        BY <1>1, <1>4, <1>6
    <2> QED BY <2>1, <2>2 DEF Begins
<1>9. s = u \o r
    <2>1. /\ u \o r \in Seq(Nat) /\ Len(u \o r) = Len(u) + Len(r)
          /\ \A i \in 1..(Len(u) + Len(r)) : (u \o r)[i] = IF i <= Len(u) THEN u[i] ELSE r[i - Len(u)]
        BY <1>4, ConcatProperties
    <2>2. ASSUME NEW i \in 1..Len(s) PROVE s[i] = (u \o r)[i]
        <3>1. CASE i <= Len(u)
            BY <1>1, <1>3, <1>4, <1>7, <2>1, <3>1
        <3>2. CASE ~(i <= Len(u))
            <4>1. i - Len(u) \in 1..Len(r) /\ Len(u) + (i - Len(u)) = i /\ i \in 1..(Len(u) + Len(r))
                BY <1>1, <1>4, <3>2
            <4>2. (u \o r)[i] = r[i - Len(u)]
                BY <2>1, <3>2, <4>1
            <4>3. r[i - Len(u)] = s[Len(u) + (i - Len(u))]
                BY <1>4, <4>1
            <4>4. r[i - Len(u)] = s[i]
                BY <4>1, <4>3
            <4> QED BY <4>2, <4>4, Zenon
        <3> QED BY <3>1, <3>2
    <2>3. Len(s) = Len(u \o r)
        BY <1>1, <1>4, <2>1
    <2> QED BY <2>1, <2>2, <2>3, SeqEqual
<1>10. s = u \o t => r = t
    <2>1. s = u \o t => Len(r) = Len(t)
        BY <1>1, <1>4, <1>5
    <2> QED BY <1>4, <1>8, <2>1, BeginsWith
<1> QED BY <1>4, <1>7, <1>8, <1>9, <1>10 DEF h, r

Entry == [mode : Nat, size : Nat, mtime : Nat, name : Seq(Nat)]

LEMMA HeaderAndName ==
    ASSUME NEW h \in Seq(Nat), Len(h) = 5, NEW n \in Seq(Nat)
    PROVE  /\ h \o n \in Seq(Nat) /\ Len(h \o n) = 5 + Len(n)
           /\ \A i \in 1..5 : (h \o n)[i] = h[i]
           /\ SubSeq(h \o n, 6, 5 + Len(n)) = n
<1>1. Len(n) \in Nat
    BY LenProperties
<1>2. /\ h \o n \in Seq(Nat) /\ Len(h \o n) = Len(h) + Len(n)
      /\ \A i \in 1..(Len(h) + Len(n)) : (h \o n)[i] = IF i <= Len(h) THEN h[i] ELSE n[i - Len(h)]
    BY ConcatProperties
<1>3. \A i \in 1..5 : (h \o n)[i] = h[i]
    BY <1>1, <1>2
<1>4. Begins(h \o n, h \o n) /\ Len(h) <= Len(h \o n)
    <2> DEFINE f == h \o n
    <2>1. f \in Seq(Nat) /\ Len(h) <= Len(f)
        BY <1>1, <1>2
    <2> HIDE DEF f
    <2>2. Begins(f, f)
        BY <2>1, BeginsWith
    <2> QED BY <2>1, <2>2 DEF f
<1>5. SubSeq(h \o n, Len(h) + 1, Len(h \o n)) = n
    BY <1>2, <1>4, HeadIsRead
<1>6. Len(h) + 1 = 6 /\ Len(h \o n) = 5 + Len(n)
    BY <1>2
<1> QED BY <1>2, <1>3, <1>5, <1>6

LEMMA DentIs ==
    ASSUME NEW e \in Entry
    PROVE  /\ Dent(e) \in Seq(Nat) /\ Len(Dent(e)) = 5 + Len(e.name) /\ Len(e.name) \in Nat
           /\ Dent(e)[1] = DENT /\ Dent(e)[2] = e.mode /\ Dent(e)[3] = e.size
           /\ Dent(e)[4] = e.mtime /\ Dent(e)[5] = Len(e.name)
           /\ SubSeq(Dent(e), 6, 5 + Len(e.name)) = e.name
<1> DEFINE h == <<DENT, e.mode, e.size, e.mtime, Len(e.name)>>
<1>1. e.mode \in Nat /\ e.size \in Nat /\ e.mtime \in Nat /\ e.name \in Seq(Nat) /\ Len(e.name) \in Nat
    BY LenProperties DEF Entry
<1>2. DENT \in Nat
    BY DEF DENT
<1>3. /\ h \in Seq(Nat) /\ Len(h) = 5
      /\ h[1] = DENT /\ h[2] = e.mode /\ h[3] = e.size /\ h[4] = e.mtime /\ h[5] = Len(e.name)
    BY <1>1, <1>2
<1>4. Dent(e) = h \o e.name
    BY DEF Dent
<1> HIDE DEF h
<1>5. /\ Dent(e) \in Seq(Nat) /\ Len(Dent(e)) = 5 + Len(e.name)
      /\ \A i \in 1..5 : Dent(e)[i] = h[i]
      /\ SubSeq(Dent(e), 6, 5 + Len(e.name)) = e.name
    <2>1. PICK n \in Seq(Nat) : n = e.name
        BY <1>1
    <2>2. /\ h \o n \in Seq(Nat) /\ Len(h \o n) = 5 + Len(n)
          /\ \A i \in 1..5 : (h \o n)[i] = h[i]
          /\ SubSeq(h \o n, 6, 5 + Len(n)) = n
        BY <1>3, HeaderAndName
    <2>3. Dent(e) = h \o n
        BY <1>4, <2>1
    <2>4. Dent(e) \in Seq(Nat) /\ Len(Dent(e)) = 5 + Len(n)
        BY <2>2, <2>3
    <2>5. \A i \in 1..5 : Dent(e)[i] = h[i]
        BY <2>2, <2>3
    <2>6. SubSeq(Dent(e), 6, 5 + Len(n)) = n
        BY <2>2, <2>3
    <2> QED BY <2>1, <2>4, <2>5, <2>6
<1>6. /\ Dent(e)[1] = DENT /\ Dent(e)[2] = e.mode /\ Dent(e)[3] = e.size
      /\ Dent(e)[4] = e.mtime /\ Dent(e)[5] = Len(e.name)
    <2>1. /\ Dent(e)[1] = h[1] /\ Dent(e)[2] = h[2] /\ Dent(e)[3] = h[3] /\ Dent(e)[4] = h[4]
          /\ Dent(e)[5] = h[5]
        BY ONLY <1>5
    <2> QED BY <1>3, <2>1
<1> QED BY <1>1, <1>5, <1>6, Zenon

LEMMA SentIs ==
    ASSUME NEW c \in Seq(Entry)
    PROVE  /\ Sent(c) \in [0..Len(c) -> Seq(Nat)] /\ Sent(c)[0] = <<>>
           /\ \A i \in 1..Len(c) : Sent(c)[i] = Sent(c)[i - 1] \o Dent(c[i])
<1> DEFINE N == Len(c)
           S == Seq(Nat)
           step == [p \in S \X (1..N) |-> p[1] \o Dent(c[p[2]])]
           Def(w) == w = [i \in 0..N |-> IF i = 0 THEN <<>> ELSE w[i - 1] \o Dent(c[i])]
           upTo == CHOOSE w : Def(w)
           T(w) == {k \in Nat : k <= N => w[k] \in S}
<1>1. N \in Nat /\ \A i \in 1..N : Dent(c[i]) \in S
    BY LenProperties, ElementOfSeq, DentIs
<1>2. \A v \in S, i \in 1..N : v \o Dent(c[i]) \in S
    <2> HIDE DEF N
    <2> QED BY <1>1, ConcatProperties
<1>3. \A v \in S, i \in 1..N : step[<<v, i>>] \in S
    <2> HIDE DEF N, S
    <2> QED BY <1>2
<1>4. PICK g \in [0..N -> S] : Follows(g, <<>>, N, step)
    <2>1. <<>> \in S
        OBVIOUS
    <2> HIDE DEF step, N, S
    <2> QED BY <1>1, <1>3, <2>1, Recursion
<1>5. ASSUME NEW i \in 1..N PROVE g[i] = g[i - 1] \o Dent(c[i])
    <2> HIDE DEF N, S
    <2>1. i - 1 \in 0..N /\ g[i - 1] \in S
        BY <1>1
    <2>2. step[<<g[i - 1], i>>] = g[i - 1] \o Dent(c[i])
        BY <2>1
    <2> HIDE DEF step
    <2> QED BY <1>4, <2>2 DEF Follows
<1>6. Def(g)
    <2> HIDE DEF N, S, step
    <2>1. ASSUME NEW i \in 0..N PROVE g[i] = IF i = 0 THEN <<>> ELSE g[i - 1] \o Dent(c[i])
        <3>1. g[0] = <<>>
            BY <1>4 DEF Follows
        <3>2. i # 0 => i \in 1..N
            BY <1>1
        <3> QED BY <1>5, <3>1, <3>2
    <2>2. g = [i \in 0..N |-> g[i]]
        OBVIOUS
    <2> QED BY <2>1, <2>2
<1>7. Def(upTo)
    <2> HIDE DEF Def
    <2> QED BY <1>6
<1>8. upTo[0] = <<>> /\ \A i \in 1..N : upTo[i] = upTo[i - 1] \o Dent(c[i])
    <2> HIDE DEF upTo, N
    <2>1. ASSUME NEW i \in 0..N PROVE upTo[i] = IF i = 0 THEN <<>> ELSE upTo[i - 1] \o Dent(c[i])
        BY <1>7, Zenon
    <2>2. 0 \in 0..N /\ \A i \in 1..N : i \in 0..N /\ i # 0
        BY <1>1
    <2> QED BY <2>1, <2>2
<1>9. 0 \in T(upTo)
    <2>1. <<>> \in S
        OBVIOUS
    <2> HIDE DEF upTo, N, S
    <2> QED BY <1>8, <2>1
<1>10. ASSUME NEW k \in Nat, k \in T(upTo) PROVE k + 1 \in T(upTo)
    <2> HIDE DEF upTo, N, S
    <2> SUFFICES ASSUME k + 1 <= N PROVE upTo[k + 1] \in S
        OBVIOUS
    <2>1. upTo[k] \in S /\ k + 1 \in 1..N /\ (k + 1) - 1 = k
        BY <1>1, <1>10
    <2>2. upTo[k + 1] = upTo[k] \o Dent(c[k + 1])
        BY <1>8, <2>1
    <2> QED BY <1>2, <2>1, <2>2
<1>11. \A k \in Nat : k \in T(upTo)
    <2> HIDE DEF T
    <2> QED BY <1>9, <1>10, Counting
<1>12. upTo \in [0..N -> S]
    <2>1. \A k \in 0..N : upTo[k] \in S
        <3> HIDE DEF upTo, N, S
        <3> QED BY <1>1, <1>11
    <2> HIDE DEF upTo, N, S
    <2> QED BY <1>7, <2>1
<1>13. Sent(c) = upTo
    BY DEF Sent
<1> HIDE DEF upTo
<1> QED BY <1>8, <1>12, <1>13

\* Concatenation is associative, in the form in which the proofs use it.
Regroups(s, t, u) == (s \o t) \o u = s \o (t \o u)
LEMMA Regrouping == \A R : \A s, t, u \in Seq(R) : Regroups(s, t, u)
BY ConcatAssociative DEF Regroups
LEMMA Regrouped == \A s, t, u \in Seq(Nat) : Regroups(s, t, u)
BY Regrouping, Zenon

\* Behind the first k entries stands the next one, or the DONE.
LEMMA SentGoesOn ==
    ASSUME NEW c \in Seq(Entry), NEW k \in 0..Len(c)
    PROVE  /\ Sent(c)[k] \in Seq(Nat) /\ Stream(c) \in Seq(Nat) /\ DoneEntry \in Seq(Nat)
           /\ k = Len(c) => Stream(c) = Sent(c)[k] \o DoneEntry
           /\ k < Len(c) => \E rest \in Seq(Nat) : Stream(c) = Sent(c)[k] \o (Dent(c[k + 1]) \o rest)
<1>1. Len(c) \in Nat /\ k \in Nat /\ k <= Len(c)
    BY LenProperties
<1>2. DoneEntry \in Seq(Nat)
    BY DEF DoneEntry, DONE
<1>3. \A i \in 0..Len(c) : Sent(c)[i] \in Seq(Nat)
    BY SentIs
<1>4. Stream(c) = Sent(c)[Len(c)] \o DoneEntry /\ Stream(c) \in Seq(Nat)
    BY <1>1, <1>2, <1>3, ConcatProperties DEF Stream
<1>5. ASSUME k < Len(c)
      PROVE  \E rest \in Seq(Nat) : Stream(c) = Sent(c)[k] \o (Dent(c[k + 1]) \o rest)
    <2> DEFINE T == {n \in Nat : k + 1 + n <= Len(c) =>
                        \E rest \in Seq(Nat) : Sent(c)[k + 1 + n] = Sent(c)[k + 1] \o rest}
    <2>1. 0 \in T
        <3>1. Sent(c)[k + 1] \in Seq(Nat) /\ <<>> \in Seq(Nat)
            BY <1>1, <1>3, <1>5
        <3>2. Sent(c)[k + 1] = Sent(c)[k + 1] \o <<>>
            BY <3>1, ConcatEmptySeq
        <3>3. k + 1 + 0 = k + 1
            BY <1>1
        <3> QED BY <3>1, <3>2, <3>3
    <2>2. ASSUME NEW n \in Nat, n \in T PROVE n + 1 \in T
        <3> SUFFICES ASSUME k + 1 + (n + 1) <= Len(c)
                     PROVE  \E rest \in Seq(Nat) : Sent(c)[k + 1 + (n + 1)] = Sent(c)[k + 1] \o rest
            OBVIOUS
        <3> DEFINE m == k + 1 + n
        <3>1. m + 1 \in 1..Len(c) /\ (m + 1) - 1 = m /\ k + 1 + (n + 1) = m + 1 /\ m <= Len(c) /\ k + 1 \in 0..Len(c)
            BY <1>1
        <3>2. PICK rest \in Seq(Nat) : Sent(c)[m] = Sent(c)[k + 1] \o rest
            BY <2>2, <3>1
        <3> HIDE DEF m
        <3>3. Sent(c)[m + 1] = Sent(c)[m] \o Dent(c[m + 1]) /\ Dent(c[m + 1]) \in Seq(Nat)
            BY <3>1, SentIs, ElementOfSeq, DentIs
        <3>4. Sent(c)[k + 1] \in Seq(Nat)
            BY <1>3, <3>1
        <3>5. Sent(c)[m + 1] = Sent(c)[k + 1] \o (rest \o Dent(c[m + 1]))
            <4> DEFINE d == Dent(c[m + 1])
                       l == Sent(c)[k + 1]
            <4>1. d \in Seq(Nat) /\ l \in Seq(Nat) /\ Sent(c)[m + 1] = (l \o rest) \o d
                BY <3>2, <3>3, <3>4
            <4> HIDE DEF d, l
            <4>2. Regroups(l, rest, d)
                BY <4>1, Regrouped, Zenon
            <4> QED BY <4>1, <4>2 DEF d, l, Regroups
        <3>6. rest \o Dent(c[m + 1]) \in Seq(Nat)
            BY <3>3, ConcatProperties
        <3> QED BY <3>1, <3>5, <3>6
    <2>3. \A n \in Nat : n \in T
        <3> HIDE DEF T
        <3> QED BY <2>1, <2>2, Counting
    <2>4. PICK rest \in Seq(Nat) : Sent(c)[Len(c)] = Sent(c)[k + 1] \o rest
        <3>1. Len(c) - (k + 1) \in Nat /\ k + 1 + (Len(c) - (k + 1)) = Len(c)
            BY <1>1, <1>5
        <3>2. Len(c) - (k + 1) \in T
            BY <2>3, <3>1
        <3>3. k + 1 + (Len(c) - (k + 1)) <= Len(c)
            BY <1>1, <3>1
        <3>4. PICK rest \in Seq(Nat) : Sent(c)[k + 1 + (Len(c) - (k + 1))] = Sent(c)[k + 1] \o rest
            BY <3>2, <3>3
        <3> QED BY <3>1, <3>4
    <2>5. Sent(c)[k + 1] = Sent(c)[k] \o Dent(c[k + 1]) /\ Dent(c[k + 1]) \in Seq(Nat)
        <3>1. k + 1 \in 1..Len(c) /\ (k + 1) - 1 = k
            BY <1>1, <1>5
        <3> QED BY <3>1, SentIs, ElementOfSeq, DentIs
    <2>6. Sent(c)[k] \in Seq(Nat)
        BY <1>3
    <2> DEFINE d == Dent(c[k + 1])
               l == Sent(c)[k]
    <2> HIDE DEF d, l
    <2>7. Stream(c) = ((l \o d) \o rest) \o DoneEntry
        BY <1>4, <2>4, <2>5 DEF d, l
    <2>8. d \in Seq(Nat) /\ l \in Seq(Nat) /\ l \o d \in Seq(Nat) /\ rest \o DoneEntry \in Seq(Nat)
        BY <1>2, <2>5, <2>6, ConcatProperties DEF d, l
    <2>9. ((l \o d) \o rest) \o DoneEntry = (l \o d) \o (rest \o DoneEntry)
        <3> DEFINE f == l \o d
        <3>1. f \in Seq(Nat)
            BY <2>8
        <3> HIDE DEF f
        <3>2. Regroups(f, rest, DoneEntry)
            BY <1>2, <3>1, Regrouped, Zenon
        <3> QED BY <3>2 DEF f, Regroups
    <2>10. (l \o d) \o (rest \o DoneEntry) = l \o (d \o (rest \o DoneEntry))
        <3> DEFINE f == rest \o DoneEntry
        <3>1. f \in Seq(Nat)
            BY <2>8
        <3> HIDE DEF f
        <3>2. Regroups(l, d, f)
            BY <2>8, <3>1, Regrouped, Zenon
        <3> QED BY <3>2 DEF f, Regroups
    <2> QED BY <2>7, <2>8, <2>9, <2>10 DEF d, l
<1> QED BY <1>2, <1>3, <1>4, <1>5

-----------------------------------------------------------------------------
(* The conversation.                                                       *)

Meant(o) == Requests(o) \o <<<<Packet(o)>> \o o.arg>>
Reading  == {"entry", "name", "stat", "reason"}
Waiting  == {"status", "length", "refusedLength", "payload", "output"} \cup Reading
Talking  == {"request", "packet"} \cup Waiting

SessionType ==
    /\ pc \in {"idle", "connect", "done"} \cup Talking
    /\ op \in Operations \cup {NoOp} /\ (op = NoOp <=> pc = "idle")
    /\ in \in Seq(Nat) /\ out \in Seq(Nat) /\ want \in Nat /\ heard \in Seq(Seq(Nat))
    /\ conn \in {"down", "up", "eof", "reset"} /\ DOMAIN truth = DOMAIN NoTruth

\* Outside the exchange there is no connection, and in front of it nothing is left
\* of the one before.
AtRest ==
    /\ pc \notin Talking <=> conn = "down"
    /\ conn = "down" => in = <<>> /\ out = <<>> /\ want = 0 /\ acc = <<>>
    /\ pc \in {"idle", "connect"} =>
          stage = 1 /\ result = NoResult /\ mode = "host" /\ heard = <<>> /\ truth = NoTruth

\* The lengths that have been read off the wire.
Lengths ==
    /\ stage \in 1..2 /\ (op # NoOp => stage <= Len(Requests(op)))
    /\ want <= SyncPathMax \/ want <= FailMax \/ want <= HostRequestMax
    /\ pc = "packet" => op.kind \in {"list", "stat"}
    /\ pc = "name" => want <= SyncPathMax
    /\ pc \in {"reason", "payload"} => want <= FailMax \/ want <= HostRequestMax

HeardIsMeant ==
    op # NoOp =>
        Len(heard) <= Len(Meant(op)) /\ \A i \in 1..Len(heard) : heard[i] = Meant(op)[i]

\* While the connection is up the two sides take turns.
Before == IF stage = 1 THEN "host" ELSE "device"
Asks ==         \* nothing has been said, or been answered, since the last OKAY
    /\ in = <<>> /\ acc = <<>> /\ truth = NoTruth
    /\ \/ pc = "request" /\ out = <<>> /\ Len(heard) = stage - 1 /\ mode = Before
       \/ /\ pc = "status" /\ Len(Requests(op)[stage]) <= HostRequestMax
          /\ out = EncodeHostRequest(Requests(op)[stage])
          /\ Len(heard) = stage - 1 /\ mode = Before
       \/ pc = "packet" /\ out = <<>> /\ Len(heard) = Len(Requests(op)) /\ mode = "sync"
       \/ /\ pc \in {"entry", "stat"} /\ out = SyncPacket(Packet(op), op.arg)
          /\ Len(heard) = Len(Requests(op)) /\ mode = "sync"
Accepted ==     \* a request has, and its OKAY is on the way
    /\ pc = "status" /\ in = <<OKAY>> /\ acc = <<>> /\ truth = NoTruth /\ out = <<>>
    /\ Len(heard) = stage
    /\ \/ stage < Len(Requests(op)) /\ mode = "device"
       \/ stage = Len(Requests(op)) /\ op.kind \in {"list", "stat"} /\ mode = "sync"
Answered == pc \in Reading /\ out = <<>> /\ truth.sane /\ truth.whole
TakesTurns == conn = "up" => Asks \/ Accepted \/ Answered

\* A stream that has arrived up to some token, or all of it.
Arrived(s, full) == Begins(s, full) /\ (truth.whole => s = full)

Unanswered == in = <<>> /\ acc = <<>> /\ truth.value = <<>> /\ truth.reason = <<>>
Framed(text) == Hex(Len(text)) \o text
Refused(head) == truth.reason \in Reasons /\ Arrived(in, head \o truth.reason)
Listed(k) ==
    /\ truth.value \in Contents /\ truth.reason = <<>> /\ k \in 0..Len(truth.value)
    /\ acc = SubSeq(truth.value, 1, k)
    /\ Arrived(Sent(truth.value)[k] \o in, Stream(truth.value))

\* What the client has read, with what is on its way, is the answer.
Expects ==
    CASE pc \in {"request", "packet"} -> Unanswered
      [] pc = "status" ->
            \/ Unanswered
            \/ /\ acc = <<>> /\ truth.value = <<>>
               /\ \/ /\ truth.reason = <<>> /\ Arrived(in, <<OKAY>>)
                     /\ stage < Len(Requests(op)) \/ op.kind \in {"list", "stat"}
                  \/ Refused(<<FAIL>> \o Hex(Len(truth.reason)))
            \/ /\ acc = <<>> /\ truth.reason = <<>> /\ stage = Len(Requests(op))
               /\ \/ /\ op.kind = "devices" /\ truth.value \in DeviceTexts
                     /\ Arrived(in, <<OKAY>> \o Framed(truth.value))
                  \/ /\ op.kind = "shell" /\ truth.value \in Outputs
                     /\ Arrived(in, <<OKAY>> \o truth.value)
      [] pc = "length" ->
            /\ op.kind = "devices" /\ truth.reason = <<>> /\ truth.value \in DeviceTexts
            /\ Arrived(in, Framed(truth.value))
      [] pc = "payload" ->
            /\ op.kind = "devices" /\ truth.reason = <<>> /\ truth.value \in DeviceTexts
            /\ want = Len(truth.value) /\ Arrived(in, truth.value)
      [] pc = "refusedLength" -> Refused(Hex(Len(truth.reason)))
      [] pc = "reason" -> want = Len(truth.reason) /\ Refused(<<>>)
      [] pc = "output" ->
            /\ op.kind = "shell" /\ truth.reason = <<>> /\ truth.value \in Outputs
            /\ acc \in Seq(Nat) /\ Arrived(acc \o in, truth.value)
      [] pc = "entry" ->
            /\ op.kind = "list"
            /\ \/ Unanswered \/ (acc = <<>> /\ Refused(<<FAIL, Len(truth.reason)>>))
               \/ \E k \in 0..Len(truth.value) : Listed(k)
      [] pc = "name" ->
            /\ op.kind = "list"
            /\ Len(in) >= 5 => want = in[5] /\ in[1] \in {DENT, DONE}
            /\ \E k \in 0..Len(truth.value) : Listed(k)
      [] pc = "stat" ->
            /\ op.kind = "stat"
            /\ \/ Unanswered \/ (acc = <<>> /\ Refused(<<FAIL, Len(truth.reason)>>))
               \/ /\ truth.reason = <<>> /\ truth.value = <<>> /\ Arrived(in, <<STAT, 0, 0, 0>>)
               \/ \E s \in [mode : Nat, size : Nat, mtime : Nat] :
                     /\ ~Absent(s) /\ truth.reason = <<>> /\ truth.value = <<s>>
                     /\ Arrived(in, <<STAT, s.mode, s.size, s.mtime>>)
      [] OTHER -> TRUE
AnswerIsCarried == truth.sane => Expects

SessionInv ==
    /\ SessionType /\ AtRest /\ Lengths /\ HeardIsMeant /\ TakesTurns
    /\ AnswerIsCarried /\ AnswerIsTheDevices
IInv == StartupInv /\ SessionInv

LEMMA RequestsAre ==
    ASSUME NEW o \in Operations
    PROVE  /\ o.kind \in {"devices", "list", "stat", "shell"} /\ o.arg \in Seq(Nat) /\ o.serial \in Seq(Nat)
           /\ o # NoOp /\ Len(Requests(o)) = (IF o.kind = "devices" THEN 1 ELSE 2)
           /\ Requests(o) \in Seq(Seq(Nat)) /\ Packet(o) \in Nat
           /\ Meant(o) \in Seq(Seq(Nat)) /\ Len(Meant(o)) = Len(Requests(o)) + 1
           /\ \A i \in 1..Len(Requests(o)) : Meant(o)[i] = Requests(o)[i]
           /\ Meant(o)[Len(Requests(o)) + 1] = <<Packet(o)>> \o o.arg
<1>1. /\ o.kind \in {"devices", "list", "stat", "shell"} /\ o.arg \in Seq(Nat) /\ o.serial \in Seq(Nat)
      /\ o # NoOp
    BY SessionAssumption DEF NoOp
<1>2. Len(Requests(o)) = (IF o.kind = "devices" THEN 1 ELSE 2)
    BY <1>1 DEF Requests
<1>3. Requests(o) \in Seq(Seq(Nat))
    <2>1. Devices \in Seq(Nat) /\ Sync \in Seq(Nat) /\ BindTo(o.serial) \in Seq(Nat) /\ Shell(o.arg) \in Seq(Nat)
        BY <1>1, ConcatProperties DEF Devices, Sync, BindTo, Shell
    <2> QED BY <2>1 DEF Requests
<1>4. Packet(o) \in Nat
    BY DEF Packet, LIST, STAT
<1>5. <<<<Packet(o)>> \o o.arg>> \in Seq(Seq(Nat))
    BY <1>1, <1>4, ConcatProperties
<1> DEFINE last == <<Packet(o)>> \o o.arg
<1>6. <<last>> \in Seq(Seq(Nat)) /\ Len(<<last>>) = 1 /\ <<last>>[1] = last
    BY <1>5
<1>7. Meant(o) = Requests(o) \o <<last>>
    BY DEF Meant
<1> HIDE DEF last
<1>8. /\ Meant(o) \in Seq(Seq(Nat)) /\ Len(Meant(o)) = Len(Requests(o)) + 1
      /\ \A i \in 1..(Len(Requests(o)) + 1) :
            Meant(o)[i] = IF i <= Len(Requests(o)) THEN Requests(o)[i] ELSE <<last>>[i - Len(Requests(o))]
    BY <1>3, <1>6, <1>7, ConcatProperties
<1>9. \A i \in 1..Len(Requests(o)) : Meant(o)[i] = Requests(o)[i]
    BY <1>2, <1>8
<1>10. Meant(o)[Len(Requests(o)) + 1] = last
    BY <1>2, <1>6, <1>8
<1> QED BY <1>1, <1>2, <1>3, <1>4, <1>8, <1>9, <1>10 DEF last

LEMMA SessionBegins == Idle => SessionInv
<1> SUFFICES ASSUME Idle PROVE SessionInv
    OBVIOUS
<1> USE DEF Idle
<1>1. SessionType /\ AtRest
    BY DEF SessionType, AtRest, Talking, Waiting, Reading
<1>2. Lengths /\ HeardIsMeant /\ TakesTurns
    BY SessionAssumption DEF Lengths, HeardIsMeant, TakesTurns
<1>3. AnswerIsCarried /\ AnswerIsTheDevices
    BY DEF AnswerIsCarried, Expects, AnswerIsTheDevices
<1> QED BY <1>1, <1>2, <1>3 DEF SessionInv

LEMMA SessionStays == SessionInv /\ UNCHANGED <<session, stream, peer>> => SessionInv'
<1> SUFFICES ASSUME SessionInv, UNCHANGED <<session, stream, peer>> PROVE SessionInv'
    OBVIOUS
<1> USE DEF session, stream, peer
<1>1. SessionType' /\ AtRest' /\ Lengths' /\ HeardIsMeant'
    BY DEF SessionInv, SessionType, AtRest, Lengths, HeardIsMeant
<1>2. TakesTurns'
    BY DEF SessionInv, TakesTurns, Asks, Accepted, Answered, Before
<1>3. AnswerIsCarried'
    BY DEF SessionInv, AnswerIsCarried, Expects, Unanswered, Arrived, Refused, Listed
<1>4. AnswerIsTheDevices'
    BY DEF SessionInv, AnswerIsTheDevices
<1> QED BY <1>1, <1>2, <1>3, <1>4 DEF SessionInv

\* An answer that may be given now.
Good(r) ==
    truth.sane =>
        /\ r.ok =>
              IF op.kind = "shell" THEN IsPrefix(r.value, truth.value)
                                        /\ (truth.whole => r.value = truth.value)
              ELSE r.value = truth.value
        /\ ~r.ok =>
              /\ op.kind # "shell" => r.value = <<>>
              /\ truth.whole /\ truth.reason # <<>> => r.error = truth.reason

LEMMA Ending ==
    ASSUME SessionInv, pc \in Talking \cup {"connect"}, NEW r, End(r), UNCHANGED peer, Good(r)
    PROVE  SessionInv'
<1>1. /\ pc' = "done" /\ result' = r /\ conn' = "down" /\ in' = <<>> /\ out' = <<>> /\ want' = 0
      /\ acc' = <<>> /\ op' = op /\ stage' = stage /\ heard' = heard /\ truth' = truth
    BY DEF End, peer
<1>2. SessionType'
    BY <1>1 DEF SessionInv, SessionType, Talking, Waiting, Reading
<1>3. AtRest'
    BY <1>1 DEF AtRest, Talking, Waiting, Reading
<1>4. Lengths' /\ HeardIsMeant' /\ TakesTurns'
    BY <1>1, SessionAssumption DEF SessionInv, Lengths, HeardIsMeant, TakesTurns
<1>5. AnswerIsCarried'
    BY <1>1 DEF AnswerIsCarried, Expects
<1>6. AnswerIsTheDevices'
    BY <1>1 DEF AnswerIsTheDevices, Good
<1> QED BY <1>2, <1>3, <1>4, <1>5, <1>6 DEF SessionInv

\* A failure of the client's own is a good answer where no reason has arrived.
LEMMA FailedIsGood ==
    ASSUME truth.sane /\ truth.whole => truth.reason = <<>>
    PROVE  Good(Failed(Own))
BY DEF Good, Failed

LEMMA WhileTalking ==
    ASSUME SessionInv, pc \in Talking
    PROVE  /\ op \in Operations /\ in \in Seq(Nat) /\ out \in Seq(Nat) /\ want \in Nat
           /\ heard \in Seq(Seq(Nat)) /\ conn \in {"up", "eof", "reset"}
           /\ stage \in 1..Len(Requests(op)) /\ Len(Requests(op)) \in 1..2
           /\ truth.sane => Expects
<1>1. op \in Operations
    BY DEF SessionInv, SessionType, Talking, Waiting, Reading
<1>2. Len(Requests(op)) \in 1..2
    <2>1. Len(Requests(op)) = IF op.kind = "devices" THEN 1 ELSE 2
        BY <1>1, RequestsAre
    <2> QED BY <2>1
<1> QED BY <1>1, <1>2, RequestsAre
        DEF SessionInv, SessionType, AtRest, Lengths, AnswerIsCarried, Talking, Waiting, Reading

LEMMA Connecting ==
    ASSUME SessionInv, Connect \/ NobodyListens \/ ConnectFails, UNCHANGED peer
    PROVE  SessionInv'
<1>1. /\ pc = "connect" /\ conn = "down" /\ in = <<>> /\ out = <<>> /\ want = 0 /\ acc = <<>>
      /\ stage = 1 /\ mode = "host" /\ heard = <<>> /\ truth = NoTruth
    BY DEF SessionInv, AtRest, Talking, Waiting, Reading, Connect, NobodyListens, ConnectFails
<1>2. CASE NobodyListens \/ ConnectFails
    BY <1>1, <1>2, Ending, FailedIsGood DEF NobodyListens, ConnectFails, NoTruth
<1>3. CASE Connect
    <2>1. /\ pc' = "request" /\ conn' = "up" /\ op' = op /\ stage' = 1 /\ want' = 0 /\ acc' = <<>>
          /\ in' = <<>> /\ out' = <<>> /\ mode' = "host" /\ heard' = <<>> /\ truth' = NoTruth
        BY <1>1, <1>3 DEF Connect, peer
    <2>2. SessionType'
        BY <1>1, <2>1 DEF SessionInv, SessionType, Talking, Waiting, Reading
    <2>3. AtRest' /\ Lengths' /\ HeardIsMeant'
        BY <1>1, <2>1 DEF SessionInv, AtRest, Lengths, HeardIsMeant, Talking, Waiting, Reading
    <2>4. TakesTurns'
        BY <2>1 DEF TakesTurns, Asks, Before
    <2>5. AnswerIsCarried' /\ AnswerIsTheDevices'
        BY <2>1 DEF AnswerIsCarried, Expects, Unanswered, AnswerIsTheDevices, NoTruth
    <2> QED BY <2>2, <2>3, <2>4, <2>5 DEF SessionInv
<1> QED BY <1>2, <1>3

LEMMA Requesting ==
    ASSUME SessionInv, Request \/ WriteFails \/ WriteSyncPacket, UNCHANGED peer
    PROVE  SessionInv'
<1>1. pc \in {"request", "packet"} /\ pc \in Talking
    BY DEF Request, WriteFails, WriteSyncPacket, Talking, Waiting
<1>2. /\ op \in Operations /\ in \in Seq(Nat) /\ out \in Seq(Nat) /\ conn \in {"up", "eof", "reset"}
      /\ stage \in 1..Len(Requests(op)) /\ (truth.sane => Unanswered)
    BY <1>1, WhileTalking DEF Expects
<1>3. CASE \E r : r = Failed(Own) /\ End(r)
    BY <1>1, <1>2, <1>3, Ending, FailedIsGood DEF Unanswered
<1>4. CASE Request /\ EncodeHostRequest(Requests(op)[stage]) # <<>>
    <2> DEFINE s == Requests(op)[stage]
    <2>1. s \in Seq(Nat) /\ Len(s) <= HostRequestMax
        <3>1. Requests(op) \in Seq(Seq(Nat))
            BY <1>2, RequestsAre
        <3>2. s \in Seq(Nat) /\ Len(s) \in Nat
            BY <1>2, <3>1, ElementOfSeq, LenProperties
        <3>3. ~(Len(s) > HostRequestMax)
            BY <1>4 DEF EncodeHostRequest
        <3> QED BY <3>2, <3>3, LimitType
    <2>2. EncodeHostRequest(s) \in Seq(Nat)
        <3> HIDE DEF s
        <3> QED BY <2>1, FrameIsRead
    <2>3. /\ pc = "request" /\ pc' = "status" /\ op' = op /\ stage' = stage /\ want' = want /\ acc' = acc
          /\ in' = in /\ conn' = conn /\ heard' = heard /\ mode' = mode /\ truth' = truth
          /\ out' = IF conn = "up" THEN out \o EncodeHostRequest(s) ELSE out
        BY <1>4 DEF Request, peer
    <2>4. out' \in Seq(Nat)
        <3> HIDE DEF s
        <3> QED BY <1>2, <2>2, <2>3, ConcatProperties
    <2>5. SessionType'
        BY <2>3, <2>4 DEF SessionInv, SessionType, Talking, Waiting, Reading
    <2>6. AtRest' /\ Lengths' /\ HeardIsMeant'
        BY <1>2, <2>3 DEF SessionInv, AtRest, Lengths, HeardIsMeant, Talking, Waiting, Reading
    <2>7. TakesTurns'
        <3> SUFFICES ASSUME conn = "up" PROVE Asks'
            BY <2>3 DEF TakesTurns
        <3>1. Asks /\ out = <<>> /\ Len(heard) = stage - 1 /\ mode = Before
            BY <2>3 DEF SessionInv, TakesTurns, Asks, Accepted, Answered, Reading
        <3>2. <<>> \o EncodeHostRequest(s) = EncodeHostRequest(s)
            <4> HIDE DEF s
            <4> QED BY <2>2, ConcatEmptySeq
        <3>3. out' = EncodeHostRequest(s) /\ Before' = Before /\ s' = s
            BY <2>3, <3>1, <3>2 DEF Before
        <3> QED BY <2>1, <2>3, <3>1, <3>3 DEF Asks
    <2>8. AnswerIsCarried'
        BY <1>2, <2>3 DEF AnswerIsCarried, Expects, Unanswered
    <2>9. AnswerIsTheDevices'
        BY <2>3 DEF AnswerIsTheDevices
    <2> QED BY <2>5, <2>6, <2>7, <2>8, <2>9 DEF SessionInv
<1>5. CASE WriteSyncPacket
    <2> DEFINE p == SyncPacket(Packet(op), op.arg)
    <2>1. p \in Seq(Nat)
        <3>1. Packet(op) \in Nat /\ op.arg \in Seq(Nat) /\ Len(op.arg) \in Nat
            BY <1>2, RequestsAre, LenProperties
        <3>2. <<Packet(op), Len(op.arg)>> \in Seq(Nat)
            BY <3>1
        <3> QED BY <3>1, <3>2, ConcatProperties DEF SyncPacket
    <2>2. op.kind \in {"list", "stat"}
        BY <1>5 DEF WriteSyncPacket, SessionInv, Lengths
    <2>3. /\ pc = "packet" /\ pc' = (IF op.kind = "list" THEN "entry" ELSE "stat")
          /\ op' = op /\ stage' = stage /\ want' = want /\ acc' = acc
          /\ in' = in /\ conn' = conn /\ heard' = heard /\ mode' = mode /\ truth' = truth
          /\ out' = IF conn = "up" THEN out \o p ELSE out
        BY <1>5 DEF WriteSyncPacket, peer
    <2>4. out' \in Seq(Nat)
        <3> HIDE DEF p
        <3> QED BY <1>2, <2>1, <2>3, ConcatProperties
    <2>5. SessionType'
        BY <2>3, <2>4 DEF SessionInv, SessionType, Talking, Waiting, Reading
    <2>6. AtRest' /\ Lengths' /\ HeardIsMeant'
        BY <1>2, <2>3 DEF SessionInv, AtRest, Lengths, HeardIsMeant, Talking, Waiting, Reading
    <2>7. TakesTurns'
        <3> SUFFICES ASSUME conn = "up" PROVE Asks'
            BY <2>3 DEF TakesTurns
        <3>1. Asks /\ out = <<>> /\ Len(heard) = Len(Requests(op)) /\ mode = "sync"
            BY <2>3 DEF SessionInv, TakesTurns, Asks, Accepted, Answered, Reading
        <3>2. <<>> \o p = p
            <4> HIDE DEF p
            <4> QED BY <2>1, ConcatEmptySeq
        <3>3. out' = p /\ p' = p
            BY <2>3, <3>1, <3>2
        <3> QED BY <2>3, <3>1, <3>3 DEF Asks
    <2>8. AnswerIsCarried'
        BY <1>2, <2>2, <2>3 DEF AnswerIsCarried, Expects, Unanswered
    <2>9. AnswerIsTheDevices'
        BY <2>3 DEF AnswerIsTheDevices
    <2> QED BY <2>5, <2>6, <2>7, <2>8, <2>9 DEF SessionInv
<1> QED BY <1>3, <1>4, <1>5 DEF Request, WriteFails

LEMMA Words ==
    /\ OKAY \in Nat /\ FAIL \in Nat /\ LIST \in Nat /\ STAT \in Nat /\ DENT \in Nat /\ DONE \in Nat
    /\ OKAY # FAIL /\ FAIL \notin {STAT, DENT, DONE} /\ DENT # DONE /\ LIST # STAT
BY DEF OKAY, FAIL, LIST, STAT, DENT, DONE

LEMMA AnswerTypes ==
    /\ \A t \in DeviceTexts : t \in Seq(Nat) /\ Len(t) \in 0..HostRequestMax /\ Framed(t) \in Seq(Nat)
    /\ \A m \in Reasons : /\ m \in Seq(Nat) /\ Len(m) \in 0..HostRequestMax /\ Len(m) <= FailMax
                          /\ Hex(Len(m)) \in Seq(Nat) /\ Framed(m) \in Seq(Nat)
                          /\ <<FAIL, Len(m)>> \in Seq(Nat)
    /\ Outputs \subseteq Seq(Nat)
<1>1. ASSUME NEW t \in Seq(Nat), Len(t) <= HostRequestMax
      PROVE  Len(t) \in 0..HostRequestMax /\ Hex(Len(t)) \in Seq(Nat) /\ Framed(t) \in Seq(Nat)
    <2>1. Len(t) \in Nat
        BY LenProperties
    <2>2. Hex(Len(t)) \in Seq(Nat)
        BY <2>1, HexType
    <2>3. Hex(Len(t)) \o t \in Seq(Nat)
        BY <2>2, ConcatProperties
    <2> QED BY <1>1, <2>1, <2>2, <2>3, LimitType DEF Framed
<1>2. \A m \in Reasons : <<FAIL, Len(m)>> \in Seq(Nat)
    BY <1>1, Words, PeerAssumption
<1> QED BY <1>1, <1>2, PeerAssumption, SessionAssumption

LEMMA EmptyBegun ==
    ASSUME NEW s \in Seq(Nat), Begins(s, <<>>)
    PROVE  s = <<>>
BY LenProperties, EmptySeq DEF Begins

\* The first token of a stream, and the rest of it.
LEMMA FirstToken ==
    ASSUME NEW s \in Seq(Nat), NEW t \in Seq(Nat), NEW x \in Nat, Begins(s, <<x>> \o t), s # <<>>
    PROVE  /\ s[1] = x /\ Head(s) = x /\ SubSeq(s, 2, Len(s)) \in Seq(Nat)
           /\ Begins(SubSeq(s, 2, Len(s)), t) /\ (s = <<x>> \o t => SubSeq(s, 2, Len(s)) = t)
<1>0. PICK u \in Seq(Nat) : u = <<x>>
    <2>1. <<x>> \in Seq(Nat)
        OBVIOUS
    <2> QED BY <2>1, Zenon
<1>1. Len(u) = 1 /\ u[1] = x
    BY <1>0
<1>2. Len(s) \in Nat /\ Len(u) <= Len(s)
    BY <1>1, LenProperties, EmptySeq
<1>3. /\ SubSeq(s, 1, Len(u)) = u /\ SubSeq(s, Len(u) + 1, Len(s)) \in Seq(Nat)
      /\ Begins(SubSeq(s, Len(u) + 1, Len(s)), t)
      /\ (s = u \o t => SubSeq(s, Len(u) + 1, Len(s)) = t)
    <2>1. Begins(s, u \o t)
        BY <1>0
    <2> QED BY <1>2, <2>1, HeadIsRead
<1>4. Len(u) + 1 = 2
    BY <1>1
<1>5. s[1] = x /\ Head(s) = s[1]
    <2>1. SubSeq(s, 1, 1)[1] = s[1]
        <3>1. 1 \in 1..Len(s)
            BY <1>1, <1>2
        <3> QED BY <3>1, ElementOfSeq, SubSeqProperties
    <2>2. SubSeq(s, 1, 1) = u
        BY <1>1, <1>3
    <2> QED BY <1>1, <2>1, <2>2
<1> QED BY <1>0, <1>3, <1>4, <1>5

LEMMA OneToken ==
    ASSUME NEW s \in Seq(Nat), NEW x \in Nat, Begins(s, <<x>>), s # <<>>
    PROVE  s[1] = x /\ Head(s) = x /\ SubSeq(s, 2, Len(s)) = <<>>
<1>1. <<>> \in Seq(Nat) /\ <<x>> \in Seq(Nat)
    OBVIOUS
<1>2. PICK u \in Seq(Nat) : u = <<x>>
    BY <1>1, Zenon
<1>3. u \o <<>> = u
    BY ConcatEmptySeq
<1>4. PICK t \in Seq(Nat) : t = <<>>
    BY <1>1, Zenon
<1>5. Begins(s, <<x>> \o t)
    BY <1>2, <1>3, <1>4
<1>6. /\ s[1] = x /\ Head(s) = x /\ SubSeq(s, 2, Len(s)) \in Seq(Nat)
      /\ Begins(SubSeq(s, 2, Len(s)), t)
    BY <1>5, FirstToken
<1>7. SubSeq(s, 2, Len(s)) = <<>>
    BY <1>4, <1>6, EmptyBegun
<1> QED BY <1>6, <1>7

LEMMA RestType ==
    ASSUME NEW s \in Seq(Nat), NEW n \in Nat
    PROVE  SubSeq(s, n + 1, Len(s)) \in Seq(Nat)
<1>1. Len(s) \in Nat /\ \A i \in (n + 1)..Len(s) : s[i] \in Nat
    BY LenProperties, ElementOfSeq
<1> QED BY <1>1, SubSeqProperties

\* A step that reads on, inside the conversation.
LEMMA ReadsOn ==
    ASSUME SessionInv, pc \in Talking, pc' \in Talking, op' = op, conn' = conn, UNCHANGED peer,
           stage' \in 1..Len(Requests(op)), in' \in Seq(Nat), out' \in Seq(Nat), want' \in Nat,
           want' <= SyncPathMax \/ want' <= FailMax \/ want' <= HostRequestMax,
           pc' = "packet" => op.kind \in {"list", "stat"},
           pc' = "name" => want' <= SyncPathMax,
           pc' \in {"reason", "payload"} => want' <= FailMax \/ want' <= HostRequestMax,
           TakesTurns', truth.sane => Expects'
    PROVE  SessionInv'
<1>1. op \in Operations /\ Len(Requests(op)) \in 1..2 /\ conn \in {"up", "eof", "reset"}
    BY WhileTalking
<1>2. op \in Operations \cup {NoOp} /\ op # NoOp /\ heard \in Seq(Seq(Nat))
    BY <1>1, RequestsAre, WhileTalking
<1>3. pc' \notin {"idle", "connect", "done"}
    BY DEF Talking, Waiting, Reading
<1>4. heard' = heard /\ truth' = truth /\ mode' = mode
    BY DEF peer
<1>5. SessionType'
    <2>1. DOMAIN truth = DOMAIN NoTruth
        BY DEF SessionInv, SessionType
    <2> QED BY <1>1, <1>2, <1>3, <1>4, <2>1 DEF SessionType
<1>6. AtRest'
    BY <1>1, <1>3 DEF AtRest
<1>7. Lengths'
    <2>1. stage' \in 1..2 /\ stage' <= Len(Requests(op))
        <3>1. ASSUME NEW n \in 1..2, NEW i \in 1..n PROVE i \in 1..2 /\ i <= n
            OBVIOUS
        <3> QED BY <1>1, <3>1
    <2>2. Requests(op)' = Requests(op)
        BY DEF Requests, BindTo, Shell, Devices, Sync
    <2> QED BY <2>1, <2>2 DEF Lengths
<1>8. HeardIsMeant'
    BY <1>4 DEF SessionInv, HeardIsMeant
<1>9. AnswerIsCarried' /\ AnswerIsTheDevices'
    BY <1>3, <1>4 DEF AnswerIsCarried, AnswerIsTheDevices
<1> QED BY <1>5, <1>6, <1>7, <1>8, <1>9 DEF SessionInv

\* While the connection is up, a conversation that reads something has been accepted
\* or answered.
LEMMA UpMeansTurns ==
    ASSUME SessionInv, conn = "up"
    PROVE  /\ pc \in {"length", "refusedLength", "payload", "output"} => FALSE
           /\ pc = "status" /\ in # <<>> => Accepted
           /\ pc \in Reading /\ in # <<>> => Answered
           /\ pc \in {"name", "reason"} => Answered
<1>1. Asks \/ Accepted \/ Answered
    BY DEF SessionInv, TakesTurns
<1> QED BY <1>1 DEF Asks, Accepted, Answered, Reading

\* A word, with a text behind it.
LEMMA WordAndText ==
    ASSUME NEW x \in Nat, NEW t \in Seq(Nat), Len(t) <= HostRequestMax
    PROVE  /\ (<<x>> \o Hex(Len(t))) \o t = <<x>> \o Framed(t)
           /\ <<x>> \o Framed(t) \in Seq(Nat) /\ <<x>> \o t \in Seq(Nat)
<1>1. Len(t) \in Nat
    BY LenProperties
<1>2. PICK u \in Seq(Nat) : u = <<x>>
    <2>1. <<x>> \in Seq(Nat)
        OBVIOUS
    <2> QED BY <2>1, Zenon
<1>3. PICK h \in Seq(Nat) : h = Hex(Len(t))
    BY <1>1, HexType
<1>4. (u \o h) \o t = u \o (h \o t)
    BY ConcatAssociative
<1>5. h \o t \in Seq(Nat) /\ u \o t \in Seq(Nat)
    BY ConcatProperties
<1>6. u \o (h \o t) \in Seq(Nat)
    BY <1>5, ConcatProperties
<1> QED BY <1>2, <1>3, <1>4, <1>5, <1>6 DEF Framed

LEMMA RefusedHead ==
    ASSUME NEW m \in Reasons
    PROVE  (<<FAIL>> \o Hex(Len(m))) \o m = <<FAIL>> \o Framed(m)
<1>1. PICK n \in Seq(Nat) : n = m /\ Len(n) <= HostRequestMax
    BY PeerAssumption
<1> QED BY <1>1, WordAndText, Words

LEMMA StatusRead ==
    ASSUME SessionInv, Status, UNCHANGED peer
    PROVE  SessionInv'
<1>1. pc = "status" /\ pc \in Talking /\ Has(1)
    BY DEF Status, Talking, Waiting
<1>2. /\ op \in Operations /\ in \in Seq(Nat) /\ out \in Seq(Nat) /\ want \in Nat
      /\ conn \in {"up", "eof", "reset"} /\ stage \in 1..Len(Requests(op)) /\ Len(Requests(op)) \in 1..2
      /\ Len(Requests(op)) = (IF op.kind = "devices" THEN 1 ELSE 2)
      /\ op.kind \in {"devices", "list", "stat", "shell"}
      /\ truth.sane => Expects
    BY <1>1, WhileTalking, RequestsAre
<1>3. in # <<>> /\ SubSeq(in, 2, Len(in)) \in Seq(Nat)
    <2>1. in # <<>>
        BY <1>1, <1>2 DEF Has
    <2>2. SubSeq(in, 1 + 1, Len(in)) \in Seq(Nat)
        BY <1>2, RestType
    <2> QED BY <2>1, <2>2
<1>4. want <= SyncPathMax \/ want <= FailMax \/ want <= HostRequestMax
    BY DEF SessionInv, Lengths
\* What a sane peer has said can be told from its first word.
<1>6. ASSUME truth.sane
      PROVE  \/ /\ acc = <<>> /\ truth.value = <<>>
                /\ truth.reason = <<>> /\ Begins(in, <<OKAY>>) /\ (truth.whole => in = <<OKAY>>)
                /\ stage < Len(Requests(op)) \/ op.kind \in {"list", "stat"}
             \/ /\ acc = <<>> /\ truth.value = <<>> /\ truth.reason \in Reasons
                /\ Begins(in, <<FAIL>> \o Framed(truth.reason))
                /\ truth.whole => in = <<FAIL>> \o Framed(truth.reason)
             \/ /\ acc = <<>> /\ truth.reason = <<>> /\ stage = Len(Requests(op))
                /\ op.kind = "devices" /\ truth.value \in DeviceTexts
                /\ Begins(in, <<OKAY>> \o Framed(truth.value))
                /\ truth.whole => in = <<OKAY>> \o Framed(truth.value)
             \/ /\ acc = <<>> /\ truth.reason = <<>> /\ stage = Len(Requests(op))
                /\ op.kind = "shell" /\ truth.value \in Outputs
                /\ Begins(in, <<OKAY>> \o truth.value)
                /\ truth.whole => in = <<OKAY>> \o truth.value
    <2>1. CASE Refused(<<FAIL>> \o Hex(Len(truth.reason))) /\ acc = <<>> /\ truth.value = <<>>
        <3>1. truth.reason \in Reasons
            BY <2>1 DEF Refused
        <3>2. (<<FAIL>> \o Hex(Len(truth.reason))) \o truth.reason = <<FAIL>> \o Framed(truth.reason)
            BY <1>2, <3>1, RefusedHead
        <3> QED BY <2>1, <3>1, <3>2 DEF Refused, Arrived
    <2> QED BY <1>1, <1>2, <1>3, <1>6, <2>1 DEF Expects, Unanswered, Arrived
<1>8. truth' = truth /\ heard' = heard /\ mode' = mode
    BY DEF peer
<1>10. CASE Head(in) = OKAY
    <2>1. /\ in' = SubSeq(in, 2, Len(in)) /\ want' = want /\ acc' = acc /\ op' = op /\ conn' = conn
          /\ out' = out
          /\ \/ stage < Len(Requests(op)) /\ stage' = stage + 1 /\ pc' = "request"
             \/ /\ ~(stage < Len(Requests(op))) /\ stage' = stage
                /\ pc' = (CASE op.kind = "devices" -> "length" [] op.kind = "shell" -> "output"
                            [] OTHER -> "packet")
        BY <1>10, Words DEF Status, Take
    <2>2. pc' \in Talking /\ pc' \notin {"name", "reason", "payload"}
        BY <2>1 DEF Talking, Waiting
    <2>3. pc' = "packet" => op.kind \in {"list", "stat"}
        BY <1>2, <2>1
    <2>4. stage' \in 1..Len(Requests(op))
        BY <1>2, <2>1
    <2>5. TakesTurns'
        <3> SUFFICES ASSUME conn = "up" PROVE Asks'
            BY <2>1 DEF TakesTurns
        <3>1. Accepted
            BY <1>1, <1>3, UpMeansTurns
        <3>2. in' = <<>>
            BY <2>1, <3>1 DEF Accepted
        <3>3. CASE stage < Len(Requests(op))
            <4>1. stage = 1 /\ stage' = 2 /\ pc' = "request" /\ mode = "device"
                BY <1>2, <2>1, <3>1, <3>3 DEF Accepted
            <4> QED BY <1>8, <2>1, <3>1, <3>2, <4>1 DEF Accepted, Asks, Before
        <3>4. CASE ~(stage < Len(Requests(op)))
            <4>1. stage = Len(Requests(op)) /\ op.kind \in {"list", "stat"} /\ mode = "sync"
                BY <3>1, <3>4 DEF Accepted
            <4>2. pc' = "packet" /\ stage' = stage
                BY <2>1, <3>4, <4>1
            <4>3. Len(heard') = Len(Requests(op)) /\ Requests(op)' = Requests(op)
                BY <1>8, <2>1, <3>1, <4>1 DEF Accepted, Requests, BindTo, Shell, Devices, Sync
            <4> QED BY <1>8, <2>1, <3>1, <3>2, <4>1, <4>2, <4>3 DEF Accepted, Asks
        <3> QED BY <3>3, <3>4
    <2>6. ASSUME truth.sane PROVE Expects'
        <3>1. CASE /\ acc = <<>> /\ truth.value = <<>> /\ truth.reason = <<>> /\ Begins(in, <<OKAY>>)
                   /\ stage < Len(Requests(op)) \/ op.kind \in {"list", "stat"}
            <4>1. in' = <<>>
                BY <1>2, <1>3, <2>1, <3>1, OneToken, Words
            <4>2. pc' \in {"request", "packet"}
                BY <2>1, <3>1
            <4> QED BY <1>8, <2>1, <3>1, <4>1, <4>2 DEF Expects, Unanswered
        <3>2. CASE truth.reason \in Reasons /\ Begins(in, <<FAIL>> \o Framed(truth.reason))
            <4>1. Framed(truth.reason) \in Seq(Nat)
                BY <3>2, AnswerTypes
            <4>2. Head(in) = FAIL
                BY <1>2, <1>3, <3>2, <4>1, FirstToken, Words
            <4> QED BY <1>10, <4>2, Words
        <3>3. CASE /\ acc = <<>> /\ truth.reason = <<>> /\ stage = Len(Requests(op))
                   /\ op.kind = "devices" /\ truth.value \in DeviceTexts
                   /\ Begins(in, <<OKAY>> \o Framed(truth.value))
                   /\ truth.whole => in = <<OKAY>> \o Framed(truth.value)
            <4>1. Framed(truth.value) \in Seq(Nat)
                BY <3>3, AnswerTypes
            <4>2. Arrived(in', Framed(truth.value))
                BY <1>2, <1>3, <2>1, <3>3, <4>1, FirstToken, Words DEF Arrived
            <4>3. pc' = "length"
                BY <1>2, <2>1, <3>3
            <4> QED BY <1>8, <2>1, <3>3, <4>2, <4>3 DEF Expects, Arrived
        <3>4. CASE /\ acc = <<>> /\ truth.reason = <<>> /\ stage = Len(Requests(op))
                   /\ op.kind = "shell" /\ truth.value \in Outputs
                   /\ Begins(in, <<OKAY>> \o truth.value)
                   /\ truth.whole => in = <<OKAY>> \o truth.value
            <4>1. truth.value \in Seq(Nat)
                BY <3>4, AnswerTypes
            <4>2. Begins(in', truth.value) /\ (truth.whole => in' = truth.value)
                <5>1. in \in Seq(Nat) /\ in # <<>> /\ OKAY \in Nat /\ Begins(in, <<OKAY>> \o truth.value)
                    BY <1>2, <1>3, <3>4, Words
                <5>2. /\ Begins(SubSeq(in, 2, Len(in)), truth.value)
                      /\ in = <<OKAY>> \o truth.value => SubSeq(in, 2, Len(in)) = truth.value
                    BY ONLY <4>1, <5>1, FirstToken
                <5> QED BY <2>1, <3>4, <5>2
            <4>3. pc' = "output"
                BY <1>2, <2>1, <3>4
            <4>4. acc' = <<>> /\ acc' \in Seq(Nat) /\ acc' \o in' = in'
                <5>1. in' \in Seq(Nat)
                    BY <1>3, <2>1
                <5> QED BY <2>1, <3>4, <5>1, ConcatEmptySeq
            <4> QED BY <1>8, <2>1, <3>4, <4>2, <4>3, <4>4 DEF Expects, Arrived
        <3> QED BY <1>6, <2>6, <3>1, <3>2, <3>3, <3>4
    <2> QED BY <1>1, <1>2, <1>3, <1>4, <2>1, <2>2, <2>3, <2>4, <2>5, <2>6, ReadsOn
<1>11. CASE Head(in) = FAIL
    <2>1. /\ in' = SubSeq(in, 2, Len(in)) /\ want' = want /\ acc' = acc /\ op' = op /\ conn' = conn
          /\ out' = out /\ stage' = stage /\ pc' = "refusedLength"
        BY <1>11, Words DEF Status, Take, Step
    <2>2. pc' \in Talking
        BY <2>1 DEF Talking, Waiting
    <2>3. TakesTurns'
        <3>1. conn # "up"
            BY <1>1, <1>3, <1>11, UpMeansTurns, Words DEF Accepted
        <3> QED BY <2>1, <3>1 DEF TakesTurns
    <2>4. ASSUME truth.sane PROVE Expects'
        <3>1. /\ truth.reason \in Reasons /\ Begins(in, <<FAIL>> \o Framed(truth.reason))
              /\ truth.whole => in = <<FAIL>> \o Framed(truth.reason)
            <4>1. ~Begins(in, <<OKAY>>)
                BY <1>2, <1>3, <1>11, OneToken, Words
            <4>2. ASSUME NEW t \in Seq(Nat) PROVE ~Begins(in, <<OKAY>> \o t)
                BY <1>2, <1>3, <1>11, FirstToken, Words
            <4> QED BY <1>6, <2>4, <4>1, <4>2, AnswerTypes
        <3>2. Framed(truth.reason) \in Seq(Nat)
            BY <3>1, AnswerTypes
        <3>3. Arrived(in', Framed(truth.reason))
            BY <1>2, <1>3, <2>1, <3>1, <3>2, FirstToken, Words DEF Arrived
        <3> QED BY <1>8, <2>1, <3>1, <3>3 DEF Expects, Refused, Framed, Arrived
    <2> QED BY <1>1, <1>2, <1>3, <1>4, <2>1, <2>2, <2>3, <2>4, ReadsOn
<1>12. CASE Head(in) \notin {OKAY, FAIL}
    <2>1. End(Failed(Own))
        BY <1>12 DEF Status
    <2>2. truth.sane => truth.reason = <<>>
        <3>1. ASSUME truth.reason \in Reasons PROVE ~Begins(in, <<FAIL>> \o Framed(truth.reason))
            <4>1. Framed(truth.reason) \in Seq(Nat)
                BY <3>1, AnswerTypes
            <4> QED BY <1>2, <1>3, <1>12, <4>1, FirstToken, Words
        <3> QED BY <1>6, <3>1
    <2> QED BY <1>1, <2>1, <2>2, Ending, FailedIsGood
<1> QED BY <1>10, <1>11, <1>12
\* The length in front of a text, and the text behind it.
LEMMA FrameHead ==
    ASSUME NEW s \in Seq(Nat), NEW t \in Seq(Nat), Len(t) <= HostRequestMax,
           Begins(s, Framed(t)), HexDigits <= Len(s)
    PROVE  /\ ParseHexLength(SubSeq(s, 1, HexDigits)) = Len(t)
           /\ Begins(SubSeq(s, HexDigits + 1, Len(s)), t)
           /\ s = Framed(t) => SubSeq(s, HexDigits + 1, Len(s)) = t
<1>1. Len(t) \in 0..HostRequestMax
    BY LimitType, LenProperties
<1>2. PICK h \in Seq(Nat) : h = Hex(Len(t))
    BY <1>1, HexType
<1>3. Len(h) = HexDigits
    BY <1>1, <1>2, HexType
<1>4. Begins(s, h \o t) /\ Len(h) <= Len(s) /\ (s = Framed(t) <=> s = h \o t)
    BY <1>2, <1>3 DEF Framed
<1>5. SubSeq(s, 1, Len(h)) = h
    BY <1>4, HeadIsRead
<1>6. Begins(SubSeq(s, Len(h) + 1, Len(s)), t)
    BY <1>4, HeadIsRead
<1>7. s = h \o t => SubSeq(s, Len(h) + 1, Len(s)) = t
    BY <1>4, HeadIsRead
<1>8. ParseHexLength(h) = Len(t)
    BY <1>1, <1>2, HexRoundTrip
<1> QED BY <1>3, <1>4, <1>5, <1>6, <1>7, <1>8

LEMMA LengthRead ==
    ASSUME SessionInv, Length, UNCHANGED peer
    PROVE  SessionInv'
<1> DEFINE n == ParseHexLength(SubSeq(in, 1, HexDigits))
<1>1. pc \in {"length", "refusedLength"} /\ pc \in Talking
    BY DEF Length, Talking, Waiting
<1>2. /\ op \in Operations /\ in \in Seq(Nat) /\ out \in Seq(Nat)
      /\ stage \in 1..Len(Requests(op)) /\ (truth.sane => Expects)
    BY <1>1, WhileTalking
<1>3. conn # "up"
    BY <1>1, UpMeansTurns
<1>4. HexDigits \in Nat \ {0} /\ HexDigits <= Len(in) /\ Len(in) \in Nat
    BY <1>2, LenProperties, SessionAssumption DEF Length, Has
<1>5. n \in -1..HostRequestMax
    <2>1. SubSeq(in, 1, HexDigits) \in Seq(Nat)
        <3>1. \A i \in 1..HexDigits : in[i] \in Nat
            BY <1>2, <1>4, ElementOfSeq
        <3> QED BY <1>4, <3>1, SubSeqProperties
    <2>2. Len(SubSeq(in, 1, HexDigits)) = HexDigits
        <3>1. \A i \in 1..HexDigits : in[i] \in Nat
            BY <1>2, <1>4, ElementOfSeq
        <3> QED BY <1>4, <3>1, SubSeqProperties
    <2> QED BY <2>1, <2>2, ParsedLength
<1>6. SubSeq(in, HexDigits + 1, Len(in)) \in Seq(Nat)
    BY <1>2, <1>4, RestType
<1>7. ASSUME truth.sane, pc = "refusedLength"
      PROVE  /\ truth.reason \in Reasons /\ n = Len(truth.reason)
             /\ Arrived(SubSeq(in, HexDigits + 1, Len(in)), truth.reason)
    <2>1. truth.reason \in Reasons /\ Arrived(in, Framed(truth.reason))
        BY <1>2, <1>7 DEF Expects, Refused, Framed
    <2>2. truth.reason \in Seq(Nat) /\ Len(truth.reason) <= HostRequestMax
        BY <2>1, PeerAssumption
    <2> QED BY <1>2, <1>4, <2>1, <2>2, FrameHead DEF Arrived
<1>8. ASSUME truth.sane, pc = "length"
      PROVE  /\ op.kind = "devices" /\ truth.reason = <<>> /\ truth.value \in DeviceTexts
             /\ n = Len(truth.value)
             /\ Arrived(SubSeq(in, HexDigits + 1, Len(in)), truth.value)
    <2>1. /\ op.kind = "devices" /\ truth.reason = <<>> /\ truth.value \in DeviceTexts
          /\ Arrived(in, Framed(truth.value))
        BY <1>2, <1>8 DEF Expects
    <2>2. truth.value \in Seq(Nat) /\ Len(truth.value) <= HostRequestMax
        BY <2>1, PeerAssumption
    <2> QED BY <1>2, <1>4, <2>1, <2>2, FrameHead DEF Arrived
<1> HIDE DEF n
<1>9. CASE n < 0
    <2>1. End(Failed(Own))
        BY <1>9 DEF Length, n
    <2>2. truth.sane => truth.reason = <<>>
        <3>1. \A m \in Reasons : Len(m) \in Nat
            BY PeerAssumption, LenProperties
        <3>2. ASSUME truth.sane, pc = "refusedLength" PROVE FALSE
            BY <1>7, <1>9, <3>1, <3>2
        <3> QED BY <1>1, <1>8, <3>2
    <2> QED BY <1>1, <2>1, <2>2, Ending, FailedIsGood
<1>10. CASE ~(n < 0)
    <2>1. /\ in' = SubSeq(in, HexDigits + 1, Len(in)) /\ want' = n /\ acc' = acc /\ op' = op
          /\ conn' = conn /\ out' = out /\ stage' = stage
          /\ pc' = IF pc = "length" THEN "payload" ELSE "reason"
        BY <1>10 DEF Length, Take, Step, n
    <2>2. pc' \in Talking /\ pc' \notin {"packet", "name"}
        BY <1>1, <2>1 DEF Talking, Waiting, Reading
    <2>3. TakesTurns'
        BY <1>3, <2>1 DEF TakesTurns
    <2>4. want' \in Nat /\ want' <= HostRequestMax
        BY <1>5, <1>10, <2>1, LimitType
    <2>5. truth' = truth
        BY DEF peer
    <2>6. ASSUME truth.sane PROVE Expects'
        <3>1. CASE pc = "length"
            BY <1>8, <2>1, <2>5, <2>6, <3>1 DEF Expects, Arrived
        <3>2. CASE pc = "refusedLength"
            <4>1. <<>> \o truth.reason = truth.reason
                BY <1>7, <2>6, <3>2, PeerAssumption, ConcatEmptySeq
            <4> QED BY <1>7, <2>1, <2>5, <2>6, <3>2, <4>1 DEF Expects, Refused, Arrived
        <3> QED BY <1>1, <3>1, <3>2
    <2> QED BY <1>1, <1>2, <1>6, <2>1, <2>2, <2>3, <2>4, <2>6, ReadsOn
<1> QED BY <1>9, <1>10

\* A stream that is as long as the text it begins is the text.
LEMMA WholeText ==
    ASSUME NEW s \in Seq(Nat), NEW t \in Seq(Nat), Begins(s, t), Len(t) <= Len(s)
    PROVE  SubSeq(s, 1, Len(t)) = t
<1>1. Len(s) = Len(t)
    BY LenProperties DEF Begins
<1>2. s = t
    BY <1>1, BeginsWith
<1> QED BY <1>1, <1>2, SubSeqFull

LEMMA TextRead ==
    ASSUME SessionInv, Payload \/ Reason, UNCHANGED peer
    PROVE  SessionInv'
<1>1. pc \in {"payload", "reason"} /\ pc \in Talking /\ want <= Len(in)
    BY DEF Payload, Reason, Talking, Waiting, Reading, Has
<1>2. in \in Seq(Nat) /\ Len(in) \in Nat /\ (truth.sane => Expects)
    BY <1>1, WhileTalking, LenProperties
<1>3. CASE Payload
    <2>1. pc = "payload"
        BY <1>3 DEF Payload
    <2>2. ASSUME truth.sane PROVE op.kind = "devices" /\ SubSeq(in, 1, want) = truth.value
        <3>1. /\ op.kind = "devices" /\ truth.value \in DeviceTexts
              /\ want = Len(truth.value) /\ Begins(in, truth.value)
            BY <1>2, <2>1, <2>2 DEF Expects, Arrived
        <3>2. truth.value \in Seq(Nat)
            BY <3>1, PeerAssumption
        <3> QED BY <1>1, <1>2, <3>1, <3>2, WholeText
    <2>3. Good(Answer(SubSeq(in, 1, want)))
        BY <2>2 DEF Good, Answer
    <2> QED BY <1>1, <1>3, <2>3, Ending DEF Payload
<1>4. CASE Reason
    <2>1. pc = "reason"
        BY <1>4 DEF Reason
    <2>2. ASSUME truth.sane PROVE SubSeq(in, 1, want) = truth.reason
        <3>1. /\ truth.reason \in Reasons
              /\ want = Len(truth.reason) /\ Begins(in, <<>> \o truth.reason)
            BY <1>2, <2>1, <2>2 DEF Expects, Refused, Arrived
        <3>2. truth.reason \in Seq(Nat)
            BY <3>1, PeerAssumption
        <3>3. <<>> \o truth.reason = truth.reason
            BY <3>2, ConcatEmptySeq
        <3> QED BY <1>1, <1>2, <3>1, <3>2, <3>3, WholeText
    <2>3. Good(Failed(SubSeq(in, 1, want)))
        BY <2>2 DEF Good, Failed
    <2> QED BY <1>1, <1>4, <2>3, Ending DEF Reason
<1> QED BY <1>3, <1>4
-----------------------------------------------------------------------------
(* The sync protocol.                                                      *)

LEMMA Tokens ==
    ASSUME NEW s \in Seq(Nat), NEW u \in Seq(Nat), NEW t \in Seq(Nat), Begins(s, u \o t),
           NEW i \in 1..Len(u), i <= Len(s)
    PROVE  s[i] = u[i]
<1>1. Len(s) \in Nat /\ Len(u) \in Nat /\ Len(t) \in Nat
    BY LenProperties
<1>2. i \in 1..Len(s) /\ i \in 1..(Len(u) + Len(t)) /\ i <= Len(u)
    BY <1>1
<1>3. (u \o t)[i] = u[i]
    BY <1>2, ConcatProperties
<1> QED BY <1>2, <1>3 DEF Begins

\* What stands behind a head that both streams have.
LEMMA BehindHead ==
    ASSUME NEW l \in Seq(Nat), NEW s \in Seq(Nat), NEW t \in Seq(Nat), Begins(l \o s, l \o t)
    PROVE  Begins(s, t) /\ (l \o s = l \o t => s = t)
<1>1. Len(l) \in Nat /\ Len(s) \in Nat
    BY LenProperties
<1>2. PICK f \in Seq(Nat) : f = l \o s
    BY ConcatProperties
<1>3. Len(f) = Len(l) + Len(s)
    BY <1>2, ConcatProperties
<1>4. Begins(f, l \o s) /\ Begins(f, l \o t) /\ Len(l) <= Len(f)
    <2>1. Begins(f, f)
        BY BeginsWith
    <2>2. Len(l) <= Len(f)
        BY <1>1, <1>3
    <2> QED BY <1>2, <2>1, <2>2
<1>5. SubSeq(f, Len(l) + 1, Len(f)) = s
    BY <1>2, <1>4, HeadIsRead
<1>6. Begins(SubSeq(f, Len(l) + 1, Len(f)), t) /\ (f = l \o t => SubSeq(f, Len(l) + 1, Len(f)) = t)
    BY <1>4, HeadIsRead
<1> QED BY <1>2, <1>5, <1>6

\* A refusal, as it is read.
LEMMA RefusalRead ==
    ASSUME NEW s \in Seq(Nat), NEW m \in Reasons, Begins(s, <<FAIL, Len(m)>> \o m)
    PROVE  /\ s # <<>> => s[1] = FAIL
           /\ Len(s) >= 2 => /\ s[2] = Len(m) /\ Begins(SubSeq(s, 3, Len(s)), m)
                             /\ s = <<FAIL, Len(m)>> \o m => SubSeq(s, 3, Len(s)) = m
           /\ s = <<FAIL, Len(m)>> \o m => Len(s) >= 2
<1>1. PICK n \in Seq(Nat) : n = m
    BY AnswerTypes
<1>2. PICK u \in Seq(Nat) : u = <<FAIL, Len(m)>>
    BY AnswerTypes, Zenon
<1>3. Len(u) = 2 /\ u[1] = FAIL /\ u[2] = Len(m) /\ 1 \in 1..Len(u) /\ 2 \in 1..Len(u)
    BY <1>2
<1>4. Begins(s, u \o n)
    BY <1>1, <1>2
<1>5. Len(s) \in Nat /\ Len(n) \in Nat
    BY LenProperties
<1>6. s # <<>> => s[1] = FAIL
    <2>1. s # <<>> => 1 <= Len(s)
        BY <1>5, EmptySeq
    <2> QED BY <1>3, <1>4, <2>1, Tokens
<1>7. Len(s) >= 2 => s[2] = Len(m)
    BY <1>3, <1>4, <1>5, Tokens
<1>8. ASSUME Len(s) >= 2
      PROVE  Begins(SubSeq(s, 3, Len(s)), n) /\ (s = u \o n => SubSeq(s, 3, Len(s)) = n)
    <2>1. Len(u) + 1 = 3 /\ Len(u) <= Len(s)
        BY <1>3, <1>5, <1>8
    <2>2. /\ Begins(SubSeq(s, Len(u) + 1, Len(s)), n)
          /\ s = u \o n => SubSeq(s, Len(u) + 1, Len(s)) = n
        BY <1>4, <2>1, HeadIsRead
    <2> QED BY <2>1, <2>2
<1>9. s = u \o n => Len(s) >= 2
    <2>1. Len(u \o n) = Len(u) + Len(n)
        BY ConcatProperties
    <2> QED BY <1>3, <1>5, <2>1
<1> QED BY <1>1, <1>2, <1>6, <1>7, <1>8, <1>9

\* The next entry of a list, or its end.
LEMMA EntryRead ==
    ASSUME NEW c \in Seq(Entry), NEW k \in 0..Len(c), NEW s \in Seq(Nat),
           Begins(Sent(c)[k] \o s, Stream(c)), s # <<>>
    PROVE  /\ k = Len(c) => s[1] = DONE
           /\ k < Len(c) =>
                /\ s[1] = DENT /\ c[k + 1] \in Entry /\ Len(c[k + 1].name) \in Nat
                /\ Len(s) >= 5 => s[5] = Len(c[k + 1].name)
                /\ Len(s) >= 5 + Len(c[k + 1].name) =>
                     /\ s[2] = c[k + 1].mode /\ s[3] = c[k + 1].size /\ s[4] = c[k + 1].mtime
                     /\ SubSeq(s, 6, 5 + Len(c[k + 1].name)) = c[k + 1].name
                     /\ Sent(c)[k + 1] \o SubSeq(s, 5 + Len(c[k + 1].name) + 1, Len(s)) = Sent(c)[k] \o s
<1>1. Len(c) \in Nat /\ k \in Nat /\ k <= Len(c) /\ Len(s) \in Nat /\ 1 <= Len(s)
    BY LenProperties, EmptySeq
<1>2. PICK l \in Seq(Nat) : l = Sent(c)[k]
    BY SentGoesOn
<1>3. CASE k = Len(c)
    <2>1. PICK d \in Seq(Nat) : d = DoneEntry
        BY SentGoesOn
    <2>2. Begins(l \o s, l \o d)
        BY <1>2, <1>3, <2>1, SentGoesOn
    <2>3. Begins(s, d)
        BY <2>2, BehindHead
    <2>4. d[1] = DONE
        BY <2>1 DEF DoneEntry
    <2>5. 1 \in 1..Len(s) /\ ~(k < Len(c))
        BY <1>1, <1>3
    <2>6. s[1] = d[1]
        BY <2>3, <2>5 DEF Begins
    <2> QED BY <2>4, <2>5, <2>6
<1>4. CASE k < Len(c)
    <2>1. PICK rest \in Seq(Nat) : Stream(c) = Sent(c)[k] \o (Dent(c[k + 1]) \o rest)
        BY <1>4, SentGoesOn
    <2>2. k + 1 \in 1..Len(c) /\ k + 1 \in 0..Len(c) /\ (k + 1) - 1 = k
        BY <1>1, <1>4
    <2>3. PICK e \in Entry : e = c[k + 1]
        BY <2>2, ElementOfSeq
    <2>4. PICK n \in Nat : n = Len(e.name)
        BY DentIs
    <2>5. PICK d \in Seq(Nat) : d = Dent(e)
        BY DentIs
    <2>6. /\ Len(d) = 5 + n /\ d[1] = DENT /\ d[2] = e.mode /\ d[3] = e.size /\ d[4] = e.mtime /\ d[5] = n
          /\ SubSeq(d, 6, 5 + n) = e.name
        BY <2>4, <2>5, DentIs
    <2>7. Begins(s, d \o rest)
        <3>1. PICK t \in Seq(Nat) : t = d \o rest
            BY ConcatProperties
        <3>2. Begins(l \o s, l \o t)
            BY <1>2, <2>1, <2>3, <2>5, <3>1
        <3> QED BY <3>1, <3>2, BehindHead
    <2>8. 1 \in 1..Len(d) /\ 2 \in 1..Len(d) /\ 3 \in 1..Len(d) /\ 4 \in 1..Len(d) /\ 5 \in 1..Len(d)
        BY <2>6
    <2>9. s[1] = DENT /\ (Len(s) >= 5 => s[5] = n)
        BY <1>1, <2>6, <2>7, <2>8, Tokens
    <2>10. ASSUME Len(s) >= 5 + n
           PROVE  /\ s[2] = e.mode /\ s[3] = e.size /\ s[4] = e.mtime
                  /\ SubSeq(s, 6, 5 + n) = e.name
                  /\ Sent(c)[k + 1] \o SubSeq(s, 5 + n + 1, Len(s)) = Sent(c)[k] \o s
        <3>1. 2 <= Len(s) /\ 3 <= Len(s) /\ 4 <= Len(s) /\ Len(d) <= Len(s)
            <4>1. Len(d) = 5 + n
                BY <2>6
            <4> QED BY <1>1, <2>10, <4>1
        <3>2. s[2] = e.mode /\ s[3] = e.size /\ s[4] = e.mtime
            BY <2>6, <2>7, <2>8, <3>1, Tokens
        <3>3. SubSeq(s, 1, Len(d)) = d
            BY <2>7, <3>1, HeadIsRead
        <3>4. s = d \o SubSeq(s, Len(d) + 1, Len(s)) /\ SubSeq(s, Len(d) + 1, Len(s)) \in Seq(Nat)
            BY <2>7, <3>1, HeadIsRead
        <3>5. PICK r \in Seq(Nat) : r = SubSeq(s, Len(d) + 1, Len(s))
            BY <3>4
        <3>6. s = d \o r
            BY <3>4, <3>5
        <3>7. SubSeq(s, 6, 5 + n) = e.name
            <4>1. 6 \in 1..(Len(d) + 1) /\ 5 + n \in 5..Len(d) /\ Len(d) = 5 + n
                BY <2>6
            <4>2. SubSeq(d \o r, 6, 5 + n) = SubSeq(d, 6, 5 + n)
                BY <4>1, SubSeqOfConcat1
            <4> QED BY <2>6, <3>6, <4>2
        <3>8. Sent(c)[k + 1] = l \o d
            BY <1>2, <2>2, <2>3, <2>5, SentIs
        <3>9. (l \o d) \o r = l \o (d \o r)
            <4>1. Regroups(l, d, r)
                BY Regrouped, Zenon
            <4> QED BY <4>1 DEF Regroups
        <3>10. 5 + n + 1 = Len(d) + 1
            BY <2>6
        <3> QED BY <1>2, <3>2, <3>5, <3>6, <3>7, <3>8, <3>9, <3>10
    <2>11. k # Len(c) /\ n = Len(c[k + 1].name) /\ n \in Nat
        BY <1>1, <1>4, <2>3, <2>4
    <2> QED BY <2>3, <2>9, <2>10, <2>11
<1> QED BY <1>1, <1>3, <1>4
LEMMA ContentTypes == \A c \in Contents : c \in Seq(Entry)
BY SessionAssumption DEF Entry

\* What a sane device is about to say where an entry or a stat may follow.
LEMMA SyncExpects ==
    ASSUME SessionInv, pc \in {"entry", "stat"}, truth.sane, in # <<>>
    PROVE  \/ /\ in[1] = FAIL /\ acc = <<>> /\ truth.reason \in Reasons
              /\ Begins(in, <<FAIL, Len(truth.reason)>> \o truth.reason)
              /\ truth.whole => in = <<FAIL, Len(truth.reason)>> \o truth.reason
           \/ in[1] # FAIL /\ truth.reason = <<>>
<1>1. in \in Seq(Nat) /\ Expects /\ 1 \in 1..Len(in)
    <2>1. in \in Seq(Nat) /\ Expects
        BY WhileTalking DEF Talking, Waiting, Reading
    <2> QED BY <2>1, LenProperties, EmptySeq
<1>2. CASE acc = <<>> /\ Refused(<<FAIL, Len(truth.reason)>>)
    BY <1>1, <1>2, RefusalRead DEF Refused, Arrived
<1>3. CASE pc = "entry" /\ \E k \in 0..Len(truth.value) : Listed(k)
    <2>1. PICK k \in 0..Len(truth.value) : Listed(k)
        BY <1>3
    <2>2. /\ truth.reason = <<>> /\ truth.value \in Seq(Entry)
          /\ Begins(Sent(truth.value)[k] \o in, Stream(truth.value))
        BY <2>1, ContentTypes DEF Listed, Arrived
    <2>3. PICK c \in Seq(Entry) : c = truth.value
        BY <2>2
    <2>4. k = Len(c) \/ k < Len(c)
        <3>1. Len(c) \in Nat /\ k \in 0..Len(c)
            BY <2>3, LenProperties
        <3> QED BY <3>1
    <2>5. in[1] \in {DENT, DONE}
        <3>1. Begins(Sent(c)[k] \o in, Stream(c)) /\ in \in Seq(Nat) /\ in # <<>>
            BY <1>1, <2>2, <2>3
        <3>2. (k = Len(c) => in[1] = DONE) /\ (k < Len(c) => in[1] = DENT)
            BY ONLY <2>3, k \in 0..Len(truth.value), <3>1, EntryRead, Zenon
        <3> QED BY <2>4, <3>2
    <2> QED BY <2>2, <2>5, Words
<1>4. ASSUME NEW a, NEW b, NEW d, truth.reason = <<>>, Begins(in, <<STAT, a, b, d>>)
      PROVE  in[1] # FAIL /\ truth.reason = <<>>
    <2>1. in[1] = STAT
        BY <1>1, <1>4 DEF Begins
    <2> QED BY <1>4, <2>1, Words
<1>5. CASE pc = "stat" /\ truth.reason = <<>> /\ Arrived(in, <<STAT, 0, 0, 0>>)
    BY <1>4, <1>5 DEF Arrived
<1>6. CASE \E s \in [mode : Nat, size : Nat, mtime : Nat] :
              truth.reason = <<>> /\ Arrived(in, <<STAT, s.mode, s.size, s.mtime>>)
    BY <1>4, <1>6 DEF Arrived
<1>7. CASE pc = "entry"
    BY <1>1, <1>2, <1>3, <1>7 DEF Expects, Unanswered
<1>8. CASE pc = "stat"
    BY <1>1, <1>2, <1>5, <1>6, <1>8 DEF Expects, Unanswered
<1> QED BY <1>7, <1>8

LEMMA SyncFailRead ==
    ASSUME SessionInv, SyncFail, UNCHANGED peer
    PROVE  SessionInv'
<1>1. pc \in {"entry", "stat"} /\ pc \in Talking /\ pc \in Reading
    BY DEF SyncFail, Talking, Waiting, Reading
<1>2. /\ op \in Operations /\ in \in Seq(Nat) /\ out \in Seq(Nat) /\ Len(in) \in Nat
      /\ stage \in 1..Len(Requests(op))
    BY <1>1, WhileTalking, LenProperties
<1>3. Len(in) >= 2 /\ in[1] = FAIL /\ in # <<>>
    <2>1. Len(in) >= 2 /\ in[1] = FAIL
        BY DEF SyncFail, Has
    <2> QED BY <1>2, <2>1, EmptySeq
<1>4. ASSUME truth.sane
      PROVE  /\ acc = <<>> /\ truth.reason \in Reasons /\ in[2] = Len(truth.reason)
             /\ Arrived(SubSeq(in, 3, Len(in)), truth.reason) /\ in[2] <= FailMax
    <2>1. /\ acc = <<>> /\ truth.reason \in Reasons
          /\ Begins(in, <<FAIL, Len(truth.reason)>> \o truth.reason)
          /\ truth.whole => in = <<FAIL, Len(truth.reason)>> \o truth.reason
        BY <1>1, <1>3, <1>4, SyncExpects
    <2>2. /\ in[2] = Len(truth.reason) /\ Begins(SubSeq(in, 3, Len(in)), truth.reason)
          /\ truth.whole => SubSeq(in, 3, Len(in)) = truth.reason
        BY <1>2, <1>3, <2>1, RefusalRead
    <2> QED BY <2>1, <2>2, AnswerTypes DEF Arrived
<1>5. CASE in[2] > FailMax
    <2>1. End(Failed(Own))
        BY <1>5 DEF SyncFail
    <2>2. ~truth.sane
        <3>1. ASSUME truth.sane PROVE FALSE
            <4>1. in[2] <= FailMax /\ in[2] \in Nat
                <5>1. 2 \in 1..Len(in)
                    BY <1>2, <1>3
                <5>2. in[2] \in Nat
                    BY <1>2, <5>1, ElementOfSeq
                <5> QED BY <1>4, <3>1, <5>2
            <4> QED BY <1>5, <4>1, SessionAssumption
        <3> QED BY <3>1
    <2> QED BY <1>1, <2>1, <2>2, Ending, FailedIsGood
<1>6. CASE ~(in[2] > FailMax)
    <2>1. /\ in' = SubSeq(in, 3, Len(in)) /\ want' = in[2] /\ acc' = acc /\ op' = op
          /\ conn' = conn /\ out' = out /\ stage' = stage /\ pc' = "reason"
        BY <1>6 DEF SyncFail, Take, Step
    <2>2. pc' \in Talking /\ pc' \in Reading
        BY <2>1 DEF Talking, Waiting, Reading
    <2>3. in' \in Seq(Nat)
        <3>1. SubSeq(in, 2 + 1, Len(in)) \in Seq(Nat)
            BY <1>2, RestType
        <3> QED BY <2>1, <3>1
    <2>4. want' \in Nat /\ want' <= FailMax
        <3>1. 2 \in 1..Len(in)
            BY <1>2, <1>3
        <3>2. in[2] \in Nat
            BY <1>2, <3>1, ElementOfSeq
        <3> QED BY <1>6, <2>1, <3>2, SessionAssumption
    <2>5. truth' = truth
        BY DEF peer
    <2>6. TakesTurns'
        <3>1. conn = "up" => Answered
            BY <1>1, <1>3, UpMeansTurns
        <3> QED BY <2>1, <2>2, <2>5, <3>1 DEF TakesTurns, Answered
    <2>7. ASSUME truth.sane PROVE Expects'
        <3>1. <<>> \o truth.reason = truth.reason
            BY <1>4, <2>7, PeerAssumption, ConcatEmptySeq
        <3> QED BY <1>4, <2>1, <2>5, <2>7, <3>1 DEF Expects, Refused, Arrived
    <2> QED BY <1>1, <1>2, <2>1, <2>2, <2>3, <2>4, <2>6, <2>7, ReadsOn
<1> QED BY <1>5, <1>6
LEMMA EntryHeaderRead ==
    ASSUME SessionInv, ReadListEntry, UNCHANGED peer
    PROVE  SessionInv'
<1>1. pc = "entry" /\ pc \in Talking /\ pc \in Reading
    BY DEF ReadListEntry, Talking, Waiting, Reading
<1>2. /\ op \in Operations /\ in \in Seq(Nat) /\ out \in Seq(Nat) /\ Len(in) \in Nat
      /\ stage \in 1..Len(Requests(op)) /\ (truth.sane => Expects)
    BY <1>1, WhileTalking, LenProperties
<1>3. in # <<>> /\ in[1] # FAIL
    BY <1>2, EmptySeq DEF ReadListEntry, Has
<1>4. truth.sane => truth.reason = <<>>
    BY <1>1, <1>3, SyncExpects
<1>5. CASE End(Failed(Own))
    BY <1>1, <1>4, <1>5, Ending, FailedIsGood
<1>6. CASE ~End(Failed(Own))
    <2>1. /\ in[1] \in {DENT, DONE} /\ Len(in) >= 5 /\ in[5] <= SyncPathMax
          /\ in' = in /\ want' = in[5] /\ acc' = acc /\ op' = op
          /\ conn' = conn /\ out' = out /\ stage' = stage /\ pc' = "name"
        BY <1>6 DEF ReadListEntry, Has, NameFits, Step
    <2>2. want' \in Nat /\ want' <= SyncPathMax
        <3>1. 5 \in 1..Len(in)
            BY <1>2, <2>1
        <3> QED BY <1>2, <2>1, <3>1, ElementOfSeq
    <2>3. pc' \in Talking /\ pc' \in Reading
        BY <2>1 DEF Talking, Waiting, Reading
    <2>4. truth' = truth
        BY DEF peer
    <2>5. TakesTurns'
        <3>1. conn = "up" => Answered
            BY <1>1, <1>3, UpMeansTurns
        <3> QED BY <2>1, <2>3, <2>4, <3>1 DEF TakesTurns, Answered
    <2>6. ASSUME truth.sane PROVE Expects'
        <3>1. ~Refused(<<FAIL, Len(truth.reason)>>)
            BY <1>2, <1>3, RefusalRead DEF Refused, Arrived
        <3>2. op.kind = "list" /\ \E k \in 0..Len(truth.value) : Listed(k)
            BY <1>1, <1>2, <1>3, <2>6, <3>1 DEF Expects, Unanswered
        <3>3. \E k \in 0..Len(truth'.value) : Listed(k)'
            BY <2>1, <2>4, <3>2 DEF Listed, Arrived
        <3> QED BY <2>1, <3>2, <3>3 DEF Expects
    <2> QED BY <1>1, <1>2, <2>1, <2>2, <2>3, <2>5, <2>6, ReadsOn
<1> QED BY <1>5, <1>6

LEMMA OneMore ==
    ASSUME NEW c \in Seq(Entry), NEW k \in Nat, k < Len(c)
    PROVE  SubSeq(c, 1, k + 1) = Append(SubSeq(c, 1, k), c[k + 1])
<1>1. k + 1 \in 1..Len(c) /\ (k + 1) - 1 = k /\ 1 \in 1..Len(c) /\ k + 1 \in 1..Len(c)
    BY LenProperties
<1>2. SubSeq(c, 1, k + 1) = SubSeq(c, 1, (k + 1) - 1) \o <<c[k + 1]>>
    BY <1>1, SubSeqRecursiveSecond
<1>3. c[k + 1] \in Entry /\ SubSeq(c, 1, k) \in Seq(Entry)
    <2>1. \A i \in 1..k : c[i] \in Entry
        BY <1>1, ElementOfSeq
    <2> QED BY <1>1, <2>1, ElementOfSeq, SubSeqProperties
<1>4. Append(SubSeq(c, 1, k), c[k + 1]) = SubSeq(c, 1, k) \o <<c[k + 1]>>
    BY <1>3, AppendIsConcat
<1> QED BY <1>1, <1>2, <1>4

LEMMA NameRead ==
    ASSUME SessionInv, ReadName, UNCHANGED peer
    PROVE  SessionInv'
<1>1. pc = "name" /\ pc \in Talking /\ pc \in Reading
    BY DEF ReadName, Talking, Waiting, Reading
<1>2. /\ op \in Operations /\ in \in Seq(Nat) /\ out \in Seq(Nat) /\ Len(in) \in Nat /\ want \in Nat
      /\ stage \in 1..Len(Requests(op)) /\ (truth.sane => Expects)
    BY <1>1, WhileTalking, LenProperties
<1>3. Len(in) >= 5 + want /\ Len(in) >= 5 /\ in # <<>>
    <2>1. Len(in) >= 5 + want
        BY DEF ReadName, Has
    <2> QED BY <1>2, <2>1, EmptySeq
\* The list as it has been read, and the entry that stands there.
<1>4. ASSUME truth.sane
      PROVE  \E k \in 0..Len(truth.value) :
                Listed(k) /\ op.kind = "list" /\ want = in[5] /\ in[1] \in {DENT, DONE}
    BY <1>1, <1>2, <1>3, <1>4 DEF Expects
<1>5. CASE in[1] = DONE
    <2>1. End(Answer(acc))
        BY <1>5 DEF ReadName
    <2>2. ASSUME truth.sane PROVE op.kind = "list" /\ acc = truth.value
        <3>0. PICK k \in 0..Len(truth.value) : Listed(k) /\ op.kind = "list"
            BY <1>4, <2>2
        <3>1. PICK c \in Contents : /\ truth.value = c /\ acc = SubSeq(c, 1, k) /\ k \in 0..Len(c)
                                    /\ Begins(Sent(c)[k] \o in, Stream(c))
            BY <3>0 DEF Listed, Arrived
        <3>2. c \in Seq(Entry) /\ Len(c) \in Nat
            BY ContentTypes, LenProperties
        <3>3. ~(k < Len(c))
            BY <1>2, <1>3, <1>5, <3>1, <3>2, EntryRead, Words
        <3>4. k = Len(c)
            BY <3>1, <3>2, <3>3
        <3> QED BY <3>0, <3>1, <3>2, <3>4, SubSeqFull
    <2>3. Good(Answer(acc))
        BY <2>2 DEF Good, Answer
    <2> QED BY <1>1, <2>1, <2>3, Ending
<1>6. CASE in[1] # DONE
    <2> DEFINE e == [mode |-> in[2], size |-> in[3], mtime |-> in[4], name |-> SubSeq(in, 6, 5 + want)]
    <2>1. /\ in' = SubSeq(in, 5 + want + 1, Len(in)) /\ want' = 0 /\ acc' = Append(acc, e) /\ op' = op
          /\ conn' = conn /\ out' = out /\ stage' = stage /\ pc' = "entry"
        BY <1>6 DEF ReadName, Take, Step
    <2>2. in' \in Seq(Nat)
        <3>1. 5 + want \in Nat
            BY <1>2
        <3>2. SubSeq(in, 5 + want + 1, Len(in)) \in Seq(Nat)
            BY <1>2, <3>1, RestType
        <3> QED BY <2>1, <3>2
    <2>3. pc' \in Talking /\ pc' \in Reading
        BY <2>1 DEF Talking, Waiting, Reading
    <2>4. truth' = truth
        BY DEF peer
    <2>5. TakesTurns'
        <3>1. conn = "up" => Answered
            BY <1>1, <1>3, UpMeansTurns
        <3> QED BY <2>1, <2>3, <2>4, <3>1 DEF TakesTurns, Answered
    <2>6. ASSUME truth.sane PROVE Expects'
        <3>0. PICK k \in 0..Len(truth.value) :
                 Listed(k) /\ op.kind = "list" /\ want = in[5] /\ in[1] \in {DENT, DONE}
            BY <1>4, <2>6
        <3>1. PICK c \in Contents :
                 /\ truth.value = c /\ truth.reason = <<>> /\ k \in 0..Len(c)
                 /\ acc = SubSeq(c, 1, k) /\ Begins(Sent(c)[k] \o in, Stream(c))
                 /\ truth.whole => Sent(c)[k] \o in = Stream(c)
            BY <3>0 DEF Listed, Arrived
        <3>2. c \in Seq(Entry) /\ Len(c) \in Nat /\ k \in Nat
            BY ContentTypes, LenProperties
        <3>3. k < Len(c)
            <4>1. k # Len(c)
                BY <1>2, <1>3, <1>6, <3>1, <3>2, EntryRead
            <4> QED BY <3>1, <3>2, <4>1
        <3>4. Len(c[k + 1].name) = want
            BY <1>2, <1>3, <3>0, <3>1, <3>2, <3>3, EntryRead
        <3>5. /\ in[2] = c[k + 1].mode /\ in[3] = c[k + 1].size /\ in[4] = c[k + 1].mtime
              /\ SubSeq(in, 6, 5 + want) = c[k + 1].name /\ c[k + 1] \in Entry
              /\ Sent(c)[k + 1] \o in' = Sent(c)[k] \o in
            BY <1>2, <1>3, <2>1, <3>1, <3>2, <3>3, <3>4, EntryRead
        <3>6. e = c[k + 1]
            BY <3>5 DEF Entry
        <3>7. acc' = SubSeq(c, 1, k + 1)
            BY <2>1, <3>1, <3>2, <3>3, <3>6, OneMore
        <3>8. k + 1 \in 0..Len(c)
            BY <3>2, <3>3
        <3>9. Listed(k + 1)'
            BY <2>1, <2>4, <3>1, <3>5, <3>7, <3>8 DEF Listed, Arrived
        <3>10. k + 1 \in 0..Len(truth'.value) /\ op'.kind = "list"
            BY <2>1, <2>4, <3>0, <3>1, <3>8
        <3> QED BY <2>1, <3>9, <3>10 DEF Expects
    <2>7. want' \in Nat /\ want' <= SyncPathMax
        BY <2>1, SessionAssumption
    <2> HIDE DEF e
    <2> QED BY <1>1, <1>2, <2>1, <2>2, <2>3, <2>5, <2>6, <2>7, ReadsOn
<1> QED BY <1>5, <1>6
LEMMA StatIsRead ==
    ASSUME SessionInv, ReadStat, UNCHANGED peer
    PROVE  SessionInv'
<1>1. pc = "stat" /\ pc \in Talking
    BY DEF ReadStat, Talking, Waiting, Reading
<1>2. in \in Seq(Nat) /\ Len(in) \in Nat /\ (truth.sane => Expects)
    BY <1>1, WhileTalking, LenProperties
<1>3. in # <<>> /\ in[1] # FAIL
    BY <1>2, EmptySeq DEF ReadStat, Has
<1>4. truth.sane => truth.reason = <<>>
    BY <1>1, <1>3, SyncExpects
<1>5. CASE End(Failed(Own))
    BY <1>1, <1>4, <1>5, Ending, FailedIsGood
<1>6. CASE ~End(Failed(Own))
    <2> DEFINE s == [mode |-> in[2], size |-> in[3], mtime |-> in[4]]
               v == IF Absent(s) THEN <<>> ELSE <<s>>
    <2>1. in[1] = STAT /\ Len(in) >= 4 /\ End(Answer(v))
        BY <1>6 DEF ReadStat, Has
    <2>2. ASSUME truth.sane PROVE op.kind = "stat" /\ v = truth.value
        <3>1. ~Refused(<<FAIL, Len(truth.reason)>>)
            BY <1>2, <1>3, RefusalRead DEF Refused, Arrived
        <3>2. ASSUME NEW a, NEW b, NEW d, Arrived(in, <<STAT, a, b, d>>)
              PROVE  in[2] = a /\ in[3] = b /\ in[4] = d
            <4>1. 2 \in 1..Len(in) /\ 3 \in 1..Len(in) /\ 4 \in 1..Len(in)
                BY <1>2, <2>1
            <4> QED BY <3>2, <4>1 DEF Arrived, Begins
        <3>3. CASE truth.value = <<>> /\ Arrived(in, <<STAT, 0, 0, 0>>)
            <4>1. in[2] = 0 /\ in[3] = 0 /\ in[4] = 0
                BY <3>2, <3>3
            <4> QED BY <1>1, <1>2, <2>2, <3>3, <4>1 DEF Absent, Expects
        <3>4. ASSUME NEW e \in [mode : Nat, size : Nat, mtime : Nat], ~Absent(e), truth.value = <<e>>,
                     Arrived(in, <<STAT, e.mode, e.size, e.mtime>>)
              PROVE  op.kind = "stat" /\ v = truth.value
            <4>1. in[2] = e.mode /\ in[3] = e.size /\ in[4] = e.mtime
                BY <3>2, <3>4
            <4>2. s = e
                BY <4>1
            <4> QED BY <1>1, <1>2, <2>2, <3>4, <4>2 DEF Expects
        <3> QED BY <1>1, <1>2, <1>3, <2>2, <3>1, <3>3, <3>4 DEF Expects, Unanswered
    <2>3. Good(Answer(v))
        BY <2>2 DEF Good, Answer
    <2> QED BY <1>1, <2>1, <2>3, Ending
<1> QED BY <1>5, <1>6

LEMMA OutputRead ==
    ASSUME SessionInv, ReadOutput \/ OutputEnds, UNCHANGED peer
    PROVE  SessionInv'
<1>1. pc = "output" /\ pc \in Talking
    BY DEF ReadOutput, OutputEnds, Talking, Waiting
<1>2. /\ op \in Operations /\ in \in Seq(Nat) /\ out \in Seq(Nat) /\ want \in Nat
      /\ stage \in 1..Len(Requests(op)) /\ (truth.sane => Expects)
    BY <1>1, WhileTalking
<1>3. ASSUME truth.sane
      PROVE  /\ op.kind = "shell" /\ truth.reason = <<>> /\ truth.value \in Outputs
             /\ acc \in Seq(Nat) /\ Arrived(acc \o in, truth.value) /\ truth.value \in Seq(Nat)
    BY <1>1, <1>2, <1>3, AnswerTypes DEF Expects
<1>4. CASE ReadOutput
    <2>1. /\ in' = <<>> /\ want' = want /\ acc' = acc \o in /\ op' = op
          /\ conn' = conn /\ out' = out /\ stage' = stage /\ pc' = "output"
        BY <1>4 DEF ReadOutput, Step
    <2>2. pc' \in Talking /\ in' \in Seq(Nat) /\ truth' = truth
        BY <2>1 DEF Talking, Waiting, peer
    <2>3. TakesTurns'
        <3>1. conn # "up"
            BY <1>1, UpMeansTurns
        <3> QED BY <2>1, <3>1 DEF TakesTurns
    <2>4. ASSUME truth.sane PROVE Expects'
        <3>1. acc' \in Seq(Nat)
            BY <1>2, <1>3, <2>1, <2>4, ConcatProperties
        <3>2. acc' \o in' = acc \o in
            BY <2>1, <3>1, ConcatEmptySeq
        <3> QED BY <1>3, <2>1, <2>2, <2>4, <3>1, <3>2 DEF Expects, Arrived
    <2>5. want <= SyncPathMax \/ want <= FailMax \/ want <= HostRequestMax
        BY DEF SessionInv, Lengths
    <2> QED BY <1>1, <1>2, <2>1, <2>2, <2>3, <2>4, <2>5, ReadsOn
<1>5. CASE OutputEnds
    <2>1. in = <<>> /\ End(IF conn = "eof" THEN Answer(acc) ELSE Failed(Own))
        BY <1>5 DEF OutputEnds
    <2>2. ASSUME truth.sane
          PROVE  op.kind = "shell" /\ IsPrefix(acc, truth.value) /\ (truth.whole => acc = truth.value)
        <3>1. acc \o in = acc
            BY <1>3, <2>1, <2>2, ConcatEmptySeq
        <3> QED BY <1>3, <2>2, <3>1, BeginsWith DEF Arrived
    <2>3. Good(Answer(acc))
        BY <2>2 DEF Good, Answer
    <2>4. Good(Failed(Own))
        BY <1>3, FailedIsGood
    <2> QED BY <1>1, <2>1, <2>3, <2>4, Ending
<1> QED BY <1>4, <1>5

\* A read that the stream ends in has lost something of the reason, if there was one.
LEMMA ReadIsCut ==
    ASSUME SessionInv, ReadFails, UNCHANGED peer
    PROVE  SessionInv'
<1>1. /\ pc \in {"status", "length", "refusedLength", "payload", "reason", "entry", "name", "stat"}
      /\ pc \in Talking /\ ~(Len(in) >= Needs) /\ End(Failed(Own))
    BY DEF ReadFails, Cut, Has, Talking, Waiting, Reading
<1>2. in \in Seq(Nat) /\ Len(in) \in Nat /\ (truth.sane => Expects)
    BY <1>1, WhileTalking, LenProperties
<1>3. ASSUME truth.sane, truth.whole PROVE truth.reason = <<>>
    <2> SUFFICES ASSUME truth.reason # <<>> PROVE FALSE
        OBVIOUS
    <2>1. Expects
        BY <1>2, <1>3
    <2>2. CASE pc = "status"
        <3>1. Refused(<<FAIL>> \o Hex(Len(truth.reason)))
            BY <2>1, <2>2 DEF Expects, Unanswered
        <3>2. truth.reason \in Reasons /\ in = <<FAIL>> \o Framed(truth.reason)
            BY <1>2, <1>3, <3>1, RefusedHead DEF Refused, Arrived
        <3>3. PICK u \in Seq(Nat) : u = Framed(truth.reason)
            BY <3>2, AnswerTypes
        <3>4. PICK f \in Seq(Nat) : f = <<FAIL>>
            <4>1. <<FAIL>> \in Seq(Nat)
                BY Words
            <4> QED BY <4>1, Zenon
        <3>5. Len(in) = Len(f) + Len(u) /\ Len(f) = 1 /\ Len(u) \in Nat
            BY <3>2, <3>3, <3>4, ConcatProperties, LenProperties
        <3>6. Needs = 1
            BY <2>2 DEF Needs
        <3> QED BY <1>1, <3>5, <3>6
    <2>3. CASE pc \in {"length", "payload"}
        BY <2>1, <2>3 DEF Expects
    <2>4. CASE pc = "refusedLength"
        <3>1. truth.reason \in Reasons /\ in = Framed(truth.reason)
            BY <1>3, <2>1, <2>4 DEF Expects, Refused, Arrived, Framed
        <3>2. PICK u \in Seq(Nat) : u = truth.reason
            BY <3>1, AnswerTypes
        <3>3. PICK h \in Seq(Nat) : h = Hex(Len(truth.reason))
            BY <3>1, AnswerTypes
        <3>4. Len(h) = HexDigits /\ HexDigits \in Nat
            <4>1. Len(truth.reason) \in Nat
                BY <3>2, LenProperties
            <4>2. Len(Hex(Len(truth.reason))) = HexDigits
                BY <4>1, HexType
            <4> QED BY <3>3, <4>2, SessionAssumption
        <3>5. Len(in) = Len(h) + Len(u) /\ Len(u) \in Nat
            BY <3>1, <3>2, <3>3, ConcatProperties, LenProperties DEF Framed
        <3>6. Needs = HexDigits
            BY <2>4 DEF Needs
        <3> QED BY <1>1, <3>4, <3>5, <3>6
    <2>5. CASE pc = "reason"
        <3>1. truth.reason \in Reasons /\ in = <<>> \o truth.reason /\ want = Len(truth.reason)
            BY <1>3, <2>1, <2>5 DEF Expects, Refused, Arrived
        <3>2. in = truth.reason
            BY <3>1, AnswerTypes, ConcatEmptySeq
        <3>3. Needs = want
            BY <2>5 DEF Needs
        <3> QED BY <1>1, <1>2, <3>1, <3>2, <3>3
    <2>6. CASE pc \in {"entry", "stat"}
        <3>1. in # <<>>
            <4>1. CASE in = <<>>
                <5>1. Refused(<<FAIL, Len(truth.reason)>>)
                    BY <2>1, <2>6 DEF Expects, Unanswered, Listed
                <5> QED BY <1>2, <1>3, <4>1, <5>1, RefusalRead DEF Refused, Arrived
            <4> QED BY <4>1
        <3>2. /\ in[1] = FAIL /\ truth.reason \in Reasons
              /\ in = <<FAIL, Len(truth.reason)>> \o truth.reason
              /\ Begins(in, <<FAIL, Len(truth.reason)>> \o truth.reason)
            BY <1>3, <2>6, <3>1, SyncExpects
        <3>3. Len(in) >= 2
            BY <1>2, <3>2, RefusalRead
        <3>4. Needs = 2
            BY <2>6, <3>2, <3>3, <1>2 DEF Needs, Has
        <3> QED BY <1>1, <3>3, <3>4
    <2>7. CASE pc = "name"
        BY <2>1, <2>7 DEF Expects, Listed
    <2> QED BY <1>1, <2>2, <2>3, <2>4, <2>5, <2>6, <2>7
<1> QED BY <1>1, <1>3, Ending, FailedIsGood
LEMMA Called ==
    ASSUME SessionInv, NEW o \in Operations, Call(o), UNCHANGED peer
    PROVE  SessionInv'
<1>1. /\ pc = "idle" /\ conn = "down" /\ in = <<>> /\ out = <<>> /\ want = 0 /\ acc = <<>>
      /\ stage = 1 /\ result = NoResult /\ mode = "host" /\ heard = <<>> /\ truth = NoTruth
    BY DEF SessionInv, AtRest, Talking, Waiting, Reading, Call
<1>2. /\ op' = o /\ conn' = "down" /\ in' = <<>> /\ out' = <<>> /\ want' = 0 /\ acc' = <<>>
      /\ stage' = 1 /\ mode' = "host" /\ heard' = <<>> /\ truth' = NoTruth
      /\ \/ pc' = "done" /\ result' = [NoResult EXCEPT !.error = Own]
         \/ pc' = "connect" /\ result' = NoResult
    BY <1>1 DEF Call, stream, peer
<1>3. o # NoOp /\ Len(Requests(o)) \in 1..2
    <2>1. Len(Requests(o)) = (IF o.kind = "devices" THEN 1 ELSE 2)
        BY RequestsAre
    <2>2. o # NoOp
        BY RequestsAre
    <2> QED BY <2>1, <2>2
<1>4. SessionType'
    BY <1>2, <1>3 DEF SessionType, Talking, Waiting, Reading
<1>5. AtRest'
    BY <1>2 DEF AtRest, Talking, Waiting, Reading
<1>6. Lengths'
    <2>1. 1 \in 1..2 /\ 1 <= Len(Requests(o)) /\ 0 <= SyncPathMax
        <3>1. ASSUME NEW n \in 1..2 PROVE 1 <= n
            OBVIOUS
        <3>2. 1 <= Len(Requests(o))
            BY <1>3, <3>1, Zenon
        <3>3. 0 <= SyncPathMax
            BY SessionAssumption
        <3> QED BY <3>2, <3>3
    <2>2. Lengths' = (/\ 1 \in 1..2 /\ (o # NoOp => 1 <= Len(Requests(o)))
                      /\ 0 <= SyncPathMax \/ 0 <= FailMax \/ 0 <= HostRequestMax)
        BY <1>2 DEF Lengths
    <2> QED BY <2>1, <2>2
<1>7. HeardIsMeant'
    <2>1. Len(Meant(o)) \in Nat
        BY RequestsAre, LenProperties
    <2> QED BY <1>2, <2>1 DEF HeardIsMeant
<1>8. TakesTurns' /\ AnswerIsCarried'
    BY <1>2 DEF TakesTurns, AnswerIsCarried, Expects
<1>9. AnswerIsTheDevices'
    BY <1>2 DEF AnswerIsTheDevices, NoResult, NoTruth
<1> QED BY <1>4, <1>5, <1>6, <1>7, <1>8, <1>9 DEF SessionInv

LEMMA Returned ==
    ASSUME SessionInv, ClientReturns
    PROVE  SessionInv'
<1>1. Idle'
    <2>1. pc = "done" /\ conn = "down" /\ in = <<>> /\ out = <<>> /\ want = 0 /\ acc = <<>>
        BY DEF SessionInv, AtRest, Talking, Waiting, Reading, ClientReturns, Return
    <2> QED BY <2>1 DEF ClientReturns, Return, stream, Idle
<1> QED BY <1>1, SessionBegins, PTL
-----------------------------------------------------------------------------
(* The other end.                                                          *)

\* The request that stands on the wire, when the other end takes one.
LEMMA ServedRequest ==
    ASSUME SessionInv, ServeRequest
    PROVE  /\ pc = "status" /\ conn = "up" /\ stage \in 1..Len(Requests(op)) /\ op \in Operations
           /\ in = <<>> /\ acc = <<>> /\ truth = NoTruth /\ mode = Before
           /\ heard \in Seq(Seq(Nat)) /\ Len(heard) = stage - 1
           /\ LET n == ParseHexLength(SubSeq(out, 1, HexDigits))
              IN  /\ SubSeq(out, HexDigits + 1, HexDigits + n) = Requests(op)[stage]
                  /\ SubSeq(out, HexDigits + n + 1, Len(out)) = <<>>
<1>1. conn = "up" /\ mode \in {"host", "device"} /\ Len(out) >= HexDigits
    BY DEF ServeRequest
<1>2. pc \in Talking
    BY <1>1 DEF SessionInv, AtRest
<1>3. out # <<>>
    <2>1. HexDigits \in Nat \ {0}
        BY SessionAssumption
    <2>2. ~(0 >= HexDigits)
        BY <2>1
    <2> QED BY <1>1, <2>2, EmptySeq
<1>4. Asks /\ pc = "status"
    BY <1>1, <1>3 DEF SessionInv, TakesTurns, Asks, Accepted, Answered
<1>5. /\ in = <<>> /\ acc = <<>> /\ truth = NoTruth /\ mode = Before /\ Len(heard) = stage - 1
      /\ Len(Requests(op)[stage]) <= HostRequestMax
      /\ out = EncodeHostRequest(Requests(op)[stage])
    BY <1>4 DEF Asks
<1>6. stage \in 1..Len(Requests(op)) /\ op \in Operations /\ heard \in Seq(Seq(Nat))
    BY <1>2, WhileTalking
<1>7. PICK s \in Seq(Nat) : s = Requests(op)[stage]
    <2>1. Requests(op) \in Seq(Seq(Nat))
        BY <1>6, RequestsAre
    <2> QED BY <1>6, <2>1, ElementOfSeq
<1>8. LET n == ParseHexLength(SubSeq(out, 1, HexDigits))
      IN  /\ SubSeq(out, HexDigits + 1, HexDigits + n) = s
          /\ SubSeq(out, HexDigits + n + 1, Len(out)) = <<>>
    BY <1>5, <1>7, FrameIsRead
<1> QED BY <1>1, <1>4, <1>5, <1>6, <1>7, <1>8

\* The services are told apart by their fixed parts.
LEMMA ServicesDiffer ==
    ASSUME NEW o \in Operations, NEW i \in 1..Len(Requests(o))
    PROVE  /\ Requests(o)[i] = Devices => o.kind = "devices"
           /\ i = 1 /\ (\E s \in Serials : Requests(o)[i] = BindTo(s)) => o.kind # "devices"
           /\ i = 2 /\ Requests(o)[i] = Sync => o.kind \in {"list", "stat"}
           /\ i = 2 /\ Requests(o)[i] # <<>> /\ Head(Requests(o)[i]) = Head(Shell(<<>>)) =>
                 o.kind = "shell"
<1>1. ASSUME NEW x \in Nat, NEW t \in Seq(Nat) PROVE (<<x>> \o t)[1] = x
    <2>1. PICK u \in Seq(Nat) : u = <<x>>
        <3>1. <<x>> \in Seq(Nat)
            OBVIOUS
        <3> QED BY <3>1, Zenon
    <2>2. Len(u) = 1 /\ u[1] = x /\ Len(t) \in Nat
        BY <2>1, LenProperties
    <2>3. (u \o t)[1] = u[1]
        BY <2>2, ConcatProperties
    <2> QED BY <2>1, <2>2, <2>3
<1>2. /\ Devices[1] = 2001 /\ Sync[1] = 2003
      /\ \A s \in Seq(Nat) : BindTo(s)[1] = 2002 /\ Shell(s)[1] = 2004
    BY <1>1 DEF Devices, Sync, BindTo, Shell
<1>3. /\ o.kind \in {"devices", "list", "stat", "shell"} /\ o.arg \in Seq(Nat) /\ o.serial \in Seq(Nat)
      /\ Len(Requests(o)) = (IF o.kind = "devices" THEN 1 ELSE 2)
    BY RequestsAre
<1>4. Serials \subseteq Seq(Nat) /\ <<>> \in Seq(Nat)
    BY SessionAssumption
<1>5. /\ o.kind = "devices" => Requests(o)[1] = Devices
      /\ o.kind # "devices" => Requests(o)[1] = BindTo(o.serial)
      /\ o.kind = "shell" => Requests(o)[2] = Shell(o.arg)
      /\ o.kind \in {"list", "stat"} => Requests(o)[2] = Sync
    BY <1>3 DEF Requests
<1>6. Head(Shell(<<>>)) = 2004
    <2>1. Shell(<<>>) = <<2004>>
        BY DEF Shell
    <2> QED BY <2>1
<1>7. i \in 1..2 /\ (o.kind = "devices" => i = 1)
    BY <1>3
<1>8. Requests(o)[i] = Devices => o.kind = "devices"
    <2>1. CASE i = 1
        BY <1>2, <1>3, <1>5, <2>1
    <2>2. CASE i = 2
        BY <1>2, <1>3, <1>5, <2>2
    <2> QED BY <1>7, <2>1, <2>2
<1>9. i = 1 /\ (\E s \in Serials : Requests(o)[i] = BindTo(s)) => o.kind # "devices"
    BY <1>2, <1>4, <1>5
<1>10. i = 2 /\ Requests(o)[i] = Sync => o.kind \in {"list", "stat"}
    BY <1>2, <1>3, <1>5, <1>7
<1>11. i = 2 /\ Head(Requests(o)[i]) = Head(Shell(<<>>)) => o.kind = "shell"
    <2>1. Head(Sync) = 2003
        BY DEF Sync
    <2> QED BY <1>3, <1>5, <1>6, <1>7, <2>1
<1> QED BY <1>8, <1>9, <1>10, <1>11
\* A step of the other end, or of the connection.
LEMMA PeerSteps ==
    ASSUME SessionInv, conn # "down", conn' \in {"up", "eof", "reset"}, UNCHANGED session,
           in' \in Seq(Nat), out' \in Seq(Nat), heard' \in Seq(Seq(Nat)),
           DOMAIN truth' = DOMAIN NoTruth, HeardIsMeant', TakesTurns', truth'.sane => Expects'
    PROVE  SessionInv'
<1>1. pc \in Talking
    BY DEF SessionInv, AtRest
<1>2. /\ pc' = pc /\ op' = op /\ stage' = stage /\ want' = want /\ acc' = acc /\ result' = result
      /\ pc \notin {"idle", "connect", "done"}
    BY <1>1 DEF session, Talking, Waiting, Reading
<1>3. SessionType'
    BY <1>2 DEF SessionInv, SessionType
<1>4. AtRest'
    BY <1>1, <1>2 DEF AtRest
<1>5. Lengths'
    BY <1>2 DEF SessionInv, Lengths
<1>6. AnswerIsCarried' /\ AnswerIsTheDevices'
    BY <1>2 DEF AnswerIsCarried, AnswerIsTheDevices
<1> QED BY <1>3, <1>4, <1>5, <1>6 DEF SessionInv

\* The next request is heard.
LEMMA HeardNext ==
    ASSUME op \in Operations, HeardIsMeant, heard \in Seq(Seq(Nat)), op' = op,
           NEW n \in 1..Len(Meant(op)), Len(heard) = n - 1, heard' = Append(heard, Meant(op)[n])
    PROVE  HeardIsMeant' /\ heard' \in Seq(Seq(Nat)) /\ Len(heard') = n
<1>1. Meant(op) \in Seq(Seq(Nat)) /\ Len(Meant(op)) \in Nat /\ op # NoOp
    BY RequestsAre, LenProperties
<1>2. PICK h \in Seq(Seq(Nat)) : h = Meant(op)
    BY <1>1
<1>3. PICK x \in Seq(Nat) : x = h[n]
    BY <1>2, ElementOfSeq
<1>4. /\ heard' \in Seq(Seq(Nat)) /\ Len(heard') = Len(heard) + 1
      /\ \A i \in 1..Len(heard) : heard'[i] = heard[i]
      /\ heard'[Len(heard) + 1] = x
    BY <1>2, <1>3, AppendProperties
<1>5. Len(heard') = n /\ n \in Nat /\ n <= Len(h)
    BY <1>1, <1>2, <1>4
<1>6. ASSUME NEW i \in 1..n PROVE heard'[i] = h[i]
    <2>1. CASE i = n
        BY <1>1, <1>3, <1>4, <1>5, <2>1
    <2>2. CASE i # n
        <3>1. i \in 1..Len(heard)
            BY <1>5, <2>2
        <3> QED BY <1>1, <1>2, <1>4, <3>1 DEF HeardIsMeant
    <2> QED BY <2>1, <2>2
<1>7. Meant(op)' = h
    BY <1>2 DEF Meant, Requests, Packet, BindTo, Shell, Devices, Sync
<1> QED BY <1>4, <1>5, <1>6, <1>7 DEF HeardIsMeant

LEMMA RequestServed ==
    ASSUME SessionInv, ServeRequest
    PROVE  SessionInv'
<1> DEFINE n == ParseHexLength(SubSeq(out, 1, HexDigits))
           s == Requests(op)[stage]
           to(c) == Hears(HexDigits + n, SubSeq(out, HexDigits + 1, HexDigits + n), c)
<1>1. /\ pc = "status" /\ conn = "up" /\ stage \in 1..Len(Requests(op)) /\ op \in Operations
      /\ in = <<>> /\ acc = <<>> /\ truth = NoTruth /\ mode = Before
      /\ heard \in Seq(Seq(Nat)) /\ Len(heard) = stage - 1
      /\ SubSeq(out, HexDigits + 1, HexDigits + n) = s /\ SubSeq(out, HexDigits + n + 1, Len(out)) = <<>>
    BY ServedRequest
<1>2. \E c : to(c)
    BY DEF ServeRequest
<1>3. /\ out' = <<>> /\ heard' = Append(heard, s) /\ UNCHANGED session
      /\ pc' = pc /\ op' = op /\ stage' = stage /\ want' = want /\ acc' = <<>>
    BY <1>1, <1>2 DEF Hears, session
<1>4. HeardIsMeant' /\ heard' \in Seq(Seq(Nat)) /\ Len(heard') = stage
    <2>1. stage \in 1..Len(Meant(op)) /\ Meant(op)[stage] = s
        <3>1. Len(Meant(op)) = Len(Requests(op)) + 1 /\ Len(Requests(op)) \in Nat
            BY <1>1, RequestsAre, LenProperties
        <3>2. stage \in 1..Len(Meant(op))
            BY <1>1, <3>1
        <3>3. Meant(op)[stage] = s
            BY <1>1, RequestsAre
        <3> QED BY <3>2, <3>3
    <2> QED BY <1>1, <1>3, <2>1, HeardNext DEF SessionInv
<1>5. out' \in Seq(Nat)
    BY <1>3
<1>6. Len(Requests(op)) = (IF op.kind = "devices" THEN 1 ELSE 2) /\ Requests(op)' = Requests(op)
    <2>1. Requests(op)' = Requests(op)
        <3>1. op' = op
            BY <1>3
        <3> QED BY ONLY <3>1 DEF Requests, BindTo, Shell, Devices, Sync
    <2> QED BY <1>1, <2>1, RequestsAre
<1>7. ASSUME NEW x \in Seq(Nat) PROVE <<>> \o x = x
    BY ConcatEmptySeq
<1>8. <<OKAY>> \in Seq(Nat) /\ DOMAIN truth' = DOMAIN NoTruth
    <2>1. \E v : truth' = [NoTruth EXCEPT !.value = v] \/ truth' = [NoTruth EXCEPT !.reason = v]
        BY <1>1 DEF ServeRequest, Replies, RepliesAndEnds, Refuses
    <2> QED BY <2>1, Words DEF NoTruth
\* devices -l: the list, and the end of the connection.
<1>9. ASSUME mode = "host", s = Devices, NEW t \in DeviceTexts,
             RepliesAndEnds(<<OKAY>> \o Hex(Len(t)) \o t, t)
      PROVE  SessionInv'
    <2>1. stage = 1 /\ op.kind = "devices" /\ stage = Len(Requests(op))
        <3>1. stage = 1
            BY <1>1, <1>9 DEF Before
        <3>2. op.kind = "devices"
            BY <1>1, <1>9, ServicesDiffer
        <3> QED BY <1>6, <3>1, <3>2
    <2>2. t \in Seq(Nat) /\ Len(t) <= HostRequestMax
        BY PeerAssumption
    <2>3. /\ in' = <<OKAY>> \o Framed(t) /\ in' \in Seq(Nat) /\ conn' = "eof"
          /\ truth' = [NoTruth EXCEPT !.value = t]
        <3>1. (<<OKAY>> \o Hex(Len(t))) \o t = <<OKAY>> \o Framed(t) /\ <<OKAY>> \o Framed(t) \in Seq(Nat)
            BY <2>2, WordAndText, Words
        <3>2. <<>> \o (<<OKAY>> \o Framed(t)) = <<OKAY>> \o Framed(t)
            BY <1>7, <3>1
        <3> QED BY <1>1, <1>9, <3>1, <3>2 DEF RepliesAndEnds
    <2>4. truth'.value = t /\ truth'.reason = <<>>
        BY <2>3 DEF NoTruth
    <2>5. Expects'
        <3>1. Begins(in', in')
            BY <2>3, BeginsWith
        <3> QED BY <1>1, <1>3, <1>6, <2>1, <2>3, <2>4, <3>1 DEF Expects, Arrived
    <2>6. TakesTurns'
        BY <2>3 DEF TakesTurns
    <2> QED BY <1>1, <1>3, <1>4, <1>5, <1>8, <2>3, <2>5, <2>6, PeerSteps
<1>10. ASSUME mode = "host", \E d \in Serials : s = BindTo(d), to("device"), Replies(<<OKAY>>, <<>>)
       PROVE  SessionInv'
    <2>1. stage = 1 /\ stage < Len(Requests(op))
        <3>1. stage = 1
            BY <1>1, <1>10 DEF Before
        <3>2. op.kind # "devices"
            BY <1>1, <1>10, <3>1, ServicesDiffer
        <3> QED BY <1>6, <3>1, <3>2
    <2>2. /\ in' = <<OKAY>> /\ in' \in Seq(Nat) /\ conn' = "up" /\ truth' = NoTruth /\ mode' = "device"
        <3>1. <<>> \o <<OKAY>> = <<OKAY>>
            BY <1>7, <1>8
        <3>2. [NoTruth EXCEPT !.value = <<>>] = NoTruth
            BY DEF NoTruth
        <3> QED BY <1>1, <1>8, <1>10, <3>1, <3>2 DEF Replies, Hears
    <2>3. Expects'
        <3>1. Begins(in', <<OKAY>>)
            BY <2>2, BeginsWith
        <3> QED BY <1>1, <1>3, <1>6, <2>1, <2>2, <3>1 DEF Expects, Arrived, NoTruth
    <2>4. TakesTurns'
        BY <1>1, <1>3, <1>4, <1>6, <2>1, <2>2 DEF TakesTurns, Accepted
    <2> QED BY <1>1, <1>3, <1>4, <1>5, <1>8, <2>2, <2>3, <2>4, PeerSteps
<1>11. ASSUME mode = "device", s = Sync, to("sync"), Replies(<<OKAY>>, <<>>)
       PROVE  SessionInv'
    <2>1. stage = 2 /\ stage = Len(Requests(op)) /\ op.kind \in {"list", "stat"}
        <3>1. stage = 2 /\ op.kind # "devices"
            BY <1>1, <1>6, <1>11 DEF Before
        <3>2. op.kind \in {"list", "stat"}
            BY <1>1, <1>11, <3>1, ServicesDiffer
        <3> QED BY <1>6, <3>1, <3>2
    <2>2. /\ in' = <<OKAY>> /\ in' \in Seq(Nat) /\ conn' = "up" /\ truth' = NoTruth /\ mode' = "sync"
        <3>1. <<>> \o <<OKAY>> = <<OKAY>>
            BY <1>7, <1>8
        <3>2. [NoTruth EXCEPT !.value = <<>>] = NoTruth
            BY DEF NoTruth
        <3> QED BY <1>1, <1>8, <1>11, <3>1, <3>2 DEF Replies, Hears
    <2>3. Expects'
        <3>1. Begins(in', <<OKAY>>)
            BY <2>2, BeginsWith
        <3> QED BY <1>1, <1>3, <1>6, <2>1, <2>2, <3>1 DEF Expects, Arrived, NoTruth
    <2>4. TakesTurns'
        BY <1>1, <1>3, <1>4, <1>6, <2>1, <2>2 DEF TakesTurns, Accepted
    <2> QED BY <1>1, <1>3, <1>4, <1>5, <1>8, <2>2, <2>3, <2>4, PeerSteps
<1>12. ASSUME mode = "device", s # <<>>, Head(s) = Head(Shell(<<>>)), NEW o \in Outputs,
              RepliesAndEnds(<<OKAY>> \o o, o)
       PROVE  SessionInv'
    <2>1. stage = 2 /\ stage = Len(Requests(op)) /\ op.kind = "shell"
        <3>1. stage = 2 /\ op.kind # "devices"
            BY <1>1, <1>6, <1>12 DEF Before
        <3>2. op.kind = "shell"
            BY <1>1, <1>12, <3>1, ServicesDiffer
        <3> QED BY <1>6, <3>1, <3>2
    <2>2. /\ in' = <<OKAY>> \o o /\ in' \in Seq(Nat) /\ conn' = "eof"
          /\ truth' = [NoTruth EXCEPT !.value = o]
        <3>1. o \in Seq(Nat)
            BY SessionAssumption
        <3>2. <<OKAY>> \o o \in Seq(Nat)
            BY <1>8, <3>1, ConcatProperties
        <3>3. <<>> \o (<<OKAY>> \o o) = <<OKAY>> \o o
            BY <1>7, <3>2
        <3> QED BY <1>1, <1>12, <3>2, <3>3 DEF RepliesAndEnds
    <2>3. truth'.value = o /\ truth'.reason = <<>>
        BY <2>2 DEF NoTruth
    <2>4. Expects'
        <3>1. Begins(in', in')
            BY <2>2, BeginsWith
        <3> QED BY <1>1, <1>3, <1>6, <2>1, <2>2, <2>3, <3>1 DEF Expects, Arrived
    <2>5. TakesTurns'
        BY <2>2 DEF TakesTurns
    <2> QED BY <1>1, <1>3, <1>4, <1>5, <1>8, <2>2, <2>4, <2>5, PeerSteps
<1>13. ASSUME NEW m \in Reasons, Refuses(<<FAIL>> \o Hex(Len(m)) \o m, m)
       PROVE  SessionInv'
    <2>1. m \in Seq(Nat) /\ Len(m) <= HostRequestMax
        BY PeerAssumption
    <2>2. /\ in' = (<<FAIL>> \o Hex(Len(m))) \o m /\ in' \in Seq(Nat) /\ conn' = "eof"
          /\ truth' = [NoTruth EXCEPT !.reason = m]
        <3>1. (<<FAIL>> \o Hex(Len(m))) \o m = <<FAIL>> \o Framed(m) /\ <<FAIL>> \o Framed(m) \in Seq(Nat)
            BY <2>1, WordAndText, Words
        <3>2. <<>> \o (<<FAIL>> \o Framed(m)) = <<FAIL>> \o Framed(m)
            BY <1>7, <3>1
        <3> QED BY <1>1, <1>13, <3>1, <3>2 DEF Refuses
    <2>3. truth'.value = <<>> /\ truth'.reason = m
        BY <2>2 DEF NoTruth
    <2>4. Expects'
        <3>1. Begins(in', in')
            BY <2>2, BeginsWith
        <3>2. Refused(<<FAIL>> \o Hex(Len(truth.reason)))'
            BY <2>2, <2>3, <3>1 DEF Refused, Arrived
        <3> QED BY <1>1, <1>3, <2>3, <3>2 DEF Expects
    <2>5. TakesTurns'
        BY <2>2 DEF TakesTurns
    <2> QED BY <1>1, <1>3, <1>4, <1>5, <1>8, <2>2, <2>4, <2>5, PeerSteps
<1> HIDE DEF s
<1> QED BY <1>1, <1>9, <1>10, <1>11, <1>12, <1>13 DEF ServeRequest
LEMMA SyncServed ==
    ASSUME SessionInv, ServeSync
    PROVE  SessionInv'
<1> DEFINE to == Hears(2 + out[2], <<out[1]>> \o SubSeq(out, 3, 2 + out[2]), "sync")
<1>1. conn = "up" /\ mode = "sync" /\ Len(out) >= 2 /\ to
    BY DEF ServeSync
<1>2. pc \in Talking
    BY <1>1 DEF SessionInv, AtRest
<1>3. /\ op \in Operations /\ out \in Seq(Nat) /\ heard \in Seq(Seq(Nat))
      /\ Len(Requests(op)) \in Nat /\ Packet(op) \in Nat /\ op.arg \in Seq(Nat) /\ Len(op.arg) \in Nat
    <2>1. op \in Operations /\ out \in Seq(Nat) /\ heard \in Seq(Seq(Nat))
        BY <1>2, WhileTalking
    <2> QED BY <2>1, RequestsAre, LenProperties
<1>4. /\ pc \in {"entry", "stat"} /\ in = <<>> /\ acc = <<>> /\ truth = NoTruth
      /\ out = SyncPacket(Packet(op), op.arg) /\ Len(heard) = Len(Requests(op))
    <2>1. out # <<>> /\ mode # Before
        BY <1>1, EmptySeq DEF Before
    <2> QED BY <1>1, <2>1 DEF SessionInv, TakesTurns, Asks, Accepted, Answered
<1>5. out[1] = Packet(op) /\ <<out[1]>> \o SubSeq(out, 3, 2 + out[2]) = <<Packet(op)>> \o op.arg
      /\ SubSeq(out, 2 + out[2] + 1, Len(out)) = <<>>
    <2>1. PICK u \in Seq(Nat) : u = <<Packet(op), Len(op.arg)>>
        <3>1. <<Packet(op), Len(op.arg)>> \in Seq(Nat)
            BY <1>3
        <3> QED BY <3>1, Zenon
    <2>2. Len(u) = 2 /\ u[1] = Packet(op) /\ u[2] = Len(op.arg) /\ 1 \in 1..Len(u) /\ 2 \in 1..Len(u)
        BY <2>1
    <2>3. PICK a \in Seq(Nat) : a = op.arg
        BY <1>3
    <2>4. out = u \o a /\ Len(out) = 2 + Len(a) /\ Len(a) \in Nat
        BY <1>4, <2>1, <2>2, <2>3, ConcatProperties, LenProperties DEF SyncPacket
    <2>5. Begins(out, u \o a)
        BY <1>3, <2>4, BeginsWith
    <2>6. out[1] = Packet(op) /\ out[2] = Len(a)
        BY <1>1, <1>3, <2>2, <2>3, <2>4, <2>5, Tokens
    <2>7. SubSeq(out, 3, Len(out)) = a
        <3>1. Len(u) + 1 = 3 /\ Len(u) <= Len(out)
            BY <1>1, <2>2
        <3>2. SubSeq(out, Len(u) + 1, Len(out)) = a
            BY <1>3, <2>4, <2>5, <3>1, HeadIsRead
        <3> QED BY <3>1, <3>2
    <2>8. 2 + out[2] = Len(out)
        BY <2>4, <2>6
    <2>9. SubSeq(out, Len(out) + 1, Len(out)) = <<>>
        <3>1. Len(out) \in Nat
            BY <2>4
        <3> QED BY <3>1, SubSeqEmpty
    <2> QED BY <2>3, <2>6, <2>7, <2>8, <2>9
<1>6. /\ out' = <<>> /\ heard' = Append(heard, <<Packet(op)>> \o op.arg) /\ UNCHANGED session
      /\ mode' = "sync"
      /\ pc' = pc /\ op' = op /\ stage' = stage /\ want' = want /\ acc' = <<>>
    BY <1>1, <1>4, <1>5 DEF Hears, session
<1>7. HeardIsMeant' /\ heard' \in Seq(Seq(Nat))
    <2>1. PICK n \in Nat : n = Len(Requests(op)) + 1
        BY <1>3
    <2>2. n \in 1..Len(Meant(op)) /\ Len(heard) = n - 1 /\ Meant(op)[n] = <<Packet(op)>> \o op.arg
        <3>1. Len(Meant(op)) = n
            BY <1>3, <2>1, RequestsAre
        <3>2. Meant(op)[n] = <<Packet(op)>> \o op.arg
            BY <1>3, <2>1, RequestsAre
        <3>3. n \in 1..n /\ Len(heard) = n - 1
            BY <1>3, <1>4, <2>1
        <3> QED BY <3>1, <3>2, <3>3
    <2>3. heard' = Append(heard, Meant(op)[n])
        BY <1>6, <2>2
    <2> QED BY <1>3, <1>6, <2>2, <2>3, HeardNext DEF SessionInv
<1>8. out' \in Seq(Nat) /\ DOMAIN truth' = DOMAIN NoTruth
    <2>1. \E v : truth' = [NoTruth EXCEPT !.value = v] \/ truth' = [NoTruth EXCEPT !.reason = v]
        BY <1>4 DEF ServeSync, Replies, Refuses
    <2> QED BY <1>6, <2>1 DEF NoTruth
<1>9. (pc = "entry" <=> op.kind = "list") /\ (pc = "stat" <=> op.kind = "stat")
    <2>1. Expects
        BY <1>2, <1>4, WhileTalking DEF NoTruth
    <2> QED BY <1>4, <2>1 DEF Expects
<1>10. ASSUME NEW x \in Seq(Nat) PROVE <<>> \o x = x
    BY ConcatEmptySeq
<1>11. ASSUME conn' = "up", in' \in Seq(Nat), truth'.sane, truth'.whole, Expects'
       PROVE  SessionInv'
    <2>1. TakesTurns'
        <3>1. pc' \in Reading
            BY <1>4, <1>6 DEF Reading
        <3> QED BY <1>6, <1>11, <3>1 DEF TakesTurns, Answered
    <2> QED BY <1>1, <1>6, <1>7, <1>8, <1>11, <2>1, PeerSteps
<1>12. ASSUME out[1] = LIST, NEW c \in Contents, Replies(Stream(c), c)
       PROVE  SessionInv'
    <2>1. pc = "entry" /\ op.kind = "list"
        BY <1>4, <1>5, <1>9, <1>12, Words DEF Packet
    <2>2. c \in Seq(Entry) /\ Len(c) \in Nat
        BY ContentTypes, LenProperties
    <2>3. Stream(c) \in Seq(Nat) /\ Sent(c)[0] = <<>>
        <3>1. 0 \in 0..Len(c)
            BY <2>2
        <3> QED BY <2>2, <3>1, SentGoesOn, SentIs
    <2>4. in' = Stream(c) /\ in' \in Seq(Nat) /\ conn' = "up" /\ truth' = [NoTruth EXCEPT !.value = c]
        BY <1>4, <1>10, <1>12, <2>3 DEF Replies
    <2>5. truth'.value = c /\ truth'.reason = <<>> /\ truth'.sane /\ truth'.whole
        BY <2>4 DEF NoTruth
    <2>6. Expects'
        <3>1. SubSeq(c, 1, 0) = <<>>
            BY <2>2, SubSeqEmpty
        <3>2. Begins(in', in') /\ <<>> \o in' = in'
            BY <1>10, <2>4, BeginsWith
        <3>3. 0 \in 0..Len(truth'.value)
            BY <2>2, <2>5
        <3>4. Sent(truth'.value)[0] \o in' = in' /\ Stream(truth'.value) = in'
            BY <2>3, <2>4, <2>5, <3>2, Zenon
        <3>5. acc' = SubSeq(truth'.value, 1, 0)
            BY <1>6, <2>5, <3>1, Zenon
        <3>6. Listed(0)'
            BY <2>5, <3>2, <3>3, <3>4, <3>5 DEF Listed, Arrived
        <3> QED BY <1>6, <2>1, <3>6, <3>3 DEF Expects
    <2> QED BY <1>11, <2>4, <2>5, <2>6
<1>13. ASSUME out[1] = STAT, Replies(<<STAT, 0, 0, 0>>, <<>>)
       PROVE  SessionInv'
    <2>1. pc = "stat" /\ op.kind = "stat"
        BY <1>4, <1>5, <1>9, <1>13, Words DEF Packet
    <2>2. /\ in' = <<STAT, 0, 0, 0>> /\ in' \in Seq(Nat) /\ conn' = "up"
          /\ truth' = [NoTruth EXCEPT !.value = <<>>]
        <3>1. <<STAT, 0, 0, 0>> \in Seq(Nat)
            BY Words
        <3> QED BY <1>4, <1>10, <1>13, <3>1 DEF Replies
    <2>3. truth'.value = <<>> /\ truth'.reason = <<>> /\ truth'.sane /\ truth'.whole
        BY <2>2 DEF NoTruth
    <2>4. Expects'
        <3>1. Begins(in', in')
            BY <2>2, BeginsWith
        <3> QED BY <1>6, <2>1, <2>2, <2>3, <3>1 DEF Expects, Arrived
    <2> QED BY <1>11, <2>2, <2>3, <2>4
<1>14. ASSUME out[1] = STAT, NEW c \in Contents, NEW e \in Range(c),
              Replies(<<STAT, e.mode, e.size, e.mtime>>, <<[mode |-> e.mode, size |-> e.size, mtime |-> e.mtime]>>)
       PROVE  SessionInv'
    <2> DEFINE s == [mode |-> e.mode, size |-> e.size, mtime |-> e.mtime]
    <2>1. pc = "stat" /\ op.kind = "stat"
        BY <1>4, <1>5, <1>9, <1>14, Words DEF Packet
    <2>2. e \in Entry /\ ~Absent(e)
        <3>1. c \in Seq(Entry)
            BY ContentTypes
        <3>2. PICK i \in DOMAIN c : e = c[i]
            BY DEF Range
        <3> QED BY <3>1, <3>2, ElementOfSeq, LenProperties, PeerAssumption
    <2>3. /\ s \in [mode : Nat, size : Nat, mtime : Nat] /\ ~Absent(s)
          /\ s.mode = e.mode /\ s.size = e.size /\ s.mtime = e.mtime
        BY <2>2 DEF Entry, Absent
    <2>4. /\ in' = <<STAT, s.mode, s.size, s.mtime>> /\ in' \in Seq(Nat) /\ conn' = "up"
          /\ truth' = [NoTruth EXCEPT !.value = <<s>>]
        <3>1. <<STAT, s.mode, s.size, s.mtime>> \in Seq(Nat)
            BY <2>3, Words
        <3> QED BY <1>4, <1>10, <1>14, <2>3, <3>1 DEF Replies
    <2> HIDE DEF s
    <2>5. truth'.value = <<s>> /\ truth'.reason = <<>> /\ truth'.sane /\ truth'.whole
        BY <2>4 DEF NoTruth
    <2>6. Expects'
        <3>1. Begins(in', in')
            BY <2>4, BeginsWith
        <3> QED BY <1>6, <2>1, <2>3, <2>4, <2>5, <3>1 DEF Expects, Arrived
    <2> QED BY <1>11, <2>4, <2>5, <2>6
<1>15. ASSUME NEW m \in Reasons, Refuses(<<FAIL, Len(m)>> \o m, m)
       PROVE  SessionInv'
    <2>1. <<FAIL, Len(m)>> \o m \in Seq(Nat)
        <3>1. PICK x \in Seq(Nat) : x = m
            BY AnswerTypes
        <3>2. PICK u \in Seq(Nat) : u = <<FAIL, Len(m)>>
            BY AnswerTypes, Zenon
        <3> QED BY <3>1, <3>2, ConcatProperties
    <2>2. /\ in' = <<FAIL, Len(m)>> \o m /\ in' \in Seq(Nat) /\ conn' = "eof"
          /\ truth' = [NoTruth EXCEPT !.reason = m]
        BY <1>4, <1>10, <1>15, <2>1 DEF Refuses
    <2>3. truth'.value = <<>> /\ truth'.reason = m
        BY <2>2 DEF NoTruth
    <2>4. Refused(<<FAIL, Len(truth.reason)>>)'
        <3>1. Begins(in', in')
            BY <2>2, BeginsWith
        <3> QED BY <2>2, <2>3, <3>1 DEF Refused, Arrived
    <2>5. Expects'
        BY <1>4, <1>6, <1>9, <2>4 DEF Expects
    <2>6. TakesTurns'
        BY <2>2 DEF TakesTurns
    <2> QED BY <1>1, <1>6, <1>7, <1>8, <2>2, <2>5, <2>6, PeerSteps
<1> QED BY <1>12, <1>13, <1>14, <1>15 DEF ServeSync
LEMMA Garbled ==
    ASSUME SessionInv, Garbles
    PROVE  SessionInv'
<1>1. /\ conn = "up" /\ conn' = "eof" /\ out' = <<>> /\ UNCHANGED session /\ mode' = mode /\ heard' = heard
      /\ truth' = [truth EXCEPT !.sane = FALSE] /\ \E g \in Garbage : in' = in \o g
    BY DEF Garbles
<1>2. pc \in Talking
    BY <1>1 DEF SessionInv, AtRest
<1>3. in \in Seq(Nat) /\ heard \in Seq(Seq(Nat)) /\ DOMAIN truth = DOMAIN NoTruth
    BY DEF SessionInv, SessionType
<1>4. in' \in Seq(Nat) /\ out' \in Seq(Nat)
    BY <1>1, <1>3, SessionAssumption, ConcatProperties
<1>5. ~truth'.sane /\ DOMAIN truth' = DOMAIN NoTruth
    BY <1>1, <1>3 DEF NoTruth
<1>6. HeardIsMeant' /\ TakesTurns'
    BY <1>1 DEF SessionInv, HeardIsMeant, TakesTurns, session
<1> QED BY <1>1, <1>3, <1>4, <1>5, <1>6, PeerSteps

\* What is left of a stream behind its head still begins what was meant.
LEMMA CutBehind ==
    ASSUME NEW l \in Seq(Nat), NEW s \in Seq(Nat), NEW full \in Seq(Nat), Begins(l \o s, full),
           NEW k \in 0..Len(s)
    PROVE  /\ SubSeq(s, 1, k) \in Seq(Nat) /\ Begins(l \o SubSeq(s, 1, k), full)
           /\ k = Len(s) => SubSeq(s, 1, k) = s
<1>1. Len(l) \in Nat /\ Len(s) \in Nat /\ Len(full) \in Nat
    BY LenProperties
<1>2. SubSeq(s, 1, k) \in Seq(Nat) /\ Len(SubSeq(s, 1, k)) = k
      /\ \A i \in 1..k : SubSeq(s, 1, k)[i] = s[i]
    <2>1. \A i \in 1..k : s[i] \in Nat
        BY <1>1, ElementOfSeq
    <2> QED BY <1>1, <2>1, SubSeqProperties
<1>3. PICK u \in Seq(Nat) : u = SubSeq(s, 1, k)
    BY <1>2
<1>4. Len(u) = k /\ \A i \in 1..k : u[i] = s[i]
    BY <1>2, <1>3
<1>5. /\ Len(l \o u) = Len(l) + k /\ Len(l \o s) = Len(l) + Len(s)
      /\ \A i \in 1..(Len(l) + k) : (l \o u)[i] = IF i <= Len(l) THEN l[i] ELSE u[i - Len(l)]
    BY <1>4, ConcatProperties
<1>6. \A i \in 1..(Len(l) + Len(s)) : (l \o s)[i] = IF i <= Len(l) THEN l[i] ELSE s[i - Len(l)]
    BY ConcatProperties
<1>7. ASSUME NEW i \in 1..(Len(l) + k) PROVE (l \o u)[i] = full[i]
    <2>1. i \in 1..(Len(l) + Len(s)) /\ (~(i <= Len(l)) => i - Len(l) \in 1..k)
        BY <1>1
    <2>2. (l \o s)[i] = full[i]
        BY <1>5, <2>1 DEF Begins
    <2>3. (l \o u)[i] = (l \o s)[i]
        BY <1>4, <1>5, <1>6, <2>1
    <2> QED BY <2>2, <2>3
<1>8. Len(l \o u) <= Len(full)
    <2>1. Len(l \o s) <= Len(full)
        BY DEF Begins
    <2> QED BY <1>1, <1>5, <2>1
<1>9. Begins(l \o u, full)
    BY <1>5, <1>7, <1>8 DEF Begins
<1> QED BY <1>2, <1>3, <1>9, SubSeqFull

LEMMA Broken ==
    ASSUME SessionInv, Breaks
    PROVE  SessionInv'
<1>1. PICK k \in 0..Len(in) :
         in' = SubSeq(in, 1, k) /\ truth' = [truth EXCEPT !.whole = @ /\ k = Len(in)]
    BY DEF Breaks
<1>2. /\ conn \in {"up", "eof"} /\ conn' \in {"eof", "reset"} /\ out' = out /\ UNCHANGED session
      /\ mode' = mode /\ heard' = heard
    BY DEF Breaks
<1>3. pc \in Talking
    BY <1>2 DEF SessionInv, AtRest
<1>4. /\ in \in Seq(Nat) /\ out \in Seq(Nat) /\ heard \in Seq(Seq(Nat)) /\ DOMAIN truth = DOMAIN NoTruth
      /\ Len(in) \in Nat
    BY LenProperties DEF SessionInv, SessionType
<1>5. /\ truth'.value = truth.value /\ truth'.reason = truth.reason /\ truth'.sane = truth.sane
      /\ truth'.whole = (truth.whole /\ k = Len(in)) /\ DOMAIN truth' = DOMAIN NoTruth
    BY <1>1, <1>4 DEF NoTruth
<1>6. in' \in Seq(Nat) /\ (k = Len(in) => in' = in)
    BY <1>1, <1>4, BeginsWith, CutBegins
<1>7. HeardIsMeant' /\ TakesTurns'
    BY <1>2 DEF SessionInv, HeardIsMeant, TakesTurns, session
<1>8. pc' = pc /\ op' = op /\ stage' = stage /\ want' = want /\ acc' = acc
    BY <1>2 DEF session
<1>9. ASSUME NEW full \in Seq(Nat), Arrived(in, full)
      PROVE  Begins(in', full) /\ (truth'.whole => in' = full)
    BY <1>1, <1>4, <1>5, <1>6, <1>9, CutBegins DEF Arrived
<1>10. in = <<>> => in' = <<>>
    <2>1. in = <<>> => k = Len(in)
        OBVIOUS
    <2> QED BY <1>6, <2>1
<1>11. ASSUME NEW head, Refused(head), head \o truth.reason \in Seq(Nat)
       PROVE  /\ truth'.reason \in Reasons /\ Begins(in', head \o truth'.reason)
              /\ truth'.whole => in' = head \o truth'.reason
    <2>1. PICK full \in Seq(Nat) : full = head \o truth.reason
        BY <1>11
    <2>2. Arrived(in, full) /\ truth.reason \in Reasons
        BY <1>11, <2>1 DEF Refused
    <2> QED BY <1>5, <1>9, <2>1, <2>2
<1>12. ASSUME truth.sane, Expects PROVE Expects'
    <2>1. pc \in {"request", "packet", "status", "length", "refusedLength", "payload", "output"} \cup Reading
        BY <1>3 DEF Talking, Waiting
    <2>2. Unanswered => Unanswered'
        BY <1>5, <1>8, <1>10 DEF Unanswered
    <2>3. ASSUME acc = <<>>, Refused(<<FAIL, Len(truth.reason)>>)
          PROVE  acc' = <<>> /\ Refused(<<FAIL, Len(truth.reason)>>)'
        <3>1. <<FAIL, Len(truth.reason)>> \o truth.reason \in Seq(Nat)
            <4>1. truth.reason \in Reasons
                BY <2>3 DEF Refused
            <4>2. PICK x \in Seq(Nat) : x = truth.reason
                BY <4>1, AnswerTypes
            <4>3. PICK u \in Seq(Nat) : u = <<FAIL, Len(truth.reason)>>
                BY <4>1, AnswerTypes, Zenon
            <4> QED BY <4>2, <4>3, ConcatProperties
        <3> QED BY <1>5, <1>8, <1>11, <2>3, <3>1 DEF Refused, Arrived
    <2>4. CASE pc \in {"request", "packet"}
        BY <1>8, <1>12, <2>2, <2>4 DEF Expects
    <2>5. CASE pc = "status"
        <3>1. CASE Unanswered
            BY <1>8, <2>2, <2>5, <3>1 DEF Expects
        <3>2. CASE /\ acc = <<>> /\ truth.value = <<>> /\ truth.reason = <<>> /\ Arrived(in, <<OKAY>>)
                   /\ stage < Len(Requests(op)) \/ op.kind \in {"list", "stat"}
            <4>1. PICK u \in Seq(Nat) : u = <<OKAY>>
                <5>1. <<OKAY>> \in Seq(Nat)
                    BY Words
                <5> QED BY <5>1, Zenon
            <4>2. Arrived(in, <<OKAY>>)'
                BY <1>9, <3>2, <4>1 DEF Arrived
            <4> QED BY <1>5, <1>8, <2>5, <3>2, <4>2 DEF Expects
        <3>3. CASE acc = <<>> /\ truth.value = <<>> /\ Refused(<<FAIL>> \o Hex(Len(truth.reason)))
            <4>1. (<<FAIL>> \o Hex(Len(truth.reason))) \o truth.reason \in Seq(Nat)
                <5>1. PICK m \in Reasons : m = truth.reason
                    BY <3>3 DEF Refused
                <5>2. m \in Seq(Nat) /\ Len(m) <= HostRequestMax
                    BY PeerAssumption
                <5> QED BY <5>1, <5>2, WordAndText, Words
            <4>2. Refused(<<FAIL>> \o Hex(Len(truth.reason)))'
                BY <1>5, <1>11, <3>3, <4>1 DEF Refused, Arrived
            <4> QED BY <1>5, <1>8, <2>5, <3>3, <4>2 DEF Expects
        <3>4. CASE /\ acc = <<>> /\ truth.reason = <<>> /\ stage = Len(Requests(op))
                   /\ op.kind = "devices" /\ truth.value \in DeviceTexts
                   /\ Arrived(in, <<OKAY>> \o Framed(truth.value))
            <4>1. <<OKAY>> \o Framed(truth.value) \in Seq(Nat)
                <5>1. PICK x \in Seq(Nat) : x = truth.value /\ Len(x) <= HostRequestMax
                    BY <3>4, PeerAssumption
                <5> QED BY <5>1, WordAndText, Words
            <4>2. Arrived(in, <<OKAY>> \o Framed(truth.value))'
                BY <1>5, <1>9, <3>4, <4>1 DEF Arrived
            <4> QED BY <1>5, <1>8, <2>5, <3>4, <4>2 DEF Expects
        <3>5. CASE /\ acc = <<>> /\ truth.reason = <<>> /\ stage = Len(Requests(op))
                   /\ op.kind = "shell" /\ truth.value \in Outputs
                   /\ Arrived(in, <<OKAY>> \o truth.value)
            <4>1. <<OKAY>> \o truth.value \in Seq(Nat)
                <5>1. PICK x \in Seq(Nat) : x = truth.value
                    BY <3>5, SessionAssumption
                <5>2. PICK u \in Seq(Nat) : u = <<OKAY>>
                    <6>1. <<OKAY>> \in Seq(Nat)
                        BY Words
                    <6> QED BY <6>1, Zenon
                <5> QED BY <5>1, <5>2, ConcatProperties
            <4>2. Arrived(in, <<OKAY>> \o truth.value)'
                BY <1>5, <1>9, <3>5, <4>1 DEF Arrived
            <4> QED BY <1>5, <1>8, <2>5, <3>5, <4>2 DEF Expects
        <3> QED BY <1>12, <2>5, <3>1, <3>2, <3>3, <3>4, <3>5 DEF Expects
    <2>6. CASE pc = "length"
        <3>1. Framed(truth.value) \in Seq(Nat)
            BY <1>12, <2>6, AnswerTypes DEF Expects
        <3> QED BY <1>5, <1>8, <1>9, <1>12, <2>6, <3>1 DEF Expects, Arrived
    <2>7. CASE pc = "payload"
        <3>1. truth.value \in Seq(Nat)
            BY <1>12, <2>7, AnswerTypes DEF Expects
        <3> QED BY <1>5, <1>8, <1>9, <1>12, <2>7, <3>1 DEF Expects, Arrived
    <2>8. CASE pc = "refusedLength"
        <3>1. Refused(Hex(Len(truth.reason)))
            BY <1>12, <2>8 DEF Expects
        <3>2. Hex(Len(truth.reason)) \o truth.reason \in Seq(Nat)
            BY <3>1, AnswerTypes DEF Refused, Framed
        <3>3. Refused(Hex(Len(truth.reason)))'
            BY <1>5, <1>11, <3>1, <3>2 DEF Refused, Arrived
        <3> QED BY <1>8, <2>8, <3>3 DEF Expects
    <2>9. CASE pc = "reason"
        <3>1. Refused(<<>>) /\ want = Len(truth.reason)
            BY <1>12, <2>9 DEF Expects
        <3>2. <<>> \o truth.reason \in Seq(Nat)
            BY <3>1, AnswerTypes, ConcatEmptySeq DEF Refused
        <3>3. Refused(<<>>)'
            BY <1>5, <1>11, <3>1, <3>2 DEF Refused, Arrived
        <3> QED BY <1>5, <1>8, <2>9, <3>1, <3>3 DEF Expects
    <2>10. ASSUME NEW i \in Nat, Listed(i)
           PROVE  Listed(i)'
        <3>1. PICK c \in Contents :
                 /\ truth.value = c /\ i \in 0..Len(c) /\ truth.reason = <<>> /\ acc = SubSeq(c, 1, i)
                 /\ Begins(Sent(c)[i] \o in, Stream(c))
                 /\ truth.whole => Sent(c)[i] \o in = Stream(c)
            BY <2>10 DEF Listed, Arrived
        <3>2. c \in Seq(Entry)
            BY ContentTypes
        <3>3. Sent(c)[i] \in Seq(Nat) /\ Stream(c) \in Seq(Nat)
            BY <3>1, <3>2, SentGoesOn
        <3>4. Begins(Sent(c)[i] \o in', Stream(c))
            BY <1>1, <1>4, <3>1, <3>3, CutBehind
        <3>5. truth'.whole => Sent(c)[i] \o in' = Stream(c)
            BY <1>5, <1>6, <3>1
        <3> QED BY <1>5, <1>8, <3>1, <3>4, <3>5 DEF Listed, Arrived
    <2>11. CASE pc = "output"
        <3>1. /\ op.kind = "shell" /\ truth.reason = <<>> /\ truth.value \in Outputs
              /\ acc \in Seq(Nat) /\ Arrived(acc \o in, truth.value)
            BY <1>12, <2>11 DEF Expects
        <3>2. Begins(acc \o in', truth.value)
            BY <1>1, <1>4, <3>1, CutBehind, AnswerTypes DEF Arrived
        <3>3. truth'.whole => acc \o in' = truth.value
            BY <1>5, <1>6, <3>1 DEF Arrived
        <3>4. Arrived(acc \o in, truth.value)'
            BY <1>5, <1>8, <3>2, <3>3 DEF Arrived
        <3> QED BY <1>5, <1>8, <2>11, <3>1, <3>4 DEF Expects
    <2>12. CASE pc = "entry"
        <3>1. ASSUME NEW i \in 0..Len(truth.value), Listed(i)
              PROVE  i \in 0..Len(truth'.value) /\ Listed(i)'
            BY <1>5, <2>10, <3>1
        <3> QED BY <1>8, <1>12, <2>2, <2>3, <2>12, <3>1 DEF Expects
    <2>13. CASE pc = "name"
        <3>1. PICK i \in 0..Len(truth.value) : Listed(i)
            BY <1>12, <2>13 DEF Expects
        <3>2. i \in 0..Len(truth'.value) /\ Listed(i)'
            BY <1>5, <2>10, <3>1
        <3>3. op.kind = "list" /\ (Len(in) >= 5 => want = in[5] /\ in[1] \in {DENT, DONE})
            BY <1>12, <2>13 DEF Expects
        <3>4. Len(in') >= 5 => Len(in) >= 5 /\ in'[5] = in[5] /\ in'[1] = in[1]
            <4>1. \A j \in 1..k : in[j] \in Nat
                BY <1>1, <1>4, ElementOfSeq
            <4>2. Len(in') = k /\ \A j \in 1..k : in'[j] = in[j]
                BY <1>1, <1>4, <4>1, SubSeqProperties
            <4>3. k \in Nat /\ k <= Len(in) /\ Len(in) \in Nat
                BY <1>4
            <4> SUFFICES ASSUME Len(in') >= 5
                         PROVE  Len(in) >= 5 /\ in'[5] = in[5] /\ in'[1] = in[1]
                OBVIOUS
            <4>4. 5 <= k
                BY <4>2
            <4>5. Len(in) >= 5 /\ 1 \in 1..k /\ 5 \in 1..k
                BY ONLY <4>3, <4>4
            <4> QED BY <4>2, <4>5
        <3>5. Len(in') >= 5 => want' = in'[5] /\ in'[1] \in {DENT, DONE}
            BY <1>8, <3>3, <3>4
        <3> QED BY <1>8, <2>13, <3>2, <3>3, <3>5 DEF Expects
    <2>14. CASE pc = "stat"
        <3>1. ASSUME NEW a \in Nat, NEW b \in Nat, NEW d \in Nat, Arrived(in, <<STAT, a, b, d>>)
              PROVE  Begins(in', <<STAT, a, b, d>>) /\ (truth'.whole => in' = <<STAT, a, b, d>>)
            <4>1. <<STAT, a, b, d>> \in Seq(Nat)
                BY Words
            <4> QED BY <1>9, <3>1, <4>1
        <3>2. CASE truth.reason = <<>> /\ truth.value = <<>> /\ Arrived(in, <<STAT, 0, 0, 0>>)
            <4>1. Arrived(in, <<STAT, 0, 0, 0>>)'
                BY <3>1, <3>2 DEF Arrived
            <4> QED BY <1>5, <1>8, <1>12, <2>14, <3>2, <4>1 DEF Expects
        <3>3. ASSUME NEW s \in [mode : Nat, size : Nat, mtime : Nat], ~Absent(s), truth.reason = <<>>,
                     truth.value = <<s>>, Arrived(in, <<STAT, s.mode, s.size, s.mtime>>)
              PROVE  Expects'
            <4>1. Arrived(in, <<STAT, s.mode, s.size, s.mtime>>)'
                BY <3>1, <3>3 DEF Arrived
            <4> QED BY <1>5, <1>8, <1>12, <2>14, <3>3, <4>1 DEF Expects
        <3>4. op.kind = "stat"
            BY <1>12, <2>14 DEF Expects
        <3>5. CASE Unanswered \/ (acc = <<>> /\ Refused(<<FAIL, Len(truth.reason)>>))
            BY <1>8, <2>2, <2>3, <2>14, <3>4, <3>5 DEF Expects
        <3> QED BY <1>12, <2>14, <3>2, <3>3, <3>5 DEF Expects
    <2> QED BY <2>1, <2>4, <2>5, <2>6, <2>7, <2>8, <2>9, <2>11, <2>12, <2>13, <2>14 DEF Reading
<1>13. truth'.sane => Expects'
    BY <1>3, <1>5, <1>12, WhileTalking
<1> QED BY <1>2, <1>4, <1>5, <1>6, <1>7, <1>13, PeerSteps
-----------------------------------------------------------------------------
(* The theorems.                                                           *)

LEMMA Initially == Init => IInv
BY StartupBegins, SessionBegins DEF Init, IInv

LEMMA Consecution ==
    ASSUME IInv, [Next]_vars
    PROVE  IInv'
<1>1. StartupInv /\ SessionInv
    BY DEF IInv
<1>2. CASE StartupNext /\ UNCHANGED <<session, stream, peer>>
    BY <1>1, <1>2, StartupKeeps, SessionStays DEF IInv
<1>3. CASE UNCHANGED vars
    BY <1>1, <1>3, StartupStays, SessionStays DEF IInv, vars
<1>4. ASSUME UNCHANGED startup, SessionInv' PROVE IInv'
    BY <1>1, <1>4, StartupStays DEF IInv
<1>5. CASE ClientRuns
    <2> SUFFICES SessionInv'
        BY <1>4, <1>5 DEF ClientRuns
    <2>1. UNCHANGED peer
        BY <1>5 DEF ClientRuns
    <2>2. CASE Connect \/ NobodyListens
        BY <1>1, <2>1, <2>2, Connecting
    <2>3. CASE Request \/ WriteSyncPacket
        BY <1>1, <2>1, <2>3, Requesting
    <2>4. CASE Status
        BY <1>1, <2>1, <2>4, StatusRead
    <2>5. CASE Length
        BY <1>1, <2>1, <2>5, LengthRead
    <2>6. CASE Payload \/ Reason
        BY <1>1, <2>1, <2>6, TextRead
    <2>7. CASE SyncFail
        BY <1>1, <2>1, <2>7, SyncFailRead
    <2>8. CASE ReadListEntry
        BY <1>1, <2>1, <2>8, EntryHeaderRead
    <2>9. CASE ReadName
        BY <1>1, <2>1, <2>9, NameRead
    <2>10. CASE ReadStat
        BY <1>1, <2>1, <2>10, StatIsRead
    <2>11. CASE ReadOutput \/ OutputEnds
        BY <1>1, <2>1, <2>11, OutputRead
    <2>12. CASE ReadFails
        BY <1>1, <2>1, <2>12, ReadIsCut
    <2> QED BY <1>5, <2>2, <2>3, <2>4, <2>5, <2>6, <2>7, <2>8, <2>9, <2>10, <2>11, <2>12 DEF ClientRuns
<1>6. CASE ClientIsFailed
    BY <1>1, <1>4, <1>6, Connecting, Requesting DEF ClientIsFailed
<1>7. CASE ClientIsCalled
    BY <1>1, <1>4, <1>7, Called DEF ClientIsCalled
<1>8. CASE ClientReturns
    BY <1>1, <1>4, <1>8, Returned DEF ClientReturns
<1>9. CASE PeerRuns
    BY <1>1, <1>4, <1>9, RequestServed, SyncServed, Garbled, Broken DEF PeerRuns
<1> QED BY <1>2, <1>3, <1>5, <1>6, <1>7, <1>8, <1>9 DEF Next

\* Every step of FsInitW, of the client, of the other end and of the child keeps what
\* the next one needs.
THEOREM Invariance == Spec => []IInv
<1>1. IInv /\ [Next]_vars => IInv'
    BY Consecution
<1> QED BY Initially, <1>1, PTL DEF Spec

\* The buffers a session reads into are as large as the limits of the protocol allow,
\* whatever length stands on the wire, and a closed connection keeps nothing.
THEOREM TypeCorrect == Spec => []TypeOK
<1>1. IInv => TypeOK
    <2> SUFFICES ASSUME IInv PROVE TypeOK
        OBVIOUS
    <2>1. SessionType /\ AtRest /\ Lengths
        BY DEF IInv, SessionInv
    <2>2. want \in 0..(SyncPathMax + FailMax + HostRequestMax)
        <3>1. want \in Nat /\ SyncPathMax \in Nat /\ FailMax \in Nat /\ HostRequestMax \in Nat
            BY <2>1, SessionAssumption, LimitType DEF SessionType
        <3>2. want <= SyncPathMax \/ want <= FailMax \/ want <= HostRequestMax
            BY <2>1 DEF Lengths
        <3> QED BY <3>1, <3>2
    <2> QED BY <2>1, <2>2 DEF TypeOK, AtRest, Lengths
<1> QED BY <1>1, Invariance, PTL

\* What the server and the device have taken for requests is, one after the other,
\* what the operation means to ask, each of them whole: no command is run and no path
\* opened that is a piece of another.
THEOREM RequestsArrive == Spec => []RequestsArriveWhole
<1>1. IInv => RequestsArriveWhole
    <2> SUFFICES ASSUME IInv, op # NoOp PROVE IsPrefix(heard, Meant(op))
        BY DEF RequestsArriveWhole, Meant
    <2>1. op \in Operations /\ heard \in Seq(Seq(Nat)) /\ HeardIsMeant
        BY DEF IInv, SessionInv, SessionType
    <2>2. PICK m \in Seq(Seq(Nat)) : m = Meant(op)
        BY <2>1, RequestsAre
    <2>3. Len(heard) <= Len(m) /\ \A i \in 1..Len(heard) : heard[i] = m[i]
        BY <2>1, <2>2 DEF HeardIsMeant
    <2>4. Len(heard) \in Nat /\ Len(m) \in Nat
        BY <2>1, LenProperties
    <2>5. heard = SubSeq(m, 1, Len(heard))
        <3>1. \A i \in 1..Len(heard) : m[i] \in Seq(Nat)
            BY <2>3, <2>4, ElementOfSeq
        <3>2. PICK u \in Seq(Seq(Nat)) : u = SubSeq(m, 1, Len(heard))
            <4>1. SubSeq(m, 1, Len(heard)) \in Seq(Seq(Nat))
                BY <2>4, <3>1, SubSeqProperties
            <4> QED BY <4>1, Zenon
        <3>3. Len(u) = Len(heard) /\ \A i \in 1..Len(heard) : u[i] = m[i]
            BY <2>4, <3>1, <3>2, SubSeqProperties
        <3> QED BY <2>1, <2>3, <3>2, <3>3, SeqEqual
    <2> QED BY <2>1, <2>2, <2>3, <2>5 DEF IsPrefix
<1> QED BY <1>1, Invariance, PTL

\* A good answer is what the device said, all of it; a failed one shows no piece of it,
\* and the device's reason if that arrived.
THEOREM AnswersAreTheDevices == Spec => []AnswerIsTheDevices
<1>1. IInv => AnswerIsTheDevices
    BY DEF IInv, SessionInv
<1> QED BY <1>1, Invariance, PTL

\* A core refers to the client that is there, at every step of every FsInitW and
\* whatever throws in it.
THEOREM CoreAlwaysHasItsClient == Spec => []CoreHasItsClient
<1>1. IInv => CoreHasItsClient
    BY StartupInvImplies DEF IInv
<1> QED BY <1>1, Invariance, PTL

\* When FsInitW has returned, the process that starts the server has been waited for,
\* it was the first adb that can be run, and a server that came up is where the client
\* of the core connects.
THEOREM StartAlwaysClean == Spec => []StartIsClean
<1>1. IInv => StartIsClean
    BY StartupInvImplies DEF IInv
<1> QED BY <1>1, Invariance, PTL
====
