--------------------------- MODULE InstallerProofs ---------------------------
(***************************************************************************)
(* Installer.tla, for any builds, configurations, runs and seconds:        *)
(* doublecmd.xml is always a whole file, and what a run overwrites is      *)
(* still on the disk.                                                      *)
(***************************************************************************)
EXTENDS Installer, SequenceTheorems, FiniteSetTheorems, TLAPS

\* The records that the variables hold have the fields they are used with.
IsContent(c) == c = [whole |-> c.whole, of |-> c.of] /\ c.whole \in BOOLEAN
Disk(files) == \A f \in DOMAIN files : IsContent(files[f])
Shape ==
    /\ inst = [pc |-> inst.pc, source |-> inst.source, register |-> inst.register,
               found |-> inst.found, second |-> inst.second, entries |-> inst.entries]
    /\ dc = [up |-> dc.up, entries |-> dc.entries] /\ dc.up \in BOOLEAN
    /\ overlap \in BOOLEAN
    /\ Disk(disk)

Holds(file, content) == Exists(file) /\ disk[file] = content

\* A doublecmd.xml that is there is a whole file.
ConfigNotTorn == Exists(ConfigXml) => disk[ConfigXml].whole

\* The old plugin file is copied before the new one is put in its place.
PluginKept ==
    /\ inst.pc \in {"openBackup", "fillBackup"} => Exists(Target)
    /\ inst.pc = "fillBackup" => Holds(Backup(Target, inst.second), Torn)
    /\ inst.pc = "openTarget" /\ Exists(Target) =>
         Holds(Backup(Target, inst.second), disk[Target])

\* So is the old doublecmd.xml, unless a Double Commander nobody saw writes it.
Copying == {"openCopy", "fillCopy"}
Writing == {"openTemp", "fillTemp", "replace"}
ConfigKept ==
    /\ Registering /\ dc.up => overlap
    /\ inst.pc \in Copying \cup Writing => Exists(ConfigXml)
    /\ inst.pc = "fillCopy" => Holds(Backup(ConfigXml, inst.second), Torn)
    /\ inst.pc \in Writing =>
         disk[ConfigXml].of \in lost \/ Holds(Backup(ConfigXml, inst.second), disk[ConfigXml])
    /\ inst.pc = "replace" => Holds(TempName, Whole(inst.entries))

\* What was overwritten is in a backup, not in a file that the next run overwrites.
Fixed == {Target, ConfigXml, TempConfig}
BackupsKept ==
    \A content \in overwritten \ lost : \E file \in DOMAIN disk \ Fixed : disk[file] = Whole(content)

\* The lists of entries that are about.
Stored == IF Parses(ConfigXml) THEN disk[ConfigXml].of ELSE <<>>
EntriesType ==
    /\ dc.entries \in Seq(Entries) /\ inst.entries \in Seq(Entries)
    /\ Exists(ConfigXml) => disk[ConfigXml].of \in Seq(Entries) \cup {Unreadable}

\* A Double Commander that is up has what doublecmd.xml had, and what its user added;
\* the registrar has what doublecmd.xml has, and this plugin.
EntriesKept ==
    overlap \/
        /\ Only(InForce, Theirs) = wanted
        /\ registered => Only(Stored, Ours) = <<OwnEntry>> /\ Only(InForce, Ours) = <<OwnEntry>>
        /\ inst.pc \in Copying \cup Writing =>
             Parses(ConfigXml) /\ inst.entries = Register(disk[ConfigXml].of)

IInv ==
    /\ Shape /\ ConfigNotTorn /\ PluginKept /\ ConfigKept /\ BackupsKept
    /\ EntriesType /\ EntriesKept

-----------------------------------------------------------------------------
(* Files.                                                                  *)

\* A backup is none of the files that runs overwrite.
LEMMA Names ==
    /\ Target # ConfigXml /\ Target # TempConfig /\ ConfigXml # TempConfig
    /\ \A s : Backup(Target, s) \notin Fixed /\ Backup(ConfigXml, s) \notin Fixed
<1>1. Len(Target) = 1 /\ Len(ConfigXml) = 1 /\ Len(TempConfig) = 2 /\ Target[1] # ConfigXml[1]
  BY DEF Target, ConfigXml, TempConfig
<1>2. ASSUME NEW s, NEW name PROVE Len(Backup(<<name>>, s)) = 3
  <2> DEFINE S == {name, "bak", ToString(s)}
  <2>1. Append(<<name>>, "bak") \in Seq(S) /\ Len(Append(<<name>>, "bak")) = 2
    BY AppendProperties
  <2>2. <<ToString(s)>> \in Seq(S) /\ Len(<<ToString(s)>>) = 1
    OBVIOUS
  <2> HIDE DEF S
  <2> QED
    BY <2>1, <2>2, ConcatProperties DEF Backup
<1>3. \A s : Len(Backup(Target, s)) = 3 /\ Len(Backup(ConfigXml, s)) = 3
  BY <1>2 DEF Target, ConfigXml
<1> QED
  BY <1>1, <1>3 DEF Fixed

\* Whole contents and torn ones.
LEMMA Contents ==
    /\ IsContent(Torn) /\ ~Torn.whole
    /\ \A c : IsContent(Whole(c)) /\ Whole(c).whole /\ Whole(c).of = c /\ Whole(c) # Torn
    /\ \A c : IsContent(c) /\ c.whole => c = Whole(c.of)
BY DEF IsContent, Torn, Whole

\* A disk of contents stays one when a file is written, removed or renamed.
LEMMA DiskOfContents ==
    ASSUME NEW files, Disk(files)
    PROVE  /\ \A f, c : IsContent(c) => Disk(With(files, f, c))
           /\ \A f : Disk(Without(files, f))
           /\ \A f, g : f # g /\ f \in DOMAIN files => Disk(Renamed(files, f, g))
<1>1. ASSUME NEW f, NEW c, IsContent(c) PROVE Disk(With(files, f, c))
  <2> SUFFICES ASSUME NEW g \in DOMAIN With(files, f, c)
               PROVE  IsContent(With(files, f, c)[g])
    BY DEF Disk
  <2>1. CASE g = f
    BY <1>1, <2>1 DEF With
  <2>2. CASE g # f
    <3>1. g \in DOMAIN files /\ With(files, f, c)[g] = files[g]
      BY <2>2 DEF With
    <3> QED
      BY <3>1 DEF Disk
  <2> QED
    BY <2>1, <2>2
<1>2. ASSUME NEW f, NEW old, Disk(old) PROVE Disk(Without(old, f))
  <2> SUFFICES ASSUME NEW g \in DOMAIN Without(old, f)
               PROVE  IsContent(Without(old, f)[g])
    BY DEF Disk
  <2>1. g \in DOMAIN old /\ Without(old, f)[g] = old[g]
    BY DEF Without
  <2> QED
    BY <1>2, <2>1 DEF Disk
<1>3. ASSUME NEW f, NEW g, f # g, f \in DOMAIN files PROVE Disk(Renamed(files, f, g))
  <2>1. IsContent(files[f])
    BY <1>3 DEF Disk
  <2> QED
    BY <1>1, <1>2, <2>1 DEF Renamed
<1> QED
  BY <1>1, <1>2, <1>3

-----------------------------------------------------------------------------
(* Lists of entries, and what is left of them.                             *)

\* A set that holds 0 and with every number its successor holds all numbers: were n
\* missing, k |-> k + 1 would fit the members up to n into fewer places.
LEMMA Counting ==
    ASSUME NEW T, 0 \in T, \A n \in Nat : n \in T => n + 1 \in T
    PROVE  \A n \in Nat : n \in T
<1> SUFFICES ASSUME NEW n \in Nat, n \notin T PROVE FALSE
  OBVIOUS
<1> DEFINE A == (0..n) \cap T
           f == [k \in A |-> k + 1]
<1>1. 0 \in A
  OBVIOUS
<1>2. IsFiniteSet(A)
  <2>1. IsFiniteSet(0..n) /\ A \in SUBSET (0..n)
    BY FS_Interval
  <2> HIDE DEF A
  <2> QED
    BY <2>1, FS_Subset
<1>3. /\ Cardinality(A) \in Nat
      /\ IsFiniteSet(A \ {0}) /\ Cardinality(A \ {0}) = Cardinality(A) - 1
  <2> HIDE DEF A
  <2> QED
    BY <1>1, <1>2, FS_RemoveElement, FS_CardinalityType
<1>4. f \in [A -> A \ {0}]
  OBVIOUS
<1>5. \E x, y \in A : x # y /\ f[x] = f[y]
  <2>1. Cardinality(A \ {0}) < Cardinality(A)
    BY <1>3
  <2> HIDE DEF A, f
  <2> QED
    BY <2>1, <1>2, <1>3, <1>4, FS_PigeonHole
<1> QED
  BY <1>5

\* What the first i elements of s leave.
Keeps(f, s, S) ==
    /\ f[0] = <<>>
    /\ \A i \in 1..Len(s) : f[i] = IF s[i] \in S THEN Append(f[i - 1], s[i]) ELSE f[i - 1]

\* An element is added to what is left, or is not.
LEMMA OneKept ==
    ASSUME NEW R, NEW kept \in Seq(R), NEW e \in R, NEW S
    PROVE  (IF e \in S THEN Append(kept, e) ELSE kept) \in Seq(R)
BY AppendProperties

LEMMA KeptExists ==
    ASSUME NEW R, NEW s \in Seq(R), NEW S
    PROVE  \E f \in [0..Len(s) -> Seq(R)] : Keeps(f, s, S)
<1> DEFINE N == Len(s)
           Upto(n) == \E f \in [0..n -> Seq(R)] :
                        /\ f[0] = <<>>
                        /\ \A i \in 1..n : f[i] = IF s[i] \in S THEN Append(f[i - 1], s[i]) ELSE f[i - 1]
           T == {n \in Nat : n <= N => Upto(n)}
<1>1. N \in Nat /\ \A i \in 1..N : s[i] \in R
  BY LenProperties, ElementOfSeq
<1>2. 0 \in T
  <2>1. Upto(0)
    <3>1. <<>> \in Seq(R)
      BY EmptySeq
    <3> DEFINE f == [i \in 0..0 |-> <<>>]
    <3>2. f \in [0..0 -> Seq(R)] /\ f[0] = <<>>
      BY <3>1
    <3>3. 1..0 = {}
      OBVIOUS
    <3> HIDE DEF f
    <3> QED
      BY <3>2, <3>3
  <2> QED
    BY <2>1
<1>3. ASSUME NEW n \in Nat, Upto(n), n + 1 <= N PROVE Upto(n + 1)
  <2>1. PICK g \in [0..n -> Seq(R)] :
          /\ g[0] = <<>>
          /\ \A i \in 1..n : g[i] = IF s[i] \in S THEN Append(g[i - 1], s[i]) ELSE g[i - 1]
    BY <1>3
  <2> DEFINE last == IF s[n + 1] \in S THEN Append(g[n], s[n + 1]) ELSE g[n]
             h == [i \in 0..(n + 1) |-> IF i <= n THEN g[i] ELSE last]
  <2>2. last \in Seq(R)
    <3>1. s[n + 1] \in R /\ g[n] \in Seq(R)
      BY <1>1, <1>3
    <3> QED
      BY <3>1, OneKept
  <2> HIDE DEF last
  <2>3. h \in [0..(n + 1) -> Seq(R)] /\ h[n + 1] = last
    BY <1>3, <2>2
  <2>4. \A i \in 0..n : h[i] = g[i]
    BY <1>3
  <2> HIDE DEF h
  <2>5. ASSUME NEW i \in 1..(n + 1)
        PROVE  h[i] = IF s[i] \in S THEN Append(h[i - 1], s[i]) ELSE h[i - 1]
    <3>1. CASE i \in 1..n
      <4>1. i \in 0..n /\ i - 1 \in 0..n
        BY <3>1
      <4> QED
        BY <2>1, <2>4, <3>1, <4>1
    <3>2. CASE i = n + 1
      <4>1. n \in 0..n /\ i - 1 = n
        BY <3>2
      <4> QED
        BY <2>3, <2>4, <3>2, <4>1 DEF last
    <3> QED
      BY <3>1, <3>2
  <2>6. h[0] = <<>>
    BY <2>1, <2>4
  <2> QED
    BY <2>3, <2>5, <2>6
<1> HIDE DEF Upto
<1>4. ASSUME NEW n \in Nat, n \in T PROVE n + 1 \in T
  BY <1>3, <1>4
<1>5. N \in T
  <2> HIDE DEF T, N
  <2> QED
    BY <1>1, <1>2, <1>4, Counting
<1>6. Upto(N)
  BY <1>5
<1> QED
  BY <1>6 DEF Upto, Keeps

\* Only is what they leave together.
LEMMA OnlyIs ==
    ASSUME NEW R, NEW s \in Seq(R), NEW S
    PROVE  \E f \in [0..Len(s) -> Seq(R)] : Keeps(f, s, S) /\ Only(s, S) = f[Len(s)]
<1> DEFINE N == Len(s)
           Def(w) == w = [i \in 0..N |->
                            IF i = 0 THEN <<>>
                            ELSE IF s[i] \in S THEN Append(w[i - 1], s[i]) ELSE w[i - 1]]
           kept == CHOOSE w : Def(w)
           T == {n \in Nat : n <= N => kept[n] \in Seq(R)}
<1>1. N \in Nat /\ \A i \in 1..N : s[i] \in R
  BY LenProperties, ElementOfSeq
<1>2. PICK g \in [0..N -> Seq(R)] : Keeps(g, s, S)
  BY KeptExists
<1>3. Def(g)
  <2> HIDE DEF N
  <2>1. \A i \in 1..N : g[i] = IF s[i] \in S THEN Append(g[i - 1], s[i]) ELSE g[i - 1]
    BY <1>2 DEF Keeps, N
  <2>2. g[0] = <<>>
    BY <1>2 DEF Keeps
  <2>3. \A i \in 0..N : g[i] = IF i = 0 THEN <<>>
                             ELSE IF s[i] \in S THEN Append(g[i - 1], s[i]) ELSE g[i - 1]
    <3> TAKE i \in 0..N
    <3>1. i = 0 \/ (i # 0 /\ i \in 1..N)
      BY <1>1
    <3> QED
      BY <2>1, <2>2, <3>1, Zenon
  <2> QED
    BY <2>3
<1>4. Def(kept)
  <2> HIDE DEF Def
  <2> QED
    BY <1>3
<1>5. Only(s, S) = kept[N]
  BY DEF Only
<1> HIDE DEF kept, N
<1>6. /\ kept[0] = <<>>
      /\ \A i \in 1..N : kept[i] = IF s[i] \in S THEN Append(kept[i - 1], s[i]) ELSE kept[i - 1]
  <2>1. 0 \in 0..N /\ \A i \in 1..N : i \in 0..N /\ i # 0
    BY <1>1
  <2>2. \A i \in 0..N : kept[i] = IF i = 0 THEN <<>>
                                ELSE IF s[i] \in S THEN Append(kept[i - 1], s[i]) ELSE kept[i - 1]
    BY <1>4, Zenon
  <2> QED
    BY <2>1, <2>2, Zenon
<1>7. 0 \in T
  BY <1>6, EmptySeq
<1>8. ASSUME NEW n \in Nat, n \in T PROVE n + 1 \in T
  <2> SUFFICES ASSUME n + 1 <= N PROVE kept[n + 1] \in Seq(R)
    OBVIOUS
  <2>1. n + 1 \in 1..N /\ (n + 1) - 1 = n /\ kept[n] \in Seq(R)
    BY <1>1, <1>8
  <2>2. kept[n + 1] = IF s[n + 1] \in S THEN Append(kept[n], s[n + 1]) ELSE kept[n]
    BY <1>6, <2>1
  <2>3. s[n + 1] \in R
    BY <1>1, <2>1
  <2> QED
    BY <2>1, <2>2, <2>3, OneKept
<1>9. \A n \in Nat : n \in T
  <2> HIDE DEF T
  <2> QED
    BY <1>7, <1>8, Counting
<1>10. kept \in [0..N -> Seq(R)]
  <2>1. \A n \in 0..N : kept[n] \in Seq(R)
    BY <1>1, <1>9
  <2> QED
    BY <1>4, <2>1
<1>11. Keeps(kept, s, S)
  BY <1>6 DEF Keeps, N
<1> QED
  BY <1>5, <1>10, <1>11 DEF N

\* What a longer list leaves.
LEMMA OnlyAppend ==
    ASSUME NEW R, NEW s \in Seq(R), NEW e \in R, NEW S
    PROVE  Only(Append(s, e), S) = IF e \in S THEN Append(Only(s, S), e) ELSE Only(s, S)
<1> DEFINE u == Append(s, e)
<1>1. /\ u \in Seq(R) /\ Len(s) \in Nat /\ Len(u) = Len(s) + 1 /\ u[Len(s) + 1] = e
      /\ \A i \in 1..Len(s) : u[i] = s[i]
  BY AppendProperties, LenProperties
<1> HIDE DEF u
<1>2. PICK f \in [0..Len(s) -> Seq(R)] : Keeps(f, s, S) /\ Only(s, S) = f[Len(s)]
  BY OnlyIs
<1>3. PICK g \in [0..Len(u) -> Seq(R)] : Keeps(g, u, S) /\ Only(u, S) = g[Len(u)]
  BY <1>1, OnlyIs
<1> DEFINE T == {n \in Nat : n <= Len(s) => f[n] = g[n]}
<1>4. 0 \in T
  BY <1>2, <1>3 DEF Keeps
<1>5. ASSUME NEW n \in Nat, n \in T PROVE n + 1 \in T
  <2> SUFFICES ASSUME n + 1 <= Len(s) PROVE f[n + 1] = g[n + 1]
    OBVIOUS
  <2>1. /\ n + 1 \in 1..Len(s) /\ n + 1 \in 1..Len(u) /\ (n + 1) - 1 = n
        /\ f[n] = g[n] /\ u[n + 1] = s[n + 1]
    BY <1>1, <1>5
  <2>2. f[n + 1] = IF s[n + 1] \in S THEN Append(f[n], s[n + 1]) ELSE f[n]
    BY <1>2, <2>1 DEF Keeps
  <2>3. g[n + 1] = IF u[n + 1] \in S THEN Append(g[n], u[n + 1]) ELSE g[n]
    BY <1>3, <2>1 DEF Keeps
  <2> QED
    BY <2>1, <2>2, <2>3
<1>6. \A n \in Nat : n \in T
  <2> HIDE DEF T
  <2> QED
    BY <1>4, <1>5, Counting
<1>7. f[Len(s)] = g[Len(s)]
  BY <1>1, <1>6
<1>8. Len(u) \in 1..Len(u) /\ Len(u) - 1 = Len(s) /\ u[Len(u)] = e
  BY <1>1
<1>9. g[Len(u)] = IF e \in S THEN Append(g[Len(s)], e) ELSE g[Len(s)]
  BY <1>3, <1>8 DEF Keeps
<1> QED
  BY <1>2, <1>3, <1>7, <1>9 DEF u

LEMMA OnlyEmpty == \A S : Only(<<>>, S) = <<>>
<1> TAKE S
<1>1. <<>> \in Seq({}) /\ Len(<<>>) = 0
  BY EmptySeq
<1>2. PICK f \in [0..Len(<<>>) -> Seq({})] : Keeps(f, <<>>, S) /\ Only(<<>>, S) = f[Len(<<>>)]
  BY <1>1, OnlyIs
<1> QED
  BY <1>1, <1>2 DEF Keeps

\* A set that holds the empty list and with every list its extensions holds all lists.
LEMMA Extending ==
    ASSUME NEW R, NEW T, <<>> \in T,
           \A s \in Seq(R) : s \in T => \A e \in R : Append(s, e) \in T
    PROVE  \A s \in Seq(R) : s \in T
<1> DEFINE U == {n \in Nat : \A s \in Seq(R) : Len(s) = n => s \in T}
<1>1. 0 \in U
  BY EmptySeq
<1>2. ASSUME NEW n \in Nat, n \in U PROVE n + 1 \in U
  <2> SUFFICES ASSUME NEW s \in Seq(R), Len(s) = n + 1 PROVE s \in T
    OBVIOUS
  <2>1. PICK front \in Seq(R), e \in R : s = Append(front, e)
    BY SequenceEmptyOrAppend, EmptySeq
  <2>2. Len(front) = n
    BY <2>1, AppendProperties, LenProperties
  <2>3. front \in T
    BY <1>2, <2>2
  <2> QED
    BY <2>1, <2>3
<1>3. \A n \in Nat : n \in U
  <2> HIDE DEF U
  <2> QED
    BY <1>1, <1>2, Counting
<1> QED
  BY <1>3, LenProperties

\* What a list with one more element contains.
LEMMA Extended ==
    ASSUME NEW R, NEW s \in Seq(R), NEW e \in R
    PROVE  /\ Append(s, e) \in Seq(R)
           /\ \A x : Contains(Append(s, e), x) <=> Contains(s, x) \/ x = e
<1> DEFINE u == Append(s, e)
<1>1. /\ u \in Seq(R) /\ Len(s) \in Nat /\ Len(u) = Len(s) + 1 /\ u[Len(s) + 1] = e
      /\ \A i \in 1..Len(s) : u[i] = s[i]
  BY AppendProperties, LenProperties
<1> HIDE DEF u
<1> SUFFICES ASSUME NEW x PROVE Contains(u, x) <=> Contains(s, x) \/ x = e
  BY <1>1 DEF u
<1>2. \A i \in 1..Len(u) : i \in 1..Len(s) \/ i = Len(s) + 1
  BY <1>1
<1>3. Len(s) + 1 \in 1..Len(u) /\ \A i \in 1..Len(s) : i \in 1..Len(u)
  BY <1>1
<1> QED
  BY <1>1, <1>2, <1>3 DEF Contains

\* What is left is in the set, and was in the list.
LEMMA OnlyOf ==
    ASSUME NEW R, NEW S
    PROVE  \A s \in Seq(R) :
             Only(s, S) \in Seq(R \cap S) /\ \A e : Contains(Only(s, S), e) => Contains(s, e)
<1> DEFINE T == {s \in Seq(R) : /\ Only(s, S) \in Seq(R \cap S)
                                /\ \A e : Contains(Only(s, S), e) => Contains(s, e)}
<1>1. <<>> \in T
  <2>1. <<>> \in Seq(R) /\ <<>> \in Seq(R \cap S) /\ Len(<<>>) = 0
    BY EmptySeq
  <2>2. \A e : ~Contains(<<>>, e)
    BY <2>1 DEF Contains
  <2> QED
    BY <2>1, <2>2, OnlyEmpty
<1>2. ASSUME NEW s \in Seq(R), s \in T, NEW e \in R PROVE Append(s, e) \in T
  <2> DEFINE u == Append(s, e)
  <2>1. u \in Seq(R) /\ \A x : Contains(u, x) <=> Contains(s, x) \/ x = e
    BY Extended
  <2>2. CASE e \in S
    <3>1. Only(u, S) = Append(Only(s, S), e)
      BY <2>2, OnlyAppend
    <3>2. /\ Append(Only(s, S), e) \in Seq(R \cap S)
          /\ \A x : Contains(Append(Only(s, S), e), x) <=> Contains(Only(s, S), x) \/ x = e
      BY <1>2, <2>2, Extended
    <3>3. \A x : Contains(Only(s, S), x) => Contains(s, x)
      BY <1>2
    <3> HIDE DEF u
    <3>4. Only(u, S) \in Seq(R \cap S) /\ \A x : Contains(Only(u, S), x) => Contains(u, x)
      BY <2>1, <3>1, <3>2, <3>3, Zenon
    <3> QED
      BY <2>1, <3>4 DEF u
  <2>3. CASE e \notin S
    <3>1. Only(u, S) = Only(s, S)
      BY <2>3, OnlyAppend
    <3>2. Only(s, S) \in Seq(R \cap S) /\ \A x : Contains(Only(s, S), x) => Contains(s, x)
      BY <1>2
    <3> HIDE DEF u
    <3>3. Only(u, S) \in Seq(R \cap S) /\ \A x : Contains(Only(u, S), x) => Contains(u, x)
      BY <2>1, <3>1, <3>2, Zenon
    <3> QED
      BY <2>1, <3>3 DEF u
  <2> HIDE DEF u
  <2> QED
    BY <2>2, <2>3 DEF u
<1> HIDE DEF T
<1>3. \A s \in Seq(R) : s \in T
  BY <1>1, <1>2, Extending
<1> QED
  BY <1>3 DEF T

\* Taking the same again leaves everything, taking the others nothing.
LEMMA OnlyAgain ==
    ASSUME NEW R, NEW S
    PROVE  \A s \in Seq(R) : /\ R \subseteq S => Only(s, S) = s
                             /\ R \cap S = {} => Only(s, S) = <<>>
<1> DEFINE T == {s \in Seq(R) : /\ R \subseteq S => Only(s, S) = s
                                /\ R \cap S = {} => Only(s, S) = <<>>}
<1>1. <<>> \in T
  BY EmptySeq, OnlyEmpty
<1>2. ASSUME NEW s \in Seq(R), s \in T, NEW e \in R PROVE Append(s, e) \in T
  <2>1. Append(s, e) \in Seq(R)
    BY AppendProperties
  <2>2. Only(Append(s, e), S) = IF e \in S THEN Append(Only(s, S), e) ELSE Only(s, S)
    BY OnlyAppend
  <2> QED
    BY <1>2, <2>1, <2>2
<1> HIDE DEF T
<1>3. \A s \in Seq(R) : s \in T
  BY <1>1, <1>2, Extending
<1> QED
  BY <1>3 DEF T

\* The registrar leaves the others' entries, and one of this plugin.
LEMMA Registered ==
    ASSUME NEW s \in Seq(Entries)
    PROVE  /\ Register(s) \in Seq(Entries)
           /\ Only(Register(s), Ours) = <<OwnEntry>>
           /\ Only(Register(s), Theirs) = Only(s, Theirs)
<1> DEFINE kept == Only(s, Theirs)
<1>1. Foreigners = Theirs
  BY DEF Foreigners, Owns, Theirs, Ours, Entries
<1>2. OwnEntry \in Ours /\ OwnEntry \in Entries /\ OwnEntry \notin Theirs
  <2>1. OwnEntry \in Entries
    BY InstallerAssumption DEF InstallerAssumption
  <2>2. OwnEntry.name = "ADB" /\ OwnEntry.path = PathValue
    BY DEF OwnEntry, Entry
  <2>3. OwnEntry \in Ours
    BY <2>1, <2>2 DEF Entries, Ours
  <2> QED
    BY <2>1, <2>3 DEF Theirs
<1>3. Theirs \subseteq Entries /\ Theirs \cap Ours = {} /\ Entries \cap Theirs = Theirs
  BY DEF Theirs
<1>4. kept \in Seq(Theirs)
  BY <1>3, OnlyOf
<1>5. kept \in Seq(Entries)
  BY <1>3, <1>4, SeqMonotonic
<1>6. Register(s) = Append(kept, OwnEntry)
  BY <1>1 DEF Register
<1> HIDE DEF kept
<1>7. Only(kept, Ours) = <<>> /\ Only(kept, Theirs) = kept
  BY <1>3, <1>4, OnlyAgain
<1>8. Append(kept, OwnEntry) \in Seq(Entries)
  BY <1>2, <1>5, AppendProperties
<1>9. /\ Only(Append(kept, OwnEntry), Ours) = Append(Only(kept, Ours), OwnEntry)
      /\ Only(Append(kept, OwnEntry), Theirs) = Only(kept, Theirs)
  BY <1>2, <1>5, OnlyAppend
<1>10. Append(<<>>, OwnEntry) = <<OwnEntry>>
  OBVIOUS
<1> QED
  BY <1>6, <1>7, <1>8, <1>9, <1>10 DEF kept

-----------------------------------------------------------------------------
(* The invariant.                                                          *)

LEMMA Initially == Init => IInv
<1> SUFFICES ASSUME Init PROVE IInv
  OBVIOUS
<1>1. PICK config \in Configs, old \in Builds :
        /\ disk \in {With(<<>>, ConfigXml, Whole(config)), <<>>,
                     With(With(<<>>, ConfigXml, Whole(config)), Target, Whole(old)),
                     With(<<>>, ConfigXml, Whole(Unreadable))}
        /\ wanted = IF Parses(ConfigXml) THEN Only(config, Theirs) ELSE <<>>
        /\ dc = [up |-> FALSE, entries |-> <<>>] /\ inst = NoRun
        /\ overwritten = {} /\ lost = {} /\ overlap = FALSE
  BY DEF Init
<1>2. DOMAIN <<>> = {}
  OBVIOUS
<1>3. Disk(disk) /\ (Exists(ConfigXml) => disk[ConfigXml].whole)
  <2>1. CASE disk = <<>>
    BY <1>2, <2>1 DEF Disk, Exists
  <2>2. ASSUME NEW c PROVE Disk(With(<<>>, ConfigXml, Whole(c)))
    <3>1. Disk(<<>>)
      BY <1>2 DEF Disk
    <3> QED
      BY <3>1, DiskOfContents, Contents
  <2>3. ASSUME NEW c, disk = With(<<>>, ConfigXml, Whole(c))
        PROVE  Disk(disk) /\ disk[ConfigXml].whole
    BY <2>2, <2>3, Contents DEF With
  <2>4. CASE disk = With(With(<<>>, ConfigXml, Whole(config)), Target, Whole(old))
    <3> DEFINE first == With(<<>>, ConfigXml, Whole(config))
    <3>1. Disk(first) /\ ConfigXml \in DOMAIN first /\ first[ConfigXml] = Whole(config)
      BY <2>2 DEF With
    <3> HIDE DEF first
    <3>2. Disk(With(first, Target, Whole(old)))
      BY <3>1, DiskOfContents, Contents
    <3>3. With(first, Target, Whole(old))[ConfigXml] = Whole(config)
      BY <3>1, Names DEF With
    <3> QED
      BY <2>4, <3>2, <3>3, Contents DEF first
  <2> QED
    BY <1>1, <2>1, <2>3, <2>4
<1>4. Shape
  BY <1>1, <1>3 DEF Shape, NoRun
<1>5. ConfigNotTorn
  BY <1>1, <1>3 DEF ConfigNotTorn, Parses
<1>6. PluginKept /\ ConfigKept /\ BackupsKept
  BY <1>1 DEF PluginKept, ConfigKept, BackupsKept, NoRun, Registering, Copying, Writing
<1>7. EntriesType
  <2>1. <<>> \in Seq(Entries) /\ config \in Seq(Entries)
    BY EmptySeq, InstallerAssumption DEF InstallerAssumption
  <2>2. disk[ConfigXml].of \in {config, Unreadable} \/ ~Exists(ConfigXml)
    BY <1>1, <1>2, Names DEF Exists, With, Whole
  <2> QED
    BY <1>1, <2>1, <2>2 DEF EntriesType, NoRun
<1>8. EntriesKept
  <2>1. Only(InForce, Theirs) = wanted
    <3>1. CASE Parses(ConfigXml)
      <4>1. disk[ConfigXml].of = config
        BY <1>1, <1>2, <3>1, Names DEF Parses, Exists, With, Whole
      <4> QED
        BY <1>1, <3>1, <4>1 DEF InForce
    <3>2. CASE ~Parses(ConfigXml)
      BY <1>1, <3>2, OnlyEmpty DEF InForce
    <3> QED
      BY <3>1, <3>2
  <2>2. ~registered /\ inst.pc = "idle"
    BY <1>1 DEF Init, NoRun
  <2> QED
    BY <2>1, <2>2 DEF EntriesKept, Copying, Writing
<1> QED
  BY <1>4, <1>5, <1>6, <1>7, <1>8 DEF IInv

\* Every step leaves the disk alone, or does one thing to it.
LEMMA ShapeStep == Shape /\ PluginKept /\ ConfigKept /\ [Next]_vars => Shape'
<1> SUFFICES ASSUME Shape, PluginKept, ConfigKept, [Next]_vars PROVE Shape'
  OBVIOUS
<1> USE DEF Shape, history, GoTo, Ends, NoRun, At
<1>0. Disk(disk)
  OBVIOUS
<1>w. ASSUME NEW f, NEW c, IsContent(c), disk' = With(disk, f, c) PROVE Disk(disk')
  BY <1>0, <1>w, DiskOfContents
<1>1. ASSUME NEW build \in Builds, NEW register \in BOOLEAN, Start(build, register) PROVE Shape'
  <2>1. disk' = disk
    BY <1>1 DEF Start
  <2> QED
    BY <1>0, <1>1, <2>1 DEF Start
<1>2. CASE \/ KeepOld \/ BackupFails \/ CopyFails \/ LeaveToUser \/ NoRegistrar \/ Parse
           \/ BackupConfigFails \/ Interrupted \/ Tick \/ UserAddsPlugin
  BY <1>2 DEF KeepOld, BackupFails, CopyFails, LeaveToUser, NoRegistrar, Parse, BackupConfigFails,
              Interrupted, Tick, UserAddsPlugin
<1>3. ASSUME NEW havePgrep \in BOOLEAN, CheckRunning(havePgrep) PROVE Shape'
  BY <1>3 DEF CheckRunning
<1>4. CASE HostStops \/ DcStarts
  <2>1. overlap' \in BOOLEAN
    BY <1>4 DEF HostStops, DcStarts
  <2>2. dc' = [up |-> dc'.up, entries |-> dc'.entries] /\ dc'.up \in BOOLEAN
    <3>1. CASE HostStops
      BY <3>1 DEF HostStops
    <3>2. CASE DcStarts
      BY <3>2 DEF DcStarts
    <3> QED
      BY <1>4, <3>1, <3>2
  <2> QED
    BY <1>4, <2>1, <2>2 DEF HostStops, DcStarts
<1>5. ASSUME NEW pc, NEW file, NEW next, OpenBackup(pc, file, next) PROVE Shape'
  <2>1. Disk(disk')
    BY <1>5, <1>w, Contents DEF OpenBackup
  <2> QED
    BY <1>5, <2>1 DEF OpenBackup
<1>6. ASSUME NEW pc, NEW file, NEW next, FillBackup(pc, file, next), Exists(file) PROVE Shape'
  <2>1. IsContent(disk[file])
    BY <1>0, <1>6 DEF Exists, Disk
  <2>2. Disk(disk')
    BY <1>6, <1>w, <2>1 DEF FillBackup
  <2> QED
    BY <1>6, <2>2 DEF FillBackup
<1>7. CASE BackupPlugin \/ BackupConfig
  BY <1>5, <1>6, <1>7 DEF BackupPlugin, BackupConfig, FillBackup, PluginKept, ConfigKept, Copying
<1>8. CASE OpenTarget \/ FillTarget \/ OpenTemp \/ FillTemp
  <2>1. Disk(disk')
    BY <1>8, <1>w, Contents DEF OpenTarget, FillTarget, OpenTemp, FillTemp
  <2> QED
    BY <1>8, <2>1 DEF OpenTarget, FillTarget, OpenTemp, FillTemp
<1>9. CASE Replace
  <2>1. Exists(TempName) /\ TempName # ConfigXml
    BY <1>9, Names DEF Replace, ConfigKept, Holds, TempName
  <2>2. Disk(disk')
    BY <1>0, <1>9, <2>1, DiskOfContents DEF Replace, Exists
  <2> QED
    BY <1>9, <2>2 DEF Replace
<1>10. CASE WriteFails
  <2>1. Disk(disk')
    BY <1>0, <1>10, DiskOfContents DEF WriteFails
  <2> QED
    BY <1>10, <2>1 DEF WriteFails
<1>11. CASE DcQuits
  <2>1. Disk(disk')
    BY <1>11, <1>w, Contents DEF DcQuits
  <2> QED
    BY <1>11, <2>1 DEF DcQuits
<1>12. CASE UNCHANGED vars
  BY <1>12 DEF vars
<1> QED
  BY <1>1, <1>2, <1>3, <1>4, <1>7, <1>8, <1>9, <1>10, <1>11, <1>12 DEF Next

\* No step leaves a part of a doublecmd.xml, or none where there was one.
LEMMA ConfigNotTornStep ==
    Shape /\ ConfigNotTorn /\ ConfigKept /\ [Next]_vars => ConfigNotTorn'
<1> SUFFICES ASSUME Shape, ConfigNotTorn, ConfigKept, [Next]_vars PROVE ConfigNotTorn'
  OBVIOUS
<1> USE DEF ConfigNotTorn, Exists, history, GoTo, Ends
<1>w. ASSUME NEW f, NEW c, disk' = With(disk, f, c), f # ConfigXml, UNCHANGED <<dc, wanted>>
      PROVE  ConfigNotTorn'
  BY <1>w DEF With
<1>1. ASSUME NEW build \in Builds, NEW register \in BOOLEAN, Start(build, register)
      PROVE  ConfigNotTorn'
  BY <1>1 DEF Start
<1>2. CASE \/ KeepOld \/ BackupFails \/ CopyFails \/ LeaveToUser \/ NoRegistrar \/ Parse
           \/ BackupConfigFails \/ Interrupted \/ Tick
  BY <1>2 DEF KeepOld, BackupFails, CopyFails, LeaveToUser, NoRegistrar, Parse, BackupConfigFails,
              Interrupted, Tick
<1>3. ASSUME NEW havePgrep \in BOOLEAN, CheckRunning(havePgrep) PROVE ConfigNotTorn'
  BY <1>3 DEF CheckRunning
<1>4. CASE HostStops
  BY <1>4 DEF HostStops, Parses, Shape
<1>5. CASE DcStarts \/ UserAddsPlugin
  BY <1>5 DEF DcStarts, UserAddsPlugin, Shape
<1>6. CASE BackupPlugin \/ BackupConfig
  <2>1. \A s : Backup(Target, s) # ConfigXml /\ Backup(ConfigXml, s) # ConfigXml
    BY Names DEF Fixed
  <2> QED
    BY <1>6, <1>w, <2>1 DEF BackupPlugin, BackupConfig, OpenBackup, FillBackup
<1>7. CASE OpenTarget \/ FillTarget \/ OpenTemp \/ FillTemp
  BY <1>7, <1>w, Names DEF OpenTarget, FillTarget, OpenTemp, FillTemp, TempName
<1>8. CASE Replace
  <2>1. disk[TempConfig] = Whole(inst.entries)
    BY <1>8 DEF Replace, At, ConfigKept, Holds, TempName
  <2>2. disk' = Renamed(disk, TempConfig, ConfigXml)
    BY <1>8 DEF Replace, TempName
  <2>3. ConfigXml \in DOMAIN disk' /\ disk'[ConfigXml] = Whole(inst.entries)
    BY <2>1, <2>2, Names DEF Renamed, With, Without
  <2> QED
    BY <2>3 DEF Whole
<1>9. CASE WriteFails
  <2>1. disk' = Without(disk, TempConfig) /\ UNCHANGED <<dc, wanted>>
    BY <1>9 DEF WriteFails, TempName
  <2> QED
    BY <2>1, Names DEF Without
<1>10. CASE DcQuits
  <2>1. ConfigXml \in DOMAIN disk' /\ disk'[ConfigXml] = Whole(dc.entries)
    BY <1>10 DEF With, DcQuits
  <2> QED
    BY <2>1 DEF Whole
<1>11. CASE UNCHANGED vars
  BY <1>11 DEF vars
<1> QED
  BY <1>1, <1>2, <1>3, <1>4, <1>5, <1>6, <1>7, <1>8, <1>9, <1>10, <1>11 DEF Next

\* Once the plugin file is opened for writing, its backup holds what it held.
LEMMA PluginKeptStep == Shape /\ PluginKept /\ [Next]_vars => PluginKept'
<1> SUFFICES ASSUME Shape, PluginKept, [Next]_vars PROVE PluginKept'
  OBVIOUS
<1> DEFINE Kept == {"openBackup", "fillBackup", "openTarget"}
<1> USE DEF PluginKept, Holds, Exists, history, GoTo, Ends, At
<1>a. ASSUME inst'.pc \notin Kept PROVE PluginKept'
  BY <1>a
<1>i. NoRun.pc = "idle"
  BY DEF NoRun
<1>n. \A s : Backup(Target, s) \notin Fixed
  BY Names
<1>1. ASSUME NEW build \in Builds, NEW register \in BOOLEAN, Start(build, register)
      PROVE  PluginKept'
  BY <1>1, <1>a DEF Start, NoRun
<1>2. CASE \/ BackupFails \/ CopyFails \/ LeaveToUser \/ NoRegistrar \/ BackupConfigFails
           \/ Interrupted \/ HostStops \/ Replace \/ WriteFails
  BY <1>2, <1>a, <1>i DEF BackupFails, CopyFails, LeaveToUser, NoRegistrar, BackupConfigFails,
                          Interrupted, HostStops, Replace, WriteFails
<1>3. ASSUME NEW havePgrep \in BOOLEAN, CheckRunning(havePgrep) PROVE PluginKept'
  BY <1>3, <1>a, <1>i DEF CheckRunning, Shape
<1>4. CASE Parse \/ BackupConfig \/ OpenTarget \/ FillTarget \/ OpenTemp \/ FillTemp
  BY <1>4, <1>a, <1>i DEF Parse, BackupConfig, OpenBackup, FillBackup, OpenTarget, FillTarget,
                          OpenTemp, FillTemp, Shape
<1>5. CASE Tick \/ DcStarts \/ UserAddsPlugin
  BY <1>5 DEF Tick, DcStarts, UserAddsPlugin
<1>6. CASE KeepOld
  BY <1>6 DEF KeepOld, Shape
<1>7. CASE OpenBackup("openBackup", Target, "fillBackup")
  <2>1. inst'.pc = "fillBackup" /\ inst'.second = inst.second
    BY <1>7 DEF OpenBackup, Shape
  <2>2. disk' = With(disk, Backup(Target, inst.second), Torn) /\ Exists(Target)
    BY <1>7 DEF OpenBackup
  <2> QED
    BY <2>1, <2>2 DEF With
<1>8. CASE FillBackup("fillBackup", Target, "openTarget")
  <2>1. inst'.pc = "openTarget" /\ inst'.second = inst.second
    BY <1>8 DEF FillBackup, Shape
  <2>2. disk' = With(disk, Backup(Target, inst.second), disk[Target]) /\ Exists(Target)
    BY <1>8 DEF FillBackup
  <2>3. disk'[Target] = disk[Target]
    BY <2>2, <1>n DEF With, Fixed
  <2> QED
    BY <2>1, <2>2, <2>3 DEF With
<1>9. CASE DcQuits
  <2>1. disk' = With(disk, ConfigXml, Whole(dc.entries)) /\ inst' = inst
    BY <1>9 DEF DcQuits
  <2>2. ConfigXml # Target /\ ConfigXml # Backup(Target, inst.second)
    BY <1>n, Names DEF Fixed
  <2>3. \A f \in {Target, Backup(Target, inst.second)} :
          /\ f \in DOMAIN disk' <=> f \in DOMAIN disk
          /\ f \in DOMAIN disk => disk'[f] = disk[f]
    BY <2>1, <2>2 DEF With
  <2> QED
    BY <2>1, <2>3
<1>10. CASE UNCHANGED vars
  BY <1>10 DEF vars
<1> QED
  BY <1>1, <1>2, <1>3, <1>4, <1>5, <1>6, <1>7, <1>8, <1>9, <1>10 DEF Next, BackupPlugin

\* Once doublecmd.xml is to be replaced, its backup holds what it holds.
LEMMA ConfigKeptStep == Shape /\ ConfigKept /\ [Next]_vars => ConfigKept'
<1> SUFFICES ASSUME Shape, ConfigKept, [Next]_vars PROVE ConfigKept'
  OBVIOUS
<1> USE DEF ConfigKept, Holds, Exists, Copying, Writing, Registering, history, GoTo, Ends, At
<1>a. ASSUME inst'.pc \notin {"registrar"} \cup Copying \cup Writing PROVE ConfigKept'
  BY <1>a
<1>i. NoRun.pc = "idle"
  BY DEF NoRun
<1>n. \A s : Backup(ConfigXml, s) \notin Fixed
  BY Names
<1> DEFINE B == Backup(ConfigXml, inst.second)
<1>1. ASSUME NEW build \in Builds, NEW register \in BOOLEAN, Start(build, register)
      PROVE  ConfigKept'
  BY <1>1, <1>a DEF Start, NoRun
<1>2. CASE \/ BackupFails \/ CopyFails \/ LeaveToUser \/ NoRegistrar \/ BackupConfigFails
           \/ Interrupted \/ HostStops \/ Replace \/ WriteFails
  BY <1>2, <1>a, <1>i DEF BackupFails, CopyFails, LeaveToUser, NoRegistrar, BackupConfigFails,
                          Interrupted, HostStops, Replace, WriteFails
<1>3. CASE KeepOld \/ BackupPlugin \/ OpenTarget \/ FillTarget
  BY <1>3, <1>a, <1>i DEF KeepOld, BackupPlugin, OpenBackup, FillBackup, OpenTarget, FillTarget,
                          Shape
<1>4. ASSUME NEW havePgrep \in BOOLEAN, CheckRunning(havePgrep) PROVE ConfigKept'
  <2>1. CASE DcRunning(havePgrep)
    BY <1>4, <2>1, <1>a, <1>i DEF CheckRunning
  <2>2. CASE ~DcRunning(havePgrep)
    BY <1>4, <2>2 DEF CheckRunning, DcRunning, Shape
  <2> QED
    BY <2>1, <2>2
<1>5. CASE Parse
  <2>1. CASE Parses(ConfigXml)
    BY <1>5, <2>1 DEF Parse, Parses, Shape
  <2>2. CASE ~Parses(ConfigXml)
    BY <1>5, <2>2, <1>a, <1>i DEF Parse
  <2> QED
    BY <2>1, <2>2
<1>6. CASE OpenBackup("openCopy", ConfigXml, "fillCopy")
  <2>1. inst'.pc = "fillCopy" /\ inst'.second = inst.second
    BY <1>6 DEF OpenBackup, Shape
  <2>2. disk' = With(disk, B, Torn) /\ Exists(ConfigXml) /\ (dc.up => overlap)
    BY <1>6 DEF OpenBackup
  <2>3. UNCHANGED <<dc, overlap>>
    BY <1>6 DEF OpenBackup
  <2> QED
    BY <2>1, <2>2, <2>3 DEF With
<1>7. CASE FillBackup("fillCopy", ConfigXml, "openTemp")
  <2>1. inst'.pc = "openTemp" /\ inst'.second = inst.second
    BY <1>7 DEF FillBackup, Shape
  <2>2. disk' = With(disk, B, disk[ConfigXml]) /\ Exists(ConfigXml) /\ (dc.up => overlap)
    BY <1>7 DEF FillBackup
  <2>3. UNCHANGED <<dc, overlap>>
    BY <1>7 DEF FillBackup
  <2>4. disk'[ConfigXml] = disk[ConfigXml]
    BY <2>2, <1>n DEF Fixed, With
  <2> QED
    BY <2>1, <2>2, <2>3, <2>4 DEF With
<1>8. CASE OpenTemp \/ FillTemp
  <2>1. PICK c : disk' = With(disk, TempConfig, c) /\ (FillTemp => c = Whole(inst.entries))
    BY <1>8 DEF OpenTemp, FillTemp, TempName
  <2>2. /\ inst'.second = inst.second /\ inst'.entries = inst.entries
        /\ inst'.pc \in {"fillTemp", "replace"} /\ (inst'.pc = "replace" => FillTemp)
    BY <1>8 DEF OpenTemp, FillTemp, Shape
  <2>3. Exists(ConfigXml) /\ (dc.up => overlap) /\ UNCHANGED <<dc, overlap>>
    BY <1>8 DEF OpenTemp, FillTemp
  <2>4. disk[ConfigXml].of \in lost \/ Holds(B, disk[ConfigXml])
    BY <1>8 DEF OpenTemp, FillTemp
  <2>9. lost' = lost
    BY <1>8 DEF OpenTemp, FillTemp
  <2>5. TempConfig # ConfigXml /\ TempConfig # B
    BY <1>n, Names DEF Fixed
  <2>6. Exists(ConfigXml)' /\ disk'[ConfigXml] = disk[ConfigXml]
    BY <2>1, <2>3, <2>5 DEF With
  <2>8. ASSUME NEW held, Holds(B, held) PROVE Holds(B, held)'
    BY <2>1, <2>2, <2>5, <2>8 DEF With
  <2>7. inst'.pc = "replace" => Holds(TempConfig, Whole(inst.entries))'
    BY <2>1, <2>2 DEF With
  <2> QED
    BY <2>2, <2>3, <2>4, <2>6, <2>7, <2>8, <2>9 DEF TempName
<1>9. CASE Tick \/ UserAddsPlugin \/ DcStarts
  BY <1>9 DEF Tick, UserAddsPlugin, DcStarts, Shape
<1>10. CASE DcQuits
  <2>1. disk' = With(disk, ConfigXml, Whole(dc.entries)) /\ UNCHANGED <<inst, overlap>>
    BY <1>10 DEF DcQuits
  <2>2. dc.up /\ ~dc'.up
    BY <1>10 DEF DcQuits, Shape
  <2>3. TempConfig # ConfigXml /\ ConfigXml # B
    BY <1>n, Names DEF Fixed
  <2>4. Exists(ConfigXml)'
    BY <2>1 DEF With
  <2>5. ASSUME NEW c, Holds(B, c) PROVE Holds(B, c)'
    BY <2>1, <2>3, <2>5 DEF With
  <2>7. inst.pc \in Writing => disk'[ConfigXml].of \in lost'
    BY <1>10, <2>1 DEF DcQuits, Replacing, With, Whole
  <2>8. inst'.second = inst.second /\ inst'.pc = inst.pc /\ inst'.entries = inst.entries
    BY <2>1
  <2>9. inst.pc = "fillCopy" => Holds(B, Torn)'
    BY <2>5
  <2>10. inst.pc = "replace" => Holds(TempConfig, Whole(inst.entries))'
    <3>1. inst.pc = "replace" => Holds(TempConfig, Whole(inst.entries))
      BY DEF TempName
    <3>2. Holds(TempConfig, Whole(inst.entries)) => Holds(TempConfig, Whole(inst.entries))'
      BY <2>1, <2>3, <2>8 DEF With
    <3> QED
      BY <3>1, <3>2
  <2> QED
    BY <2>2, <2>4, <2>7, <2>8, <2>9, <2>10 DEF TempName
<1>11. CASE UNCHANGED vars
  BY <1>11 DEF vars
<1> QED
  BY <1>1, <1>2, <1>3, <1>4, <1>5, <1>6, <1>7, <1>8, <1>9, <1>10, <1>11 DEF Next, BackupConfig

\* Backups stay: a later run opens others, or Double Commander or a clash of
\* names is to blame.
LEMMA BackupsKeptStep ==
    Shape /\ ConfigNotTorn /\ PluginKept /\ ConfigKept /\ BackupsKept /\ [Next]_vars
        => BackupsKept'
<1> SUFFICES ASSUME Shape, ConfigNotTorn, PluginKept, ConfigKept, BackupsKept, [Next]_vars
             PROVE  \A content \in overwritten' \ lost' :
                      \E file \in DOMAIN disk' \ Fixed : disk'[file] = Whole(content)
  BY DEF BackupsKept
<1> USE DEF history
<1>2. \A content \in overwritten \ lost :
        \E file \in DOMAIN disk \ Fixed : disk[file] = Whole(content)
  BY DEF BackupsKept
<1> DEFINE Goal == \A content \in overwritten' \ lost' :
                      \E file \in DOMAIN disk' \ Fixed : disk'[file] = Whole(content)
<1>a. ASSUME NEW f, NEW c, disk' = With(disk, f, c), overwritten' = overwritten, lost \subseteq lost',
             f \in Fixed \/ ~Exists(f) \/ disk[f] = Torn \/ disk[f].of \in lost'
      PROVE  Goal
  <2> SUFFICES ASSUME NEW content \in overwritten \ lost'
               PROVE  \E file \in DOMAIN disk' \ Fixed : disk'[file] = Whole(content)
    BY <1>a
  <2>1. PICK file \in DOMAIN disk \ Fixed : disk[file] = Whole(content)
    BY <1>2, <1>a
  <2>2. file # f
    BY <1>a, <2>1, Contents DEF Exists, Whole
  <2>3. file \in DOMAIN disk' /\ disk'[file] = disk[file]
    BY <1>a, <2>2 DEF With
  <2> QED
    BY <2>1, <2>3
<1>b. ASSUME NEW f, NEW g, f \in Fixed, g \in Fixed, f # g, f \in DOMAIN disk,
             disk' = Renamed(disk, f, g), overwritten' = overwritten \cup {disk[g].of}, lost' = lost,
             \/ disk[g].of \in lost
             \/ \E file \in DOMAIN disk \ Fixed : disk[file] = Whole(disk[g].of)
      PROVE  Goal
  <2> SUFFICES ASSUME NEW content \in overwritten' \ lost
               PROVE  \E file \in DOMAIN disk' \ Fixed : disk'[file] = Whole(content)
    BY <1>b
  <2>1. PICK file \in DOMAIN disk \ Fixed : disk[file] = Whole(content)
    BY <1>2, <1>b
  <2>2. file \in DOMAIN disk' /\ disk'[file] = disk[file]
    BY <1>b, <2>1 DEF Renamed, With, Without
  <2> QED
    BY <2>1, <2>2
<1>3. CASE \/ \E build \in Builds, register \in BOOLEAN : Start(build, register)
           \/ \E havePgrep \in BOOLEAN : CheckRunning(havePgrep)
           \/ KeepOld \/ BackupFails \/ CopyFails \/ LeaveToUser \/ NoRegistrar \/ Parse
           \/ BackupConfigFails \/ Interrupted \/ HostStops \/ Tick \/ DcStarts \/ UserAddsPlugin
           \/ UNCHANGED vars
  <2>1. disk' = disk /\ overwritten' = overwritten /\ lost' = lost
    BY <1>3 DEF Start, CheckRunning, KeepOld, BackupFails, CopyFails, LeaveToUser, NoRegistrar, Parse,
                BackupConfigFails, Interrupted, HostStops, Tick, DcStarts, UserAddsPlugin, vars
  <2> QED
    BY <1>2, <2>1
<1>4. ASSUME NEW pc, NEW file, NEW next, OpenBackup(pc, file, next) PROVE Goal
  <2>1. /\ lost \subseteq lost'
        /\ Exists(Backup(file, inst.second)) => disk[Backup(file, inst.second)].of \in lost'
    BY <1>4 DEF OpenBackup
  <2> QED
    BY <1>4, <1>a, <2>1 DEF OpenBackup
<1>5. CASE FillBackup("fillBackup", Target, "openTarget")
  <2>1. disk[Backup(Target, inst.second)] = Torn
    BY <1>5 DEF FillBackup, At, PluginKept, Holds
  <2> QED
    BY <1>5, <1>a, <2>1 DEF FillBackup
<1>6. CASE FillBackup("fillCopy", ConfigXml, "openTemp")
  <2>1. disk[Backup(ConfigXml, inst.second)] = Torn
    BY <1>6 DEF FillBackup, At, ConfigKept, Holds
  <2> QED
    BY <1>6, <1>a, <2>1 DEF FillBackup
<1>7. CASE FillTarget \/ OpenTemp \/ FillTemp \/ DcQuits
  <2>1. \E f \in Fixed : \E c : disk' = With(disk, f, c)
    BY <1>7 DEF FillTarget, OpenTemp, FillTemp, DcQuits, TempName, Fixed
  <2>2. overwritten' = overwritten /\ lost \subseteq lost'
    BY <1>7 DEF FillTarget, OpenTemp, FillTemp, DcQuits
  <2> QED
    BY <1>a, <2>1, <2>2
<1>8. CASE OpenTarget
  <2>1. disk' = With(disk, Target, Torn) /\ At("openTarget") /\ lost' = lost
    BY <1>8 DEF OpenTarget
  <2> SUFFICES ASSUME NEW content \in overwritten' \ lost
               PROVE  \E file \in DOMAIN disk' \ Fixed : disk'[file] = Whole(content)
    BY <2>1
  <2>2. ASSUME Exists(Target), disk[Target].whole, content = disk[Target].of
        PROVE  \E file \in DOMAIN disk \ Fixed : disk[file] = Whole(content)
    <3>1. disk[Target] = Whole(content)
      BY <2>2 DEF Shape, Disk, Exists, IsContent, Whole
    <3>2. Holds(Backup(Target, inst.second), Whole(content))
      BY <2>1, <2>2, <3>1 DEF At, PluginKept
    <3> QED
      BY <3>2, Names DEF Holds, Exists
  <2>3. PICK file \in DOMAIN disk \ Fixed : disk[file] = Whole(content)
    BY <1>2, <1>8, <2>2 DEF OpenTarget
  <2>4. file \in DOMAIN disk' /\ disk'[file] = disk[file]
    BY <2>1, <2>3 DEF With, Fixed
  <2> QED
    BY <2>3, <2>4
<1>9. CASE Replace
  <2>1. /\ At("replace") /\ disk' = Renamed(disk, TempConfig, ConfigXml)
        /\ overwritten' = overwritten \cup {disk[ConfigXml].of} /\ lost' = lost
    BY <1>9 DEF Replace, TempName
  <2>2. /\ disk[ConfigXml].of \in lost \/ Holds(Backup(ConfigXml, inst.second), disk[ConfigXml])
        /\ Exists(ConfigXml) /\ TempConfig \in DOMAIN disk
    BY <2>1 DEF At, ConfigKept, Copying, Writing, Holds, Exists, TempName
  <2>3. disk[ConfigXml] = Whole(disk[ConfigXml].of)
    BY <2>2 DEF Shape, Disk, Exists, IsContent, Whole, ConfigNotTorn
  <2>4. \/ disk[ConfigXml].of \in lost
        \/ \E file \in DOMAIN disk \ Fixed : disk[file] = Whole(disk[ConfigXml].of)
    BY <2>2, <2>3, Names DEF Holds, Exists
  <2> QED
    BY <1>b, <2>1, <2>2, <2>4, Names DEF Fixed
<1>10. CASE WriteFails
  <2>1. disk' = Without(disk, TempConfig) /\ overwritten' = overwritten /\ lost' = lost
    BY <1>10 DEF WriteFails, TempName
  <2> SUFFICES ASSUME NEW content \in overwritten \ lost
               PROVE  \E file \in DOMAIN disk' \ Fixed : disk'[file] = Whole(content)
    BY <2>1
  <2>2. PICK file \in DOMAIN disk \ Fixed : disk[file] = Whole(content)
    BY <1>2
  <2>3. file \in DOMAIN disk' /\ disk'[file] = disk[file]
    BY <2>1, <2>2 DEF Without, Fixed
  <2> QED
    BY <2>2, <2>3
<1> QED
  BY <1>3, <1>4, <1>5, <1>6, <1>7, <1>8, <1>9, <1>10 DEF Next, BackupPlugin, BackupConfig

\* What the steps that write something else leave of doublecmd.xml.
LEMMA OtherFiles ==
    ASSUME NEW f, f # ConfigXml, \/ \E c : disk' = With(disk, f, c)
                                 \/ disk' = Without(disk, f)
                                 \/ disk' = disk
    PROVE  /\ Exists(ConfigXml)' <=> Exists(ConfigXml)
           /\ Exists(ConfigXml) => disk'[ConfigXml] = disk[ConfigXml]
           /\ Parses(ConfigXml)' <=> Parses(ConfigXml)
           /\ Stored' = Stored
<1>1. /\ Exists(ConfigXml)' <=> Exists(ConfigXml)
      /\ Exists(ConfigXml) => disk'[ConfigXml] = disk[ConfigXml]
  BY DEF Exists, With, Without
<1> QED
  BY <1>1 DEF Parses, Stored

\* doublecmd.xml is changed by the registrar and by a Double Commander that quits.
LEMMA ConfigWritten ==
    ASSUME NEW s \in Seq(Entries), ConfigXml \in DOMAIN disk', disk'[ConfigXml] = Whole(s)
    PROVE  /\ Exists(ConfigXml)' /\ Parses(ConfigXml)' /\ Stored' = s
           /\ disk'[ConfigXml].of = s
<1>1. s # Unreadable
  BY InstallerAssumption DEF InstallerAssumption
<1>2. disk'[ConfigXml].of = s /\ disk'[ConfigXml].whole
  BY DEF Whole
<1> QED
  BY <1>1, <1>2 DEF Parses, Exists, Stored

Elsewhere ==        \* steps that write no doublecmd.xml
    \/ \E build \in Builds, register \in BOOLEAN : Start(build, register)
    \/ KeepOld \/ BackupPlugin \/ BackupFails \/ OpenTarget \/ FillTarget \/ CopyFails
    \/ LeaveToUser \/ \E havePgrep \in BOOLEAN : CheckRunning(havePgrep)
    \/ NoRegistrar \/ Parse \/ BackupConfig \/ BackupConfigFails
    \/ OpenTemp \/ FillTemp \/ WriteFails
    \/ Interrupted \/ HostStops \/ Tick \/ DcStarts \/ UserAddsPlugin \/ UNCHANGED vars

LEMMA WritesElsewhere ==
    ASSUME Elsewhere
    PROVE  /\ Exists(ConfigXml)' <=> Exists(ConfigXml)
           /\ Exists(ConfigXml) => disk'[ConfigXml] = disk[ConfigXml]
           /\ Parses(ConfigXml)' <=> Parses(ConfigXml)
           /\ Stored' = Stored
<1>1. \A s : Backup(Target, s) # ConfigXml /\ Backup(ConfigXml, s) # ConfigXml
  BY Names DEF Fixed
<1>2. Target # ConfigXml /\ TempName # ConfigXml
  BY Names DEF TempName
<1>3. \E f : /\ f # ConfigXml
             /\ \/ \E c : disk' = With(disk, f, c)
                \/ disk' = Without(disk, f)
                \/ disk' = disk
  <2>1. CASE BackupPlugin \/ BackupConfig
    BY <1>1, <2>1 DEF BackupPlugin, BackupConfig, OpenBackup, FillBackup
  <2>2. CASE OpenTarget \/ FillTarget \/ OpenTemp \/ FillTemp \/ WriteFails
    BY <1>2, <2>2 DEF OpenTarget, FillTarget, OpenTemp, FillTemp, WriteFails
  <2>3. CASE ~(BackupPlugin \/ BackupConfig \/ OpenTarget \/ FillTarget \/ OpenTemp \/ FillTemp
               \/ WriteFails)
    <3>1. disk' = disk
      BY <2>3 DEF Elsewhere, Start, KeepOld, BackupFails, CopyFails, LeaveToUser, CheckRunning,
                  NoRegistrar, Parse, BackupConfigFails, Interrupted, HostStops, Tick, DcStarts,
                  UserAddsPlugin, vars
    <3> QED
      BY <1>2, <3>1
  <2> QED
    BY <2>1, <2>2, <2>3
<1> QED
  BY <1>3, OtherFiles

LEMMA EntriesTypeStep ==
    Shape /\ ConfigKept /\ EntriesType /\ [Next]_vars => EntriesType'
<1> SUFFICES ASSUME Shape, ConfigKept, EntriesType, [Next]_vars PROVE EntriesType'
  OBVIOUS
<1> USE DEF Shape, history, GoTo, Ends, At
<1>0. /\ <<>> \in Seq(Entries) /\ NoRun.entries = <<>> /\ Extra \in Entries
      /\ Stored \in Seq(Entries)
  BY EmptySeq, InstallerAssumption DEF NoRun, InstallerAssumption, Theirs, Stored, EntriesType,
     Parses
<1>1. CASE Elsewhere
  <2>1. Exists(ConfigXml)' => disk'[ConfigXml].of \in Seq(Entries) \cup {Unreadable}
    BY <1>1, WritesElsewhere DEF EntriesType
  <2>2. dc'.entries \in Seq(Entries)
    <3>1. CASE DcStarts
      <4>1. dc'.entries = Stored
        BY <3>1 DEF DcStarts, Stored
      <4> QED
        BY <1>0, <4>1
    <3>2. CASE UserAddsPlugin
      BY <1>0, <3>2, AppendProperties DEF UserAddsPlugin, EntriesType
    <3>3. CASE HostStops
      BY <3>3 DEF HostStops, EntriesType
    <3>4. CASE ~(DcStarts \/ UserAddsPlugin \/ HostStops)
      <4>1. dc' = dc
        BY <1>1, <3>4 DEF Elsewhere, Start, KeepOld, BackupPlugin, BackupFails, OpenTarget,
             FillTarget, CopyFails, LeaveToUser, CheckRunning, NoRegistrar, Parse, BackupConfig,
             BackupConfigFails, OpenTemp, FillTemp, WriteFails, Interrupted, Tick, OpenBackup,
             FillBackup, vars
      <4> QED
        BY <4>1 DEF EntriesType
    <3> QED
      BY <3>1, <3>2, <3>3, <3>4
  <2>3. inst'.entries \in Seq(Entries)
    <3>1. CASE \E build \in Builds, register \in BOOLEAN : Start(build, register)
      BY <1>0, <3>1 DEF Start, NoRun
    <3>2. CASE Parse
      <4>1. CASE Parses(ConfigXml)
        <5>1. disk[ConfigXml].of \in Seq(Entries)
          BY <4>1 DEF Parses, EntriesType
        <5>2. Register(disk[ConfigXml].of) \in Seq(Entries)
          BY <5>1, Registered
        <5> QED
          BY <3>2, <4>1, <5>2 DEF Parse
      <4>2. CASE ~Parses(ConfigXml)
        BY <1>0, <3>2, <4>2 DEF Parse
      <4> QED
        BY <4>1, <4>2
    <3>3. CASE KeepOld \/ BackupPlugin \/ BackupConfig \/ OpenTarget \/ FillTarget \/ OpenTemp \/ FillTemp
      BY <3>3 DEF KeepOld, BackupPlugin, BackupConfig, OpenBackup, FillBackup, OpenTarget, FillTarget,
                  OpenTemp, FillTemp, EntriesType
    <3>4. ASSUME NEW havePgrep \in BOOLEAN, CheckRunning(havePgrep) PROVE inst'.entries \in Seq(Entries)
      BY <1>0, <3>4 DEF CheckRunning, EntriesType
    <3>5. CASE \/ BackupFails \/ CopyFails \/ LeaveToUser \/ NoRegistrar \/ BackupConfigFails
               \/ WriteFails \/ Interrupted \/ HostStops
      BY <1>0, <3>5 DEF BackupFails, CopyFails, LeaveToUser, NoRegistrar, BackupConfigFails, WriteFails,
                        Interrupted, HostStops
    <3>6. CASE Tick \/ DcStarts \/ UserAddsPlugin \/ UNCHANGED vars
      BY <3>6 DEF Tick, DcStarts, UserAddsPlugin, vars, EntriesType
    <3> QED
      BY <1>1, <3>1, <3>2, <3>3, <3>4, <3>5, <3>6 DEF Elsewhere
  <2> QED
    BY <2>1, <2>2, <2>3 DEF EntriesType
<1>2. CASE Replace
  <2>1. disk' = Renamed(disk, TempConfig, ConfigXml) /\ inst' = NoRun /\ dc' = dc
    BY <1>2 DEF Replace, TempName
  <2>2. disk[TempConfig] = Whole(inst.entries)
    BY <1>2 DEF Replace, ConfigKept, Holds, TempName
  <2>3. ConfigXml \in DOMAIN disk' /\ disk'[ConfigXml] = Whole(inst.entries)
    BY <2>1, <2>2, Names DEF Renamed, With, Without
  <2>4. disk'[ConfigXml].of = inst.entries
    BY <2>3 DEF Whole
  <2> QED
    BY <1>0, <2>1, <2>4 DEF EntriesType
<1>3. CASE DcQuits
  <2>1. disk'[ConfigXml] = Whole(dc.entries) /\ inst' = inst /\ dc'.entries = dc.entries
    BY <1>3 DEF DcQuits, With
  <2>2. disk'[ConfigXml].of = dc.entries
    BY <2>1 DEF Whole
  <2> QED
    BY <2>1, <2>2 DEF EntriesType
<1> QED
  BY <1>1, <1>2, <1>3 DEF Next, Elsewhere

\* The entries in force stay those the user wants, and one of this plugin.
LEMMA EntriesKeptStep ==
    Shape /\ ConfigKept /\ EntriesType /\ EntriesKept /\ [Next]_vars => EntriesKept'
<1> SUFFICES ASSUME Shape, ConfigKept, EntriesType, EntriesKept, [Next]_vars, ~overlap'
             PROVE  EntriesKept'
  BY DEF EntriesKept
<1> USE DEF Shape, history, GoTo, Ends, At
<1>0. ~overlap
  BY DEF Next, vars, Start, KeepOld, BackupPlugin, BackupFails, OpenTarget, FillTarget, CopyFails,
         LeaveToUser, CheckRunning, NoRegistrar, Parse, BackupConfig, BackupConfigFails, OpenTemp,
         FillTemp, Replace, WriteFails, Interrupted, HostStops, Tick, DcStarts, UserAddsPlugin,
         DcQuits, OpenBackup, FillBackup
<1>1. /\ Only(InForce, Theirs) = wanted
      /\ registered => Only(Stored, Ours) = <<OwnEntry>> /\ Only(InForce, Ours) = <<OwnEntry>>
      /\ inst.pc \in Copying \cup Writing =>
           Parses(ConfigXml) /\ inst.entries = Register(disk[ConfigXml].of)
  BY <1>0 DEF EntriesKept
<1>2. InForce = IF dc.up THEN dc.entries ELSE Stored
  BY DEF InForce, Stored
<1>3. InForce' = IF dc'.up THEN dc'.entries ELSE Stored'
  BY DEF InForce, Stored
<1> DEFINE Listed == /\ Only(InForce', Theirs) = wanted'
                     /\ registered' => /\ Only(Stored', Ours) = <<OwnEntry>>
                                       /\ Only(InForce', Ours) = <<OwnEntry>>
           Read   == inst'.pc \in Copying \cup Writing =>
                         Parses(ConfigXml)' /\ inst'.entries = Register(disk'[ConfigXml].of)
<1> SUFFICES Listed /\ Read
  BY DEF EntriesKept
<1>4. CASE Elsewhere
  <2>0. /\ Exists(ConfigXml)' <=> Exists(ConfigXml)
        /\ Exists(ConfigXml) => disk'[ConfigXml] = disk[ConfigXml]
        /\ Parses(ConfigXml)' <=> Parses(ConfigXml)
        /\ Stored' = Stored
    BY <1>4, WritesElsewhere
  <2>1. Listed
    <3>1. CASE DcStarts
      <4>1. ~dc.up /\ dc' = [up |-> TRUE, entries |-> Stored] /\ UNCHANGED <<registered, wanted>>
        BY <3>1 DEF DcStarts, Stored
      <4> QED
        BY <1>1, <1>2, <1>3, <2>0, <4>1
    <3>2. CASE UserAddsPlugin
      <4>1. /\ dc.up /\ dc'.up /\ ~Contains(dc.entries, Extra) /\ registered' = registered
            /\ dc'.entries = Append(dc.entries, Extra)
            /\ wanted' = IF Contains(wanted, Extra) THEN wanted ELSE Append(wanted, Extra)
        BY <3>2 DEF UserAddsPlugin
      <4>2. dc.entries \in Seq(Entries) /\ Extra \in Entries /\ Extra \in Theirs /\ Extra \notin Ours
        BY InstallerAssumption DEF InstallerAssumption, Theirs, EntriesType
      <4>3. wanted = Only(dc.entries, Theirs)
        BY <1>1, <1>2, <4>1
      <4>4. ~Contains(wanted, Extra)
        BY <4>1, <4>2, <4>3, OnlyOf
      <4>5. /\ Only(Append(dc.entries, Extra), Theirs) = Append(wanted, Extra)
            /\ Only(Append(dc.entries, Extra), Ours) = Only(dc.entries, Ours)
        BY <4>2, <4>3, OnlyAppend
      <4> QED
        BY <1>1, <1>2, <1>3, <2>0, <4>1, <4>4, <4>5
    <3>3. CASE HostStops
      <4>1. /\ ~dc'.up /\ registered' = registered
            /\ ~dc.up => wanted' = wanted
            /\ dc.up => wanted' = IF Parses(ConfigXml) THEN Only(Stored, Theirs) ELSE <<>>
        BY <3>3 DEF HostStops, Stored
      <4>2. ~Parses(ConfigXml) => Stored = <<>>
        BY DEF Stored
      <4> QED
        BY <1>1, <1>2, <1>3, <2>0, <4>1, <4>2, OnlyEmpty
    <3>4. CASE ~(DcStarts \/ UserAddsPlugin \/ HostStops)
      <4>1. UNCHANGED <<dc, registered, wanted>>
        BY <1>4, <3>4 DEF Elsewhere, Start, KeepOld, BackupPlugin, BackupFails, OpenTarget,
             FillTarget, CopyFails, LeaveToUser, CheckRunning, NoRegistrar, Parse, BackupConfig,
             BackupConfigFails, OpenTemp, FillTemp, WriteFails, Interrupted, Tick, OpenBackup,
             FillBackup, vars
      <4> QED
        BY <1>1, <1>2, <1>3, <2>0, <4>1
    <3> QED
      BY <3>1, <3>2, <3>3, <3>4
  <2>2. Read
    <3>0. Parses(ConfigXml) => disk'[ConfigXml].of = disk[ConfigXml].of
      BY <2>0 DEF Parses
    <3>a. ASSUME inst'.pc \notin Copying \cup Writing PROVE Read
      BY <3>a
    <3>b. ASSUME inst.pc \in Copying \cup Writing, inst'.entries = inst.entries PROVE Read
      BY <1>1, <2>0, <3>0, <3>b
    <3>i. NoRun.pc = "idle"
      BY DEF NoRun
    <3> USE DEF Copying, Writing
    <3>1. CASE \E build \in Builds, register \in BOOLEAN : Start(build, register)
      BY <3>1, <3>a DEF Start, NoRun
    <3>2. CASE \/ BackupFails \/ CopyFails \/ LeaveToUser \/ NoRegistrar \/ BackupConfigFails
               \/ WriteFails \/ Interrupted \/ HostStops
      BY <3>2, <3>a, <3>i DEF BackupFails, CopyFails, LeaveToUser, NoRegistrar, BackupConfigFails,
                              WriteFails, Interrupted, HostStops
    <3>3. CASE KeepOld \/ BackupPlugin \/ OpenTarget \/ FillTarget
      BY <3>3, <3>a DEF KeepOld, BackupPlugin, OpenBackup, FillBackup, OpenTarget, FillTarget
    <3>4. ASSUME NEW havePgrep \in BOOLEAN, CheckRunning(havePgrep) PROVE Read
      BY <3>4, <3>a, <3>i DEF CheckRunning
    <3>5. CASE Parse
      <4>1. CASE Parses(ConfigXml)
        <5>1. inst'.entries = Register(disk[ConfigXml].of)
          BY <3>5, <4>1 DEF Parse
        <5> QED
          BY <2>0, <3>0, <4>1, <5>1
      <4>2. CASE ~Parses(ConfigXml)
        BY <3>5, <3>a, <3>i, <4>2 DEF Parse
      <4> QED
        BY <4>1, <4>2
    <3>6. CASE BackupConfig \/ OpenTemp \/ FillTemp
      BY <3>6, <3>b DEF BackupConfig, OpenBackup, FillBackup, OpenTemp, FillTemp
    <3>7. CASE Tick \/ DcStarts \/ UserAddsPlugin \/ UNCHANGED vars
      <4>1. inst' = inst
        BY <3>7 DEF Tick, DcStarts, UserAddsPlugin, vars
      <4> QED
        BY <3>a, <3>b, <4>1
    <3> QED
      BY <1>4, <3>1, <3>2, <3>3, <3>4, <3>5, <3>6, <3>7 DEF Elsewhere
  <2> QED
    BY <2>1, <2>2
<1>5. CASE Replace
  <2>1. /\ disk' = Renamed(disk, TempConfig, ConfigXml) /\ inst' = NoRun /\ UNCHANGED <<dc, wanted>>
        /\ inst.pc = "replace"
    BY <1>5 DEF Replace, TempName
  <2>2. disk[TempConfig] = Whole(inst.entries) /\ ~dc.up
    BY <1>0, <2>1 DEF ConfigKept, Holds, TempName, Registering
  <2>3. ConfigXml \in DOMAIN disk' /\ disk'[ConfigXml] = Whole(inst.entries)
    BY <2>1, <2>2, Names DEF Renamed, With, Without
  <2>4. /\ Parses(ConfigXml) /\ inst.entries = Register(Stored)
        /\ Stored \in Seq(Entries)
    BY <1>1, <2>1 DEF Writing, Stored, EntriesType, Parses
  <2>5. /\ inst.entries \in Seq(Entries)
        /\ Only(inst.entries, Ours) = <<OwnEntry>> /\ Only(inst.entries, Theirs) = Only(Stored, Theirs)
    BY <2>4, Registered
  <2>6. Stored' = inst.entries
    BY <2>3, <2>5, ConfigWritten
  <2>7. Listed
    BY <1>1, <1>2, <1>3, <2>1, <2>2, <2>5, <2>6
  <2>8. Read
    BY <2>1 DEF NoRun, Copying, Writing
  <2> QED
    BY <2>7, <2>8
<1>6. CASE DcQuits
  <2>1. /\ disk' = With(disk, ConfigXml, Whole(dc.entries)) /\ dc.up /\ ~dc'.up
        /\ UNCHANGED <<inst, wanted, registered>>
    BY <1>6 DEF DcQuits
  <2>2. ConfigXml \in DOMAIN disk' /\ disk'[ConfigXml] = Whole(dc.entries)
    BY <2>1 DEF With
  <2>3. Stored' = dc.entries
    BY <2>2, ConfigWritten DEF EntriesType
  <2>4. Listed
    BY <1>1, <1>2, <1>3, <2>1, <2>3
  <2>5. inst'.pc \notin Copying \cup Writing
    BY <1>0, <2>1 DEF ConfigKept, Registering, Copying, Writing
  <2> QED
    BY <2>4, <2>5
<1> QED
  BY <1>4, <1>5, <1>6 DEF Next, Elsewhere

LEMMA Invariance == Spec => []IInv
<1>1. IInv /\ [Next]_vars => IInv'
  BY ShapeStep, ConfigNotTornStep, PluginKeptStep, ConfigKeptStep, BackupsKeptStep,
     EntriesTypeStep, EntriesKeptStep DEF IInv
<1> QED
  BY Initially, <1>1, PTL DEF Spec

-----------------------------------------------------------------------------
(* The theorems.                                                           *)

(* register_plugin.py writes beside doublecmd.xml and replaces it in one   *)
(* step: wherever install.sh, the registrar or the host stop, no step has  *)
(* taken the file away or left a part of one in its place.                 *)
THEOREM ConfigurationStaysWhole == Spec => ConfigIsWhole
<1>1. ASSUME IInv, [Next]_vars PROVE Exists(ConfigXml) => Exists(ConfigXml)'
  <2>1. CASE Elsewhere
    BY <2>1, WritesElsewhere
  <2>2. CASE Replace
    <3>1. disk' = Renamed(disk, TempConfig, ConfigXml)
      BY <2>2 DEF Replace, TempName
    <3> QED
      BY <3>1, Names DEF Exists, Renamed, With, Without
  <2>3. CASE DcQuits
    BY <2>3 DEF DcQuits, Exists, With
  <2> QED
    BY <1>1, <2>1, <2>2, <2>3 DEF Next, Elsewhere
<1>2. ASSUME IInv' PROVE Exists(ConfigXml)' => disk'[ConfigXml].whole
  BY <1>2 DEF IInv, ConfigNotTorn
<1> QED
  BY <1>1, <1>2, Invariance, PTL DEF Spec, ConfigIsWhole

(* "Backs up anything it overwrites first" (install.sh:18): after any      *)
(* number of runs, failures and stops, what the installer replaced is      *)
(* still whole on the disk, in a backup.                                   *)
THEOREM BackupsSurvive == Spec => []OverwrittenSurvives
<1>1. IInv => OverwrittenSurvives
  BY DEF IInv, BackupsKept, OverwrittenSurvives
<1> QED
  BY <1>1, Invariance, PTL

(* The registrar replaces this plugin's entries by one and touches no      *)
(* other: whatever runs, failures and sessions of Double Commander follow, *)
(* but for one that ran beside the registrar.                              *)
THEOREM RegistrationStays == Spec => []RegisteredStays
<1>1. IInv => RegisteredStays
  BY DEF IInv, EntriesKept, RegisteredStays
<1> QED
  BY <1>1, Invariance, PTL
=============================================================================
