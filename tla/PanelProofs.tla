----------------------------- MODULE PanelProofs -----------------------------
(***************************************************************************)
(* Theorems about a panel of Double Commander over the plugin, and the      *)
(* lemmas about conversions, paths and lists that they rest on.            *)
(***************************************************************************)
EXTENDS Panel, SequenceTheorems, FiniteSetTheorems, TLAPS

-----------------------------------------------------------------------------
(* Numbers and recursive functions.                                        *)

\* A set that holds 0 and with every number its successor holds all numbers: were n
\* missing, k |-> k + 1 would fit the members up to n into fewer places.
LEMMA Counting ==
    ASSUME NEW T, 0 \in T, \A n \in Nat : n \in T => n + 1 \in T
    PROVE  \A n \in Nat : n \in T
<1> SUFFICES ASSUME NEW n \in Nat, n \notin T PROVE FALSE
  OBVIOUS
<1> DEFINE A == (0..n) \cap T
           f == [k \in A |-> k + 1]
<1>1. 0 \in A
  OBVIOUS
<1>2. IsFiniteSet(A)
  <2>1. IsFiniteSet(0..n) /\ A \in SUBSET (0..n)
    BY FS_Interval
  <2> HIDE DEF A
  <2> QED
    BY <2>1, FS_Subset
<1>3. /\ Cardinality(A) \in Nat
      /\ IsFiniteSet(A \ {0}) /\ Cardinality(A \ {0}) = Cardinality(A) - 1
  <2> HIDE DEF A
  <2> QED
    BY <1>1, <1>2, FS_RemoveElement, FS_CardinalityType
<1>4. f \in [A -> A \ {0}]
  OBVIOUS
<1>5. \E x, y \in A : x # y /\ f[x] = f[y]
  <2>1. Cardinality(A \ {0}) < Cardinality(A)
    BY <1>3
  <2> HIDE DEF A, f
  <2> QED
    BY <2>1, <1>2, <1>3, <1>4, FS_PigeonHole
<1> QED
  BY <1>5

\* A value for every index up to N, each computed from its predecessor.
Follows(g, c, N, step) == g[0] = c /\ \A i \in 1..N : g[i] = step[<<g[i - 1], i>>]

\* Such values exist.
LEMMA Recursion ==
    ASSUME NEW S, NEW c, NEW N \in Nat, NEW step,
           c \in S, \A v \in S, i \in 1..N : step[<<v, i>>] \in S
    PROVE  \E g \in [0..N -> S] : Follows(g, c, N, step)
<1> DEFINE Upto(n) == \E g \in [0..n -> S] : Follows(g, c, n, step)
           T == {n \in Nat : n <= N => Upto(n)}
<1>1. 0 \in T
  <2>1. Upto(0)
    <3> WITNESS [i \in 0..0 |-> c] \in [0..0 -> S]
    <3> QED
      BY DEF Follows
  <2> QED
    BY <2>1
<1>2. ASSUME NEW n \in Nat, Upto(n), n + 1 <= N PROVE Upto(n + 1)
  <2>1. PICK g \in [0..n -> S] : g[0] = c /\ \A i \in 1..n : g[i] = step[<<g[i - 1], i>>]
    BY <1>2 DEF Follows
  <2> DEFINE h == [i \in 0..(n + 1) |-> IF i <= n THEN g[i] ELSE step[<<g[n], n + 1>>]]
  <2>2. h \in [0..(n + 1) -> S]
    BY <1>2
  <2>3. h[0] = c
    BY <2>1
  <2>4. ASSUME NEW i \in 1..(n + 1) PROVE h[i] = step[<<h[i - 1], i>>]
    <3>1. CASE i \in 1..n
      BY <2>1, <3>1
    <3>2. CASE i = n + 1
      <4>1. n \in 0..(n + 1) /\ n + 1 \in 0..(n + 1) /\ (n + 1) - 1 = n
        OBVIOUS
      <4>2. h[n] = g[n]
        BY <4>1
      <4>3. h[n + 1] = step[<<g[n], n + 1>>]
        BY <4>1
      <4> QED
        BY <3>2, <4>1, <4>2, <4>3
    <3> QED
      BY <3>1, <3>2
  <2>5. Follows(h, c, n + 1, step)
    BY <2>3, <2>4 DEF Follows
  <2> HIDE DEF h
  <2> QED
    BY <2>2, <2>5
<1> HIDE DEF Upto
<1>3. ASSUME NEW n \in Nat, n \in T PROVE n + 1 \in T
  BY <1>2, <1>3
<1>4. N \in T
  <2> HIDE DEF T
  <2> QED
    BY <1>1, <1>3, Counting
<1>5. Upto(N)
  BY <1>4
<1> QED
  BY <1>5 DEF Upto


\* A set of numbers has a least member, and a bounded one a greatest.
LEMMA Least ==
    ASSUME NEW S \in SUBSET Nat, S # {}
    PROVE  Min(S) \in S /\ \A y \in S : Min(S) <= y
<1> DEFINE Has == \E x \in S : \A y \in S : x <= y
           T == {n \in Nat : (\E y \in S : y <= n) => Has}
<1>1. 0 \in T
  OBVIOUS
<1>2. ASSUME NEW n \in Nat, n \in T PROVE n + 1 \in T
  <2> SUFFICES ASSUME NEW x \in S, x <= n + 1, ~ \E y \in S : y <= n PROVE Has
    BY <1>2
  <2>1. \A y \in S : x <= y
    OBVIOUS
  <2> QED
    BY <2>1
<1>3. \A n \in Nat : n \in T
  <2> HIDE DEF T
  <2> QED
    BY <1>1, <1>2, Counting
<1>4. Has
  <2>1. PICK y \in S : TRUE
    OBVIOUS
  <2>2. y \in T /\ y <= y
    BY <1>3
  <2> HIDE DEF Has
  <2> QED
    BY <2>2
<1> QED
  BY <1>4, Zenon DEF Min

\* A bounded nonempty set of numbers has a greatest member.
LEMMA Greatest ==
    ASSUME NEW S \in SUBSET Nat, S # {}, NEW N \in Nat, \A y \in S : y <= N
    PROVE  Max(S) \in S /\ \A y \in S : y <= Max(S)
<1> DEFINE U == {n \in 0..N : N - n \in S}
<1>1. U \in SUBSET Nat /\ U # {}
  <2>1. PICK y \in S : TRUE
    OBVIOUS
  <2>2. N - y \in 0..N /\ N - (N - y) = y
    OBVIOUS
  <2> QED
    BY <2>2
<1>2. Min(U) \in U /\ \A n \in U : Min(U) <= n
  <2> HIDE DEF U
  <2> QED
    BY <1>1, Least
<1>3. PICK m \in U : \A n \in U : m <= n
  <2> HIDE DEF U
  <2> QED
    BY <1>2
<1>4. \A y \in S : N - m >= y
  <2> TAKE y \in S
  <2>1. N - y \in U
    OBVIOUS
  <2>2. m <= N - y
    BY <1>3, <2>1
  <2> QED
    BY <2>2
<1>5. \E x \in S : \A y \in S : x >= y
  BY <1>4
<1>6. Max(S) \in S /\ \A y \in S : Max(S) >= y
  BY <1>5, Zenon DEF Max
<1> QED
  BY <1>6

-----------------------------------------------------------------------------
(* Lists: their types, what Only leaves of one, what FlattenSeq joins.      *)

\* A function on 1..n is a sequence of n elements.
LEMMA Listed ==
    ASSUME NEW R, NEW n \in Nat, NEW f \in [1..n -> R]
    PROVE  f \in Seq(R) /\ Len(f) = n
BY SeqDef

\* What the first i elements of s leave.
Keeps(f, s, S) ==
    /\ f[0] = <<>>
    /\ \A i \in 1..Len(s) : f[i] = IF s[i] \in S THEN Append(f[i - 1], s[i]) ELSE f[i - 1]

\* An element is added to what is left, or is not.
LEMMA OneKept ==
    ASSUME NEW R, NEW kept \in Seq(R), NEW e \in R, NEW S
    PROVE  (IF e \in S THEN Append(kept, e) ELSE kept) \in Seq(R)
BY AppendProperties

\* The function in which Only counts can be built up to every length.
LEMMA KeptExists ==
    ASSUME NEW R, NEW s \in Seq(R), NEW S
    PROVE  \E f \in [0..Len(s) -> Seq(R)] : Keeps(f, s, S)
<1> DEFINE N == Len(s)
           step == [x \in Seq(R) \X (1..N) |->
                      IF s[x[2]] \in S THEN Append(x[1], s[x[2]]) ELSE x[1]]
<1>1. N \in Nat /\ (\A i \in 1..N : s[i] \in R) /\ <<>> \in Seq(R)
  BY LenProperties, ElementOfSeq, EmptySeq
<1> HIDE DEF N
<1>2. \A v \in Seq(R), i \in 1..N :
         /\ step[<<v, i>>] = IF s[i] \in S THEN Append(v, s[i]) ELSE v
         /\ step[<<v, i>>] \in Seq(R)
  BY <1>1, OneKept
<1> HIDE DEF step
<1>3. PICK g \in [0..N -> Seq(R)] : Follows(g, <<>>, N, step)
  BY <1>1, <1>2, Recursion
<1>4. \A i \in 1..N : i - 1 \in 0..N
  BY <1>1
<1>5. Keeps(g, s, S)
  BY <1>2, <1>3, <1>4 DEF Follows, Keeps, N
<1> QED
  BY <1>5 DEF N

\* Only is what they leave together.
LEMMA OnlyIs ==
    ASSUME NEW R, NEW s \in Seq(R), NEW S
    PROVE  \E f \in [0..Len(s) -> Seq(R)] : Keeps(f, s, S) /\ Only(s, S) = f[Len(s)]
<1> DEFINE N == Len(s)
           Def(w) == w = [i \in 0..N |->
                            IF i = 0 THEN <<>>
                            ELSE IF s[i] \in S THEN Append(w[i - 1], s[i]) ELSE w[i - 1]]
           kept == CHOOSE w : Def(w)
           T == {n \in Nat : n <= N => kept[n] \in Seq(R)}
<1>1. N \in Nat /\ \A i \in 1..N : s[i] \in R
  BY LenProperties, ElementOfSeq
<1>2. PICK g \in [0..N -> Seq(R)] : Keeps(g, s, S)
  BY KeptExists
<1>3. Def(g)
  <2> HIDE DEF N
  <2>1. \A i \in 1..N : g[i] = IF s[i] \in S THEN Append(g[i - 1], s[i]) ELSE g[i - 1]
    BY <1>2 DEF Keeps, N
  <2>2. g[0] = <<>>
    BY <1>2 DEF Keeps
  <2>3. \A i \in 0..N : g[i] = IF i = 0 THEN <<>>
                             ELSE IF s[i] \in S THEN Append(g[i - 1], s[i]) ELSE g[i - 1]
    <3> TAKE i \in 0..N
    <3>1. i = 0 \/ (i # 0 /\ i \in 1..N)
      BY <1>1
    <3> QED
      BY <2>1, <2>2, <3>1, Zenon
  <2> QED
    BY <2>3
<1>4. Def(kept)
  <2> HIDE DEF Def
  <2> QED
    BY <1>3
<1>5. Only(s, S) = kept[N]
  BY DEF Only
<1> HIDE DEF kept, N
<1>6. /\ kept[0] = <<>>
      /\ \A i \in 1..N : kept[i] = IF s[i] \in S THEN Append(kept[i - 1], s[i]) ELSE kept[i - 1]
  <2>1. 0 \in 0..N /\ \A i \in 1..N : i \in 0..N /\ i # 0
    BY <1>1
  <2>2. \A i \in 0..N : kept[i] = IF i = 0 THEN <<>>
                                ELSE IF s[i] \in S THEN Append(kept[i - 1], s[i]) ELSE kept[i - 1]
    BY <1>4, Zenon
  <2> QED
    BY <2>1, <2>2, Zenon
<1>7. 0 \in T
  BY <1>6, EmptySeq
<1>8. ASSUME NEW n \in Nat, n \in T PROVE n + 1 \in T
  <2> SUFFICES ASSUME n + 1 <= N PROVE kept[n + 1] \in Seq(R)
    OBVIOUS
  <2>1. n + 1 \in 1..N /\ (n + 1) - 1 = n /\ kept[n] \in Seq(R)
    BY <1>1, <1>8
  <2>2. kept[n + 1] = IF s[n + 1] \in S THEN Append(kept[n], s[n + 1]) ELSE kept[n]
    BY <1>6, <2>1
  <2>3. s[n + 1] \in R
    BY <1>1, <2>1
  <2> QED
    BY <2>1, <2>2, <2>3, OneKept
<1>9. \A n \in Nat : n \in T
  <2> HIDE DEF T
  <2> QED
    BY <1>7, <1>8, Counting
<1>10. kept \in [0..N -> Seq(R)]
  <2>1. \A n \in 0..N : kept[n] \in Seq(R)
    BY <1>1, <1>9
  <2> QED
    BY <1>4, <2>1
<1>11. Keeps(kept, s, S)
  BY <1>6 DEF Keeps, N
<1> QED
  BY <1>5, <1>10, <1>11 DEF N

\* What a longer list leaves.
LEMMA OnlyAppend ==
    ASSUME NEW R, NEW s \in Seq(R), NEW e \in R, NEW S
    PROVE  Only(Append(s, e), S) = IF e \in S THEN Append(Only(s, S), e) ELSE Only(s, S)
<1> DEFINE u == Append(s, e)
<1>1. /\ u \in Seq(R) /\ Len(s) \in Nat /\ Len(u) = Len(s) + 1 /\ u[Len(s) + 1] = e
      /\ \A i \in 1..Len(s) : u[i] = s[i]
  BY AppendProperties, LenProperties
<1> HIDE DEF u
<1>2. PICK f \in [0..Len(s) -> Seq(R)] : Keeps(f, s, S) /\ Only(s, S) = f[Len(s)]
  BY OnlyIs
<1>3. PICK g \in [0..Len(u) -> Seq(R)] : Keeps(g, u, S) /\ Only(u, S) = g[Len(u)]
  BY <1>1, OnlyIs
<1> DEFINE T == {n \in Nat : n <= Len(s) => f[n] = g[n]}
<1>4. 0 \in T
  BY <1>2, <1>3 DEF Keeps
<1>5. ASSUME NEW n \in Nat, n \in T PROVE n + 1 \in T
  <2> SUFFICES ASSUME n + 1 <= Len(s) PROVE f[n + 1] = g[n + 1]
    OBVIOUS
  <2>1. /\ n + 1 \in 1..Len(s) /\ n + 1 \in 1..Len(u) /\ (n + 1) - 1 = n
        /\ f[n] = g[n] /\ u[n + 1] = s[n + 1]
    BY <1>1, <1>5
  <2>2. f[n + 1] = IF s[n + 1] \in S THEN Append(f[n], s[n + 1]) ELSE f[n]
    BY <1>2, <2>1 DEF Keeps
  <2>3. g[n + 1] = IF u[n + 1] \in S THEN Append(g[n], u[n + 1]) ELSE g[n]
    BY <1>3, <2>1 DEF Keeps
  <2> QED
    BY <2>1, <2>2, <2>3
<1>6. \A n \in Nat : n \in T
  <2> HIDE DEF T
  <2> QED
    BY <1>4, <1>5, Counting
<1>7. f[Len(s)] = g[Len(s)]
  BY <1>1, <1>6
<1>8. Len(u) \in 1..Len(u) /\ Len(u) - 1 = Len(s) /\ u[Len(u)] = e
  BY <1>1
<1>9. g[Len(u)] = IF e \in S THEN Append(g[Len(s)], e) ELSE g[Len(s)]
  BY <1>3, <1>8 DEF Keeps
<1> QED
  BY <1>2, <1>3, <1>7, <1>9 DEF u

LEMMA OnlyEmpty == \A S : Only(<<>>, S) = <<>>
<1> TAKE S
<1>1. <<>> \in Seq({}) /\ Len(<<>>) = 0
  BY EmptySeq
<1>2. PICK f \in [0..Len(<<>>) -> Seq({})] : Keeps(f, <<>>, S) /\ Only(<<>>, S) = f[Len(<<>>)]
  BY <1>1, OnlyIs
<1> QED
  BY <1>1, <1>2 DEF Keeps

\* A set that holds the empty list and with every list its extensions holds all lists.
LEMMA Extending ==
    ASSUME NEW R, NEW T, <<>> \in T,
           \A s \in Seq(R) : s \in T => \A e \in R : Append(s, e) \in T
    PROVE  \A s \in Seq(R) : s \in T
<1> DEFINE U == {n \in Nat : \A s \in Seq(R) : Len(s) = n => s \in T}
<1>1. 0 \in U
  BY EmptySeq
<1>2. ASSUME NEW n \in Nat, n \in U PROVE n + 1 \in U
  <2> SUFFICES ASSUME NEW s \in Seq(R), Len(s) = n + 1 PROVE s \in T
    OBVIOUS
  <2>1. PICK front \in Seq(R), e \in R : s = Append(front, e)
    BY SequenceEmptyOrAppend, EmptySeq
  <2>2. Len(front) = n
    BY <2>1, AppendProperties, LenProperties
  <2>3. front \in T
    BY <1>2, <2>2
  <2> QED
    BY <2>1, <2>3
<1>3. \A n \in Nat : n \in U
  <2> HIDE DEF U
  <2> QED
    BY <1>1, <1>2, Counting
<1> QED
  BY <1>3, LenProperties

\* What a list with one more element contains.
LEMMA Extended ==
    ASSUME NEW R, NEW s \in Seq(R), NEW e \in R
    PROVE  /\ Append(s, e) \in Seq(R)
           /\ \A x : Contains(Append(s, e), x) <=> Contains(s, x) \/ x = e
<1> DEFINE u == Append(s, e)
<1>1. /\ u \in Seq(R) /\ Len(s) \in Nat /\ Len(u) = Len(s) + 1 /\ u[Len(s) + 1] = e
      /\ \A i \in 1..Len(s) : u[i] = s[i]
  BY AppendProperties, LenProperties
<1> HIDE DEF u
<1> SUFFICES ASSUME NEW x PROVE Contains(u, x) <=> Contains(s, x) \/ x = e
  BY <1>1 DEF u
<1>2. \A i \in 1..Len(u) : i \in 1..Len(s) \/ i = Len(s) + 1
  BY <1>1
<1>3. Len(s) + 1 \in 1..Len(u) /\ \A i \in 1..Len(s) : i \in 1..Len(u)
  BY <1>1
<1> QED
  BY <1>1, <1>2, <1>3 DEF Contains

\* What is left is in the set, and was in the list.
LEMMA OnlyOf ==
    ASSUME NEW R, NEW S
    PROVE  \A s \in Seq(R) :
             Only(s, S) \in Seq(R \cap S) /\ \A e : Contains(Only(s, S), e) => Contains(s, e)
<1> DEFINE T == {s \in Seq(R) : /\ Only(s, S) \in Seq(R \cap S)
                                /\ \A e : Contains(Only(s, S), e) => Contains(s, e)}
<1>1. <<>> \in T
  <2>1. <<>> \in Seq(R) /\ <<>> \in Seq(R \cap S) /\ Len(<<>>) = 0
    BY EmptySeq
  <2>2. \A e : ~Contains(<<>>, e)
    BY <2>1 DEF Contains
  <2> QED
    BY <2>1, <2>2, OnlyEmpty
<1>2. ASSUME NEW s \in Seq(R), s \in T, NEW e \in R PROVE Append(s, e) \in T
  <2> DEFINE u == Append(s, e)
  <2>1. u \in Seq(R) /\ \A x : Contains(u, x) <=> Contains(s, x) \/ x = e
    BY Extended
  <2>2. CASE e \in S
    <3>1. Only(u, S) = Append(Only(s, S), e)
      BY <2>2, OnlyAppend
    <3>2. /\ Append(Only(s, S), e) \in Seq(R \cap S)
          /\ \A x : Contains(Append(Only(s, S), e), x) <=> Contains(Only(s, S), x) \/ x = e
      BY <1>2, <2>2, Extended
    <3>3. \A x : Contains(Only(s, S), x) => Contains(s, x)
      BY <1>2
    <3> HIDE DEF u
    <3>4. Only(u, S) \in Seq(R \cap S) /\ \A x : Contains(Only(u, S), x) => Contains(u, x)
      BY <2>1, <3>1, <3>2, <3>3, Zenon
    <3> QED
      BY <2>1, <3>4 DEF u
  <2>3. CASE e \notin S
    <3>1. Only(u, S) = Only(s, S)
      BY <2>3, OnlyAppend
    <3>2. Only(s, S) \in Seq(R \cap S) /\ \A x : Contains(Only(s, S), x) => Contains(s, x)
      BY <1>2
    <3> HIDE DEF u
    <3>3. Only(u, S) \in Seq(R \cap S) /\ \A x : Contains(Only(u, S), x) => Contains(u, x)
      BY <2>1, <3>1, <3>2, Zenon
    <3> QED
      BY <2>1, <3>3 DEF u
  <2> HIDE DEF u
  <2> QED
    BY <2>2, <2>3 DEF u
<1> HIDE DEF T
<1>3. \A s \in Seq(R) : s \in T
  BY <1>1, <1>2, Extending
<1> QED
  BY <1>3 DEF T

\* Taking the same again leaves everything, taking the others nothing.
LEMMA OnlyAgain ==
    ASSUME NEW R, NEW S
    PROVE  \A s \in Seq(R) : /\ R \subseteq S => Only(s, S) = s
                             /\ R \cap S = {} => Only(s, S) = <<>>
<1> DEFINE T == {s \in Seq(R) : /\ R \subseteq S => Only(s, S) = s
                                /\ R \cap S = {} => Only(s, S) = <<>>}
<1>1. <<>> \in T
  BY EmptySeq, OnlyEmpty
<1>2. ASSUME NEW s \in Seq(R), s \in T, NEW e \in R PROVE Append(s, e) \in T
  <2>1. Append(s, e) \in Seq(R)
    BY AppendProperties
  <2>2. Only(Append(s, e), S) = IF e \in S THEN Append(Only(s, S), e) ELSE Only(s, S)
    BY OnlyAppend
  <2> QED
    BY <1>2, <2>1, <2>2
<1> HIDE DEF T
<1>3. \A s \in Seq(R) : s \in T
  BY <1>1, <1>2, Extending
<1> QED
  BY <1>3 DEF T

\* A list none of whose elements is in the set leaves nothing.
LEMMA OnlyOthers ==
    ASSUME NEW R, NEW S, NEW s \in Seq(R), \A i \in 1..Len(s) : s[i] \notin S
    PROVE  Only(s, S) = <<>>
<1>1. \A i \in 1..Len(s) : s[i] \in R \ S
  BY ElementOfSeq
<1>2. s \in [1..Len(s) -> R \ S] /\ Len(s) \in Nat
  BY <1>1, LenProperties
<1>3. s \in Seq(R \ S) /\ (R \ S) \cap S = {}
  BY <1>2, Listed
<1> QED
  BY <1>3, OnlyAgain

\* Appending to the second of two sequences appends to both.
LEMMA ConcatAppend ==
    ASSUME NEW R, NEW s \in Seq(R), NEW t \in Seq(R), NEW e \in R
    PROVE  s \o Append(t, e) = Append(s \o t, e)
<1>1. <<e>> \in Seq(R)
  OBVIOUS
<1>2. s \o Append(t, e) = s \o (t \o <<e>>)
  BY AppendIsConcat
<1>3. (s \o t) \o <<e>> = s \o (t \o <<e>>)
  BY <1>1, ConcatAssociative
<1>4. s \o t \in Seq(R)
  BY ConcatProperties
<1>5. Append(s \o t, e) = (s \o t) \o <<e>>
  BY <1>4, AppendIsConcat
<1> QED
  BY <1>2, <1>3, <1>5

\* A list of two parts leaves what its parts leave.
LEMMA OnlyConcat ==
    ASSUME NEW R, NEW S, NEW s \in Seq(R)
    PROVE  \A t \in Seq(R) : Only(s \o t, S) = Only(s, S) \o Only(t, S)
<1> DEFINE T == {t \in Seq(R) : Only(s \o t, S) = Only(s, S) \o Only(t, S)}
<1>1. /\ Only(s, S) \in Seq(R)
      /\ \A t \in Seq(R) : Only(t, S) \in Seq(R)
  <2>1. \A t \in Seq(R) : Only(t, S) \in Seq(R \cap S)
    BY OnlyOf
  <2> QED
    BY <2>1, SeqMonotonic
<1>2. <<>> \in T
  <2>1. s \o <<>> = s /\ Only(s, S) \o <<>> = Only(s, S) /\ <<>> \in Seq(R)
    BY <1>1, ConcatEmptySeq, EmptySeq
  <2> QED
    BY <2>1, OnlyEmpty
<1>3. ASSUME NEW t \in Seq(R), t \in T, NEW e \in R PROVE Append(t, e) \in T
  <2>1. PICK u : u = Append(t, e)
    OBVIOUS
  <2>2. PICK w : w = s \o t
    OBVIOUS
  <2>3. u \in Seq(R) /\ w \in Seq(R) /\ s \o u = Append(w, e)
    BY <2>1, <2>2, ConcatAppend, AppendProperties, ConcatProperties
  <2>4. Only(Append(w, e), S) = IF e \in S THEN Append(Only(w, S), e) ELSE Only(w, S)
    BY <2>3, OnlyAppend
  <2>5. Only(u, S) = IF e \in S THEN Append(Only(t, S), e) ELSE Only(t, S)
    BY <2>1, OnlyAppend
  <2>6. Only(w, S) = Only(s, S) \o Only(t, S)
    BY <1>3, <2>2
  <2>7. Only(s, S) \o Append(Only(t, S), e) = Append(Only(s, S) \o Only(t, S), e)
    BY <1>1, ConcatAppend
  <2>8. Only(s \o u, S) = Only(s, S) \o Only(u, S)
    BY <2>3, <2>4, <2>5, <2>6, <2>7, Zenon
  <2>9. u \in T
    BY <2>3, <2>8
  <2> QED
    BY <2>1, <2>9
<1> HIDE DEF T
<1>4. \A t \in Seq(R) : t \in T
  BY <1>2, <1>3, Extending
<1> QED
  BY <1>4 DEF T

\* What the first i lists of ss make together.
Joins(f, ss) == f[1] = ss[1] /\ \A i \in 2..Len(ss) : f[i] = f[i - 1] \o ss[i]

\* The partial joins of FlattenSeq exist for every sequence of sequences.
LEMMA JoinExists ==
    ASSUME NEW R, NEW ss \in Seq(Seq(R))
    PROVE  \E f \in [1..Len(ss) -> Seq(R)] : Len(ss) > 0 => Joins(f, ss)
<1> DEFINE N == Len(ss)
           step == [x \in Seq(R) \X (1..N) |-> x[1] \o ss[x[2]]]
<1>1. N \in Nat /\ (\A i \in 1..N : ss[i] \in Seq(R)) /\ <<>> \in Seq(R)
  BY LenProperties, ElementOfSeq, EmptySeq
<1> HIDE DEF N
<1>2. \A v \in Seq(R), i \in 1..N : step[<<v, i>>] = v \o ss[i] /\ step[<<v, i>>] \in Seq(R)
  BY <1>1, ConcatProperties
<1> HIDE DEF step
<1>3. PICK g \in [0..N -> Seq(R)] : Follows(g, <<>>, N, step)
  BY <1>1, <1>2, Recursion
<1> DEFINE f == [i \in 1..N |-> g[i]]
<1>4. \A i \in 1..N : /\ i \in 0..N /\ i - 1 \in 0..N /\ f[i] = g[i] /\ g[i - 1] \in Seq(R)
                      /\ g[i] = g[i - 1] \o ss[i]
  <2> TAKE i \in 1..N
  <2>1. i \in 0..N /\ i - 1 \in 0..N
    BY <1>1
  <2>2. g[i] = step[<<g[i - 1], i>>] /\ g[i - 1] \in Seq(R)
    BY <1>3, <2>1 DEF Follows
  <2>3. g[i] = g[i - 1] \o ss[i]
    BY <1>2, <2>2
  <2> QED
    BY <2>1, <2>2, <2>3
<1>5. f \in [1..N -> Seq(R)]
  BY <1>4
<1> HIDE DEF f
<1>6. ASSUME N > 0 PROVE Joins(f, ss)
  <2>1. 1 \in 1..N /\ 1 - 1 = 0 /\ \A i \in 2..N : i \in 1..N /\ i - 1 \in 1..N
    BY <1>1, <1>6
  <2>2. f[1] = <<>> \o ss[1]
    BY <1>3, <1>4, <2>1 DEF Follows
  <2>3. f[1] = ss[1]
    BY <1>1, <2>1, <2>2, ConcatEmptySeq
  <2> QED
    BY <1>4, <2>1, <2>3 DEF Joins, N
<1> QED
  BY <1>5, <1>6 DEF N

\* FlattenSeq is what they make together.
LEMMA FlattenIs ==
    ASSUME NEW R, NEW ss \in Seq(Seq(R)), Len(ss) > 0
    PROVE  \E f \in [1..Len(ss) -> Seq(R)] : Joins(f, ss) /\ FlattenSeq(ss) = f[Len(ss)]
<1> DEFINE N == Len(ss)
           Def(w) == w = [i \in 1..N |-> IF i = 1 THEN ss[i] ELSE w[i - 1] \o ss[i]]
           whole == CHOOSE w : Def(w)
           T == {n \in Nat : n + 1 <= N => whole[n + 1] \in Seq(R)}
<1>1. N \in Nat /\ N > 0 /\ \A i \in 1..N : ss[i] \in Seq(R)
  BY LenProperties, ElementOfSeq
<1>2. PICK g \in [1..N -> Seq(R)] : Joins(g, ss)
  BY <1>1, JoinExists
<1>3. Def(g)
  <2> HIDE DEF N
  <2>1. \A i \in 1..N : i = 1 \/ (i # 1 /\ i \in 2..N)
    BY <1>1
  <2>2. \A i \in 2..N : g[i] = g[i - 1] \o ss[i]
    BY <1>2 DEF Joins, N
  <2>3. g[1] = ss[1]
    BY <1>2 DEF Joins
  <2>4. \A i \in 1..N : g[i] = IF i = 1 THEN ss[i] ELSE g[i - 1] \o ss[i]
    BY <2>1, <2>2, <2>3, Zenon
  <2> QED
    BY <2>4
<1>4. Def(whole)
  <2> HIDE DEF Def
  <2> QED
    BY <1>3
<1>5. FlattenSeq(ss) = whole[N]
  BY <1>1 DEF FlattenSeq
<1> HIDE DEF whole, N
<1>6. whole[1] = ss[1] /\ \A i \in 2..N : whole[i] = whole[i - 1] \o ss[i]
  <2>1. 1 \in 1..N /\ \A i \in 2..N : i \in 1..N /\ i # 1
    BY <1>1
  <2>2. \A i \in 1..N : whole[i] = IF i = 1 THEN ss[i] ELSE whole[i - 1] \o ss[i]
    BY <1>4, Zenon
  <2> QED
    BY <2>1, <2>2, Zenon
<1>7. 0 \in T
  BY <1>1, <1>6
<1>8. ASSUME NEW n \in Nat, n \in T PROVE n + 1 \in T
  <2> SUFFICES ASSUME (n + 1) + 1 <= N PROVE whole[(n + 1) + 1] \in Seq(R)
    OBVIOUS
  <2>1. (n + 1) + 1 \in 2..N /\ ((n + 1) + 1) - 1 = n + 1 /\ whole[n + 1] \in Seq(R)
    BY <1>1, <1>8
  <2>2. whole[(n + 1) + 1] = whole[n + 1] \o ss[(n + 1) + 1]
    BY <1>6, <2>1
  <2>3. ss[(n + 1) + 1] \in Seq(R)
    BY <1>1, <2>1
  <2> QED
    BY <2>1, <2>2, <2>3, ConcatProperties
<1>9. \A n \in Nat : n \in T
  <2> HIDE DEF T
  <2> QED
    BY <1>7, <1>8, Counting
<1>10. whole \in [1..N -> Seq(R)]
  <2>1. \A i \in 1..N : \E n \in Nat : i = n + 1 /\ n + 1 <= N
    <3> TAKE i \in 1..N
    <3>1. i - 1 \in Nat /\ i = (i - 1) + 1 /\ (i - 1) + 1 <= N
      BY <1>1
    <3> QED
      BY <3>1
  <2>2. \A i \in 1..N : whole[i] \in Seq(R)
    BY <1>9, <2>1
  <2> QED
    BY <1>4, <2>2
<1>11. Joins(whole, ss)
  BY <1>6 DEF Joins, N
<1> QED
  BY <1>5, <1>10, <1>11 DEF N

\* Lists joined are a list of the same elements.
LEMMA FlattenType ==
    ASSUME NEW R, NEW ss \in Seq(Seq(R))
    PROVE  FlattenSeq(ss) \in Seq(R)
<1>1. Len(ss) \in Nat
  BY LenProperties
<1>2. CASE Len(ss) = 0
  <2>1. ss = <<>> /\ <<>> \in Seq(R)
    BY <1>2, EmptySeq
  <2> QED
    BY <1>2, <2>1 DEF FlattenSeq
<1>3. CASE Len(ss) > 0
  <2>1. PICK f \in [1..Len(ss) -> Seq(R)] : FlattenSeq(ss) = f[Len(ss)]
    BY <1>3, FlattenIs
  <2>2. Len(ss) \in 1..Len(ss)
    BY <1>1, <1>3
  <2> QED
    BY <2>1, <2>2
<1> QED
  BY <1>1, <1>2, <1>3

\* Every element of s through F.
Mapped(F, s) == [i \in DOMAIN s |-> F[s[i]]]

LEMMA MappedType ==
    ASSUME NEW R, NEW Q, NEW F, \A e \in R : F[e] \in Q, NEW s \in Seq(R)
    PROVE  Mapped(F, s) \in Seq(Q)
<1>1. Len(s) \in Nat /\ DOMAIN s = 1..Len(s) /\ \A i \in 1..Len(s) : s[i] \in R
  BY LenProperties, ElementOfSeq
<1>2. Mapped(F, s) \in [1..Len(s) -> Q]
  BY <1>1 DEF Mapped
<1> QED
  BY ONLY <1>1, <1>2, Listed

LEMMA MappedIs ==
    ASSUME NEW R, NEW F, NEW s \in Seq(R)
    PROVE  Len(Mapped(F, s)) = Len(s) /\ \A i \in 1..Len(s) : Mapped(F, s)[i] = F[s[i]]
<1>1. Len(s) \in Nat /\ DOMAIN s = 1..Len(s)
  BY LenProperties
<1>2. Mapped(F, s) \in [1..Len(s) -> {F[s[i]] : i \in 1..Len(s)}]
  BY <1>1 DEF Mapped
<1>3. Len(Mapped(F, s)) = Len(s)
  BY ONLY <1>1, <1>2, Listed
<1> QED
  BY <1>1, <1>3 DEF Mapped

LEMMA MappedEmpty == \A F : Mapped(F, <<>>) = <<>>
<1> TAKE F
<1>1. DOMAIN <<>> = 1..0 /\ \A i \in 1..0 : FALSE
  OBVIOUS
<1>2. Mapped(F, <<>>) \in [1..0 -> {}]
  BY <1>1 DEF Mapped
<1>3. Mapped(F, <<>>) \in Seq({}) /\ Len(Mapped(F, <<>>)) = 0
  BY ONLY <1>2, Listed
<1> QED
  BY <1>3, EmptySeq

LEMMA MappedAppend ==
    ASSUME NEW R, NEW F, NEW s \in Seq(R), NEW e \in R
    PROVE  Mapped(F, Append(s, e)) = Append(Mapped(F, s), F[e])
<1> DEFINE Q == {F[x] : x \in R}
<1>1. \A x \in R : F[x] \in Q
  OBVIOUS
<1> HIDE DEF Q
<1>2. PICK u : u = Append(s, e)
  OBVIOUS
<1>3. /\ u \in Seq(R) /\ Len(s) \in Nat /\ Len(u) = Len(s) + 1 /\ u[Len(s) + 1] = e
      /\ \A i \in 1..Len(s) : u[i] = s[i]
  BY <1>2, AppendProperties, LenProperties
<1>4. PICK m : m = Mapped(F, s)
  OBVIOUS
<1>5. m \in Seq(Q) /\ Len(m) = Len(s) /\ F[e] \in Q /\ \A i \in 1..Len(s) : m[i] = F[s[i]]
  <2>1. /\ Mapped(F, s) \in Seq(Q) /\ Len(Mapped(F, s)) = Len(s)
        /\ \A i \in 1..Len(s) : Mapped(F, s)[i] = F[s[i]]
    BY <1>1, MappedIs, MappedType
  <2>2. F[e] \in Q
    BY <1>1
  <2> QED
    BY <1>4, <2>1, <2>2, Zenon
<1>6. PICK l : l = Mapped(F, u)
  OBVIOUS
<1>7. l \in Seq(Q) /\ Len(l) = Len(u) /\ \A i \in 1..Len(u) : l[i] = F[u[i]]
  <2>1. (\A x \in R : F[x] \in Q) /\ u \in Seq(R)
    BY <1>1, <1>3
  <2>2. /\ Mapped(F, u) \in Seq(Q) /\ Len(Mapped(F, u)) = Len(u)
        /\ \A i \in 1..Len(u) : Mapped(F, u)[i] = F[u[i]]
    <3>1. Mapped(F, u) \in Seq(Q)
      BY ONLY <2>1, MappedType
    <3>2. /\ Len(Mapped(F, u)) = Len(u)
          /\ \A i \in 1..Len(u) : Mapped(F, u)[i] = F[u[i]]
      BY ONLY <2>1, MappedIs
    <3> QED
      BY <3>1, <3>2
  <2> QED
    BY <1>6, <2>2, Zenon
<1>8. PICK r : r = Append(m, F[e])
  OBVIOUS
<1>9. /\ r \in Seq(Q) /\ Len(r) = Len(m) + 1 /\ r[Len(m) + 1] = F[e]
      /\ \A i \in 1..Len(m) : r[i] = m[i]
  BY <1>5, <1>8, AppendProperties
<1>10. \A i \in 1..Len(l) : l[i] = r[i]
  <2> TAKE i \in 1..Len(l)
  <2>1. i \in 1..Len(s) \/ i = Len(s) + 1
    BY <1>3, <1>7
  <2>2. l[i] = F[u[i]]
    BY <1>7
  <2> QED
    BY <1>3, <1>5, <1>9, <2>1, <2>2
<1>11. Len(l) = Len(r)
  BY <1>3, <1>5, <1>7, <1>9
<1>12. l = r
  BY <1>7, <1>9, <1>10, <1>11, SeqEqual
<1> QED
  BY <1>2, <1>4, <1>6, <1>8, <1>12

\* One list more to join.
LEMMA FlattenAppend ==
    ASSUME NEW R, NEW ss \in Seq(Seq(R)), NEW x \in Seq(R)
    PROVE  FlattenSeq(Append(ss, x)) = FlattenSeq(ss) \o x
<1>1. PICK u : u = Append(ss, x)
  OBVIOUS
<1>2. /\ u \in Seq(Seq(R)) /\ Len(ss) \in Nat /\ Len(u) = Len(ss) + 1 /\ u[Len(ss) + 1] = x
      /\ \A i \in 1..Len(ss) : u[i] = ss[i]
  BY <1>1, AppendProperties, LenProperties
<1>3. PICK g \in [1..Len(u) -> Seq(R)] : Joins(g, u) /\ FlattenSeq(u) = g[Len(u)]
  BY <1>2, FlattenIs
<1>4. CASE Len(ss) = 0
  <2>1. FlattenSeq(ss) = <<>>
    BY <1>2, <1>4, EmptySeq DEF FlattenSeq
  <2>2. FlattenSeq(u) = x
    BY <1>2, <1>3, <1>4 DEF Joins
  <2> QED
    BY <1>1, <2>1, <2>2, ConcatEmptySeq
<1>5. CASE Len(ss) > 0
  <2>1. PICK f \in [1..Len(ss) -> Seq(R)] : Joins(f, ss) /\ FlattenSeq(ss) = f[Len(ss)]
    BY <1>5, FlattenIs
  <2> DEFINE T == {n \in Nat : n + 1 <= Len(ss) => f[n + 1] = g[n + 1]}
  <2>2. 0 \in T
    BY <1>2, <1>3, <1>5, <2>1 DEF Joins
  <2>3. ASSUME NEW n \in Nat, n \in T PROVE n + 1 \in T
    <3> SUFFICES ASSUME (n + 1) + 1 <= Len(ss) PROVE f[(n + 1) + 1] = g[(n + 1) + 1]
      OBVIOUS
    <3>1. PICK m : m = (n + 1) + 1
      OBVIOUS
    <3>2. /\ m \in 2..Len(ss) /\ m \in 2..Len(u) /\ m - 1 = n + 1 /\ m \in 1..Len(ss)
          /\ n + 1 <= Len(ss)
      <4>1. Len(ss) \in Nat /\ Len(u) = Len(ss) + 1
        BY <1>2
      <4>2. m \in Nat /\ m = n + 2 /\ m <= Len(ss)
        BY <3>1
      <4> QED
        BY ONLY <4>1, <4>2, n \in Nat
    <3>4. f[n + 1] = g[n + 1]
      BY <2>3, <3>2
    <3>3. f[m] = f[m - 1] \o ss[m] /\ g[m] = g[m - 1] \o u[m] /\ u[m] = ss[m]
      BY <1>2, <1>3, <2>1, <3>2 DEF Joins
    <3> QED
      BY <3>1, <3>2, <3>3, <3>4
  <2>4. \A n \in Nat : n \in T
    <3> HIDE DEF T
    <3> QED
      BY <2>2, <2>3, Counting
  <2>5. f[Len(ss)] = g[Len(ss)]
    <3>1. PICK n \in Nat : n + 1 = Len(ss)
      <4>1. Len(ss) - 1 \in Nat /\ (Len(ss) - 1) + 1 = Len(ss)
        BY <1>2, <1>5
      <4> QED
        BY <4>1
    <3>2. n \in T
      BY <2>4
    <3> QED
      BY <1>2, <3>1, <3>2
  <2>6. Len(u) \in 2..Len(u) /\ Len(u) - 1 = Len(ss) /\ u[Len(u)] = x
    BY <1>2, <1>5
  <2>7. g[Len(u)] = g[Len(u) - 1] \o u[Len(u)]
    BY <1>3, <2>6 DEF Joins
  <2> QED
    BY <1>1, <1>3, <2>1, <2>5, <2>6, <2>7
<1> QED
  BY <1>2, <1>4, <1>5

\* Taking from what was made is making of what was taken.
LEMMA OnlyMapped ==
    ASSUME NEW R, NEW F, NEW A, NEW B, \A e \in R : F[e] \in B <=> e \in A
    PROVE  \A s \in Seq(R) : Only(Mapped(F, s), B) = Mapped(F, Only(s, A))
<1> DEFINE Q == {F[x] : x \in R}
           T == {s \in Seq(R) : Only(Mapped(F, s), B) = Mapped(F, Only(s, A))}
<1>1. \A x \in R : F[x] \in Q
  OBVIOUS
<1> HIDE DEF Q
<1>2. <<>> \in T
  BY EmptySeq, MappedEmpty, OnlyEmpty
<1>3. ASSUME NEW s \in Seq(R), s \in T, NEW e \in R PROVE Append(s, e) \in T
  <2>1. Append(s, e) \in Seq(R)
    BY AppendProperties
  <2>2. PICK m, kept : m = Mapped(F, s) /\ kept = Only(s, A)
    OBVIOUS
  <2>3. m \in Seq(Q) /\ F[e] \in Q
    BY <1>1, <2>2, MappedType
  <2>4. kept \in Seq(R)
    <3>1. kept \in Seq(R \cap A)
      BY <2>2, OnlyOf
    <3> QED
      BY <3>1, SeqMonotonic
  <2>5. Mapped(F, Append(s, e)) = Append(m, F[e])
    BY <2>2, MappedAppend
  <2>6. Only(Append(m, F[e]), B) = IF F[e] \in B THEN Append(Only(m, B), F[e]) ELSE Only(m, B)
    <3>1. PICK y : y = F[e]
      OBVIOUS
    <3>2. m \in Seq(Q) /\ y \in Q
      BY <2>3, <3>1
    <3>3. Only(Append(m, y), B) = IF y \in B THEN Append(Only(m, B), y) ELSE Only(m, B)
      BY ONLY <3>2, OnlyAppend
    <3> QED
      BY <3>1, <3>3
  <2>7. Only(Append(s, e), A) = IF e \in A THEN Append(kept, e) ELSE kept
    BY <2>2, OnlyAppend
  <2>8. Mapped(F, Append(kept, e)) = Append(Mapped(F, kept), F[e])
    BY <2>4, MappedAppend
  <2>9. Only(m, B) = Mapped(F, kept)
    BY <1>3, <2>2
  <2>10. Only(Mapped(F, Append(s, e)), B) = Mapped(F, Only(Append(s, e), A))
    BY <2>5, <2>6, <2>7, <2>8, <2>9
  <2> QED
    BY <2>1, <2>10
<1> HIDE DEF T
<1>4. \A s \in Seq(R) : s \in T
  BY <1>2, <1>3, Extending
<1> QED
  BY <1>4 DEF T

\* Filtering twice is filtering once, by what passes both.
LEMMA OnlyTwice ==
    ASSUME NEW R, NEW A, NEW B
    PROVE  \A s \in Seq(R) : Only(Only(s, A), B) = Only(s, A \cap B)
<1> DEFINE T == {s \in Seq(R) : Only(Only(s, A), B) = Only(s, A \cap B)}
<1>1. <<>> \in T
  BY EmptySeq, OnlyEmpty
<1>2. ASSUME NEW s \in Seq(R), s \in T, NEW e \in R PROVE Append(s, e) \in T
  <2>1. Append(s, e) \in Seq(R)
    BY AppendProperties
  <2>2. PICK kept : kept = Only(s, A)
    OBVIOUS
  <2>3. kept \in Seq(R)
    <3>1. kept \in Seq(R \cap A)
      BY <2>2, OnlyOf
    <3> QED
      BY <3>1, SeqMonotonic
  <2>4. Only(Append(s, e), A) = IF e \in A THEN Append(kept, e) ELSE kept
    BY <2>2, OnlyAppend
  <2>5. Only(Append(kept, e), B) = IF e \in B THEN Append(Only(kept, B), e) ELSE Only(kept, B)
    BY <2>3, OnlyAppend
  <2>6. Only(Append(s, e), A \cap B)
          = IF e \in A \cap B THEN Append(Only(s, A \cap B), e) ELSE Only(s, A \cap B)
    BY OnlyAppend
  <2>7. Only(kept, B) = Only(s, A \cap B)
    BY <1>2, <2>2
  <2>8. Only(Only(Append(s, e), A), B) = Only(Append(s, e), A \cap B)
    <3>1. CASE e \in A
      <4>1. Only(Only(Append(s, e), A), B) = Only(Append(kept, e), B)
        BY <2>4, <3>1
      <4>2. e \in A \cap B <=> e \in B
        BY <3>1
      <4> QED
        BY <2>5, <2>6, <2>7, <4>1, <4>2, Zenon
    <3>2. CASE e \notin A
      <4>1. Only(Append(s, e), A) = kept /\ e \notin A \cap B
        BY <2>4, <3>2
      <4> QED
        BY <2>6, <2>7, <4>1, Zenon
    <3> QED
      BY <3>1, <3>2
  <2> QED
    BY <2>1, <2>8
<1> HIDE DEF T
<1>3. \A s \in Seq(R) : s \in T
  BY <1>1, <1>2, Extending
<1> QED
  BY <1>3 DEF T

\* Sets that agree on what a sequence is made of leave the same of it.
LEMMA OnlySame ==
    ASSUME NEW R, NEW A, NEW B, \A e \in R : e \in A <=> e \in B
    PROVE  \A s \in Seq(R) : Only(s, A) = Only(s, B)
<1> DEFINE T == {s \in Seq(R) : Only(s, A) = Only(s, B)}
<1>1. <<>> \in T
  BY EmptySeq, OnlyEmpty
<1>2. ASSUME NEW s \in Seq(R), s \in T, NEW e \in R PROVE Append(s, e) \in T
  <2>1. Append(s, e) \in Seq(R)
    BY AppendProperties
  <2>2. Only(Append(s, e), A) = IF e \in A THEN Append(Only(s, A), e) ELSE Only(s, A)
    BY OnlyAppend
  <2>3. Only(Append(s, e), B) = IF e \in B THEN Append(Only(s, B), e) ELSE Only(s, B)
    BY OnlyAppend
  <2>4. Only(Append(s, e), A) = Only(Append(s, e), B)
    BY <1>2, <2>2, <2>3
  <2> QED
    BY <2>1, <2>4
<1> HIDE DEF T
<1>3. \A s \in Seq(R) : s \in T
  BY <1>1, <1>2, Extending
<1> QED
  BY <1>3 DEF T

\* Mapping two sequences one by one, or joined, is the same.
LEMMA MappedConcat ==
    ASSUME NEW R, NEW F, NEW s \in Seq(R)
    PROVE  \A t \in Seq(R) : Mapped(F, s \o t) = Mapped(F, s) \o Mapped(F, t)
<1> DEFINE Q == {F[x] : x \in R}
           T == {t \in Seq(R) : Mapped(F, s \o t) = Mapped(F, s) \o Mapped(F, t)}
<1>1. \A x \in R : F[x] \in Q
  OBVIOUS
<1> HIDE DEF Q
<1>2. PICK m \in Seq(Q) : m = Mapped(F, s)
  BY <1>1, MappedType
<1>3. <<>> \in T
  <2>1. s \o <<>> = s /\ m \o <<>> = m
    BY ConcatEmptySeq
  <2> QED
    BY <1>2, <2>1, EmptySeq, MappedEmpty
<1>4. ASSUME NEW t \in Seq(R), t \in T, NEW e \in R PROVE Append(t, e) \in T
  <2>1. Append(t, e) \in Seq(R) /\ s \o t \in Seq(R)
    BY AppendProperties, ConcatProperties
  <2>2. PICK n \in Seq(Q) : n = Mapped(F, t)
    BY <1>1, MappedType
  <2>3. PICK x \in Q : x = F[e]
    BY <1>1
  <2>4. Mapped(F, s \o Append(t, e)) = Append(Mapped(F, s \o t), x)
    <3>1. s \o Append(t, e) = Append(s \o t, e)
      BY ConcatAppend
    <3>2. Mapped(F, Append(s \o t, e)) = Append(Mapped(F, s \o t), F[e])
      BY <2>1, MappedAppend
    <3> QED
      BY <2>3, <3>1, <3>2
  <2>5. Mapped(F, s \o t) = m \o n
    BY <1>2, <1>4, <2>2
  <2>6. Mapped(F, Append(t, e)) = Append(n, x)
    BY <2>2, <2>3, MappedAppend
  <2>7. m \o Append(n, x) = Append(m \o n, x)
    BY ConcatAppend
  <2>8. Mapped(F, s \o Append(t, e)) = Mapped(F, s) \o Mapped(F, Append(t, e))
    BY <1>2, <2>4, <2>5, <2>6, <2>7
  <2> QED
    BY <2>1, <2>8
<1> HIDE DEF T
<1>5. \A t \in Seq(R) : t \in T
  BY <1>3, <1>4, Extending
<1> QED
  BY <1>5 DEF T

\* The second of two parts.
LEMMA AfterConcat ==
    ASSUME NEW R, NEW s \in Seq(R), NEW t \in Seq(R)
    PROVE  SubSeq(s \o t, Len(s) + 1, Len(s \o t)) = t
<1>1. PICK w : w = s \o t
  OBVIOUS
<1>2. /\ w \in Seq(R) /\ Len(w) = Len(s) + Len(t) /\ Len(s) \in Nat /\ Len(t) \in Nat
      /\ \A i \in 1..(Len(s) + Len(t)) : w[i] = IF i <= Len(s) THEN s[i] ELSE t[i - Len(s)]
  BY <1>1, ConcatProperties, LenProperties
<1>3. PICK u : u = SubSeq(w, Len(s) + 1, Len(w))
  OBVIOUS
<1>4. /\ u \in Seq(R)
      /\ Len(u) = IF Len(s) + 1 <= Len(w) THEN Len(w) - (Len(s) + 1) + 1 ELSE 0
      /\ \A i \in 1..(Len(w) - (Len(s) + 1) + 1) : u[i] = w[(Len(s) + 1) + i - 1]
  <2>1. \A i \in (Len(s) + 1)..Len(w) : w[i] \in R
    BY <1>2, ElementOfSeq
  <2>2. Len(s) + 1 \in Int /\ Len(w) \in Int
    BY <1>2
  <2> QED
    BY <1>3, <2>1, <2>2, SubSeqProperties
<1>5. Len(u) = Len(t)
  BY <1>2, <1>4
<1>6. \A i \in 1..Len(u) : u[i] = t[i]
  <2> TAKE i \in 1..Len(u)
  <2>1. /\ i \in 1..(Len(w) - (Len(s) + 1) + 1) /\ (Len(s) + 1) + i - 1 = Len(s) + i
        /\ Len(s) + i \in 1..(Len(s) + Len(t)) /\ ~(Len(s) + i <= Len(s))
        /\ (Len(s) + i) - Len(s) = i
    BY <1>2, <1>5
  <2> QED
    BY <1>2, <1>4, <2>1
<1>7. u = t
  BY <1>4, <1>5, <1>6, SeqEqual
<1> QED
  BY <1>1, <1>3, <1>7

\* What holds of the end, and of a place when it holds of every place after it, holds
\* everywhere.
LEMMA Backwards ==
    ASSUME NEW T, NEW N \in Nat, N + 1 \in T,
           \A p \in 1..N : (\A q \in (p + 1)..(N + 1) : q \in T) => p \in T
    PROVE  \A p \in 1..(N + 1) : p \in T
<1> DEFINE U == {n \in Nat : \A q \in 1..(N + 1) : N + 1 <= q + n => q \in T}
<1>1. 0 \in U
  <2>1. \A q \in 1..(N + 1) : N + 1 <= q + 0 => q = N + 1
    OBVIOUS
  <2> QED
    BY <2>1
<1>2. ASSUME NEW n \in Nat, n \in U PROVE n + 1 \in U
  <2> SUFFICES ASSUME NEW p \in 1..(N + 1), N + 1 <= p + (n + 1) PROVE p \in T
    OBVIOUS
  <2>1. CASE p = N + 1
    BY <2>1
  <2>2. CASE p # N + 1
    <3>1. p \in 1..N /\ \A q \in (p + 1)..(N + 1) : q \in 1..(N + 1) /\ N + 1 <= q + n
      BY <2>2
    <3>2. \A q \in (p + 1)..(N + 1) : q \in T
      BY <1>2, <3>1
    <3> QED
      BY <3>1, <3>2
  <2> QED
    BY <2>1, <2>2
<1>3. \A n \in Nat : n \in U
  <2> HIDE DEF U
  <2> QED
    BY <1>1, <1>2, Counting
<1>4. \A q \in 1..(N + 1) : N + 1 <= q + N
  OBVIOUS
<1> QED
  BY <1>3, <1>4

\* Pieces put one before the other from the end on: each place has its own piece, and
\* jumps to the place of the next.
Jumps(jump, N) == \A p \in 1..N : jump[p] \in Nat \ {0} /\ p + jump[p] <= N + 1
Chained(f, first, N, piece, jump) ==
    f[N + 1] = <<>> /\ \A p \in first..N : f[p] = piece[p] \o f[p + jump[p]]

\* A walk that only jumps forward can be followed back from its end.
LEMMA ChainExists ==
    ASSUME NEW R, NEW N \in Nat, NEW piece, NEW jump, Jumps(jump, N),
           \A p \in 1..N : piece[p] \in Seq(R)
    PROVE  \E f \in [1..(N + 1) -> Seq(R)] : Chained(f, 1, N, piece, jump)
<1> DEFINE From(n) == \E f \in [n..(N + 1) -> Seq(R)] : Chained(f, n, N, piece, jump)
           T == {n \in 1..(N + 1) : From(n)}
<1>1. N + 1 \in T
  <2>1. <<>> \in Seq(R)
    BY EmptySeq
  <2> DEFINE f == [p \in (N + 1)..(N + 1) |-> <<>>]
  <2>2. f \in [(N + 1)..(N + 1) -> Seq(R)] /\ f[N + 1] = <<>> /\ (N + 1)..N = {}
    BY <2>1
  <2> HIDE DEF f
  <2>3. Chained(f, N + 1, N, piece, jump)
    BY <2>2 DEF Chained
  <2>4. From(N + 1)
    BY <2>2, <2>3
  <2> HIDE DEF From
  <2> QED
    BY <2>4
<1>2. ASSUME NEW p \in 1..N, \A q \in (p + 1)..(N + 1) : q \in T PROVE p \in T
  <2>1. PICK g \in [(p + 1)..(N + 1) -> Seq(R)] : Chained(g, p + 1, N, piece, jump)
    <3>1. From(p + 1)
      <4> HIDE DEF From
      <4>1. p + 1 \in (p + 1)..(N + 1)
        OBVIOUS
      <4> QED
        BY <1>2, <4>1
    <3> QED
      BY <3>1
  <2>2. PICK next \in (p + 1)..(N + 1) : next = p + jump[p]
    BY DEF Jumps
  <2>3. PICK joined \in Seq(R) : joined = piece[p] \o g[next]
    BY ConcatProperties
  <2> DEFINE h == [q \in p..(N + 1) |-> IF q = p THEN joined ELSE g[q]]
  <2>4. /\ h \in [p..(N + 1) -> Seq(R)] /\ h[p] = joined
        /\ \A q \in (p + 1)..(N + 1) : h[q] = g[q]
    OBVIOUS
  <2> HIDE DEF h
  <2>5. h[p] = piece[p] \o h[p + jump[p]]
    BY <2>2, <2>3, <2>4
  <2>6. \A q \in (p + 1)..N : h[q] = piece[q] \o h[q + jump[q]]
    <3> TAKE q \in (p + 1)..N
    <3>1. q \in (p + 1)..(N + 1) /\ q \in 1..N
      OBVIOUS
    <3>2. q + jump[q] \in (p + 1)..(N + 1)
      BY <3>1 DEF Jumps
    <3>3. g[q] = piece[q] \o g[q + jump[q]]
      BY <2>1 DEF Chained
    <3> QED
      BY <2>4, <3>1, <3>2, <3>3
  <2>7. h[N + 1] = <<>>
    BY <2>1, <2>4 DEF Chained
  <2>8. \A q \in p..N : q = p \/ q \in (p + 1)..N
    OBVIOUS
  <2>9. Chained(h, p, N, piece, jump)
    BY <2>5, <2>6, <2>7, <2>8 DEF Chained
  <2>10. From(p)
    BY <2>4, <2>9
  <2> HIDE DEF From
  <2> QED
    BY <2>10
<1> HIDE DEF From
<1>3. \A p \in 1..(N + 1) : p \in T
  <2> HIDE DEF T
  <2> QED
    BY <1>1, <1>2, Backwards
<1>4. From(1)
  <2>1. 1 \in 1..(N + 1)
    OBVIOUS
  <2> QED
    BY <1>3, <2>1
<1> QED
  BY <1>4 DEF From

\* A recursive function of that form is such a chain.
LEMMA ChainIs ==
    ASSUME NEW R, NEW N \in Nat, NEW piece, NEW jump, Jumps(jump, N),
           \A p \in 1..N : piece[p] \in Seq(R),
           NEW w, w = [p \in 1..(N + 1) |-> IF p > N THEN <<>> ELSE piece[p] \o w[p + jump[p]]]
    PROVE  w \in [1..(N + 1) -> Seq(R)] /\ Chained(w, 1, N, piece, jump)
<1> DEFINE T == {p \in 1..(N + 1) : w[p] \in Seq(R)}
<1>1. N + 1 \in 1..(N + 1) /\ N + 1 > N /\ \A p \in 1..N : p \in 1..(N + 1) /\ ~(p > N)
  OBVIOUS
<1>2. w[N + 1] = <<>> /\ \A p \in 1..N : w[p] = piece[p] \o w[p + jump[p]]
  <2>1. \A p \in 1..(N + 1) : w[p] = IF p > N THEN <<>> ELSE piece[p] \o w[p + jump[p]]
    BY Zenon
  <2> QED
    BY <1>1, <2>1, Zenon
<1>3. N + 1 \in T
  BY <1>1, <1>2, EmptySeq
<1>4. ASSUME NEW p \in 1..N, \A q \in (p + 1)..(N + 1) : q \in T PROVE p \in T
  <2>1. PICK next \in (p + 1)..(N + 1) : next = p + jump[p]
    BY DEF Jumps
  <2>2. w[next] \in Seq(R) /\ w[p] = piece[p] \o w[next]
    BY <1>2, <1>4, <2>1
  <2>3. PICK a \in Seq(R), b \in Seq(R) : a = piece[p] /\ b = w[next]
    BY <2>2
  <2>4. a \o b \in Seq(R)
    BY ONLY a \in Seq(R), b \in Seq(R), ConcatProperties
  <2>5. w[p] \in Seq(R)
    BY <2>2, <2>3, <2>4
  <2> QED
    BY <1>1, <2>5
<1>5. \A p \in 1..(N + 1) : p \in T
  <2> HIDE DEF T
  <2> QED
    BY <1>3, <1>4, Backwards
<1>6. \A p \in 1..(N + 1) : w[p] \in Seq(R)
  BY <1>5
<1>7. w \in [1..(N + 1) -> Seq(R)]
  BY <1>6
<1> QED
  BY <1>2, <1>7 DEF Chained

-----------------------------------------------------------------------------
(* FILETIME (utils.hpp).                                                   *)

LEMMA SplitTicks ==
    ASSUME NEW n \in Nat
    PROVE  Ticks(Split(n)) = n
<1>1. Word \in Nat \ {0}
  BY FileTimeAssumption
<1>2. n = (n \div Word) * Word + (n % Word)
  BY <1>1
<1> QED
  BY <1>2 DEF Ticks, Split

LEMMA Quotients ==
    ASSUME NEW n \in Nat, NEW k \in Nat \ {0}
    PROVE  /\ n \div k \in Nat
           /\ n - ((n \div k) * k) \in 0..(k - 1)
           /\ (n * k) \div k = n
           /\ \A m \in Nat : n < m => n % m = n
OBVIOUS

\* What a date is after the way there and back: seconds in, the same seconds out.
LEMMA DateRoundTrip ==
    ASSUME NEW t \in Dates, ~IsUnsetFileTime(TimeToFileTime(t))
    PROVE  /\ Ticks(TimeToFileTime(t)) = AtUnixEpoch + (t * TicksPerSecond)
           /\ FileTimeToTime(TimeToFileTime(t)) = t
<1> DEFINE ft == TimeToFileTime(t)
           n == AtUnixEpoch + (t * TicksPerSecond)
<1>1. /\ Word \in Nat \ {0} /\ TicksPerSecond \in Nat \ {0} /\ EpochSeconds \in Nat
      /\ t \in Nat /\ n < Word * Word
  BY FileTimeAssumption DEF Dates
<1>2. AtUnixEpoch \in Nat /\ t * TicksPerSecond \in Nat /\ Word * Word \in Nat
  BY <1>1 DEF AtUnixEpoch
<1>3. n \in Nat /\ ~(n < AtUnixEpoch) /\ n - AtUnixEpoch = t * TicksPerSecond
  BY <1>2
<1>4. n % (Word * Word) = n
  <2> HIDE DEF n
  <2> QED
    BY <1>1, <1>2, <1>3, Quotients
<1>5. Ticks(ft) = n
  BY <1>3, <1>4, SplitTicks DEF TimeToFileTime
<1>6. (t * TicksPerSecond) \div TicksPerSecond = t
  BY <1>1, Quotients
<1> HIDE DEF ft
<1>7. ~IsUnsetFileTime(ft)
  BY DEF ft
<1>8. FileTimeToTime(ft) = t
  BY <1>3, <1>5, <1>6, <1>7 DEF FileTimeToTime
<1> QED
  BY <1>5, <1>8 DEF ft

\* The seconds of a date of any time are less than a second away from it.
LEMMA WithinASecond ==
    ASSUME NEW ft, Ticks(ft) \in Nat, ~IsUnsetFileTime(ft)
    PROVE  LET off == Ticks(ft) - AtUnixEpoch - (FileTimeToTime(ft) * TicksPerSecond)
           IN  -TicksPerSecond < off /\ off < TicksPerSecond
<1> DEFINE k == TicksPerSecond
           n == Ticks(ft)
           a == AtUnixEpoch
<1>1. k \in Nat \ {0} /\ a \in Nat /\ n \in Nat
  BY FileTimeAssumption DEF AtUnixEpoch
<1> HIDE DEF k, n, a
<1>2. CASE n < a
  <2>1. PICK m \in Nat : m = a - n
    BY <1>1, <1>2
  <2>2. FileTimeToTime(ft) = -(m \div k)
    BY <1>2, <2>1 DEF FileTimeToTime, n, a, k
  <2>3. m \div k \in Nat /\ m - ((m \div k) * k) \in 0..(k - 1)
    BY <1>1, Quotients
  <2>4. PICK q \in Nat : q = m \div k
    BY <2>3
  <2>5. (-q) * k = -(q * k) /\ q * k \in Nat
    BY <1>1
  <2>6. n - a - (FileTimeToTime(ft) * k) = -(m - q * k)
    BY <1>1, <2>1, <2>2, <2>4, <2>5
  <2> QED
    BY <1>1, <2>3, <2>4, <2>6, <2>5 DEF n, a, k
<1>3. CASE ~(n < a)
  <2>1. PICK m \in Nat : m = n - a
    BY <1>1, <1>3
  <2>2. FileTimeToTime(ft) = m \div k
    BY <1>3, <2>1 DEF FileTimeToTime, n, a, k
  <2>3. m \div k \in Nat /\ m - ((m \div k) * k) \in 0..(k - 1)
    BY <1>1, Quotients
  <2>4. n - a - (FileTimeToTime(ft) * k) \in 0..(k - 1)
    BY <2>1, <2>2, <2>3
  <2> QED
    BY <1>1, <2>4 DEF n, a, k
<1> QED
  BY <1>2, <1>3

-----------------------------------------------------------------------------
(* Paths, and the lines of the adb server (adbutils.hpp, adbproto.hpp).     *)

Accs(R) == [all : Seq(Seq(R)), run : Seq(R)]
NoAcc   == [all |-> <<>>, run |-> <<>>]

\* What one more element makes of the runs before it.
Grown(acc, e, separators) ==
    IF e \notin separators THEN [acc EXCEPT !.run = Append(@, e)]
    ELSE IF acc.run = <<>> THEN acc
    ELSE [all |-> Append(acc.all, acc.run), run |-> <<>>]

\* One more element keeps the runs and the word being read of their type.
LEMMA GrownType ==
    ASSUME NEW R, NEW acc \in Accs(R), NEW e \in R, NEW separators
    PROVE  Grown(acc, e, separators) \in Accs(R)
<1>1. acc.all \in Seq(Seq(R)) /\ acc.run \in Seq(R) /\ <<>> \in Seq(R)
  BY EmptySeq DEF Accs
<1>2. Append(acc.run, e) \in Seq(R) /\ Append(acc.all, acc.run) \in Seq(Seq(R))
  BY <1>1, AppendProperties
<1> QED
  BY <1>1, <1>2 DEF Grown, Accs

Grows(f, s, separators) ==
    f[0] = NoAcc /\ \A i \in 1..Len(s) : f[i] = Grown(f[i - 1], s[i], separators)

\* The reading of a sequence element by element exists.
LEMMA GrowthExists ==
    ASSUME NEW R, NEW s \in Seq(R), NEW separators
    PROVE  \E f \in [0..Len(s) -> Accs(R)] : Grows(f, s, separators)
<1> DEFINE N == Len(s)
           step == [x \in Accs(R) \X (1..N) |-> Grown(x[1], s[x[2]], separators)]
<1>1. N \in Nat /\ (\A i \in 1..N : s[i] \in R) /\ NoAcc \in Accs(R)
  BY LenProperties, ElementOfSeq, EmptySeq DEF Accs, NoAcc
<1> HIDE DEF N
<1>2. \A v \in Accs(R), i \in 1..N : /\ step[<<v, i>>] = Grown(v, s[i], separators)
                                    /\ step[<<v, i>>] \in Accs(R)
  BY <1>1, GrownType
<1> HIDE DEF step
<1>3. PICK g \in [0..N -> Accs(R)] : Follows(g, NoAcc, N, step)
  BY <1>1, <1>2, Recursion
<1>4. \A i \in 1..N : i - 1 \in 0..N
  BY <1>1
<1>5. Grows(g, s, separators)
  BY <1>2, <1>3, <1>4 DEF Follows, Grows, N
<1> QED
  BY <1>5 DEF N

\* The runs after the last element: the finished ones, and the one still open.
End(s, separators) ==
    LET acc[i \in 0..Len(s)] == IF i = 0 THEN NoAcc ELSE Grown(acc[i - 1], s[i], separators)
    IN  acc[Len(s)]

Finished(acc) == IF acc.run = <<>> THEN acc.all ELSE Append(acc.all, acc.run)

\* The reading that Runs ends with is that of one such function.
LEMMA EndIs ==
    ASSUME NEW R, NEW s \in Seq(R), NEW separators
    PROVE  /\ \E f \in [0..Len(s) -> Accs(R)] :
                Grows(f, s, separators) /\ End(s, separators) = f[Len(s)]
           /\ Runs(s, separators) = Finished(End(s, separators))
<1> DEFINE N == Len(s)
           Raw(w) == w = [i \in 0..N |->
                            LET before == w[i - 1]
                            IN  IF i = 0 THEN [all |-> <<>>, run |-> <<>>]
                                ELSE IF s[i] \notin separators
                                     THEN [before EXCEPT !.run = Append(@, s[i])]
                                ELSE IF before.run = <<>> THEN before
                                ELSE [all |-> Append(before.all, before.run), run |-> <<>>]]
           raw == CHOOSE w : Raw(w)
           Def(w) == w = [i \in 0..N |-> IF i = 0 THEN NoAcc
                                         ELSE Grown(w[i - 1], s[i], separators)]
           acc == CHOOSE w : Def(w)
           T == {n \in Nat : n <= N => acc[n] \in Accs(R)}
<1>1. N \in Nat /\ \A i \in 1..N : s[i] \in R
  BY LenProperties, ElementOfSeq
<1>2. PICK g \in [0..N -> Accs(R)] : Grows(g, s, separators)
  BY GrowthExists
<1>3. \A w : Raw(w) <=> Def(w)
  BY Zenon DEF Grown, NoAcc
<1>4. /\ Runs(s, separators) = IF raw[N].run = <<>> THEN raw[N].all ELSE Append(raw[N].all, raw[N].run)
      /\ End(s, separators) = acc[N]
  BY DEF Runs, End
<1> HIDE DEF Raw
<1>5. Def(g)
  <2> HIDE DEF N
  <2>1. \A i \in 0..N : i = 0 \/ (i # 0 /\ i \in 1..N)
    BY <1>1
  <2>2. g[0] = NoAcc /\ \A i \in 1..N : g[i] = Grown(g[i - 1], s[i], separators)
    BY <1>2 DEF Grows, N
  <2>3. \A i \in 0..N : g[i] = IF i = 0 THEN NoAcc ELSE Grown(g[i - 1], s[i], separators)
    BY <2>1, <2>2, Zenon
  <2> QED
    BY <2>3
<1> HIDE DEF Def
<1>6. Def(acc) /\ Def(raw)
  BY <1>3, <1>5
<1> HIDE DEF acc, raw, N
<1>7. \A w : Def(w) => w = [i \in 0..N |-> IF i = 0 THEN NoAcc ELSE Grown(w[i - 1], s[i], separators)]
  BY Zenon DEF Def
<1>8. \A w : Def(w) => w[0] = NoAcc /\ \A i \in 1..N : w[i] = Grown(w[i - 1], s[i], separators)
  <2> TAKE w
  <2> HAVE Def(w)
  <2>1. 0 \in 0..N /\ \A i \in 1..N : i \in 0..N /\ i # 0
    BY <1>1
  <2>2. w = [i \in 0..N |-> IF i = 0 THEN NoAcc ELSE Grown(w[i - 1], s[i], separators)]
    BY <1>7, Zenon
  <2>3. \A i \in 0..N : w[i] = IF i = 0 THEN NoAcc ELSE Grown(w[i - 1], s[i], separators)
    BY <2>2, Zenon
  <2> QED
    BY <2>1, <2>3, Zenon
<1> DEFINE Same == {n \in Nat : n <= N => acc[n] = g[n] /\ raw[n] = g[n]}
<1>9. 0 \in Same
  BY <1>5, <1>6, <1>8
<1>10. ASSUME NEW n \in Nat, n \in Same PROVE n + 1 \in Same
  <2> SUFFICES ASSUME n + 1 <= N PROVE acc[n + 1] = g[n + 1] /\ raw[n + 1] = g[n + 1]
    OBVIOUS
  <2>1. n + 1 \in 1..N /\ (n + 1) - 1 = n /\ acc[n] = g[n] /\ raw[n] = g[n]
    BY <1>1, <1>10
  <2>2. \A w : Def(w) => w[n + 1] = Grown(w[n], s[n + 1], separators)
    BY <1>8, <2>1
  <2>3. /\ acc[n + 1] = Grown(acc[n], s[n + 1], separators)
        /\ raw[n + 1] = Grown(raw[n], s[n + 1], separators)
        /\ g[n + 1] = Grown(g[n], s[n + 1], separators)
    BY <1>5, <1>6, <2>2, Zenon
  <2> QED
    BY <2>1, <2>3, Zenon
<1>11. \A n \in Nat : n \in Same
  <2> HIDE DEF Same
  <2> QED
    BY <1>9, <1>10, Counting
<1>12. acc[N] = g[N] /\ raw[N] = g[N]
  BY <1>1, <1>11
<1>13. Runs(s, separators) = Finished(End(s, separators))
  BY <1>4, <1>12, Zenon DEF Finished
<1> QED
  BY <1>2, <1>4, <1>12, <1>13 DEF N

LEMMA EndEmpty == \A separators : End(<<>>, separators) = NoAcc
<1> TAKE separators
<1>1. <<>> \in Seq({}) /\ Len(<<>>) = 0
  BY EmptySeq
<1>2. PICK f \in [0..Len(<<>>) -> Accs({})] :
        Grows(f, <<>>, separators) /\ End(<<>>, separators) = f[Len(<<>>)]
  BY <1>1, EndIs
<1> QED
  BY <1>1, <1>2 DEF Grows

\* What a reading ends with has its type.
LEMMA EndType ==
    ASSUME NEW R, NEW s \in Seq(R), NEW separators
    PROVE  End(s, separators) \in Accs(R)
<1>1. PICK f \in [0..Len(s) -> Accs(R)] : End(s, separators) = f[Len(s)]
  BY EndIs
<1>2. Len(s) \in 0..Len(s)
  BY LenProperties
<1> QED
  BY <1>1, <1>2

\* One more element is one more step of the reading.
LEMMA EndAppend ==
    ASSUME NEW R, NEW s \in Seq(R), NEW e \in R, NEW separators
    PROVE  End(Append(s, e), separators) = Grown(End(s, separators), e, separators)
<1>1. PICK u : u = Append(s, e)
  OBVIOUS
<1>2. /\ u \in Seq(R) /\ Len(s) \in Nat /\ Len(u) = Len(s) + 1 /\ u[Len(s) + 1] = e
      /\ \A i \in 1..Len(s) : u[i] = s[i]
  BY <1>1, AppendProperties, LenProperties
<1>3. PICK f \in [0..Len(s) -> Accs(R)] :
        Grows(f, s, separators) /\ End(s, separators) = f[Len(s)]
  BY EndIs
<1>4. PICK g \in [0..Len(u) -> Accs(R)] :
        Grows(g, u, separators) /\ End(u, separators) = g[Len(u)]
  BY <1>2, EndIs
<1> DEFINE T == {n \in Nat : n <= Len(s) => f[n] = g[n]}
<1>5. 0 \in T
  BY <1>3, <1>4 DEF Grows
<1>6. ASSUME NEW n \in Nat, n \in T PROVE n + 1 \in T
  <2> SUFFICES ASSUME n + 1 <= Len(s) PROVE f[n + 1] = g[n + 1]
    OBVIOUS
  <2>1. /\ n + 1 \in 1..Len(s) /\ n + 1 \in 1..Len(u) /\ (n + 1) - 1 = n
        /\ f[n] = g[n] /\ u[n + 1] = s[n + 1]
    BY <1>2, <1>6
  <2>2. /\ f[n + 1] = Grown(f[n], s[n + 1], separators)
        /\ g[n + 1] = Grown(g[n], u[n + 1], separators)
    BY <1>3, <1>4, <2>1 DEF Grows
  <2> QED
    BY <2>1, <2>2, Zenon
<1>7. \A n \in Nat : n \in T
  <2> HIDE DEF T
  <2> QED
    BY <1>5, <1>6, Counting
<1>8. f[Len(s)] = g[Len(s)]
  BY <1>2, <1>7
<1>9. Len(u) \in 1..Len(u) /\ Len(u) - 1 = Len(s) /\ u[Len(u)] = e
  BY <1>2
<1>10. g[Len(u)] = Grown(g[Len(s)], e, separators)
  BY <1>4, <1>9 DEF Grows
<1> QED
  BY <1>1, <1>3, <1>4, <1>8, <1>10, Zenon

\* The text s reads as the list of runs all and an open one.
Reads(R, s, separators, all, run) ==
    /\ s \in Seq(R) /\ all \in Seq(Seq(R)) /\ run \in Seq(R)
    /\ End(s, separators) = [all |-> all, run |-> run]

\* An empty sequence has no words.
LEMMA ReadNothing == \A R, separators : Reads(R, <<>>, separators, <<>>, <<>>)
<1> TAKE R, separators
<1>1. <<>> \in Seq(R) /\ <<>> \in Seq(Seq(R))
  BY EmptySeq
<1> QED
  BY <1>1, EndEmpty DEF Reads, NoAcc

\* A word goes on with the run that is open.
LEMMA ReadWord ==
    ASSUME NEW R, NEW s, NEW separators, NEW all, NEW run, Reads(R, s, separators, all, run)
    PROVE  \A w \in Seq(R \ separators) : Reads(R, s \o w, separators, all, run \o w)
<1> DEFINE T == {w \in Seq(R \ separators) : Reads(R, s \o w, separators, all, run \o w)}
<1>1. /\ s \in Seq(R) /\ all \in Seq(Seq(R)) /\ run \in Seq(R)
      /\ End(s, separators) = [all |-> all, run |-> run]
  BY DEF Reads
<1>2. <<>> \in T
  <2>1. s \o <<>> = s /\ run \o <<>> = run /\ <<>> \in Seq(R \ separators)
    BY <1>1, ConcatEmptySeq, EmptySeq
  <2> QED
    BY <2>1
<1>3. ASSUME NEW w \in Seq(R \ separators), w \in T, NEW e \in R \ separators
      PROVE  Append(w, e) \in T
  <2>1. w \in Seq(R) /\ e \in R /\ Append(w, e) \in Seq(R \ separators)
    BY SeqMonotonic, AppendProperties
  <2>2. PICK t : t = s \o w
    OBVIOUS
  <2>3. PICK r : r = run \o w
    OBVIOUS
  <2>4. t \in Seq(R) /\ r \in Seq(R) /\ End(t, separators) = [all |-> all, run |-> r]
    BY <1>3, <2>2, <2>3 DEF Reads
  <2>5. s \o Append(w, e) = Append(t, e) /\ run \o Append(w, e) = Append(r, e)
    <3>1. s \in Seq(R) /\ run \in Seq(R)
      BY <1>1
    <3>2. s \o Append(w, e) = Append(s \o w, e)
      BY ONLY <2>1, <3>1, ConcatAppend
    <3>3. run \o Append(w, e) = Append(run \o w, e)
      BY ONLY <2>1, <3>1, ConcatAppend
    <3> QED
      BY <2>2, <2>3, <3>2, <3>3
  <2>6. Append(t, e) \in Seq(R) /\ Append(r, e) \in Seq(R)
    BY <2>1, <2>4, AppendProperties
  <2>7. End(Append(t, e), separators) = Grown([all |-> all, run |-> r], e, separators)
    BY <2>1, <2>4, EndAppend
  <2>8. Grown([all |-> all, run |-> r], e, separators) = [all |-> all, run |-> Append(r, e)]
    BY DEF Grown
  <2>9. Reads(R, s \o Append(w, e), separators, all, run \o Append(w, e))
    BY <1>1, <2>5, <2>6, <2>7, <2>8 DEF Reads
  <2> QED
    BY <2>1, <2>9
<1> HIDE DEF T
<1>4. \A w \in Seq(R \ separators) : w \in T
  BY <1>2, <1>3, Extending
<1> QED
  BY <1>4 DEF T

\* A separator closes it, if there is one.
LEMMA ReadSeparator ==
    ASSUME NEW R, NEW s, NEW separators, NEW all, NEW run, Reads(R, s, separators, all, run),
           NEW e \in R \cap separators
    PROVE  Reads(R, s \o <<e>>, separators, IF run = <<>> THEN all ELSE Append(all, run), <<>>)
<1>1. /\ s \in Seq(R) /\ all \in Seq(Seq(R)) /\ run \in Seq(R) /\ <<>> \in Seq(R)
      /\ End(s, separators) = [all |-> all, run |-> run]
  BY EmptySeq DEF Reads
<1>2. s \o <<e>> = Append(s, e) /\ Append(s, e) \in Seq(R) /\ Append(all, run) \in Seq(Seq(R))
  BY <1>1, AppendIsConcat, AppendProperties
<1>3. End(Append(s, e), separators) = Grown([all |-> all, run |-> run], e, separators)
  BY <1>1, EndAppend
<1>4. Grown([all |-> all, run |-> run], e, separators) =
        [all |-> IF run = <<>> THEN all ELSE Append(all, run), run |-> <<>>]
  BY DEF Grown
<1> QED
  BY <1>1, <1>2, <1>3, <1>4 DEF Reads

\* What one reads at the end.
LEMMA ReadAll ==
    ASSUME NEW R, NEW s, NEW separators, NEW all, NEW run, Reads(R, s, separators, all, run)
    PROVE  Runs(s, separators) = IF run = <<>> THEN all ELSE Append(all, run)
BY EndIs DEF Reads, Finished

\* A word, when a new one begins.
LEMMA ReadFirst ==
    ASSUME NEW R, NEW s, NEW separators, NEW all, Reads(R, s, separators, all, <<>>),
           NEW w \in Seq(R \ separators)
    PROVE  Reads(R, s \o w, separators, all, w)
<1>1. w \in Seq(R)
  BY SeqMonotonic
<1>2. <<>> \o w = w
  BY <1>1, ConcatEmptySeq
<1> QED
  BY <1>2, ReadWord

\* A part of a sequence is a sequence over the same elements.
LEMMA PartType ==
    ASSUME NEW R, NEW s \in Seq(R), NEW m \in Nat \ {0}, NEW n \in 0..Len(s)
    PROVE  SubSeq(s, m, n) \in Seq(R)
<1>1. Len(s) \in Nat
  BY LenProperties
<1>2. \A i \in m..n : s[i] \in R
  BY <1>1, ElementOfSeq
<1> QED
  BY <1>1, <1>2, SubSeqProperties

\* find_last_of: the position of the last slash, 0 when there is none.
LEMMA LastSlashIs ==
    ASSUME NEW w \in Texts
    PROVE  /\ LastSlash(w) \in 0..Len(w)
           /\ LastSlash(w) = 0 \/ w[LastSlash(w)] = Slash
           /\ \A i \in 1..Len(w) : w[i] = Slash => i <= LastSlash(w)
<1> DEFINE S == {i \in 1..Len(w) : w[i] = Slash}
<1>1. Len(w) \in Nat
  BY LenProperties DEF Texts
<1>2. LastSlash(w) = IF S # {} THEN Max(S) ELSE 0
  BY DEF LastSlash, SelectLastInSeq
<1>3. S # {} => Max(S) \in S /\ \A y \in S : y <= Max(S)
  <2>1. S \in SUBSET Nat /\ \A y \in S : y <= Len(w)
    BY <1>1
  <2> HIDE DEF S
  <2> QED
    BY <1>1, <2>1, Greatest
<1>4. CASE S # {}
  <2>1. LastSlash(w) \in S /\ \A y \in S : y <= LastSlash(w)
    BY <1>2, <1>3, <1>4
  <2> QED
    BY <1>1, <2>1
<1>5. CASE S = {}
  BY <1>1, <1>2, <1>5
<1> QED
  BY <1>4, <1>5

LEMMA SlashText == <<Slash>> \in Texts /\ Len(<<Slash>>) = 1 /\ <<Slash>>[1] = Slash
BY DEF Texts, Byte, Slash

LEMMA ConcatTexts ==
    ASSUME NEW s \in Texts, NEW t \in Texts
    PROVE  s \o t \in Texts
BY ConcatProperties DEF Texts

LEMMA NamesAreTexts == Names \subseteq Texts
BY SeqMonotonic DEF Names, Texts, Byte

\* A path joined of a directory and a name ends with the name, after its last slash.
LEMMA JoinIs ==
    ASSUME NEW dir \in Texts, NEW leaf \in Names
    PROVE  /\ JoinWfxPath(dir, leaf) \in Texts
           /\ LET w == JoinWfxPath(dir, leaf)
              IN  SubSeq(w, LastSlash(w) + 1, Len(w)) = leaf
<1>1. leaf \in Texts /\ \A i \in 1..Len(leaf) : leaf[i] # Slash
  BY NamesAreTexts, ElementOfSeq DEF Names
<1>2. \E front \in Texts : /\ JoinWfxPath(dir, leaf) = front \o leaf
                           /\ Len(front) > 0 /\ front[Len(front)] = Slash
  <2>1. CASE dir # <<>> /\ Last(dir) = Slash
    <3>1. Len(dir) > 0
      BY <2>1, EmptySeq DEF Texts
    <3> QED
      BY <2>1, <3>1 DEF JoinWfxPath, Last
  <2>2. CASE ~(dir # <<>> /\ Last(dir) = Slash)
    <3>1. PICK front : front = dir \o <<Slash>>
      OBVIOUS
    <3>2. /\ front \in Texts /\ Len(front) = Len(dir) + 1 /\ Len(dir) \in Nat
          /\ front[Len(dir) + 1] = <<Slash>>[1]
      BY <3>1, SlashText, ConcatProperties, LenProperties DEF Texts
    <3>3. JoinWfxPath(dir, leaf) = front \o leaf
      BY <2>2, <3>1 DEF JoinWfxPath
    <3> QED
      BY <3>2, <3>3, SlashText
  <2> QED
    BY <2>1, <2>2
<1>3. PICK front \in Texts : /\ JoinWfxPath(dir, leaf) = front \o leaf
                             /\ Len(front) > 0 /\ front[Len(front)] = Slash
  BY <1>2
<1>4. PICK w : w = front \o leaf
  OBVIOUS
<1>5. /\ w \in Texts /\ Len(w) = Len(front) + Len(leaf)
      /\ Len(front) \in Nat /\ Len(leaf) \in Nat
      /\ \A i \in 1..Len(w) : w[i] = IF i <= Len(front) THEN front[i] ELSE leaf[i - Len(front)]
  BY <1>1, <1>4, ConcatProperties, LenProperties DEF Texts
<1>6. /\ LastSlash(w) \in 0..Len(w)
      /\ LastSlash(w) = 0 \/ w[LastSlash(w)] = Slash
      /\ \A i \in 1..Len(w) : w[i] = Slash => i <= LastSlash(w)
  BY <1>5, LastSlashIs
<1>7. LastSlash(w) >= Len(front)
  <2>1. Len(front) \in 1..Len(w) /\ w[Len(front)] = Slash
    BY <1>3, <1>5
  <2> QED
    BY <1>6, <2>1
<1>8. LastSlash(w) <= Len(front)
  <2> SUFFICES ASSUME LastSlash(w) > Len(front) PROVE FALSE
    BY <1>5, <1>6
  <2>1. LastSlash(w) \in 1..Len(w) /\ LastSlash(w) - Len(front) \in 1..Len(leaf)
    BY <1>5, <1>6
  <2>2. w[LastSlash(w)] = leaf[LastSlash(w) - Len(front)] /\ w[LastSlash(w)] = Slash
    BY <1>5, <1>6, <2>1
  <2> QED
    BY <1>1, <2>1, <2>2
<1>9. LastSlash(w) = Len(front)
  BY <1>5, <1>6, <1>7, <1>8
<1>10. SubSeq(w, Len(front) + 1, Len(w)) = leaf
  BY <1>1, <1>4, <1>5, AfterConcat DEF Texts
<1> QED
  BY <1>3, <1>4, <1>5, <1>9, <1>10

-----------------------------------------------------------------------------
(* The lines of the adb server, there and back (parseDevicesL).              *)

Blanks == {Space, Tab}
Bare   == Byte \ {Space, Tab, CR, Newline}

Line(d) ==
    d.serial \o <<Space, Space>> \o d.state \o <<Space>> \o Product
    \o (IF d.model = <<>> THEN <<>> ELSE <<Space>> \o ModelPrefix \o d.model)
    \o <<Space>> \o Transport

\* The fields of a line, the last one apart.
Leading(d) ==
    IF d.model = <<>> THEN <<d.serial, d.state, Product>>
    ELSE <<d.serial, d.state, Product, ModelPrefix \o d.model>>
FieldsOf(d) == Append(Leading(d), Transport)

\* The bytes of the words of a line are no separators, nor are those of the fields
\* the server adds; what the proofs need to know of them.
LEMMA BareWords ==
    /\ Words \subseteq Seq(Bare) /\ Seq(Bare) \subseteq Texts
    /\ Seq(Bare) \subseteq Seq(Byte \ Blanks) /\ Seq(Bare) \subseteq Seq(Byte \ {Newline})
    /\ Product \in Seq(Bare) /\ Transport \in Seq(Bare) /\ ModelPrefix \in Seq(Bare)
    /\ Product # <<>> /\ Transport # <<>> /\ ModelPrefix # <<>>
    /\ Len(Product) = 3 /\ Len(ModelPrefix) = 6 /\ Len(Transport) = 3 /\ Transport[3] = 109
    /\ Space \in Byte \cap Blanks /\ Newline \in Byte \cap {Newline}
    /\ Space \in Byte \ {Newline} /\ 109 \in Bare
<1>1. Words \subseteq Seq(Bare)
  BY DEF Words, Bare
<1>2. Bare \subseteq Byte /\ Bare \subseteq Byte \ Blanks /\ Bare \subseteq Byte \ {Newline}
  BY DEF Bare, Blanks
<1>3. /\ Seq(Bare) \subseteq Seq(Byte) /\ Seq(Bare) \subseteq Seq(Byte \ Blanks)
      /\ Seq(Bare) \subseteq Seq(Byte \ {Newline})
  BY <1>2, SeqMonotonic
<1>4. \A n \in Nat : n > 32 /\ n <= 255 => n \in Bare
  BY DEF Bare, Byte, Space, Tab, CR, Newline
<1>5. /\ 58 \in Bare /\ 100 \in Bare /\ 101 \in Bare /\ 108 \in Bare /\ 109 \in Bare
      /\ 111 \in Bare /\ 112 \in Bare /\ 116 \in Bare /\ 120 \in Bare
  BY <1>4
<1>6. Product \in Seq(Bare) /\ Transport \in Seq(Bare) /\ ModelPrefix \in Seq(Bare)
  <2> HIDE DEF Bare
  <2> QED
    BY <1>5 DEF Product, Transport, ModelPrefix
<1>7. /\ Space \in Byte \cap Blanks /\ Newline \in Byte \cap {Newline}
      /\ Space \in Byte \ {Newline}
  BY DEF Byte, Blanks, Space, Newline
<1>8. /\ Product # <<>> /\ Transport # <<>> /\ ModelPrefix # <<>>
      /\ Len(Product) = 3 /\ Len(ModelPrefix) = 6 /\ Len(Transport) = 3 /\ Transport[3] = 109
  BY DEF Product, Transport, ModelPrefix
<1> QED
  BY <1>1, <1>3, <1>5, <1>6, <1>7, <1>8 DEF Texts

\* A word that follows one, after a blank.
LEMMA ReadNext ==
    ASSUME NEW s, NEW all, NEW run, Reads(Byte, s, Blanks, all, run), run # <<>>,
           NEW w \in Seq(Bare)
    PROVE  Reads(Byte, s \o <<Space>> \o w, Blanks, Append(all, run), w)
<1>1. w \in Seq(Byte \ Blanks) /\ Space \in Byte \cap Blanks
  BY BareWords
<1>2. Reads(Byte, s \o <<Space>>, Blanks, Append(all, run), <<>>)
  BY <1>1, ReadSeparator
<1> QED
  BY <1>1, <1>2, ReadFirst

\* The sequences of one to four elements, as Append makes them.
LEMMA Longer ==
    ASSUME NEW R, NEW a \in R, NEW b \in R, NEW c \in R, NEW e \in R
    PROVE  /\ Append(<<>>, a) = <<a>> /\ Append(<<a>>, b) = <<a, b>>
           /\ Append(<<a, b>>, c) = <<a, b, c>> /\ Append(<<a, b, c>>, e) = <<a, b, c, e>>
<1>1. Append(<<>>, a) = <<a>>
  OBVIOUS
<1>2. Append(<<a>>, b) = <<a, b>>
  <2>1. <<a>> \in Seq(R) /\ <<a, b>> \in Seq(R)
    OBVIOUS
  <2>2. Append(<<a>>, b) \in Seq(R) /\ Len(Append(<<a>>, b)) = 2
    BY <2>1, AppendProperties
  <2>3. Append(<<a>>, b)[1] = a /\ Append(<<a>>, b)[2] = b
    BY <2>1, AppendProperties
  <2>4. \A i \in 1..2 : Append(<<a>>, b)[i] = <<a, b>>[i]
    BY <2>3
  <2> QED
    BY <2>1, <2>2, <2>4, SeqEqual
<1>3. Append(<<a, b>>, c) = <<a, b, c>>
  <2>1. <<a, b>> \in Seq(R) /\ <<a, b, c>> \in Seq(R)
    OBVIOUS
  <2>2. Append(<<a, b>>, c) \in Seq(R) /\ Len(Append(<<a, b>>, c)) = 3
    BY <2>1, AppendProperties
  <2>3. Append(<<a, b>>, c)[1] = a /\ Append(<<a, b>>, c)[2] = b /\ Append(<<a, b>>, c)[3] = c
    BY <2>1, AppendProperties
  <2>4. \A i \in 1..3 : Append(<<a, b>>, c)[i] = <<a, b, c>>[i]
    BY <2>3
  <2> QED
    BY <2>1, <2>2, <2>4, SeqEqual
<1>4. Append(<<a, b, c>>, e) = <<a, b, c, e>>
  <2>1. <<a, b, c>> \in Seq(R) /\ <<a, b, c, e>> \in Seq(R)
    OBVIOUS
  <2>2. Append(<<a, b, c>>, e) \in Seq(R) /\ Len(Append(<<a, b, c>>, e)) = 4
    BY <2>1, AppendProperties
  <2>3. /\ Append(<<a, b, c>>, e)[1] = a /\ Append(<<a, b, c>>, e)[2] = b
        /\ Append(<<a, b, c>>, e)[3] = c /\ Append(<<a, b, c>>, e)[4] = e
    BY <2>1, AppendProperties
  <2>4. \A i \in 1..4 : Append(<<a, b, c>>, e)[i] = <<a, b, c, e>>[i]
    BY <2>3
  <2> QED
    BY <2>1, <2>2, <2>4, SeqEqual
<1> QED
  BY <1>1, <1>2, <1>3, <1>4

\* splitFields finds in the line of a device the fields adb wrote into it.
LEMMA LineReads ==
    ASSUME NEW d \in Devices
    PROVE  Line(d) \in Texts /\ SplitFields(Line(d)) = FieldsOf(d)
<1>1. /\ d.serial \in Seq(Bare) /\ d.state \in Seq(Bare) /\ d.serial # <<>> /\ d.state # <<>>
      /\ d.model = <<>> \/ d.model \in Seq(Bare)
  <2>1. d.serial \in Words /\ d.state \in Words /\ (d.model = <<>> \/ d.model \in Words)
    BY DEF Devices
  <2> QED
    BY <2>1, BareWords DEF Words
<1>2. PICK serial, state, model : serial = d.serial /\ state = d.state /\ model = d.model
  OBVIOUS
<1>3. \A w \in Seq(Bare) : w \in Seq(Byte)
  BY BareWords DEF Texts
<1>4. <<Space>> \in Seq(Byte) /\ <<Space, Space>> = <<Space>> \o <<Space>>
  BY BareWords
<1>5. /\ Append(<<>>, serial) = <<serial>> /\ Append(<<serial>>, state) = <<serial, state>>
       /\ Append(<<serial, state>>, Product) = <<serial, state, Product>>
       /\ \A w \in Seq(Bare) : Append(<<serial, state, Product>>, w) = <<serial, state, Product, w>>
  <2>1. serial \in Seq(Bare) /\ state \in Seq(Bare) /\ Product \in Seq(Bare)
    BY <1>1, <1>2, BareWords
  <2> QED
    BY ONLY <2>1, Longer
<1>6. Reads(Byte, serial \o <<Space, Space>> \o state, Blanks, <<serial>>, state)
  <2>1. Reads(Byte, <<>> \o serial, Blanks, <<>>, serial)
    BY <1>1, <1>2, BareWords, ReadNothing, ReadFirst
  <2>2. Reads(Byte, serial, Blanks, <<>>, serial)
    BY <1>1, <1>2, <1>3, <2>1, ConcatEmptySeq
  <2>3. Append(<<>>, serial) = <<serial>>
    BY <1>5
  <2>4. Reads(Byte, serial \o <<Space>>, Blanks, <<serial>>, <<>>)
    <3>1. Space \in Byte \cap Blanks /\ serial # <<>>
      BY <1>1, <1>2, BareWords
    <3>2. Reads(Byte, serial \o <<Space>>, Blanks,
                IF serial = <<>> THEN <<>> ELSE Append(<<>>, serial), <<>>)
      BY <2>2, <3>1, ReadSeparator, Zenon
    <3> QED
      BY <2>3, <3>1, <3>2, Zenon
  <2>5. Reads(Byte, (serial \o <<Space>>) \o <<Space>>, Blanks, <<serial>>, <<>>)
    <3>1. Space \in Byte \cap Blanks
      BY BareWords
    <3>2. Reads(Byte, (serial \o <<Space>>) \o <<Space>>, Blanks,
                IF <<>> = <<>> THEN <<serial>> ELSE Append(<<serial>>, <<>>), <<>>)
      BY <2>4, <3>1, ReadSeparator, Zenon
    <3> QED
      BY <3>2, Zenon
  <2>6. (serial \o <<Space>>) \o <<Space>> = serial \o <<Space, Space>>
    BY <1>1, <1>2, <1>3, <1>4, ConcatAssociative
  <2> QED
    BY <1>1, <1>2, <2>5, <2>6, BareWords, ReadFirst
<1>7. PICK s : s = serial \o <<Space, Space>> \o state \o <<Space>> \o Product
  OBVIOUS
<1>8. Reads(Byte, s, Blanks, <<serial, state>>, Product)
  <2>1. Append(<<serial>>, state) = <<serial, state>>
    BY <1>5
  <2>2. Reads(Byte, serial \o <<Space, Space>> \o state \o <<Space>> \o Product, Blanks,
              Append(<<serial>>, state), Product)
    BY <1>1, <1>2, <1>6, BareWords, ReadNext
  <2> QED
    BY <1>7, <2>1, <2>2
<1>9. PICK more : more = IF model = <<>> THEN <<>> ELSE <<Space>> \o ModelPrefix \o model
  OBVIOUS
<1>10. Line(d) = s \o more \o <<Space>> \o Transport
  BY <1>2, <1>7, <1>9, Zenon DEF Line
<1>11. s \in Seq(Byte) /\ Append(<<serial, state>>, Product) = <<serial, state, Product>>
  BY <1>8, <1>5 DEF Reads
<1>12. \E run, all : /\ Reads(Byte, s \o more, Blanks, all, run) /\ run # <<>>
                      /\ Append(all, run) = Leading(d)
  <2>1. CASE model = <<>>
    <3>1. s \o more = s
      BY <1>9, <1>11, <2>1, ConcatEmptySeq
    <3>2. Product \in Seq(Byte) /\ Product # <<>> /\ Append(<<serial, state>>, Product) = Leading(d)
      BY <1>2, <1>3, <1>11, <2>1, BareWords DEF Leading
    <3> QED
      BY <1>8, <3>1, <3>2
  <2>2. CASE model # <<>>
    <3>1. PICK word : word = ModelPrefix \o model
      OBVIOUS
    <3>2. model \in Seq(Bare) /\ ModelPrefix \in Seq(Bare) /\ ModelPrefix # <<>>
      BY <1>1, <1>2, <2>2, BareWords
    <3>3. word \in Seq(Bare) /\ word # <<>>
      BY <3>1, <3>2, ConcatProperties, ConcatEqualIffEmpty
    <3>4. <<Space>> \o ModelPrefix \o model = <<Space>> \o word
      BY <1>3, <1>4, <3>1, <3>2, ConcatAssociative
    <3>5. s \o more = s \o <<Space>> \o word
      <4>1. more = <<Space>> \o word
        BY <1>9, <2>2, <3>4, Zenon
      <4>2. s \o (<<Space>> \o word) = (s \o <<Space>>) \o word
        BY <1>3, <1>4, <1>11, <3>3, ConcatAssociative
      <4> QED
        BY <4>1, <4>2
    <3>6. Reads(Byte, s \o more, Blanks, <<serial, state, Product>>, word)
      BY <1>8, <1>11, <3>3, <3>5, BareWords, ReadNext
    <3>7. Append(<<serial, state, Product>>, word) = Leading(d)
      BY <1>2, <1>5, <2>2, <3>1, <3>3 DEF Leading
    <3> QED
      BY <1>3, <3>3, <3>6, <3>7
  <2> QED
    BY <2>1, <2>2
<1>13. Reads(Byte, Line(d), Blanks, Leading(d), Transport)
  <2>1. PICK run, all : /\ Reads(Byte, s \o more, Blanks, all, run) /\ run # <<>>
                        /\ Append(all, run) = Leading(d)
    BY <1>12
  <2>2. Transport \in Seq(Bare)
    BY BareWords
  <2>3. Reads(Byte, s \o more \o <<Space>> \o Transport, Blanks, Append(all, run), Transport)
    BY <2>1, <2>2, ReadNext
  <2> QED
    BY <1>10, <2>1, <2>3
<1>14. Runs(Line(d), Blanks) = FieldsOf(d)
  BY <1>13, BareWords, ReadAll DEF FieldsOf
<1> QED
  BY <1>13, <1>14 DEF SplitFields, Blanks, Reads, Texts

\* A line is one line, and ends with a letter: there is nothing to trim.
LEMMA LineIs ==
    ASSUME NEW d \in Devices
    PROVE  /\ Line(d) \in Seq(Byte \ {Newline}) /\ Line(d) # <<>>
           /\ TrimTrailingWhitespace(Line(d)) = Line(d)
<1> DEFINE R == Byte \ {Newline}
<1>1. d.serial \in Seq(R) /\ d.state \in Seq(R) /\ d.model \in Seq(R)
  <2>1. d.serial \in Words /\ d.state \in Words /\ d.model \in Words \cup {<<>>}
    BY DEF Devices
  <2>2. Words \subseteq Seq(R) /\ <<>> \in Seq(R)
    BY BareWords, EmptySeq
  <2> QED
    BY <2>1, <2>2
<1>2. /\ Product \in Seq(R) /\ Transport \in Seq(R) /\ ModelPrefix \in Seq(R)
      /\ <<Space>> \in Seq(R) /\ <<Space, Space>> \in Seq(R) /\ <<>> \in Seq(R)
  <2>1. Space \in R
    BY BareWords
  <2> HIDE DEF R
  <2>2. Product \in Seq(R) /\ Transport \in Seq(R) /\ ModelPrefix \in Seq(R)
    BY BareWords DEF R
  <2> QED
    BY <2>1, <2>2
<1> HIDE DEF R
<1>3. \A s, t \in Seq(R) : s \o t \in Seq(R) /\ Len(s \o t) = Len(s) + Len(t)
  BY ConcatProperties
<1>4. PICK front \in Seq(R) : Line(d) = front \o Transport
  <2>1. (IF d.model = <<>> THEN <<>> ELSE <<Space>> \o ModelPrefix \o d.model) \in Seq(R)
    BY <1>1, <1>2, <1>3
  <2>2. d.serial \o <<Space, Space>> \o d.state \o <<Space>> \o Product \in Seq(R)
    BY <1>1, <1>2, <1>3
  <2>3. d.serial \o <<Space, Space>> \o d.state \o <<Space>> \o Product
          \o (IF d.model = <<>> THEN <<>> ELSE <<Space>> \o ModelPrefix \o d.model)
          \o <<Space>> \in Seq(R)
    BY <1>2, <1>3, <2>1, <2>2
  <2> QED
    BY <2>3 DEF Line
<1>5. PICK line : line = Line(d)
  OBVIOUS
<1>6. /\ line \in Seq(R) /\ Len(front) \in Nat /\ Len(line) = Len(front) + 3
      /\ line[Len(line)] = 109
  <2>1. Len(Transport) = 3 /\ Transport[3] = 109 /\ Len(front) \in Nat
    BY BareWords, LenProperties
  <2>2. line = front \o Transport
    BY <1>4, <1>5
  <2>3. /\ line \in Seq(R) /\ Len(line) = Len(front) + Len(Transport)
        /\ \A i \in 1..(Len(front) + Len(Transport)) :
              line[i] = IF i <= Len(front) THEN front[i] ELSE Transport[i - Len(front)]
    BY ONLY <1>2, <2>2, ConcatProperties
  <2>4. /\ Len(front) + 3 \in 1..(Len(front) + 3) /\ ~(Len(front) + 3 <= Len(front))
        /\ (Len(front) + 3) - Len(front) = 3
    BY <2>1
  <2>5. line[Len(front) + 3] = Transport[3]
    BY <2>1, <2>3, <2>4
  <2> QED
    BY <2>1, <2>3, <2>5
<1>7. TrimTrailingWhitespace(line) = line
  <2> DEFINE kept == {0} \cup {i \in DOMAIN line : line[i] \notin {Space, Tab, CR, Newline}}
  <2>1. PICK n \in Nat : n = Len(line) /\ DOMAIN line = 1..n /\ n > 0
    BY <1>6, LenProperties
  <2>2. n \in kept /\ kept \in SUBSET Nat /\ \A y \in kept : y <= n
    <3>1. 109 \notin {Space, Tab, CR, Newline}
      BY DEF Space, Tab, CR, Newline
    <3>2. n \in DOMAIN line /\ line[n] = 109
      BY <1>6, <2>1
    <3> QED
      BY <2>1, <3>1, <3>2
  <2>3. TrimTrailingWhitespace(line) = SubSeq(line, 1, Max(kept))
    BY DEF TrimTrailingWhitespace
  <2> HIDE DEF kept
  <2>4. Max(kept) \in kept /\ \A y \in kept : y <= Max(kept)
    BY <2>2, Greatest
  <2>5. Max(kept) = n
    <3>1. Max(kept) \in Nat /\ Max(kept) <= n /\ n <= Max(kept)
      BY <2>2, <2>4
    <3> QED
      BY <3>1
  <2> QED
    BY <1>6, <2>1, <2>3, <2>5, SubSeqFull
<1>8. line # <<>>
  BY <1>6
<1> QED
  BY <1>5, <1>6, <1>7, <1>8 DEF R

\* The model parseDevicesL takes from the fields of a line.
ModelIn(f) ==
    LET m == SelectLastInSubSeq(f, 3, Len(f), LAMBDA x : IsPrefix(ModelPrefix, x))
    IN  IF m = 0 THEN <<>> ELSE SubSeq(f[m], Len(ModelPrefix) + 1, Len(f[m]))

\* The fields of a line: the serial first, the state second, and the model behind
\* the first field that starts with "model:".
LEMMA FieldsAre ==
    ASSUME NEW d \in Devices
    PROVE  /\ FieldsOf(d) \in Seq(Texts) /\ Len(FieldsOf(d)) >= 2
           /\ FieldsOf(d)[1] = d.serial /\ FieldsOf(d)[2] = d.state
           /\ ModelIn(FieldsOf(d)) = d.model
<1>1. /\ d.serial \in Texts /\ d.state \in Texts /\ d.model \in Texts
      /\ d.model = <<>> \/ d.model \in Words
  <2>1. d.serial \in Words /\ d.state \in Words /\ d.model \in Words \cup {<<>>}
    BY DEF Devices
  <2>2. Words \subseteq Texts /\ <<>> \in Texts
    BY BareWords, EmptySeq DEF Texts
  <2> QED
    BY <2>1, <2>2
<1>2. /\ Product \in Texts /\ Transport \in Texts /\ ModelPrefix \in Texts
      /\ Len(Product) = 3 /\ Len(Transport) = 3 /\ Len(ModelPrefix) = 6
  BY BareWords
<1>3. PICK word : word = ModelPrefix \o d.model
  OBVIOUS
<1>4. /\ word \in Texts /\ Len(word) = 6 + Len(d.model) /\ Len(d.model) \in Nat
      /\ SubSeq(word, Len(ModelPrefix) + 1, Len(word)) = d.model
      /\ IsPrefix(ModelPrefix, word)
  <2>1. PICK prefix \in Seq(Byte), model \in Seq(Byte) :
          prefix = ModelPrefix /\ model = d.model /\ Len(prefix) = 6 /\ Len(model) \in Nat
    BY <1>1, <1>2, LenProperties DEF Texts
  <2>2. prefix \o model \in Seq(Byte) /\ Len(prefix \o model) = 6 + Len(model)
    <3>1. prefix \o model \in Seq(Byte) /\ Len(prefix \o model) = Len(prefix) + Len(model)
      BY ConcatProperties
    <3> QED
      BY <2>1, <3>1
  <2>3. SubSeq(prefix \o model, Len(prefix) + 1, Len(prefix \o model)) = model
    BY AfterConcat
  <2>4. SubSeq(prefix \o model, 1, Len(prefix)) = prefix
    BY <2>1, <2>2, SubSeqFull, SubSeqOfConcat1
  <2>5. SubSeq(prefix, 1, Len(prefix)) = prefix
    BY SubSeqFull
  <2>6. word = prefix \o model /\ Len(prefix) <= Len(prefix \o model)
    BY <1>3, <2>1, <2>2
  <2> QED
    BY <2>1, <2>2, <2>3, <2>4, <2>5, <2>6 DEF Texts, IsPrefix
<1>5. ~IsPrefix(ModelPrefix, Product) /\ ~IsPrefix(ModelPrefix, Transport)
  BY <1>2 DEF IsPrefix
<1>6. PICK f : f = FieldsOf(d)
  OBVIOUS
<1>7. CASE d.model = <<>>
  <2>1. f = Append(<<d.serial, d.state, Product>>, Transport)
    BY <1>6, <1>7 DEF FieldsOf, Leading
  <2>2. /\ f \in Seq(Texts) /\ Len(f) = 4 /\ f[1] = d.serial /\ f[2] = d.state
        /\ f[3] = Product /\ f[4] = Transport
    <3>1. /\ <<d.serial, d.state, Product>> \in Seq(Texts)
          /\ Len(<<d.serial, d.state, Product>>) = 3
      BY <1>1, <1>2
    <3> QED
      BY <1>2, <2>1, <3>1, AppendProperties
  <2>3. \A i \in 3..Len(f) : i = 3 \/ i = 4
    BY <2>2
  <2>4. {i \in 3..Len(f) : IsPrefix(ModelPrefix, f[i])} = {}
    BY <1>5, <2>2, <2>3, Zenon
  <2>5. SelectLastInSubSeq(f, 3, Len(f), LAMBDA x : IsPrefix(ModelPrefix, x)) = 0
    BY <2>4 DEF SelectLastInSubSeq
  <2>6. ModelIn(f) = <<>>
    BY <2>5, Zenon DEF ModelIn
  <2> QED
    BY <1>6, <1>7, <2>2, <2>6
<1>8. CASE d.model # <<>>
  <2>1. f = Append(<<d.serial, d.state, Product, word>>, Transport)
    BY <1>3, <1>6, <1>8 DEF FieldsOf, Leading
  <2>2. /\ <<d.serial, d.state, Product, word>> \in Seq(Texts)
        /\ Len(<<d.serial, d.state, Product, word>>) = 4
    BY <1>1, <1>2, <1>4
  <2>3. /\ f \in Seq(Texts) /\ Len(f) = 5 /\ f[1] = d.serial /\ f[2] = d.state
        /\ f[3] = Product /\ f[4] = word /\ f[5] = Transport
    BY <1>2, <2>1, <2>2, AppendProperties
  <2>4. \A i \in 3..Len(f) : i = 3 \/ i = 4 \/ i = 5
    BY <2>3
  <2>5. {i \in 3..Len(f) : IsPrefix(ModelPrefix, f[i])} = {4}
    <3>1. 4 \in 3..Len(f)
      BY <2>3
    <3> QED
      BY <1>4, <1>5, <2>3, <2>4, <3>1, Zenon
  <2>6. Max({4}) = 4
    BY Greatest
  <2>7. PICK m : m = SelectLastInSubSeq(f, 3, Len(f), LAMBDA x : IsPrefix(ModelPrefix, x))
    OBVIOUS
  <2>8. ModelIn(f) = SubSeq(f[4], Len(ModelPrefix) + 1, Len(f[4]))
    <3>1. ModelIn(f) = IF m = 0 THEN <<>> ELSE SubSeq(f[m], Len(ModelPrefix) + 1, Len(f[m]))
      BY <2>7 DEF ModelIn
    <3>2. m = 4
      BY <2>5, <2>6, <2>7 DEF SelectLastInSubSeq
    <3> QED
      BY <3>1, <3>2
  <2> QED
    BY <1>4, <1>6, <2>3, <2>8
<1> QED
  BY <1>7, <1>8

LineFor  == [d \in Devices |-> Line(d)]
EndedFor == [d \in Devices |-> Line(d) \o <<Newline>>]

\* The answer of the server is its lines, each ended by a newline.
LEMMA TextIs ==
    ASSUME NEW bus \in Seq(Devices)
    PROVE  DevicesText(bus) = FlattenSeq(Mapped(EndedFor, bus))
<1>1. DOMAIN bus = 1..Len(bus) /\ \A i \in 1..Len(bus) : bus[i] \in Devices
  BY LenProperties, ElementOfSeq
<1>2. \A i \in DOMAIN bus : EndedFor[bus[i]] = Line(bus[i]) \o <<Newline>>
  BY <1>1 DEF EndedFor
<1>3. Mapped(EndedFor, bus) = [i \in DOMAIN bus |-> Line(bus[i]) \o <<Newline>>]
  BY <1>2, Zenon DEF Mapped
<1>4. DevicesText(bus) = FlattenSeq([i \in DOMAIN bus |-> Line(bus[i]) \o <<Newline>>])
  BY Zenon DEF DevicesText, Line
<1> QED
  BY <1>3, <1>4

\* The text reads as its lines.
LEMMA TextReads ==
    \A bus \in Seq(Devices) :
        Reads(Byte, DevicesText(bus), {Newline}, Mapped(LineFor, bus), <<>>)
<1> DEFINE T == {bus \in Seq(Devices) :
                   Reads(Byte, DevicesText(bus), {Newline}, Mapped(LineFor, bus), <<>>)}
<1>1. \A d \in Devices :
        /\ Line(d) \in Seq(Byte \ {Newline}) /\ Line(d) \in Seq(Byte) /\ Line(d) # <<>>
        /\ Line(d) \o <<Newline>> \in Seq(Byte)
        /\ LineFor[d] = Line(d) /\ EndedFor[d] = Line(d) \o <<Newline>>
  <2> TAKE d \in Devices
  <2>1. Line(d) \in Seq(Byte \ {Newline}) /\ Line(d) \in Seq(Byte) /\ Line(d) # <<>>
    BY LineIs, LineReads DEF Texts
  <2>2. <<Newline>> \in Seq(Byte)
    BY BareWords
  <2> QED
    BY <2>1, <2>2, ConcatProperties DEF LineFor, EndedFor
<1>2. \A d \in Devices : EndedFor[d] \in Seq(Byte)
  BY <1>1
<1>3. <<>> \in T
  <2>1. <<>> \in Seq(Devices) /\ Mapped(EndedFor, <<>>) = <<>> /\ Mapped(LineFor, <<>>) = <<>>
    BY EmptySeq, MappedEmpty
  <2>2. DevicesText(<<>>) = <<>>
    BY <2>1, TextIs, EmptySeq DEF FlattenSeq
  <2> QED
    BY <2>1, <2>2, ReadNothing
<1>4. ASSUME NEW bus \in Seq(Devices), bus \in T, NEW d \in Devices
      PROVE  Append(bus, d) \in T
  <2>1. Append(bus, d) \in Seq(Devices)
    BY AppendProperties
  <2>2. PICK text, lines, line : /\ text = DevicesText(bus) /\ lines = Mapped(LineFor, bus)
                                 /\ line = Line(d)
    OBVIOUS
  <2>3. DevicesText(Append(bus, d)) = text \o (line \o <<Newline>>)
    <3>1. DevicesText(Append(bus, d)) = FlattenSeq(Append(Mapped(EndedFor, bus), EndedFor[d]))
      BY <1>2, <2>1, TextIs, MappedAppend
    <3>2. Mapped(EndedFor, bus) \in Seq(Seq(Byte))
      BY <1>2, MappedType
    <3>3. EndedFor[d] \in Seq(Byte)
      BY <1>1
    <3>4. FlattenSeq(Append(Mapped(EndedFor, bus), EndedFor[d]))
            = FlattenSeq(Mapped(EndedFor, bus)) \o EndedFor[d]
      BY <3>2, <3>3, FlattenAppend
    <3> QED
      BY <1>1, <2>2, <3>1, <3>4, TextIs
  <2>4. Mapped(LineFor, Append(bus, d)) = Append(lines, line)
    <3>1. LineFor[d] = line
      BY <1>1, <2>2
    <3> QED
      BY <2>2, <3>1, MappedAppend
  <2>5. Reads(Byte, text, {Newline}, lines, <<>>)
    BY <1>4, <2>2
  <2>6. Reads(Byte, text \o line, {Newline}, lines, line)
    BY <1>1, <2>2, <2>5, ReadFirst
  <2>7. Reads(Byte, (text \o line) \o <<Newline>>, {Newline}, Append(lines, line), <<>>)
    <3>1. line # <<>> /\ Newline \in Byte \cap {Newline}
      BY <1>1, <2>2, BareWords
    <3> QED
      BY <2>6, <3>1, ReadSeparator
  <2>8. (text \o line) \o <<Newline>> = text \o (line \o <<Newline>>)
    <3>1. text \in Seq(Byte) /\ line \in Seq(Byte) /\ <<Newline>> \in Seq(Byte)
      BY <1>1, <2>2, <2>5, BareWords DEF Reads
    <3> QED
      BY <3>1, ConcatAssociative
  <2>9. Reads(Byte, DevicesText(Append(bus, d)), {Newline}, Mapped(LineFor, Append(bus, d)), <<>>)
    BY <2>3, <2>4, <2>7, <2>8
  <2> QED
    BY <2>1, <2>9
<1> HIDE DEF T
<1>5. \A bus \in Seq(Devices) : bus \in T
  BY <1>3, <1>4, Extending
<1> QED
  BY <1>5 DEF T

\* parseDevicesL reads the devices that were written.
LEMMA Parsed ==
    ASSUME NEW bus \in Seq(Devices)
    PROVE  ParseDevicesL(DevicesText(bus)) = bus
<1>1. Len(bus) \in Nat /\ DOMAIN bus = 1..Len(bus) /\ \A i \in 1..Len(bus) : bus[i] \in Devices
  BY LenProperties, ElementOfSeq
<1>2. PICK lines : lines = Runs(DevicesText(bus), {Newline})
  OBVIOUS
<1>3. lines = Mapped(LineFor, bus)
  <2>1. Reads(Byte, DevicesText(bus), {Newline}, Mapped(LineFor, bus), <<>>)
    BY TextReads
  <2> QED
    BY <1>2, <2>1, ReadAll
<1>4. DOMAIN lines = 1..Len(bus) /\ \A i \in 1..Len(bus) : lines[i] = Line(bus[i])
  BY <1>1, <1>3 DEF Mapped, LineFor
<1>5. PICK fields : fields = [i \in DOMAIN lines |-> SplitFields(TrimTrailingWhitespace(lines[i]))]
  OBVIOUS
<1>6. \A i \in 1..Len(bus) : fields[i] = FieldsOf(bus[i])
  <2> TAKE i \in 1..Len(bus)
  <2>1. lines[i] = Line(bus[i]) /\ bus[i] \in Devices
    BY <1>1, <1>4
  <2>2. SplitFields(TrimTrailingWhitespace(lines[i])) = FieldsOf(bus[i])
    BY <2>1, LineIs, LineReads
  <2> QED
    BY <1>4, <1>5, <2>2
<1>7. DOMAIN fields = 1..Len(bus) /\ fields \in Seq(Range(fields)) /\ Len(fields) = Len(bus)
  <2>1. DOMAIN fields = 1..Len(bus)
    BY <1>4, <1>5
  <2>2. fields \in [1..Len(bus) -> Range(fields)]
    BY <1>5, <2>1 DEF Range
  <2>3. fields \in Seq(Range(fields)) /\ Len(fields) = Len(bus)
    BY ONLY <1>1, <2>2, Listed
  <2> QED
    BY <2>1, <2>3
<1>8. Only(fields, {f \in Range(fields) : Len(f) >= 2}) = fields
  <2>1. \A f \in Range(fields) : Len(f) >= 2
    <3> TAKE f \in Range(fields)
    <3>1. PICK i \in 1..Len(bus) : f = fields[i]
      BY <1>7 DEF Range
    <3>2. f = FieldsOf(bus[i]) /\ bus[i] \in Devices
      BY <1>1, <1>6, <3>1
    <3> QED
      BY <3>2, FieldsAre
  <2>2. Range(fields) \subseteq {f \in Range(fields) : Len(f) >= 2}
    BY <2>1
  <2> QED
    BY <1>7, <2>2, OnlyAgain
<1>9. ParseDevicesL(DevicesText(bus)) =
        [i \in DOMAIN fields |->
           [serial |-> fields[i][1], state |-> fields[i][2], model |-> ModelIn(fields[i])]]
  <2>1. PICK devices : devices = Only(fields, {f \in Range(fields) : Len(f) >= 2})
    OBVIOUS
  <2>2. ParseDevicesL(DevicesText(bus)) =
          [i \in DOMAIN devices |->
             [serial |-> devices[i][1], state |-> devices[i][2], model |-> ModelIn(devices[i])]]
    BY <1>2, <1>5, <2>1 DEF ParseDevicesL, ModelIn
  <2> QED
    BY <1>8, <2>1, <2>2
<1>10. \A i \in 1..Len(bus) :
         [serial |-> fields[i][1], state |-> fields[i][2], model |-> ModelIn(fields[i])] = bus[i]
  <2> TAKE i \in 1..Len(bus)
  <2>1. PICK d \in Devices : d = bus[i]
    BY <1>1
  <2>2. fields[i] = FieldsOf(d)
    BY <1>6, <2>1
  <2>3. fields[i][1] = d.serial /\ fields[i][2] = d.state /\ ModelIn(fields[i]) = d.model
    BY <2>2, FieldsAre
  <2>4. d = [serial |-> d.serial, state |-> d.state, model |-> d.model]
    BY DEF Devices
  <2> QED
    BY <2>1, <2>3, <2>4
<1>11. bus = [i \in 1..Len(bus) |-> bus[i]]
  BY <1>1
<1> QED
  BY <1>7, <1>9, <1>10, <1>11

LEMMA DisplayNameType ==
    ASSUME NEW d \in Devices
    PROVE  DisplayNameForDevice(d) \in Texts
<1>1. d.model \in Texts /\ d.serial \in Texts
  <2>1. d.model \in Words \cup {<<>>} /\ d.serial \in Words
    BY DEF Devices
  <2>2. Words \subseteq Texts /\ <<>> \in Texts
    BY BareWords, EmptySeq DEF Texts
  <2> QED
    BY <2>1, <2>2
<1>2. <<Space, Open>> \in Texts /\ <<Close>> \in Texts
  BY DEF Texts, Byte, Space, Open, Close
<1>3. d.model \o <<Space, Open>> \o d.serial \o <<Close>> \in Texts
  BY <1>1, <1>2, ConcatTexts
<1> QED
  BY <1>1, <1>3 DEF DisplayNameForDevice

-----------------------------------------------------------------------------
(* The lists of the find functions.                                        *)

Serials == {<<>>} \cup Words
Places  == [serial : Serials, path : Texts]

\* An entry is called what its path ends with, unless it is a device.
Entries == {e \in [name : Texts, mtime : Dates, of : Places] : e.of.path # Root => NameOf(e) = e.name}
Shown   == {Row(e) : e \in {x \in Entries : FillFindData(x).fits}}

\* The list of a directory has the type of a list of entries.
LEMMA DirectoryEntries ==
    ASSUME NEW entries \in Listings \cup DeepListings, here \in Places
    PROVE  AppendEntries(entries) \in Seq(Entries)
<1> DEFINE R == [name : Names, mtime : Dates]
<1>1. entries \in Seq(R)
  BY PanelAssumption
<1>2. PICK real :
        real = Only(entries, {e \in Range(entries) : e.name \notin {<<Dot>>, <<Dot, Dot>>}})
  OBVIOUS
<1>3. real \in Seq(R \cap {e \in Range(entries) : e.name \notin {<<Dot>>, <<Dot, Dot>>}})
  <2> HIDE DEF R
  <2> QED
    BY <1>1, <1>2, OnlyOf
<1>4. /\ Len(real) \in Nat /\ DOMAIN real = 1..Len(real)
      /\ \A i \in 1..Len(real) : real[i] \in R
  <2> HIDE DEF R
  <2> QED
    BY <1>3, LenProperties, ElementOfSeq
<1> DEFINE Entry(i) == [name |-> real[i].name, mtime |-> real[i].mtime,
                        of |-> [serial |-> here.serial, path |-> JoinWfxPath(here.path, real[i].name)]]
<1>5. AppendEntries(entries) = [i \in DOMAIN real |-> Entry(i)]
  BY <1>2 DEF AppendEntries
<1>6. \A i \in 1..Len(real) : Entry(i) \in Entries
  <2> TAKE i \in 1..Len(real)
  <2>1. /\ real[i].name \in Names /\ real[i].mtime \in Dates /\ real[i].name \in Texts
        /\ here.serial \in Serials /\ here.path \in Texts
    BY <1>4, NamesAreTexts DEF Places
  <2>2. PICK w : w = JoinWfxPath(here.path, real[i].name)
    OBVIOUS
  <2>3. w \in Texts /\ SubSeq(w, LastSlash(w) + 1, Len(w)) = real[i].name
    BY <2>1, <2>2, JoinIs
  <2>4. Entry(i).of = [serial |-> here.serial, path |-> w]
    BY <2>2
  <2>5. NameOf(Entry(i)) = real[i].name
    BY <2>3, <2>4 DEF NameOf
  <2>6. Entry(i) \in [name : Texts, mtime : Dates, of : Places]
    BY <2>1, <2>3, <2>4 DEF Places
  <2> HIDE <1>4
  <2> QED
    BY <2>5, <2>6 DEF Entries
<1> HIDE DEF Entry, R
<1>7. AppendEntries(entries) \in [1..Len(real) -> Entries]
  BY <1>4, <1>5, <1>6
<1> QED
  BY <1>4, <1>7, Listed

\* What advanceFindData leaves of the entries begins with one that fits.
LEMMA FittingIs ==
    ASSUME NEW R, NEW entries \in Seq(R)
    PROVE  \/ Fitting(entries) = <<>>
           \/ /\ Fitting(entries) \in Seq(R)
              /\ Head(Fitting(entries)) \in {e \in R : FillFindData(e).fits}
              /\ Tail(Fitting(entries)) \in Seq(R)
<1> DEFINE S == {i \in 1..Len(entries) : FillFindData(entries[i]).fits}
<1>1. Len(entries) \in Nat /\ \A i \in 1..Len(entries) : entries[i] \in R
  BY LenProperties, ElementOfSeq
<1>2. PICK first : first = IF S # {} THEN Min(S) ELSE 0
  OBVIOUS
<1>3. Fitting(entries) = IF first = 0 THEN <<>> ELSE SubSeq(entries, first, Len(entries))
  BY <1>2 DEF Fitting, SelectInSubSeq
<1>4. S # {} => Min(S) \in S
  <2>1. S \in SUBSET Nat
    BY <1>1
  <2> HIDE DEF S
  <2> QED
    BY <2>1, Least
<1>5. CASE S # {}
  <2>1. first \in 1..Len(entries) /\ FillFindData(entries[first]).fits
    BY <1>2, <1>4, <1>5
  <2>2. Fitting(entries) = SubSeq(entries, first, Len(entries))
    BY <1>1, <1>3, <2>1
  <2>3. SubSeq(entries, first, Len(entries)) \in Seq(R)
    BY <1>1, <2>1, PartType
  <2>4. /\ Head(SubSeq(entries, first, Len(entries))) = entries[first]
        /\ Tail(SubSeq(entries, first, Len(entries))) = SubSeq(entries, first + 1, Len(entries))
    BY <1>1, <2>1, HeadTailOfSubSeq
  <2>5. SubSeq(entries, first + 1, Len(entries)) \in Seq(R)
    BY <1>1, <2>1, PartType
  <2> QED
    BY <1>1, <2>1, <2>2, <2>3, <2>4, <2>5
<1>6. CASE S = {}
  BY <1>2, <1>3, <1>6
<1> QED
  BY <1>5, <1>6

-----------------------------------------------------------------------------
(* From UTF-8 to UTF-16 (utils.hpp).                                       *)

Units     == {u \in Nat : u <= 65535}
Ascii7    == 0..127
Scalar(c) == c \in Nat /\ c <= MaxCodePoint /\ ~Surrogate(c)

\* No number above 127 is an Ascii7 unit.
LEMMA BeyondAscii == \A n \in Nat : n > 127 => n \notin Ascii7
  BY SMT DEF Ascii7

LEMMA SeqLenIs ==
    ASSUME NEW b \in Byte
    PROVE  /\ SeqLen(b) \in 0..4
           /\ SeqLen(b) = 1 <=> b <= 127
           /\ SeqLen(b) = 0 => b > 127
           /\ SeqLen(b) > 1 => b >= 192
BY DEF SeqLen, Byte

LEMMA ByteIs == \A b \in Byte : b \in Nat /\ b <= 255 /\ b % 64 \in Int
BY DEF Byte

LEMMA BytesOf ==
    ASSUME NEW s \in Texts
    PROVE  /\ Len(s) \in Nat /\ DOMAIN s = 1..Len(s)
           /\ \A q \in 1..Len(s) : s[q] \in Byte
BY LenProperties, ElementOfSeq DEF Texts

LEMMA ReplacementIs == Scalar(Replacement) /\ Replacement > 127
BY SMT DEF Scalar, Replacement, MaxCodePoint, Surrogate, High, Low

\* The bits of the bytes of a character, together: a number.
Value(s, p, n, c) == CHOOSE w : w = [k \in 0..(n - 1) |->
                        IF k = 0 THEN c ELSE (64 * w[k - 1]) + (s[p + k] % 64)]

\* Each byte of a character adds its bits.
Summed(v, s, p, n, c) ==
    v[0] = c /\ \A k \in 1..(n - 1) : v[k] = (64 * v[k - 1]) + (s[p + k] % 64)

LEMMA ValueSteps ==
    ASSUME NEW s \in Texts, NEW p \in 1..Len(s), NEW n \in 1..4, p + n <= Len(s) + 1,
           NEW c \in Int
    PROVE  Summed(Value(s, p, n, c), s, p, n, c)
<1> DEFINE value == Value(s, p, n, c)
           Def(w) == w = [k \in 0..(n - 1) |->
                           IF k = 0 THEN c ELSE (64 * w[k - 1]) + (s[p + k] % 64)]
           step == [x \in Int \X (1..(n - 1)) |-> (64 * x[1]) + (s[p + x[2]] % 64)]
<1>1. n - 1 \in Nat /\ \A k \in 1..(n - 1) : s[p + k] % 64 \in Int
  <2>1. Len(s) \in Nat /\ \A q \in 1..Len(s) : s[q] % 64 \in Int
    BY BytesOf, ByteIs
  <2>2. \A k \in 1..(n - 1) : p + k \in 1..Len(s)
    BY <2>1
  <2> QED
    BY <2>1, <2>2
<1>2. \A v \in Int, k \in 1..(n - 1) :
        step[<<v, k>>] = (64 * v) + (s[p + k] % 64) /\ step[<<v, k>>] \in Int
  <2> TAKE v \in Int, k \in 1..(n - 1)
  <2>1. PICK rest \in Int : rest = s[p + k] % 64
    BY <1>1
  <2>2. step[<<v, k>>] = (64 * v) + (s[p + k] % 64)
    OBVIOUS
  <2> QED
    BY <2>1, <2>2
<1> HIDE DEF step
<1>3. PICK g \in [0..(n - 1) -> Int] : Follows(g, c, n - 1, step)
  BY <1>1, <1>2, Recursion
<1>4. Def(g)
  <2>1. \A k \in 1..(n - 1) : k - 1 \in 0..(n - 1)
    OBVIOUS
  <2>2. g[0] = c /\ \A k \in 1..(n - 1) : g[k] = (64 * g[k - 1]) + (s[p + k] % 64)
    BY <1>2, <1>3, <2>1 DEF Follows
  <2>3. \A k \in 0..(n - 1) : k = 0 \/ (k # 0 /\ k \in 1..(n - 1))
    OBVIOUS
  <2>4. \A k \in 0..(n - 1) :
          g[k] = IF k = 0 THEN c ELSE (64 * g[k - 1]) + (s[p + k] % 64)
    BY <2>2, <2>3, Zenon
  <2> QED
    BY <2>4
<1>5. Def(value)
  <2>1. value = CHOOSE w : Def(w)
    BY DEF Value
  <2> HIDE DEF Def
  <2> QED
    BY <1>4, <2>1
<1> HIDE DEF value
<1>6. value[0] = c /\ \A k \in 1..(n - 1) : value[k] = (64 * value[k - 1]) + (s[p + k] % 64)
  <2>1. 0 \in 0..(n - 1) /\ \A k \in 1..(n - 1) : k \in 0..(n - 1) /\ k # 0
    OBVIOUS
  <2>2. \A k \in 0..(n - 1) :
          value[k] = IF k = 0 THEN c ELSE (64 * value[k - 1]) + (s[p + k] % 64)
    BY <1>5, Zenon
  <2> QED
    BY <2>1, <2>2, Zenon
<1> QED
  BY <1>6 DEF value, Summed

\* The value being decoded is a number at every byte of a character.
LEMMA ValueType ==
    ASSUME NEW s \in Texts, NEW p \in 1..Len(s), NEW n \in 1..4, p + n <= Len(s) + 1,
           NEW c \in Int
    PROVE  Value(s, p, n, c)[n - 1] \in Int /\ (n = 1 => Value(s, p, n, c)[n - 1] = c)
<1> DEFINE value == Value(s, p, n, c)
           T == {k \in Nat : k <= n - 1 => value[k] \in Int}
<1>1. n - 1 \in Nat /\ \A k \in 1..(n - 1) : s[p + k] % 64 \in Int
  <2>1. Len(s) \in Nat /\ \A q \in 1..Len(s) : s[q] % 64 \in Int
    BY BytesOf, ByteIs
  <2>2. \A k \in 1..(n - 1) : p + k \in 1..Len(s)
    BY <2>1
  <2> QED
    BY <2>1, <2>2
<1>6. value[0] = c /\ \A k \in 1..(n - 1) : value[k] = (64 * value[k - 1]) + (s[p + k] % 64)
  <2>1. Summed(value, s, p, n, c)
    BY ValueSteps
  <2> HIDE DEF value
  <2> QED
    BY <2>1 DEF Summed
<1> HIDE DEF value
<1>7. 0 \in T
  BY <1>6
<1>8. ASSUME NEW k \in Nat, k \in T PROVE k + 1 \in T
  <2> SUFFICES ASSUME k + 1 <= n - 1 PROVE value[k + 1] \in Int
    OBVIOUS
  <2>1. k + 1 \in 1..(n - 1) /\ (k + 1) - 1 = k /\ value[k] \in Int
    BY <1>8
  <2>2. value[k + 1] = (64 * value[k]) + (s[p + (k + 1)] % 64)
    BY <1>6, <2>1
  <2>3. PICK rest \in Int : rest = s[p + (k + 1)] % 64
    BY <1>1, <2>1
  <2>4. PICK v \in Int : v = value[k]
    BY <2>1
  <2>5. (64 * v) + rest \in Int
    BY ONLY v \in Int, rest \in Int
  <2> QED
    BY <2>2, <2>3, <2>4, <2>5
<1>9. \A k \in Nat : k \in T
  <2> HIDE DEF T
  <2> QED
    BY <1>7, <1>8, Counting
<1> QED
  BY <1>1, <1>6, <1>9 DEF value

\* decodeUtf8 stays within the text and returns a scalar value: the byte itself where
\* there is an ASCII character, and else something beyond ASCII made of no ASCII byte.
LEMMA DecodeIs ==
    ASSUME NEW s \in Texts, NEW p \in 1..Len(s)
    PROVE  LET d == DecodeUtf8(s, p)
           IN  /\ d.consumed \in 1..4 /\ p + d.consumed <= Len(s) + 1
               /\ Scalar(d.codepoint)
               /\ \/ d.consumed = 1 /\ s[p] <= 127 /\ d.codepoint = s[p]
                  \/ /\ d.codepoint > 127
                     /\ \A q \in p..(p + d.consumed - 1) : s[q] > 127
<1>1. Len(s) \in Nat /\ DOMAIN s = 1..Len(s) /\ \A q \in 1..Len(s) : s[q] \in Byte
  BY BytesOf
<1>2. PICK b \in Byte : b = s[p]
  BY <1>1
<1>3. PICK n \in 0..4 :
        n = SeqLen(b) /\ (n = 1 <=> b <= 127) /\ (n = 0 => b > 127) /\ (n > 1 => b >= 192)
  BY SeqLenIs
<1>4. b \in 0..255
  BY DEF Byte
<1> DEFINE lead == b - LeadMark[n]
           value == CHOOSE w : w = [k \in 0..(n - 1) |->
                      IF k = 0 THEN lead ELSE (64 * w[k - 1]) + (s[p + k] % 64)]
           Bad(k) == [codepoint |-> Replacement, consumed |-> k]
           cut == \/ n = 0
                  \/ Len(s) - p + 1 < n
                  \/ \E k \in 1..(n - 1) : ~Continuation(s[p + k])
<1>5. DecodeUtf8(s, p) = IF cut THEN Bad(1)
                         ELSE IF NotScalar(value[n - 1], n) THEN Bad(n)
                         ELSE [codepoint |-> value[n - 1], consumed |-> n]
  BY <1>2, <1>3 DEF DecodeUtf8
<1> HIDE DEF value
<1>6. CASE cut
  <2>1. n # 1
    BY <1>1, <1>6
  <2>2. b > 127
    BY <1>3, <1>4, <2>1
  <2> HIDE DEF cut
  <2>3. DecodeUtf8(s, p) = [codepoint |-> Replacement, consumed |-> 1]
    BY <1>5, <1>6
  <2>4. \A q \in p..(p + 1 - 1) : q = p
    OBVIOUS
  <2>5. \A q \in p..(p + 1 - 1) : s[q] > 127
    BY <1>2, <2>2, <2>4
  <2> QED
    BY <1>1, <2>3, <2>5, ReplacementIs
<1>7. CASE ~cut
  <2>1. n \in 1..4 /\ p + n <= Len(s) + 1 /\ \A k \in 1..(n - 1) : Continuation(s[p + k])
    <3>1. n # 0 /\ ~(Len(s) - p + 1 < n) /\ \A k \in 1..(n - 1) : Continuation(s[p + k])
      BY <1>7, Zenon
    <3>2. Len(s) \in Nat /\ p \in Nat /\ n \in 0..4
      BY <1>1
    <3>3. n \in 1..4 /\ p + n <= Len(s) + 1
      BY ONLY <3>1, <3>2
    <3> QED
      BY <3>1, <3>3
  <2> HIDE DEF cut
  <2>2. lead \in Int /\ (n = 1 => lead = b)
    <3>1. PICK mark \in Int : mark = LeadMark[n] /\ (n = 1 => mark = 0)
      BY <2>1 DEF LeadMark
    <3> QED
      BY <1>4, <3>1
  <2>3. value[n - 1] \in Int /\ (n = 1 => value[n - 1] = lead)
    <3>1. value = Value(s, p, n, lead)
      BY DEF value, Value
    <3> HIDE DEF lead
    <3> QED
      BY <2>1, <2>2, <3>1, ValueType
  <2> HIDE DEF lead
  <2>4. PICK v \in Int : v = value[n - 1]
    BY <2>3
  <2>5. DecodeUtf8(s, p) = IF NotScalar(v, n) THEN Bad(n) ELSE [codepoint |-> v, consumed |-> n]
    BY <1>5, <1>7, <2>4
  <2>6. n > 1 => \A q \in p..(p + n - 1) : s[q] > 127
    <3> SUFFICES ASSUME n > 1, NEW q \in p..(p + n - 1) PROVE s[q] > 127
      OBVIOUS
    <3>1. CASE q = p
      BY <1>2, <1>3, <1>4, <3>1
    <3>2. CASE q # p
      <4>1. q - p \in 1..(n - 1) /\ p + (q - p) = q
        BY <2>1, <3>2
      <4>2. Continuation(s[q])
        BY <2>1, <4>1
      <4>3. PICK x \in 128..191 : x = s[q]
        BY <4>2 DEF Continuation
      <4>4. x > 127
        OBVIOUS
      <4> QED
        BY <4>3, <4>4, Zenon
    <3> QED
      BY <3>1, <3>2
  <2>7. CASE n = 1
    <3>1. v = b /\ b \in 0..127
      BY <1>3, <1>4, <2>2, <2>3, <2>4, <2>7
    <3>2. ~NotScalar(v, n) /\ Scalar(v)
      BY <2>7, <3>1, SMT DEF NotScalar, MinCodePoint, MaxCodePoint, Surrogate, High, Low, Scalar
    <3>3. DecodeUtf8(s, p) = [codepoint |-> v, consumed |-> 1]
      BY <2>5, <2>7, <3>2
    <3> QED
      BY <1>2, <2>1, <2>7, <3>1, <3>2, <3>3
  <2>8. CASE n > 1 /\ NotScalar(v, n)
    BY <2>1, <2>5, <2>6, <2>8, ReplacementIs
  <2>9. CASE n > 1 /\ ~NotScalar(v, n)
    <3>1. PICK min \in Nat : min = MinCodePoint[n] /\ min >= 128
      BY <2>1, <2>9 DEF MinCodePoint
    <3>2. v >= min /\ v <= MaxCodePoint /\ ~Surrogate(v)
      BY <2>9, <3>1 DEF NotScalar, MaxCodePoint
    <3>3. v > 127 /\ Scalar(v)
      BY <3>1, <3>2 DEF Scalar, MaxCodePoint
    <3> QED
      BY <2>1, <2>5, <2>6, <2>9, <3>3
  <2> QED
    BY <2>1, <2>7, <2>8, <2>9
<1> QED
  BY <1>6, <1>7

LEMMA OneUnit ==
    ASSUME NEW R, NEW c \in R
    PROVE  /\ <<c>> \in Seq(R) /\ Len(<<c>>) = 1 /\ <<c>>[1] = c
           /\ \A S : Only(<<c>>, S) = IF c \in S THEN <<c>> ELSE <<>>
<1>1. <<c>> \in Seq(R) /\ Len(<<c>>) = 1 /\ <<c>>[1] = c /\ <<c>> = Append(<<>>, c)
  OBVIOUS
<1>2. ASSUME NEW S PROVE Only(<<c>>, S) = IF c \in S THEN <<c>> ELSE <<>>
  <2>1. Only(Append(<<>>, c), S) = IF c \in S THEN Append(Only(<<>>, S), c) ELSE Only(<<>>, S)
    BY EmptySeq, OnlyAppend
  <2> QED
    BY <1>1, <2>1, OnlyEmpty
<1> QED
  BY <1>1, <1>2

\* A pair is a sequence of two.
LEMMA TwoUnits ==
    ASSUME NEW R, NEW a \in R, NEW b \in R
    PROVE  /\ <<a, b>> \in Seq(R) /\ Len(<<a, b>>) = 2
           /\ <<a, b>>[1] = a /\ <<a, b>>[2] = b
OBVIOUS

\* A scalar value becomes well-formed units, and ASCII only if it is.
LEMMA WideUnits ==
    ASSUME NEW c, Scalar(c)
    PROVE  /\ AppendWide(c) \in Seq(Units) /\ WellFormedWide(AppendWide(c))
           /\ c <= 127 => AppendWide(c) = <<c>>
           /\ c > 127 => Only(AppendWide(c), Ascii7) = <<>>
<1>1. c \in Nat /\ c <= 1114111 /\ ~Surrogate(c)
  BY DEF Scalar, MaxCodePoint
<1>2. CASE c <= 65535
  <2>1. AppendWide(c) = <<c>> /\ c \in Units
    BY <1>1, <1>2 DEF AppendWide, Units
  <2>2. PICK u : u = <<c>> /\ u \in Seq(Units) /\ Len(u) = 1 /\ u[1] = c
    BY <2>1, OneUnit
  <2>3. DOMAIN u = 1..1 /\ \A i \in 1..1 : i = 1
    BY <2>2, LenProperties
  <2>4. WellFormedWide(u)
    BY <1>1, <2>2, <2>3 DEF WellFormedWide, Surrogate
  <2>5. c > 127 => c \notin Ascii7
    BY <1>1 DEF Ascii7
  <2>6. c > 127 => Only(<<c>>, Ascii7) = <<>>
    BY <2>1, <2>5, OneUnit
  <2> QED
    BY <2>1, <2>2, <2>4, <2>6, Zenon
<1>3. CASE c > 65535
  <2>1. PICK high, low : high = 55296 + ((c - 65536) \div 1024) /\ low = 56320 + ((c - 65536) % 1024)
    OBVIOUS
  <2>2. /\ (c - 65536) \div 1024 \in Nat /\ (c - 65536) \div 1024 <= 1023
        /\ (c - 65536) % 1024 \in Nat /\ (c - 65536) % 1024 <= 1023
    BY <1>1, <1>3, SMT
  <2>3. /\ high \in Units /\ low \in Units /\ High(high) /\ Low(low) /\ ~Low(high) /\ ~High(low)
        /\ high > 127 /\ low > 127
    BY <2>1, <2>2, SMT DEF Units, High, Low
  <2>4. AppendWide(c) = <<high, low>>
    BY <1>1, <1>3, <2>1 DEF AppendWide
  <2>5. PICK u : u = <<high, low>> /\ u \in Seq(Units) /\ Len(u) = 2 /\ u[1] = high /\ u[2] = low
    <3>1. high \in Units /\ low \in Units
      BY <2>3
    <3>2. /\ <<high, low>> \in Seq(Units) /\ Len(<<high, low>>) = 2
          /\ <<high, low>>[1] = high /\ <<high, low>>[2] = low
      BY ONLY <3>1, TwoUnits
    <3> QED
      BY <3>2, Zenon
  <2>6. DOMAIN u = 1..2 /\ \A i \in 1..2 : i = 1 \/ i = 2
    BY <2>5, LenProperties
  <2>7. WellFormedWide(u)
    BY <2>3, <2>5, <2>6 DEF WellFormedWide
  <2>8. high \notin Ascii7 /\ low \notin Ascii7
    BY <2>3 DEF Ascii7
  <2>9. Only(u, Ascii7) = <<>>
    <3>1. \A i \in 1..Len(u) : u[i] \notin Ascii7
      BY <2>5, <2>6, <2>8, Zenon
    <3> QED
      BY <2>5, <3>1, OnlyOthers
  <2>10. ~(c <= 127)
    BY <1>1, <1>3
  <2> QED
    BY <2>4, <2>5, <2>7, <2>9, <2>10, Zenon
<1> QED
  BY <1>1, <1>2, <1>3

\* Two texts of well-formed UTF-16 in a row are one.
LEMMA WideConcat ==
    ASSUME NEW u \in Seq(Units), NEW v \in Seq(Units), WellFormedWide(u), WellFormedWide(v)
    PROVE  WellFormedWide(u \o v)
<1>1. PICK w : w = u \o v
  OBVIOUS
<1>2. /\ w \in Seq(Units) /\ Len(w) = Len(u) + Len(v)
      /\ Len(u) \in Nat /\ Len(v) \in Nat
      /\ DOMAIN w = 1..Len(w) /\ DOMAIN u = 1..Len(u) /\ DOMAIN v = 1..Len(v)
      /\ \A i \in 1..(Len(u) + Len(v)) : w[i] = IF i <= Len(u) THEN u[i] ELSE v[i - Len(u)]
  BY <1>1, ConcatProperties, LenProperties
<1>3. ASSUME NEW i \in 1..Len(w)
      PROVE  /\ High(w[i]) => i < Len(w) /\ Low(w[i + 1])
             /\ Low(w[i]) => i > 1 /\ High(w[i - 1])
  <2>1. CASE i <= Len(u)
    <3>1. i \in DOMAIN u /\ w[i] = u[i]
      BY <1>2, <2>1
    <3>2. High(w[i]) => i < Len(u) /\ Low(u[i + 1])
      BY <3>1 DEF WellFormedWide
    <3>3. Low(w[i]) => i > 1 /\ High(u[i - 1])
      BY <3>1 DEF WellFormedWide
    <3>4. i < Len(u) => i < Len(w) /\ w[i + 1] = u[i + 1]
      BY <1>2
    <3>5. i > 1 => w[i - 1] = u[i - 1]
      BY <1>2, <2>1
    <3> QED
      BY <3>2, <3>3, <3>4, <3>5, Zenon
  <2>2. CASE i > Len(u)
    <3>1. PICK j \in 1..Len(v) : j = i - Len(u)
      BY <1>2, <2>2
    <3>2. i = Len(u) + j /\ w[i] = v[j] /\ j \in DOMAIN v
      BY <1>2, <3>1
    <3>3. High(w[i]) => j < Len(v) /\ Low(v[j + 1])
      BY <3>2 DEF WellFormedWide
    <3>4. Low(w[i]) => j > 1 /\ High(v[j - 1])
      BY <3>2 DEF WellFormedWide
    <3>5. j < Len(v) => i < Len(w) /\ w[i + 1] = v[j + 1]
      <4> SUFFICES ASSUME j < Len(v) PROVE i < Len(w) /\ w[i + 1] = v[j + 1]
        OBVIOUS
      <4>1. /\ i < Len(w) /\ i + 1 \in 1..(Len(u) + Len(v)) /\ ~(i + 1 <= Len(u))
            /\ (i + 1) - Len(u) = j + 1
        BY <1>2, <3>2
      <4> QED
        BY <1>2, <4>1
    <3>6. j > 1 => i > 1 /\ w[i - 1] = v[j - 1]
      <4> SUFFICES ASSUME j > 1 PROVE i > 1 /\ w[i - 1] = v[j - 1]
        OBVIOUS
      <4>1. /\ i > 1 /\ i - 1 \in 1..(Len(u) + Len(v)) /\ ~(i - 1 <= Len(u))
            /\ (i - 1) - Len(u) = j - 1
        BY <1>2, <3>2
      <4> QED
        BY <1>2, <4>1
    <3> QED
      BY <3>3, <3>4, <3>5, <3>6, Zenon
  <2> QED
    BY <1>2, <2>1, <2>2
<1> QED
  BY <1>1, <1>2, <1>3 DEF WellFormedWide

\* utf8ToWide makes one piece of every character it decodes, and goes on behind it.
Widened(s) == [p \in 1..Len(s) |-> AppendWide(DecodeUtf8(s, p).codepoint)]
Taken(s)   == [p \in 1..Len(s) |-> DecodeUtf8(s, p).consumed]

LEMMA WidenedType ==
    ASSUME NEW s \in Texts
    PROVE  /\ Len(s) \in Nat /\ Jumps(Taken(s), Len(s))
           /\ \A p \in 1..Len(s) : Widened(s)[p] \in Seq(Units) /\ WellFormedWide(Widened(s)[p])
<1>1. Len(s) \in Nat
  BY BytesOf
<1>2. ASSUME NEW p \in 1..Len(s)
      PROVE  /\ Taken(s)[p] \in Nat \ {0} /\ p + Taken(s)[p] <= Len(s) + 1
             /\ Widened(s)[p] \in Seq(Units) /\ WellFormedWide(Widened(s)[p])
  <2>1. PICK d : d = DecodeUtf8(s, p)
    OBVIOUS
  <2>2. d.consumed \in 1..4 /\ p + d.consumed <= Len(s) + 1 /\ Scalar(d.codepoint)
    BY <2>1, DecodeIs
  <2>3. Taken(s)[p] = d.consumed /\ Widened(s)[p] = AppendWide(d.codepoint)
    BY <2>1 DEF Taken, Widened
  <2>4. d.consumed \in Nat \ {0}
    BY <2>2
  <2> QED
    BY <2>2, <2>3, <2>4, WideUnits
<1> QED
  BY <1>1, <1>2 DEF Jumps

\* utf8ToWide joins the pieces it steps through.
LEMMA Utf8ToWideChain ==
    ASSUME NEW s \in Texts
    PROVE  \E f \in [1..(Len(s) + 1) -> Seq(Units)] :
             Chained(f, 1, Len(s), Widened(s), Taken(s)) /\ Utf8ToWide(s) = f[1]
<1> DEFINE N == Len(s)
           D(p) == DecodeUtf8(s, p)
           piece == Widened(s)
           jump == Taken(s)
           Def(w) == w = [p \in 1..(N + 1) |-> IF p > N THEN <<>>
                            ELSE AppendWide(D(p).codepoint) \o w[p + D(p).consumed]]
           From == CHOOSE w : Def(w)
<1>1. N \in Nat
  BY BytesOf
<1>3. Utf8ToWide(s) = From[1]
  BY DEF Utf8ToWide
<1>6. \A p \in 1..N : piece[p] = AppendWide(D(p).codepoint) /\ jump[p] = D(p).consumed
  BY DEF Widened, Taken
<1>4. \A p \in 1..N : piece[p] \in Seq(Units)
  BY WidenedType
<1>5. Jumps(jump, N)
  BY WidenedType
<1> HIDE DEF N, D, piece, jump
<1>7. \A w : Def(w) <=> w = [p \in 1..(N + 1) |-> IF p > N THEN <<>> ELSE piece[p] \o w[p + jump[p]]]
  <2> TAKE w
  <2>1. \A p \in 1..(N + 1) :
          (IF p > N THEN <<>> ELSE AppendWide(D(p).codepoint) \o w[p + D(p).consumed])
            = (IF p > N THEN <<>> ELSE piece[p] \o w[p + jump[p]])
    <3> TAKE p \in 1..(N + 1)
    <3>1. p > N \/ p \in 1..N
      BY <1>1
    <3> QED
      BY <1>6, <3>1, Zenon
  <2>2. [p \in 1..(N + 1) |-> IF p > N THEN <<>>
                                ELSE AppendWide(D(p).codepoint) \o w[p + D(p).consumed]]
          = [p \in 1..(N + 1) |-> IF p > N THEN <<>> ELSE piece[p] \o w[p + jump[p]]]
    BY <2>1, Zenon
  <2> QED
    BY <2>2, Zenon
<1> HIDE DEF Def
<1>8. Def(From)
  <2>1. PICK g \in [1..(N + 1) -> Seq(Units)] : Chained(g, 1, N, piece, jump)
    BY <1>1, <1>4, <1>5, ChainExists
  <2>2. \A p \in 1..(N + 1) : g[p] = IF p > N THEN <<>> ELSE piece[p] \o g[p + jump[p]]
    <3> TAKE p \in 1..(N + 1)
    <3>1. (p > N /\ p = N + 1) \/ (~(p > N) /\ p \in 1..N)
      BY <1>1
    <3> QED
      BY <2>1, <3>1, Zenon DEF Chained
  <2>3. g = [p \in 1..(N + 1) |-> IF p > N THEN <<>> ELSE piece[p] \o g[p + jump[p]]]
    BY <2>2
  <2>4. Def(g)
    BY <1>7, <2>3, Zenon
  <2> QED
    BY <2>4
<1> HIDE DEF From
<1>9. From = [p \in 1..(N + 1) |-> IF p > N THEN <<>> ELSE piece[p] \o From[p + jump[p]]]
  BY <1>7, <1>8, Zenon
<1>10. From \in [1..(N + 1) -> Seq(Units)] /\ Chained(From, 1, N, piece, jump)
  BY <1>1, <1>4, <1>5, <1>9, ChainIs
<1> QED
  BY <1>3, <1>10 DEF N, piece, jump

\* utf8ToWide makes well-formed UTF-16 of any bytes, and leaves the ASCII in them as it
\* is.
LEMMA Utf8ToWideIs ==
    ASSUME NEW s \in Texts
    PROVE  /\ Utf8ToWide(s) \in Seq(Units) /\ WellFormedWide(Utf8ToWide(s))
           /\ Only(Utf8ToWide(s), Ascii7) = Only(s, Ascii7)
<1> DEFINE N == Len(s)
           D(p) == DecodeUtf8(s, p)
           piece == Widened(s)
           jump == Taken(s)
<1>1. N \in Nat /\ DOMAIN s = 1..N /\ \A q \in 1..N : s[q] \in Byte
  BY BytesOf
<1>2. ASSUME NEW p \in 1..N
      PROVE  /\ D(p).consumed \in 1..4 /\ p + D(p).consumed <= N + 1 /\ Scalar(D(p).codepoint)
             /\ \/ D(p).consumed = 1 /\ s[p] <= 127 /\ D(p).codepoint = s[p]
                \/ /\ D(p).codepoint > 127
                   /\ \A q \in p..(p + D(p).consumed - 1) : s[q] > 127
  BY DecodeIs
<1>3. PICK From \in [1..(N + 1) -> Seq(Units)] :
        Chained(From, 1, N, piece, jump) /\ Utf8ToWide(s) = From[1]
  BY Utf8ToWideChain
<1>4. \A p \in 1..N : piece[p] \in Seq(Units) /\ WellFormedWide(piece[p])
  BY WidenedType
<1>6. \A p \in 1..N : piece[p] = AppendWide(D(p).codepoint) /\ jump[p] = D(p).consumed
  BY DEF Widened, Taken
<1> HIDE DEF N, D, piece, jump
<1>10. From \in [1..(N + 1) -> Seq(Units)] /\ Chained(From, 1, N, piece, jump)
  BY <1>3
<1> DEFINE T == {p \in 1..(N + 1) : /\ WellFormedWide(From[p])
                                    /\ Only(From[p], Ascii7) = Only(SubSeq(s, p, N), Ascii7)}
<1>11. N + 1 \in T
  <2>1. From[N + 1] = <<>> /\ N + 1 \in 1..(N + 1)
    BY <1>1, <1>10 DEF Chained
  <2>2. WellFormedWide(<<>>)
    BY DEF WellFormedWide
  <2>3. SubSeq(s, N + 1, N) = <<>>
    BY <1>1, SubSeqEmpty
  <2> QED
    BY <2>1, <2>2, <2>3
<1>12. ASSUME NEW p \in 1..N, \A q \in (p + 1)..(N + 1) : q \in T PROVE p \in T
  <2>1. PICK k \in 1..4 : k = jump[p] /\ p + k <= N + 1
    BY <1>2, <1>6
  <2>2. p + k \in (p + 1)..(N + 1) /\ p + k \in 1..(N + 1)
    BY <1>1, <2>1
  <2>3. PICK rest \in Seq(Units) : /\ rest = From[p + k] /\ WellFormedWide(rest)
                                   /\ Only(rest, Ascii7) = Only(SubSeq(s, p + k, N), Ascii7)
    BY <1>10, <1>12, <2>2
  <2>4. From[p] = piece[p] \o rest
    BY <1>10, <2>1, <2>3 DEF Chained
  <2>5. WellFormedWide(From[p])
    BY <1>4, <2>3, <2>4, WideConcat
  <2>6. PICK bytes : bytes = SubSeq(s, p, p + k - 1)
    OBVIOUS
  <2>7. /\ bytes \in Texts /\ Len(bytes) = k
        /\ \A i \in 1..k : bytes[i] = s[p + i - 1] /\ p + i - 1 \in p..(p + k - 1)
    <3>1. \A i \in p..(p + k - 1) : s[i] \in Byte
      BY <1>1, <2>1
    <3>2. p \in Int /\ p + k - 1 \in Int /\ p <= p + k - 1 /\ (p + k - 1) - p + 1 = k
      BY <1>1, <2>1
    <3>3. /\ bytes \in Seq(Byte)
          /\ Len(bytes) = IF p <= p + k - 1 THEN (p + k - 1) - p + 1 ELSE 0
          /\ \A i \in 1..((p + k - 1) - p + 1) : bytes[i] = s[p + i - 1]
      BY <2>6, <3>1, <3>2, SubSeqProperties
    <3>4. \A i \in 1..k : p + i - 1 \in p..(p + k - 1)
      BY <1>1, <2>1
    <3> QED
      BY <3>2, <3>3, <3>4 DEF Texts
  <2>8. PICK after \in Texts : after = SubSeq(s, p + k, N)
    <3>1. p + k \in Nat \ {0} /\ N \in 0..Len(s)
      BY <1>1, <2>1 DEF N
    <3> QED
      BY <3>1, PartType DEF Texts
  <2>9. SubSeq(s, p, N) = bytes \o after
    <3>1. /\ p \in 1..(Len(s) + 1) /\ p + k - 1 \in (p - 1)..Len(s) /\ N \in (p + k - 1)..Len(s)
          /\ (p + k - 1) + 1 = p + k
      <4>1. N \in Nat /\ N = Len(s) /\ p \in 1..N /\ p + k <= N + 1
        BY <1>1, <2>1 DEF N
      <4> QED
        BY ONLY <4>1, k \in 1..4
    <3>2. SubSeq(s, p, p + k - 1) \o SubSeq(s, (p + k - 1) + 1, N) = SubSeq(s, p, N)
      BY <3>1, ConcatAdjacentSubSeq DEF Texts
    <3> QED
      BY <2>6, <2>8, <3>1, <3>2
  <2>10. Only(piece[p], Ascii7) = Only(bytes, Ascii7)
    <3>1. PICK c : c = D(p).codepoint /\ Scalar(c) /\ piece[p] = AppendWide(c)
      BY <1>2, <1>6
    <3>2. CASE k = 1 /\ s[p] <= 127 /\ c = s[p]
      <4>1. c <= 127
        BY <3>2
      <4>2. piece[p] = <<c>>
        BY <3>1, <4>1, WideUnits
      <4>3. bytes = <<c>>
        <5>1. bytes[1] = s[p]
          BY <1>1, <2>7, <3>2
        <5>2. c \in Byte
          BY <1>1, <3>2
        <5>3. <<c>> \in Seq(Byte) /\ Len(<<c>>) = 1 /\ <<c>>[1] = c
          BY <5>2, OneUnit
        <5>4. \A i \in 1..Len(bytes) : i = 1
          BY <2>7, <3>2
        <5>5. Len(bytes) = 1 /\ \A i \in 1..Len(bytes) : bytes[i] = <<c>>[i]
          BY <2>7, <3>2, <5>1, <5>3, <5>4, Zenon
        <5>6. bytes \in Seq(Byte)
          BY <2>7 DEF Texts
        <5> QED
          BY <5>3, <5>5, <5>6, SeqEqual
      <4> QED
        BY <4>2, <4>3
    <3>3. CASE c > 127 /\ \A q \in p..(p + k - 1) : s[q] > 127
      <4>1. Only(piece[p], Ascii7) = <<>>
        BY <3>1, <3>3, WideUnits
      <4>2. \A i \in 1..Len(bytes) : bytes[i] > 127
        BY <2>7, <3>3, Zenon
      <4>3. \A i \in 1..Len(bytes) : bytes[i] \notin Ascii7
        <5> TAKE i \in 1..Len(bytes)
        <5>1. PICK b \in Nat : b = bytes[i] /\ b > 127
          BY <2>7, <4>2, BytesOf, ByteIs
        <5>2. b \notin Ascii7
          <6>1. b \in Nat /\ b > 127
            BY <5>1, Zenon
          <6> QED
            BY <6>1, BeyondAscii, Zenon
        <5> QED
          BY <5>1, <5>2, Zenon
      <4> QED
        BY <2>7, <4>1, <4>3, OnlyOthers DEF Texts
    <3> QED
      BY <1>2, <1>6, <2>1, <3>1, <3>2, <3>3
  <2>11. Only(From[p], Ascii7) = Only(SubSeq(s, p, N), Ascii7)
    <3>1. Only(piece[p] \o rest, Ascii7) = Only(piece[p], Ascii7) \o Only(rest, Ascii7)
      BY <1>4, <2>3, OnlyConcat
    <3>2. Only(bytes \o after, Ascii7) = Only(bytes, Ascii7) \o Only(after, Ascii7)
      BY <2>7, <2>8, OnlyConcat DEF Texts
    <3> QED
      BY <2>3, <2>4, <2>8, <2>9, <2>10, <3>1, <3>2, Zenon
  <2> QED
    BY <1>1, <2>2, <2>5, <2>11
<1>13. \A p \in 1..(N + 1) : p \in T
  <2> HIDE DEF T
  <2> QED
    BY <1>1, <1>11, <1>12, Backwards
<1>14. 1 \in 1..(N + 1)
  BY <1>1
<1>15. SubSeq(s, 1, N) = s
  BY SubSeqFull DEF Texts, N
<1>16. WellFormedWide(From[1]) /\ Only(From[1], Ascii7) = Only(s, Ascii7)
  BY <1>13, <1>14, <1>15
<1> QED
  BY <1>3, <1>10, <1>14, <1>16

-----------------------------------------------------------------------------
(* Well-formed UTF-8.                                                      *)

\* A part of s that t has too, d places on.
LEMMA SamePart ==
    ASSUME NEW s \in Texts, NEW t \in Texts, NEW p \in 1..Len(s), NEW q \in p..Len(s),
           NEW d \in Int, p + d >= 1, q + d <= Len(t), \A i \in p..q : s[i] = t[i + d]
    PROVE  SubSeq(s, p, q) = SubSeq(t, p + d, q + d)
<1>1. Len(s) \in Nat /\ Len(t) \in Nat
  BY BytesOf
<1>2. PICK a, b : a = p + d /\ b = q + d
  OBVIOUS
<1>3. a \in Int /\ b \in Int /\ p <= q /\ a <= b /\ (b - a) + 1 = (q - p) + 1 /\ q - p \in Nat
  BY <1>1, <1>2
<1>4. \A i \in p..q : s[i] \in Byte
  BY <1>1, BytesOf
<1>5. \A i \in a..b : t[i] \in Byte
  <2> TAKE i \in a..b
  <2>1. i \in 1..Len(t)
    BY <1>1, <1>2
  <2> QED
    BY <2>1, BytesOf
<1>6. /\ SubSeq(s, p, q) \in Seq(Byte) /\ Len(SubSeq(s, p, q)) = (q - p) + 1
      /\ \A i \in 1..(q - p + 1) : SubSeq(s, p, q)[i] = s[p + i - 1]
  <2>1. p \in Int /\ q \in Int
    BY <1>1
  <2> QED
    BY <1>3, <1>4, <2>1, SubSeqProperties
<1>7. /\ SubSeq(t, a, b) \in Seq(Byte) /\ Len(SubSeq(t, a, b)) = (b - a) + 1
      /\ \A i \in 1..(b - a + 1) : SubSeq(t, a, b)[i] = t[a + i - 1]
  BY <1>3, <1>5, SubSeqProperties
<1>8. \A i \in 1..(q - p + 1) : s[p + i - 1] = t[a + i - 1]
  <2> TAKE i \in 1..(q - p + 1)
  <2>1. PICK j \in p..q : j = p + i - 1
    BY <1>3
  <2>2. a + i - 1 = j + d
    BY <1>1, <1>2, <2>1
  <2> QED
    BY <2>1, <2>2
<1>9. SubSeq(s, p, q) = SubSeq(t, a, b)
  <2>1. PICK u \in Seq(Byte) : u = SubSeq(s, p, q)
    BY <1>6
  <2>2. PICK v \in Seq(Byte) : v = SubSeq(t, a, b)
    BY <1>7
  <2>3. Len(u) = Len(v) /\ \A i \in 1..Len(u) : u[i] = v[i]
    BY <1>3, <1>6, <1>7, <1>8, <2>1, <2>2
  <2>4. u = v
    BY <2>3, SeqEqual
  <2> QED
    BY <2>1, <2>2, <2>4
<1> QED
  BY <1>2, <1>9

\* B has p and the places where the characters from there on begin, and the end.
Boundaries(s, p, B) ==
    /\ B \subseteq 1..(Len(s) + 1) /\ p \in B
    /\ \A q \in B : q <= Len(s) =>
          \E n \in 1..4 : q + n \in B /\ WellFormedChar(SubSeq(s, q, q + n - 1))

\* Well-formedness by WellFormed is having a set of character boundaries.
LEMMA WellFormedIs ==
    ASSUME NEW s \in Texts
    PROVE  WellFormed(s) <=> \E B : Boundaries(s, 1, B)
<1> DEFINE N == Len(s)
           C(p, n) == WellFormedChar(SubSeq(s, p, p + n - 1))
           Def(w) == w = [p \in 1..(N + 1) |->
                            \/ p > N
                            \/ \E n \in 1..4 : p + n <= N + 1 /\ C(p, n) /\ w[p + n]]
           From == CHOOSE w : Def(w)
<1>1. N \in Nat
  BY BytesOf
<1>2. WellFormed(s) <=> From[1]
  BY DEF WellFormed
<1>3. \A p, B : Boundaries(s, p, B) <=>
          /\ B \subseteq 1..(N + 1) /\ p \in B
          /\ \A q \in B : q <= N => \E n \in 1..4 : q + n \in B /\ C(q, n)
  BY DEF Boundaries
<1> HIDE DEF N, C
<1>4. Def(From)
  <2> DEFINE g == [p \in 1..(N + 1) |-> \E B : Boundaries(s, p, B)]
  <2>1. ASSUME NEW p \in 1..(N + 1)
        PROVE  (\E B : Boundaries(s, p, B)) <=>
                  \/ p > N
                  \/ \E n \in 1..4 : p + n <= N + 1 /\ C(p, n) /\ \E B : Boundaries(s, p + n, B)
    <3>1. CASE p > N
      <4>1. p = N + 1 /\ {p} \subseteq 1..(N + 1) /\ \A q \in {p} : ~(q <= N)
        BY <1>1, <3>1
      <4>2. Boundaries(s, p, {p})
        BY <1>3, <4>1
      <4> QED
        BY <3>1, <4>2
    <3>2. ASSUME NEW B, Boundaries(s, p, B), ~(p > N)
          PROVE  \E n \in 1..4 : p + n <= N + 1 /\ C(p, n) /\ \E D : Boundaries(s, p + n, D)
      <4>1. PICK n \in 1..4 : p + n \in B /\ C(p, n)
        BY <1>1, <1>3, <3>2
      <4>2. p + n <= N + 1
        BY <1>1, <1>3, <3>2, <4>1
      <4>3. Boundaries(s, p + n, B)
        BY <1>3, <3>2, <4>1
      <4> QED
        BY <4>1, <4>2, <4>3
    <3>3. ASSUME NEW n \in 1..4, p + n <= N + 1, C(p, n), NEW B, Boundaries(s, p + n, B)
          PROVE  Boundaries(s, p, B \cup {p})
      BY <1>3, <3>3
    <3> QED
      BY <3>1, <3>2, <3>3
  <2>2. \A p \in 1..(N + 1), n \in 1..4 : p + n <= N + 1 =>
            (g[p + n] <=> \E B : Boundaries(s, p + n, B))
    BY <1>1
  <2>3. \A p \in 1..(N + 1) :
            (\E B : Boundaries(s, p, B)) =
              (\/ p > N \/ \E n \in 1..4 : p + n <= N + 1 /\ C(p, n) /\ g[p + n])
    <3> TAKE p \in 1..(N + 1)
    <3> HIDE DEF g
    <3> QED
      BY <2>1, <2>2, Zenon
  <2>4. g = [p \in 1..(N + 1) |-> \E B : Boundaries(s, p, B)]
    OBVIOUS
  <2> HIDE DEF g
  <2>5. g = [p \in 1..(N + 1) |->
                \/ p > N \/ \E n \in 1..4 : p + n <= N + 1 /\ C(p, n) /\ g[p + n]]
    BY <2>3, <2>4, Zenon
  <2>6. Def(g)
    BY <2>5
  <2> HIDE DEF Def
  <2> QED
    BY <2>6
<1>5. \A p \in 1..(N + 1) :
         From[p] <=> (\/ p > N \/ \E n \in 1..4 : p + n <= N + 1 /\ C(p, n) /\ From[p + n])
  <2> HIDE DEF From
  <2>1. From = [p \in 1..(N + 1) |->
                  \/ p > N \/ \E n \in 1..4 : p + n <= N + 1 /\ C(p, n) /\ From[p + n]]
    BY <1>4
  <2> HIDE DEF Def
  <2>2. \A p \in 1..(N + 1) :
           From[p] = (\/ p > N \/ \E n \in 1..4 : p + n <= N + 1 /\ C(p, n) /\ From[p + n])
    BY <2>1, Zenon
  <2> QED
    BY <2>2, Zenon
<1> HIDE DEF From, Def
<1>6. ASSUME From[1] PROVE \E B : Boundaries(s, 1, B)
  <2> DEFINE B == {p \in 1..(N + 1) : From[p]}
  <2>1. B \subseteq 1..(N + 1) /\ 1 \in B
    BY <1>1, <1>6
  <2>2. ASSUME NEW q \in B, q <= N PROVE \E n \in 1..4 : q + n \in B /\ C(q, n)
    <3>1. PICK n \in 1..4 : q + n <= N + 1 /\ C(q, n) /\ From[q + n]
      BY <1>1, <1>5, <2>2
    <3>2. q + n \in 1..(N + 1)
      BY <1>1, <3>1
    <3> QED
      BY <3>1, <3>2
  <2> HIDE DEF B
  <2>3. Boundaries(s, 1, B)
    BY <1>3, <2>1, <2>2
  <2> QED
    BY <2>3
<1>7. ASSUME NEW B, Boundaries(s, 1, B) PROVE From[1]
  <2> DEFINE T == {p \in 1..(N + 1) : p \in B => From[p]}
  <2>1. N + 1 \in T
    BY <1>1, <1>5
  <2>2. ASSUME NEW p \in 1..N, \A q \in (p + 1)..(N + 1) : q \in T PROVE p \in T
    <3> SUFFICES ASSUME p \in B PROVE From[p]
      BY <1>1
    <3>1. PICK n \in 1..4 : p + n \in B /\ C(p, n)
      BY <1>1, <1>3, <1>7
    <3>2. p + n \in 1..(N + 1) /\ p + n <= N + 1 /\ p + n \in (p + 1)..(N + 1)
      BY <1>1, <1>3, <1>7, <3>1
    <3>3. From[p + n]
      BY <2>2, <3>1, <3>2
    <3> QED
      BY <1>1, <1>5, <3>1, <3>2, <3>3
  <2>3. \A p \in 1..(N + 1) : p \in T
    <3> HIDE DEF T
    <3> QED
      BY <1>1, <2>1, <2>2, Backwards
  <2>4. 1 \in B /\ 1 \in 1..(N + 1)
    BY <1>1, <1>3, <1>7
  <2> QED
    BY <2>3, <2>4
<1> QED
  BY <1>2, <1>6, <1>7

\* A character is a lead and continuation bytes, or one ASCII byte.
LEMMA CharShape ==
    ASSUME NEW c \in Texts, WellFormedChar(c)
    PROVE  /\ Len(c) \in 1..4 /\ ~Continuation(c[1])
           /\ c[1] <= 127 => Len(c) = 1
           /\ \A i \in 2..Len(c) : Continuation(c[i])
<1>1. PICK n \in Nat : n = Len(c)
  BY BytesOf
<1>2. CASE n = 1
  <2>1. Len(c) = 1 /\ 1 \in 1..Len(c)
    BY <1>1, <1>2
  <2>2. c[1] \in Byte
    BY <2>1, BytesOf
  <2>3. c[1] <= 127
    BY <2>1 DEF WellFormedChar
  <2>4. \A b \in Byte : b <= 127 => ~Continuation(b)
    BY DEF Continuation, Byte
  <2> QED
    BY <1>1, <1>2, <2>1, <2>2, <2>3, <2>4
<1>3. CASE n = 2
  <2>1. c[1] \in 194..223 /\ c[2] \in 128..191
    BY <1>1, <1>3 DEF WellFormedChar
  <2> QED
    BY <1>1, <1>3, <2>1 DEF Continuation
<1>4. CASE n = 3
  <2>1. c[1] \in 224..239 /\ c[2] \in 128..191 /\ c[3] \in 128..191
    BY <1>1, <1>4 DEF WellFormedChar
  <2> QED
    BY <1>1, <1>4, <2>1 DEF Continuation
<1>5. CASE n = 4
  <2>1. c[1] \in 240..244 /\ c[2] \in 128..191 /\ c[3] \in 128..191 /\ c[4] \in 128..191
    BY <1>1, <1>5 DEF WellFormedChar
  <2> QED
    BY <1>1, <1>5, <2>1 DEF Continuation
<1>6. n \in 1..4
  BY <1>1 DEF WellFormedChar
<1> QED
  BY <1>2, <1>3, <1>4, <1>5, <1>6

\* The characters of s as they stand in it.
LEMMA CharAt ==
    ASSUME NEW s \in Texts, NEW q \in 1..Len(s), NEW n \in 1..4, q + n <= Len(s) + 1,
           WellFormedChar(SubSeq(s, q, q + n - 1))
    PROVE  /\ ~Continuation(s[q])
           /\ s[q] <= 127 => n = 1
           /\ \A i \in (q + 1)..(q + n - 1) : Continuation(s[i])
<1>1. Len(s) \in Nat /\ \A i \in 1..Len(s) : s[i] \in Byte
  BY BytesOf
<1>2. PICK c : c = SubSeq(s, q, q + n - 1)
  OBVIOUS
<1>3. c \in Texts /\ Len(c) = n /\ \A i \in 1..n : c[i] = s[q + i - 1]
  <2>1. /\ q \in Int /\ q + n - 1 \in Int /\ q <= q + n - 1 /\ (q + n - 1) - q + 1 = n
        /\ \A i \in q..(q + n - 1) : i \in 1..Len(s)
    BY <1>1
  <2>2. \A i \in q..(q + n - 1) : s[i] \in Byte
    BY <1>1, <2>1
  <2>3. /\ c \in Seq(Byte)
        /\ Len(c) = IF q <= q + n - 1 THEN (q + n - 1) - q + 1 ELSE 0
        /\ \A i \in 1..((q + n - 1) - q + 1) : c[i] = s[q + i - 1]
    BY <1>2, <2>1, <2>2, SubSeqProperties
  <2> QED
    BY <2>1, <2>3 DEF Texts
<1>4. /\ ~Continuation(c[1]) /\ (c[1] <= 127 => n = 1)
      /\ \A i \in 2..n : Continuation(c[i])
  BY <1>2, <1>3, CharShape
<1>5. c[1] = s[q]
  BY <1>1, <1>3
<1>6. ASSUME NEW i \in (q + 1)..(q + n - 1) PROVE Continuation(s[i])
  <2>1. PICK j \in 2..n : j = i - q + 1
    BY <1>1
  <2>2. j \in 1..n /\ q + j - 1 = i
    BY <1>1, <2>1
  <2> QED
    BY <1>3, <1>4, <2>1, <2>2
<1> QED
  BY <1>4, <1>5, <1>6

\* One character is well-formed.
LEMMA OneCharacter ==
    ASSUME NEW c \in Texts, WellFormedChar(c)
    PROVE  WellFormed(c)
<1>1. PICK n \in 1..4 : n = Len(c)
  BY CharShape
<1>2. SubSeq(c, 1, n) = c
  BY <1>1, SubSeqFull DEF Texts
<1>3. \A q \in {1, n + 1} : q <= n => q = 1
  BY <1>1
<1>4. 1 + n - 1 = n /\ 1 + n = n + 1 /\ {1, n + 1} \subseteq 1..(n + 1)
  BY <1>1
<1>5. Boundaries(c, 1, {1, n + 1})
  BY <1>1, <1>2, <1>3, <1>4 DEF Boundaries
<1> QED
  BY <1>5, WellFormedIs

\* So is what has only ASCII, and nothing at all.
LEMMA AsciiIsWellFormed ==
    ASSUME NEW s \in Texts, \A i \in 1..Len(s) : s[i] <= 127
    PROVE  WellFormed(s)
<1>1. Len(s) \in Nat
  BY BytesOf
<1>2. ASSUME NEW q \in 1..(Len(s) + 1), q <= Len(s)
      PROVE  1 \in 1..4 /\ q + 1 \in 1..(Len(s) + 1) /\ WellFormedChar(SubSeq(s, q, q + 1 - 1))
  <2>1. q \in 1..Len(s) /\ q + 1 - 1 = q /\ s[q] \in Byte /\ q \in q..Len(s)
    BY <1>1, <1>2, BytesOf
  <2>2. SubSeq(s, q, q) = SubSeq(s, q, q - 1) \o <<s[q]>>
    BY <2>1, SubSeqRecursiveSecond DEF Texts
  <2>3. SubSeq(s, q, q - 1) = <<>>
    BY <1>1, SubSeqEmpty
  <2>4. <<s[q]>> \in Seq(Byte) /\ Len(<<s[q]>>) = 1 /\ <<s[q]>>[1] = s[q]
    BY <2>1, OneUnit
  <2>5. SubSeq(s, q, q) = <<s[q]>>
    BY <2>2, <2>3, <2>4, ConcatEmptySeq
  <2>6. WellFormedChar(<<s[q]>>)
    BY <2>1, <2>4 DEF WellFormedChar
  <2>7. WellFormedChar(SubSeq(s, q, q + 1 - 1))
    BY <2>1, <2>5, <2>6, Zenon
  <2>8. 1 \in 1..4 /\ q + 1 \in 1..(Len(s) + 1)
    BY <1>1, <2>1
  <2> QED
    BY <2>7, <2>8
<1>3. Boundaries(s, 1, 1..(Len(s) + 1))
  BY <1>1, <1>2 DEF Boundaries
<1> QED
  BY <1>3, WellFormedIs

\* Two well-formed texts in a row are well-formed: their boundaries are put together.
LEMMA WellFormedConcat ==
    ASSUME NEW s \in Texts, NEW t \in Texts, WellFormed(s), WellFormed(t)
    PROVE  WellFormed(s \o t)
<1>1. PICK m \in Nat, n \in Nat : m = Len(s) /\ n = Len(t)
  BY BytesOf
<1>2. PICK u \in Texts : u = s \o t /\ Len(u) = m + n
        /\ \A i \in 1..(m + n) : u[i] = IF i <= m THEN s[i] ELSE t[i - m]
  <2>1. /\ s \o t \in Seq(Byte) /\ Len(s \o t) = Len(s) + Len(t)
        /\ \A i \in 1..(Len(s) + Len(t)) : (s \o t)[i] = IF i <= Len(s) THEN s[i] ELSE t[i - Len(s)]
    BY ConcatProperties DEF Texts
  <2> QED
    BY <1>1, <2>1, Zenon DEF Texts
<1>3. PICK A : Boundaries(s, 1, A)
  BY WellFormedIs
<1>4. PICK B : Boundaries(t, 1, B)
  BY WellFormedIs
<1> DEFINE D == {q \in 1..(m + n + 1) : (q <= m /\ q \in A) \/ (q > m /\ q - m \in B)}
<1>5. D \subseteq 1..(Len(u) + 1) /\ 1 \in D
  <2>1. 1 \in A /\ 1 \in B
    BY <1>3, <1>4 DEF Boundaries
  <2>2. m = 0 => 1 - m = 1
    BY <1>1
  <2> QED
    BY <1>1, <1>2, <2>1, <2>2
<1>6. ASSUME NEW q \in D, q <= Len(u)
      PROVE  \E k \in 1..4 : q + k \in D /\ WellFormedChar(SubSeq(u, q, q + k - 1))
  <2>1. CASE q <= m
    <3>1. q \in A /\ q \in 1..Len(s)
      BY <1>1, <1>6, <2>1
    <3>2. PICK k \in 1..4 : q + k \in A /\ WellFormedChar(SubSeq(s, q, q + k - 1))
      BY <1>1, <1>3, <2>1, <3>1 DEF Boundaries
    <3>3. q + k <= m + 1 /\ q + k - 1 \in q..m /\ q + k \in 1..(m + n + 1)
      BY <1>1, <1>3, <3>1, <3>2 DEF Boundaries
    <3>4. \A i \in q..(q + k - 1) : s[i] = u[i + 0]
      BY <1>1, <1>2, <3>1, <3>3
    <3>5. SubSeq(s, q, q + k - 1) = SubSeq(u, q + 0, (q + k - 1) + 0)
      <4>1. q + k - 1 \in q..Len(s) /\ q + 0 >= 1 /\ (q + k - 1) + 0 <= Len(u) /\ 0 \in Int
        BY <1>1, <1>2, <3>1, <3>3
      <4> QED
        BY <3>1, <3>4, <4>1, SamePart
    <3>6. WellFormedChar(SubSeq(u, q, q + k - 1))
      <4>1. q + 0 = q /\ (q + k - 1) + 0 = q + k - 1
        BY <3>1
      <4> QED
        BY <3>2, <3>5, <4>1
    <3>7. q + k \in D
      <4>1. q + k > m => q + k - m = 1
        BY <1>1, <3>1, <3>3
      <4>2. 1 \in B
        BY <1>4 DEF Boundaries
      <4> QED
        BY <1>1, <3>2, <3>3, <4>1, <4>2
    <3> QED
      BY <3>6, <3>7
  <2>2. CASE q > m
    <3>1. PICK p \in 1..n : p = q - m /\ p \in B
      BY <1>1, <1>2, <1>6, <2>2
    <3>2. PICK k \in 1..4 : p + k \in B /\ WellFormedChar(SubSeq(t, p, p + k - 1))
      BY <1>1, <1>4, <3>1 DEF Boundaries
    <3>3. p + k <= n + 1 /\ p + k - 1 \in p..n
      BY <1>1, <1>4, <3>1, <3>2 DEF Boundaries
    <3>4. \A i \in p..(p + k - 1) : t[i] = u[i + m]
      <4> TAKE i \in p..(p + k - 1)
      <4>1. i + m \in 1..(m + n) /\ ~(i + m <= m) /\ (i + m) - m = i
        BY <1>1, <3>1, <3>3
      <4> QED
        BY <1>2, <4>1
    <3>5. SubSeq(t, p, p + k - 1) = SubSeq(u, p + m, (p + k - 1) + m)
      <4>1. /\ p \in 1..Len(t) /\ p + k - 1 \in p..Len(t) /\ p + m >= 1
            /\ (p + k - 1) + m <= Len(u) /\ m \in Int
        BY <1>1, <1>2, <3>1, <3>3
      <4> QED
        BY <3>4, <4>1, SamePart
    <3>6. p + m = q /\ (p + k - 1) + m = q + k - 1 /\ q + k > m /\ (q + k) - m = p + k
          /\ q + k \in 1..(m + n + 1)
      BY <1>1, <3>1, <3>3
    <3> QED
      BY <3>2, <3>5, <3>6
  <2> QED
    BY <1>1, <2>1, <2>2
<1> HIDE DEF D
<1>7. Boundaries(u, 1, D)
  BY <1>5, <1>6 DEF Boundaries
<1> QED
  BY <1>2, <1>7, WellFormedIs

\* A well-formed text cut in front of a character is well-formed.
LEMMA WellFormedCut ==
    ASSUME NEW s \in Texts, WellFormed(s), NEW k \in 0..Len(s),
           k \in 1..(Len(s) - 1) => ~Continuation(s[k + 1])
    PROVE  WellFormed(SubSeq(s, 1, k))
<1>1. Len(s) \in Nat /\ k \in Nat /\ \A i \in 1..Len(s) : s[i] \in Byte
  BY BytesOf
<1>2. PICK u \in Texts : u = SubSeq(s, 1, k) /\ Len(u) = k /\ \A i \in 1..k : u[i] = s[i]
  <2>1. 1 \in Int /\ k \in Int /\ \A i \in 1..k : s[i] \in Byte
    BY <1>1
  <2>2. /\ SubSeq(s, 1, k) \in Seq(Byte)
        /\ Len(SubSeq(s, 1, k)) = IF 1 <= k THEN k - 1 + 1 ELSE 0
        /\ \A i \in 1..(k - 1 + 1) : SubSeq(s, 1, k)[i] = s[1 + i - 1]
    BY <2>1, SubSeqProperties
  <2>3. k - 1 + 1 = k /\ (~(1 <= k) => k = 0) /\ \A i \in 1..k : 1 + i - 1 = i
    BY <1>1
  <2>4. Len(SubSeq(s, 1, k)) = k /\ \A i \in 1..k : SubSeq(s, 1, k)[i] = s[i]
    BY <2>2, <2>3
  <2> QED
    BY <2>2, <2>4 DEF Texts
<1>3. PICK A : Boundaries(s, 1, A)
  BY WellFormedIs
<1>10. 1 \in A /\ A \subseteq 1..(Len(s) + 1)
  BY <1>3 DEF Boundaries
<1> DEFINE D == {q \in A : q <= k} \cup {k + 1}
<1>4. D \subseteq 1..(Len(u) + 1)
  <2>1. \A q \in A : q <= k => q \in 1..(k + 1)
    BY <1>1, <1>10
  <2>2. k + 1 \in 1..(k + 1)
    BY <1>1
  <2> QED
    BY <1>2, <2>1, <2>2
<1>5. 1 \in D
  BY <1>1, <1>3 DEF Boundaries
<1>6. ASSUME NEW q \in D, q <= Len(u)
      PROVE  \E n \in 1..4 : q + n \in D /\ WellFormedChar(SubSeq(u, q, q + n - 1))
  <2>1. q \in A /\ q \in 1..Len(s) /\ q \in 1..k
    BY <1>1, <1>2, <1>3, <1>6 DEF Boundaries
  <2>2. PICK n \in 1..4 : q + n \in A /\ WellFormedChar(SubSeq(s, q, q + n - 1))
    BY <1>1, <1>3, <2>1 DEF Boundaries
  <2>3. q + n <= Len(s) + 1
    BY <1>1, <1>3, <2>2 DEF Boundaries
  <2>4. \A i \in (q + 1)..(q + n - 1) : Continuation(s[i])
    BY <2>1, <2>2, <2>3, CharAt
  <2>5. q + n <= k + 1
    <3> SUFFICES ASSUME q + n > k + 1 PROVE FALSE
      BY <1>1, <2>1
    <3>1. k + 1 \in (q + 1)..(q + n - 1) /\ k \in 1..(Len(s) - 1)
      BY <1>1, <2>1, <2>3
    <3> QED
      BY <2>4, <3>1
  <2>6. q + n \in D
    BY <1>1, <2>1, <2>2, <2>5
  <2>7. SubSeq(u, q, q + n - 1) = SubSeq(s, q + 0, (q + n - 1) + 0)
    <3>1. /\ q \in 1..Len(u) /\ q + n - 1 \in q..Len(u) /\ q + 0 >= 1
          /\ (q + n - 1) + 0 <= Len(s) /\ 0 \in Int
      BY <1>1, <1>2, <2>1, <2>3, <2>5
    <3>2. \A i \in q..(q + n - 1) : u[i] = s[i + 0]
      BY <1>1, <1>2, <2>1, <2>5
    <3> QED
      BY <3>1, <3>2, SamePart
  <2>8. q + 0 = q /\ (q + n - 1) + 0 = q + n - 1
    BY <2>1
  <2> QED
    BY <2>2, <2>6, <2>7, <2>8
<1> HIDE DEF D
<1>7. Boundaries(u, 1, D)
  BY <1>4, <1>5, <1>6 DEF Boundaries
<1> QED
  BY <1>2, <1>7, WellFormedIs

\* What is left of a well-formed text after an ASCII character is well-formed.
LEMMA WellFormedAfter ==
    ASSUME NEW s \in Texts, WellFormed(s), NEW j \in 1..Len(s), s[j] <= 127
    PROVE  WellFormed(SubSeq(s, j + 1, Len(s)))
<1>1. Len(s) \in Nat /\ \A i \in 1..Len(s) : s[i] \in Byte
  BY BytesOf
<1>2. PICK m \in Nat : m = Len(s) - j
  BY <1>1
<1>3. PICK u \in Texts : /\ u = SubSeq(s, j + 1, Len(s)) /\ Len(u) = m
                         /\ \A i \in 1..m : u[i] = s[i + j]
  <2>1. /\ j + 1 \in Int /\ Len(s) \in Int /\ \A i \in (j + 1)..Len(s) : i \in 1..Len(s)
        /\ Len(s) - (j + 1) + 1 = m
    BY <1>1, <1>2
  <2>2. \A i \in (j + 1)..Len(s) : s[i] \in Byte
    BY <1>1, <2>1
  <2>3. /\ SubSeq(s, j + 1, Len(s)) \in Seq(Byte)
        /\ Len(SubSeq(s, j + 1, Len(s))) = IF j + 1 <= Len(s) THEN Len(s) - (j + 1) + 1 ELSE 0
        /\ \A i \in 1..(Len(s) - (j + 1) + 1) : SubSeq(s, j + 1, Len(s))[i] = s[(j + 1) + i - 1]
    BY <2>1, <2>2, SubSeqProperties
  <2>4. \A i \in 1..m : (j + 1) + i - 1 = i + j
    BY <1>1
  <2>5. Len(SubSeq(s, j + 1, Len(s))) = m
    BY <1>1, <1>2, <2>3
  <2>6. \A i \in 1..m : SubSeq(s, j + 1, Len(s))[i] = s[i + j]
    BY <2>1, <2>3, <2>4
  <2> QED
    BY <2>3, <2>5, <2>6 DEF Texts
<1>4. PICK A : Boundaries(s, 1, A)
  BY WellFormedIs
<1>10. 1 \in A /\ A \subseteq 1..(Len(s) + 1)
  BY <1>4 DEF Boundaries
<1>5. ~Continuation(s[j])
  <2>1. \A b \in Byte : b <= 127 => ~Continuation(b)
    BY DEF Continuation, Byte
  <2> QED
    BY <1>1, <2>1
<1>6. j + 1 \in A
  <2> DEFINE F == {q \in A : q <= j}
  <2>1. F \in SUBSET Nat /\ F # {} /\ \A q \in F : q <= j
    <3>1. \A q \in A : q \in Nat
      BY <1>1, <1>10
    <3>2. 1 \in F
      BY <1>10
    <3> QED
      BY <3>1, <3>2
  <2>2. PICK q : q \in F /\ \A p \in F : p <= q
    <3> HIDE DEF F
    <3>1. j \in Nat
      BY <1>1
    <3>2. Max(F) \in F /\ \A p \in F : p <= Max(F)
      BY <2>1, <3>1, Greatest
    <3> QED
      BY <3>2
  <2>3. q \in A /\ q \in 1..j /\ q \in 1..Len(s)
    BY <1>1, <1>4, <2>2 DEF Boundaries
  <2>4. PICK n \in 1..4 : q + n \in A /\ WellFormedChar(SubSeq(s, q, q + n - 1))
    BY <1>1, <1>4, <2>3 DEF Boundaries
  <2>5. q + n <= Len(s) + 1
    BY <1>1, <1>10, <2>3, <2>4
  <2>6. q + n > j
    BY <1>1, <2>2, <2>3, <2>4
  <2>7. \A i \in (q + 1)..(q + n - 1) : Continuation(s[i])
    BY <2>3, <2>4, <2>5, CharAt
  <2>8. q = j
    <3> SUFFICES ASSUME q # j PROVE FALSE
      OBVIOUS
    <3>1. j \in (q + 1)..(q + n - 1)
      BY <1>1, <2>3, <2>6
    <3> QED
      BY <1>5, <2>7, <3>1
  <2>9. n = 1
    <3>1. s[q] <= 127 => n = 1
      BY <2>3, <2>4, <2>5, CharAt
    <3> QED
      BY <2>8, <3>1
  <2> QED
    BY <2>4, <2>8, <2>9
<1> DEFINE D == {q \in 1..(m + 1) : q + j \in A}
<1>7. D \subseteq 1..(Len(u) + 1) /\ 1 \in D
  <2>1. 1 + j = j + 1
    BY <1>1
  <2> QED
    BY <1>2, <1>3, <1>6, <2>1
<1>8. ASSUME NEW q \in D, q <= Len(u)
      PROVE  \E n \in 1..4 : q + n \in D /\ WellFormedChar(SubSeq(u, q, q + n - 1))
  <2>1. PICK p \in 1..Len(s) : p = q + j /\ p \in A /\ q \in 1..m
    BY <1>1, <1>2, <1>3, <1>8
  <2>2. PICK n \in 1..4 : p + n \in A /\ WellFormedChar(SubSeq(s, p, p + n - 1))
    BY <1>1, <1>4, <2>1 DEF Boundaries
  <2>3. p + n <= Len(s) + 1
    BY <1>1, <1>4, <2>2 DEF Boundaries
  <2>4. /\ q + n \in 1..(m + 1) /\ (q + n) + j = p + n /\ q + j = p
        /\ (q + n - 1) + j = p + n - 1
    BY <1>1, <1>2, <2>1, <2>3
  <2>5. q + n \in D
    BY <2>2, <2>4
  <2>6. SubSeq(u, q, q + n - 1) = SubSeq(s, q + j, (q + n - 1) + j)
    <3>1. /\ q \in 1..Len(u) /\ q + n - 1 \in q..Len(u) /\ q + j >= 1
          /\ (q + n - 1) + j <= Len(s) /\ j \in Int
      BY <1>1, <1>2, <1>3, <2>1, <2>3
    <3>2. \A i \in q..(q + n - 1) : u[i] = s[i + j]
      BY <1>3, <3>1
    <3> QED
      BY <3>1, <3>2, SamePart
  <2> QED
    BY <2>2, <2>4, <2>5, <2>6
<1> HIDE DEF D
<1>9. Boundaries(u, 1, D)
  BY <1>7, <1>8 DEF Boundaries
<1> QED
  BY <1>3, <1>9, WellFormedIs

\* The encoding of a scalar value is one character.
LEMMA EncodedIs ==
    ASSUME NEW c, Scalar(c)
    PROVE  AppendUtf8(c) \in Texts /\ WellFormedChar(AppendUtf8(c))
<1>1. c \in Nat /\ c <= 1114111 /\ ~Surrogate(c)
  BY DEF Scalar, MaxCodePoint
<1> DEFINE Six(shift) == 128 + ((c \div shift) % 64)
<1>2. Six(1) \in 128..191 /\ Six(64) \in 128..191 /\ Six(4096) \in 128..191
  <2>1. \A n \in Nat : n % 64 \in Nat /\ n % 64 <= 63
    BY SMT
  <2>2. c \div 1 \in Nat /\ c \div 64 \in Nat /\ c \div 4096 \in Nat
    BY <1>1, SMT
  <2>3. \A n \in Nat : n % 64 <= 63 => 128 + (n % 64) \in 128..191
    BY <2>1
  <2> QED
    BY <2>1, <2>2, <2>3
<1>3. CASE c <= 127
  <2>1. AppendUtf8(c) = <<c>> /\ c \in Byte
    BY <1>1, <1>3 DEF AppendUtf8, Byte
  <2> QED
    BY <1>3, <2>1 DEF WellFormedChar, Texts
<1>4. CASE c > 127 /\ c <= 2047
  <2>1. PICK a, b : a = 192 + (c \div 64) /\ b = Six(1)
    OBVIOUS
  <2>2. AppendUtf8(c) = <<a, b>>
    BY <1>1, <1>4, <2>1 DEF AppendUtf8
  <2>3. a \in 194..223
    BY <1>1, <1>4, <2>1, SMT
  <2>4. a \in Byte /\ b \in Byte /\ b \in 128..191
    BY <1>2, <2>1, <2>3 DEF Byte
  <2> QED
    BY <2>2, <2>3, <2>4 DEF WellFormedChar, Texts
<1>5. CASE c > 2047 /\ c <= 65535
  <2>1. PICK a, b, d : a = 224 + (c \div 4096) /\ b = Six(64) /\ d = Six(1)
    OBVIOUS
  <2>2. AppendUtf8(c) = <<a, b, d>>
    BY <1>1, <1>5, <2>1 DEF AppendUtf8
  <2>3. a \in 224..239
    BY <1>1, <1>5, <2>1, SMT
  <2>4. a = 224 => b \in 160..191
    BY <1>1, <1>5, <2>1, SMT
  <2>5. a = 237 => b \in 128..159
    BY <1>1, <1>5, <2>1, SMT DEF Surrogate, High, Low
  <2>6. a \in Byte /\ b \in Byte /\ d \in Byte /\ b \in 128..191 /\ d \in 128..191
    BY <1>2, <2>1, <2>3 DEF Byte
  <2> QED
    BY <2>2, <2>3, <2>4, <2>5, <2>6 DEF WellFormedChar, Texts
<1>6. CASE c > 65535
  <2>1. PICK a, b, d, e : a = 240 + (c \div 262144) /\ b = Six(4096) /\ d = Six(64) /\ e = Six(1)
    OBVIOUS
  <2>2. AppendUtf8(c) = <<a, b, d, e>>
    BY <1>1, <1>6, <2>1 DEF AppendUtf8
  <2>3. a \in 240..244
    BY <1>1, <1>6, <2>1, SMT
  <2>4. a = 240 => b \in 144..191
    BY <1>1, <1>6, <2>1, SMT
  <2>5. a = 244 => b \in 128..143
    BY <1>1, <1>6, <2>1, SMT
  <2>6. /\ a \in Byte /\ b \in Byte /\ d \in Byte /\ e \in Byte
        /\ b \in 128..191 /\ d \in 128..191 /\ e \in 128..191
    BY <1>2, <2>1, <2>3 DEF Byte
  <2> QED
    BY <2>2, <2>3, <2>4, <2>5, <2>6 DEF WellFormedChar, Texts
<1> QED
  BY <1>1, <1>3, <1>4, <1>5, <1>6

\* The code point a unit begins: of a pair, of itself, or none.
Paired(w, i) == High(w[i]) /\ i < Len(w) /\ Low(w[i + 1])
CodePoint(w, i) ==
    IF Paired(w, i) THEN 65536 + (w[i] - 55296) * 1024 + (w[i + 1] - 56320)
    ELSE IF Surrogate(w[i]) THEN Replacement ELSE w[i]

\* Whatever the units, wideToUtf8 makes a scalar value of them: a lone surrogate
\* becomes the replacement character.
LEMMA CodePointIs ==
    ASSUME NEW w \in Seq(Units), NEW i \in 1..Len(w)
    PROVE  Scalar(CodePoint(w, i))
<1>1. Len(w) \in Nat /\ \A j \in 1..Len(w) : w[j] \in Units
  BY LenProperties, ElementOfSeq
<1>2. CASE Paired(w, i)
  <2>1. PICK a \in Nat, b \in Nat : a = w[i] /\ b = w[i + 1] /\ High(a) /\ Low(b)
    BY <1>1, <1>2 DEF Paired, Units
  <2>2. CodePoint(w, i) = 65536 + (a - 55296) * 1024 + (b - 56320)
    BY <1>2, <2>1 DEF CodePoint
  <2>3. PICK c : c = 65536 + (a - 55296) * 1024 + (b - 56320)
    OBVIOUS
  <2>4. c \in Nat /\ c <= 1114111 /\ c >= 65536
    <3>1. 55296 <= a /\ a <= 56319 /\ 56320 <= b /\ b <= 57343
      BY <2>1 DEF High, Low
    <3>2. PICK x \in Nat, y \in Nat : x = a - 55296 /\ y = b - 56320 /\ x <= 1023 /\ y <= 1023
      BY <2>1, <3>1
    <3>3. c = 65536 + x * 1024 + y
      BY <2>3, <3>2
    <3> QED
      BY <3>2, <3>3
  <2> QED
    BY <2>2, <2>3, <2>4, SMT DEF Scalar, MaxCodePoint, Surrogate, High, Low
<1>3. CASE ~Paired(w, i) /\ Surrogate(w[i])
  BY <1>3, ReplacementIs DEF CodePoint
<1>4. CASE ~Paired(w, i) /\ ~Surrogate(w[i])
  <2>1. CodePoint(w, i) = w[i] /\ w[i] \in Units
    BY <1>1, <1>4 DEF CodePoint
  <2> QED
    BY <1>4, <2>1, SMT DEF Scalar, MaxCodePoint, Units
<1> QED
  BY <1>2, <1>3, <1>4

\* wideToUtf8 makes one piece of every code point, and goes on behind it.
Encoded(w)  == [i \in 1..Len(w) |-> AppendUtf8(CodePoint(w, i))]
UnitsOf(w)  == [i \in 1..Len(w) |-> IF Paired(w, i) THEN 2 ELSE 1]

\* What wideToUtf8 writes at each unit is well-formed.
LEMMA EncodedType ==
    ASSUME NEW w \in Seq(Units)
    PROVE  /\ Len(w) \in Nat /\ Jumps(UnitsOf(w), Len(w))
           /\ \A i \in 1..Len(w) : Encoded(w)[i] \in Texts /\ WellFormed(Encoded(w)[i])
<1>1. Len(w) \in Nat
  BY LenProperties
<1>2. \A i \in 1..Len(w) : Encoded(w)[i] \in Texts /\ WellFormed(Encoded(w)[i])
  BY CodePointIs, EncodedIs, OneCharacter DEF Encoded
<1>3. ASSUME NEW i \in 1..Len(w)
      PROVE  UnitsOf(w)[i] \in Nat \ {0} /\ i + UnitsOf(w)[i] <= Len(w) + 1
  <2>1. UnitsOf(w)[i] = IF Paired(w, i) THEN 2 ELSE 1
    BY DEF UnitsOf
  <2>2. Paired(w, i) => i < Len(w)
    BY DEF Paired
  <2> QED
    BY <1>1, <2>1, <2>2
<1> QED
  BY <1>1, <1>2, <1>3 DEF Jumps

\* wideToUtf8 joins the characters it steps through.
LEMMA WideToUtf8Chain ==
    ASSUME NEW w \in Seq(Units)
    PROVE  \E f \in [1..(Len(w) + 1) -> Texts] :
             Chained(f, 1, Len(w), Encoded(w), UnitsOf(w)) /\ WideToUtf8(w) = f[1]
<1> DEFINE N == Len(w)
           Pair(i) == High(w[i]) /\ i < Len(w) /\ Low(w[i + 1])
           Val(i)  == IF Pair(i) THEN 65536 + (w[i] - 55296) * 1024 + (w[i + 1] - 56320)
                      ELSE IF Surrogate(w[i]) THEN Replacement ELSE w[i]
           Def(f) == f = [i \in 1..(Len(w) + 1) |->
                            IF i > Len(w) THEN <<>>
                            ELSE AppendUtf8(Val(i)) \o f[IF Pair(i) THEN i + 2 ELSE i + 1]]
           From == CHOOSE f : Def(f)
<1>1. WideToUtf8(w) = From[1]
  BY DEF WideToUtf8
<1>2. \A i : Pair(i) = Paired(w, i) /\ Val(i) = CodePoint(w, i)
  BY DEF Paired, CodePoint
<1>3. N \in Nat
  BY LenProperties
<1> HIDE DEF Pair, Val
<1>4. \A f : Def(f) <=> f = [i \in 1..(N + 1) |->
                               IF i > N THEN <<>> ELSE Encoded(w)[i] \o f[i + UnitsOf(w)[i]]]
  <2> TAKE f
  <2>1. \A i \in 1..(N + 1) :
          (IF i > N THEN <<>> ELSE AppendUtf8(Val(i)) \o f[IF Pair(i) THEN i + 2 ELSE i + 1])
            = (IF i > N THEN <<>> ELSE Encoded(w)[i] \o f[i + UnitsOf(w)[i]])
    <3> TAKE i \in 1..(N + 1)
    <3>1. CASE i \in 1..N
      <4>1. Encoded(w)[i] = AppendUtf8(Val(i))
        BY <1>2, <3>1 DEF Encoded
      <4>2. UnitsOf(w)[i] = IF Pair(i) THEN 2 ELSE 1
        BY <1>2, <3>1 DEF UnitsOf
      <4>3. i + UnitsOf(w)[i] = IF Pair(i) THEN i + 2 ELSE i + 1
        BY <4>2
      <4> QED
        BY <4>1, <4>3
    <3>2. CASE i > N
      BY <3>2
    <3> QED
      BY <1>3, <3>1, <3>2
  <2>2. [i \in 1..(N + 1) |->
           IF i > N THEN <<>> ELSE AppendUtf8(Val(i)) \o f[IF Pair(i) THEN i + 2 ELSE i + 1]]
        = [i \in 1..(N + 1) |-> IF i > N THEN <<>> ELSE Encoded(w)[i] \o f[i + UnitsOf(w)[i]]]
    <3> HIDE DEF N
    <3> QED
      BY <2>1, Zenon
  <2> QED
    BY <2>2, Zenon
<1> HIDE DEF Def, N
<1>5. \A i \in 1..N : Encoded(w)[i] \in Seq(Byte)
  BY EncodedType DEF Texts, N
<1>6. Jumps(UnitsOf(w), N)
  BY EncodedType DEF N
<1>7. Def(From)
  <2>1. PICK g \in [1..(N + 1) -> Seq(Byte)] : Chained(g, 1, N, Encoded(w), UnitsOf(w))
    BY <1>3, <1>5, <1>6, ChainExists
  <2>2. \A i \in 1..(N + 1) : g[i] = IF i > N THEN <<>> ELSE Encoded(w)[i] \o g[i + UnitsOf(w)[i]]
    <3> TAKE i \in 1..(N + 1)
    <3>1. (i > N /\ i = N + 1) \/ (~(i > N) /\ i \in 1..N)
      BY <1>3
    <3> QED
      BY <2>1, <3>1, Zenon DEF Chained
  <2>3. g = [i \in 1..(N + 1) |-> IF i > N THEN <<>> ELSE Encoded(w)[i] \o g[i + UnitsOf(w)[i]]]
    BY <2>2
  <2>4. Def(g)
    BY <1>4, <2>3, Zenon
  <2> QED
    BY <2>4
<1> HIDE DEF From
<1>8. From = [i \in 1..(N + 1) |-> IF i > N THEN <<>> ELSE Encoded(w)[i] \o From[i + UnitsOf(w)[i]]]
  BY <1>4, <1>7, Zenon
<1>9. From \in [1..(N + 1) -> Seq(Byte)] /\ Chained(From, 1, N, Encoded(w), UnitsOf(w))
  BY <1>3, <1>5, <1>6, <1>8, ChainIs
<1> QED
  BY <1>1, <1>9 DEF N, Texts

\* wideToUtf8 writes well-formed UTF-8 whatever it is given.
LEMMA WideToUtf8Is ==
    ASSUME NEW w \in Seq(Units)
    PROVE  WideToUtf8(w) \in Texts /\ WellFormed(WideToUtf8(w))
<1>1. PICK N \in Nat : N = Len(w)
  BY LenProperties
<1>2. PICK f \in [1..(N + 1) -> Texts] :
        Chained(f, 1, N, Encoded(w), UnitsOf(w)) /\ WideToUtf8(w) = f[1]
  BY <1>1, WideToUtf8Chain
<1> DEFINE T == {i \in 1..(N + 1) : WellFormed(f[i])}
<1>3. N + 1 \in T
  <2>1. <<>> \in Texts /\ \A i \in 1..Len(<<>>) : <<>>[i] <= 127
    BY EmptySeq DEF Texts
  <2>2. WellFormed(<<>>)
    BY <2>1, AsciiIsWellFormed
  <2> QED
    BY <1>2, <2>2 DEF Chained
<1>4. ASSUME NEW i \in 1..N, \A j \in (i + 1)..(N + 1) : j \in T PROVE i \in T
  <2>1. PICK next \in (i + 1)..(N + 1) : next = i + UnitsOf(w)[i]
    BY <1>1, EncodedType DEF Jumps
  <2>2. f[i] = Encoded(w)[i] \o f[next]
    BY <1>2, <2>1 DEF Chained
  <2>3. WellFormed(f[next]) /\ next \in 1..(N + 1)
    BY <1>4, <2>1
  <2>4. Encoded(w)[i] \in Texts /\ WellFormed(Encoded(w)[i]) /\ f[next] \in Texts
    BY <1>1, <1>2, <2>3, EncodedType
  <2>5. WellFormed(f[i])
    BY <2>2, <2>3, <2>4, WellFormedConcat
  <2> QED
    BY <2>5
<1>5. \A i \in 1..(N + 1) : i \in T
  <2> HIDE DEF T
  <2> QED
    BY <1>3, <1>4, Backwards
<1> QED
  BY <1>2, <1>5

-----------------------------------------------------------------------------
(* The name of a temporary file.                                           *)

\* The first of two sequences, cut out of both.
LEMMA BeforeConcat ==
    ASSUME NEW s \in Texts, NEW t \in Texts
    PROVE  SubSeq(s \o t, 1, Len(s)) = s
<1>1. /\ s \o t \in Seq(Byte) /\ Len(s) \in Nat /\ Len(t) \in Nat /\ Len(s \o t) = Len(s) + Len(t)
      /\ \A i \in 1..(Len(s) + Len(t)) : (s \o t)[i] = IF i <= Len(s) THEN s[i] ELSE t[i - Len(s)]
  BY BytesOf, ConcatProperties DEF Texts
<1>2. PICK w \in Texts : w = s \o t
  BY <1>1 DEF Texts
<1>3. CASE Len(s) = 0
  <2>1. SubSeq(w, 1, 0) = <<>> /\ s = <<>>
    BY <1>3, SubSeqEmpty DEF Texts
  <2> QED
    BY <1>2, <1>3, <2>1
<1>4. CASE Len(s) > 0
  <2>1. /\ 1 \in 1..Len(s) /\ Len(s) \in 1..Len(s) /\ 1 + 0 >= 1 /\ Len(s) + 0 <= Len(w) /\ 0 \in Int
        /\ \A i \in 1..Len(s) : s[i] = w[i + 0]
    BY <1>1, <1>2, <1>4
  <2>2. SubSeq(s, 1, Len(s)) = SubSeq(w, 1 + 0, Len(s) + 0)
    BY <2>1, SamePart
  <2>3. SubSeq(s, 1, Len(s)) = s
    BY SubSeqFull DEF Texts
  <2>4. 1 + 0 = 1 /\ Len(s) + 0 = Len(s)
    BY <1>1
  <2> QED
    BY <1>2, <2>2, <2>3, <2>4
<1> QED
  BY <1>1, <1>3, <1>4

\* utf8TruncatedLength keeps all of a short text, and of another as much as the limit
\* allows in front of a character.
LEMMA KeptIs ==
    ASSUME NEW s \in Texts, NEW max \in Nat
    PROVE  LET k == KeptLength(s, max)
           IN  /\ k \in 0..Len(s) /\ k <= max
               /\ Len(s) <= max => k = Len(s)
               /\ k \in 1..(Len(s) - 1) => ~Continuation(s[k + 1])
               /\ Len(s) > max /\ (max = 0 \/ ~Continuation(s[max + 1])) => k = max
<1>1. Len(s) \in Nat
  BY BytesOf
<1>2. PICK k : k = KeptLength(s, max)
  OBVIOUS
<1>3. CASE Len(s) <= max
  <2>1. k = Len(s)
    BY <1>2, <1>3 DEF KeptLength, Utf8TruncatedLength
  <2> QED
    BY <1>1, <1>2, <1>3, <2>1
<1>4. CASE Len(s) > max
  <2> DEFINE F == {0} \cup {n \in 1..max : ~Continuation(s[n + 1])}
  <2>1. k = Max(F)
    BY <1>1, <1>2, <1>4 DEF KeptLength, Utf8TruncatedLength
  <2>2. F \in SUBSET Nat /\ F # {} /\ \A n \in F : n <= max
    OBVIOUS
  <2>3. k \in F /\ \A n \in F : n <= k
    <3> HIDE DEF F
    <3> QED
      BY <2>1, <2>2, Greatest
  <2>4. k \in 0..max /\ (k >= 1 => ~Continuation(s[k + 1]))
    BY <2>3
  <2>5. (max = 0 \/ ~Continuation(s[max + 1])) => max \in F
    OBVIOUS
  <2>6. (max = 0 \/ ~Continuation(s[max + 1])) => k = max
    BY <2>3, <2>4, <2>5
  <2> QED
    BY <1>1, <1>2, <1>4, <2>4, <2>6
<1> QED
  BY <1>1, <1>3, <1>4

\* The suffix of a temporary file is plain ASCII without a slash, and leaves room
\* for a name before it.
LEMMA SuffixIs ==
    /\ TempSuffix \in Texts /\ WellFormed(TempSuffix)
    /\ Len(TempSuffix) \in Nat /\ Len(TempSuffix) > 0 /\ Len(TempSuffix) + 1 <= MaxFileNameBytes
    /\ \A i \in 1..Len(TempSuffix) :
          TempSuffix[i] \in Byte /\ TempSuffix[i] <= 127 /\ TempSuffix[i] # Slash
<1> DEFINE S == (1..127) \ {Slash}
<1>1. S \subseteq Byte /\ \A b \in S : b <= 127 /\ b # Slash
  BY DEF Byte
<1>2. /\ TempSuffix \in Seq(S) /\ Len(TempSuffix) \in 1..(MaxFileNameBytes - 1)
      /\ MaxFileNameBytes \in Nat
  BY PathsAssumption
<1> HIDE DEF S
<1>3. \A i \in 1..Len(TempSuffix) : TempSuffix[i] \in S
  BY <1>2, ElementOfSeq
<1>4. Len(TempSuffix) \in Nat /\ TempSuffix \in [1..Len(TempSuffix) -> Byte]
  BY <1>1, <1>2, <1>3, LenProperties
<1>5. TempSuffix \in Texts
  BY <1>4, Listed DEF Texts
<1>6. \A i \in 1..Len(TempSuffix) :
          TempSuffix[i] \in Byte /\ TempSuffix[i] <= 127 /\ TempSuffix[i] # Slash
  BY <1>1, <1>3
<1>7. WellFormed(TempSuffix)
  BY <1>5, <1>6, AsciiIsWellFormed
<1> QED
  BY <1>2, <1>4, <1>5, <1>6, <1>7

\* The last component of a path in LocalDir that ends in well-formed text.
LEMMA LocalNameIs ==
    ASSUME NEW bytes \in Texts, WellFormed(bytes), NEW local, local = LocalDir \o bytes,
           NEW base, base = SubSeq(local, LastSlash(local) + 1, Len(local))
    PROVE  /\ local \in Texts /\ LastSlash(local) \in 1..Len(local)
           /\ base \in Texts /\ WellFormed(base) /\ \A i \in 1..Len(base) : base[i] # Slash
<1>1. /\ LocalDir \in Texts /\ Len(LocalDir) \in Nat /\ Len(LocalDir) > 0
      /\ LocalDir[Len(LocalDir)] = Slash
  <2>1. LocalDir \in Texts /\ LocalDir # <<>> /\ Last(LocalDir) = Slash
    BY PanelAssumption
  <2>2. Len(LocalDir) \in Nat /\ Len(LocalDir) # 0
    BY <2>1, BytesOf DEF Texts
  <2> QED
    BY <2>1, <2>2 DEF Last
<1>2. PICK m \in Nat, n \in Nat : m = Len(LocalDir) /\ n = Len(bytes)
  BY <1>1, BytesOf
<1>3. /\ local \in Texts /\ Len(local) = m + n
      /\ \A i \in 1..(m + n) : local[i] = IF i <= m THEN LocalDir[i] ELSE bytes[i - m]
  <2>1. /\ LocalDir \o bytes \in Seq(Byte) /\ Len(LocalDir \o bytes) = Len(LocalDir) + Len(bytes)
        /\ \A i \in 1..(Len(LocalDir) + Len(bytes)) : (LocalDir \o bytes)[i] =
              IF i <= Len(LocalDir) THEN LocalDir[i] ELSE bytes[i - Len(LocalDir)]
    BY <1>1, ConcatProperties DEF Texts
  <2> QED
    BY <1>2, <2>1, Zenon DEF Texts
<1>4. PICK slash : slash = LastSlash(local)
  OBVIOUS
<1>5. /\ slash \in 0..(m + n) /\ (slash = 0 \/ local[slash] = Slash)
      /\ \A i \in 1..(m + n) : local[i] = Slash => i <= slash
  BY <1>3, <1>4, LastSlashIs
<1>6. slash >= m /\ slash \in 1..(m + n) /\ m > 0
  <2>1. m \in 1..(m + n) /\ local[m] = Slash /\ m > 0
    BY <1>1, <1>2, <1>3
  <2>2. m <= slash
    BY <1>5, <2>1, Zenon
  <2>3. slash \in 0..(m + n)
    BY <1>5
  <2> QED
    BY <2>1, <2>2, <2>3
<1>7. \A i \in 1..Len(base) : base[i] # Slash
  <2>1. /\ slash + 1 \in Int /\ m + n \in Int
        /\ \A i \in (slash + 1)..(m + n) : i \in 1..Len(local)
    BY <1>3, <1>6
  <2>2. \A i \in (slash + 1)..(m + n) : local[i] \in Byte
    BY <1>3, <2>1, BytesOf
  <2>3. /\ Len(base) = IF slash + 1 <= m + n THEN (m + n) - (slash + 1) + 1 ELSE 0
        /\ \A i \in 1..((m + n) - (slash + 1) + 1) : base[i] = local[(slash + 1) + i - 1]
    BY <1>3, <1>4, <2>1, <2>2, SubSeqProperties
  <2> TAKE i \in 1..Len(base)
  <2>4. i \in 1..((m + n) - (slash + 1) + 1)
    <3>1. CASE slash + 1 <= m + n
      BY <1>6, <2>3, <3>1
    <3>2. CASE ~(slash + 1 <= m + n)
      <4>3. 1..0 = {}
        OBVIOUS
      <4>1. Len(base) = 0 /\ 1..0 = {}
        BY <2>3, <3>2, <4>3, Zenon
      <4>2. i \in 1..0
        BY <4>1, Zenon
      <4> QED
        BY <4>1, <4>2, Zenon
    <3> QED
      BY <3>1, <3>2
  <2>5. PICK j \in 1..(m + n) : j = (slash + 1) + i - 1 /\ ~(j <= slash)
    BY <1>6, <2>4
  <2> QED
    BY <1>5, <2>3, <2>4, <2>5
<1>8. CASE slash = m
  <2>1. base = bytes
    BY <1>1, <1>2, <1>3, <1>4, <1>8, AfterConcat DEF Texts
  <2> QED
    BY <1>3, <1>4, <1>6, <1>7, <2>1
<1>9. CASE slash > m
  <2>1. PICK j \in 1..n : j = slash - m
    BY <1>6, <1>9
  <2>2. bytes[j] = Slash /\ j \in 1..Len(bytes)
    BY <1>2, <1>3, <1>5, <1>6, <1>9, <2>1
  <2>3. WellFormed(SubSeq(bytes, j + 1, n))
    BY <1>2, <2>2, WellFormedAfter DEF Slash
  <2>4. SubSeq(bytes, j + 1, n) \in Texts
    <3>1. j + 1 \in Nat \ {0} /\ n \in 0..Len(bytes)
      BY <1>2, <2>1
    <3> QED
      BY <3>1, PartType DEF Texts
  <2>5. base = SubSeq(bytes, j + 1, n)
    <3>1. CASE j = n
      <4>1. slash + 1 > m + n /\ j + 1 > n /\ slash + 1 \in Int /\ j + 1 \in Int /\ m + n \in Int
        BY <1>6, <2>1, <3>1
      <4>2. SubSeq(local, slash + 1, m + n) = <<>> /\ SubSeq(bytes, j + 1, n) = <<>>
        BY <4>1, SubSeqEmpty
      <4> QED
        BY <1>3, <1>4, <4>2
    <3>2. CASE j < n
      <4>1. /\ j + 1 \in 1..Len(bytes) /\ n \in (j + 1)..Len(bytes) /\ m \in Int
            /\ (j + 1) + m >= 1 /\ n + m <= Len(local)
            /\ (j + 1) + m = slash + 1 /\ n + m = Len(local)
        BY <1>2, <1>3, <1>6, <2>1, <3>2
      <4>2. \A i \in (j + 1)..n : bytes[i] = local[i + m]
        <5> TAKE i \in (j + 1)..n
        <5>1. i + m \in 1..(m + n) /\ ~(i + m <= m) /\ (i + m) - m = i
          BY <1>2, <2>1
        <5> QED
          BY <1>3, <5>1
      <4>3. SubSeq(bytes, j + 1, n) = SubSeq(local, (j + 1) + m, n + m)
        BY <1>3, <4>1, <4>2, SamePart
      <4> QED
        BY <1>4, <4>1, <4>3
    <3>3. j = n \/ j < n
      BY <2>1
    <3> QED
      BY <3>1, <3>2, <3>3, Zenon
  <2> QED
    BY <1>3, <1>4, <1>6, <1>7, <2>3, <2>4, <2>5
<1> QED
  BY <1>6, <1>8, <1>9

\* A name that is a dot, its own beginning and the suffix, is dots up to the suffix.
LEMMA DotsOnly ==
    ASSUME NEW s \in Texts, NEW k \in Nat, k + 1 <= Len(s), s[1] = Dot,
           \A i \in 1..k : s[1 + i] = s[i]
    PROVE  \A i \in 1..(k + 1) : s[i] = Dot
<1> DEFINE T == {n \in Nat : n <= k => s[n + 1] = Dot}
<1>1. 0 \in T
  OBVIOUS
<1>2. ASSUME NEW n \in Nat, n \in T PROVE n + 1 \in T
  <2> SUFFICES ASSUME n + 1 <= k PROVE s[(n + 1) + 1] = Dot
    OBVIOUS
  <2>1. s[n + 1] = Dot /\ n + 1 \in 1..k /\ 1 + (n + 1) = (n + 1) + 1
    BY <1>2
  <2>2. s[1 + (n + 1)] = s[n + 1]
    BY <2>1
  <2> QED
    BY <2>1, <2>2
<1>3. \A n \in Nat : n \in T
  <2> HIDE DEF T
  <2> QED
    BY <1>1, <1>2, Counting
<1> TAKE i \in 1..(k + 1)
<1>4. i - 1 \in Nat /\ i - 1 <= k /\ (i - 1) + 1 = i
  OBVIOUS
<1>5. i - 1 \in T
  BY <1>3, <1>4
<1> QED
  BY <1>4, <1>5

\* What TempNameIsGood says of a file and its temporary one.
GoodTemp(local, temp) ==
    LET slash == LastSlash(local)
        base  == SubSeq(temp, slash + 1, Len(temp))
    IN  /\ SubSeq(temp, 1, slash) = SubSeq(local, 1, slash)
        /\ \A i \in DOMAIN base : base[i] # Slash
        /\ temp = local =>
              /\ Len(base) = MaxFileNameBytes
              /\ \A i \in 1..(Len(base) - Len(TempSuffix)) : base[i] = Dot
        /\ Len(base) <= MaxFileNameBytes /\ WellFormed(base)

\* tempDownloadPath for a file in LocalDir.
LEMMA TempPathIs ==
    ASSUME NEW bytes \in Texts, WellFormed(bytes),
           NEW local, local = LocalDir \o bytes, NEW temp, temp = TempDownloadPath(local)
    PROVE  GoodTemp(local, temp)
<1>1. PICK slash : slash = LastSlash(local)
  OBVIOUS
<1>2. PICK own : own = SubSeq(local, slash + 1, Len(local))
  OBVIOUS
<1>3. /\ local \in Texts /\ slash \in 1..Len(local)
      /\ own \in Texts /\ WellFormed(own) /\ \A i \in 1..Len(own) : own[i] # Slash
  BY <1>1, <1>2, LocalNameIs
<1>4. PICK suffix \in Nat : suffix = Len(TempSuffix)
  BY SuffixIs
<1>5. suffix > 0 /\ suffix + 1 <= MaxFileNameBytes /\ MaxFileNameBytes \in Nat
  BY <1>4, SuffixIs, PathsAssumption
<1>6. PICK max \in Nat : max = MaxFileNameBytes - Len(TempSuffix) - 1
  <2>1. MaxFileNameBytes - suffix - 1 \in Nat
    BY <1>5
  <2> QED
    BY <1>4, <2>1, Zenon
<1>7. Max({0, max}) = max
  <2>1. {0, max} \in SUBSET Nat /\ {0, max} # {} /\ \A y \in {0, max} : y <= max
    OBVIOUS
  <2>2. Max({0, max}) \in {0, max} /\ \A y \in {0, max} : y <= Max({0, max})
    BY <2>1, Greatest
  <2> QED
    BY <2>2
<1>8. PICK k : k = KeptLength(own, max)
  OBVIOUS
<1>9. /\ k \in 0..Len(own) /\ k <= max
      /\ Len(own) <= max => k = Len(own)
      /\ k \in 1..(Len(own) - 1) => ~Continuation(own[k + 1])
      /\ Len(own) > max /\ (max = 0 \/ ~Continuation(own[max + 1])) => k = max
  BY <1>3, <1>8, KeptIs
<1>10. Len(own) \in Nat /\ Len(local) \in Nat /\ k \in Nat /\ \A i \in 1..Len(own) : own[i] \in Byte
  BY <1>3, <1>9, BytesOf
<1>11. PICK kept : kept = SubSeq(own, 1, k)
  OBVIOUS
<1>12. kept \in Texts /\ Len(kept) = k /\ \A i \in 1..k : kept[i] = own[i]
  <2>1. 1 \in Int /\ k \in Int /\ \A i \in 1..k : own[i] \in Byte
    BY <1>9, <1>10
  <2>2. /\ kept \in Seq(Byte)
        /\ Len(kept) = IF 1 <= k THEN k - 1 + 1 ELSE 0
        /\ \A i \in 1..(k - 1 + 1) : kept[i] = own[1 + i - 1]
    BY <1>11, <2>1, SubSeqProperties
  <2>3. k - 1 + 1 = k /\ (~(1 <= k) => k = 0) /\ \A i \in 1..k : 1 + i - 1 = i
    BY <1>10
  <2> QED
    BY <2>2, <2>3 DEF Texts
<1>13. WellFormed(kept)
  BY <1>3, <1>9, <1>11, WellFormedCut
<1>14. PICK dot \in Texts : dot = <<Dot>> /\ Len(dot) = 1 /\ dot[1] = Dot /\ WellFormed(dot)
  <2>1. Dot \in Byte /\ Dot <= 127
    BY DEF Dot, Byte
  <2>2. <<Dot>> \in Texts /\ Len(<<Dot>>) = 1 /\ <<Dot>>[1] = Dot
    BY <2>1, OneUnit DEF Texts
  <2>3. WellFormed(<<Dot>>)
    BY <2>1, <2>2, AsciiIsWellFormed
  <2> QED
    BY <2>2, <2>3
<1>15. PICK front \in Texts : front = dot \o kept /\ Len(front) = 1 + k /\ WellFormed(front)
         /\ \A i \in 1..(1 + k) : front[i] = IF i <= 1 THEN dot[i] ELSE kept[i - 1]
  <2>1. /\ dot \o kept \in Seq(Byte) /\ Len(dot \o kept) = Len(dot) + Len(kept)
        /\ \A i \in 1..(Len(dot) + Len(kept)) :
             (dot \o kept)[i] = IF i <= Len(dot) THEN dot[i] ELSE kept[i - Len(dot)]
    BY <1>12, <1>14, ConcatProperties DEF Texts
  <2>2. WellFormed(dot \o kept)
    BY <1>12, <1>13, <1>14, WellFormedConcat
  <2> QED
    BY <1>12, <1>14, <2>1, <2>2, Zenon DEF Texts
<1>16. PICK name \in Texts : /\ name = front \o TempSuffix /\ Len(name) = (1 + k) + suffix
         /\ WellFormed(name)
         /\ \A i \in 1..((1 + k) + suffix) :
              name[i] = IF i <= 1 + k THEN front[i] ELSE TempSuffix[i - (1 + k)]
  <2>1. /\ front \o TempSuffix \in Seq(Byte) /\ Len(front \o TempSuffix) = Len(front) + Len(TempSuffix)
        /\ \A i \in 1..(Len(front) + Len(TempSuffix)) : (front \o TempSuffix)[i] =
             IF i <= Len(front) THEN front[i] ELSE TempSuffix[i - Len(front)]
    BY <1>15, SuffixIs, ConcatProperties DEF Texts
  <2>2. WellFormed(front \o TempSuffix)
    BY <1>15, SuffixIs, WellFormedConcat
  <2>3. PICK whole : whole = front \o TempSuffix
    OBVIOUS
  <2>4. Len(whole) = (1 + k) + suffix
    BY <1>4, <1>15, <2>1, <2>3, Zenon
  <2>5. \A i \in 1..((1 + k) + suffix) :
           whole[i] = IF i <= 1 + k THEN front[i] ELSE TempSuffix[i - (1 + k)]
    BY <1>4, <1>15, <2>1, <2>3, Zenon
  <2> QED
    BY <2>1, <2>2, <2>3, <2>4, <2>5, Zenon DEF Texts
<1>17. PICK dir \in Texts : dir = SubSeq(local, 1, slash) /\ Len(dir) = slash
  <2>1. 1 \in Int /\ slash \in Int /\ 1 <= slash /\ slash - 1 + 1 = slash
    BY <1>3, <1>10
  <2>2. \A i \in 1..slash : local[i] \in Byte
    <3>1. \A i \in 1..slash : i \in 1..Len(local)
      BY <1>3, <1>10
    <3> QED
      BY <1>3, <3>1, BytesOf
  <2>3. /\ SubSeq(local, 1, slash) \in Seq(Byte)
        /\ Len(SubSeq(local, 1, slash)) = IF 1 <= slash THEN slash - 1 + 1 ELSE 0
    BY ONLY <2>1, <2>2, SubSeqProperties
  <2> QED
    BY <2>1, <2>3 DEF Texts
<1>18. temp = dir \o name
  <2>1. temp = ((dir \o dot) \o kept) \o TempSuffix
    BY <1>1, <1>2, <1>6, <1>7, <1>8, <1>11, <1>14, <1>17 DEF TempDownloadPath
  <2>2. (dir \o dot) \o kept = dir \o front
    <3>1. dir \in Seq(Byte) /\ dot \in Seq(Byte) /\ kept \in Seq(Byte)
      BY <1>12, <1>14, <1>17 DEF Texts
    <3>2. (dir \o dot) \o kept = dir \o (dot \o kept)
      BY ONLY <3>1, ConcatAssociative
    <3> QED
      BY <1>15, <3>2, Zenon
  <2>3. (dir \o front) \o TempSuffix = dir \o name
    <3>1. dir \in Seq(Byte) /\ front \in Seq(Byte) /\ TempSuffix \in Seq(Byte)
      BY <1>15, <1>17, SuffixIs DEF Texts
    <3>2. (dir \o front) \o TempSuffix = dir \o (front \o TempSuffix)
      BY ONLY <3>1, ConcatAssociative
    <3> QED
      BY <1>16, <3>2, Zenon
  <2> QED
    BY <2>1, <2>2, <2>3
<1>19. SubSeq(temp, slash + 1, Len(temp)) = name /\ SubSeq(temp, 1, slash) = dir
  <2>1. dir \in Seq(Byte) /\ name \in Seq(Byte) /\ dir \in Texts /\ name \in Texts
    BY <1>16, <1>17 DEF Texts
  <2>2. SubSeq(dir \o name, Len(dir) + 1, Len(dir \o name)) = name
    BY ONLY <2>1, AfterConcat
  <2>3. SubSeq(dir \o name, 1, Len(dir)) = dir
    BY ONLY <2>1, BeforeConcat
  <2> QED
    BY <1>17, <1>18, <2>2, <2>3, Zenon
<1>20. ASSUME NEW i \in 1..Len(name) PROVE name[i] # Slash
  <2>1. CASE i = 1
    <3>1. name[i] = Dot
      BY <1>10, <1>14, <1>15, <1>16, <2>1
    <3> QED
      BY <3>1 DEF Dot, Slash
  <2>2. CASE i > 1 /\ i <= 1 + k
    <3>1. i - 1 \in 1..k /\ i \in 1..(1 + k) /\ ~(i <= 1) /\ i - 1 \in 1..Len(own)
      BY <1>9, <1>10, <2>2
    <3>2. name[i] = own[i - 1]
      BY <1>12, <1>15, <1>16, <2>2, <3>1
    <3> QED
      BY <1>3, <3>1, <3>2
  <2>3. CASE i > 1 + k
    <3>1. i - (1 + k) \in 1..suffix /\ ~(i <= 1 + k)
      BY <1>10, <1>16, <2>3
    <3>2. name[i] = TempSuffix[i - (1 + k)]
      BY <1>16, <3>1
    <3> QED
      BY <1>4, <3>1, <3>2, SuffixIs
  <2> QED
    BY <1>10, <1>16, <2>1, <2>2, <2>3
<1>21. Len(name) <= MaxFileNameBytes
  BY <1>4, <1>5, <1>6, <1>9, <1>10, <1>16
<1>22. ASSUME temp = local
       PROVE  /\ Len(name) = MaxFileNameBytes
              /\ \A i \in 1..(Len(name) - suffix) : name[i] = Dot
  <2>1. own = name
    BY <1>2, <1>19, <1>22
  <2>2. name[1] = Dot
    <3>1. 1 \in 1..((1 + k) + suffix) /\ 1 <= 1 + k /\ 1 \in 1..(1 + k)
      BY <1>10
    <3> QED
      BY <1>14, <1>15, <1>16, <3>1
  <2>3. \A i \in 1..k : name[1 + i] = name[i]
    <3> TAKE i \in 1..k
    <3>1. 1 + i \in 1..((1 + k) + suffix) /\ 1 + i <= 1 + k /\ ~(1 + i <= 1) /\ (1 + i) - 1 = i
          /\ 1 + i \in 1..(1 + k)
      BY <1>10
    <3>2. name[1 + i] = kept[i]
      BY <1>15, <1>16, <3>1
    <3> QED
      BY <1>12, <2>1, <3>2
  <2>4. k + 1 <= Len(name) /\ Len(name) - suffix = k + 1
    BY <1>10, <1>16
  <2>5. \A i \in 1..(k + 1) : name[i] = Dot
    BY <1>10, <2>2, <2>3, <2>4, DotsOnly
  <2>6. Len(own) > max
    BY <1>4, <1>5, <1>9, <1>10, <1>16, <2>1
  <2>7. k = max
    <3> SUFFICES ASSUME k # max PROVE FALSE
      OBVIOUS
    <3>1. /\ max + 1 \in 1..((1 + k) + suffix) /\ ~(max + 1 <= 1 + k)
          /\ (max + 1) - (1 + k) \in 1..suffix
      BY <1>9, <1>10, <1>16, <2>1, <2>6
    <3>2. own[max + 1] = TempSuffix[(max + 1) - (1 + k)]
      BY <1>16, <2>1, <3>1
    <3>3. \A b \in Byte : b <= 127 => ~Continuation(b)
      BY DEF Continuation, Byte
    <3>4. ~Continuation(own[max + 1])
      BY <1>4, <3>1, <3>2, <3>3, SuffixIs
    <3> QED
      BY <1>9, <2>6, <3>4
  <2>8. Len(name) = MaxFileNameBytes
    BY <1>4, <1>5, <1>6, <1>16, <2>7
  <2> QED
    BY <2>4, <2>5, <2>8
<1>23. DOMAIN name = 1..Len(name)
  BY <1>16, BytesOf
<1> QED
  BY <1>1, <1>4, <1>13, <1>16, <1>17, <1>19, <1>20, <1>21, <1>22, <1>23, Zenon DEF GoodTemp

-----------------------------------------------------------------------------
(* Listings: what is told of one, and what of it fits.                      *)

\* What the members of a list are made from.
Ofs(s) == [i \in DOMAIN s |-> s[i].of]

\* Lists told of the same places in the same order have the same Ofs.
LEMMA OfsMapped ==
    ASSUME NEW R, NEW F, NEW G, \A e \in R : F[e].of = G[e].of, NEW s \in Seq(R)
    PROVE  Ofs(Mapped(F, s)) = Ofs(Mapped(G, s))
<1>1. DOMAIN s = 1..Len(s) /\ \A i \in DOMAIN s : s[i] \in R
  BY LenProperties, ElementOfSeq
<1> QED
  BY <1>1 DEF Mapped, Ofs

\* Ofs maps.
LEMMA OfsIs ==
    ASSUME NEW R, NEW s \in Seq(R)
    PROVE  Ofs(s) = Mapped([e \in R |-> e.of], s)
<1>1. DOMAIN s = 1..Len(s) /\ \A i \in DOMAIN s : s[i] \in R
  BY LenProperties, ElementOfSeq
<1> QED
  BY <1>1 DEF Mapped, Ofs

FitSet == {e \in Entries : FillFindData(e).fits}

\* What advanceFindData leaves has one entry less that fits.
LEMMA FittingOnly ==
    ASSUME NEW entries \in Seq(Entries)
    PROVE  /\ Fitting(entries) = <<>> => Only(entries, FitSet) = <<>>
           /\ Fitting(entries) # <<>> =>
                Only(entries, FitSet)
                  = <<Head(Fitting(entries))>> \o Only(Tail(Fitting(entries)), FitSet)
<1> DEFINE S == {i \in 1..Len(entries) : FillFindData(entries[i]).fits}
<1>1. Len(entries) \in Nat /\ \A i \in 1..Len(entries) : entries[i] \in Entries
  BY LenProperties, ElementOfSeq
<1>2. PICK first : first = IF S # {} THEN Min(S) ELSE 0
  OBVIOUS
<1>3. Fitting(entries) = IF first = 0 THEN <<>> ELSE SubSeq(entries, first, Len(entries))
  BY <1>2 DEF Fitting, SelectInSubSeq
<1>4. S # {} => Min(S) \in S /\ \A y \in S : Min(S) <= y
  <2>1. S \in SUBSET Nat
    BY <1>1
  <2> HIDE DEF S
  <2> QED
    BY <2>1, Least
<1>5. CASE S # {}
  <2>1. /\ first \in 1..Len(entries) /\ FillFindData(entries[first]).fits
        /\ \A i \in 1..(first - 1) : ~FillFindData(entries[i]).fits
    <3>1. first \in S /\ \A y \in S : first <= y
      BY <1>2, <1>4, <1>5
    <3>2. first \in 1..Len(entries) /\ FillFindData(entries[first]).fits
      BY <3>1
    <3>3. \A i \in 1..(first - 1) : i \in 1..Len(entries) /\ ~(first <= i)
      BY <1>1, <3>2
    <3>4. \A i \in 1..(first - 1) : i \notin S
      BY <3>1, <3>3
    <3> QED
      BY <3>2, <3>3, <3>4
  <2>2. Fitting(entries) = SubSeq(entries, first, Len(entries))
    BY <1>1, <1>3, <2>1
  <2>3. PICK e \in FitSet : e = entries[first]
    BY <1>1, <2>1 DEF FitSet
  <2>4. PICK rest \in Seq(Entries) : rest = SubSeq(entries, first + 1, Len(entries))
    <3>1. first + 1 \in Nat \ {0} /\ Len(entries) \in 0..Len(entries)
      BY <1>1, <2>1
    <3> QED
      BY <3>1, PartType
  <2>5. PICK before \in Seq(Entries) : before = SubSeq(entries, 1, first - 1)
    <3>1. 1 \in Nat \ {0} /\ first - 1 \in 0..Len(entries)
      BY <1>1, <2>1
    <3> QED
      BY <3>1, PartType
  <2>6. /\ Head(Fitting(entries)) = e /\ Tail(Fitting(entries)) = rest
        /\ Fitting(entries) # <<>>
    <3>1. /\ Head(SubSeq(entries, first, Len(entries))) = entries[first]
          /\ Tail(SubSeq(entries, first, Len(entries))) = SubSeq(entries, first + 1, Len(entries))
      BY <1>1, <2>1, HeadTailOfSubSeq
    <3>2. Len(SubSeq(entries, first, Len(entries))) > 0
      BY <1>1, <2>1, SubSeqProperties
    <3> QED
      <4>1. Head(Fitting(entries)) = e /\ Tail(Fitting(entries)) = rest
        BY <2>2, <2>3, <2>4, <3>1
      <4>2. Len(Fitting(entries)) > 0
        BY <2>2, <3>2
      <4>3. Fitting(entries) # <<>>
        BY <4>2
      <4> QED
        BY <4>1, <4>3
  <2>7. entries = (before \o <<e>>) \o rest
    <3>1. entries = SubSeq(entries, 1, first) \o SubSeq(entries, first + 1, Len(entries))
      <4>1. /\ 1 \in 1..(Len(entries) + 1) /\ first \in (1 - 1)..Len(entries)
            /\ Len(entries) \in first..Len(entries)
        BY <1>1, <2>1
      <4>2. SubSeq(entries, 1, first) \o SubSeq(entries, first + 1, Len(entries))
              = SubSeq(entries, 1, Len(entries))
        BY <4>1, ConcatAdjacentSubSeq
      <4> QED
        BY <4>2, SubSeqFull
    <3>2. SubSeq(entries, 1, first) = before \o <<e>>
      <4>1. /\ 1 \in 1..(Len(entries) + 1) /\ first - 1 \in (1 - 1)..Len(entries)
            /\ first \in (first - 1)..Len(entries) /\ (first - 1) + 1 = first
        BY <1>1, <2>1
      <4>2. SubSeq(entries, 1, first - 1) \o SubSeq(entries, (first - 1) + 1, first)
              = SubSeq(entries, 1, first)
        BY <4>1, ConcatAdjacentSubSeq
      <4>3. SubSeq(entries, first, first) = <<e>>
        <5>1. PICK one : one = SubSeq(entries, first, first)
          OBVIOUS
        <5>2. one \in Seq(Entries) /\ Len(one) = 1 /\ one[1] = entries[first]
          <6>1. \A i \in first..first : entries[i] \in Entries
            BY <1>1, <2>1
          <6>2. first \in Int /\ first - first + 1 = 1 /\ first + 1 - 1 = first /\ first <= first
            BY <2>1
          <6>3. /\ one \in Seq(Entries)
                /\ Len(one) = IF first <= first THEN first - first + 1 ELSE 0
                /\ \A i \in 1..(first - first + 1) : one[i] = entries[first + i - 1]
            BY <5>1, <6>1, <6>2, SubSeqProperties
          <6>4. 1 \in 1..(first - first + 1)
            BY <6>2
          <6> QED
            BY <6>2, <6>3, <6>4
        <5>3. <<e>> \in Seq(Entries) /\ Len(<<e>>) = 1 /\ <<e>>[1] = e
          BY <1>1, <2>1, <2>3
        <5>4. \A i \in 1..Len(one) : one[i] = <<e>>[i]
          BY <2>3, <5>2, <5>3
        <5> QED
          BY <5>1, <5>2, <5>3, <5>4, SeqEqual
      <4> QED
        BY <2>5, <4>1, <4>2, <4>3
    <3> QED
      BY <2>4, <3>1, <3>2
  <2>8. <<e>> \in Seq(Entries) /\ Only(<<e>>, FitSet) = <<e>>
    <3>1. <<e>> \in Seq(Entries) /\ <<e>> \in Seq(FitSet)
      BY <1>1, <2>1, <2>3
    <3> QED
      BY <3>1, OnlyAgain
  <2>9. Only(before, FitSet) = <<>>
    <3>1. Len(before) = first - 1 /\ \A i \in 1..(first - 1) : before[i] = entries[i]
      <4>1. /\ 1 \in Int /\ first - 1 \in Int /\ (first - 1) - 1 + 1 = first - 1
            /\ \A i \in 1..(first - 1) : i \in 1..Len(entries) /\ 1 + i - 1 = i
        BY <1>1, <2>1
      <4>2. /\ Len(before) = IF 1 <= first - 1 THEN (first - 1) - 1 + 1 ELSE 0
            /\ \A i \in 1..((first - 1) - 1 + 1) : before[i] = entries[1 + i - 1]
        BY <1>1, <2>5, <4>1, SubSeqProperties
      <4>3. Len(before) = first - 1
        BY <2>1, <4>2
      <4> QED
        BY <4>1, <4>2, <4>3
    <3>2. \A i \in 1..Len(before) : before[i] \notin FitSet
      BY <2>1, <3>1 DEF FitSet
    <3> QED
      BY <3>2, OnlyOthers
  <2>10. Only(entries, FitSet) = <<e>> \o Only(rest, FitSet)
    <3>1. before \o <<e>> \in Seq(Entries)
      BY <2>8, ConcatProperties
    <3>2. Only((before \o <<e>>) \o rest, FitSet) = Only(before \o <<e>>, FitSet) \o Only(rest, FitSet)
      BY <3>1, OnlyConcat
    <3>3. Only(before \o <<e>>, FitSet) = Only(before, FitSet) \o Only(<<e>>, FitSet)
      <4>1. PICK one : one = <<e>>
        OBVIOUS
      <4>2. before \in Seq(Entries) /\ one \in Seq(Entries)
        BY <2>8, <4>1
      <4>3. Only(before \o one, FitSet) = Only(before, FitSet) \o Only(one, FitSet)
        BY ONLY <4>2, OnlyConcat
      <4> QED
        BY <4>1, <4>3
    <3>4. <<>> \o <<e>> = <<e>>
      BY <2>8, ConcatEmptySeq
    <3> QED
      BY <2>7, <2>8, <2>9, <3>2, <3>3, <3>4
  <2> QED
    BY <2>6, <2>10
<1>6. CASE S = {}
  <2>1. \A i \in 1..Len(entries) : entries[i] \notin FitSet
    BY <1>6 DEF FitSet
  <2>2. Only(entries, FitSet) = <<>>
    BY <2>1, OnlyOthers
  <2> QED
    BY <1>2, <1>3, <1>6, <2>2
<1> QED
  BY <1>5, <1>6

\* What is told of the members of a listing.
Tellings == [of : Places, name : Texts, row : BOOLEAN]
ToShow   == {x \in Tellings : x.row /\ Len(Utf8ToWide(x.name)) < MaxPath}
NotToShow == {x \in Tellings : ~x.row}

Expected(l) == Only(l, {x \in Range(l) : x.row /\ Len(Utf8ToWide(x.name)) < MaxPath})
Unusable(l) == Only(l, {x \in Range(l) : ~x.row})
Announced(l) == [i \in DOMAIN Unusable(l) |-> Unusable(l)[i].of.serial]

\* What is to be shown, and what is not, are two halves of what was listed.
LEMMA ExpectedIs ==
    ASSUME NEW l \in Seq(Tellings)
    PROVE  Expected(l) = Only(l, ToShow) /\ Unusable(l) = Only(l, NotToShow)
<1> DEFINE Shows(x) == Len(Utf8ToWide(x.name)) < MaxPath
           A == {x \in Range(l) : x.row /\ Shows(x)}
           B == {x \in Range(l) : ~x.row}
<1>1. l \in Seq(Range(l)) /\ \A x \in Range(l) : x \in Tellings
  <2>1. Len(l) \in Nat /\ DOMAIN l = 1..Len(l) /\ \A i \in 1..Len(l) : l[i] \in Tellings
    BY LenProperties, ElementOfSeq
  <2>2. l \in [1..Len(l) -> Range(l)]
    BY <2>1 DEF Range
  <2>3. l \in Seq(Range(l))
    BY ONLY <2>1, <2>2, Listed
  <2> QED
    BY <2>1, <2>3 DEF Range
<1>2. Expected(l) = Only(l, A) /\ Unusable(l) = Only(l, B)
  BY DEF Expected, Unusable
<1>3. ToShow = {x \in Tellings : x.row /\ Shows(x)}
  BY DEF ToShow
<1> HIDE DEF Shows
<1>4. /\ \A x \in Range(l) : x \in A <=> x \in ToShow
      /\ \A x \in Range(l) : x \in B <=> x \in NotToShow
  BY <1>1, <1>3 DEF NotToShow
<1> HIDE DEF A, B
<1> QED
  BY <1>1, <1>2, <1>4, OnlySame

\* An entry fits when its name does.
LEMMA Fits ==
    ASSUME NEW e, e.name \in Texts
    PROVE  FillFindData(e).fits <=> Len(Utf8ToWide(e.name)) < MaxPath
<1>1. PICK wide \in Seq(Units) : wide = Utf8ToWide(e.name)
  BY Utf8ToWideIs
<1>2. Len(wide) \in Nat /\ MaxPath \in Nat
  BY LenProperties, PanelAssumption
<1>3. FillFindData(e).fits <=> Len(wide) <= MaxPath - 1
  BY <1>1 DEF FillFindData, Utf8ToWideBuf
<1> QED
  BY <1>1, <1>2, <1>3

\* The list of devices, as it is read and as it is told.
DeviceEntry == [d \in Devices |-> [name |-> DisplayNameForDevice(d), mtime |-> 0, of |-> DeviceRoot(d)]]
DeviceTold  == [d \in Devices |-> [of |-> DeviceRoot(d), name |-> DisplayNameForDevice(d),
                                   row |-> d.state = Usable]]
SerialFor   == [d \in Devices |-> d.serial]
UsableSet   == {d \in Devices : d.state = Usable}
UnusableSet == {d \in Devices : d.state # Usable}

\* The devices of a bus are those that can be used and those that cannot.
LEMMA DevicesSorted ==
    ASSUME NEW bus \in Seq(Devices)
    PROVE  UsableOn(bus) = Only(bus, UsableSet) /\ UnusableOn(bus) = Only(bus, UnusableSet)
<1>1. bus \in Seq(Range(bus)) /\ \A d \in Range(bus) : d \in Devices
  <2>1. Len(bus) \in Nat /\ DOMAIN bus = 1..Len(bus) /\ \A i \in 1..Len(bus) : bus[i] \in Devices
    BY LenProperties, ElementOfSeq
  <2>2. bus \in [1..Len(bus) -> Range(bus)]
    BY <2>1 DEF Range
  <2>3. bus \in Seq(Range(bus))
    BY ONLY <2>1, <2>2, Listed
  <2> QED
    BY <2>1, <2>3 DEF Range
<1> DEFINE A == {d \in Range(bus) : d.state = Usable}
           B == {d \in Range(bus) : d.state # Usable}
<1>2. UsableOn(bus) = Only(bus, A) /\ UnusableOn(bus) = Only(bus, B)
  BY DEF UsableOn, UnusableOn
<1>3. \A d \in Range(bus) : (d \in A <=> d \in UsableSet) /\ (d \in B <=> d \in UnusableSet)
  BY <1>1 DEF UsableSet, UnusableSet
<1> HIDE DEF A, B
<1> QED
  BY <1>1, <1>2, <1>3, OnlySame

\* The row of a device and what is told of it agree on its place, on whether it can
\* be used and on whether its name fits the panel.
LEMMA DeviceEntries ==
    ASSUME NEW d \in Devices
    PROVE  /\ DeviceEntry[d] \in Entries /\ DeviceTold[d] \in Tellings
           /\ DeviceEntry[d].of = DeviceTold[d].of /\ DeviceTold[d].of.serial = SerialFor[d]
           /\ DeviceTold[d] \in NotToShow <=> d \in UnusableSet
           /\ DeviceTold[d] \in ToShow <=>
                d \in UsableSet \cap {x \in Devices : DeviceEntry[x] \in FitSet}
<1>1. PICK name \in Texts : name = DisplayNameForDevice(d)
  BY DisplayNameType
<1>2. DeviceRoot(d) \in Places /\ DeviceRoot(d).path = Root /\ DeviceRoot(d).serial = d.serial
  <2>1. d.serial \in Serials /\ Root \in Texts
    BY SlashText DEF Devices, Serials, Root
  <2> QED
    BY <2>1 DEF DeviceRoot, Places
<1>3. 0 \in Dates
  BY FileTimeAssumption DEF Dates, AtUnixEpoch
<1>4. PICK e : e = [name |-> name, mtime |-> 0, of |-> DeviceRoot(d)]
  OBVIOUS
<1>5. PICK x : x = [of |-> DeviceRoot(d), name |-> name, row |-> d.state = Usable]
  OBVIOUS
<1>6. DeviceEntry[d] = e /\ DeviceTold[d] = x /\ SerialFor[d] = d.serial
  BY <1>1, <1>4, <1>5 DEF DeviceEntry, DeviceTold, SerialFor
<1>7. e \in Entries /\ x \in Tellings
  BY <1>1, <1>2, <1>3, <1>4, <1>5 DEF Entries, Tellings
<1>8. FillFindData(e).fits <=> Len(Utf8ToWide(name)) < MaxPath
  BY <1>1, <1>4, Fits
<1>9. e \in FitSet <=> Len(Utf8ToWide(name)) < MaxPath
  BY <1>7, <1>8 DEF FitSet
<1>10. x \in ToShow <=> d.state = Usable /\ Len(Utf8ToWide(name)) < MaxPath
  BY <1>5, <1>7 DEF ToShow
<1>11. x \in NotToShow <=> d.state # Usable
  BY <1>5, <1>7 DEF NotToShow
<1>12. d \in UsableSet \cap {y \in Devices : DeviceEntry[y] \in FitSet}
         <=> d.state = Usable /\ e \in FitSet
  BY <1>6 DEF UsableSet
<1> QED
  BY <1>2, <1>4, <1>5, <1>6, <1>7, <1>9, <1>10, <1>11, <1>12 DEF UnusableSet

\* listRootDevices maps the usable devices and warns of the others.
LEMMA RootIs ==
    ASSUME NEW bus \in Buses
    PROVE  /\ bus \in Seq(Devices)
           /\ ListRootDevices(bus) = Mapped(DeviceEntry, Only(bus, UsableSet))
           /\ Warning(bus) = Mapped(SerialFor, Only(bus, UnusableSet))
           /\ \A S : Only(bus, S) \in Seq(Devices)
<1>1. bus \in Seq(Devices)
  BY PanelAssumption
<1>2. \A S : Only(bus, S) \in Seq(Devices)
  <2> TAKE S
  <2>1. Only(bus, S) \in Seq(Devices \cap S)
    BY <1>1, OnlyOf
  <2> QED
    BY <2>1, SeqMonotonic
<1>3. ParseDevicesL(DevicesText(bus)) = bus
  BY <1>1, Parsed
<1>4. PICK usable \in Seq(Devices) : usable = UsableOn(bus)
  BY <1>1, <1>2, DevicesSorted
<1>5. PICK bad \in Seq(Devices) : bad = UnusableOn(bus)
  BY <1>1, <1>2, DevicesSorted
<1>6. ListRootDevices(bus) = Mapped(DeviceEntry, usable)
  <2>1. ListRootDevices(bus) =
          [i \in DOMAIN usable |-> [name |-> DisplayNameForDevice(usable[i]), mtime |-> 0,
                                    of |-> DeviceRoot(usable[i])]]
    BY <1>3, <1>4 DEF ListRootDevices
  <2>2. DOMAIN usable = 1..Len(usable) /\ \A i \in DOMAIN usable : usable[i] \in Devices
    BY LenProperties, ElementOfSeq
  <2> QED
    BY <2>1, <2>2 DEF Mapped, DeviceEntry
<1>7. Warning(bus) = Mapped(SerialFor, bad)
  <2>1. Warning(bus) = [i \in DOMAIN bad |-> bad[i].serial]
    BY <1>3, <1>5 DEF Warning
  <2>2. DOMAIN bad = 1..Len(bad) /\ \A i \in DOMAIN bad : bad[i] \in Devices
    BY LenProperties, ElementOfSeq
  <2> QED
    BY <2>1, <2>2 DEF Mapped, SerialFor
<1> QED
  BY <1>1, <1>2, <1>4, <1>5, <1>6, <1>7, DevicesSorted

\* The list of devices has the type of a list of entries.
LEMMA RootEntries ==
    ASSUME NEW bus \in Buses
    PROVE  ListRootDevices(bus) \in Seq(Entries)
BY RootIs, DeviceEntries, MappedType

\* The list of devices is the list of what fits, and the others are announced.
LEMMA RootLists ==
    ASSUME NEW bus \in Buses
    PROVE  LET l == [i \in DOMAIN bus |->
                       [of |-> DeviceRoot(bus[i]), name |-> DisplayNameForDevice(bus[i]),
                        row |-> bus[i].state = Usable]]
           IN  /\ l \in Seq(Tellings)
               /\ Ofs(Only(ListRootDevices(bus), FitSet)) = Ofs(Expected(l))
               /\ Warning(bus) = Announced(l)
<1> DEFINE l == [i \in DOMAIN bus |->
                   [of |-> DeviceRoot(bus[i]), name |-> DisplayNameForDevice(bus[i]),
                    row |-> bus[i].state = Usable]]
           FitD == {x \in Devices : DeviceEntry[x] \in FitSet}
           good == Only(bus, UsableSet \cap FitD)
           bad  == Only(bus, UnusableSet)
<1>1. /\ bus \in Seq(Devices) /\ good \in Seq(Devices) /\ bad \in Seq(Devices)
      /\ Only(bus, UsableSet) \in Seq(Devices)
      /\ ListRootDevices(bus) = Mapped(DeviceEntry, Only(bus, UsableSet))
      /\ Warning(bus) = Mapped(SerialFor, bad)
  BY RootIs
<1>2. l = Mapped(DeviceTold, bus)
  <2>1. DOMAIN bus = 1..Len(bus) /\ \A i \in DOMAIN bus : bus[i] \in Devices
    BY <1>1, LenProperties, ElementOfSeq
  <2> QED
    BY <2>1 DEF Mapped, DeviceTold
<1> HIDE DEF l
<1>3. l \in Seq(Tellings)
  BY <1>1, <1>2, DeviceEntries, MappedType
<1>4. Expected(l) = Mapped(DeviceTold, good)
  <2>1. \A d \in Devices : DeviceTold[d] \in ToShow <=> d \in UsableSet \cap FitD
    BY DeviceEntries
  <2> HIDE DEF FitD
  <2>2. Only(Mapped(DeviceTold, bus), ToShow) = Mapped(DeviceTold, good)
    BY <1>1, <2>1, OnlyMapped
  <2> QED
    BY <1>2, <1>3, <2>2, ExpectedIs
<1>5. Unusable(l) = Mapped(DeviceTold, bad)
  <2>1. \A d \in Devices : DeviceTold[d] \in NotToShow <=> d \in UnusableSet
    BY DeviceEntries
  <2>2. Only(Mapped(DeviceTold, bus), NotToShow) = Mapped(DeviceTold, bad)
    BY <1>1, <2>1, OnlyMapped
  <2> QED
    BY <1>2, <1>3, <2>2, ExpectedIs
<1>6. Only(ListRootDevices(bus), FitSet) = Mapped(DeviceEntry, good)
  <2>1. \A d \in Devices : DeviceEntry[d] \in FitSet <=> d \in FitD
    OBVIOUS
  <2> HIDE DEF FitD
  <2>2. Only(Mapped(DeviceEntry, Only(bus, UsableSet)), FitSet)
          = Mapped(DeviceEntry, Only(Only(bus, UsableSet), FitD))
    BY <1>1, <2>1, OnlyMapped
  <2>3. Only(Only(bus, UsableSet), FitD) = good
    BY <1>1, OnlyTwice
  <2> QED
    BY <1>1, <2>2, <2>3
<1> HIDE DEF good, bad
<1>7. Ofs(Mapped(DeviceEntry, good)) = Ofs(Mapped(DeviceTold, good))
  <2>1. \A d \in Devices : DeviceEntry[d].of = DeviceTold[d].of
    BY DeviceEntries
  <2>2. good \in Seq(Devices)
    BY <1>1
  <2> QED
    BY ONLY <2>1, <2>2, OfsMapped
<1>8. Announced(l) = Mapped(SerialFor, bad)
  <2>1. PICK u : u = Unusable(l)
    OBVIOUS
  <2>2. DOMAIN bad = 1..Len(bad) /\ \A i \in DOMAIN bad : bad[i] \in Devices
    BY <1>1, LenProperties, ElementOfSeq
  <2>3. DOMAIN u = DOMAIN bad /\ \A i \in DOMAIN bad : u[i].of.serial = SerialFor[bad[i]]
    BY <1>5, <2>1, <2>2, DeviceEntries DEF Mapped
  <2> QED
    BY <2>1, <2>3 DEF Announced, Mapped
<1> QED
  BY <1>1, <1>3, <1>4, <1>6, <1>7, <1>8 DEF l

EntryTold == [e \in Entries |-> [of |-> e.of, name |-> e.name, row |-> TRUE]]

\* The entries of a directory are the list of what fits, with nothing to announce.
LEMMA DirectoryLists ==
    ASSUME NEW entries \in Seq(Entries)
    PROVE  LET l == [i \in DOMAIN entries |->
                       [of |-> entries[i].of, name |-> entries[i].name, row |-> TRUE]]
           IN  /\ l \in Seq(Tellings)
               /\ Ofs(Only(entries, FitSet)) = Ofs(Expected(l))
               /\ Announced(l) = <<>>
<1> DEFINE l == [i \in DOMAIN entries |->
                   [of |-> entries[i].of, name |-> entries[i].name, row |-> TRUE]]
           fit == Only(entries, FitSet)
<1>1. \A e \in Entries : /\ EntryTold[e] \in Tellings /\ EntryTold[e] \notin NotToShow
                         /\ EntryTold[e] \in ToShow <=> e \in FitSet
                         /\ EntryTold[e].of = e.of
  <2> TAKE e \in Entries
  <2>1. e.name \in Texts /\ e.of \in Places
    BY DEF Entries
  <2>2. PICK x : x = [of |-> e.of, name |-> e.name, row |-> TRUE]
    OBVIOUS
  <2>3. EntryTold[e] = x /\ x \in Tellings
    BY <2>1, <2>2 DEF EntryTold, Tellings
  <2>4. FillFindData(e).fits <=> Len(Utf8ToWide(e.name)) < MaxPath
    BY <2>1, Fits
  <2>5. x \in ToShow <=> e \in FitSet
    BY <2>2, <2>3, <2>4 DEF ToShow, FitSet
  <2>6. x \notin NotToShow
    BY <2>2 DEF NotToShow
  <2> QED
    BY <2>2, <2>3, <2>5, <2>6
<1>2. l = Mapped(EntryTold, entries)
  <2>1. DOMAIN entries = 1..Len(entries) /\ \A i \in DOMAIN entries : entries[i] \in Entries
    BY LenProperties, ElementOfSeq
  <2> QED
    BY <2>1 DEF Mapped, EntryTold
<1> HIDE DEF l
<1>3. l \in Seq(Tellings)
  BY <1>1, <1>2, MappedType
<1>4. Expected(l) = Mapped(EntryTold, fit)
  <2>1. \A e \in Entries : EntryTold[e] \in ToShow <=> e \in FitSet
    BY <1>1
  <2>2. Only(Mapped(EntryTold, entries), ToShow) = Mapped(EntryTold, fit)
    BY <2>1, OnlyMapped
  <2> QED
    BY <1>2, <1>3, <2>2, ExpectedIs
<1>5. Unusable(l) = <<>>
  <2>1. \A e \in Entries : EntryTold[e] \in NotToShow <=> e \in {}
    BY <1>1
  <2>2. Only(Mapped(EntryTold, entries), NotToShow) = Mapped(EntryTold, Only(entries, {}))
    BY <2>1, OnlyMapped
  <2>3. Only(entries, {}) = <<>>
    BY OnlyAgain
  <2> QED
    BY <1>2, <1>3, <2>2, <2>3, ExpectedIs, MappedEmpty
<1>6. Announced(l) = <<>>
  <2>1. Announced(l) = Mapped(<<>>, <<>>)
    BY <1>5 DEF Announced, Mapped
  <2> QED
    BY <2>1, MappedEmpty
<1>7. fit \in Seq(Entries)
  <2>1. fit \in Seq(Entries \cap FitSet)
    BY OnlyOf
  <2> QED
    BY <2>1, SeqMonotonic
<1> HIDE DEF fit
<1>8. Ofs(Mapped(EntryTold, fit)) = Ofs(fit)
  <2>1. DOMAIN fit = 1..Len(fit) /\ \A i \in DOMAIN fit : fit[i] \in Entries
    BY <1>7, LenProperties, ElementOfSeq
  <2> QED
    BY <1>1, <2>1 DEF Ofs, Mapped
<1> QED
  BY <1>3, <1>4, <1>6, <1>8 DEF l, fit

-----------------------------------------------------------------------------
(* The panel.                                                              *)

TypeInv ==
    /\ here \in Places
    /\ handle \in [open : BOOLEAN, entries : Seq(Entries)]
    /\ rows \in Seq(Shown)

IInv == TypeInv /\ DateComesBack

\* The invariant holds of a panel that has shown nothing yet.
LEMMA InitHolds == Init => IInv
<1> SUFFICES ASSUME Init PROVE IInv
  OBVIOUS
<1>1. \A S : <<>> \in Seq(S)
  BY EmptySeq
<1>2. here \in Places
  BY <1>1 DEF Init, Nowhere, Places, Serials, Texts
<1>3. handle \in [open : BOOLEAN, entries : Seq(Entries)] /\ rows \in Seq(Shown)
  BY <1>1 DEF Init, NoHandle
<1>4. DateComesBack
  BY DEF Init, NoRequest, DateComesBack
<1> QED
  BY <1>2, <1>3, <1>4 DEF IInv, TypeInv

\* The fields of a row have their types.
LEMMA RowFields ==
    ASSUME NEW r \in Shown
    PROVE  /\ r.mtime \in Dates /\ r.date = TimeToFileTime(r.mtime) /\ r.of \in Places
           /\ \E e \in Entries : FillFindData(e).fits /\ r.units = FillFindData(e).units /\ r.of = e.of
<1>1. PICK e \in Entries : FillFindData(e).fits /\ r = Row(e)
  BY DEF Shown
<1>2. e.mtime \in Dates /\ e.of \in Places
  BY DEF Entries
<1> QED
  BY <1>1, <1>2 DEF Row

\* FsFindFirstW fills the handle and the first row with their types.
LEMMA FindFirstHolds ==
    ASSUME TypeInv, NEW entries \in Seq(Entries), FsFindFirst(entries)
    PROVE  TypeInv' /\ request' = NoRequest
<1>1. here' \in Places /\ request' = NoRequest
  BY DEF TypeInv, FsFindFirst
<1>2. CASE Fitting(entries) = <<>>
  <2>1. handle' = NoHandle /\ rows' = <<>>
    BY <1>2 DEF FsFindFirst
  <2>2. \A S : <<>> \in Seq(S)
    BY EmptySeq
  <2> QED
    BY <1>1, <2>1, <2>2 DEF TypeInv, NoHandle
<1>3. CASE Fitting(entries) # <<>>
  <2>1. PICK first, rest : first = Head(Fitting(entries)) /\ rest = Tail(Fitting(entries))
    OBVIOUS
  <2>2. rows' = <<Row(first)>> /\ handle' = [open |-> TRUE, entries |-> rest]
    BY <1>3, <2>1 DEF FsFindFirst
  <2>3. first \in {e \in Entries : FillFindData(e).fits} /\ rest \in Seq(Entries)
    BY <1>3, <2>1, FittingIs
  <2>4. Row(first) \in Shown
    BY <2>3 DEF Shown
  <2>5. <<Row(first)>> \in Seq(Shown)
    BY <2>4
  <2> QED
    BY <1>1, <2>2, <2>3, <2>5 DEF TypeInv
<1> QED
  BY <1>2, <1>3

\* FsFindNextW takes one row out of the handle.
LEMMA FindNextHolds ==
    ASSUME TypeInv, FsFindNext
    PROVE  TypeInv'
<1>1. PICK fitting : fitting = Fitting(handle.entries)
  OBVIOUS
<1>2. /\ fitting # <<>> /\ rows' = Append(rows, Row(Head(fitting)))
      /\ handle' = [handle EXCEPT !.entries = Tail(fitting)] /\ here' = here
  BY <1>1 DEF FsFindNext
<1>3. handle.entries \in Seq(Entries)
  BY DEF TypeInv
<1>4. Head(fitting) \in {e \in Entries : FillFindData(e).fits} /\ Tail(fitting) \in Seq(Entries)
  BY <1>1, <1>2, <1>3, FittingIs
<1>5. Row(Head(fitting)) \in Shown /\ rows \in Seq(Shown)
  BY <1>4 DEF Shown, TypeInv
<1>6. rows' \in Seq(Shown)
  BY <1>2, <1>5, AppendProperties
<1> QED
  BY <1>2, <1>4, <1>6 DEF TypeInv

\* A date sent is the date meant.
LEMMA SetTimeHolds ==
    ASSUME NEW r, NEW ft, NEW mtime \in Int, SetTime(r, ft, mtime), DateComesBack,
           Ticks(ft) \in Nat, mtime >= 0 => mtime \in Dates /\ ft = TimeToFileTime(mtime)
    PROVE  DateComesBack'
<1>1. CASE IsUnsetFileTime(ft)
  BY <1>1 DEF SetTime, vars, DateComesBack
<1>2. CASE ~IsUnsetFileTime(ft)
  <2>1. PICK seconds, ticks : seconds = FileTimeToTime(ft) /\ ticks = Ticks(ft)
    OBVIOUS
  <2>2. request'.args = [ticks |-> ticks, seconds |-> seconds, mtime |-> mtime]
    BY <1>2, <2>1 DEF SetTime, Call
  <2>3. mtime >= 0 => seconds = mtime
    BY <1>2, <2>1, DateRoundTrip
  <2>4. LET off == ticks - AtUnixEpoch - (seconds * TicksPerSecond)
        IN  -TicksPerSecond < off /\ off < TicksPerSecond
    BY <1>2, <2>1, WithinASecond
  <2> QED
    BY <2>2, <2>3, <2>4 DEF DateComesBack
<1> QED
  BY <1>1, <1>2

\* The operations on a row keep the invariant.
LEMMA OnRowHolds ==
    ASSUME IInv, NEW i \in DOMAIN rows, OnRow(i)
    PROVE  IInv'
<1>1. rows[i] \in Shown
  BY LenProperties, ElementOfSeq DEF IInv, TypeInv
<1>2. PICK r : r = rows[i]
  OBVIOUS
<1>3. r.mtime \in Dates /\ r.date = TimeToFileTime(r.mtime) /\ r.of \in Places
  BY <1>1, <1>2, RowFields
<1>4. ASSUME NEW op, NEW args, Call(r, op, args) PROVE TypeInv'
  BY <1>4 DEF IInv, TypeInv, Call
<1>5. CASE DeleteFile(r) \/ RemoveDir(r) \/ GetFile(r)
  <2>1. PICK op, args : Call(r, op, args) /\ op # "touch"
    BY <1>5 DEF DeleteFile, RemoveDir, GetFile
  <2>2. DateComesBack'
    BY <2>1 DEF Call, DateComesBack
  <2> QED
    BY <1>4, <2>1, <2>2 DEF IInv
<1>6. CASE Enter(r)
  <2>1. \A S : <<>> \in Seq(S)
    BY EmptySeq
  <2>2. TypeInv'
    BY <1>3, <1>6, <2>1 DEF Enter, TypeInv, NoHandle
  <2>3. DateComesBack'
    BY <1>6 DEF Enter, DateComesBack
  <2> QED
    BY <2>2, <2>3 DEF IInv
<1>7. ASSUME NEW ft, NEW mtime, SetTime(r, ft, mtime) PROVE TypeInv'
  BY <1>4, <1>7 DEF SetTime, vars, IInv, TypeInv
<1>8. CASE SetTime(r, r.date, r.mtime)
  <2>1. PICK t \in Dates : t = r.mtime
    BY <1>3
  <2>2. Ticks(TimeToFileTime(t)) \in Nat /\ t \in Nat
    <3>1. (AtUnixEpoch + (t * TicksPerSecond)) % (Word * Word) \in Nat
      BY FileTimeAssumption DEF Dates, AtUnixEpoch
    <3> QED
      BY <3>1, SplitTicks DEF TimeToFileTime, Dates
  <2>3. DateComesBack'
    BY <1>3, <1>8, <2>1, <2>2, SetTimeHolds DEF IInv
  <2> QED
    BY <1>7, <1>8, <2>3 DEF IInv
<1>9. ASSUME NEW ticks \in UserDates, SetTime(r, Split(ticks), -1) PROVE IInv'
  <2>1. ticks \in Nat
    BY PanelAssumption, FileTimeAssumption
  <2>2. Ticks(Split(ticks)) \in Nat
    BY <2>1, SplitTicks
  <2>3. DateComesBack'
    BY <1>9, <2>2, SetTimeHolds DEF IInv
  <2> QED
    BY <1>7, <1>9, <2>3 DEF IInv
<1> QED
  BY <1>2, <1>5, <1>6, <1>8, <1>9 DEF OnRow

\* Every step keeps the invariant: one case per action.
LEMMA NextHolds == IInv /\ [Next]_vars => IInv'
<1> SUFFICES ASSUME IInv, [Next]_vars PROVE IInv'
  OBVIOUS
<1>1. TypeInv /\ here \in Places
  BY DEF IInv, TypeInv
<1>2. request' = NoRequest => DateComesBack'
  BY DEF NoRequest, DateComesBack
<1>3. ASSUME NEW bus \in Buses, OpenRoot(bus) PROVE IInv'
  <2>1. FsFindFirst(ListRootDevices(bus)) /\ ListRootDevices(bus) \in Seq(Entries)
    BY <1>3, RootEntries DEF OpenRoot
  <2> QED
    BY <1>1, <1>2, <2>1, FindFirstHolds DEF IInv
<1>4. ASSUME NEW entries \in Listings \cup DeepListings, OpenDirectory(entries) PROVE IInv'
  <2>1. FsFindFirst(AppendEntries(entries)) /\ AppendEntries(entries) \in Seq(Entries)
    BY <1>1, <1>4, DirectoryEntries DEF OpenDirectory
  <2> QED
    BY <1>1, <1>2, <2>1, FindFirstHolds DEF IInv
<1>5. CASE FsFindNext
  <2>1. TypeInv' /\ request' = request
    BY <1>1, <1>5, FindNextHolds DEF FsFindNext
  <2> QED
    BY <2>1 DEF IInv, DateComesBack
<1>6. CASE FsFindClose
  <2>1. <<>> \in Seq(Entries)
    BY EmptySeq
  <2> QED
    BY <1>6, <2>1 DEF FsFindClose, NoHandle, IInv, TypeInv, DateComesBack
<1>7. CASE GoToRoot
  <2>1. \A S : <<>> \in Seq(S)
    BY EmptySeq
  <2>2. Nowhere \in Places
    BY <2>1 DEF Nowhere, Places, Serials, Texts
  <2> QED
    BY <1>2, <1>7, <2>1, <2>2 DEF GoToRoot, NoHandle, IInv, TypeInv
<1>8. ASSUME NEW i \in DOMAIN rows, OnRow(i) PROVE IInv'
  BY <1>8, OnRowHolds
<1>9. CASE UNCHANGED vars
  BY <1>9 DEF vars, IInv, TypeInv, DateComesBack
<1> QED
  BY <1>3, <1>4, <1>5, <1>6, <1>7, <1>8, <1>9 DEF Next

\* Every state of the panel keeps its types and a date that goes out is the one that came in.
THEOREM Invariance == Spec => []IInv
BY InitHolds, NextHolds, PTL DEF Spec

\* A date that FsSetTimeW sends comes back to the second: the file's own when the panel
\* has it from the row, any date within less than a second (timeToFileTime,
\* fileTimeToTime).
THEOREM DatesComeBack == Spec => []DateComesBack
<1>1. IInv => DateComesBack
  BY DEF IInv
<1> QED
  BY <1>1, Invariance, PTL

\* What has been shown, and what is still to come of the listing.
ToldIsListed ==
    /\ listed \in Seq(Tellings)
    /\ listed # <<>> => /\ Ofs(rows) \o Ofs(Only(handle.entries, FitSet)) = Ofs(Expected(listed))
                        /\ warned = Announced(listed)
    /\ ~handle.open => handle.entries = <<>>

\* The places of a list, first and rest.
LEMMA OfsNext ==
    ASSUME NEW h \in Entries, NEW t \in Seq(Entries)
    PROVE  Ofs(<<h>> \o t) = <<h.of>> \o Ofs(t)
<1>1. PICK F : F = [e \in Entries |-> e.of]
  OBVIOUS
<1>2. <<h>> \in Seq(Entries) /\ <<h>> \o t \in Seq(Entries)
  BY ConcatProperties
<1>3. Ofs(<<h>> \o t) = Mapped(F, <<h>> \o t) /\ Ofs(t) = Mapped(F, t)
  BY <1>1, <1>2, OfsIs
<1>4. Mapped(F, <<h>> \o t) = Mapped(F, <<h>>) \o Mapped(F, t)
  <2>1. PICK s : s = <<h>>
    OBVIOUS
  <2>2. s \in Seq(Entries) /\ t \in Seq(Entries)
    BY <1>2, <2>1
  <2>3. Mapped(F, s \o t) = Mapped(F, s) \o Mapped(F, t)
    BY ONLY <2>2, MappedConcat
  <2> QED
    BY <2>1, <2>3
<1>5. Mapped(F, <<h>>) = <<h.of>>
  <2>1. <<h>> = Append(<<>>, h) /\ <<>> \in Seq(Entries)
    BY EmptySeq
  <2>2. Mapped(F, Append(<<>>, h)) = Append(Mapped(F, <<>>), F[h])
    BY <2>1, MappedAppend
  <2>3. Append(<<>>, F[h]) = <<h.of>>
    BY <1>1
  <2> QED
    BY <2>1, <2>2, <2>3, MappedEmpty
<1> QED
  BY <1>3, <1>4, <1>5

\* Places have their type.
LEMMA OfsTypes ==
    /\ \A s \in Seq(Entries) : Ofs(s) \in Seq(Places)
    /\ \A s \in Seq(Shown) : Ofs(s) \in Seq(Places)
<1>1. (\A e \in Entries : e.of \in Places) /\ (\A r \in Shown : r.of \in Places)
  BY RowFields DEF Entries
<1>2. ASSUME NEW R, NEW s \in Seq(R), \A e \in R : e.of \in Places PROVE Ofs(s) \in Seq(Places)
  <2>1. PICK F : F = [x \in R |-> x.of]
    OBVIOUS
  <2>2. \A e \in R : F[e] \in Places
    BY <1>2, <2>1
  <2>3. Mapped(F, s) \in Seq(Places)
    BY <2>2, MappedType
  <2> QED
    BY <2>1, <2>3, OfsIs
<1> QED
  BY <1>1, <1>2

\* Nothing is told before anything is listed.
LEMMA ListInit == Init => ToldIsListed
BY EmptySeq DEF Init, NoHandle, ToldIsListed

\* FsFindFirstW: the first row and what FsFindNextW will still show of the rest are
\* together everything that fits; a handle it closed holds nothing.
LEMMA FindFirstLists ==
    ASSUME NEW entries \in Seq(Entries), FsFindFirst(entries)
    PROVE  /\ Ofs(rows') \o Ofs(Only(handle'.entries, FitSet)) = Ofs(Only(entries, FitSet))
           /\ ~handle'.open => handle'.entries = <<>>
<1>1. Ofs(<<>>) = <<>> /\ <<>> \in Seq(Places)
  <2>1. <<>> \in Seq({}) /\ <<>> \in Seq(Places)
    BY EmptySeq
  <2> QED
    BY <2>1, OfsIs, MappedEmpty
<1>2. CASE Fitting(entries) = <<>>
  <2>1. handle' = NoHandle /\ rows' = <<>>
    BY <1>2 DEF FsFindFirst
  <2>2. handle'.entries = <<>> /\ handle'.open = FALSE
    BY <2>1 DEF NoHandle
  <2>3. Only(entries, FitSet) = <<>> /\ Only(<<>>, FitSet) = <<>>
    BY <1>2, FittingOnly, OnlyEmpty
  <2> QED
    BY <1>1, <2>1, <2>2, <2>3, ConcatEmptySeq
<1>3. CASE Fitting(entries) # <<>>
  <2>1. PICK first, rest : first = Head(Fitting(entries)) /\ rest = Tail(Fitting(entries))
    OBVIOUS
  <2>2. rows' = <<Row(first)>> /\ handle' = [open |-> TRUE, entries |-> rest]
    BY <1>3, <2>1 DEF FsFindFirst
  <2>3. first \in FitSet /\ rest \in Seq(Entries)
    BY <1>3, <2>1, FittingIs DEF FitSet
  <2>4. Only(entries, FitSet) = <<first>> \o Only(rest, FitSet)
    BY <1>3, <2>1, FittingOnly
  <2>5. PICK left \in Seq(Entries) : left = Only(rest, FitSet)
    <3>1. Only(rest, FitSet) \in Seq(Entries \cap FitSet)
      BY <2>3, OnlyOf
    <3> QED
      BY <3>1, SeqMonotonic
  <2>6. Ofs(<<first>> \o left) = <<first.of>> \o Ofs(left)
    BY <2>3, OfsNext DEF FitSet
  <2>7. Ofs(rows') = <<first.of>>
    <3>1. DOMAIN <<Row(first)>> = {1} /\ <<Row(first)>>[1].of = first.of
      BY DEF Row
    <3>2. Ofs(<<Row(first)>>) = [i \in {1} |-> first.of]
      BY <3>1 DEF Ofs
    <3>3. <<first.of>> = [i \in {1} |-> first.of]
      OBVIOUS
    <3> QED
      BY <2>2, <3>2, <3>3
  <2> QED
    BY <2>2, <2>4, <2>5, <2>6, <2>7
<1> QED
  BY <1>2, <1>3

\* FsFindNextW moves entries that fit from the handle to the rows, one at a time, and
\* leaves out those that do not.
LEMMA FindNextLists ==
    ASSUME TypeInv, ToldIsListed, FsFindNext
    PROVE  ToldIsListed'
<1>1. PICK fitting : fitting = Fitting(handle.entries)
  OBVIOUS
<1>2. PICK first, rest : first = Head(fitting) /\ rest = Tail(fitting)
  OBVIOUS
<1>3. /\ fitting # <<>> /\ rows' = Append(rows, Row(first)) /\ handle.open
      /\ handle' = [handle EXCEPT !.entries = rest]
      /\ listed' = listed /\ warned' = warned
  BY <1>1, <1>2 DEF FsFindNext
<1>4. handle \in [open : BOOLEAN, entries : Seq(Entries)] /\ rows \in Seq(Shown)
  BY DEF TypeInv
<1>5. handle'.entries = rest /\ handle'.open
  BY <1>3, <1>4
<1>6. first \in FitSet /\ rest \in Seq(Entries)
  BY <1>1, <1>2, <1>3, <1>4, FittingIs DEF FitSet
<1>7. Only(handle.entries, FitSet) = <<first>> \o Only(rest, FitSet)
  BY <1>1, <1>2, <1>3, <1>4, FittingOnly
<1>8. PICK left \in Seq(Entries) : left = Only(rest, FitSet)
  <2>1. Only(rest, FitSet) \in Seq(Entries \cap FitSet)
    BY <1>6, OnlyOf
  <2> QED
    BY <2>1, SeqMonotonic
<1>9. Ofs(<<first>> \o left) = <<first.of>> \o Ofs(left)
  BY <1>6, OfsNext DEF FitSet
<1>10. PICK r \in Shown : r = Row(first) /\ r.of = first.of
  <2>1. first \in Entries /\ FillFindData(first).fits
    BY <1>6 DEF FitSet
  <2>2. Row(first) \in Shown
    BY <2>1 DEF Shown
  <2>3. Row(first).of = first.of
    BY DEF Row
  <2> QED
    BY <2>2, <2>3
<1>11. Ofs(rows') = Ofs(rows) \o <<first.of>>
  <2> DEFINE F == [x \in Shown |-> x.of]
  <2>1. Append(rows, r) \in Seq(Shown)
    BY <1>4, AppendProperties
  <2>2. Ofs(Append(rows, r)) = Mapped(F, Append(rows, r)) /\ Ofs(rows) = Mapped(F, rows)
    BY <1>4, <2>1, OfsIs
  <2>3. Mapped(F, Append(rows, r)) = Append(Mapped(F, rows), F[r])
    BY <1>4, MappedAppend
  <2>4. Ofs(rows) \in Seq(Places) /\ first.of \in Places
    BY <1>4, <1>10, OfsTypes, RowFields
  <2>5. Append(Ofs(rows), first.of) = Ofs(rows) \o <<first.of>>
    BY <2>4, AppendIsConcat
  <2> QED
    BY <1>3, <1>10, <2>2, <2>3, <2>5
<1>12. Ofs(rows') \o Ofs(left) = Ofs(rows) \o (<<first.of>> \o Ofs(left))
  <2>1. /\ Ofs(rows) \in Seq(Places) /\ Ofs(left) \in Seq(Places) /\ first.of \in Places
    BY <1>4, <1>10, OfsTypes, RowFields
  <2>2. <<first.of>> \in Seq(Places)
    BY <2>1
  <2>3. (Ofs(rows) \o <<first.of>>) \o Ofs(left) = Ofs(rows) \o (<<first.of>> \o Ofs(left))
    BY ONLY <2>1, <2>2, ConcatAssociative
  <2> QED
    BY <1>11, <2>3
<1> QED
  BY <1>3, <1>5, <1>7, <1>8, <1>9, <1>12 DEF ToldIsListed

\* Every step keeps ToldIsListed: the find functions by the lemmas above, the other
\* actions because they leave handle, rows and listed alone or clear them.
LEMMA ListNext == IInv /\ ToldIsListed /\ [Next]_vars => ToldIsListed'
<1> SUFFICES ASSUME IInv, ToldIsListed, [Next]_vars PROVE ToldIsListed'
  OBVIOUS
<1>1. TypeInv /\ here \in Places
  BY DEF IInv, TypeInv
<1>2. ASSUME NEW bus \in Buses, OpenRoot(bus) PROVE ToldIsListed'
  <2>1. /\ FsFindFirst(ListRootDevices(bus)) /\ warned' = Warning(bus)
        /\ listed' = [i \in DOMAIN bus |->
                        [of |-> DeviceRoot(bus[i]), name |-> DisplayNameForDevice(bus[i]),
                         row |-> bus[i].state = Usable]]
    BY <1>2 DEF OpenRoot
  <2>2. ListRootDevices(bus) \in Seq(Entries)
    BY RootEntries
  <2>3. /\ listed' \in Seq(Tellings)
        /\ Ofs(Only(ListRootDevices(bus), FitSet)) = Ofs(Expected(listed'))
        /\ Warning(bus) = Announced(listed')
    BY <2>1, RootLists
  <2>4. /\ Ofs(rows') \o Ofs(Only(handle'.entries, FitSet))
             = Ofs(Only(ListRootDevices(bus), FitSet))
        /\ ~handle'.open => handle'.entries = <<>>
    BY <2>1, <2>2, FindFirstLists
  <2> QED
    BY <2>1, <2>3, <2>4 DEF ToldIsListed, Expected, Announced, Unusable
<1>3. ASSUME NEW entries \in Listings \cup DeepListings, OpenDirectory(entries) PROVE ToldIsListed'
  <2>1. PICK s : s = AppendEntries(entries)
    OBVIOUS
  <2>2. /\ FsFindFirst(s) /\ warned' = <<>>
        /\ listed' = [i \in DOMAIN s |-> [of |-> s[i].of, name |-> s[i].name, row |-> TRUE]]
    BY <1>3, <2>1 DEF OpenDirectory
  <2>3. s \in Seq(Entries)
    BY <1>1, <2>1, DirectoryEntries
  <2>4. /\ listed' \in Seq(Tellings)
        /\ Ofs(Only(s, FitSet)) = Ofs(Expected(listed')) /\ Announced(listed') = <<>>
    BY <2>2, <2>3, DirectoryLists
  <2>5. /\ Ofs(rows') \o Ofs(Only(handle'.entries, FitSet)) = Ofs(Only(s, FitSet))
        /\ ~handle'.open => handle'.entries = <<>>
    BY <2>2, <2>3, FindFirstLists
  <2> QED
    BY <2>2, <2>4, <2>5 DEF ToldIsListed, Expected, Announced, Unusable
<1>4. CASE FsFindNext
  BY <1>1, <1>4, FindNextLists
<1>5. CASE FsFindClose
  <2>1. /\ handle' = NoHandle /\ Fitting(handle.entries) = <<>>
        /\ rows' = rows /\ listed' = listed /\ warned' = warned
    BY <1>5 DEF FsFindClose
  <2>2. handle.entries \in Seq(Entries)
    BY <1>1 DEF TypeInv
  <2>3. Only(handle.entries, FitSet) = <<>> /\ Only(<<>>, FitSet) = <<>>
    BY <2>1, <2>2, FittingOnly, OnlyEmpty
  <2>4. handle'.entries = <<>>
    BY <2>1 DEF NoHandle
  <2> QED
    BY <2>1, <2>3, <2>4 DEF ToldIsListed, Expected, Announced, Unusable
<1>6. CASE GoToRoot
  BY <1>6, EmptySeq DEF GoToRoot, NoHandle, ToldIsListed
<1>7. ASSUME NEW i \in DOMAIN rows, OnRow(i) PROVE ToldIsListed'
  <2>1. \/ UNCHANGED <<handle, listed, rows, warned>>
        \/ listed' = <<>> /\ handle' = NoHandle
    BY <1>7 DEF OnRow, DeleteFile, RemoveDir, GetFile, SetTime, Call, Enter, vars
  <2>2. CASE UNCHANGED <<handle, listed, rows, warned>>
    BY <2>2 DEF ToldIsListed, Expected, Announced, Unusable
  <2>3. CASE listed' = <<>> /\ handle' = NoHandle
    BY <2>3, EmptySeq DEF ToldIsListed, NoHandle
  <2> QED
    BY <2>1, <2>2, <2>3
<1>8. CASE UNCHANGED vars
  BY <1>8 DEF vars, ToldIsListed, Expected, Announced, Unusable
<1> QED
  BY <1>2, <1>3, <1>4, <1>5, <1>6, <1>7, <1>8 DEF Next

\* A complete panel shows every entry once and in order, but for those whose name does
\* not fit, and names every device it cannot show, whatever the adb server says and a
\* directory holds (advanceFindData, listRootDevices, parseDevicesL).
THEOREM RowsShowTheListing == Spec => []RowsAreTheListing
<1>1. Init => ToldIsListed
  BY ListInit
<1>2. IInv /\ ToldIsListed /\ [Next]_vars => ToldIsListed'
  BY ListNext
<1>3. IInv /\ ToldIsListed => RowsAreTheListing
  <2> SUFFICES ASSUME IInv, ToldIsListed, ~handle.open, listed # <<>>
               PROVE  /\ Len(rows) = Len(Expected(listed))
                      /\ \A i \in DOMAIN Expected(listed) : rows[i].of = Expected(listed)[i].of
                      /\ warned = Announced(listed)
    BY Zenon DEF RowsAreTheListing, Expected, Announced, Unusable
  <2>1. handle.entries = <<>> /\ warned = Announced(listed)
    BY DEF ToldIsListed
  <2>2. Ofs(rows) = Ofs(Expected(listed))
    <3>1. Ofs(<<>>) = <<>>
      <4>1. <<>> \in Seq({})
        BY EmptySeq
      <4> QED
        BY <4>1, OfsIs, MappedEmpty
    <3>2. rows \in Seq(Shown)
      BY DEF IInv, TypeInv
    <3>3. Ofs(rows) \in Seq(Places)
      BY <3>2, OfsTypes
    <3>4. Ofs(rows) \o <<>> = Ofs(rows)
      BY <3>3, ConcatEmptySeq
    <3>5. Ofs(rows) \o Ofs(Only(handle.entries, FitSet)) = Ofs(Expected(listed))
      BY DEF ToldIsListed
    <3> QED
      BY <2>1, <3>1, <3>4, <3>5, OnlyEmpty
  <2>3. PICK told : told = Expected(listed)
    OBVIOUS
  <2>4. told \in Seq(Tellings)
    <3>1. told = Only(listed, ToShow) /\ listed \in Seq(Tellings)
      BY <2>3, ExpectedIs DEF ToldIsListed
    <3>2. told \in Seq(Tellings \cap ToShow)
      BY <3>1, OnlyOf
    <3> QED
      BY <3>2, SeqMonotonic
  <2>5. /\ Len(rows) \in Nat /\ DOMAIN rows = 1..Len(rows)
        /\ Len(told) \in Nat /\ DOMAIN told = 1..Len(told)
    BY <2>4, LenProperties DEF IInv, TypeInv
  <2>6. DOMAIN rows = DOMAIN told /\ \A i \in DOMAIN told : rows[i].of = told[i].of
    <3>1. /\ DOMAIN Ofs(rows) = DOMAIN rows /\ \A i \in DOMAIN rows : Ofs(rows)[i] = rows[i].of
          /\ DOMAIN Ofs(told) = DOMAIN told /\ \A i \in DOMAIN told : Ofs(told)[i] = told[i].of
      BY DEF Ofs
    <3>2. Ofs(rows) = Ofs(told)
      BY <2>2, <2>3
    <3> QED
      BY <3>1, <3>2, Zenon
  <2>7. Len(rows) = Len(told)
    <3>1. PICK m \in Nat, n \in Nat : m = Len(rows) /\ n = Len(told) /\ 1..m = 1..n
      BY <2>5, <2>6
    <3>2. ~(m < n) /\ ~(n < m)
      <4>1. m < n => n \in 1..n /\ n \notin 1..m
        OBVIOUS
      <4>2. n < m => m \in 1..m /\ m \notin 1..n
        OBVIOUS
      <4> QED
        BY <3>1, <4>1, <4>2
    <3> QED
      BY <3>1, <3>2
  <2> QED
    BY <2>1, <2>3, <2>6, <2>7
<1> QED
  BY <1>1, <1>2, <1>3, Invariance, PTL DEF Spec

\* FsGetFileW is the one step that names a temporary file.
LEMMA GetFileIsGood ==
    ASSUME IInv, NEW i \in DOMAIN rows, GetFile(rows[i])
    PROVE  TempNameIsGood'
<1>1. PICK r \in Shown : r = rows[i]
  BY LenProperties, ElementOfSeq DEF IInv, TypeInv
<1>2. PICK bytes : bytes = WideToUtf8(r.units)
  OBVIOUS
<1>3. bytes \in Texts /\ WellFormed(bytes)
  <2>1. PICK e \in Entries : FillFindData(e).fits /\ r.units = FillFindData(e).units
    BY <1>1, RowFields
  <2>2. r.units = Utf8ToWide(e.name) /\ e.name \in Texts
    BY <2>1 DEF FillFindData, Utf8ToWideBuf, Entries
  <2>3. r.units \in Seq(Units)
    BY <2>2, Utf8ToWideIs
  <2> QED
    BY <1>2, <2>3, WideToUtf8Is
<1>4. PICK local : local = LocalDir \o bytes
  OBVIOUS
<1>5. PICK temp : temp = TempDownloadPath(local)
  OBVIOUS
<1>6. request'.args.local = local /\ request'.args.temp = temp
  BY <1>1, <1>2, <1>4, <1>5 DEF GetFile, Call
<1>7. GoodTemp(local, temp)
  BY <1>3, <1>4, <1>5, TempPathIs
<1> QED
  BY <1>6, <1>7, Zenon DEF TempNameIsGood, GoodTemp

\* The name tempDownloadPath makes is good for every row of any listing, whatever bytes the
\* device sent, and for every limit and suffix.
THEOREM TempNamesAreGood == Spec => []TempNameIsGood
<1>1. Init => TempNameIsGood
  BY DEF Init, NoRequest, TempNameIsGood
<1>2. IInv /\ TempNameIsGood /\ [Next]_vars => TempNameIsGood'
  <2> SUFFICES ASSUME IInv, TempNameIsGood, [Next]_vars PROVE TempNameIsGood'
    OBVIOUS
  <2>1. ASSUME request' = NoRequest \/ request'.op \in {"rm", "rmdir", "list", "touch"}
        PROVE  TempNameIsGood'
    <3>1. request'.op # "get"
      BY <2>1 DEF NoRequest
    <3> QED
      BY <3>1 DEF TempNameIsGood
  <2>2. ASSUME UNCHANGED request PROVE TempNameIsGood'
    BY <2>2 DEF TempNameIsGood
  <2>3. ASSUME NEW i \in DOMAIN rows, OnRow(i) PROVE TempNameIsGood'
    <3>1. CASE DeleteFile(rows[i]) \/ RemoveDir(rows[i]) \/ Enter(rows[i])
      BY <2>1, <3>1 DEF DeleteFile, RemoveDir, Enter, Call
    <3>2. CASE GetFile(rows[i])
      BY <3>2, GetFileIsGood
    <3>3. ASSUME NEW ft, NEW mtime, SetTime(rows[i], ft, mtime) PROVE TempNameIsGood'
      BY <2>1, <2>2, <3>3 DEF SetTime, Call, vars
    <3> QED
      BY <2>3, <3>1, <3>2, <3>3 DEF OnRow
  <2>4. ASSUME NEW entries, FsFindFirst(entries) PROVE TempNameIsGood'
    BY <2>1, <2>4 DEF FsFindFirst
  <2> QED
    BY <2>1, <2>2, <2>3, <2>4
       DEF Next, OpenRoot, OpenDirectory, FsFindNext, FsFindClose, GoToRoot, vars
<1> QED
  BY <1>1, <1>2, Invariance, PTL DEF Spec

-----------------------------------------------------------------------------
(* The way there and back: what becomes of a well-formed name.             *)

\* An element of two lists in a row is one of either.
LEMMA ContainsConcat ==
    ASSUME NEW R, NEW s \in Seq(R), NEW t \in Seq(R)
    PROVE  \A e : Contains(s \o t, e) <=> Contains(s, e) \/ Contains(t, e)
<1>1. PICK w : w = s \o t
  OBVIOUS
<1>2. /\ w \in Seq(R) /\ Len(w) = Len(s) + Len(t) /\ Len(s) \in Nat /\ Len(t) \in Nat
      /\ \A i \in 1..(Len(s) + Len(t)) : w[i] = IF i <= Len(s) THEN s[i] ELSE t[i - Len(s)]
  BY <1>1, ConcatProperties, LenProperties
<1>3. PICK m \in Nat, n \in Nat : m = Len(s) /\ n = Len(t)
  BY <1>2
<1>4. /\ \A i \in 1..m : i \in 1..(m + n) /\ i <= m
      /\ \A i \in 1..n : m + i \in 1..(m + n) /\ ~(m + i <= m) /\ (m + i) - m = i
      /\ \A i \in 1..(m + n) : i \in 1..m \/ (~(i <= m) /\ i - m \in 1..n)
  OBVIOUS
<1>5. /\ \A i \in 1..m : w[i] = s[i]
      /\ \A i \in 1..n : w[m + i] = t[i]
      /\ \A i \in 1..(m + n) : ~(i <= m) => w[i] = t[i - m]
  BY <1>2, <1>3, <1>4
<1>6. /\ \A i \in 1..m : \E j \in 1..(m + n) : w[j] = s[i]
      /\ \A i \in 1..n : \E j \in 1..(m + n) : w[j] = t[i]
      /\ \A i \in 1..(m + n) : (\E j \in 1..m : s[j] = w[i]) \/ (\E j \in 1..n : t[j] = w[i])
  BY ONLY <1>4, <1>5, Zenon
<1>7. /\ \A e : Contains(w, e) <=> \E i \in 1..(m + n) : w[i] = e
      /\ \A e : Contains(s, e) <=> \E i \in 1..m : s[i] = e
      /\ \A e : Contains(t, e) <=> \E i \in 1..n : t[i] = e
  <2>1. Len(w) = m + n /\ Len(s) = m /\ Len(t) = n
    BY <1>2, <1>3
  <2> QED
    BY <2>1 DEF Contains
<1>8. \A e : Contains(w, e) <=> Contains(s, e) \/ Contains(t, e)
  <2> TAKE e
  <2>1. ASSUME Contains(w, e) PROVE Contains(s, e) \/ Contains(t, e)
    <3>1. PICK i \in 1..(m + n) : w[i] = e
      BY <1>7, <2>1
    <3> QED
      BY <1>6, <1>7, <3>1
  <2>2. ASSUME Contains(s, e) PROVE Contains(w, e)
    <3>1. PICK i \in 1..m : s[i] = e
      BY <1>7, <2>2
    <3> QED
      BY <1>6, <1>7, <3>1
  <2>3. ASSUME Contains(t, e) PROVE Contains(w, e)
    <3>1. PICK i \in 1..n : t[i] = e
      BY <1>7, <2>3
    <3> QED
      BY <1>6, <1>7, <3>1
  <2> QED
    BY <2>1, <2>2, <2>3
<1> QED
  BY <1>1, <1>8

\* What is in the list and in the set is left.
LEMMA OnlyHas ==
    ASSUME NEW R, NEW S
    PROVE  \A s \in Seq(R) : \A e \in S : Contains(s, e) => Contains(Only(s, S), e)
<1> DEFINE T == {s \in Seq(R) : \A e \in S : Contains(s, e) => Contains(Only(s, S), e)}
<1>1. <<>> \in T
  <2>1. <<>> \in Seq(R) /\ Len(<<>>) = 0
    BY EmptySeq
  <2> QED
    BY <2>1 DEF Contains
<1>2. ASSUME NEW s \in Seq(R), s \in T, NEW e \in R PROVE Append(s, e) \in T
  <2>1. Append(s, e) \in Seq(R) /\ \A x : Contains(Append(s, e), x) <=> Contains(s, x) \/ x = e
    BY Extended
  <2>2. Only(Append(s, e), S) = IF e \in S THEN Append(Only(s, S), e) ELSE Only(s, S)
    BY OnlyAppend
  <2>3. Only(s, S) \in Seq(R)
    <3>1. Only(s, S) \in Seq(R \cap S)
      BY OnlyOf
    <3> QED
      BY <3>1, SeqMonotonic
  <2>4. \A x : Contains(Append(Only(s, S), e), x) <=> Contains(Only(s, S), x) \/ x = e
    BY <2>3, Extended
  <2>5. ASSUME NEW x \in S, Contains(Append(s, e), x) PROVE Contains(Only(Append(s, e), S), x)
    <3>1. Contains(s, x) => Contains(Only(s, S), x)
      BY <1>2
    <3> QED
      BY <2>1, <2>2, <2>4, <2>5, <3>1, Zenon
  <2> QED
    BY <2>1, <2>5
<1> HIDE DEF T
<1>3. \A s \in Seq(R) : s \in T
  BY <1>1, <1>2, Extending
<1> QED
  BY <1>3 DEF T

\* One unit, or one pair of them, becomes the encoding of what it stands for.
LEMMA EncodesOne ==
    ASSUME NEW c, Scalar(c)
    PROVE  /\ AppendWide(c) \in Seq(Units) /\ AppendWide(c) # <<>>
           /\ ~High(Last(AppendWide(c)))
           /\ WideToUtf8(AppendWide(c)) = AppendUtf8(c)
<1>1. c \in Nat /\ c <= 1114111 /\ ~Surrogate(c)
  BY DEF Scalar, MaxCodePoint
<1>2. PICK w \in Seq(Units) : w = AppendWide(c)
  BY WideUnits
<1>3. PICK N \in Nat : N = Len(w)
  BY LenProperties
<1>4. PICK f \in [1..(N + 1) -> Texts] :
        Chained(f, 1, N, Encoded(w), UnitsOf(w)) /\ WideToUtf8(w) = f[1]
  BY <1>3, WideToUtf8Chain
<1>5. ASSUME N >= 1, CodePoint(w, 1) = c, (IF Paired(w, 1) THEN 2 ELSE 1) = N
      PROVE  WideToUtf8(w) = AppendUtf8(c)
  <2>1. 1 \in 1..N /\ 1 + N = N + 1
    BY <1>5
  <2>2. Encoded(w)[1] = AppendUtf8(c) /\ UnitsOf(w)[1] = N
    BY <1>3, <1>5, <2>1 DEF Encoded, UnitsOf
  <2>3. f[1] = AppendUtf8(c) \o f[N + 1] /\ f[N + 1] = <<>>
    BY <1>4, <2>1, <2>2 DEF Chained
  <2>4. AppendUtf8(c) \in Seq(Byte)
    BY EncodedIs DEF Texts
  <2>5. AppendUtf8(c) \o <<>> = AppendUtf8(c)
    BY <2>4, ConcatEmptySeq
  <2> QED
    BY <1>4, <2>3, <2>5
<1>6. CASE c <= 65535
  <2>1. AppendWide(c) = <<c>> /\ c \in Units
    BY <1>1, <1>6 DEF AppendWide, Units
  <2>2. N = 1 /\ w[1] = c /\ w # <<>> /\ Last(w) = c
    BY <1>2, <1>3, <2>1 DEF Last
  <2>3. ~Paired(w, 1) /\ CodePoint(w, 1) = c
    BY <1>1, <1>3, <2>2 DEF Paired, CodePoint
  <2>4. ~High(c)
    BY <1>1 DEF Surrogate
  <2> QED
    BY <1>2, <1>5, <2>2, <2>3, <2>4
<1>7. CASE c > 65535
  <2>1. PICK x, y : x = (c - 65536) \div 1024 /\ y = (c - 65536) % 1024
    OBVIOUS
  <2>2. x \in 0..1023 /\ y \in 0..1023 /\ c = 65536 + x * 1024 + y
    BY <1>1, <1>7, <2>1, SMT
  <2>3. PICK h \in Units, l \in Units : h = 55296 + x /\ l = 56320 + y
    BY <2>2 DEF Units
  <2>4. High(h) /\ Low(l) /\ ~High(l)
    BY <2>2, <2>3 DEF High, Low
  <2>5. AppendWide(c) = <<h, l>>
    BY <1>1, <1>7, <2>1, <2>3 DEF AppendWide
  <2>6. N = 2 /\ w[1] = h /\ w[2] = l /\ w # <<>> /\ Last(w) = l
    BY <1>2, <1>3, <2>5 DEF Last
  <2>7. Paired(w, 1)
    BY <1>3, <2>4, <2>6 DEF Paired
  <2>8. CodePoint(w, 1) = 65536 + (h - 55296) * 1024 + (l - 56320)
    BY <2>6, <2>7 DEF CodePoint
  <2>9. 65536 + (h - 55296) * 1024 + (l - 56320) = c
    <3>1. h - 55296 = x /\ l - 56320 = y
      BY <2>2, <2>3
    <3> QED
      BY <2>2, <3>1
  <2> QED
    BY <1>2, <1>5, <2>4, <2>6, <2>7, <2>8, <2>9
<1> QED
  BY <1>1, <1>6, <1>7

\* Two units at which wideToUtf8 does the same.
LEMMA SamePiece ==
    ASSUME NEW w, NEW i \in 1..Len(w), NEW v, NEW j \in 1..Len(v),
           w[i] = v[j], Paired(w, i) <=> Paired(v, j), Paired(v, j) => w[i + 1] = v[j + 1]
    PROVE  Encoded(w)[i] = Encoded(v)[j] /\ UnitsOf(w)[i] = UnitsOf(v)[j]
<1>1. CodePoint(w, i) = CodePoint(v, j)
  BY DEF CodePoint
<1> QED
  BY <1>1 DEF Encoded, UnitsOf

\* The parts of a sequence may be put together in any order.
Regroups(s, t, u) == (s \o t) \o u = s \o (t \o u)
LEMMA Regrouping == \A R : \A s, t, u \in Seq(R) : Regroups(s, t, u)
BY ConcatAssociative DEF Regroups

\* No pair stands with its first half in u and its second in v.
Apart(u, v) == u = <<>> \/ v = <<>> \/ ~High(Last(u)) \/ ~Low(v[1])

\* wideToUtf8 of two parts is that of each, if no pair is cut.
LEMMA WideToUtf8Concat ==
    ASSUME NEW u \in Seq(Units), NEW v \in Seq(Units), Apart(u, v)
    PROVE  WideToUtf8(u \o v) = WideToUtf8(u) \o WideToUtf8(v)
<1>1. PICK m \in Nat, n \in Nat : m = Len(u) /\ n = Len(v)
  BY LenProperties
<1>0. Jumps(UnitsOf(u), m) /\ Jumps(UnitsOf(v), n)
  BY <1>1, EncodedType
<1>2. PICK w \in Seq(Units) : w = u \o v
  BY ConcatProperties
<1>3. /\ Len(w) = m + n /\ \A i \in 1..m : w[i] = u[i]
      /\ \A j \in 1..n : w[m + j] = v[j]
  <2>1. Len(w) = m + n /\ \A i \in 1..(m + n) : w[i] = IF i <= m THEN u[i] ELSE v[i - m]
    BY <1>1, <1>2, ConcatProperties
  <2>2. /\ \A i \in 1..m : i \in 1..(m + n) /\ i <= m
        /\ \A j \in 1..n : m + j \in 1..(m + n) /\ ~(m + j <= m) /\ (m + j) - m = j
    OBVIOUS
  <2> QED
    BY <2>1, <2>2
<1>4. PICK f \in [1..(m + n + 1) -> Texts] :
        Chained(f, 1, m + n, Encoded(w), UnitsOf(w)) /\ WideToUtf8(w) = f[1]
  BY <1>3, WideToUtf8Chain
<1>5. PICK h \in [1..(m + 1) -> Texts] :
        Chained(h, 1, m, Encoded(u), UnitsOf(u)) /\ WideToUtf8(u) = h[1]
  BY <1>1, WideToUtf8Chain
<1>6. PICK g \in [1..(n + 1) -> Texts] :
        Chained(g, 1, n, Encoded(v), UnitsOf(v)) /\ WideToUtf8(v) = g[1]
  BY <1>1, WideToUtf8Chain
<1> DEFINE S == {j \in 1..(n + 1) : f[m + j] = g[j]}
<1>7. n + 1 \in S
  <2>1. f[m + n + 1] = <<>> /\ g[n + 1] = <<>> /\ m + (n + 1) = m + n + 1
    BY <1>4, <1>6 DEF Chained
  <2> QED
    BY <2>1
<1>8. ASSUME NEW j \in 1..n, \A q \in (j + 1)..(n + 1) : q \in S PROVE j \in S
  <2>1. m + j \in 1..(m + n) /\ m + j + 1 = m + (j + 1) /\ (m + j < m + n <=> j < n)
    OBVIOUS
  <2>2. w[m + j] = v[j] /\ (j < n => w[m + j + 1] = v[j + 1])
    <3>1. j < n => j + 1 \in 1..n
      OBVIOUS
    <3> QED
      BY <1>3, <2>1, <3>1
  <2>3. Paired(w, m + j) <=> Paired(v, j)
    BY <1>1, <1>3, <2>1, <2>2 DEF Paired
  <2>4. Paired(v, j) => w[m + j + 1] = v[j + 1]
    BY <1>1, <2>2 DEF Paired
  <2>5. Encoded(w)[m + j] = Encoded(v)[j] /\ UnitsOf(w)[m + j] = UnitsOf(v)[j]
    <3>1. m + j \in 1..Len(w) /\ j \in 1..Len(v)
      BY <1>1, <1>3, <2>1
    <3> QED
      BY ONLY <2>2, <2>3, <2>4, <3>1, SamePiece
  <2>6. PICK next \in (j + 1)..(n + 1) : next = j + UnitsOf(v)[j]
    <3>1. UnitsOf(v)[j] \in Nat \ {0} /\ j + UnitsOf(v)[j] <= n + 1
      BY <1>0 DEF Jumps
    <3>2. j + UnitsOf(v)[j] \in (j + 1)..(n + 1)
      BY <3>1
    <3> QED
      BY <3>2
  <2>7. g[j] = Encoded(v)[j] \o g[next]
    BY <1>6, <2>6 DEF Chained
  <2>8. f[m + j] = Encoded(v)[j] \o f[m + next]
    <3>1. f[m + j] = Encoded(w)[m + j] \o f[(m + j) + UnitsOf(w)[m + j]]
      BY <1>4, <2>1 DEF Chained
    <3>2. (m + j) + UnitsOf(v)[j] = m + next
      <4>1. UnitsOf(v)[j] \in Nat
        BY <1>0 DEF Jumps
      <4> QED
        BY <2>6, <4>1
    <3> QED
      BY <2>5, <3>1, <3>2
  <2>9. f[m + next] = g[next]
    BY <1>8, <2>6
  <2>10. f[m + j] = g[j] /\ j \in 1..(n + 1)
    BY <2>7, <2>8, <2>9
  <2> QED
    BY <2>10
<1>9. \A j \in 1..(n + 1) : j \in S
  <2> HIDE DEF S
  <2> QED
    BY <1>7, <1>8, Backwards
<1>10. f[m + 1] = g[1]
  <2>1. 1 \in S
    BY <1>9
  <2> QED
    BY <2>1
<1> DEFINE T == {i \in 1..(m + 1) : f[i] = h[i] \o g[1]}
<1>11. g[1] \in Seq(Byte)
  <2>1. 1 \in 1..(n + 1)
    OBVIOUS
  <2> QED
    BY <2>1 DEF Texts
<1>12. m + 1 \in T
  <2>1. h[m + 1] = <<>> /\ <<>> \o g[1] = g[1]
    BY <1>5, <1>11, ConcatEmptySeq DEF Chained
  <2>2. f[m + 1] = h[m + 1] \o g[1] /\ m + 1 \in 1..(m + 1)
    BY <1>10, <2>1
  <2> QED
    BY <2>2
<1>13. ASSUME NEW i \in 1..m, \A q \in (i + 1)..(m + 1) : q \in T PROVE i \in T
  <2>1. i \in 1..(m + n) /\ w[i] = u[i] /\ (i < m => i < m + n)
    BY <1>3
  <2>2. i < m => w[i + 1] = u[i + 1]
    <3>1. i < m => i + 1 \in 1..m
      OBVIOUS
    <3> QED
      BY <1>3, <3>1
  <2>3. Paired(w, i) <=> Paired(u, i)
    <3>1. CASE i < m
      BY <1>1, <1>3, <2>1, <2>2, <3>1 DEF Paired
    <3>2. CASE i = m
      <4>1. ~Paired(u, i)
        BY <1>1, <3>2 DEF Paired
      <4>2. ~Paired(w, i)
        <5> SUFFICES ASSUME High(w[i]), i < m + n, Low(w[i + 1]) PROVE FALSE
          BY <1>3 DEF Paired
        <5>1. 1 \in 1..n /\ w[i + 1] = v[1]
          BY <1>3, <3>2
        <5>2. Last(u) = u[m] /\ u # <<>> /\ v # <<>>
          BY <1>1, <3>2, <5>1, EmptySeq DEF Last
        <5> QED
          BY <2>1, <3>2, <5>1, <5>2 DEF Apart
      <4> QED
        BY <4>1, <4>2
    <3> QED
      BY <3>1, <3>2
  <2>4. Paired(u, i) => w[i + 1] = u[i + 1]
    BY <1>1, <2>2 DEF Paired
  <2>5. Encoded(w)[i] = Encoded(u)[i] /\ UnitsOf(w)[i] = UnitsOf(u)[i]
    <3>1. i \in 1..Len(w) /\ i \in 1..Len(u)
      BY <1>1, <1>3, <2>1
    <3> QED
      BY ONLY <2>1, <2>3, <2>4, <3>1, SamePiece
  <2>6. PICK next \in (i + 1)..(m + 1) : next = i + UnitsOf(u)[i]
    <3>1. UnitsOf(u)[i] \in Nat \ {0} /\ i + UnitsOf(u)[i] <= m + 1
      BY <1>0 DEF Jumps
    <3>2. i + UnitsOf(u)[i] \in (i + 1)..(m + 1)
      BY <3>1
    <3> QED
      BY <3>2
  <2>7. h[i] = Encoded(u)[i] \o h[next] /\ f[i] = Encoded(u)[i] \o f[next]
    BY <1>4, <1>5, <2>1, <2>5, <2>6 DEF Chained
  <2>8. f[next] = h[next] \o g[1]
    BY <1>13, <2>6
  <2>9. PICK a \in Seq(Byte), b \in Seq(Byte), d \in Seq(Byte) :
          a = Encoded(u)[i] /\ b = h[next] /\ d = g[1]
    <3>1. Encoded(u)[i] \in Seq(Byte)
      BY <1>1, EncodedType DEF Texts
    <3>2. h[next] \in Seq(Byte)
      <4>1. next \in 1..(m + 1)
        BY <2>6
      <4> QED
        BY <4>1 DEF Texts
    <3> QED
      BY <1>11, <3>1, <3>2
  <2>10. (a \o b) \o d = a \o (b \o d)
    <3>1. Regroups(a, b, d)
      BY Regrouping, Zenon
    <3> QED
      BY <3>1, Zenon DEF Regroups
  <2>11. f[i] = h[i] \o g[1] /\ i \in 1..(m + 1)
    BY <2>7, <2>8, <2>9, <2>10
  <2> QED
    BY <2>11
<1>14. \A i \in 1..(m + 1) : i \in T
  <2> HIDE DEF T
  <2> QED
    BY <1>12, <1>13, Backwards
<1>15. f[1] = h[1] \o g[1]
  <2>1. 1 \in 1..(m + 1)
    OBVIOUS
  <2> QED
    BY <1>14, <2>1
<1> QED
  BY <1>2, <1>4, <1>5, <1>6, <1>15

\* The bits of one continuation byte.
LEMMA SixBits == \A b \in Nat : b >= 128 /\ b <= 191 => b % 64 = b - 128
BY SMT

\* A value and the bits of one more byte, or of several, taken apart again.
Splits(a, x, k) == ((k * a) + x) \div k = a /\ ((k * a) + x) % k = x
LEMMA BySixBits == \A a, x \in Nat : x < 64 => Splits(a, x, 64)
BY SMT DEF Splits
LEMMA ByTwelveBits == \A a, x \in Nat : x < 4096 => Splits(a, x, 4096)
BY SMT DEF Splits
LEMMA ByEighteenBits == \A a, x \in Nat : x < 262144 => Splits(a, x, 262144)
BY SMT DEF Splits

\* v is the scalar value, of length n, that the bytes of chr stand for.
StandsFor(v, n, chr) == ~NotScalar(v, n) /\ Scalar(v) /\ AppendUtf8(v) = chr

\* The numbers of a well-formed character: what decodeUtf8 adds up is a scalar value
\* of that length, and its encoding is the character again.
LEMMA TwoBytes ==
    \A x, y \in Nat :
        2 <= x /\ x <= 31 /\ y <= 63 =>
        StandsFor((64 * x) + y, 2, <<192 + x, 128 + y>>)
<1> SUFFICES ASSUME NEW x \in Nat, NEW y \in Nat,
                    2 <= x /\ x <= 31 /\ y <= 63, NEW v, v = (64 * x) + y
             PROVE  StandsFor(v, 2, <<192 + x, 128 + y>>)
  OBVIOUS
<1>1. v \in Nat /\ v >= 128 /\ v <= 2047
  OBVIOUS
<1>2. ~NotScalar(v, 2) /\ Scalar(v)
  BY ONLY <1>1, SMT DEF NotScalar, MinCodePoint, MaxCodePoint, Surrogate, High, Low, Scalar
<1>3. v \div 64 = x /\ v % 64 = y
  <2>1. Splits(x, y, 64)
    BY BySixBits
  <2> QED
    BY <2>1 DEF Splits
<1>4. v \div 1 = v
  BY ONLY <1>1, SMT
<1>5. AppendUtf8(v) = <<192 + x, 128 + y>>
  BY <1>1, <1>3, <1>4 DEF AppendUtf8
<1> QED
  BY <1>2, <1>5 DEF StandsFor

ThreeBits(x, y, z) ==
    x <= 15 /\ y <= 63 /\ z <= 63 /\ (x = 0 => y >= 32) /\ (x = 13 => y <= 31)
LEMMA ThreeBytes ==
    \A x, y, z \in Nat :
        ThreeBits(x, y, z) =>
        StandsFor((64 * ((64 * x) + y)) + z, 3, <<224 + x, 128 + y, 128 + z>>)
<1> SUFFICES ASSUME NEW x \in Nat, NEW y \in Nat, NEW z \in Nat,
                    ThreeBits(x, y, z)
             PROVE  StandsFor((64 * ((64 * x) + y)) + z, 3, <<224 + x, 128 + y, 128 + z>>)
  OBVIOUS
<1>v. PICK v : v = (64 * ((64 * x) + y)) + z
  OBVIOUS
<1>0. x <= 15 /\ y <= 63 /\ z <= 63 /\ (x = 0 => y >= 32) /\ (x = 13 => y <= 31)
  BY DEF ThreeBits
<1>1. v \in Nat /\ v >= 2048 /\ v <= 65535 /\ (v < 55296 \/ v > 57343)
  BY <1>0, <1>v
<1>2. ~NotScalar(v, 3) /\ Scalar(v)
  BY ONLY <1>1, SMT DEF NotScalar, MinCodePoint, MaxCodePoint, Surrogate, High, Low, Scalar
<1>3. PICK u \in Nat : u = (64 * x) + y /\ v = (64 * u) + z
  BY <1>v
<1>4. v \div 64 = u /\ v % 64 = z /\ u % 64 = y
  <2>1. Splits(u, z, 64) /\ Splits(x, y, 64)
    BY <1>0, BySixBits
  <2> QED
    BY <1>3, <2>1 DEF Splits
<1>5. v \div 4096 = x
  <2>1. PICK rest \in Nat : rest = (64 * y) + z /\ rest < 4096 /\ v = (4096 * x) + rest
    BY <1>0, <1>v
  <2>2. Splits(x, rest, 4096)
    BY <2>1, ByTwelveBits
  <2> QED
    BY <2>1, <2>2 DEF Splits
<1>6. v \div 1 = v
  BY ONLY <1>1, SMT
<1>7. AppendUtf8(v) = <<224 + x, 128 + y, 128 + z>>
  BY <1>1, <1>4, <1>5, <1>6 DEF AppendUtf8
<1> QED
  BY <1>v, <1>2, <1>7 DEF StandsFor

FourBits(x, y, z, t) ==
    x <= 4 /\ y <= 63 /\ z <= 63 /\ t <= 63 /\ (x = 0 => y >= 16) /\ (x = 4 => y <= 15)
LEMMA FourBytes ==
    \A x, y, z, t \in Nat :
        FourBits(x, y, z, t) =>
        StandsFor((64 * ((64 * ((64 * x) + y)) + z)) + t, 4, <<240 + x, 128 + y, 128 + z, 128 + t>>)
<1> SUFFICES ASSUME NEW x \in Nat, NEW y \in Nat, NEW z \in Nat, NEW t \in Nat,
                    FourBits(x, y, z, t)
             PROVE  StandsFor((64 * ((64 * ((64 * x) + y)) + z)) + t, 4, <<240 + x, 128 + y, 128 + z, 128 + t>>)
  OBVIOUS
<1>v. PICK v : v = (64 * ((64 * ((64 * x) + y)) + z)) + t
  OBVIOUS
<1>0. x <= 4 /\ y <= 63 /\ z <= 63 /\ t <= 63 /\ (x = 0 => y >= 16) /\ (x = 4 => y <= 15)
  BY DEF FourBits
<1>1. v \in Nat /\ v >= 65536 /\ v <= 1114111
  BY <1>0, <1>v
<1>2. ~NotScalar(v, 4) /\ Scalar(v)
  BY ONLY <1>1, SMT DEF NotScalar, MinCodePoint, MaxCodePoint, Surrogate, High, Low, Scalar
<1>3. PICK u \in Nat, w \in Nat : u = (64 * x) + y /\ w = (64 * u) + z /\ v = (64 * w) + t
  BY <1>v
<1>4. v \div 64 = w /\ v % 64 = t /\ w % 64 = z /\ u % 64 = y
  <2>1. Splits(w, t, 64) /\ Splits(u, z, 64) /\ Splits(x, y, 64)
    BY <1>0, BySixBits
  <2> QED
    BY <1>3, <2>1 DEF Splits
<1>5. v \div 4096 = u
  <2>1. PICK rest \in Nat : rest = (64 * z) + t /\ rest < 4096 /\ v = (4096 * u) + rest
    BY <1>0, <1>3
  <2>2. Splits(u, rest, 4096)
    BY <2>1, ByTwelveBits
  <2> QED
    BY <2>1, <2>2 DEF Splits
<1>6. v \div 262144 = x
  <2>1. PICK rest \in Nat : /\ rest = (4096 * y) + ((64 * z) + t) /\ rest < 262144
                            /\ v = (262144 * x) + rest
    BY <1>0, <1>v
  <2>2. Splits(x, rest, 262144)
    BY <2>1, ByEighteenBits
  <2> QED
    BY <2>1, <2>2 DEF Splits
<1>7. v \div 1 = v
  BY ONLY <1>1, SMT
<1>8. AppendUtf8(v) = <<240 + x, 128 + y, 128 + z, 128 + t>>
  BY <1>1, <1>4, <1>5, <1>6, <1>7 DEF AppendUtf8
<1> QED
  BY <1>v, <1>2, <1>8 DEF StandsFor

\* A short text and its bytes.
LEMMA ShortTexts ==
    ASSUME NEW c \in Texts
    PROVE  /\ Len(c) = 1 => c = <<c[1]>>
           /\ Len(c) = 2 => c = <<c[1], c[2]>>
           /\ Len(c) = 3 => c = <<c[1], c[2], c[3]>>
           /\ Len(c) = 4 => c = <<c[1], c[2], c[3], c[4]>>
<1>1. c \in Seq(Byte) /\ DOMAIN c = 1..Len(c) /\ c = [i \in 1..Len(c) |-> c[i]]
  BY LenProperties DEF Texts
<1> QED
  BY <1>1

\* The bits the lead byte contributes and the length it announces, by its value.
LEMMA LeadMarks ==
    LeadMark[1] = 0 /\ LeadMark[2] = 192 /\ LeadMark[3] = 224 /\ LeadMark[4] = 240
BY DEF LeadMark

LEMMA SeqLens ==
    \A a \in Nat :
        /\ a <= 127 => SeqLen(a) = 1
        /\ 192 <= a /\ a <= 223 => SeqLen(a) = 2
        /\ 224 <= a /\ a <= 239 => SeqLen(a) = 3
        /\ 240 <= a /\ a <= 247 => SeqLen(a) = 4
BY SMT DEF SeqLen

\* What the bytes of a well-formed character add up to, for each of its lengths.
LEMMA CharOne == \A a \in Nat : a <= 127 => StandsFor(a, 1, <<a>>)
<1> SUFFICES ASSUME NEW a \in Nat, a <= 127 PROVE StandsFor(a, 1, <<a>>)
  OBVIOUS
<1>1. ~NotScalar(a, 1) /\ Scalar(a)
  BY SMT DEF NotScalar, MinCodePoint, MaxCodePoint, Surrogate, High, Low, Scalar
<1>2. AppendUtf8(a) = <<a>>
  BY DEF AppendUtf8
<1> QED
  BY <1>1, <1>2 DEF StandsFor

LEMMA CharTwo ==
    ASSUME NEW a \in Nat, NEW b \in Nat, 194 <= a, a <= 223, 128 <= b, b <= 191,
           NEW v, v = (64 * (a - 192)) + (b % 64)
    PROVE  StandsFor(v, 2, <<a, b>>)
<1>1. PICK x \in Nat, y \in Nat :
        2 <= x /\ x <= 31 /\ y <= 63 /\ a = 192 + x /\ b = 128 + y
  <2>1. a - 192 \in Nat /\ b - 128 \in Nat /\ 192 + (a - 192) = a /\ 128 + (b - 128) = b
    OBVIOUS
  <2> QED
    BY <2>1
<1>2. b % 64 = y /\ a - 192 = x
  <2>1. b % 64 = b - 128
    BY SixBits
  <2> QED
    BY <1>1, <2>1
<1>3. v = (64 * x) + y
  BY ONLY <1>2, v = (64 * (a - 192)) + (b % 64)
<1>4. StandsFor((64 * x) + y, 2, <<192 + x, 128 + y>>)
  BY <1>1, TwoBytes
<1> QED
  BY <1>1, <1>3, <1>4, Zenon

LEMMA CharThree ==
    ASSUME NEW a \in Nat, NEW b \in Nat, NEW d \in Nat, 224 <= a, a <= 239,
           128 <= b, b <= 191, a = 224 => 160 <= b, a = 237 => b <= 159, 128 <= d, d <= 191,
           NEW v, v = (64 * ((64 * (a - 224)) + (b % 64))) + (d % 64)
    PROVE  StandsFor(v, 3, <<a, b, d>>)
<1>1. PICK x \in Nat, y \in Nat, z \in Nat :
        /\ x <= 15 /\ y <= 63 /\ z <= 63 /\ (x = 0 => y >= 32) /\ (x = 13 => y <= 31)
        /\ a = 224 + x /\ b = 128 + y /\ d = 128 + z
  <2>1. /\ a - 224 \in Nat /\ b - 128 \in Nat /\ d - 128 \in Nat
        /\ 224 + (a - 224) = a /\ 128 + (b - 128) = b /\ 128 + (d - 128) = d
    OBVIOUS
  <2> QED
    BY <2>1
<1>2. b % 64 = y /\ d % 64 = z /\ a - 224 = x
  <2>1. b % 64 = b - 128 /\ d % 64 = d - 128
    BY SixBits
  <2> QED
    BY <1>1, <2>1
<1>3. v = (64 * ((64 * x) + y)) + z
  BY ONLY <1>2, v = (64 * ((64 * (a - 224)) + (b % 64))) + (d % 64)
<1>4. StandsFor((64 * ((64 * x) + y)) + z, 3, <<224 + x, 128 + y, 128 + z>>)
  <2>1. ThreeBits(x, y, z)
    BY <1>1 DEF ThreeBits
  <2> QED
    BY <2>1, ThreeBytes, Zenon
<1> QED
  BY <1>1, <1>3, <1>4, Zenon

LEMMA CharFour ==
    ASSUME NEW a \in Nat, NEW b \in Nat, NEW d \in Nat, NEW e \in Nat, 240 <= a, a <= 244,
           128 <= b, b <= 191, a = 240 => 144 <= b, a = 244 => b <= 143,
           128 <= d, d <= 191, 128 <= e, e <= 191,
           NEW v, v = (64 * ((64 * ((64 * (a - 240)) + (b % 64))) + (d % 64))) + (e % 64)
    PROVE  StandsFor(v, 4, <<a, b, d, e>>)
<1>1. PICK x \in Nat, y \in Nat, z \in Nat, t \in Nat :
        /\ x <= 4 /\ y <= 63 /\ z <= 63 /\ t <= 63 /\ (x = 0 => y >= 16) /\ (x = 4 => y <= 15)
        /\ a = 240 + x /\ b = 128 + y /\ d = 128 + z /\ e = 128 + t
  <2>1. /\ a - 240 \in Nat /\ b - 128 \in Nat /\ d - 128 \in Nat /\ e - 128 \in Nat
        /\ 240 + (a - 240) = a /\ 128 + (b - 128) = b /\ 128 + (d - 128) = d
        /\ 128 + (e - 128) = e
    OBVIOUS
  <2> QED
    BY <2>1
<1>2. b % 64 = y /\ d % 64 = z /\ e % 64 = t /\ a - 240 = x
  <2>1. b % 64 = b - 128 /\ d % 64 = d - 128 /\ e % 64 = e - 128
    BY SixBits
  <2> QED
    BY <1>1, <2>1
<1>3. v = (64 * ((64 * ((64 * x) + y)) + z)) + t
  BY ONLY <1>2, v = (64 * ((64 * ((64 * (a - 240)) + (b % 64))) + (d % 64))) + (e % 64)
<1>4. StandsFor((64 * ((64 * ((64 * x) + y)) + z)) + t, 4, <<240 + x, 128 + y, 128 + z, 128 + t>>)
  <2>1. FourBits(x, y, z, t)
    BY <1>1 DEF FourBits
  <2> QED
    BY <2>1, FourBytes
<1> QED
  BY <1>1, <1>3, <1>4

\* What the bytes of a well-formed character add up to is a scalar value of the
\* character's length, and the character encodes it.
LEMMA CharNumbers ==
    ASSUME NEW c \in Texts, WellFormedChar(c), NEW n \in Nat, n = Len(c), NEW w,
           w[0] = c[1] - LeadMark[n],
           \A k \in 1..(n - 1) : w[k] = (64 * w[k - 1]) + (c[k + 1] % 64)
    PROVE  SeqLen(c[1]) = n /\ StandsFor(w[n - 1], n, c)
<1>1. \A i \in 1..n : c[i] \in Nat
  <2>1. \A i \in 1..n : c[i] \in Byte
    BY BytesOf
  <2> QED
    BY <2>1, ByteIs
<1>2. CASE n = 1
  <2>1. PICK a \in Nat : a = c[1] /\ a <= 127
    <3>1. c[1] \in Nat
      BY <1>1, <1>2
    <3>2. c[1] <= 127
      BY <1>2 DEF WellFormedChar
    <3> QED
      BY <3>1, <3>2
  <2>2. w[0] = a
    BY <1>2, <2>1, LeadMarks
  <2>3. c = <<a>>
    BY <1>2, <2>1, ShortTexts
  <2>4. SeqLen(a) = 1 /\ StandsFor(a, 1, <<a>>)
    BY <2>1, SeqLens, CharOne
  <2> QED
    BY <1>2, <2>1, <2>2, <2>3, <2>4
<1>3. CASE n = 2
  <2>1. PICK a \in Nat, b \in Nat : a = c[1] /\ b = c[2]
    BY <1>1, <1>3
  <2>2. 194 <= a /\ a <= 223 /\ 128 <= b /\ b <= 191
    <3>1. c[1] \in 194..223 /\ c[2] \in 128..191
      BY <1>3 DEF WellFormedChar
    <3> QED
      BY ONLY <2>1, <3>1
  <2>3. w[1] = (64 * (a - 192)) + (b % 64)
    <3>1. w[1] = (64 * w[0]) + (c[2] % 64)
      <4>1. 1 \in 1..(n - 1) /\ 1 - 1 = 0 /\ 1 + 1 = 2
        BY <1>3
      <4> QED
        BY <4>1
    <3>2. w[0] = a - 192
      BY <1>3, <2>1, LeadMarks
    <3> QED
      BY <2>1, <3>1, <3>2
  <2>4. c = <<a, b>>
    BY <1>3, <2>1, ShortTexts
  <2>5. PICK v : v = w[1]
    OBVIOUS
  <2>6. StandsFor(v, 2, <<a, b>>)
    BY ONLY <2>2, <2>3, <2>5, a \in Nat, b \in Nat, CharTwo
  <2>7. SeqLen(a) = 2
    BY ONLY <2>2, a \in Nat, SeqLens
  <2> QED
    BY <1>3, <2>1, <2>4, <2>5, <2>6, <2>7
<1>4. CASE n = 3
  <2>1. PICK a \in Nat, b \in Nat, d \in Nat : a = c[1] /\ b = c[2] /\ d = c[3]
    BY <1>1, <1>4
  <2>2. /\ 224 <= a /\ a <= 239 /\ 128 <= b /\ b <= 191
        /\ (a = 224 => 160 <= b) /\ (a = 237 => b <= 159) /\ 128 <= d /\ d <= 191
    <3>1. /\ c[1] \in 224..239 /\ c[3] \in 128..191
          /\ c[2] \in (CASE c[1] = 224 -> 160..191 [] c[1] = 237 -> 128..159
                         [] OTHER -> 128..191)
      BY <1>4 DEF WellFormedChar
    <3> QED
      BY ONLY <2>1, <3>1
  <2>3. w[2] = (64 * ((64 * (a - 224)) + (b % 64))) + (d % 64)
    <3>1. w[1] = (64 * w[0]) + (c[2] % 64) /\ w[2] = (64 * w[1]) + (c[3] % 64)
      <4>1. 1 \in 1..(n - 1) /\ 2 \in 1..(n - 1) /\ 1 - 1 = 0 /\ 1 + 1 = 2 /\ 2 - 1 = 1 /\ 2 + 1 = 3
        BY <1>4
      <4> QED
        BY <4>1
    <3>2. w[0] = a - 224
      BY <1>4, <2>1, LeadMarks
    <3> QED
      BY <2>1, <3>1, <3>2
  <2>4. c = <<a, b, d>>
    BY <1>4, <2>1, ShortTexts
  <2>5. PICK v : v = w[2]
    OBVIOUS
  <2>6. StandsFor(v, 3, <<a, b, d>>)
    BY ONLY <2>2, <2>3, <2>5, a \in Nat, b \in Nat, d \in Nat, CharThree
  <2>7. SeqLen(a) = 3
    BY ONLY <2>2, a \in Nat, SeqLens
  <2> QED
    BY <1>4, <2>1, <2>4, <2>5, <2>6, <2>7
<1>5. CASE n = 4
  <2>1. PICK a \in Nat, b \in Nat, d \in Nat, e \in Nat :
          a = c[1] /\ b = c[2] /\ d = c[3] /\ e = c[4]
    BY <1>1, <1>5
  <2>2. /\ 240 <= a /\ a <= 244 /\ 128 <= b /\ b <= 191
        /\ (a = 240 => 144 <= b) /\ (a = 244 => b <= 143)
        /\ 128 <= d /\ d <= 191 /\ 128 <= e /\ e <= 191
    <3>1. /\ c[1] \in 240..244 /\ c[3] \in 128..191 /\ c[4] \in 128..191
          /\ c[2] \in (CASE c[1] = 240 -> 144..191 [] c[1] = 244 -> 128..143
                         [] OTHER -> 128..191)
      BY <1>5 DEF WellFormedChar
    <3> QED
      BY ONLY <2>1, <3>1
  <2>3. w[3] = (64 * ((64 * ((64 * (a - 240)) + (b % 64))) + (d % 64))) + (e % 64)
    <3>1. /\ w[1] = (64 * w[0]) + (c[2] % 64) /\ w[2] = (64 * w[1]) + (c[3] % 64)
          /\ w[3] = (64 * w[2]) + (c[4] % 64)
      <4>1. /\ 1 \in 1..(n - 1) /\ 2 \in 1..(n - 1) /\ 3 \in 1..(n - 1)
            /\ 1 - 1 = 0 /\ 1 + 1 = 2 /\ 2 - 1 = 1 /\ 2 + 1 = 3 /\ 3 - 1 = 2 /\ 3 + 1 = 4
        BY <1>5
      <4> QED
        BY <4>1
    <3>2. w[0] = a - 240
      BY <1>5, <2>1, LeadMarks
    <3> QED
      BY <2>1, <3>1, <3>2
  <2>4. c = <<a, b, d, e>>
    BY <1>5, <2>1, ShortTexts
  <2>5. PICK v : v = w[3]
    OBVIOUS
  <2>6. StandsFor(v, 4, <<a, b, d, e>>)
    BY ONLY <2>2, <2>3, <2>5, a \in Nat, b \in Nat, d \in Nat, e \in Nat, CharFour
  <2>7. SeqLen(a) = 4
    BY ONLY <2>2, a \in Nat, SeqLens
  <2> QED
    BY <1>5, <2>1, <2>4, <2>5, <2>6, <2>7
<1>6. n \in 1..4
  BY CharShape
<1>7. n = 1 \/ n = 2 \/ n = 3 \/ n = 4
  BY <1>6
<1> QED
  BY <1>2, <1>3, <1>4, <1>5, <1>7

\* A well-formed character is what decodeUtf8 takes it for: all of it is consumed, and
\* the code point it stands for is encoded by it.
LEMMA DecodesBack ==
    ASSUME NEW s \in Texts, NEW p \in 1..Len(s), NEW n \in 1..4, p + n <= Len(s) + 1,
           WellFormedChar(SubSeq(s, p, p + n - 1))
    PROVE  LET d == DecodeUtf8(s, p)
           IN  /\ d.consumed = n /\ Scalar(d.codepoint)
               /\ AppendUtf8(d.codepoint) = SubSeq(s, p, p + n - 1)
<1>1. Len(s) \in Nat /\ p \in Nat /\ \A q \in 1..Len(s) : s[q] \in Byte
  BY BytesOf
<1>2. PICK c : c = SubSeq(s, p, p + n - 1)
  OBVIOUS
<1>3. c \in Texts /\ Len(c) = n /\ \A i \in 1..n : c[i] = s[p + i - 1] /\ c[i] \in Byte
  <2>1. /\ p \in Int /\ p + n - 1 \in Int /\ p <= p + n - 1 /\ (p + n - 1) - p + 1 = n
        /\ \A i \in p..(p + n - 1) : i \in 1..Len(s)
    BY <1>1
  <2>2. \A i \in p..(p + n - 1) : s[i] \in Byte
    BY <1>1, <2>1
  <2>3. /\ c \in Seq(Byte)
        /\ Len(c) = IF p <= p + n - 1 THEN (p + n - 1) - p + 1 ELSE 0
        /\ \A i \in 1..((p + n - 1) - p + 1) : c[i] = s[p + i - 1]
    BY <1>2, <2>1, <2>2, SubSeqProperties
  <2>4. c \in Texts /\ Len(c) = n
    BY <2>1, <2>3 DEF Texts
  <2> QED
    BY <2>1, <2>3, <2>4, BytesOf
<1>4. PICK b \in Byte : b = s[p] /\ b = c[1]
  <2>1. 1 \in 1..n /\ p + 1 - 1 = p
    BY <1>1
  <2> QED
    BY <1>3, <2>1
<1>5. \A k \in 1..(n - 1) : s[p + k] = c[k + 1] /\ Continuation(s[p + k])
  <2> TAKE k \in 1..(n - 1)
  <2>1. k + 1 \in 1..n /\ k + 1 \in 2..n /\ p + (k + 1) - 1 = p + k
    BY <1>1
  <2> QED
    <3>1. c \in Texts /\ WellFormedChar(c) /\ Len(c) = n
      BY <1>2, <1>3
    <3>2. \A i \in 2..n : Continuation(c[i])
      BY ONLY <3>1, CharShape
    <3> QED
      BY <1>3, <2>1, <3>2, Zenon
<1> DEFINE lead == b - LeadMark[n]
           Bad(k) == [codepoint |-> Replacement, consumed |-> k]
<1>6. PICK w : w = Value(s, p, n, lead)
  OBVIOUS
<1>7. c[1] - LeadMark[n] \in Int
  <2>1. LeadMark[n] \in Int
    BY DEF LeadMark
  <2> QED
    BY <1>4, <2>1, ByteIs
<1>8. Summed(w, s, p, n, lead)
  BY <1>4, <1>6, <1>7, ValueSteps
<1>9. /\ w[0] = c[1] - LeadMark[n]
      /\ \A k \in 1..(n - 1) : w[k] = (64 * w[k - 1]) + (c[k + 1] % 64)
  BY <1>4, <1>5, <1>8 DEF Summed
<1>10. /\ SeqLen(b) = n /\ ~NotScalar(w[n - 1], n) /\ Scalar(w[n - 1])
       /\ AppendUtf8(w[n - 1]) = c
  <2>1. c \in Texts /\ WellFormedChar(c) /\ n \in Nat /\ n = Len(c)
    BY <1>2, <1>3
  <2>2. SeqLen(c[1]) = n /\ StandsFor(w[n - 1], n, c)
    BY ONLY <1>9, <2>1, CharNumbers
  <2> QED
    BY <1>4, <2>2 DEF StandsFor
<1> DEFINE cut == \/ n = 0
                  \/ Len(s) - p + 1 < n
                  \/ \E k \in 1..(n - 1) : ~Continuation(s[p + k])
<1>11. ~cut
  <2>1. n # 0 /\ ~(Len(s) - p + 1 < n)
    BY <1>1
  <2> QED
    BY <1>5, <2>1, Zenon
<1>12. DecodeUtf8(s, p) =
         IF cut THEN Bad(1)
         ELSE IF NotScalar(Value(s, p, n, lead)[n - 1], n) THEN Bad(n)
         ELSE [codepoint |-> Value(s, p, n, lead)[n - 1], consumed |-> n]
  BY <1>4, <1>10 DEF DecodeUtf8, Value
<1> HIDE DEF cut, lead
<1>13. DecodeUtf8(s, p) = [codepoint |-> w[n - 1], consumed |-> n]
  BY <1>6, <1>10, <1>11, <1>12
<1> QED
  BY <1>2, <1>10, <1>13

\* A well-formed name makes the way to the panel and back: every character decodes to
\* what it encodes, and no unit made for one pairs with one made for the next.
LEMMA RoundTrip ==
    ASSUME NEW s \in Texts, WellFormed(s)
    PROVE  WideToUtf8(Utf8ToWide(s)) = s
<1>1. PICK N \in Nat : N = Len(s)
  BY BytesOf
<1>2. PICK B : Boundaries(s, 1, B)
  BY WellFormedIs
<1>3. B \subseteq 1..(N + 1) /\ 1 \in B
  BY <1>1, <1>2 DEF Boundaries
<1>4. PICK f \in [1..(N + 1) -> Seq(Units)] :
        Chained(f, 1, N, Widened(s), Taken(s)) /\ Utf8ToWide(s) = f[1]
  BY <1>1, Utf8ToWideChain
<1> DEFINE Back(p) == WideToUtf8(f[p]) = SubSeq(s, p, N)
           T == {p \in 1..(N + 1) : p \in B => Back(p)}
<1>5. N + 1 \in T
  <2>1. f[N + 1] = <<>>
    BY <1>4 DEF Chained
  <2>2. WideToUtf8(<<>>) = <<>>
    <3>1. PICK g \in [1..(0 + 1) -> Texts] :
            Chained(g, 1, 0, Encoded(<<>>), UnitsOf(<<>>)) /\ WideToUtf8(<<>>) = g[1]
      <4>1. <<>> \in Seq(Units) /\ Len(<<>>) = 0
        BY EmptySeq
      <4> QED
        BY <4>1, WideToUtf8Chain
    <3>2. g[0 + 1] = <<>> /\ 0 + 1 = 1
      BY <3>1 DEF Chained
    <3> QED
      BY <3>1, <3>2
  <2>3. SubSeq(s, N + 1, N) = <<>>
    BY SubSeqEmpty
  <2>4. N + 1 \in 1..(N + 1) /\ Back(N + 1)
    BY <2>1, <2>2, <2>3
  <2> QED
    BY <2>4
<1>6. ASSUME NEW p \in 1..N, \A q \in (p + 1)..(N + 1) : q \in T PROVE p \in T
  <2> SUFFICES ASSUME p \in B PROVE p \in 1..(N + 1) /\ Back(p)
    BY DEF T
  <2>1. PICK n \in 1..4 : p + n \in B /\ WellFormedChar(SubSeq(s, p, p + n - 1))
    BY <1>1, <1>2 DEF Boundaries
  <2>2. PICK next \in (p + 1)..(N + 1) : next = p + n
    BY <1>3, <2>1
  <2>3. p \in 1..Len(s) /\ p + n <= Len(s) + 1 /\ p \in 1..(N + 1)
    BY <1>1, <2>2
  <2>4. PICK c : c = DecodeUtf8(s, p).codepoint
    OBVIOUS
  <2>5. /\ DecodeUtf8(s, p).consumed = n /\ Scalar(c)
        /\ AppendUtf8(c) = SubSeq(s, p, p + n - 1)
    BY <2>1, <2>3, <2>4, DecodesBack
  <2>6. Widened(s)[p] = AppendWide(c) /\ Taken(s)[p] = n
    BY <2>3, <2>4, <2>5 DEF Widened, Taken
  <2>7. PICK u \in Seq(Units) : /\ u = AppendWide(c) /\ u # <<>> /\ ~High(Last(u))
                                /\ WideToUtf8(u) = AppendUtf8(c)
    BY <2>5, EncodesOne
  <2>8. PICK v \in Seq(Units) : v = f[next]
    <3>1. next \in 1..(N + 1)
      BY <2>2
    <3> QED
      BY <3>1
  <2>9. f[p] = u \o v
    BY <1>4, <2>2, <2>6, <2>7, <2>8 DEF Chained
  <2>10. WideToUtf8(u \o v) = WideToUtf8(u) \o WideToUtf8(v)
    <3>1. Apart(u, v)
      BY <2>7 DEF Apart
    <3> QED
      BY <3>1, WideToUtf8Concat
  <2>11. WideToUtf8(v) = SubSeq(s, next, N)
    <3>1. next \in T /\ next \in B
      BY <1>6, <2>1, <2>2
    <3> QED
      BY <2>8, <3>1
  <2>12. SubSeq(s, p, p + n - 1) \o SubSeq(s, next, N) = SubSeq(s, p, N)
    <3>1. /\ p \in 1..(Len(s) + 1) /\ p + n - 1 \in (p - 1)..Len(s) /\ N \in (p + n - 1)..Len(s)
          /\ (p + n - 1) + 1 = next
      BY ONLY <1>1, <2>2, <2>3, n \in 1..4, N \in Nat
    <3>2. SubSeq(s, p, p + n - 1) \o SubSeq(s, (p + n - 1) + 1, N) = SubSeq(s, p, N)
      BY <3>1, ConcatAdjacentSubSeq DEF Texts
    <3> QED
      BY <3>1, <3>2
  <2>13. WideToUtf8(f[p]) = SubSeq(s, p, N)
    BY <2>5, <2>7, <2>9, <2>10, <2>11, <2>12, Zenon
  <2> QED
    BY <2>3, <2>13
<1>7. \A p \in 1..(N + 1) : p \in T
  <2> HIDE DEF T
  <2> QED
    BY <1>5, <1>6, Backwards
<1>8. Back(1)
  <2>1. 1 \in 1..(N + 1)
    OBVIOUS
  <2> QED
    BY <1>3, <1>7, <2>1
<1>9. SubSeq(s, 1, N) = s
  BY <1>1, SubSeqFull DEF Texts
<1> QED
  BY <1>4, <1>8, <1>9

-----------------------------------------------------------------------------
(* What bad bytes do to a row (decodeUtf8, utf8ToWide).                    *)

\* The code point a character of one to four bytes stands for, and that of its encoding.
Coded(u) ==
    IF Len(u) = 1 THEN u[1]
    ELSE IF Len(u) = 2 THEN (64 * (u[1] - 192)) + (u[2] - 128)
    ELSE IF Len(u) = 3 THEN (64 * ((64 * (u[1] - 224)) + (u[2] - 128))) + (u[3] - 128)
    ELSE (64 * ((64 * ((64 * (u[1] - 240)) + (u[2] - 128))) + (u[3] - 128))) + (u[4] - 128)

LEMMA CodedBack == ASSUME NEW c, Scalar(c) PROVE Coded(AppendUtf8(c)) = c
<1>1. c \in Nat /\ c <= 1114111
  BY DEF Scalar, MaxCodePoint
<1>2. PICK x \in Nat, y \in Nat, z \in Nat : x = c \div 64 /\ y = c \div 4096 /\ z = c \div 262144
  BY <1>1, SMT
<1>3. PICK i \in Nat, j \in Nat, k \in Nat : i = c % 64 /\ j = x % 64 /\ k = y % 64
  BY <1>2, <1>1, SMT
<1>4. c = (64 * x) + i /\ x = (64 * y) + j /\ y = (64 * z) + k
  <2>1. c = (64 * x) + i
    BY <1>1, <1>2, <1>3, SMT
  <2>2. x = (64 * y) + j
    BY <1>1, <1>2, <1>3, SMT
  <2>3. y = (64 * z) + k
    BY <1>1, <1>2, <1>3, SMT
  <2> QED
    BY <2>1, <2>2, <2>3
<1>5. c \div 1 = c
  BY ONLY <1>1, SMT
<1>6. PICK u : u = AppendUtf8(c)
  OBVIOUS
<1>7. CASE c <= 127
  <2>1. u = <<c>>
    BY <1>1, <1>6, <1>7 DEF AppendUtf8
  <2> QED
    BY <1>6, <2>1 DEF Coded
<1>8. CASE c > 127 /\ c <= 2047
  <2>1. u = <<192 + x, 128 + i>>
    BY <1>1, <1>2, <1>3, <1>5, <1>6, <1>8 DEF AppendUtf8
  <2>2. Len(u) = 2 /\ u[1] = 192 + x /\ u[2] = 128 + i
    BY <2>1
  <2> QED
    BY <1>4, <1>6, <2>2 DEF Coded
<1>9. CASE c > 2047 /\ c <= 65535
  <2>1. u = <<224 + y, 128 + j, 128 + i>>
    BY <1>1, <1>2, <1>3, <1>5, <1>6, <1>9 DEF AppendUtf8
  <2>2. Len(u) = 3 /\ u[1] = 224 + y /\ u[2] = 128 + j /\ u[3] = 128 + i
    BY <2>1
  <2> QED
    BY <1>4, <1>6, <2>2 DEF Coded
<1>10. CASE c > 65535
  <2>1. u = <<240 + z, 128 + k, 128 + j, 128 + i>>
    BY <1>1, <1>2, <1>3, <1>5, <1>6, <1>10 DEF AppendUtf8
  <2>2. Len(u) = 4 /\ u[1] = 240 + z /\ u[2] = 128 + k /\ u[3] = 128 + j /\ u[4] = 128 + i
    BY <2>1
  <2> QED
    BY <1>4, <1>6, <2>2 DEF Coded
<1> QED
  BY <1>1, <1>7, <1>8, <1>9, <1>10

\* Bytes that add up to a scalar value of their length are a well-formed character.
LEMMA CharOfNumbers ==
    ASSUME NEW c \in Texts, NEW n \in 1..4, n = Len(c), SeqLen(c[1]) = n,
           \A i \in 2..n : Continuation(c[i]), NEW w, w[0] = c[1] - LeadMark[n],
           \A k \in 1..(n - 1) : w[k] = (64 * w[k - 1]) + (c[k + 1] % 64),
           ~NotScalar(w[n - 1], n)
    PROVE  WellFormedChar(c)
<1>1. PICK a \in Nat : a = c[1] /\ a <= 255
  <2>1. 1 \in 1..Len(c)
    OBVIOUS
  <2>2. c[1] \in Byte
    BY <2>1, BytesOf
  <2> QED
    BY <2>2, ByteIs
<1>2. ASSUME NEW i \in 2..n PROVE c[i] \in Nat /\ 128 <= c[i] /\ c[i] <= 191 /\ c[i] % 64 = c[i] - 128
  <2>1. Continuation(c[i])
    OBVIOUS
  <2>2. PICK b \in 128..191 : b = c[i]
    BY <2>1 DEF Continuation
  <2>3. b \in Nat /\ b >= 128 /\ b <= 191
    OBVIOUS
  <2>4. b % 64 = b - 128
    BY <2>3, SixBits
  <2> QED
    BY <2>2, <2>3, <2>4
<1>3. CASE n = 1
  <2>1. a <= 127
    BY <1>1, <1>3, SMT DEF SeqLen
  <2> QED
    BY <1>1, <1>3, <2>1 DEF WellFormedChar
<1>4. CASE n = 2
  <2>1. 192 <= a /\ a <= 223
    BY <1>1, <1>4, SMT DEF SeqLen
  <2>2. PICK b \in Nat : b = c[2] /\ 128 <= b /\ b <= 191 /\ b % 64 = b - 128
    BY <1>2, <1>4
  <2>3. w[1] = (64 * (a - 192)) + (b - 128)
    <3>1. 1 \in 1..(n - 1) /\ 1 - 1 = 0 /\ 1 + 1 = 2
      BY <1>4
    <3>2. w[1] = (64 * w[0]) + (c[2] % 64)
      BY <3>1
    <3>3. w[0] = a - 192
      BY <1>1, <1>4, LeadMarks
    <3> QED
      BY <2>2, <3>2, <3>3
  <2>4. PICK v : v = w[1]
    OBVIOUS
  <2>5. ~NotScalar(v, 2)
    BY <1>4, <2>4
  <2>6. v = (64 * (a - 192)) + (b - 128)
    BY <2>3, <2>4
  <2>7. ~(v < 128)
    BY <2>5 DEF NotScalar, MinCodePoint
  <2>8. a >= 194
    BY ONLY <2>1, <2>2, <2>6, <2>7, a \in Nat, b \in Nat
  <2> QED
    BY <1>1, <1>4, <2>1, <2>2, <2>8 DEF WellFormedChar
<1>5. CASE n = 3
  <2>1. 224 <= a /\ a <= 239
    BY <1>1, <1>5, SMT DEF SeqLen
  <2>2. PICK b \in Nat, d \in Nat :
          /\ b = c[2] /\ 128 <= b /\ b <= 191 /\ b % 64 = b - 128
          /\ d = c[3] /\ 128 <= d /\ d <= 191 /\ d % 64 = d - 128
    <3>1. 2 \in 2..n /\ 3 \in 2..n
      BY <1>5
    <3> QED
      BY <1>2, <3>1
  <2>3. w[2] = (64 * ((64 * (a - 224)) + (b - 128))) + (d - 128)
    <3>1. 1 \in 1..(n - 1) /\ 2 \in 1..(n - 1) /\ 1 - 1 = 0 /\ 1 + 1 = 2 /\ 2 - 1 = 1 /\ 2 + 1 = 3
      BY <1>5
    <3>2. w[1] = (64 * w[0]) + (c[2] % 64) /\ w[2] = (64 * w[1]) + (c[3] % 64)
      BY <3>1
    <3>3. w[0] = a - 224
      BY <1>1, <1>5, LeadMarks
    <3> QED
      BY <2>2, <3>2, <3>3
  <2>4. PICK v : v = w[2]
    OBVIOUS
  <2>5. ~NotScalar(v, 3)
    BY <1>5, <2>4
  <2>6. v = (64 * ((64 * (a - 224)) + (b - 128))) + (d - 128)
    BY <2>3, <2>4
  <2>7. ~(v < 2048) /\ (v < 55296 \/ v > 57343)
    BY ONLY <2>5, <2>6, a \in Nat, b \in Nat, d \in Nat, SMT
       DEF NotScalar, MinCodePoint, MaxCodePoint, Surrogate, High, Low
  <2>8. (a = 224 => b >= 160) /\ (a = 237 => b <= 159)
    BY ONLY <2>1, <2>2, <2>6, <2>7, a \in Nat, b \in Nat, d \in Nat
  <2> QED
    BY <1>1, <1>5, <2>1, <2>2, <2>8 DEF WellFormedChar
<1>6. CASE n = 4
  <2>1. 240 <= a /\ a <= 247
    BY <1>1, <1>6, SMT DEF SeqLen
  <2>2. PICK b \in Nat, d \in Nat, e \in Nat :
          /\ b = c[2] /\ 128 <= b /\ b <= 191 /\ b % 64 = b - 128
          /\ d = c[3] /\ 128 <= d /\ d <= 191 /\ d % 64 = d - 128
          /\ e = c[4] /\ 128 <= e /\ e <= 191 /\ e % 64 = e - 128
    <3>1. 2 \in 2..n /\ 3 \in 2..n /\ 4 \in 2..n
      BY <1>6
    <3> QED
      BY <1>2, <3>1
  <2>3. w[3] = (64 * ((64 * ((64 * (a - 240)) + (b - 128))) + (d - 128))) + (e - 128)
    <3>1. /\ 1 \in 1..(n - 1) /\ 2 \in 1..(n - 1) /\ 3 \in 1..(n - 1)
          /\ 1 - 1 = 0 /\ 1 + 1 = 2 /\ 2 - 1 = 1 /\ 2 + 1 = 3 /\ 3 - 1 = 2 /\ 3 + 1 = 4
      BY <1>6
    <3>2. /\ w[1] = (64 * w[0]) + (c[2] % 64) /\ w[2] = (64 * w[1]) + (c[3] % 64)
          /\ w[3] = (64 * w[2]) + (c[4] % 64)
      BY <3>1
    <3>3. w[0] = a - 240
      BY <1>1, <1>6, LeadMarks
    <3> QED
      BY <2>2, <3>2, <3>3
  <2>4. PICK v : v = w[3]
    OBVIOUS
  <2>5. ~NotScalar(v, 4)
    BY <1>6, <2>4
  <2>6. v = (64 * ((64 * ((64 * (a - 240)) + (b - 128))) + (d - 128))) + (e - 128)
    BY <2>3, <2>4
  <2>7. ~(v < 65536) /\ ~(v > 1114111)
    BY ONLY <2>5, <2>6, a \in Nat, b \in Nat, d \in Nat, e \in Nat, SMT
       DEF NotScalar, MinCodePoint, MaxCodePoint
  <2>8. a <= 244 /\ (a = 240 => b >= 144) /\ (a = 244 => b <= 143)
    BY ONLY <2>1, <2>2, <2>6, <2>7, a \in Nat, b \in Nat, d \in Nat, e \in Nat
  <2> QED
    BY <1>1, <1>6, <2>1, <2>2, <2>8 DEF WellFormedChar
<1> QED
  BY <1>3, <1>4, <1>5, <1>6

\* The characters that begin at p, and what the reference puts there.
CharsAt(s, p) ==
    {n \in 1..4 : p + n <= Len(s) + 1 /\ WellFormedChar(SubSeq(s, p, p + n - 1))}
GoodPiece(s) == [p \in 1..Len(s) |->
    IF CharsAt(s, p) = {} THEN <<>>
    ELSE Utf8ToWide(SubSeq(s, p, p + (CHOOSE n \in CharsAt(s, p) : TRUE) - 1))]
ByByte(s) == [p \in 1..Len(s) |-> 1]

\* decodeUtf8 takes the well-formed character that begins at p for what it is and puts a
\* replacement where none begins; and none begins in what it takes behind p.
LEMMA DecodedChar ==
    ASSUME NEW s \in Texts, NEW p \in 1..Len(s), NEW d, d = DecodeUtf8(s, p)
    PROVE  /\ \A q \in (p + 1)..(p + d.consumed - 1) : Continuation(s[q])
           /\ CharsAt(s, p) = {} => d.codepoint = Replacement
           /\ \A n \in CharsAt(s, p) : /\ d.consumed = n /\ Scalar(d.codepoint)
                                       /\ AppendUtf8(d.codepoint) = SubSeq(s, p, p + n - 1)
<1>1. Len(s) \in Nat /\ p \in Nat /\ \A q \in 1..Len(s) : s[q] \in Byte
  BY BytesOf
<1>2. ASSUME NEW n \in CharsAt(s, p)
      PROVE  /\ d.consumed = n /\ Scalar(d.codepoint)
             /\ AppendUtf8(d.codepoint) = SubSeq(s, p, p + n - 1)
             /\ \A q \in (p + 1)..(p + n - 1) : Continuation(s[q])
  <2>1. n \in 1..4 /\ p + n <= Len(s) + 1 /\ WellFormedChar(SubSeq(s, p, p + n - 1))
    BY DEF CharsAt
  <2> QED
    BY <2>1, CharAt, DecodesBack
<1>3. CASE CharsAt(s, p) # {}
  <2>1. PICK n : n \in CharsAt(s, p)
    BY <1>3
  <2>2. d.consumed = n /\ \A q \in (p + 1)..(p + n - 1) : Continuation(s[q])
    BY <1>2, <2>1
  <2> QED
    BY <1>2, <1>3, <2>2
<1>4. CASE CharsAt(s, p) = {}
  <2>1. PICK b \in Byte : b = s[p]
    BY <1>1
  <2>2. PICK n \in 0..4 : n = SeqLen(b)
    BY SeqLenIs
  <2> DEFINE lead == b - LeadMark[n]
             Bad(k) == [codepoint |-> Replacement, consumed |-> k]
             cut == \/ n = 0
                    \/ Len(s) - p + 1 < n
                    \/ \E k \in 1..(n - 1) : ~Continuation(s[p + k])
  <2>3. PICK w : w = Value(s, p, n, lead)
    OBVIOUS
  <2>4. d = IF cut THEN Bad(1)
            ELSE IF NotScalar(Value(s, p, n, lead)[n - 1], n) THEN Bad(n)
            ELSE [codepoint |-> Value(s, p, n, lead)[n - 1], consumed |-> n]
    BY <2>1, <2>2 DEF DecodeUtf8, Value
  <2>5. CASE cut
    <3> HIDE DEF cut
    <3>1. d.codepoint = Replacement /\ d.consumed = 1
      BY <2>4, <2>5
    <3>2. (p + 1)..(p + 1 - 1) = {}
      BY <1>1
    <3> QED
      BY <1>4, <3>1, <3>2
  <2>6. CASE ~cut
    <3>1. n \in 1..4 /\ p + n <= Len(s) + 1 /\ \A k \in 1..(n - 1) : Continuation(s[p + k])
      <4>1. n # 0 /\ ~(Len(s) - p + 1 < n) /\ \A k \in 1..(n - 1) : Continuation(s[p + k])
        BY <2>6, Zenon
      <4>2. Len(s) \in Nat /\ p \in Nat /\ n \in 0..4
        BY <1>1
      <4>3. n \in 1..4 /\ p + n <= Len(s) + 1
        BY ONLY <4>1, <4>2
      <4> QED
        BY <4>1, <4>3
    <3>2. lead \in Int
      <4>1. LeadMark[n] \in Int
        BY <3>1 DEF LeadMark
      <4> QED
        BY <4>1, ByteIs
    <3> HIDE DEF cut, lead
    <3>3. Summed(w, s, p, n, lead)
      BY <2>3, <3>1, <3>2, ValueSteps
    <3>4. NotScalar(w[n - 1], n)
      <4> SUFFICES ASSUME ~NotScalar(w[n - 1], n) PROVE FALSE
        OBVIOUS
      <4>1. PICK c : c = SubSeq(s, p, p + n - 1)
        OBVIOUS
      <4>2. c \in Texts /\ Len(c) = n /\ \A i \in 1..n : c[i] = s[p + i - 1]
        <5>1. /\ p \in Int /\ p + n - 1 \in Int /\ p <= p + n - 1 /\ (p + n - 1) - p + 1 = n
              /\ \A i \in p..(p + n - 1) : i \in 1..Len(s)
          BY <1>1, <3>1
        <5>2. \A i \in p..(p + n - 1) : s[i] \in Byte
          BY <1>1, <5>1
        <5>3. /\ c \in Seq(Byte)
              /\ Len(c) = IF p <= p + n - 1 THEN (p + n - 1) - p + 1 ELSE 0
              /\ \A i \in 1..((p + n - 1) - p + 1) : c[i] = s[p + i - 1]
          BY <4>1, <5>1, <5>2, SubSeqProperties
        <5> QED
          BY <5>1, <5>3 DEF Texts
      <4>3. c[1] = b
        <5>1. 1 \in 1..n /\ p + 1 - 1 = p
          BY <1>1, <3>1
        <5> QED
          BY <2>1, <4>2, <5>1
      <4>4. \A k \in 1..(n - 1) : c[k + 1] = s[p + k]
        <5> TAKE k \in 1..(n - 1)
        <5>1. k + 1 \in 1..n /\ p + (k + 1) - 1 = p + k
          BY <1>1, <3>1
        <5> QED
          BY <4>2, <5>1
      <4>5. \A i \in 2..n : Continuation(c[i])
        <5> TAKE i \in 2..n
        <5>1. i - 1 \in 1..(n - 1) /\ (i - 1) + 1 = i
          BY <3>1
        <5> QED
          BY <3>1, <4>4, <5>1
      <4>6. /\ w[0] = c[1] - LeadMark[n] /\ SeqLen(c[1]) = n
            /\ \A k \in 1..(n - 1) : w[k] = (64 * w[k - 1]) + (c[k + 1] % 64)
        BY <2>2, <3>3, <4>3, <4>4 DEF Summed, lead
      <4>7. WellFormedChar(c)
        <5>1. c \in Texts /\ n \in 1..4 /\ n = Len(c) /\ ~NotScalar(w[n - 1], n)
          BY <3>1, <4>2
        <5> QED
          BY ONLY <4>5, <4>6, <5>1, CharOfNumbers
      <4> QED
        BY <1>4, <3>1, <4>1, <4>7 DEF CharsAt
    <3>5. d.codepoint = Replacement /\ d.consumed = n
      BY <2>3, <2>4, <2>6, <3>4
    <3>6. \A q \in (p + 1)..(p + n - 1) : Continuation(s[q])
      <4> TAKE q \in (p + 1)..(p + n - 1)
      <4>1. q - p \in 1..(n - 1) /\ p + (q - p) = q
        BY <1>1, <3>1
      <4> QED
        BY <3>1, <4>1
    <3> QED
      BY <1>4, <3>5, <3>6
  <2> QED
    BY <2>5, <2>6
<1> QED
  BY <1>3, <1>4

\* A character on its own becomes the units of its code point.
LEMMA CharWidens ==
    ASSUME NEW v, Scalar(v)
    PROVE  Utf8ToWide(AppendUtf8(v)) = AppendWide(v)
<1>1. PICK c : c = AppendUtf8(v)
  OBVIOUS
<1>2. c \in Texts /\ WellFormedChar(c)
  BY <1>1, EncodedIs
<1>3. PICK n \in 1..4 : n = Len(c)
  BY <1>2, CharShape
<1>4. SubSeq(c, 1, n) = c
  BY <1>2, <1>3, SubSeqFull DEF Texts
<1>5. n \in CharsAt(c, 1) /\ 1 \in 1..Len(c) /\ 1 + n = Len(c) + 1
  <2>1. 1 + n - 1 = n /\ 1 + n = Len(c) + 1 /\ 1 \in 1..Len(c) /\ 1 + n <= Len(c) + 1
    BY <1>3
  <2>2. WellFormedChar(SubSeq(c, 1, 1 + n - 1))
    BY <1>2, <1>4, <2>1
  <2> QED
    BY <2>1, <2>2 DEF CharsAt
<1>6. PICK d : d = DecodeUtf8(c, 1)
  OBVIOUS
<1>7. d.consumed = n /\ Scalar(d.codepoint) /\ AppendUtf8(d.codepoint) = c
  <2>1. 1 + n - 1 = n
    OBVIOUS
  <2> QED
    BY <1>2, <1>4, <1>5, <1>6, <2>1, DecodedChar
<1>8. d.codepoint = v
  <2>1. Coded(c) = v
    BY <1>1, CodedBack
  <2>2. Coded(c) = d.codepoint
    BY <1>7, CodedBack
  <2> QED
    BY <2>1, <2>2
<1>9. PICK f \in [1..(Len(c) + 1) -> Seq(Units)] :
        Chained(f, 1, Len(c), Widened(c), Taken(c)) /\ Utf8ToWide(c) = f[1]
  BY <1>2, Utf8ToWideChain
<1>10. Widened(c)[1] = AppendWide(v) /\ Taken(c)[1] = n
  BY <1>5, <1>6, <1>7, <1>8 DEF Widened, Taken
<1>11. f[1] = AppendWide(v) \o f[1 + n] /\ f[1 + n] = <<>>
  BY <1>5, <1>9, <1>10 DEF Chained
<1>12. AppendWide(v) \o <<>> = AppendWide(v)
  BY WideUnits, ConcatEmptySeq
<1> QED
  BY <1>1, <1>9, <1>11, <1>12

\* What the reference puts where a character begins is what utf8ToWide makes of it.
LEMMA GoodPieceIs ==
    ASSUME NEW s \in Texts, NEW p \in 1..Len(s)
    PROVE  /\ GoodPiece(s)[p] \in Seq(Units)
           /\ GoodPiece(s)[p] = IF CharsAt(s, p) = {} THEN <<>> ELSE Widened(s)[p]
<1>1. CASE CharsAt(s, p) = {}
  <2>1. GoodPiece(s)[p] = <<>>
    BY <1>1 DEF GoodPiece
  <2> QED
    BY <1>1, <2>1, EmptySeq
<1>2. CASE CharsAt(s, p) # {}
  <2>1. PICK n : n = CHOOSE m \in CharsAt(s, p) : TRUE
    OBVIOUS
  <2>2. n \in CharsAt(s, p)
    BY <1>2, <2>1
  <2>3. GoodPiece(s)[p] = Utf8ToWide(SubSeq(s, p, p + n - 1))
    BY <1>2, <2>1 DEF GoodPiece
  <2>4. PICK v : v = DecodeUtf8(s, p).codepoint
    OBVIOUS
  <2>5. Scalar(v) /\ AppendUtf8(v) = SubSeq(s, p, p + n - 1)
    BY <2>2, <2>4, DecodedChar
  <2>6. Utf8ToWide(AppendUtf8(v)) = AppendWide(v)
    BY <2>5, CharWidens
  <2>7. Widened(s)[p] = AppendWide(v)
    BY <2>4 DEF Widened
  <2> QED
    BY <1>2, <2>3, <2>5, <2>6, <2>7, WidenedType
<1> QED
  BY <1>1, <1>2

\* The reference steps from byte to byte and joins the characters it finds.
LEMMA GoodCharactersChain ==
    ASSUME NEW s \in Texts
    PROVE  \E f \in [1..(Len(s) + 1) -> Seq(Units)] :
             Chained(f, 1, Len(s), GoodPiece(s), ByByte(s)) /\ GoodCharacters(s) = f[1]
<1> DEFINE N == Len(s)
           At(p) == IF CharsAt(s, p) = {} THEN <<>>
                    ELSE Utf8ToWide(SubSeq(s, p, p + (CHOOSE n \in CharsAt(s, p) : TRUE) - 1))
           piece == GoodPiece(s)
           jump == ByByte(s)
           Def(w) == w = [p \in 1..(N + 1) |-> IF p > N THEN <<>> ELSE At(p) \o w[p + 1]]
           From == CHOOSE w : Def(w)
<1>1. N \in Nat
  BY BytesOf
<1>2. GoodCharacters(s) = From[1]
  BY DEF GoodCharacters, CharsAt
<1>3. \A p \in 1..N : piece[p] = At(p) /\ jump[p] = 1
  BY DEF GoodPiece, ByByte
<1>4. \A p \in 1..N : piece[p] \in Seq(Units)
  BY GoodPieceIs
<1>5. Jumps(jump, N)
  BY <1>1, <1>3 DEF Jumps
<1> HIDE DEF N, At, piece, jump
<1>6. \A w : Def(w) <=> w = [p \in 1..(N + 1) |-> IF p > N THEN <<>> ELSE piece[p] \o w[p + jump[p]]]
  <2> TAKE w
  <2>1. \A p \in 1..(N + 1) :
          (IF p > N THEN <<>> ELSE At(p) \o w[p + 1])
            = (IF p > N THEN <<>> ELSE piece[p] \o w[p + jump[p]])
    <3> TAKE p \in 1..(N + 1)
    <3>1. p > N \/ p \in 1..N
      BY <1>1
    <3> QED
      BY <1>3, <3>1, Zenon
  <2>2. [p \in 1..(N + 1) |-> IF p > N THEN <<>> ELSE At(p) \o w[p + 1]]
          = [p \in 1..(N + 1) |-> IF p > N THEN <<>> ELSE piece[p] \o w[p + jump[p]]]
    BY <2>1, Zenon
  <2> QED
    BY <2>2, Zenon
<1> HIDE DEF Def
<1>7. Def(From)
  <2>1. PICK g \in [1..(N + 1) -> Seq(Units)] : Chained(g, 1, N, piece, jump)
    BY <1>1, <1>4, <1>5, ChainExists
  <2>2. \A p \in 1..(N + 1) : g[p] = IF p > N THEN <<>> ELSE piece[p] \o g[p + jump[p]]
    <3> TAKE p \in 1..(N + 1)
    <3>1. (p > N /\ p = N + 1) \/ (~(p > N) /\ p \in 1..N)
      BY <1>1
    <3> QED
      BY <2>1, <3>1, Zenon DEF Chained
  <2>3. g = [p \in 1..(N + 1) |-> IF p > N THEN <<>> ELSE piece[p] \o g[p + jump[p]]]
    BY <2>2
  <2>4. Def(g)
    BY <1>6, <2>3, Zenon
  <2> QED
    BY <2>4
<1> HIDE DEF From
<1>8. From = [p \in 1..(N + 1) |-> IF p > N THEN <<>> ELSE piece[p] \o From[p + jump[p]]]
  BY <1>6, <1>7, Zenon
<1>9. From \in [1..(N + 1) -> Seq(Units)] /\ Chained(From, 1, N, piece, jump)
  BY <1>1, <1>4, <1>5, <1>8, ChainIs
<1> QED
  BY <1>2, <1>9 DEF N, piece, jump

\* But for replacements, utf8ToWide makes of a text its well-formed characters.
LEMMA Undamaged ==
    ASSUME NEW s \in Texts
    PROVE  Only(Utf8ToWide(s), WholeUnits) = Only(GoodCharacters(s), WholeUnits)
<1>1. PICK N \in Nat : N = Len(s)
  BY BytesOf
<1>2. PICK f \in [1..(N + 1) -> Seq(Units)] :
        Chained(f, 1, N, Widened(s), Taken(s)) /\ Utf8ToWide(s) = f[1]
  BY <1>1, Utf8ToWideChain
<1>3. PICK g \in [1..(N + 1) -> Seq(Units)] :
        Chained(g, 1, N, GoodPiece(s), ByByte(s)) /\ GoodCharacters(s) = g[1]
  BY <1>1, GoodCharactersChain
<1>4. ASSUME NEW q \in 1..N
      PROVE  /\ q \in 1..Len(s) /\ q + 1 \in 1..(N + 1) /\ g[q + 1] \in Seq(Units)
             /\ GoodPiece(s)[q] \in Seq(Units) /\ g[q] = GoodPiece(s)[q] \o g[q + 1]
  <2>1. ByByte(s)[q] = 1 /\ q \in 1..Len(s) /\ q + 1 \in 1..(N + 1)
    BY <1>1 DEF ByByte
  <2> QED
    BY <1>3, <2>1, GoodPieceIs DEF Chained
<1>5. ASSUME NEW q \in 1..N, Continuation(s[q]) PROVE g[q] = g[q + 1]
  <2>1. CharsAt(s, q) = {}
    <3> SUFFICES ASSUME NEW n \in CharsAt(s, q) PROVE FALSE
      OBVIOUS
    <3>1. n \in 1..4 /\ q + n <= Len(s) + 1 /\ WellFormedChar(SubSeq(s, q, q + n - 1))
      BY DEF CharsAt
    <3> QED
      BY <1>4, <1>5, <3>1, CharAt
  <2>2. GoodPiece(s)[q] = <<>>
    BY <1>4, <2>1, GoodPieceIs
  <2> QED
    BY <1>4, <2>2, ConcatEmptySeq
<1> DEFINE T == {p \in 1..(N + 1) : Only(f[p], WholeUnits) = Only(g[p], WholeUnits)}
<1>6. N + 1 \in T
  BY <1>2, <1>3 DEF Chained
<1>7. ASSUME NEW p \in 1..N, \A q \in (p + 1)..(N + 1) : q \in T PROVE p \in T
  <2>1. PICK d : d = DecodeUtf8(s, p)
    OBVIOUS
  <2>2. p \in 1..Len(s) /\ p \in 1..(N + 1)
    BY <1>1
  <2>3. PICK k \in 1..4 : k = d.consumed /\ p + k <= N + 1
    BY <1>1, <2>1, <2>2, DecodeIs
  <2>4. Widened(s)[p] = AppendWide(d.codepoint) /\ Taken(s)[p] = k
    BY <2>1, <2>2, <2>3 DEF Widened, Taken
  <2>5. PICK next \in (p + 1)..(N + 1) : next = p + k
    BY <2>3
  <2>6. PICK rest \in Seq(Units) : rest = f[next] /\ Only(rest, WholeUnits) = Only(g[next], WholeUnits)
    <3>1. next \in T /\ next \in 1..(N + 1)
      BY <1>7, <2>5
    <3> QED
      BY <3>1
  <2>7. f[p] = Widened(s)[p] \o rest /\ Widened(s)[p] \in Seq(Units)
    BY <1>2, <2>2, <2>4, <2>5, <2>6, WidenedType DEF Chained
  <2>8. g[p + 1] = g[next]
    <3>1. ASSUME NEW q \in (p + 1)..(next - 1) PROVE g[q] = g[q + 1]
      <4>1. q \in 1..N /\ q \in (p + 1)..(p + d.consumed - 1)
        <5>1. q \in (p + 1)..(p + k - 1)
          BY <2>5
        <5>2. q \in 1..N
          BY <2>3, <5>1
        <5> QED
          BY <2>3, <5>1, <5>2
      <4>2. Continuation(s[q])
        BY <2>1, <2>2, <4>1, DecodedChar
      <4> QED
        BY <1>5, <4>1, <4>2
    <3>2. CASE k = 1
      BY <2>5, <3>2
    <3>3. CASE k = 2
      <4>1. p + 1 \in (p + 1)..(next - 1) /\ (p + 1) + 1 = next
        BY <2>5, <3>3
      <4> QED
        BY <3>1, <4>1
    <3>4. CASE k = 3
      <4>1. /\ p + 1 \in (p + 1)..(next - 1) /\ p + 2 \in (p + 1)..(next - 1)
            /\ (p + 1) + 1 = p + 2 /\ (p + 2) + 1 = next
        BY <2>5, <3>4
      <4>2. g[p + 1] = g[p + 2] /\ g[p + 2] = g[next]
        BY <3>1, <4>1
      <4> QED
        BY <4>2
    <3>5. CASE k = 4
      <4>1. /\ p + 1 \in (p + 1)..(next - 1) /\ p + 2 \in (p + 1)..(next - 1)
            /\ p + 3 \in (p + 1)..(next - 1)
            /\ (p + 1) + 1 = p + 2 /\ (p + 2) + 1 = p + 3 /\ (p + 3) + 1 = next
        BY <2>5, <3>5
      <4>2. g[p + 1] = g[p + 2] /\ g[p + 2] = g[p + 3] /\ g[p + 3] = g[next]
        BY <3>1, <4>1
      <4> QED
        BY <4>2
    <3> QED
      BY <3>2, <3>3, <3>4, <3>5
  <2>9. Only(Widened(s)[p], WholeUnits) = Only(GoodPiece(s)[p], WholeUnits)
    <3>1. CASE CharsAt(s, p) = {}
      <4>1. d.codepoint = Replacement
        BY <2>1, <2>2, <3>1, DecodedChar
      <4>2. Widened(s)[p] = <<Replacement>> /\ Replacement \notin WholeUnits
        <5>1. AppendWide(Replacement) = <<Replacement>>
          BY SMT DEF AppendWide, Replacement
        <5>2. Replacement \notin WholeUnits
          BY SMT DEF WholeUnits
        <5> QED
          BY <2>4, <4>1, <5>1, <5>2, Zenon
      <4>3. Only(<<Replacement>>, WholeUnits) = <<>>
        <5>1. Replacement \in {Replacement}
          OBVIOUS
        <5> QED
          BY <4>2, <5>1, OneUnit
      <4>4. GoodPiece(s)[p] = <<>>
        BY <2>2, <3>1, GoodPieceIs
      <4> QED
        BY <4>2, <4>3, <4>4, OnlyEmpty
    <3>2. CASE CharsAt(s, p) # {}
      BY <2>2, <3>2, GoodPieceIs
    <3> QED
      BY <3>1, <3>2
  <2>10. PICK follow \in Seq(Units) : follow = g[next] /\ g[p] = GoodPiece(s)[p] \o follow
    BY <1>4, <2>8
  <2>11. Only(Widened(s)[p] \o rest, WholeUnits)
           = Only(Widened(s)[p], WholeUnits) \o Only(rest, WholeUnits)
    BY <2>7, OnlyConcat
  <2>12. Only(GoodPiece(s)[p] \o follow, WholeUnits)
           = Only(GoodPiece(s)[p], WholeUnits) \o Only(follow, WholeUnits)
    BY <1>4, OnlyConcat
  <2>13. Only(f[p], WholeUnits) = Only(g[p], WholeUnits)
    BY <2>6, <2>7, <2>9, <2>10, <2>11, <2>12, Zenon
  <2> QED
    BY <2>2, <2>13
<1>8. \A p \in 1..(N + 1) : p \in T
  <2> HIDE DEF T
  <2> QED
    BY <1>6, <1>7, Backwards
<1>9. 1 \in 1..(N + 1)
  OBVIOUS
<1> QED
  BY <1>2, <1>3, <1>8, <1>9

\* What the panel shows is well-formed UTF-16 that leaves room for its NUL, whatever bytes
\* a name on the device is made of; and but for replacement characters, the row of a file
\* is the well-formed characters of its name, in order (decodeUtf8, utf8ToWideBuf,
\* fillFindData).
THEOREM RowsStayReadable == Spec => []RowsAreReadable
<1>1. IInv => RowsAreReadable
  <2> SUFFICES ASSUME IInv, NEW i \in DOMAIN rows
               PROVE  LET Whole(s) == Only(s, WholeUnits)
                      IN  /\ WellFormedWide(rows[i].units) /\ Len(rows[i].units) < MaxPath
                          /\ rows[i].of.path # Root =>
                                 Whole(rows[i].units) = Whole(GoodCharacters(NameOf(rows[i])))
    BY DEF RowsAreReadable
  <2>1. rows[i] \in Shown
    BY LenProperties, ElementOfSeq DEF IInv, TypeInv
  <2>2. PICK r : r = rows[i]
    OBVIOUS
  <2>3. PICK e \in Entries :
          FillFindData(e).fits /\ r.units = FillFindData(e).units /\ r.of = e.of
    BY <2>1, <2>2, RowFields
  <2>4. e.name \in Texts /\ (e.of.path # Root => NameOf(e) = e.name)
    BY DEF Entries
  <2>5. PICK wide : wide = Utf8ToWide(e.name)
    OBVIOUS
  <2>6. /\ wide \in Seq(Units) /\ WellFormedWide(wide)
        /\ Only(wide, WholeUnits) = Only(GoodCharacters(e.name), WholeUnits)
    BY <2>4, <2>5, Utf8ToWideIs, Undamaged
  <2>7. r.units = wide /\ Len(wide) <= MaxPath - 1
    BY <2>3, <2>5 DEF FillFindData, Utf8ToWideBuf
  <2>8. Len(wide) < MaxPath
    BY <2>6, <2>7, LenProperties, PanelAssumption
  <2>9. NameOf(r) = NameOf(e)
    BY <2>3 DEF NameOf
  <2>10. r.of.path # Root =>
           Only(r.units, WholeUnits) = Only(GoodCharacters(NameOf(r)), WholeUnits)
    BY <2>3, <2>4, <2>6, <2>7, <2>9
  <2> QED
    BY <2>2, <2>6, <2>7, <2>8, <2>10, Zenon
<1> QED
  BY <1>1, Invariance, PTL

-----------------------------------------------------------------------------
(* Names without a slash.                                                  *)

\* A name: something, and no slash in it.
Slashless(s) == s # <<>> /\ ~Contains(s, Slash)

\* Of two texts in a row, the first not empty, the whole is not.
LEMMA NotEmpty ==
    ASSUME NEW R, NEW s \in Seq(R), NEW t \in Seq(R), s # <<>> \/ t # <<>>
    PROVE  s \o t # <<>>
BY ConcatSimplifications

\* A name stays one on the way to the panel,
LEMMA WidenedIsBare ==
    ASSUME NEW s \in Texts, Slashless(s)
    PROVE  Utf8ToWide(s) \in Seq(Units) /\ Slashless(Utf8ToWide(s))
<1>1. PICK u \in Seq(Units) : u = Utf8ToWide(s) /\ Only(u, Ascii7) = Only(s, Ascii7)
  BY Utf8ToWideIs
<1>2. ~Contains(u, Slash)
  <2> SUFFICES ASSUME Contains(u, Slash) PROVE FALSE
    OBVIOUS
  <2>1. Slash \in Ascii7
    BY DEF Slash, Ascii7
  <2>2. Contains(Only(u, Ascii7), Slash)
    BY <2>1, OnlyHas
  <2>3. Contains(Only(s, Ascii7), Slash) => Contains(s, Slash)
    BY OnlyOf DEF Texts
  <2> QED
    BY <1>1, <2>2, <2>3 DEF Slashless
<1>3. u # <<>>
  <2>1. PICK N \in Nat : N = Len(s) /\ N >= 1
    <3>1. Len(s) \in Nat /\ Len(s) # 0
      BY BytesOf, EmptySeq DEF Texts, Slashless
    <3> QED
      BY <3>1
  <2>2. PICK f \in [1..(N + 1) -> Seq(Units)] :
          Chained(f, 1, N, Widened(s), Taken(s)) /\ Utf8ToWide(s) = f[1]
    BY <2>1, Utf8ToWideChain
  <2>3. 1 \in 1..N /\ 1 \in 1..Len(s)
    BY <2>1
  <2>4. PICK v \in Seq(Units) : f[1] = Widened(s)[1] \o v
    <3>1. f[1] = Widened(s)[1] \o f[1 + Taken(s)[1]]
      BY <2>2, <2>3 DEF Chained
    <3>2. Taken(s)[1] \in Nat \ {0} /\ 1 + Taken(s)[1] <= N + 1
      BY <2>1, <2>3, WidenedType DEF Jumps
    <3>3. 1 + Taken(s)[1] \in 1..(N + 1)
      BY <3>2
    <3> QED
      BY <3>1, <3>3
  <2>5. Widened(s)[1] \in Seq(Units) /\ Widened(s)[1] # <<>>
    <3>1. PICK c : c = DecodeUtf8(s, 1).codepoint /\ Scalar(c)
      BY <2>3, DecodeIs
    <3>2. Widened(s)[1] = AppendWide(c)
      BY <2>3, <3>1 DEF Widened
    <3> QED
      BY <3>1, <3>2, EncodesOne
  <2> QED
    BY <1>1, <2>2, <2>4, <2>5, NotEmpty
<1> QED
  BY <1>1, <1>2, <1>3 DEF Slashless

\* and on the way back.
LEMMA SlashEncodes ==
    ASSUME NEW c, Scalar(c), Contains(AppendUtf8(c), Slash)
    PROVE  c = Slash
<1>1. PICK e \in Texts : e = AppendUtf8(c) /\ WellFormedChar(e)
  BY EncodedIs
<1>2. PICK n \in 1..4 : n = Len(e) /\ (e[1] <= 127 => n = 1) /\ \A i \in 2..n : Continuation(e[i])
  BY <1>1, CharShape
<1>3. PICK i \in 1..n : e[i] = Slash
  BY <1>1, <1>2 DEF Contains
<1>4. i = 1
  <2>1. ~Continuation(Slash)
    BY DEF Continuation, Slash
  <2>2. i \notin 2..n
    BY <1>2, <1>3, <2>1
  <2> QED
    BY <2>2
<1>5. n = 1
  <2>1. Slash <= 127
    BY DEF Slash
  <2> QED
    BY <1>2, <1>3, <1>4, <2>1
<1>6. Len(AppendUtf8(c)) = 1 /\ AppendUtf8(c)[1] = Slash
  BY <1>1, <1>2, <1>3, <1>4, <1>5
<1>7. c <= 127
  <2> SUFFICES ASSUME ~(c <= 127) PROVE FALSE
    OBVIOUS
  <2>1. Len(AppendUtf8(c)) \in {2, 3, 4}
    BY <2>1 DEF AppendUtf8
  <2> QED
    BY <1>6, <2>1
<1>8. AppendUtf8(c) = <<c>>
  BY <1>7 DEF AppendUtf8
<1> QED
  BY <1>6, <1>8

LEMMA NarrowedIsBare ==
    ASSUME NEW w \in Seq(Units), Slashless(w)
    PROVE  WideToUtf8(w) \in Texts /\ Slashless(WideToUtf8(w))
<1>1. PICK N \in Nat : N = Len(w) /\ N >= 1
  <2>1. Len(w) \in Nat /\ Len(w) # 0
    BY LenProperties, EmptySeq DEF Slashless
  <2> QED
    BY <2>1
<1>2. PICK f \in [1..(N + 1) -> Texts] :
        Chained(f, 1, N, Encoded(w), UnitsOf(w)) /\ WideToUtf8(w) = f[1]
  BY <1>1, WideToUtf8Chain
<1>3. ASSUME NEW i \in 1..N
      PROVE  /\ Encoded(w)[i] \in Seq(Byte) /\ Encoded(w)[i] # <<>>
             /\ ~Contains(Encoded(w)[i], Slash)
  <2>1. i \in 1..Len(w)
    BY <1>1
  <2>2. PICK c : c = CodePoint(w, i) /\ Scalar(c)
    BY <2>1, CodePointIs
  <2>3. Encoded(w)[i] = AppendUtf8(c)
    BY <2>1, <2>2 DEF Encoded
  <2>4. AppendUtf8(c) \in Texts /\ WellFormedChar(AppendUtf8(c))
    BY <2>2, EncodedIs
  <2>5. AppendUtf8(c) # <<>>
    <3>1. PICK e \in Texts : e = AppendUtf8(c) /\ WellFormedChar(e)
      BY <2>4
    <3>2. Len(e) # 0
      <4>1. PICK k \in 1..4 : k = Len(e)
        BY <3>1, CharShape
      <4>2. k # 0
        OBVIOUS
      <4> QED
        BY <4>1, <4>2, Zenon
    <3>3. Len(<<>>) = 0
      BY EmptySeq
    <3> QED
      BY <3>1, <3>2, <3>3, Zenon
  <2>6. c # Slash
    <3> SUFFICES ASSUME c = Slash PROVE FALSE
      OBVIOUS
    <3>1. w[i] # Slash
      BY <1>1 DEF Slashless, Contains
    <3>2. w[i] \in Nat
      <4>1. w[i] \in Units
        BY <2>1, ElementOfSeq
      <4> QED
        BY <4>1 DEF Units
    <3>3. ~Paired(w, i)
      <4> SUFFICES ASSUME Paired(w, i) PROVE FALSE
        OBVIOUS
      <4>1. PICK a \in Nat, b \in Nat : a = w[i] /\ b = w[i + 1] /\ High(a) /\ Low(b)
        <5>1. i + 1 \in 1..Len(w) /\ High(w[i]) /\ Low(w[i + 1])
          BY <1>1 DEF Paired
        <5>2. w[i + 1] \in Units
          BY <5>1, ElementOfSeq
        <5> QED
          BY <3>2, <5>1, <5>2 DEF Units
      <4>2. c = 65536 + (a - 55296) * 1024 + (b - 56320)
        BY <2>2, <4>1 DEF CodePoint
      <4>3. PICK x \in Nat, y \in Nat : x = a - 55296 /\ y = b - 56320
        <5>1. 55296 <= a /\ 56320 <= b
          BY <4>1 DEF High, Low
        <5>2. a - 55296 \in Nat /\ b - 56320 \in Nat
          BY ONLY <5>1, a \in Nat, b \in Nat
        <5> QED
          BY <5>2
      <4>4. c = 65536 + x * 1024 + y
        BY <4>2, <4>3
      <4> QED
        BY <4>4 DEF Slash
    <3>4. c = IF Surrogate(w[i]) THEN Replacement ELSE w[i]
      BY <2>2, <3>3 DEF CodePoint
    <3>5. Replacement # Slash
      BY DEF Replacement, Slash
    <3> QED
      BY <3>1, <3>4, <3>5
  <2> QED
    BY <2>2, <2>3, <2>4, <2>5, <2>6, SlashEncodes DEF Texts
<1>4. ASSUME NEW i \in 1..N
      PROVE  \E q \in (i + 1)..(N + 1) : f[i] = Encoded(w)[i] \o f[q] /\ f[q] \in Seq(Byte)
  <2>1. PICK q \in (i + 1)..(N + 1) : q = i + UnitsOf(w)[i]
    <3>1. Jumps(UnitsOf(w), N)
      BY <1>1, EncodedType
    <3>2. UnitsOf(w)[i] \in Nat \ {0} /\ i + UnitsOf(w)[i] <= N + 1
      BY <3>1 DEF Jumps
    <3>3. i + UnitsOf(w)[i] \in (i + 1)..(N + 1)
      BY <3>2
    <3> QED
      BY <3>3
  <2>2. f[i] = Encoded(w)[i] \o f[q]
    BY <1>2, <2>1 DEF Chained
  <2>3. q \in 1..(N + 1)
    BY <2>1
  <2> QED
    BY <2>1, <2>2, <2>3 DEF Texts
<1> DEFINE T == {i \in 1..(N + 1) : ~Contains(f[i], Slash)}
<1>5. N + 1 \in T
  <2>1. f[N + 1] = <<>>
    BY <1>2 DEF Chained
  <2>2. ~Contains(<<>>, Slash)
    BY EmptySeq DEF Contains
  <2>3. N + 1 \in 1..(N + 1) /\ ~Contains(f[N + 1], Slash)
    BY <2>1, <2>2
  <2> QED
    BY <2>3
<1>6. ASSUME NEW i \in 1..N, \A q \in (i + 1)..(N + 1) : q \in T PROVE i \in T
  <2>1. PICK q \in (i + 1)..(N + 1) : f[i] = Encoded(w)[i] \o f[q] /\ f[q] \in Seq(Byte)
    BY <1>4
  <2>2. ~Contains(f[q], Slash)
    BY <1>6, <2>1
  <2>3. i \in 1..(N + 1) /\ ~Contains(f[i], Slash)
    BY <1>3, <2>1, <2>2, ContainsConcat
  <2> QED
    BY <2>3
<1>7. \A i \in 1..(N + 1) : i \in T
  <2> HIDE DEF T
  <2> QED
    BY <1>5, <1>6, Backwards
<1>8. 1 \in 1..N /\ 1 \in 1..(N + 1)
  BY <1>1
<1>9. ~Contains(f[1], Slash)
  BY <1>7, <1>8
<1>10. f[1] # <<>>
  <2>1. PICK q \in (1 + 1)..(N + 1) : f[1] = Encoded(w)[1] \o f[q] /\ f[q] \in Seq(Byte)
    BY <1>4, <1>8
  <2> QED
    BY <1>3, <1>8, <2>1, NotEmpty
<1> QED
  BY <1>2, <1>8, <1>9, <1>10 DEF Slashless

-----------------------------------------------------------------------------
(* Paths taken apart again (parseRemotePath, parentWfxDir).                *)

\* Parts of a text that has another one after it.
LEMMA PartBefore ==
    ASSUME NEW s \in Texts, NEW t \in Texts, NEW m \in Nat \ {0}, NEW n \in 0..Len(s)
    PROVE  SubSeq(s \o t, m, n) = SubSeq(s, m, n)
<1>1. Len(s) \in Nat
  BY BytesOf
<1>2. CASE n < m
  <2>1. m \in Int /\ n \in Int
    BY <1>1
  <2> QED
    BY <1>2, <2>1, SubSeqEmpty
<1>3. CASE m <= n
  <2>1. m \in 1..Len(s) /\ n \in 1..Len(s)
    BY <1>1, <1>3
  <2> QED
    BY <2>1, SubSeqOfConcat1 DEF Texts
<1> QED
  BY <1>1, <1>2, <1>3

LEMMA PartOnward ==
    ASSUME NEW s \in Texts, NEW t \in Texts, NEW m \in 1..Len(s)
    PROVE  SubSeq(s \o t, m, Len(s \o t)) = SubSeq(s, m, Len(s)) \o t
<1>1. PICK w \in Texts : w = s \o t
  BY ConcatTexts
<1>2. PICK j \in Nat, k \in Nat : j = Len(s) /\ k = Len(t) /\ Len(w) = j + k
  BY <1>1, BytesOf, ConcatProperties DEF Texts
<1>3. m \in 1..(Len(w) + 1) /\ j \in (m - 1)..Len(w) /\ Len(w) \in j..Len(w)
  BY <1>2
<1>4. SubSeq(w, m, j) \o SubSeq(w, j + 1, Len(w)) = SubSeq(w, m, Len(w))
  BY <1>3, ConcatAdjacentSubSeq DEF Texts
<1>5. SubSeq(w, j + 1, Len(w)) = t
  BY <1>1, <1>2, AfterConcat DEF Texts
<1>6. SubSeq(w, m, j) = SubSeq(s, m, j)
  <2>1. m \in Nat \ {0} /\ j \in 0..Len(s)
    BY <1>2
  <2> QED
    BY <1>1, <2>1, PartBefore
<1> QED
  BY <1>1, <1>2, <1>4, <1>5, <1>6

\* The bytes of a directory, a slash and a name.
Entered(w, dir, name) ==
    /\ w \in Texts /\ w = dir \o (<<Slash>> \o name)
    /\ Len(dir) \in Nat /\ Len(name) \in Nat
    /\ Len(w) = Len(dir) + 1 + Len(name) /\ w[Len(dir) + 1] = Slash
    /\ \A i \in 1..Len(dir) : w[i] = dir[i]
    /\ \A i \in 1..Len(name) : w[Len(dir) + 1 + i] = name[i]

LEMMA DirSlashName == \A dir, name \in Texts : Entered((dir \o <<Slash>>) \o name, dir, name)
<1> SUFFICES ASSUME NEW dir \in Texts, NEW name \in Texts
             PROVE  Entered((dir \o <<Slash>>) \o name, dir, name)
  OBVIOUS
<1>0. PICK w : w = (dir \o <<Slash>>) \o name
  OBVIOUS
<1>1. PICK m \in Nat, n \in Nat : m = Len(dir) /\ n = Len(name)
  BY BytesOf
<1>2. PICK front \in Texts :
        /\ front = dir \o <<Slash>> /\ Len(front) = m + 1 /\ front[m + 1] = Slash
        /\ \A i \in 1..m : front[i] = dir[i]
  <2>1. /\ dir \o <<Slash>> \in Texts /\ Len(dir \o <<Slash>>) = m + 1
        /\ \A i \in 1..(m + 1) : (dir \o <<Slash>>)[i] = IF i <= m THEN dir[i] ELSE <<Slash>>[i - m]
    BY <1>1, SlashText, ConcatProperties DEF Texts
  <2>2. /\ m + 1 \in 1..(m + 1) /\ ~(m + 1 <= m) /\ (m + 1) - m = 1
        /\ \A i \in 1..m : i \in 1..(m + 1) /\ i <= m
    OBVIOUS
  <2>3. /\ (dir \o <<Slash>>)[m + 1] = Slash
        /\ \A i \in 1..m : (dir \o <<Slash>>)[i] = dir[i]
    BY <2>1, <2>2, SlashText
  <2> QED
    BY <2>1, <2>3
<1>3. /\ w \in Texts /\ Len(w) = (m + 1) + n
      /\ \A i \in 1..((m + 1) + n) : w[i] = IF i <= m + 1 THEN front[i] ELSE name[i - (m + 1)]
  BY <1>0, <1>1, <1>2, ConcatProperties DEF Texts
<1>4. /\ \A i \in 1..(m + 1) : i \in 1..((m + 1) + n) /\ i <= m + 1
      /\ \A i \in 1..n : /\ m + 1 + i \in 1..((m + 1) + n) /\ ~(m + 1 + i <= m + 1)
                         /\ (m + 1 + i) - (m + 1) = i
      /\ m + 1 \in 1..(m + 1) /\ \A i \in 1..m : i \in 1..(m + 1)
  OBVIOUS
<1>5. /\ \A i \in 1..(m + 1) : w[i] = front[i]
      /\ \A i \in 1..n : w[m + 1 + i] = name[i]
  BY <1>3, <1>4
<1>6. w[m + 1] = Slash /\ \A i \in 1..m : w[i] = dir[i]
  BY <1>2, <1>4, <1>5
<1>7. w = dir \o (<<Slash>> \o name)
  <2>1. Regroups(dir, <<Slash>>, name)
    BY Regrouping, SlashText DEF Texts
  <2> QED
    BY <1>0, <2>1 DEF Regroups
<1>8. /\ Len(w) = m + 1 + n /\ w[m + 1] = Slash
      /\ \A i \in 1..n : w[m + 1 + i] = name[i]
  BY <1>3, <1>5, <1>6
<1>9. Entered(w, dir, name)
  BY <1>1, <1>3, <1>6, <1>7, <1>8 DEF Entered
<1> QED
  BY <1>0, <1>9

\* The directory of a path is what stands before the last slash.
LEMMA ParentBack ==
    ASSUME NEW dir \in Texts, NEW name \in Texts, ~Contains(name, Slash)
    PROVE  ParentWfxDir((dir \o <<Slash>>) \o name) = IF dir = <<>> THEN Root ELSE dir
<1>1. PICK w : w = (dir \o <<Slash>>) \o name
  OBVIOUS
<1>2. PICK m \in Nat, n \in Nat :
        /\ m = Len(dir) /\ n = Len(name) /\ Len(w) = m + 1 + n /\ w \in Texts
        /\ w[m + 1] = Slash /\ \A i \in 1..n : w[m + 1 + i] = name[i]
        /\ w = dir \o (<<Slash>> \o name)
  <2>1. Entered(w, dir, name)
    BY <1>1, DirSlashName
  <2> QED
    BY <2>1 DEF Entered
<1>3. \A i \in 1..n : w[m + 1 + i] # Slash
  BY <1>2 DEF Contains
<1>4. PICK k \in 0..Len(w) :
        /\ k = LastSlash(w) /\ (k = 0 \/ w[k] = Slash)
        /\ \A i \in 1..Len(w) : w[i] = Slash => i <= k
  BY <1>2, LastSlashIs
<1>5. k = m + 1
  <2>1. m + 1 \in 1..Len(w)
    BY <1>2
  <2>2. k >= m + 1
    BY <1>2, <1>4, <2>1
  <2>3. ~(k > m + 1)
    <3> SUFFICES ASSUME k > m + 1 PROVE FALSE
      OBVIOUS
    <3>1. PICK i \in 1..n : i = k - (m + 1)
      <4>1. k \in 0..(m + 1 + n)
        BY <1>2
      <4>2. k - (m + 1) \in 1..n
        BY ONLY <4>1, k > m + 1, m \in Nat, n \in Nat
      <4> QED
        BY <4>2
    <3>2. m + 1 + i = k /\ k # 0
      BY <1>2, <3>1
    <3> QED
      BY <1>3, <1>4, <3>2
  <2> QED
    BY <1>2, <2>2, <2>3
<1>6. CASE dir = <<>>
  <2>1. m = 0
    BY <1>2, <1>6, EmptySeq
  <2>2. LastSlash(w) <= 1
    BY <1>4, <1>5, <2>1
  <2> QED
    BY <1>1, <1>6, <2>2 DEF ParentWfxDir, Root
<1>7. CASE dir # <<>>
  <2>1. m # 0
    BY <1>2, <1>7, EmptySeq DEF Texts
  <2>2. ~(LastSlash(w) <= 1) /\ LastSlash(w) - 1 = m
    BY <1>4, <1>5, <2>1
  <2>3. ParentWfxDir(w) = SubSeq(w, 1, m)
    BY <2>2 DEF ParentWfxDir
  <2>4. SubSeq(w, 1, m) = dir
    <3>1. <<Slash>> \o name \in Texts
      BY SlashText, ConcatTexts
    <3> QED
      BY <1>2, <3>1, BeforeConcat
  <2> QED
    BY <1>1, <1>7, <2>3, <2>4
<1> QED
  BY <1>6, <1>7

\* find('/', start): the first slash from there on, 0 when there is none.
NextSlash(w, start) == SelectInSubSeq(w, start, Len(w), LAMBDA c : c = Slash)

LEMMA NextSlashIs ==
    ASSUME NEW w \in Texts, NEW start \in {1, 2}, NEW k, k = NextSlash(w, start)
    PROVE  \/ k = 0 /\ \A i \in start..Len(w) : w[i] # Slash
           \/ /\ k \in start..Len(w) /\ w[k] = Slash
              /\ \A i \in start..(k - 1) : w[i] # Slash
<1> DEFINE S == {i \in start..Len(w) : w[i] = Slash}
<1>1. Len(w) \in Nat /\ start \in Nat
  BY BytesOf
<1>2. k = IF S # {} THEN Min(S) ELSE 0
  BY DEF NextSlash, SelectInSubSeq
<1>3. CASE S = {}
  BY <1>2, <1>3
<1>4. CASE S # {}
  <2>1. S \in SUBSET Nat
    BY <1>1
  <2>2. k \in S /\ \A y \in S : k <= y
    <3> HIDE DEF S
    <3> QED
      BY <1>2, <1>4, <2>1, Least
  <2>3. ASSUME NEW i \in start..(k - 1) PROVE w[i] # Slash
    <3>1. i \in start..Len(w) /\ ~(k <= i)
      BY <1>1, <2>2
    <3> QED
      BY <2>2, <3>1
  <2> QED
    BY <2>2, <2>3
<1> QED
  BY <1>3, <1>4

\* A slash with none before it is the next one.
LEMMA NextSlashAt ==
    ASSUME NEW w \in Texts, NEW start \in {1, 2}, NEW j \in start..Len(w), w[j] = Slash,
           \A i \in start..(j - 1) : w[i] # Slash
    PROVE  NextSlash(w, start) = j
<1>1. PICK k : k = NextSlash(w, start)
  OBVIOUS
<1>2. \/ k = 0 /\ \A i \in start..Len(w) : w[i] # Slash
      \/ /\ k \in start..Len(w) /\ w[k] = Slash
         /\ \A i \in start..(k - 1) : w[i] # Slash
  BY <1>1, NextSlashIs
<1>3. Len(w) \in Nat /\ start \in Nat
  BY BytesOf
<1>4. k \in start..Len(w) /\ w[k] = Slash /\ \A i \in start..(k - 1) : w[i] # Slash
  BY <1>2
<1>5. ~(k < j)
  <2>1. k < j => k \in start..(j - 1)
    BY <1>3, <1>4
  <2> QED
    BY <1>4, <2>1
<1>6. ~(j < k)
  <2>1. j < k => j \in start..(k - 1)
    BY <1>3, <1>4
  <2> QED
    BY <1>4, <2>1
<1> QED
  BY <1>1, <1>3, <1>4, <1>5, <1>6

\* parseRemotePath of a path that is not the root, by where its first name begins.
StartOf(w) == IF w[1] = Slash THEN 2 ELSE 1
LEMMA ParseIs ==
    ASSUME NEW w \in Texts, w # <<>>, w # Root, NEW k, k = NextSlash(w, StartOf(w))
    PROVE  ParseRemotePath(w) =
             IF k = 0 THEN [isRoot |-> FALSE, serial |-> SubSeq(w, StartOf(w), Len(w)), path |-> Root]
             ELSE [isRoot |-> FALSE, serial |-> SubSeq(w, StartOf(w), k - 1),
                   path |-> SubSeq(w, k, Len(w))]
<1>1. w \notin {<<>>, <<Slash>>}
  BY DEF Root
<1> QED
  BY <1>1 DEF ParseRemotePath, NextSlash, StartOf, Root

\* A first name.
LEMMA ParseTop ==
    ASSUME NEW v \in Texts, Slashless(v)
    PROVE  ParseRemotePath(<<Slash>> \o v) = [isRoot |-> FALSE, serial |-> v, path |-> Root]
<1>1. PICK w : w = <<Slash>> \o v
  OBVIOUS
<1>2. PICK n \in Nat : n = Len(v) /\ n >= 1
  <2>1. Len(v) \in Nat /\ Len(v) # 0
    BY BytesOf, EmptySeq DEF Texts, Slashless
  <2> QED
    BY <2>1
<1>3. /\ w \in Texts /\ Len(w) = 1 + n
      /\ \A i \in 1..(1 + n) : w[i] = IF i <= 1 THEN <<Slash>>[i] ELSE v[i - 1]
  BY <1>1, <1>2, SlashText, ConcatProperties DEF Texts
<1>4. w[1] = Slash
  <2>1. 1 \in 1..(1 + n) /\ 1 <= 1
    OBVIOUS
  <2> QED
    BY <1>3, <2>1, SlashText
<1>5. \A i \in 2..Len(w) : w[i] # Slash
  <2> TAKE i \in 2..Len(w)
  <2>1. i \in 1..(1 + n) /\ ~(i <= 1) /\ i - 1 \in 1..n
    BY <1>3
  <2>2. w[i] = v[i - 1]
    BY <1>3, <2>1
  <2> QED
    BY <1>2, <2>1, <2>2 DEF Slashless, Contains
<1>6. StartOf(w) = 2
  BY <1>4 DEF StartOf
<1>7. w # <<>> /\ w # Root
  <2>1. Len(<<>>) = 0 /\ Len(Root) = 1 /\ Len(w) # 0 /\ Len(w) # 1
    BY <1>2, <1>3, EmptySeq, SlashText DEF Root
  <2> QED
    BY <2>1
<1>8. PICK k : k = NextSlash(w, 2)
  OBVIOUS
<1>9. k = 0
  <2>1. 2 \in {1, 2}
    OBVIOUS
  <2> QED
    BY ONLY <1>3, <1>5, <1>8, <2>1, NextSlashIs
<1>10. ParseRemotePath(w) = [isRoot |-> FALSE, serial |-> SubSeq(w, 2, Len(w)), path |-> Root]
  BY <1>3, <1>6, <1>7, <1>8, <1>9, ParseIs
<1>11. SubSeq(w, 2, Len(w)) = v
  <2>1. SubSeq(w, Len(<<Slash>>) + 1, Len(w)) = v
    BY <1>1, SlashText, AfterConcat DEF Texts
  <2> QED
    BY <2>1, SlashText
<1> QED
  BY <1>1, <1>10, <1>11

\* One name more leads from what a path stands for to what has that name in it.
LEMMA ParseDeeper ==
    ASSUME NEW w \in Texts, w # <<>>, Last(w) # Slash, NEW v \in Texts, Slashless(v),
           NEW p, p = ParseRemotePath(w)
    PROVE  /\ ~p.isRoot
           /\ ParseRemotePath((w \o <<Slash>>) \o v) =
                [isRoot |-> FALSE, serial |-> p.serial, path |-> JoinWfxPath(p.path, v)]
<1>1. PICK x : x = (w \o <<Slash>>) \o v
  OBVIOUS
<1>2. Entered(x, w, v)
  BY <1>1, DirSlashName
<1>3. PICK m \in Nat, n \in Nat : m = Len(w) /\ n = Len(v) /\ m >= 1 /\ n >= 1
  <2>1. Len(w) \in Nat /\ Len(w) # 0 /\ Len(v) \in Nat /\ Len(v) # 0
    BY BytesOf, EmptySeq DEF Texts, Slashless
  <2> QED
    BY <2>1
<1>4. /\ x \in Texts /\ Len(x) = m + 1 + n /\ x[m + 1] = Slash
      /\ \A i \in 1..m : x[i] = w[i]
      /\ x = w \o (<<Slash>> \o v)
  BY <1>2, <1>3 DEF Entered
<1>5. PICK tail \in Texts : tail = <<Slash>> \o v
  BY SlashText, ConcatTexts
<1>6. w[m] # Slash
  BY <1>3 DEF Last
<1>7. PICK start \in {1, 2} : start = StartOf(w)
  BY DEF StartOf
<1>8. start = StartOf(x)
  <2>1. 1 \in 1..m
    BY <1>3
  <2> QED
    BY <1>4, <1>7, <2>1 DEF StartOf
<1>9. start \in 1..m
  <2>1. m = 1 => start = 1
    BY <1>6, <1>7 DEF StartOf
  <2> QED
    BY <1>3, <2>1
<1>10. w # Root /\ x # <<>> /\ x # Root
  <2>1. Len(<<>>) = 0 /\ Len(Root) = 1 /\ Len(x) # 0 /\ Len(x) # 1
    BY <1>3, <1>4, EmptySeq, SlashText DEF Root
  <2>2. Root[1] = Slash
    BY SlashText DEF Root
  <2> QED
    BY <1>3, <1>6, <2>1, <2>2
<1>11. PICK k : k = NextSlash(w, start)
  OBVIOUS
<1>12. p = IF k = 0 THEN [isRoot |-> FALSE, serial |-> SubSeq(w, start, Len(w)), path |-> Root]
           ELSE [isRoot |-> FALSE, serial |-> SubSeq(w, start, k - 1),
                 path |-> SubSeq(w, k, Len(w))]
  BY <1>7, <1>10, <1>11, ParseIs
<1>13. \A j \in start..Len(x) :
         x[j] = Slash /\ (\A i \in start..(j - 1) : x[i] # Slash) =>
         ParseRemotePath(x) = [isRoot |-> FALSE, serial |-> SubSeq(x, start, j - 1),
                               path |-> SubSeq(x, j, Len(x))]
  <2> SUFFICES ASSUME NEW j \in start..Len(x), x[j] = Slash,
                      \A i \in start..(j - 1) : x[i] # Slash
               PROVE  ParseRemotePath(x) = [isRoot |-> FALSE, serial |-> SubSeq(x, start, j - 1),
                                            path |-> SubSeq(x, j, Len(x))]
    OBVIOUS
  <2>1. j = NextSlash(x, start)
    BY <1>4, NextSlashAt
  <2>2. j # 0
    BY <1>9
  <2> QED
    BY <1>4, <1>8, <1>10, <2>1, <2>2, ParseIs
<1>14. CASE k = 0
  <2>1. \A i \in start..m : w[i] # Slash
    <3>1. \/ k = 0 /\ \A i \in start..Len(w) : w[i] # Slash
          \/ /\ k \in start..Len(w) /\ w[k] = Slash
             /\ \A i \in start..(k - 1) : w[i] # Slash
      BY ONLY <1>11, w \in Texts, start \in {1, 2}, NextSlashIs
    <3>2. ~(k \in start..Len(w))
      BY <1>9, <1>14
    <3> QED
      BY <1>3, <3>1, <3>2
  <2>2. m + 1 \in start..Len(x) /\ (m + 1) - 1 = m /\ \A i \in start..m : i \in 1..m
    BY <1>3, <1>4, <1>9
  <2>3. \A i \in start..m : x[i] # Slash
    BY <1>4, <2>1, <2>2
  <2>4. ParseRemotePath(x) = [isRoot |-> FALSE, serial |-> SubSeq(x, start, m),
                              path |-> SubSeq(x, m + 1, Len(x))]
    BY <1>4, <1>13, <2>2, <2>3
  <2>5. SubSeq(x, start, m) = SubSeq(w, start, Len(w))
    <3>1. start \in Nat \ {0} /\ m \in 0..Len(w)
      BY <1>3, <1>9
    <3> QED
      BY <1>3, <1>4, <1>5, <3>1, PartBefore
  <2>6. SubSeq(x, m + 1, Len(x)) = <<Slash>> \o v
    BY <1>3, <1>4, <1>5, AfterConcat DEF Texts
  <2>7. JoinWfxPath(Root, v) = <<Slash>> \o v
    <3>1. Root # <<>> /\ Last(Root) = Slash
      BY SlashText, EmptySeq DEF Root, Last
    <3> QED
      BY <3>1 DEF JoinWfxPath, Root
  <2>8. ~p.isRoot /\ p.serial = SubSeq(w, start, Len(w)) /\ p.path = Root
    BY <1>12, <1>14
  <2> QED
    BY <1>1, <2>4, <2>5, <2>6, <2>7, <2>8
<1>15. CASE k # 0
  <2>1. k \in start..m /\ w[k] = Slash /\ \A i \in start..(k - 1) : w[i] # Slash
    BY <1>3, <1>11, <1>15, NextSlashIs
  <2>2. k \in 1..m /\ k \in start..Len(x) /\ \A i \in start..(k - 1) : i \in 1..m
    BY <1>3, <1>4, <1>9, <2>1
  <2>3. x[k] = Slash /\ \A i \in start..(k - 1) : x[i] # Slash
    BY <1>4, <2>1, <2>2
  <2>4. ParseRemotePath(x) = [isRoot |-> FALSE, serial |-> SubSeq(x, start, k - 1),
                              path |-> SubSeq(x, k, Len(x))]
    BY <1>13, <2>2, <2>3
  <2>5. SubSeq(x, start, k - 1) = SubSeq(w, start, k - 1)
    <3>1. start \in Nat \ {0} /\ k - 1 \in 0..Len(w)
      BY <1>3, <1>9, <2>2
    <3> QED
      BY <1>4, <1>5, <3>1, PartBefore
  <2>6. PICK path \in Texts : path = SubSeq(w, k, Len(w)) /\ path # <<>> /\ Last(path) # Slash
    <3>1. k \in Int /\ m \in Int /\ k <= m /\ \A i \in k..m : i \in 1..Len(w)
      BY <1>3, <2>2
    <3>2. \A i \in k..m : w[i] \in Byte
      BY <3>1, BytesOf
    <3>3. PICK path : path = SubSeq(w, k, m)
      OBVIOUS
    <3>4. /\ path \in Seq(Byte) /\ Len(path) = m - k + 1
          /\ \A i \in 1..(m - k + 1) : path[i] = w[k + i - 1]
      BY <3>1, <3>2, <3>3, SubSeqProperties
    <3>5. m - k + 1 \in 1..(m - k + 1) /\ k + (m - k + 1) - 1 = m /\ m - k + 1 # 0
      BY <3>1
    <3>6. path[Len(path)] = w[m] /\ path # <<>>
      BY <3>4, <3>5, EmptySeq
    <3> QED
      BY <1>3, <1>6, <3>3, <3>4, <3>6 DEF Last, Texts
  <2>7. SubSeq(x, k, Len(x)) = path \o (<<Slash>> \o v)
    <3>1. k \in 1..Len(w)
      BY <1>3, <2>2
    <3> QED
      <4>1. SubSeq(w \o tail, k, Len(w \o tail)) = SubSeq(w, k, Len(w)) \o tail
        BY <3>1, PartOnward
      <4> QED
        BY <1>4, <1>5, <2>6, <4>1, Zenon
  <2>8. JoinWfxPath(path, v) = path \o (<<Slash>> \o v)
    <3>1. JoinWfxPath(path, v) = (path \o <<Slash>>) \o v
      BY <2>6 DEF JoinWfxPath
    <3>2. Regroups(path, <<Slash>>, v)
      BY <2>6, Regrouping, SlashText DEF Texts
    <3> QED
      BY <3>1, <3>2 DEF Regroups
  <2>9. ~p.isRoot /\ p.serial = SubSeq(w, start, k - 1) /\ p.path = path
    <3>1. PICK serial : serial = SubSeq(w, start, k - 1)
      OBVIOUS
    <3>2. p = [isRoot |-> FALSE, serial |-> serial, path |-> path]
      BY <1>12, <1>15, <2>6, <3>1, Zenon
    <3>3. ~p.isRoot /\ p.serial = serial /\ p.path = path
      BY ONLY <3>2
    <3> QED
      BY <3>1, <3>3, Zenon
  <2> QED
    BY <1>1, <2>4, <2>5, <2>7, <2>8, <2>9
<1> QED
  BY <1>14, <1>15

\* The display name of a device gives its serial number back: the only blank in it is
\* the one in front of the brackets.
LEMMA SerialBack ==
    ASSUME NEW d \in Devices
    PROVE  SerialFromDisplayName(DisplayNameForDevice(d)) = d.serial
<1>1. PICK word \in Texts : /\ word = d.serial /\ word # <<>>
                            /\ \A i \in 1..Len(word) : word[i] # Space
  <2>1. d.serial \in Seq(Byte \ {Space, Tab, CR, Newline}) /\ d.serial # <<>>
    BY DEF Devices, Words
  <2>2. d.serial \in Texts
    BY <2>1, SeqMonotonic DEF Texts
  <2>3. \A i \in 1..Len(d.serial) : d.serial[i] # Space
    BY <2>1, ElementOfSeq
  <2> QED
    BY <2>1, <2>2, <2>3
<1>2. PICK model \in Texts : model = d.model /\ \A i \in 1..Len(model) : model[i] # Space
  <2>1. d.model \in Seq(Byte \ {Space, Tab, CR, Newline})
    BY EmptySeq DEF Devices, Words
  <2>2. d.model \in Texts
    BY <2>1, SeqMonotonic DEF Texts
  <2>3. \A i \in 1..Len(d.model) : d.model[i] # Space
    BY <2>1, ElementOfSeq
  <2> QED
    BY <2>1, <2>2, <2>3
<1>3. PICK s \in Nat, m \in Nat : s = Len(word) /\ m = Len(model) /\ s >= 1
  <2>1. Len(word) \in Nat /\ Len(word) # 0 /\ Len(model) \in Nat
    BY <1>1, BytesOf, EmptySeq DEF Texts
  <2> QED
    BY <2>1
<1>4. CASE d.model = <<>>
  <2>1. DisplayNameForDevice(d) = word
    BY <1>1, <1>4 DEF DisplayNameForDevice
  <2>2. {i \in 1..(Len(word) - 1) : word[i] = Space /\ word[i + 1] = Open} = {}
    <3>1. \A i \in 1..(s - 1) : i \in 1..s
      OBVIOUS
    <3> QED
      BY <1>1, <1>3, <3>1
  <2>3. SerialFromDisplayName(word) = word
    BY <2>2 DEF SerialFromDisplayName
  <2> QED
    BY <1>1, <2>1, <2>3
<1>5. CASE d.model # <<>>
  <2>1. PICK front \in Texts : /\ front = model \o <<Space, Open>> /\ Len(front) = m + 2
                               /\ \A i \in 1..m : front[i] = model[i]
                               /\ front[m + 1] = Space /\ front[m + 2] = Open
    <3>1. <<Space, Open>> \in Seq(Byte) /\ Len(<<Space, Open>>) = 2
          /\ <<Space, Open>>[1] = Space /\ <<Space, Open>>[2] = Open
      BY DEF Space, Open, Byte
    <3>2. PICK front : front = model \o <<Space, Open>>
      OBVIOUS
    <3>3. /\ front \in Seq(Byte) /\ Len(front) = m + 2
          /\ \A i \in 1..(m + 2) : front[i] = IF i <= m THEN model[i] ELSE <<Space, Open>>[i - m]
      BY <1>3, <3>1, <3>2, ConcatProperties DEF Texts
    <3>4. /\ m + 1 \in 1..(m + 2) /\ ~(m + 1 <= m) /\ (m + 1) - m = 1
          /\ m + 2 \in 1..(m + 2) /\ ~(m + 2 <= m) /\ (m + 2) - m = 2
          /\ \A i \in 1..m : i \in 1..(m + 2) /\ i <= m
      OBVIOUS
    <3>5. front[m + 1] = Space /\ front[m + 2] = Open /\ \A i \in 1..m : front[i] = model[i]
      BY <3>1, <3>3, <3>4
    <3> QED
      BY <3>2, <3>3, <3>5 DEF Texts
  <2>2. PICK y \in Texts : /\ y = front \o word /\ Len(y) = m + 2 + s
                           /\ \A i \in 1..(m + 2) : y[i] = front[i]
                           /\ \A i \in 1..s : y[m + 2 + i] = word[i]
    <3>1. PICK y : y = front \o word
      OBVIOUS
    <3>2. /\ y \in Seq(Byte) /\ Len(y) = m + 2 + s
          /\ \A i \in 1..(m + 2 + s) : y[i] = IF i <= m + 2 THEN front[i] ELSE word[i - (m + 2)]
      BY <1>3, <2>1, <3>1, ConcatProperties DEF Texts
    <3>3. /\ \A i \in 1..(m + 2) : i \in 1..(m + 2 + s) /\ i <= m + 2
          /\ \A i \in 1..s : /\ m + 2 + i \in 1..(m + 2 + s) /\ ~(m + 2 + i <= m + 2)
                             /\ (m + 2 + i) - (m + 2) = i
      OBVIOUS
    <3>4. /\ \A i \in 1..(m + 2) : y[i] = front[i]
          /\ \A i \in 1..s : y[m + 2 + i] = word[i]
      BY <3>2, <3>3
    <3> QED
      BY <3>1, <3>2, <3>4 DEF Texts
  <2>3. <<Close>> \in Texts /\ Len(<<Close>>) = 1 /\ <<Close>>[1] = Close
    BY DEF Close, Byte, Texts
  <2>4. PICK n \in Texts : /\ n = y \o <<Close>> /\ Len(n) = m + 2 + s + 1
                           /\ \A i \in 1..(m + 2 + s) : n[i] = y[i]
                           /\ n[m + 2 + s + 1] = Close
    <3>1. PICK n : n = y \o <<Close>>
      OBVIOUS
    <3>2. /\ n \in Seq(Byte) /\ Len(n) = (m + 2 + s) + 1
          /\ \A i \in 1..((m + 2 + s) + 1) : n[i] = IF i <= m + 2 + s THEN y[i]
                                                    ELSE <<Close>>[i - (m + 2 + s)]
      <4>1. PICK k \in Nat : k = m + 2 + s
        OBVIOUS
      <4>2. Len(y) = k /\ y \in Seq(Byte) /\ <<Close>> \in Seq(Byte)
        BY <2>2, <2>3, <4>1 DEF Texts
      <4>3. /\ n \in Seq(Byte) /\ Len(n) = k + 1
            /\ \A i \in 1..(k + 1) : n[i] = IF i <= k THEN y[i] ELSE <<Close>>[i - k]
        BY <2>3, <3>1, <4>2, ConcatProperties
      <4> QED
        BY <4>1, <4>3
    <3>3. /\ \A i \in 1..(m + 2 + s) : i \in 1..((m + 2 + s) + 1)
          /\ m + 2 + s + 1 \in 1..((m + 2 + s) + 1) /\ ~(m + 2 + s + 1 <= m + 2 + s)
          /\ (m + 2 + s + 1) - (m + 2 + s) = 1
      OBVIOUS
    <3>4. /\ \A i \in 1..(m + 2 + s) : n[i] = y[i]
          /\ n[m + 2 + s + 1] = Close
      BY <2>3, <3>2, <3>3
    <3> QED
      BY <3>1, <3>2, <3>4 DEF Texts
  <2>5. DisplayNameForDevice(d) = n
    BY <1>1, <1>2, <1>5, <2>1, <2>2, <2>4 DEF DisplayNameForDevice
  <2> DEFINE opens == {i \in 1..(Len(n) - 1) : n[i] = Space /\ n[i + 1] = Open}
  <2>6. /\ \A i \in 1..m : n[i] # Space
        /\ n[m + 1] = Space /\ n[m + 2] = Open
        /\ \A i \in 1..s : n[m + 2 + i] # Space
    <3>1. /\ \A i \in 1..(m + 2) : i \in 1..(m + 2 + s)
          /\ \A i \in 1..s : m + 2 + i \in 1..(m + 2 + s)
          /\ \A i \in 1..m : i \in 1..(m + 2)
          /\ m + 1 \in 1..(m + 2) /\ m + 2 \in 1..(m + 2)
      OBVIOUS
    <3>2. /\ \A i \in 1..(m + 2) : n[i] = front[i]
          /\ \A i \in 1..s : n[m + 2 + i] = word[i]
      BY <2>2, <2>4, <3>1
    <3> QED
      <4>1. \A i \in 1..m : n[i] # Space
        <5> TAKE i \in 1..m
        <5>1. n[i] = front[i] /\ front[i] = model[i]
          BY <2>1, <3>1, <3>2, Zenon
        <5>2. model[i] # Space
          BY <1>2, <1>3
        <5> QED
          BY <5>1, <5>2, Zenon
      <4>2. n[m + 1] = Space /\ n[m + 2] = Open
        BY <2>1, <3>1, <3>2, Zenon
      <4>3. \A i \in 1..s : n[m + 2 + i] # Space
        BY <1>1, <1>3, <3>2, Zenon
      <4> QED
        BY <4>1, <4>2, <4>3
  <2>7. opens = {m + 1}
    <3>1. m + 1 \in opens
      <4>1. m + 1 \in 1..(Len(n) - 1) /\ (m + 1) + 1 = m + 2
        BY <2>4
      <4> QED
        BY <2>6, <4>1
    <3>2. ASSUME NEW i \in opens PROVE i = m + 1
      <4>1. i \in 1..(m + 2 + s) /\ n[i] = Space
        BY <2>4, <3>2
      <4>2. i \in 1..m \/ i = m + 1 \/ i = m + 2 \/ i - (m + 2) \in 1..s
        BY <4>1
      <4>3. i # m + 2
        <5>1. Open # Space
          BY DEF Open, Space
        <5> QED
          BY <2>6, <4>1, <5>1
      <4>4. ~(i - (m + 2) \in 1..s)
        <5> SUFFICES ASSUME i - (m + 2) \in 1..s PROVE FALSE
          OBVIOUS
        <5>1. PICK j \in 1..s : j = i - (m + 2) /\ i = m + 2 + j
          BY <4>1
        <5> QED
          BY <2>6, <4>1, <5>1
      <4> QED
        BY <2>6, <4>1, <4>2, <4>3, <4>4
    <3> HIDE DEF opens
    <3> QED
      BY <3>1, <3>2
  <2>8. Max(opens) = m + 1
    <3>1. {m + 1} \in SUBSET Nat /\ {m + 1} # {} /\ m + 1 \in Nat /\ \A z \in {m + 1} : z <= m + 1
      OBVIOUS
    <3>2. Max({m + 1}) \in {m + 1}
      BY <3>1, Greatest
    <3> HIDE DEF opens
    <3> QED
      BY <2>7, <3>2
  <2>9. n # <<>> /\ Last(n) = Close /\ opens # {} /\ ~(Len(n) <= (m + 1) + 2)
    <3>1. Len(n) # 0 /\ ~(Len(n) <= (m + 1) + 2)
      BY <1>3, <2>4
    <3>2. n # <<>>
      BY <3>1, EmptySeq
    <3>3. Last(n) = Close
      BY <2>4 DEF Last
    <3> HIDE DEF opens
    <3> QED
      BY <2>7, <3>1, <3>2, <3>3
  <2>10. SerialFromDisplayName(n) = SubSeq(n, (m + 1) + 2, Len(n) - 1)
    <3>1. SerialFromDisplayName(n) =
            IF n = <<>> \/ Last(n) # Close \/ opens = {} \/ Len(n) <= Max(opens) + 2 THEN n
            ELSE SubSeq(n, Max(opens) + 2, Len(n) - 1)
      BY DEF SerialFromDisplayName
    <3> HIDE DEF opens
    <3> QED
      BY <2>8, <2>9, <3>1
  <2>11. SubSeq(n, (m + 1) + 2, Len(n) - 1) = word
    <3>1. /\ (m + 1) + 2 = Len(front) + 1 /\ Len(n) - 1 = Len(y)
          /\ Len(front) + 1 \in Nat \ {0} /\ Len(y) \in 0..Len(y)
      BY <2>1, <2>2, <2>4
    <3>2. SubSeq(n, Len(front) + 1, Len(y)) = SubSeq(y, Len(front) + 1, Len(y))
      BY <2>3, <2>4, <3>1, PartBefore
    <3>3. SubSeq(y, Len(front) + 1, Len(y)) = word
      BY <2>2, AfterConcat DEF Texts
    <3> QED
      BY <3>1, <3>2, <3>3
  <2> QED
    BY <1>1, <2>5, <2>10, <2>11
<1> QED
  BY <1>4, <1>5

-----------------------------------------------------------------------------
(* What the shell on the device reads (shellQuote).                        *)

Modes  == {"bare", "quoted", "escaped"}
States == [words : Seq(Texts), word : Texts, open : BOOLEAN, mode : Modes, literal : BOOLEAN]

\* A reading of literal words, between two of them and within one.
Between(words) ==
    [words |-> words, word |-> <<>>, open |-> FALSE, mode |-> "bare", literal |-> TRUE]
Within(words, word, mode) ==
    [words |-> words, word |-> word, open |-> TRUE, mode |-> mode, literal |-> TRUE]

\* The characters the shell takes for itself.
LEMMA ShellMarks ==
    /\ Apostrophe # Backslash /\ Apostrophe # Space /\ Backslash # Space
    /\ Apostrophe \notin Plain /\ Backslash \notin Plain /\ Space \notin Plain
    /\ Apostrophe \in Byte /\ Backslash \in Byte /\ Space \in Byte
<1>1. Slash = 47 /\ Dot = 46 /\ Apostrophe = 39 /\ Backslash = 92 /\ Space = 32
  BY DEF Slash, Dot, Apostrophe, Backslash, Space
<1>2. \A c \in Plain : /\ c >= 45 /\ c # 92
  BY <1>1 DEF Plain
<1> QED
  BY <1>1, <1>2 DEF Byte

\* What the shell makes of a character of its line.
LEMMA BareStep ==
    ASSUME NEW st, NEW c, st.mode = "bare"
    PROVE  /\ c = Apostrophe => ShellStep(st, c) = [st EXCEPT !.mode = "quoted", !.open = TRUE]
           /\ c = Backslash => ShellStep(st, c) = [st EXCEPT !.mode = "escaped"]
           /\ c = Space => ShellStep(st, c) = Finish(st)
           /\ c \in Plain => ShellStep(st, c) = Put(st, c)
           /\ c \notin {Apostrophe, Backslash, Space} \cup Plain
                => ShellStep(st, c) = [st EXCEPT !.literal = FALSE]
<1>1. st.mode # "quoted" /\ st.mode # "escaped"
  OBVIOUS
<1>2. ShellStep(st, c) =
        CASE c = Apostrophe -> [st EXCEPT !.mode = "quoted", !.open = TRUE]
          [] c = Backslash  -> [st EXCEPT !.mode = "escaped"]
          [] c = Space      -> Finish(st)
          [] c \in Plain    -> Put(st, c)
          [] OTHER          -> [st EXCEPT !.literal = FALSE]
  BY <1>1, Zenon DEF ShellStep
<1>3. PICK a, b, p, q, z : /\ a = [st EXCEPT !.mode = "quoted", !.open = TRUE]
                           /\ b = [st EXCEPT !.mode = "escaped"] /\ p = Finish(st)
                           /\ q = Put(st, c) /\ z = [st EXCEPT !.literal = FALSE]
  OBVIOUS
<1>4. ShellStep(st, c) = CASE c = Apostrophe -> a [] c = Backslash -> b [] c = Space -> p
                           [] c \in Plain -> q [] OTHER -> z
  BY ONLY <1>2, <1>3, Zenon
<1>5. /\ c = Apostrophe => ShellStep(st, c) = a
      /\ c = Backslash => ShellStep(st, c) = b
      /\ c = Space => ShellStep(st, c) = p
      /\ c \in Plain => ShellStep(st, c) = q
      /\ c \notin {Apostrophe, Backslash, Space} \cup Plain => ShellStep(st, c) = z
  BY ONLY <1>4, ShellMarks
<1> QED
  BY ONLY <1>3, <1>5, Zenon

\* One character keeps the reading of its type.
LEMMA ShellStepType ==
    ASSUME NEW st \in States, NEW c \in Byte
    PROVE  ShellStep(st, c) \in States
<1>1. /\ st.words \in Seq(Texts) /\ st.word \in Texts /\ st.open \in BOOLEAN
      /\ st.mode \in Modes /\ st.literal \in BOOLEAN
  BY DEF States
<1>2. Append(st.word, c) \in Texts /\ Append(st.words, st.word) \in Seq(Texts) /\ <<>> \in Texts
  BY <1>1, AppendProperties, EmptySeq DEF Texts
<1>3. Put(st, c) \in States /\ [Put(st, c) EXCEPT !.mode = "bare"] \in States
  BY <1>1, <1>2 DEF Put, States, Modes
<1>4. Finish(st) \in States
  BY <1>1, <1>2 DEF Finish, States
<1>5. /\ [st EXCEPT !.mode = "bare"] \in States
      /\ [st EXCEPT !.mode = "quoted", !.open = TRUE] \in States
      /\ [st EXCEPT !.mode = "escaped"] \in States /\ [st EXCEPT !.literal = FALSE] \in States
  BY <1>1 DEF States, Modes
<1>6. CASE st.mode = "quoted"
  BY <1>3, <1>5, <1>6 DEF ShellStep
<1>7. CASE st.mode = "escaped"
  BY <1>3, <1>7 DEF ShellStep
<1>8. CASE st.mode = "bare"
  <2>1. /\ c = Apostrophe => ShellStep(st, c) \in States
        /\ c = Backslash => ShellStep(st, c) \in States
        /\ c = Space => ShellStep(st, c) \in States
        /\ c \in Plain => ShellStep(st, c) \in States
        /\ c \notin {Apostrophe, Backslash, Space} \cup Plain => ShellStep(st, c) \in States
    BY <1>3, <1>4, <1>5, <1>8, BareStep, Zenon
  <2> QED
    BY <2>1
<1> QED
  BY <1>1, <1>6, <1>7, <1>8 DEF Modes

\* The reading of a line, character by character.
Steps(f, line) == f[0] = NothingRead /\ \A i \in 1..Len(line) : f[i] = ShellStep(f[i - 1], line[i])
Read(line) ==
    LET read[i \in 0..Len(line)] == IF i = 0 THEN NothingRead ELSE ShellStep(read[i - 1], line[i])
    IN  read[Len(line)]

LEMMA ReadIs ==
    ASSUME NEW line \in Texts
    PROVE  \E f \in [0..Len(line) -> States] : Steps(f, line) /\ Read(line) = f[Len(line)]
<1> DEFINE N == Len(line)
           step == [x \in States \X (1..N) |-> ShellStep(x[1], line[x[2]])]
           Def(w) == w = [i \in 0..N |-> IF i = 0 THEN NothingRead
                                         ELSE ShellStep(w[i - 1], line[i])]
           read == CHOOSE w : Def(w)
<1>1. N \in Nat /\ \A i \in 1..N : line[i] \in Byte
  BY BytesOf
<1>2. NothingRead \in States
  BY EmptySeq DEF NothingRead, States, Modes, Texts
<1>3. Read(line) = read[N]
  BY DEF Read
<1> HIDE DEF N
<1>4. \A v \in States, i \in 1..N : /\ step[<<v, i>>] = ShellStep(v, line[i])
                                    /\ step[<<v, i>>] \in States
  BY <1>1, ShellStepType
<1> HIDE DEF step
<1>5. PICK g \in [0..N -> States] : Follows(g, NothingRead, N, step)
  BY <1>1, <1>2, <1>4, Recursion
<1>6. g[0] = NothingRead /\ \A i \in 1..N : g[i] = ShellStep(g[i - 1], line[i])
  <2>1. \A i \in 1..N : i - 1 \in 0..N
    BY <1>1
  <2> QED
    BY <1>4, <1>5, <2>1 DEF Follows
<1>7. Def(g)
  <2>1. \A i \in 0..N : i = 0 \/ (i # 0 /\ i \in 1..N)
    BY <1>1
  <2>2. \A i \in 0..N : g[i] = IF i = 0 THEN NothingRead ELSE ShellStep(g[i - 1], line[i])
    BY <1>6, <2>1, Zenon
  <2> QED
    BY <2>2
<1> HIDE DEF Def
<1>8. Def(read)
  BY <1>7
<1> HIDE DEF read
<1>9. read[0] = NothingRead /\ \A i \in 1..N : read[i] = ShellStep(read[i - 1], line[i])
  <2>1. 0 \in 0..N /\ \A i \in 1..N : i \in 0..N /\ i # 0
    BY <1>1
  <2>2. read = [i \in 0..N |-> IF i = 0 THEN NothingRead ELSE ShellStep(read[i - 1], line[i])]
    BY <1>8, Zenon DEF Def
  <2>3. \A i \in 0..N : read[i] = IF i = 0 THEN NothingRead ELSE ShellStep(read[i - 1], line[i])
    BY <2>2, Zenon
  <2> QED
    BY <2>1, <2>3, Zenon
<1> DEFINE Same == {n \in Nat : n <= N => read[n] = g[n]}
<1>10. 0 \in Same
  BY <1>6, <1>9
<1>11. ASSUME NEW n \in Nat, n \in Same PROVE n + 1 \in Same
  <2> SUFFICES ASSUME n + 1 <= N PROVE read[n + 1] = g[n + 1]
    OBVIOUS
  <2>1. n + 1 \in 1..N /\ (n + 1) - 1 = n /\ read[n] = g[n]
    BY <1>1, <1>11
  <2>2. /\ read[n + 1] = ShellStep(read[(n + 1) - 1], line[n + 1])
        /\ g[n + 1] = ShellStep(g[(n + 1) - 1], line[n + 1])
    BY <1>6, <1>9, <2>1, Zenon
  <2> QED
    BY <2>1, <2>2, Zenon
<1>12. \A n \in Nat : n \in Same
  <2> HIDE DEF Same
  <2> QED
    BY <1>10, <1>11, Counting
<1>13. Read(line) = g[N]
  BY <1>1, <1>3, <1>12
<1>14. Steps(g, line)
  BY <1>6 DEF Steps, N
<1> QED
  BY <1>5, <1>13, <1>14 DEF N

\* One more character is one more step.
LEMMA ReadAppend ==
    ASSUME NEW s \in Texts, NEW c \in Byte
    PROVE  Read(Append(s, c)) = ShellStep(Read(s), c)
<1>1. PICK u : u = Append(s, c)
  OBVIOUS
<1>2. PICK N \in Nat : /\ N = Len(s) /\ u \in Texts /\ Len(u) = N + 1 /\ u[N + 1] = c
                       /\ \A i \in 1..N : u[i] = s[i]
  BY <1>1, AppendProperties, LenProperties DEF Texts
<1>3. PICK f : Steps(f, s) /\ Read(s) = f[N]
  BY <1>2, ReadIs
<1>4. PICK g : Steps(g, u) /\ Read(u) = g[N + 1]
  BY <1>2, ReadIs
<1>a. /\ f[0] = NothingRead /\ \A i \in 1..N : f[i] = ShellStep(f[i - 1], s[i])
      /\ g[0] = NothingRead /\ \A i \in 1..(N + 1) : g[i] = ShellStep(g[i - 1], u[i])
  BY <1>2, <1>3, <1>4 DEF Steps
<1> DEFINE T == {n \in Nat : n <= N => f[n] = g[n]}
<1>5. 0 \in T
  BY <1>a
<1>6. ASSUME NEW n \in Nat, n \in T PROVE n + 1 \in T
  <2> SUFFICES ASSUME n + 1 <= N PROVE f[n + 1] = g[n + 1]
    OBVIOUS
  <2>1. /\ n + 1 \in 1..N /\ n + 1 \in 1..(N + 1) /\ (n + 1) - 1 = n
        /\ f[n] = g[n] /\ u[n + 1] = s[n + 1]
    BY <1>2, <1>6
  <2>2. /\ f[n + 1] = ShellStep(f[(n + 1) - 1], s[n + 1])
        /\ g[n + 1] = ShellStep(g[(n + 1) - 1], u[n + 1])
    BY <1>a, <2>1, Zenon
  <2> QED
    BY <2>1, <2>2, Zenon
<1>7. \A n \in Nat : n \in T
  <2> HIDE DEF T
  <2> QED
    BY <1>5, <1>6, Counting
<1>8. f[N] = g[N]
  BY <1>7
<1>9. N + 1 \in 1..(N + 1) /\ (N + 1) - 1 = N
  OBVIOUS
<1>10. g[N + 1] = ShellStep(g[N], c)
  BY <1>2, <1>9, <1>a
<1> QED
  BY <1>1, <1>3, <1>4, <1>8, <1>10, Zenon

LEMMA ReadEmpty == Read(<<>>) = Between(<<>>)
<1>1. <<>> \in Texts /\ Len(<<>>) = 0
  BY EmptySeq DEF Texts
<1>2. PICK f : Steps(f, <<>>) /\ Read(<<>>) = f[0]
  BY <1>1, ReadIs
<1> QED
  BY <1>2 DEF Steps, NothingRead, Between

\* The set of one reading.
Sole(words, word, opens, mode) ==
    [words : {words}, word : {word}, open : opens, mode : {mode}, literal : {TRUE}]

LEMMA ReadingIs ==
    ASSUME NEW words
    PROVE  /\ \A st : st = Between(words) <=> st \in Sole(words, <<>>, {FALSE}, "bare")
           /\ \A word, mode : \A st : st = Within(words, word, mode)
                                        <=> st \in Sole(words, word, {TRUE}, mode)
<1>1. Between(words) \in Sole(words, <<>>, {FALSE}, "bare")
  BY DEF Between, Sole
<1>2. ASSUME NEW st \in Sole(words, <<>>, {FALSE}, "bare") PROVE st = Between(words)
  BY DEF Between, Sole
<1>3. ASSUME NEW word, NEW mode PROVE Within(words, word, mode) \in Sole(words, word, {TRUE}, mode)
  BY DEF Within, Sole
<1>4. ASSUME NEW word, NEW mode, NEW st \in Sole(words, word, {TRUE}, mode)
      PROVE  st = Within(words, word, mode)
  BY DEF Within, Sole
<1> QED
  BY <1>1, <1>2, <1>3, <1>4, Zenon

\* Outside a word.
LEMMA BetweenReads ==
    ASSUME NEW words, NEW c
    PROVE  /\ c = Apostrophe => ShellStep(Between(words), c) = Within(words, <<>>, "quoted")
           /\ c \in Plain => ShellStep(Between(words), c) = Within(words, Append(<<>>, c), "bare")
<1>1. PICK st : st = Between(words)
  OBVIOUS
<1>2. st \in Sole(words, <<>>, {FALSE}, "bare")
  BY ONLY <1>1, ReadingIs
<1>3. st.mode = "bare" /\ st.word = <<>>
  BY ONLY <1>2 DEF Sole
<1>4. PICK z : z = Append(<<>>, c)
  OBVIOUS
<1>5. Put(st, c) = [st EXCEPT !.word = z, !.open = TRUE]
  BY ONLY <1>3, <1>4, Zenon DEF Put
<1>6. /\ [st EXCEPT !.word = z, !.open = TRUE]
            \in Sole(words, z, {TRUE}, "bare")
      /\ [st EXCEPT !.mode = "quoted", !.open = TRUE]
            \in Sole(words, <<>>, {TRUE}, "quoted")
  BY ONLY <1>2 DEF Sole
<1>7. /\ [st EXCEPT !.word = z, !.open = TRUE] = Within(words, z, "bare")
      /\ [st EXCEPT !.mode = "quoted", !.open = TRUE] = Within(words, <<>>, "quoted")
  BY ONLY <1>6, ReadingIs, Zenon
<1>8. /\ c = Apostrophe => ShellStep(st, c) = [st EXCEPT !.mode = "quoted", !.open = TRUE]
      /\ c \in Plain => ShellStep(st, c) = Put(st, c)
  BY ONLY <1>3, BareStep, Zenon
<1>9. /\ c = Apostrophe => ShellStep(st, c) = Within(words, <<>>, "quoted")
      /\ c \in Plain => ShellStep(st, c) = Within(words, z, "bare")
  BY ONLY <1>5, <1>7, <1>8, Zenon
<1> QED
  BY ONLY <1>1, <1>4, <1>9, Zenon

\* In a word, in quotes and after a backslash.
LEMMA WithinReads ==
    ASSUME NEW words, NEW word, NEW c
    PROVE  /\ c = Apostrophe => ShellStep(Within(words, word, "bare"), c) = Within(words, word, "quoted")
           /\ c = Backslash => ShellStep(Within(words, word, "bare"), c) = Within(words, word, "escaped")
           /\ c = Space => ShellStep(Within(words, word, "bare"), c) = Between(Append(words, word))
           /\ c \in Plain
                => ShellStep(Within(words, word, "bare"), c) = Within(words, Append(word, c), "bare")
           /\ c = Apostrophe => ShellStep(Within(words, word, "quoted"), c) = Within(words, word, "bare")
           /\ c # Apostrophe
                => ShellStep(Within(words, word, "quoted"), c) = Within(words, Append(word, c), "quoted")
           /\ ShellStep(Within(words, word, "escaped"), c) = Within(words, Append(word, c), "bare")
           /\ Finish(Within(words, word, "bare")) = Between(Append(words, word))
<1>1. PICK bare, quoted, escaped : /\ bare = Within(words, word, "bare")
                                   /\ quoted = Within(words, word, "quoted")
                                   /\ escaped = Within(words, word, "escaped")
  OBVIOUS
<1>2. /\ bare \in Sole(words, word, {TRUE}, "bare")
      /\ quoted \in Sole(words, word, {TRUE}, "quoted")
      /\ escaped \in Sole(words, word, {TRUE}, "escaped")
  BY ONLY <1>1, ReadingIs
<1>3. PICK z, all : z = Append(word, c) /\ all = Append(words, word)
  OBVIOUS
<1>4. /\ bare.words = words /\ bare.word = word /\ bare.open = TRUE /\ bare.mode = "bare"
      /\ quoted.word = word /\ quoted.mode = "quoted"
      /\ escaped.word = word /\ escaped.mode = "escaped" /\ escaped.mode # "quoted"
  BY ONLY <1>2 DEF Sole
<1>5. /\ Put(bare, c) = [bare EXCEPT !.word = z, !.open = TRUE]
      /\ Put(quoted, c) = [quoted EXCEPT !.word = z, !.open = TRUE]
      /\ Put(escaped, c) = [escaped EXCEPT !.word = z, !.open = TRUE]
  BY ONLY <1>3, <1>4, Zenon DEF Put
<1>6. Finish(bare) = [bare EXCEPT !.words = all, !.word = <<>>, !.open = FALSE]
  BY ONLY <1>3, <1>4, Zenon DEF Finish
<1>7. PICK put : put = [escaped EXCEPT !.word = z, !.open = TRUE]
  OBVIOUS
<1>8. /\ [bare EXCEPT !.word = z, !.open = TRUE]
            \in Sole(words, z, {TRUE}, "bare")
      /\ [quoted EXCEPT !.word = z, !.open = TRUE]
            \in Sole(words, z, {TRUE}, "quoted")
      /\ put \in Sole(words, z, {TRUE}, "escaped")
      /\ [bare EXCEPT !.words = all, !.word = <<>>, !.open = FALSE]
            \in Sole(all, <<>>, {FALSE}, "bare")
      /\ [bare EXCEPT !.mode = "quoted", !.open = TRUE]
            \in Sole(words, word, {TRUE}, "quoted")
      /\ [bare EXCEPT !.mode = "escaped"]
            \in Sole(words, word, {TRUE}, "escaped")
      /\ [quoted EXCEPT !.mode = "bare"]
            \in Sole(words, word, {TRUE}, "bare")
  BY ONLY <1>2, <1>7 DEF Sole
<1>9. [put EXCEPT !.mode = "bare"]
        \in Sole(words, z, {TRUE}, "bare")
  BY ONLY <1>8 DEF Sole
<1>10. /\ [bare EXCEPT !.word = z, !.open = TRUE] = Within(words, z, "bare")
       /\ [quoted EXCEPT !.word = z, !.open = TRUE] = Within(words, z, "quoted")
       /\ [bare EXCEPT !.words = all, !.word = <<>>, !.open = FALSE] = Between(all)
       /\ [bare EXCEPT !.mode = "quoted", !.open = TRUE] = Within(words, word, "quoted")
       /\ [bare EXCEPT !.mode = "escaped"] = Within(words, word, "escaped")
       /\ [quoted EXCEPT !.mode = "bare"] = Within(words, word, "bare")
       /\ [put EXCEPT !.mode = "bare"] = Within(words, z, "bare")
  BY ONLY <1>8, <1>9, ReadingIs, Zenon
<1>11. /\ c = Apostrophe => ShellStep(bare, c) = [bare EXCEPT !.mode = "quoted", !.open = TRUE]
       /\ c = Backslash => ShellStep(bare, c) = [bare EXCEPT !.mode = "escaped"]
       /\ c = Space => ShellStep(bare, c) = Finish(bare)
       /\ c \in Plain => ShellStep(bare, c) = Put(bare, c)
  <2>1. bare.mode = "bare"
    BY <1>4
  <2> QED
    BY ONLY <2>1, BareStep
<1>12. ShellStep(quoted, c) = IF c = Apostrophe THEN [quoted EXCEPT !.mode = "bare"] ELSE Put(quoted, c)
  BY ONLY <1>4, Zenon DEF ShellStep
<1>13. ShellStep(escaped, c) = [put EXCEPT !.mode = "bare"]
  BY ONLY <1>4, <1>5, <1>7, Zenon DEF ShellStep
<1>14. /\ c = Apostrophe => ShellStep(bare, c) = Within(words, word, "quoted")
       /\ c = Backslash => ShellStep(bare, c) = Within(words, word, "escaped")
       /\ c = Space => ShellStep(bare, c) = Between(all)
       /\ c \in Plain => ShellStep(bare, c) = Within(words, z, "bare")
       /\ c = Apostrophe => ShellStep(quoted, c) = Within(words, word, "bare")
       /\ c # Apostrophe => ShellStep(quoted, c) = Within(words, z, "quoted")
       /\ ShellStep(escaped, c) = Within(words, z, "bare")
       /\ Finish(bare) = Between(all)
  BY ONLY <1>5, <1>6, <1>10, <1>11, <1>12, <1>13, Zenon
<1> QED
  BY ONLY <1>1, <1>3, <1>14, Zenon

\* A word of plain characters is added as it is.
LEMMA ReadPlain ==
    ASSUME NEW s \in Texts, NEW words, Read(s) = Between(words)
    PROVE  \A t \in Seq(Plain \cap Byte) :
              Read(s \o t) = IF t = <<>> THEN Between(words) ELSE Within(words, t, "bare")
<1> DEFINE Has(t) == IF t = <<>> THEN Between(words) ELSE Within(words, t, "bare")
           T == {t \in Seq(Plain \cap Byte) : Read(s \o t) = Has(t)}
<1>1. <<>> \in T
  <2>1. s \o <<>> = s /\ <<>> \in Seq(Plain \cap Byte)
    BY ConcatEmptySeq, EmptySeq DEF Texts
  <2>2. Has(<<>>) = Between(words)
    BY Zenon
  <2> QED
    BY <2>1, <2>2, Zenon
<1>2. ASSUME NEW t \in Seq(Plain \cap Byte), t \in T, NEW c \in Plain \cap Byte
      PROVE  Append(t, c) \in T
  <2>1. t \in Texts /\ c \in Byte /\ c \in Plain /\ s \o t \in Texts
    BY SeqMonotonic, ConcatProperties DEF Texts
  <2>2. s \o Append(t, c) = Append(s \o t, c)
    BY <2>1, ConcatAppend DEF Texts
  <2>3. Read(Append(s \o t, c)) = ShellStep(Read(s \o t), c)
    BY <2>1, ReadAppend
  <2>4. Read(s \o t) = Has(t)
    BY <1>2
  <2>5. ShellStep(Has(t), c) = Within(words, Append(t, c), "bare")
    <3>1. CASE t = <<>>
      <4>1. Has(t) = Between(words) /\ Append(t, c) = Append(<<>>, c)
        BY <3>1, Zenon
      <4>2. ShellStep(Between(words), c) = Within(words, Append(<<>>, c), "bare")
        BY <2>1, BetweenReads, Zenon
      <4> QED
        BY <4>1, <4>2, Zenon
    <3>2. CASE t # <<>>
      <4>1. Has(t) = Within(words, t, "bare")
        BY <3>2, Zenon
      <4>2. ShellStep(Within(words, t, "bare"), c) = Within(words, Append(t, c), "bare")
        BY ONLY <2>1, WithinReads, Zenon
      <4> QED
        BY <4>1, <4>2, Zenon
    <3> QED
      BY <3>1, <3>2, Zenon
  <2>6. Append(t, c) # <<>> /\ Append(t, c) \in Seq(Plain \cap Byte)
    BY AppendProperties
  <2>7. Has(Append(t, c)) = Within(words, Append(t, c), "bare")
    BY <2>6, Zenon
  <2> HIDE DEF Has
  <2>8. Read(s \o Append(t, c)) = Has(Append(t, c))
    BY ONLY <2>2, <2>3, <2>4, <2>5, <2>7, Zenon
  <2> QED
    BY <2>6, <2>8
<1> HIDE DEF T
<1>3. \A t \in Seq(Plain \cap Byte) : t \in T
  BY <1>1, <1>2, Extending
<1> QED
  BY <1>3 DEF T

\* And a space ends it.
LEMMA ReadArgument ==
    ASSUME NEW s \in Texts, NEW words, Read(s) = Between(words),
           NEW t \in Seq(Plain \cap Byte), t # <<>>
    PROVE  /\ s \o (t \o <<Space>>) \in Texts
           /\ Read(s \o (t \o <<Space>>)) = Between(Append(words, t))
<1>1. t \in Texts /\ s \o t \in Texts /\ Space \in Byte
  BY SeqMonotonic, ConcatProperties, ShellMarks DEF Texts
<1>2. t \o <<Space>> = Append(t, Space) /\ Append(t, Space) \in Texts
  BY <1>1, AppendIsConcat, AppendProperties DEF Texts
<1>3. s \o Append(t, Space) = Append(s \o t, Space) /\ s \o Append(t, Space) \in Texts
  BY <1>1, <1>2, ConcatAppend, ConcatProperties DEF Texts
<1>4. Read(s \o t) = Within(words, t, "bare")
  BY ReadPlain, Zenon
<1>5. Read(Append(s \o t, Space)) = ShellStep(Read(s \o t), Space)
  BY <1>1, ReadAppend
<1>6. ShellStep(Within(words, t, "bare"), Space) = Between(Append(words, t))
  BY WithinReads
<1>8. Read(Append(s \o t, Space)) = Between(Append(words, t))
  BY ONLY <1>4, <1>5, <1>6, Zenon
<1>9. s \o (t \o <<Space>>) = Append(s \o t, Space)
  BY ONLY <1>2, <1>3, Zenon
<1>10. Append(s \o t, Space) \in Texts
  BY ONLY <1>3, Zenon
<1>11. Read(s \o (t \o <<Space>>)) = Between(Append(words, t))
  BY ONLY <1>8, <1>9, Zenon
<1>12. s \o (t \o <<Space>>) \in Texts
  BY ONLY <1>9, <1>10, Zenon
<1> QED
  BY <1>11, <1>12

-----------------------------------------------------------------------------
QuotedOf == [c \in Byte |-> Quoted(c)]

\* One character in quotes, as shellQuote writes it.
LEMMA ReadsQuoted ==
    ASSUME NEW u \in Texts, NEW words, NEW p \in Texts, NEW c \in Byte,
           Read(u) = Within(words, p, "quoted")
    PROVE  /\ Quoted(c) \in Texts
           /\ Read(u \o Quoted(c)) = Within(words, Append(p, c), "quoted")
<1>1. Apostrophe \in Byte /\ Backslash \in Byte
  BY ShellMarks
<1>2. CASE c # Apostrophe
  <2>1. Quoted(c) = <<c>> /\ u \o <<c>> = Append(u, c)
    BY <1>2, AppendIsConcat DEF Quoted, Texts
  <2>2. Read(Append(u, c)) = ShellStep(Read(u), c)
    BY ReadAppend
  <2>3. ShellStep(Within(words, p, "quoted"), c) = Within(words, Append(p, c), "quoted")
    BY <1>2, WithinReads, Zenon
  <2>4. <<c>> \in Texts
    BY DEF Texts
  <2> QED
    BY <2>1, <2>2, <2>3, <2>4, Zenon
<1>3. CASE c = Apostrophe
  <2>1. Quoted(c) = <<Apostrophe, Backslash, Apostrophe, Apostrophe>>
    BY <1>3 DEF Quoted
  <2>2. PICK a \in Byte, b \in Byte : a = Apostrophe /\ b = Backslash
    BY <1>1
  <2>3. PICK u1 : u1 = Append(u, a)
    OBVIOUS
  <2>4. PICK u2 : u2 = Append(u1, b)
    OBVIOUS
  <2>5. PICK u3 : u3 = Append(u2, a)
    OBVIOUS
  <2>6. PICK u4 : u4 = Append(u3, a)
    OBVIOUS
  <2>7. u1 \in Texts /\ u2 \in Texts /\ u3 \in Texts /\ <<a, b, a, a>> \in Texts
    BY <2>3, <2>4, <2>5, AppendProperties DEF Texts
  <2>8. u4 = u \o <<a, b, a, a>>
    BY <2>3, <2>4, <2>5, <2>6 DEF Texts
  <2>9. /\ Read(u1) = ShellStep(Read(u), a) /\ Read(u2) = ShellStep(Read(u1), b)
        /\ Read(u3) = ShellStep(Read(u2), a) /\ Read(u4) = ShellStep(Read(u3), a)
    BY <2>3, <2>4, <2>5, <2>6, <2>7, ReadAppend
  <2>10. /\ ShellStep(Within(words, p, "quoted"), a) = Within(words, p, "bare")
         /\ ShellStep(Within(words, p, "bare"), b) = Within(words, p, "escaped")
         /\ ShellStep(Within(words, p, "escaped"), a) = Within(words, Append(p, a), "bare")
         /\ ShellStep(Within(words, Append(p, a), "bare"), a) = Within(words, Append(p, a), "quoted")
    BY ONLY <2>2, WithinReads
  <2>13. Read(u4) = Within(words, Append(p, a), "quoted")
    BY <2>9, <2>10, Zenon
  <2> QED
    BY ONLY <1>3, <2>1, <2>2, <2>7, <2>8, <2>13, Zenon
<1> QED
  BY <1>2, <1>3

LEMMA FlattenEmpty == FlattenSeq(<<>>) = <<>>
<1>1. Len(<<>>) = 0
  BY EmptySeq
<1> QED
  BY <1>1 DEF FlattenSeq

\* What shellQuote writes between its quotes.
LEMMA ReadQuotation ==
    ASSUME NEW u \in Texts, NEW words, Read(u) = Within(words, <<>>, "quoted")
    PROVE  \A p \in Texts : /\ FlattenSeq(Mapped(QuotedOf, p)) \in Texts
                            /\ Read(u \o FlattenSeq(Mapped(QuotedOf, p))) = Within(words, p, "quoted")
<1> DEFINE Q(p) == FlattenSeq(Mapped(QuotedOf, p))
           T == {p \in Texts : Q(p) \in Texts /\ Read(u \o Q(p)) = Within(words, p, "quoted")}
<1>1. \A c \in Byte : QuotedOf[c] = Quoted(c) /\ Quoted(c) \in Texts
  <2>1. \A c \in Byte : Quoted(c) \in Texts
    BY ShellMarks DEF Quoted, Texts
  <2> QED
    BY <2>1 DEF QuotedOf
<1>2. <<>> \in T
  <2>1. <<>> \in Texts /\ Mapped(QuotedOf, <<>>) = <<>> /\ FlattenSeq(<<>>) = <<>>
    BY EmptySeq, MappedEmpty, FlattenEmpty DEF Texts
  <2>2. Q(<<>>) = <<>>
    BY <2>1
  <2>3. u \o <<>> = u
    BY ConcatEmptySeq DEF Texts
  <2> QED
    BY <2>1, <2>2, <2>3, Zenon
<1>3. ASSUME NEW p \in Texts, p \in T, NEW c \in Byte PROVE Append(p, c) \in T
  <2>1. PICK m \in Seq(Texts) : m = Mapped(QuotedOf, p)
    <3>1. Mapped(QuotedOf, p) \in Seq(Texts)
      BY <1>1, MappedType DEF Texts
    <3> QED
      BY <3>1
  <2>2. PICK x \in Texts : x = Quoted(c)
    BY <1>1
  <2>3. Mapped(QuotedOf, Append(p, c)) = Append(m, x)
    <3>1. Mapped(QuotedOf, Append(p, c)) = Append(Mapped(QuotedOf, p), QuotedOf[c])
      BY MappedAppend DEF Texts
    <3>2. QuotedOf[c] = x
      BY <1>1, <2>2
    <3> QED
      BY <2>1, <3>1, <3>2, Zenon
  <2>4. FlattenSeq(Append(m, x)) = FlattenSeq(m) \o x
    BY FlattenAppend DEF Texts
  <2>5. PICK q : q = FlattenSeq(m)
    OBVIOUS
  <2>6. q \in Texts /\ Read(u \o q) = Within(words, p, "quoted")
    BY <1>3, <2>1, <2>5
  <2>7. u \o q \in Texts /\ q \o x \in Texts /\ (u \o q) \o x = u \o (q \o x) /\ Append(p, c) \in Texts
    BY <2>6, ConcatProperties, ConcatAssociative, AppendProperties DEF Texts
  <2>8. Read((u \o q) \o x) = Within(words, Append(p, c), "quoted")
    <3>1. PICK v \in Texts : v = u \o q
      BY <2>7
    <3>2. Read(v) = Within(words, p, "quoted")
      BY <2>6, <3>1, Zenon
    <3>3. Read(v \o Quoted(c)) = Within(words, Append(p, c), "quoted")
      BY <1>3, <3>1, <3>2, ReadsQuoted
    <3> QED
      BY <2>2, <3>1, <3>3, Zenon
  <2>9. Q(Append(p, c)) = q \o x
    BY <2>3, <2>4, <2>5, Zenon
  <2> HIDE DEF Q
  <2>10. Q(Append(p, c)) \in Texts /\ Read(u \o Q(Append(p, c))) = Within(words, Append(p, c), "quoted")
    BY <2>7, <2>8, <2>9, Zenon
  <2> QED
    BY <2>7, <2>10
<1> HIDE DEF T
<1>4. \A p \in Texts : p \in T
  BY <1>2, <1>3, Extending DEF Texts
<1> QED
  BY <1>4 DEF T

\* The words of a line.
LEMMA WordsAre ==
    ASSUME NEW line
    PROVE  ShellWords(line) = [words |-> Finish(Read(line)).words,
                               literal |-> Read(line).literal /\ Read(line).mode = "bare"]
  BY Zenon DEF ShellWords, Read

\* A quoted argument is one word of the shell's, whatever its characters.
LEMMA ReadQuoted ==
    ASSUME NEW s \in Texts, NEW words, Read(s) = Between(words), NEW p \in Texts
    PROVE  ShellWords(s \o ShellQuote(p)) = [words |-> Append(words, p), literal |-> TRUE]
<1>1. Apostrophe \in Byte
  BY ShellMarks
<1>2. PICK a \in Byte : a = Apostrophe
  BY <1>1
<1>3. PICK q : q = FlattenSeq(Mapped(QuotedOf, p))
  OBVIOUS
<1>4. ShellQuote(p) = (<<a>> \o q) \o <<a>>
  <2>1. [i \in DOMAIN p |-> Quoted(p[i])] = Mapped(QuotedOf, p)
    <3>1. \A i \in DOMAIN p : p[i] \in Byte
      BY DEF Texts
    <3> QED
      BY <3>1 DEF Mapped, QuotedOf
  <2> QED
    BY <1>2, <1>3, <2>1 DEF ShellQuote
<1>5. PICK u : u = Append(s, a)
  OBVIOUS
<1>6. u \in Texts /\ u = s \o <<a>> /\ <<a>> \in Texts
  BY <1>5, AppendProperties, AppendIsConcat DEF Texts
<1>7. Read(u) = Within(words, <<>>, "quoted")
  <2>1. Read(u) = ShellStep(Read(s), a)
    BY <1>5, ReadAppend
  <2>2. ShellStep(Between(words), a) = Within(words, <<>>, "quoted")
    BY <1>2, BetweenReads
  <2> QED
    BY <2>1, <2>2, Zenon
<1>8. q \in Texts /\ Read(u \o q) = Within(words, p, "quoted")
  BY <1>3, <1>6, <1>7, ReadQuotation
<1>9. PICK v : v = u \o q
  OBVIOUS
<1>10. v \in Texts
  BY <1>6, <1>8, <1>9, ConcatProperties DEF Texts
<1>11. s \o ((<<a>> \o q) \o <<a>>) = Append(v, a)
  <2>1. PICK z : z = <<a>>
    OBVIOUS
  <2>2. z \in Texts /\ z \o q \in Texts
    BY <1>6, <1>8, <2>1, ConcatProperties DEF Texts
  <2>3. s \o ((z \o q) \o z) = (s \o (z \o q)) \o z
    BY <2>2, ConcatAssociative DEF Texts
  <2>4. s \o (z \o q) = (s \o z) \o q
    BY <1>8, <2>2, ConcatAssociative DEF Texts
  <2>5. Append(v, a) = v \o <<a>>
    BY <1>10, AppendIsConcat DEF Texts
  <2> QED
    BY <1>6, <1>9, <2>1, <2>3, <2>4, <2>5, Zenon
<1>12. Read(Append(v, a)) = Within(words, p, "bare")
  <2>1. Read(Append(v, a)) = ShellStep(Read(v), a)
    BY <1>10, ReadAppend
  <2>2. ShellStep(Within(words, p, "quoted"), a) = Within(words, p, "bare")
    BY <1>2, WithinReads
  <2> QED
    BY <1>8, <1>9, <2>1, <2>2, Zenon
<1>13. PICK w : w = s \o ShellQuote(p)
  OBVIOUS
<1>14. Read(w) = Within(words, p, "bare")
  BY <1>4, <1>11, <1>12, <1>13, Zenon
<1>15. PICK st : st = Within(words, p, "bare")
  OBVIOUS
<1>16. st.literal = TRUE /\ st.mode = "bare"
  BY <1>15 DEF Within
<1>17. Finish(st).words = Append(words, p)
  <2>1. Finish(st) = Between(Append(words, p))
    BY <1>15, WithinReads
  <2>2. Between(Append(words, p)).words = Append(words, p)
    BY DEF Between
  <2> QED
    BY <2>1, <2>2, Zenon
<1>18. ShellWords(w) = [words |-> Finish(st).words, literal |-> st.literal /\ st.mode = "bare"]
  BY <1>14, <1>15, WordsAre, Zenon
<1>19. ShellWords(w) = [words |-> Append(words, p), literal |-> TRUE]
  BY ONLY <1>16, <1>17, <1>18
<1> QED
  BY <1>13, <1>19, Zenon

LEMMA Triple ==
    ASSUME NEW a, NEW b, NEW p
    PROVE  Append(Append(<<>>, a), b) = <<a, b>> /\ Append(<<a, b>>, p) = <<a, b, p>>
<1> DEFINE R == {a, b, p}
<1>1. a \in R /\ b \in R /\ p \in R
  OBVIOUS
<1> HIDE DEF R
<1>2. <<>> \in Seq(R) /\ <<a>> \in Seq(R) /\ <<a, b>> \in Seq(R) /\ <<a, b, p>> \in Seq(R)
  BY <1>1
<1>3. Append(<<>>, a) = <<a>>
  BY <1>1, <1>2
<1>4. Append(<<a>>, b) = <<a, b>>
  <2>1. PICK u, v : u = Append(<<a>>, b) /\ v = <<a, b>>
    OBVIOUS
  <2>2. u \in Seq(R) /\ Len(u) = 2 /\ u[1] = a /\ u[2] = b
    BY <1>1, <1>2, <2>1, AppendProperties
  <2>3. v \in Seq(R) /\ Len(v) = 2 /\ v[1] = a /\ v[2] = b
    BY <1>2, <2>1
  <2>4. \A i \in 1..2 : i = 1 \/ i = 2
    OBVIOUS
  <2>5. \A i \in 1..Len(u) : u[i] = v[i]
    BY <2>2, <2>3, <2>4, Zenon
  <2>6. Len(u) = Len(v)
    BY <2>2, <2>3
  <2>7. u = v
    BY ONLY <2>2, <2>3, <2>5, <2>6, SeqEqual
  <2> QED
    BY <2>1, <2>7, Zenon
<1>5. Append(<<a, b>>, p) = <<a, b, p>>
  <2>1. PICK u, v : u = Append(<<a, b>>, p) /\ v = <<a, b, p>>
    OBVIOUS
  <2>2. u \in Seq(R) /\ Len(u) = 3 /\ u[1] = a /\ u[2] = b /\ u[3] = p
    BY <1>1, <1>2, <2>1, AppendProperties
  <2>3. v \in Seq(R) /\ Len(v) = 3 /\ v[1] = a /\ v[2] = b /\ v[3] = p
    BY <1>2, <2>1
  <2>4. \A i \in 1..3 : i = 1 \/ i = 2 \/ i = 3
    OBVIOUS
  <2>5. \A i \in 1..Len(u) : u[i] = v[i]
    BY <2>2, <2>3, <2>4, Zenon
  <2>6. Len(u) = Len(v)
    BY <2>2, <2>3
  <2>7. u = v
    BY ONLY <2>2, <2>3, <2>5, <2>6, SeqEqual
  <2> QED
    BY <2>1, <2>7, Zenon
<1> QED
  BY <1>3, <1>4, <1>5, Zenon

\* The command of a removal is its two words and the path, as one word.
LEMMA CommandReads ==
    ASSUME NEW a \in Seq(Plain \cap Byte), a # <<>>, NEW b \in Seq(Plain \cap Byte), b # <<>>,
           NEW p \in Texts
    PROVE  ShellWords(Command(<<a, b>>, p)) = [words |-> <<a, b, p>>, literal |-> TRUE]
<1>1. PICK x, y : x = a \o <<Space>> /\ y = b \o <<Space>>
  OBVIOUS
<1>2. x \in Texts /\ y \in Texts
  <2>1. a \in Texts /\ b \in Texts /\ <<Space>> \in Texts
    BY SeqMonotonic, ShellMarks DEF Texts
  <2> QED
    BY <1>1, <2>1, ConcatProperties DEF Texts
<1>3. [i \in DOMAIN <<a, b>> |-> <<a, b>>[i] \o <<Space>>] = <<x, y>>
  <2>1. PICK w : w = [i \in DOMAIN <<a, b>> |-> <<a, b>>[i] \o <<Space>>]
    OBVIOUS
  <2>2. w = [i \in 1..2 |-> <<a, b>>[i] \o <<Space>>]
    BY <2>1
  <2>3. w[1] = x /\ w[2] = y /\ w = [i \in 1..2 |-> w[i]]
    BY <1>1, <2>2
  <2> QED
    BY <2>1, <2>3
<1>4. FlattenSeq(<<x, y>>) = (<<>> \o x) \o y
  <2>1. PICK xs : xs = Append(<<>>, x)
    OBVIOUS
  <2>2. <<>> \in Seq(Texts) /\ xs \in Seq(Texts) /\ <<x, y>> = Append(xs, y)
    BY <1>2, <2>1
  <2>3. FlattenSeq(xs) = FlattenSeq(<<>>) \o x /\ FlattenSeq(Append(xs, y)) = FlattenSeq(xs) \o y
    BY <1>2, <2>1, <2>2, FlattenAppend DEF Texts
  <2> QED
    BY <2>2, <2>3, FlattenEmpty, Zenon
<1>5. PICK s : s = (<<>> \o x) \o y
  OBVIOUS
<1>6. s \in Texts /\ Read(s) = Between(<<a, b>>)
  <2>1. PICK r : r = <<>> \o x
    OBVIOUS
  <2>2. <<>> \in Texts /\ Read(<<>>) = Between(<<>>)
    BY EmptySeq, ReadEmpty DEF Texts
  <2>3. r \in Texts /\ Read(r) = Between(Append(<<>>, a))
    BY <1>1, <2>1, <2>2, ReadArgument
  <2>4. s \in Texts /\ Read(s) = Between(Append(Append(<<>>, a), b))
    BY <1>1, <1>5, <2>1, <2>3, ReadArgument
  <2>5. Append(Append(<<>>, a), b) = <<a, b>>
    BY Triple
  <2> QED
    BY <2>4, <2>5
<1>7. Command(<<a, b>>, p) = s \o ShellQuote(p)
  BY <1>3, <1>4, <1>5, Zenon DEF Command
<1>8. ShellWords(s \o ShellQuote(p)) = [words |-> Append(<<a, b>>, p), literal |-> TRUE]
  BY <1>6, ReadQuoted
<1>9. Append(<<a, b>>, p) = <<a, b, p>>
  BY Triple
<1> QED
  BY <1>7, <1>8, <1>9, Zenon

\* The words of the two removals.
LEMMA RemovalReads ==
    ASSUME NEW p \in Texts
    PROVE  /\ ShellWords(Command(<<Rm, ForceFile>>, p)) = [words |-> <<Rm, ForceFile, p>>, literal |-> TRUE]
           /\ ShellWords(Command(<<Rm, ForceDir>>, p)) = [words |-> <<Rm, ForceDir, p>>, literal |-> TRUE]
<1>1. \A c \in {114, 109, 45, 102} : c \in Plain \cap Byte
  BY DEF Plain, Byte
<1>2. /\ Rm \in Seq(Plain \cap Byte) /\ ForceFile \in Seq(Plain \cap Byte)
      /\ ForceDir \in Seq(Plain \cap Byte)
  <2>1. /\ Rm \in Seq({114, 109, 45, 102}) /\ ForceFile \in Seq({114, 109, 45, 102})
        /\ ForceDir \in Seq({114, 109, 45, 102})
    BY DEF Rm, ForceFile, ForceDir
  <2> QED
    BY <1>1, <2>1, SeqMonotonic
<1>3. Rm # <<>> /\ ForceFile # <<>> /\ ForceDir # <<>>
  BY DEF Rm, ForceFile, ForceDir
<1> QED
  BY <1>2, <1>3, CommandReads

-----------------------------------------------------------------------------
(* Rows and what they were made from.                                      *)

\* What a call on a path of the panel's reaches.
Reached(w) == LET rp == ParseWfxPath(WideToUtf8(w)) IN [serial |-> rp.serial, path |-> rp.path]

\* A path below the list of devices, also after the conversion.
Inner(w) == /\ w \in Seq(Units) /\ w # <<>> /\ Last(w) # Slash
            /\ WideToUtf8(w) # <<>> /\ Last(WideToUtf8(w)) # Slash

\* The entries a panel may show at a place: devices, or files of the directory.
Spelt == {d \in Devices : LET name == DisplayNameForDevice(d)
                          IN  WellFormed(name) /\ ~Contains(name, Slash)}
DevicesAt == {e \in Entries : \E d \in Spelt : e.of = DeviceRoot(d) /\ e.name = DisplayNameForDevice(d)}
FilesAt(place) ==
    {e \in Entries : e.name \in Names
                     /\ e.of = [serial |-> place.serial, path |-> JoinWfxPath(place.path, e.name)]}
MadeAt(place) == IF place = Nowhere THEN DevicesAt ELSE FilesAt(place)

\* One character in front of, or behind, the slash is no half of a pair.
LEMMA SlashIsOne ==
    /\ <<Slash>> \in Seq(Units) /\ <<Slash>> \in Texts /\ Len(<<Slash>>) = 1 /\ <<Slash>>[1] = Slash
    /\ <<Slash>> # <<>> /\ Last(<<Slash>>) = Slash
    /\ ~High(Slash) /\ ~Low(Slash) /\ WideToUtf8(<<Slash>>) = <<Slash>>
<1>1. Slash = 47 /\ Slash \in Byte /\ Slash \in Units
  BY DEF Slash, Byte, Units
<1>2. <<Slash>> \in Seq(Units) /\ <<Slash>> \in Texts /\ Len(<<Slash>>) = 1 /\ <<Slash>>[1] = Slash
  BY <1>1 DEF Texts
<1>3. Last(<<Slash>>) = Slash /\ <<Slash>> # <<>>
  BY <1>2 DEF Last
<1>4. ~High(Slash) /\ ~Low(Slash)
  BY <1>1 DEF High, Low
<1>5. Scalar(Slash) /\ Slash <= 127
  BY <1>1, SMT DEF Scalar, Surrogate, MaxCodePoint, High, Low
<1>6. AppendWide(Slash) = <<Slash>>
  BY <1>5, WideUnits
<1>7. AppendUtf8(Slash) = <<Slash>>
  BY <1>1 DEF AppendUtf8
<1>8. WideToUtf8(AppendWide(Slash)) = AppendUtf8(Slash)
  BY <1>5, EncodesOne
<1> QED
  BY <1>2, <1>3, <1>4, <1>6, <1>7, <1>8

\* A path made of a directory's and a name, in UTF-8.
LEMMA PathNarrowed ==
    ASSUME NEW w \in Seq(Units), NEW units \in Seq(Units)
    PROVE  /\ WideToUtf8(<<Slash>> \o units) = <<Slash>> \o WideToUtf8(units)
           /\ WideToUtf8((w \o <<Slash>>) \o units) = (WideToUtf8(w) \o <<Slash>>) \o WideToUtf8(units)
<1>1. PICK z : z = <<Slash>>
  OBVIOUS
<1>2. z \in Seq(Units) /\ z # <<>> /\ z[1] = Slash /\ Last(z) = Slash /\ WideToUtf8(z) = z
  BY <1>1, SlashIsOne
<1>3. Apart(z, units) /\ Apart(w, z)
  BY <1>2, SlashIsOne DEF Apart
<1>4. w \o z \in Seq(Units) /\ Last(w \o z) = Slash
  <2>1. w \o z = Append(w, Slash) /\ Slash \in Units
    BY <1>1, AppendIsConcat, SlashIsOne DEF Slash, Units
  <2>2. Append(w, Slash) \in Seq(Units) /\ Len(Append(w, Slash)) = Len(w) + 1
        /\ Append(w, Slash)[Len(w) + 1] = Slash
    BY <2>1, AppendProperties
  <2> QED
    BY <2>1, <2>2 DEF Last
<1>5. Apart(w \o z, units)
  BY <1>4, SlashIsOne DEF Apart
<1>6. WideToUtf8(z \o units) = z \o WideToUtf8(units) /\ WideToUtf8(w \o z) = WideToUtf8(w) \o z
  BY <1>2, <1>3, WideToUtf8Concat
<1>7. WideToUtf8((w \o z) \o units) = WideToUtf8(w \o z) \o WideToUtf8(units)
  BY <1>4, <1>5, WideToUtf8Concat
<1> QED
  BY <1>1, <1>6, <1>7, Zenon

\* A list that ends with a name without a slash does not end with one.
LEMMA EndsAsName ==
    ASSUME NEW R, NEW s \in Seq(R), NEW t \in Seq(R), Slashless(t)
    PROVE  s \o t # <<>> /\ Last(s \o t) # Slash
<1>1. PICK w : w = s \o t
  OBVIOUS
<1>2. /\ w \in Seq(R) /\ Len(w) = Len(s) + Len(t) /\ Len(s) \in Nat /\ Len(t) \in Nat
      /\ \A i \in 1..(Len(s) + Len(t)) : w[i] = IF i <= Len(s) THEN s[i] ELSE t[i - Len(s)]
  BY <1>1, ConcatProperties, LenProperties
<1>3. PICK m \in Nat, n \in Nat : m = Len(s) /\ n = Len(t)
  BY <1>2
<1>4. t # <<>> /\ n # 0 /\ \A i \in 1..n : t[i] # Slash
  <2>1. t # <<>> /\ ~Contains(t, Slash)
    BY DEF Slashless
  <2>2. n # 0
    BY <1>3, <2>1, EmptySeq
  <2> QED
    BY <1>3, <2>1, <2>2 DEF Contains
<1>5. m + n \in 1..(m + n) /\ ~(m + n <= m) /\ (m + n) - m = n /\ n \in 1..n
  BY <1>4
<1>6. w[m + n] = t[n]
  BY <1>2, <1>3, <1>5
<1>7. Len(w) = m + n /\ w # <<>>
  BY <1>2, <1>3, <1>5, EmptySeq
<1> QED
  BY <1>1, <1>4, <1>5, <1>6, <1>7 DEF Last

\* A name is one as long as the panel is told of it.
LEMMA MadeNames ==
    ASSUME NEW place \in Places, NEW e \in MadeAt(place)
    PROVE  e.name \in Texts /\ Slashless(e.name)
<1>1. CASE place = Nowhere
  <2>1. PICK d \in Spelt : e.of = DeviceRoot(d) /\ e.name = DisplayNameForDevice(d)
    BY <1>1 DEF MadeAt, DevicesAt
  <2>2. d \in Devices /\ ~Contains(DisplayNameForDevice(d), Slash)
    BY DEF Spelt
  <2>3. DisplayNameForDevice(d) # <<>>
    <3>1. d.serial # <<>>
      BY <2>2 DEF Devices, Words
    <3>2. d.model \in Texts /\ d.serial \in Texts
      <4>1. d.model \in Words \cup {<<>>} /\ d.serial \in Words
        BY <2>2 DEF Devices
      <4>2. Words \subseteq Texts /\ <<>> \in Texts
        BY BareWords, EmptySeq DEF Texts
      <4> QED
        BY <4>1, <4>2
    <3>3. CASE d.model = <<>>
      BY <3>1, <3>3 DEF DisplayNameForDevice
    <3>4. CASE d.model # <<>>
      <4>1. PICK t : t = d.model \o <<Space, Open>> \o d.serial
        OBVIOUS
      <4>2. t \in Texts /\ <<Close>> \in Texts /\ <<Close>> # <<>>
        <5>1. <<Space, Open>> \in Texts /\ <<Close>> \in Texts /\ <<Close>> # <<>>
          BY DEF Texts, Byte, Space, Open, Close
        <5> QED
          BY <3>2, <4>1, <5>1, ConcatProperties DEF Texts
      <4>3. t \o <<Close>> # <<>>
        BY <4>2, NotEmpty DEF Texts
      <4>4. DisplayNameForDevice(d) = t \o <<Close>>
        BY <3>4, <4>1, Zenon DEF DisplayNameForDevice
      <4> QED
        BY <4>3, <4>4, Zenon
    <3> QED
      BY <3>3, <3>4
  <2> QED
    BY <2>1, <2>2, <2>3, DisplayNameType DEF Slashless
<1>2. CASE place # Nowhere
  <2>1. e.name \in Names
    BY <1>2 DEF MadeAt, FilesAt
  <2>2. e.name \in Texts /\ e.name # <<>> /\ \A i \in 1..Len(e.name) : e.name[i] # Slash
    BY <2>1, NamesAreTexts, ElementOfSeq DEF Names
  <2> QED
    BY <2>2 DEF Slashless, Contains
<1> QED
  BY <1>1, <1>2

\* A row of the list of devices.
LEMMA DeviceRow ==
    ASSUME NEW d \in Spelt, NEW r, r.of = DeviceRoot(d), cwd = Root,
           NEW v \in Texts, v = DisplayNameForDevice(d),
           WideToUtf8(PathOf(r)) = <<Slash>> \o v, Slashless(v)
    PROVE  Asked(r) = r.of
<1>1. PICK W : W = WideToUtf8(PathOf(r))
  OBVIOUS
<1>2. ParseRemotePath(W) = [isRoot |-> FALSE, serial |-> v, path |-> Root]
  BY <1>1, ParseTop, Zenon
<1>3. SerialFromDisplayName(v) = d.serial
  BY SerialBack DEF Spelt
<1>4. ParseWfxPath(W).serial = d.serial /\ ParseWfxPath(W).path = Root
  BY <1>2, <1>3 DEF ParseWfxPath
<1>5. Asked(r) = [serial |-> d.serial, path |-> Root]
  BY <1>1, <1>4, Zenon DEF Asked
<1> QED
  BY <1>5, Zenon DEF DeviceRoot

\* A row of a directory.
LEMMA FileRow ==
    ASSUME NEW r, NEW X \in Texts, X # <<>>, Last(X) # Slash, X = WideToUtf8(cwd),
           Reached(cwd) = here, NEW v \in Texts, Slashless(v),
           WideToUtf8(PathOf(r)) = (X \o <<Slash>>) \o v
    PROVE  Asked(r) = [serial |-> here.serial, path |-> JoinWfxPath(here.path, v)]
<1>1. PICK W : W = WideToUtf8(PathOf(r))
  OBVIOUS
<1>2. PICK p : p = ParseRemotePath(X)
  OBVIOUS
<1>3. ParseRemotePath(W) = [isRoot |-> FALSE, serial |-> p.serial, path |-> JoinWfxPath(p.path, v)]
  <2>1. ParseRemotePath((X \o <<Slash>>) \o v)
          = [isRoot |-> FALSE, serial |-> p.serial, path |-> JoinWfxPath(p.path, v)]
    BY ONLY <1>2, X \in Texts, X # <<>>, Last(X) # Slash, v \in Texts, Slashless(v), ParseDeeper
  <2> QED
    BY <1>1, <2>1, Zenon
<1>4. PICK s, q : s = SerialFromDisplayName(p.serial) /\ q = JoinWfxPath(p.path, v)
  OBVIOUS
<1>5. ParseWfxPath(W).serial = s /\ ParseWfxPath(W).path = q
  <2>1. PICK a : a = p.serial
    OBVIOUS
  <2>2. ParseRemotePath(W) = [isRoot |-> FALSE, serial |-> a, path |-> q]
    BY <1>3, <1>4, <2>1, Zenon
  <2> QED
    BY <1>4, <2>1, <2>2 DEF ParseWfxPath
<1>6. Asked(r) = [serial |-> s, path |-> q]
  BY <1>1, <1>5, Zenon DEF Asked
<1>7. here.serial = s /\ here.path = p.path
  <2>1. PICK y : y = ParseWfxPath(X)
    OBVIOUS
  <2>2. here = [serial |-> y.serial, path |-> y.path]
    BY <2>1, Zenon DEF Reached
  <2>3. y.serial = s /\ y.path = p.path
    <3>1. y = [p EXCEPT !.serial = SerialFromDisplayName(@)]
      BY <1>2, <2>1 DEF ParseWfxPath
    <3>2. \E a, b, c : p = [isRoot |-> a, serial |-> b, path |-> c]
      BY <1>2, Zenon DEF ParseRemotePath
    <3>3. PICK a, b, c : p = [isRoot |-> a, serial |-> b, path |-> c]
      BY <3>2
    <3>4. PICK z : z = SerialFromDisplayName(b)
      OBVIOUS
    <3>5. p.serial = b /\ p.path = c
      BY <3>3
    <3>6. y = [p EXCEPT !.serial = z]
      BY <3>1, <3>4, <3>5
    <3>7. y.serial = z /\ y.path = c
      BY ONLY <3>3, <3>6
    <3> QED
      BY <1>4, <3>4, <3>5, <3>7, Zenon
  <2> QED
    BY <2>2, <2>3
<1> QED
  BY <1>4, <1>6, <1>7, Zenon

\* What a path ends with is well-formed when the path is.
LEMMA LeafWellFormed ==
    ASSUME NEW dir \in Texts, NEW name \in Names, WellFormed(JoinWfxPath(dir, name))
    PROVE  WellFormed(name)
<1>1. PICK w : w = JoinWfxPath(dir, name)
  OBVIOUS
<1>2. w \in Texts /\ SubSeq(w, LastSlash(w) + 1, Len(w)) = name
  BY <1>1, JoinIs
<1>3. LastSlash(w) = 0 \/ (LastSlash(w) \in 1..Len(w) /\ w[LastSlash(w)] = Slash)
  BY <1>2, LastSlashIs
<1>4. CASE LastSlash(w) = 0
  <2>1. SubSeq(w, 1, Len(w)) = w
    BY <1>2, SubSeqFull DEF Texts
  <2>2. name = w
    BY <1>2, <1>4, <2>1
  <2> QED
    BY <1>1, <2>2, Zenon
<1>5. CASE LastSlash(w) \in 1..Len(w) /\ w[LastSlash(w)] = Slash
  <2>1. PICK j \in 1..Len(w) : j = LastSlash(w) /\ w[j] = Slash
    BY <1>5
  <2>2. w[j] <= 127 /\ WellFormed(w)
    BY <1>1, <2>1 DEF Slash
  <2>3. WellFormed(SubSeq(w, j + 1, Len(w)))
    BY <1>2, <2>2, WellFormedAfter
  <2> QED
    BY <1>2, <2>1, <2>3, Zenon
<1> QED
  BY <1>3, <1>4, <1>5

-----------------------------------------------------------------------------
(* Why a call reaches what its row was made from.                          *)

\* The panel's path is that of what it shows, but while it is opened for a row whose
\* name did not survive the way.
Anchored ==
    /\ cwd \in Seq(Units)
    /\ here = Nowhere => cwd = Root
    /\ here # Nowhere => Inner(cwd)
    /\ here # Nowhere => \/ Reached(cwd) = here
                         \/ request.op = "list" /\ request.at = Reached(cwd) /\ rows = <<>> /\ ~handle.open

RowsOf(place) == {Row(e) : e \in {x \in MadeAt(place) : FillFindData(x).fits}}

MeantInv ==
    /\ Anchored
    /\ handle.entries \in Seq(MadeAt(here)) /\ rows \in Seq(RowsOf(here))
    /\ PickedIsMeant

\* The path of a row, and what becomes of it.
LEMMA RowReaches ==
    ASSUME here \in Places, Anchored, rows # <<>>, NEW r \in RowsOf(here)
    PROVE  /\ Inner(PathOf(r)) /\ r.of \in Places /\ r.of # Nowhere
           /\ WellFormed(r.of.path) => Asked(r) = r.of
           /\ Drops(r) = WideToUtf8(cwd)
<1>1. PICK e \in MadeAt(here) : FillFindData(e).fits /\ r = Row(e)
  BY DEF RowsOf
<1>2. r.of = e.of /\ r.units = FillFindData(e).units
  BY <1>1 DEF Row
<1>3. e.name \in Texts /\ Slashless(e.name)
  BY MadeNames
<1>4. PICK u : u = Utf8ToWide(e.name)
  OBVIOUS
<1>5. u \in Seq(Units) /\ Slashless(u)
  BY <1>3, <1>4, WidenedIsBare
<1>6. r.units = u
  BY <1>1, <1>2, <1>4 DEF FillFindData, Utf8ToWideBuf
<1>7. PICK v : v = WideToUtf8(u)
  OBVIOUS
<1>8. v \in Texts /\ Slashless(v)
  BY <1>5, <1>7, NarrowedIsBare
<1>9. ~Contains(v, Slash)
  BY <1>8 DEF Slashless
<1>10. WellFormed(e.name) => v = e.name
  BY <1>3, <1>4, <1>7, RoundTrip
<1>11. e.of \in Places
  BY <1>1 DEF MadeAt, DevicesAt, FilesAt, Entries
<1>12. PICK z : z = <<Slash>>
  OBVIOUS
<1>13. z \in Seq(Units) /\ z \in Texts /\ Last(z) = Slash /\ z # <<>> /\ WideToUtf8(z) = z /\ Root = z
  BY <1>12, SlashIsOne DEF Root
<1>14. CASE here = Nowhere
  <2>1. cwd = z
    BY <1>13, <1>14 DEF Anchored
  <2>2. PathOf(r) = z \o u
    BY <1>6, <1>13, <2>1 DEF PathOf, JoinWfxPath
  <2>3. z \o u \in Seq(Units) /\ z \o u # <<>> /\ Last(z \o u) # Slash
    BY <1>5, <1>13, EndsAsName, ConcatProperties
  <2>4. WideToUtf8(z \o u) = z \o v
    BY <1>5, <1>7, <1>12, <1>13, PathNarrowed
  <2>5. z \o v # <<>> /\ Last(z \o v) # Slash
    BY <1>8, <1>13, EndsAsName DEF Texts
  <2>6. Inner(PathOf(r))
    BY <2>2, <2>3, <2>4, <2>5 DEF Inner
  <2>7. PICK d \in Spelt : e.of = DeviceRoot(d) /\ e.name = DisplayNameForDevice(d)
    BY <1>14 DEF MadeAt, DevicesAt
  <2>8. WellFormed(e.name)
    BY <2>7 DEF Spelt
  <2>9. v = DisplayNameForDevice(d) /\ r.of = DeviceRoot(d)
    BY <1>2, <1>10, <2>7, <2>8
  <2>10. WideToUtf8(PathOf(r)) = <<Slash>> \o v
    BY <1>12, <2>2, <2>4, Zenon
  <2>11. Asked(r) = r.of
    BY <1>8, <1>13, <2>1, <2>9, <2>10, DeviceRow
  <2>12. r.of # Nowhere
    BY <1>13, <2>9 DEF DeviceRoot, Nowhere
  <2>13. Drops(r) = WideToUtf8(cwd)
    <3>1. <<>> \in Texts /\ <<>> \o z = z
      BY <1>13, ConcatEmptySeq, EmptySeq DEF Texts
    <3>2. ParentWfxDir((<<>> \o z) \o v) = Root
      BY <1>8, <1>9, <1>12, <3>1, ParentBack
    <3>3. ParentWfxDir(z \o v) = z
      BY <1>13, <3>1, <3>2, Zenon
    <3> QED
      BY <1>12, <1>13, <2>1, <2>10, <3>3, Zenon DEF Drops
  <2> QED
    BY <1>2, <1>11, <2>6, <2>11, <2>12, <2>13
<1>15. CASE here # Nowhere
  <2>1. Inner(cwd) /\ Reached(cwd) = here
    BY <1>15 DEF Anchored
  <2>2. PICK X : X = WideToUtf8(cwd)
    OBVIOUS
  <2>3. cwd \in Seq(Units) /\ cwd # <<>> /\ Last(cwd) # Slash /\ X # <<>> /\ Last(X) # Slash /\ X \in Texts
    BY <2>1, <2>2, WideToUtf8Is DEF Inner
  <2>4. PathOf(r) = (cwd \o z) \o u
    <3>1. JoinWfxPath(cwd, u) = cwd \o z \o u
      BY <1>12, <2>3, Zenon DEF JoinWfxPath
    <3> QED
      BY <1>6, <3>1, Zenon DEF PathOf
  <2>5. cwd \o z \in Seq(Units) /\ X \o z \in Texts
    BY <1>13, <2>3, ConcatProperties DEF Texts
  <2>6. (cwd \o z) \o u \in Seq(Units) /\ (cwd \o z) \o u # <<>> /\ Last((cwd \o z) \o u) # Slash
    BY <1>5, <2>5, EndsAsName, ConcatProperties
  <2>7. WideToUtf8((cwd \o z) \o u) = (X \o z) \o v
    BY <1>5, <1>7, <1>12, <2>2, <2>3, PathNarrowed
  <2>8. (X \o z) \o v # <<>> /\ Last((X \o z) \o v) # Slash
    BY <1>8, <2>5, EndsAsName DEF Texts
  <2>9. Inner(PathOf(r))
    BY <2>4, <2>6, <2>7, <2>8 DEF Inner
  <2>10. WideToUtf8(PathOf(r)) = (X \o <<Slash>>) \o v
    BY <1>12, <2>4, <2>7, Zenon
  <2>11. Asked(r) = [serial |-> here.serial, path |-> JoinWfxPath(here.path, v)]
    BY <1>8, <2>1, <2>2, <2>3, <2>10, FileRow
  <2>12. e.name \in Names /\ r.of = [serial |-> here.serial, path |-> JoinWfxPath(here.path, e.name)]
    BY <1>2, <1>15 DEF MadeAt, FilesAt
  <2>13. here.path \in Texts
    BY DEF Places
  <2>14. ASSUME WellFormed(r.of.path) PROVE Asked(r) = r.of
    <3>1. WellFormed(JoinWfxPath(here.path, e.name))
      BY <2>12, <2>14
    <3>2. v = e.name
      BY <1>10, <2>12, <2>13, <3>1, LeafWellFormed
    <3> QED
      BY <2>11, <2>12, <3>2, Zenon
  <2>15. r.of # Nowhere
    <3>1. PICK w : w = JoinWfxPath(here.path, e.name)
      OBVIOUS
    <3>2. w = here.path \o e.name \/ w = here.path \o <<Slash>> \o e.name
      BY <3>1, Zenon DEF JoinWfxPath
    <3>3. e.name # <<>> /\ e.name \in Seq(Byte)
      BY <1>3 DEF Slashless, Texts
    <3>4. here.path \o e.name # <<>> /\ (here.path \o <<Slash>>) \o e.name # <<>>
      <4>1. here.path \in Seq(Byte) /\ here.path \o <<Slash>> \in Seq(Byte)
        BY <1>12, <1>13, <2>13, ConcatProperties DEF Texts
      <4> QED
        BY <3>3, <4>1, NotEmpty
    <3>5. w # <<>>
      BY ONLY <3>2, <3>4, Zenon
    <3>6. r.of = [serial |-> here.serial, path |-> w]
      BY <2>12, <3>1
    <3> QED
      BY <3>5, <3>6 DEF Nowhere
  <2>16. Drops(r) = WideToUtf8(cwd)
    <3>1. ParentWfxDir((X \o <<Slash>>) \o v) = X
      BY <1>8, <1>9, <2>3, ParentBack
    <3> QED
      BY <2>2, <2>10, <3>1, Zenon DEF Drops
  <2> QED
    BY <1>2, <1>11, <2>9, <2>14, <2>15, <2>16
<1> QED
  BY <1>14, <1>15

\* Whatever the adb server knows is spelt as it should be.
LEMMA RootMade ==
    ASSUME NEW bus \in Buses
    PROVE  ListRootDevices(bus) \in Seq(DevicesAt)
<1>1. /\ bus \in Seq(Devices) /\ ListRootDevices(bus) = Mapped(DeviceEntry, Only(bus, UsableSet))
  BY RootIs
<1>2. bus \in Seq(Spelt)
  <2>1. Len(bus) \in Nat /\ DOMAIN bus = 1..Len(bus) /\ \A i \in 1..Len(bus) : bus[i] \in Devices
    BY <1>1, LenProperties, ElementOfSeq
  <2>2. \A i \in 1..Len(bus) : bus[i] \in Range(bus)
    BY <2>1 DEF Range
  <2>3. \A i \in 1..Len(bus) : bus[i] \in Spelt
    BY <2>1, <2>2, SpelledAssumption DEF Spelt
  <2>4. bus \in [1..Len(bus) -> Spelt]
    BY <1>1, <2>1, <2>3
  <2> QED
    BY <2>1, <2>4, Listed
<1>3. Only(bus, UsableSet) \in Seq(Spelt)
  <2>1. Only(bus, UsableSet) \in Seq(Spelt \cap UsableSet)
    BY <1>2, OnlyOf
  <2> QED
    BY <2>1, SeqMonotonic
<1>4. \A d \in Spelt : DeviceEntry[d] \in DevicesAt
  <2> TAKE d \in Spelt
  <2>1. d \in Devices
    BY DEF Spelt
  <2>2. DeviceEntry[d] \in Entries
    BY <2>1, DeviceEntries
  <2>3. DeviceEntry[d].of = DeviceRoot(d) /\ DeviceEntry[d].name = DisplayNameForDevice(d)
    BY <2>1 DEF DeviceEntry
  <2> QED
    BY <2>2, <2>3 DEF DevicesAt
<1> QED
  BY <1>1, <1>3, <1>4, MappedType

\* What a directory lists are its files.
LEMMA DirectoryMade ==
    ASSUME NEW entries \in Listings \cup DeepListings, here \in Places
    PROVE  AppendEntries(entries) \in Seq(FilesAt(here))
<1> DEFINE R == [name : Names, mtime : Dates]
<1>1. entries \in Seq(R)
  BY PanelAssumption
<1>2. PICK real :
        real = Only(entries, {e \in Range(entries) : e.name \notin {<<Dot>>, <<Dot, Dot>>}})
  OBVIOUS
<1>3. real \in Seq(R \cap {e \in Range(entries) : e.name \notin {<<Dot>>, <<Dot, Dot>>}})
  <2> HIDE DEF R
  <2> QED
    BY <1>1, <1>2, OnlyOf
<1>4. /\ Len(real) \in Nat /\ DOMAIN real = 1..Len(real)
      /\ \A i \in 1..Len(real) : real[i] \in R
  <2> HIDE DEF R
  <2> QED
    BY <1>3, LenProperties, ElementOfSeq
<1>5. PICK all : all = AppendEntries(entries)
  OBVIOUS
<1>6. all \in Seq(Entries)
  BY <1>5, DirectoryEntries
<1>7. DOMAIN all = 1..Len(real) /\ \A i \in 1..Len(real) :
         /\ all[i].name = real[i].name
         /\ all[i].of = [serial |-> here.serial, path |-> JoinWfxPath(here.path, real[i].name)]
  BY <1>2, <1>4, <1>5 DEF AppendEntries
<1>8. Len(all) \in Nat /\ DOMAIN all = 1..Len(all) /\ \A i \in 1..Len(all) : all[i] \in Entries
  BY <1>6, LenProperties, ElementOfSeq
<1>9. \A i \in 1..Len(all) : all[i] \in FilesAt(here)
  <2> TAKE i \in 1..Len(all)
  <2>1. i \in 1..Len(real) /\ all[i] \in Entries
    BY <1>7, <1>8
  <2>2. real[i].name \in Names
    BY <1>4, <2>1
  <2>3. all[i].name \in Names
        /\ all[i].of = [serial |-> here.serial, path |-> JoinWfxPath(here.path, all[i].name)]
    BY <1>7, <2>1, <2>2
  <2> QED
    BY <2>1, <2>3 DEF FilesAt
<1>10. all \in [1..Len(all) -> FilesAt(here)]
  BY <1>6, <1>8, <1>9
<1> QED
  BY <1>5, <1>8, <1>10, Listed

LEMMA MeantInit == Init => MeantInv
<1> SUFFICES ASSUME Init PROVE MeantInv
  OBVIOUS
<1>1. \A S : <<>> \in Seq(S)
  BY EmptySeq
<1>2. cwd \in Seq(Units) /\ cwd = Root /\ here = Nowhere
  BY SlashIsOne DEF Init, Root
<1>3. handle.entries \in Seq(MadeAt(here)) /\ rows \in Seq(RowsOf(here))
  BY <1>1 DEF Init, NoHandle
<1>4. PickedIsMeant
  BY DEF Init, NoRequest, PickedIsMeant
<1> QED
  BY <1>2, <1>3, <1>4 DEF MeantInv, Anchored

\* Listing shows what was made for the place.
LEMMA FindFirstMeant ==
    ASSUME MeantInv, NEW entries \in Seq(MadeAt(here)), FsFindFirst(entries),
           here = Nowhere \/ Reached(cwd) = here
    PROVE  MeantInv'
<1>1. request' = NoRequest /\ cwd' = cwd /\ here' = here
  BY DEF FsFindFirst
<1>2. Anchored'
  BY <1>1 DEF MeantInv, Anchored, Inner, Reached
<1>3. PickedIsMeant'
  BY <1>1 DEF NoRequest, PickedIsMeant
<1>4. \A S : <<>> \in Seq(S)
  BY EmptySeq
<1>5. PICK M : M = MadeAt(here)
  OBVIOUS
<1>6. PICK N : N = RowsOf(here)
  OBVIOUS
<1>7. handle'.entries \in Seq(M) /\ rows' \in Seq(N)
  <2>1. CASE Fitting(entries) = <<>>
    <3>1. handle' = NoHandle /\ rows' = <<>>
      BY <2>1 DEF FsFindFirst
    <3>2. handle'.entries = <<>>
      BY <3>1 DEF NoHandle
    <3> QED
      BY ONLY <1>4, <3>1, <3>2, Zenon
  <2>2. CASE Fitting(entries) # <<>>
    <3>1. PICK first, rest : first = Head(Fitting(entries)) /\ rest = Tail(Fitting(entries))
      OBVIOUS
    <3>2. rows' = <<Row(first)>> /\ handle' = [open |-> TRUE, entries |-> rest]
      BY <2>2, <3>1 DEF FsFindFirst
    <3>3. first \in {e \in M : FillFindData(e).fits} /\ rest \in Seq(M)
      BY <1>5, <2>2, <3>1, FittingIs
    <3>4. Row(first) \in N
      BY <1>5, <1>6, <3>3 DEF RowsOf
    <3>5. <<Row(first)>> \in Seq(N)
      BY <3>4
    <3> QED
      BY <3>2, <3>3, <3>5
  <2> QED
    BY <2>1, <2>2
<1>8. handle'.entries \in Seq(MadeAt(here')) /\ rows' \in Seq(RowsOf(here'))
  BY <1>1, <1>5, <1>6, <1>7
<1> QED
  BY <1>2, <1>3, <1>8 DEF MeantInv

LEMMA FindNextMeant ==
    ASSUME TypeInv, MeantInv, FsFindNext
    PROVE  MeantInv'
<1>1. /\ cwd' = cwd /\ here' = here /\ request' = request /\ handle.open
  BY DEF FsFindNext
<1>2. Anchored'
  BY <1>1 DEF MeantInv, Anchored, Inner, Reached
<1>3. PickedIsMeant'
  BY <1>1 DEF MeantInv, PickedIsMeant
<1>4. PICK M : M = MadeAt(here)
  OBVIOUS
<1>5. PICK N : N = RowsOf(here)
  OBVIOUS
<1>6. handle'.entries \in Seq(M) /\ rows' \in Seq(N)
  <2>1. PICK fitting : fitting = Fitting(handle.entries)
    OBVIOUS
  <2>2. /\ fitting # <<>> /\ rows' = Append(rows, Row(Head(fitting)))
        /\ handle' = [handle EXCEPT !.entries = Tail(fitting)]
    BY <2>1 DEF FsFindNext
  <2>3. handle.entries \in Seq(M) /\ rows \in Seq(N)
    BY <1>4, <1>5 DEF MeantInv
  <2>4. Head(fitting) \in {e \in M : FillFindData(e).fits} /\ Tail(fitting) \in Seq(M)
    BY <2>1, <2>2, <2>3, FittingIs
  <2>5. Row(Head(fitting)) \in N
    BY <1>4, <1>5, <2>4 DEF RowsOf
  <2>6. rows' \in Seq(N)
    BY <2>2, <2>3, <2>5, AppendProperties
  <2>7. handle'.entries = Tail(fitting)
    BY <2>2 DEF TypeInv
  <2> QED
    BY <2>4, <2>6, <2>7
<1>7. handle'.entries \in Seq(MadeAt(here')) /\ rows' \in Seq(RowsOf(here'))
  BY <1>1, <1>4, <1>5, <1>6
<1> QED
  BY <1>2, <1>3, <1>7 DEF MeantInv

\* Opening the list of devices.
LEMMA OpenRootMeant ==
    ASSUME MeantInv, NEW bus \in Buses, OpenRoot(bus)
    PROVE  MeantInv'
<1>1. here = Nowhere
  <2>1. SUFFICES ASSUME here # Nowhere PROVE FALSE
    OBVIOUS
  <2>2. Inner(cwd) /\ ParseWfxPath(WideToUtf8(cwd)).isRoot
    BY <2>1 DEF MeantInv, Anchored, OpenRoot
  <2>3. PICK X : X = WideToUtf8(cwd)
    OBVIOUS
  <2>4. X \in Texts /\ X # <<>> /\ X # Root
    BY <2>2, <2>3, WideToUtf8Is, SlashIsOne DEF Inner, Root
  <2>5. PICK p : p = ParseRemotePath(X)
    OBVIOUS
  <2>6. \E b, c : p = [isRoot |-> FALSE, serial |-> b, path |-> c]
    <3>1. PICK k : k = NextSlash(X, StartOf(X))
      OBVIOUS
    <3> QED
      BY <2>4, <2>5, <3>1, ParseIs, Zenon
  <2>7. PICK b, c : p = [isRoot |-> FALSE, serial |-> b, path |-> c]
    BY <2>6
  <2>8. PICK z : z = SerialFromDisplayName(p.serial)
    OBVIOUS
  <2>9. ParseWfxPath(X) = [p EXCEPT !.serial = z]
    BY <2>5, <2>8 DEF ParseWfxPath
  <2>10. ~ParseWfxPath(X).isRoot
    BY ONLY <2>7, <2>9
  <2> QED
    BY <2>2, <2>3, <2>10, Zenon
<1>2. ListRootDevices(bus) \in Seq(MadeAt(here))
  BY <1>1, RootMade DEF MadeAt
<1> QED
  BY <1>1, <1>2, FindFirstMeant DEF OpenRoot

\* And a directory, when the request for it reached what was meant.
LEMMA OpenDirectoryMeant ==
    ASSUME MeantInv, here \in Places, NEW entries \in Listings \cup DeepListings, OpenDirectory(entries)
    PROVE  MeantInv'
<1>1. here # Nowhere
  <2>1. SUFFICES ASSUME here = Nowhere PROVE FALSE
    OBVIOUS
  <2>2. cwd = <<Slash>> /\ ~ParseWfxPath(WideToUtf8(cwd)).isRoot
    BY <2>1 DEF MeantInv, Anchored, OpenDirectory, Root
  <2>3. PICK p : p = ParseRemotePath(<<Slash>>)
    OBVIOUS
  <2>4. p = [isRoot |-> TRUE, serial |-> <<>>, path |-> <<Slash>>]
    BY <2>3, Zenon DEF ParseRemotePath
  <2>5. PICK z : z = SerialFromDisplayName(p.serial)
    OBVIOUS
  <2>6. ParseWfxPath(<<Slash>>) = [p EXCEPT !.serial = z]
    BY <2>3, <2>5 DEF ParseWfxPath
  <2>7. ParseWfxPath(<<Slash>>).isRoot
    BY ONLY <2>4, <2>6
  <2> QED
    BY <2>2, <2>7, SlashIsOne, Zenon
<1>2. Reached(cwd) = here
  BY <1>1 DEF MeantInv, Anchored, OpenDirectory
<1>3. AppendEntries(entries) \in Seq(MadeAt(here))
  BY <1>1, DirectoryMade DEF MadeAt
<1> QED
  BY <1>2, <1>3, FindFirstMeant DEF OpenDirectory

\* A call on a row reaches the row's own.
LEMMA CallMeant ==
    ASSUME TypeInv, MeantInv, NEW r \in RowsOf(here), rows # <<>>, NEW op, NEW args, Call(r, op, args),
           op \in {"rm", "rmdir"} =>
              /\ args.drops = Drops(r)
              /\ \A p \in Texts : r.of.path = p /\ Asked(r).path = p =>
                    ShellWords(args.command) = [words |-> args.words, literal |-> TRUE]
    PROVE  MeantInv'
<1>1. /\ cwd' = cwd /\ here' = here /\ handle' = handle /\ rows' = rows
      /\ request' = [op |-> op, at |-> Asked(r), meant |-> r.of, args |-> args]
  BY DEF Call
<1>2. here \in Places /\ Anchored
  BY DEF TypeInv, MeantInv
<1>3. /\ r.of \in Places /\ Drops(r) = WideToUtf8(cwd)
      /\ WellFormed(r.of.path) => Asked(r) = r.of
  BY <1>2, RowReaches
<1>4. Anchored'
  <2>1. here # Nowhere => Reached(cwd) = here
    BY <1>2 DEF Anchored
  <2> QED
    BY <1>1, <1>2, <2>1 DEF Anchored, Inner, Reached
<1>5. handle'.entries \in Seq(MadeAt(here')) /\ rows' \in Seq(RowsOf(here'))
  BY <1>1 DEF MeantInv
<1>6. PickedIsMeant'
  <2>1. /\ request'.op = op /\ request'.at = Asked(r) /\ request'.meant = r.of
        /\ request'.args = args
    BY <1>1
  <2>2. ASSUME op \in {"rm", "rmdir"}, WellFormed(r.of.path)
        PROVE  ShellWords(args.command) = [words |-> args.words, literal |-> TRUE]
    <3>1. r.of.path \in Texts
      BY <1>3 DEF Places
    <3>2. Asked(r).path = r.of.path
      BY <1>3, <2>2
    <3> QED
      BY <2>2, <3>1, <3>2
  <2>3. op \in {"rm", "rmdir"} => args.drops = WideToUtf8(cwd')
    BY <1>1, <1>3
  <2>4. WellFormed(r.of.path) =>
          /\ Asked(r) = r.of
          /\ op \in {"rm", "rmdir"} =>
               ShellWords(args.command) = [words |-> args.words, literal |-> TRUE]
    BY <1>3, <2>2
  <2> QED
    BY ONLY <2>1, <2>3, <2>4, Zenon DEF PickedIsMeant
<1> QED
  BY <1>4, <1>5, <1>6 DEF MeantInv

\* The panel opened for a row has the row's path, whatever that reaches.
LEMMA EnterMeant ==
    ASSUME TypeInv, MeantInv, NEW r \in RowsOf(here), rows # <<>>, Enter(r)
    PROVE  MeantInv'
<1>1. /\ cwd' = PathOf(r) /\ here' = r.of /\ handle' = NoHandle /\ rows' = <<>>
      /\ request' = [op |-> "list", at |-> Asked(r), meant |-> r.of]
  BY DEF Enter
<1>2. here \in Places /\ Anchored
  BY DEF TypeInv, MeantInv
<1>3. /\ Inner(PathOf(r)) /\ r.of \in Places /\ r.of # Nowhere
      /\ WellFormed(r.of.path) => Asked(r) = r.of
  BY <1>2, RowReaches
<1>4. PICK w : w = PathOf(r)
  OBVIOUS
<1>5. Inner(w) /\ Asked(r) = Reached(w)
  BY <1>3, <1>4, Zenon DEF Asked, Reached
<1>6. /\ request'.op = "list" /\ request'.at = Reached(w) /\ request'.meant = r.of
      /\ handle'.open = FALSE /\ handle'.entries = <<>>
  BY <1>1, <1>5 DEF NoHandle
<1>7. Anchored'
  <2>1. w \in Seq(Units)
    BY <1>5 DEF Inner
  <2>2. cwd' = w /\ here' # Nowhere
    BY <1>1, <1>3, <1>4
  <2> QED
    BY <1>1, <1>5, <1>6, <2>1, <2>2 DEF Anchored, Inner, Reached
<1>8. handle'.entries \in Seq(MadeAt(here')) /\ rows' \in Seq(RowsOf(here'))
  BY <1>1, <1>6, EmptySeq
<1>9. PickedIsMeant'
  <2>1. request'.op \notin {"rm", "rmdir"}
    BY <1>6
  <2>2. WellFormed(r.of.path) => request'.at = r.of
    BY <1>3, <1>5, <1>6
  <2> QED
    BY ONLY <1>6, <2>1, <2>2 DEF PickedIsMeant
<1> QED
  BY <1>7, <1>8, <1>9 DEF MeantInv

\* The operations on a row.
LEMMA OnRowMeant ==
    ASSUME TypeInv, MeantInv, NEW i \in DOMAIN rows, OnRow(i)
    PROVE  MeantInv'
<1>1. rows \in Seq(RowsOf(here)) /\ i \in 1..Len(rows) /\ Len(rows) \in Nat
  BY LenProperties DEF MeantInv
<1>2. rows # <<>>
  BY <1>1, EmptySeq
<1>3. PICK r \in RowsOf(here) : r = rows[i]
  BY <1>1, ElementOfSeq
<1>4. CASE DeleteFile(r)
  <2>1. PICK args : args = [words |-> <<Rm, ForceFile, r.of.path>>, drops |-> Drops(r),
                            command |-> Command(<<Rm, ForceFile>>, Asked(r).path)]
    OBVIOUS
  <2>2. Call(r, "rm", args)
    BY <1>4, <2>1, Zenon DEF DeleteFile
  <2>3. args.words = <<Rm, ForceFile, r.of.path>> /\ args.drops = Drops(r)
        /\ args.command = Command(<<Rm, ForceFile>>, Asked(r).path)
    BY <2>1
  <2>4. ASSUME NEW p \in Texts, r.of.path = p /\ Asked(r).path = p
        PROVE  ShellWords(args.command) = [words |-> args.words, literal |-> TRUE]
    <3>1. ShellWords(Command(<<Rm, ForceFile>>, p)) = [words |-> <<Rm, ForceFile, p>>, literal |-> TRUE]
      BY RemovalReads
    <3> QED
      BY <2>3, <2>4, <3>1, Zenon
  <2> QED
    BY <1>2, <2>2, <2>3, <2>4, CallMeant
<1>5. CASE RemoveDir(r)
  <2>1. PICK args : args = [words |-> <<Rm, ForceDir, r.of.path>>, drops |-> Drops(r),
                            command |-> Command(<<Rm, ForceDir>>, Asked(r).path)]
    OBVIOUS
  <2>2. Call(r, "rmdir", args)
    BY <1>5, <2>1, Zenon DEF RemoveDir
  <2>3. args.words = <<Rm, ForceDir, r.of.path>> /\ args.drops = Drops(r)
        /\ args.command = Command(<<Rm, ForceDir>>, Asked(r).path)
    BY <2>1
  <2>4. ASSUME NEW p \in Texts, r.of.path = p /\ Asked(r).path = p
        PROVE  ShellWords(args.command) = [words |-> args.words, literal |-> TRUE]
    <3>1. ShellWords(Command(<<Rm, ForceDir>>, p)) = [words |-> <<Rm, ForceDir, p>>, literal |-> TRUE]
      BY RemovalReads
    <3> QED
      BY <2>3, <2>4, <3>1, Zenon
  <2> QED
    BY <1>2, <2>2, <2>3, <2>4, CallMeant
<1>6. ASSUME NEW op, NEW args, Call(r, op, args), op \notin {"rm", "rmdir"} PROVE MeantInv'
  BY <1>2, <1>6, CallMeant
<1>7. CASE GetFile(r)
  <2>1. PICK args : Call(r, "get", args)
    BY <1>7, Zenon DEF GetFile
  <2> QED
    BY <1>6, <2>1
<1>8. ASSUME NEW ft, NEW mtime, SetTime(r, ft, mtime) PROVE MeantInv'
  <2>1. CASE UNCHANGED vars
    BY <2>1 DEF vars, MeantInv, Anchored, Inner, Reached, PickedIsMeant
  <2>2. CASE ~UNCHANGED vars
    <3>1. PICK args : Call(r, "touch", args)
      BY <1>8, <2>2, Zenon DEF SetTime
    <3> QED
      BY <1>6, <3>1
  <2> QED
    BY <2>1, <2>2
<1>9. CASE Enter(r)
  BY <1>2, <1>9, EnterMeant
<1>10. \/ DeleteFile(r) \/ RemoveDir(r) \/ GetFile(r) \/ Enter(r)
       \/ SetTime(r, r.date, r.mtime)
       \/ \E ticks \in UserDates : SetTime(r, Split(ticks), -1)
  BY <1>3 DEF OnRow
<1> QED
  BY <1>4, <1>5, <1>7, <1>8, <1>9, <1>10

\* Every step keeps it: one case per action.
LEMMA MeantNext == IInv /\ MeantInv /\ [Next]_vars => MeantInv'
<1> SUFFICES ASSUME IInv, MeantInv, [Next]_vars PROVE MeantInv'
  OBVIOUS
<1>1. TypeInv /\ here \in Places
  BY DEF IInv, TypeInv
<1>2. ASSUME NEW bus \in Buses, OpenRoot(bus) PROVE MeantInv'
  BY <1>2, OpenRootMeant
<1>3. ASSUME NEW entries \in Listings \cup DeepListings, OpenDirectory(entries) PROVE MeantInv'
  BY <1>1, <1>3, OpenDirectoryMeant
<1>4. CASE FsFindNext
  BY <1>1, <1>4, FindNextMeant
<1>5. CASE FsFindClose
  <2>1. /\ handle' = NoHandle /\ handle.open /\ cwd' = cwd /\ here' = here
        /\ request' = request /\ rows' = rows
    BY <1>5 DEF FsFindClose
  <2>2. handle'.entries = <<>>
    BY <2>1 DEF NoHandle
  <2>3. handle'.entries \in Seq(MadeAt(here')) /\ rows' \in Seq(RowsOf(here'))
    BY <2>1, <2>2, EmptySeq DEF MeantInv
  <2>4. Anchored'
    BY <2>1 DEF MeantInv, Anchored, Inner, Reached
  <2>5. PickedIsMeant'
    BY <2>1 DEF MeantInv, PickedIsMeant
  <2> QED
    BY <2>3, <2>4, <2>5 DEF MeantInv
<1>6. CASE GoToRoot
  <2>1. /\ cwd' = Root /\ here' = Nowhere /\ handle' = NoHandle /\ rows' = <<>> /\ request' = NoRequest
    BY <1>6 DEF GoToRoot
  <2>2. handle'.entries = <<>>
    BY <2>1 DEF NoHandle
  <2>3. handle'.entries \in Seq(MadeAt(here')) /\ rows' \in Seq(RowsOf(here'))
    BY <2>1, <2>2, EmptySeq
  <2>4. Anchored'
    BY <2>1, SlashIsOne DEF Anchored, Root
  <2>5. PickedIsMeant'
    BY <2>1 DEF NoRequest, PickedIsMeant
  <2> QED
    BY <2>3, <2>4, <2>5 DEF MeantInv
<1>7. ASSUME NEW i \in DOMAIN rows, OnRow(i) PROVE MeantInv'
  BY <1>1, <1>7, OnRowMeant
<1>8. CASE UNCHANGED vars
  BY <1>8 DEF vars, MeantInv, Anchored, Inner, Reached, PickedIsMeant
<1> QED
  BY <1>2, <1>3, <1>4, <1>5, <1>6, <1>7, <1>8 DEF Next

\* What is picked in the panel is what the device is asked for: every call on a row reaches
\* the device and the path the row was made from if its name is UTF-8, a removal's command
\* is that path as one literal word for the shell, however the name is spelled, and the
\* listing it drops from the cache is the one the row was shown in (utils.hpp, shellQuote,
\* parseWfxPath, invalidatePathAndParent).
THEOREM PicksAreMeant == Spec => []PickedIsMeant
<1>1. MeantInv => PickedIsMeant
  BY DEF MeantInv
<1> QED
  BY <1>1, MeantInit, MeantNext, Invariance, PTL DEF Spec
=============================================================================
