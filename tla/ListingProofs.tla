---------------------------- MODULE ListingProofs ----------------------------
(***************************************************************************)
(* Listing.tla, for any panels, directory tree, time to live and number of *)
(* changes: what get() hands out is young, and the plugin's own finished   *)
(* changes are in every cached listing that was not overtaken by them.     *)
(***************************************************************************)
EXTENDS Listing, TLAPS

\* Nobody holds a listing of q older than n: not the cache, not a panel about
\* to store one; listings that were overtaken by an invalidation apart.
Fresh(q, n) ==
    /\ Cached(q) /\ ~cache[q].raced => cache[q].ver >= n
    /\ \A t \in Panels : pc[t] = "store" /\ dir[t] = q /\ ~raced[t] => read[t] >= n

\* The invalidations to come cover q.
ToBeDropped(q) == \E i \in 1..Len(todo) : q \in Below[todo[i]]

OwnIsPast == \A q \in Paths : own[q] <= ver[q] /\ made[q] <= ver[q]

OwnIsFresh == \A q \in Paths : Fresh(q, own[q])

\* While the worker invalidates, each listing it changed is fresh or still to go.
MadeIsDropped ==
    /\ wpc = "command" =>
         op \in Operations /\ \A q \in Paths : made[q] > 0 => q \in Affected(op)
    /\ wpc = "drop" =>
         \A q \in Paths : made[q] > 0 => ToBeDropped(q) \/ Fresh(q, made[q])

\* An entry is at most as much older than the clock says as the clock was set back.
AgesAreClose ==
    \A q \in Paths : Cached(q) =>
        cache[q].real <= cache[q].age + back /\ cache[q].age + back >= 0

IInv == TypeOK /\ OwnIsPast /\ OwnIsFresh /\ MadeIsDropped /\ AgesAreClose

EntryOK(e) == e \in Entries \cup {None}

\* What the fields of an entry may be.
LEMMA EntryFields ==
    ASSUME NEW e, EntryOK(e)
    PROVE  /\ e.ver \in Versions \cup {-1} /\ e.age \in Ages /\ e.real \in 0..Oldest
           /\ e.raced \in BOOLEAN
<1> USE ListingAssumption DEF ListingAssumption, Ages, Oldest
<1>1. CASE e \in Entries
  BY <1>1 DEF Entries
<1>2. CASE e = None
  BY <1>2 DEF None
<1> QED
  BY <1>1, <1>2 DEF EntryOK

LEMMA NoneIsNoEntry == EntryOK(None) /\ None.ver = -1 /\ None.raced = FALSE
  BY DEF EntryOK, None

\* A second passes: the contents stay, both ages grow alike up to the cap.
LEMMA AgedEntry ==
    ASSUME NEW e, EntryOK(e)
    PROVE  /\ EntryOK(Aged(e)) /\ Aged(e).ver = e.ver /\ Aged(e).raced = e.raced
           /\ e.ver >= 0 => Aged(e).age = OneMore(e.age) /\ Aged(e).real = OneMore(e.real)
<1>1. CASE e.ver < 0
  <2>1. Aged(e) = e
    BY <1>1 DEF Aged
  <2>2. ~(e.ver >= 0)
    BY <1>1, EntryFields, ListingAssumption DEF ListingAssumption, Versions
  <2> QED
    BY <2>1, <2>2
<1>2. CASE ~(e.ver < 0)
  <2>1. e \in Entries
    BY <1>2 DEF EntryOK, None
  <2>2. OneMore(e.age) \in Ages /\ OneMore(e.real) \in 0..Oldest
    BY <2>1, ListingAssumption DEF ListingAssumption, Entries, Ages, Oldest, OneMore
  <2> DEFINE f == [e EXCEPT !.age = OneMore(e.age), !.real = OneMore(e.real)]
  <2>3. Aged(e) = f
    BY <1>2 DEF Aged
  <2>4. f \in Entries /\ f.ver = e.ver /\ f.raced = e.raced
          /\ f.age = OneMore(e.age) /\ f.real = OneMore(e.real)
    BY <2>1, <2>2 DEF Entries
  <2> HIDE DEF f
  <2> QED
    BY <2>3, <2>4 DEF EntryOK
<1> QED
  BY <1>1, <1>2

\* The clock is set back by k: an entry looks k seconds younger.
LEMMA PutBackEntry ==
    ASSUME NEW e, EntryOK(e), NEW k \in 1..MaxBack, e.ver >= 0 => e.age >= 0
    PROVE  /\ EntryOK(PutBack(e, k)) /\ PutBack(e, k).ver = e.ver
           /\ PutBack(e, k).raced = e.raced /\ PutBack(e, k).real = e.real
           /\ e.ver >= 0 => PutBack(e, k).age = e.age - k
<1>1. CASE e.ver < 0
  <2>1. PutBack(e, k) = e
    BY <1>1 DEF PutBack
  <2>2. ~(e.ver >= 0)
    BY <1>1, EntryFields, ListingAssumption DEF ListingAssumption, Versions
  <2> QED
    BY <2>1, <2>2
<1>2. CASE ~(e.ver < 0)
  <2>1. e \in Entries
    BY <1>2 DEF EntryOK, None
  <2>2. e.age >= 0
    BY <1>2, <2>1, ListingAssumption DEF ListingAssumption, Entries, Versions
  <2>3. e.age - k \in Ages
    BY <2>1, <2>2, ListingAssumption DEF ListingAssumption, Entries, Ages, Oldest
  <2> DEFINE f == [e EXCEPT !.age = e.age - k]
  <2>4. PutBack(e, k) = f
    BY <1>2 DEF PutBack
  <2>5. f \in Entries /\ f.ver = e.ver /\ f.raced = e.raced
          /\ f.age = e.age - k /\ f.real = e.real
    BY <2>1, <2>3 DEF Entries
  <2> HIDE DEF f
  <2> QED
    BY <2>4, <2>5 DEF EntryOK
<1> QED
  BY <1>1, <1>2

\* A listing just read makes an entry.
LEMMA StoredEntry ==
    ASSUME NEW v \in Versions, NEW r \in BOOLEAN
    PROVE  LET e == [ver |-> v, age |-> 0, real |-> 0, raced |-> r]
           IN  EntryOK(e) /\ e.ver = v /\ e.age = 0 /\ e.real = 0 /\ e.raced = r
  BY ListingAssumption DEF ListingAssumption, EntryOK, Entries, Ages, Oldest

\* invalidatePathAndParent reaches every listing that shows what was changed.
LEMMA PathAndParentCovers ==
    ASSUME NEW x \in Targets
    PROVE  /\ PathAndParent(x) \in Seq(Paths) /\ Shows(x) \subseteq Paths
           /\ \A q \in Shows(x) : \E i \in 1..Len(PathAndParent(x)) : q \in Below[PathAndParent(x)[i]]
<1> USE ListingAssumption DEF ListingAssumption, PathAndParent, Shows
<1>1. CASE x \in FileTargets
  <2>1. x.file = TRUE /\ x.dir \in Paths
    BY <1>1 DEF FileTargets
  <2>2. x.dir \in Below[x.dir]
    BY <2>1
  <2> QED
    BY <2>1, <2>2
<1>2. CASE x \in DirTargets
  <2>1. x.file = FALSE /\ x.dir \in Paths /\ ParentOf[x.dir] \in Paths
    BY <1>2 DEF DirTargets
  <2>2. ParentOf[x.dir] \in Below[ParentOf[x.dir]] /\ Below[x.dir] \subseteq Paths
    BY <2>1
  <2> QED
    BY <2>1, <2>2
<1> QED
  BY <1>1, <1>2 DEF Targets

-----------------------------------------------------------------------------
\* The initial state.
LEMMA Initially == Init => IInv
<1> SUFFICES ASSUME Init PROVE IInv
  OBVIOUS
<1> USE ListingAssumption DEF ListingAssumption, Init, Zero
<1>1. SomePath \in Paths
  BY DEF SomePath
<1>2. \A q \in Paths : cache[q] = None /\ EntryOK(cache[q]) /\ ~Cached(q)
  BY NoneIsNoEntry DEF Cached
<1>3. TypeOK
  BY <1>1, <1>2 DEF TypeOK, EntryOK, Versions
<1>4. OwnIsPast /\ OwnIsFresh /\ MadeIsDropped /\ AgesAreClose
  BY <1>2 DEF OwnIsPast, OwnIsFresh, Fresh, MadeIsDropped, AgesAreClose
<1> QED
  BY <1>3, <1>4 DEF IInv

\* The type of the parts of the state that proofs need most.
LEMMA Parts ==
    ASSUME TypeOK
    PROVE  /\ \A q \in Paths : /\ EntryOK(cache[q]) /\ cache[q].ver \in Versions \cup {-1}
                              /\ ver[q] \in Versions /\ own[q] \in Versions /\ made[q] \in Versions
           /\ \A t \in Panels : dir[t] \in Paths /\ read[t] \in Versions \cup {-1} /\ raced[t] \in BOOLEAN
  BY EntryFields DEF TypeOK, EntryOK

\* Every variable keeps its range.
LEMMA TypeStep == IInv /\ [Next]_vars => TypeOK'
<1> SUFFICES ASSUME IInv, [Next]_vars PROVE TypeOK'
  OBVIOUS
<1> USE ListingAssumption DEF ListingAssumption, panel, worker
<1>0. TypeOK /\ SomePath \in Paths
  BY DEF IInv, SomePath
<1>p. /\ \A q \in Paths : /\ EntryOK(cache[q]) /\ cache[q].ver \in Versions \cup {-1}
                          /\ ver[q] \in Versions /\ own[q] \in Versions /\ made[q] \in Versions
      /\ \A t \in Panels : dir[t] \in Paths /\ read[t] \in Versions \cup {-1} /\ raced[t] \in BOOLEAN
  BY <1>0, Parts
<1>1. ASSUME NEW q \in Paths, OtherAppChanges(q) PROVE TypeOK'
  <2>1. ver' = [x \in Paths |-> IF x \in {q} THEN ver[x] + 1 ELSE ver[x]]
    BY <1>1 DEF OtherAppChanges, Changed
  <2>2. ver[q] < MaxVersion
    BY <1>1 DEF OtherAppChanges, Changed
  <2>3. ver[q] + 1 \in Versions
    BY <1>p, <2>2 DEF Versions
  <2>4. ver' \in [Paths -> Versions]
    BY <1>p, <2>1, <2>3, Zenon
  <2> QED
    BY <1>0, <1>1, <2>4 DEF OtherAppChanges, TypeOK
<1>2. CASE Tick
  <2>1. \A q \in Paths : EntryOK(Aged(cache[q]))
    BY <1>p, AgedEntry
  <2> QED
    BY <1>0, <1>2, <2>1 DEF Tick, TypeOK, EntryOK
<1>3. ASSUME NEW k \in 1..MaxBack, ClockSetBack(k) PROVE TypeOK'
  <2>1. \A q \in Paths : cache[q].ver >= 0 => cache[q].age >= 0
    <3> TAKE q \in Paths
    <3>1. cache[q].age \in Ages
      BY <1>p, EntryFields
    <3> QED
      BY <1>3, <3>1 DEF IInv, AgesAreClose, ClockSetBack, Cached, Ages, Oldest
  <2>2. \A q \in Paths : EntryOK(PutBack(cache[q], k))
    BY <1>p, <2>1, PutBackEntry
  <2>3. cache' \in [Paths -> Entries \cup {None}]
    BY <1>3, <2>2 DEF ClockSetBack, EntryOK
  <2> QED
    BY <1>0, <1>3, <2>3 DEF ClockSetBack, TypeOK
<1>4. ASSUME NEW t \in Panels, NEW q \in Paths, ListDirectory(t, q) PROVE TypeOK'
  <2>1. CASE Hit(t, q)
    BY <1>0, <2>1 DEF Hit, TypeOK, vars
  <2>2. CASE Miss(t, q)
    <3>1. /\ cache' = [cache EXCEPT ![q] = None] /\ pc' = [pc EXCEPT ![t] = "stat"]
          /\ dir' = [dir EXCEPT ![t] = q] /\ UNCHANGED <<ver, back, read, raced, worker>>
      BY <2>2 DEF Miss
    <3>2. cache' \in [Paths -> Entries \cup {None}] /\ dir' \in [Panels -> Paths]
      BY <1>0, <3>1 DEF TypeOK
    <3>3. /\ pc' \in [Panels -> {"idle", "stat", "through", "list", "store"}]
          /\ \A u \in Panels : pc'[u] = "store" => pc[u] = "store"
      BY <1>0, <3>1 DEF TypeOK
    <3> QED
      BY <1>0, <3>1, <3>2, <3>3 DEF TypeOK
  <2> QED
    BY <1>4, <2>1, <2>2 DEF ListDirectory
<1>5. ASSUME NEW t \in Panels, PanelRuns(t) PROVE TypeOK'
  <2>1. CASE CheckIsDirectory(t) \/ ThroughSymlink(t) \/ ListFails(t) \/ SyncList(t)
    <3>1. CASE CheckIsDirectory(t)
      BY <1>0, <3>1 DEF CheckIsDirectory, TypeOK
    <3>2. CASE ThroughSymlink(t)
      BY <1>0, <3>2 DEF ThroughSymlink, TypeOK
    <3>3. CASE ListFails(t)
      BY <1>0, <3>3 DEF ListFails, Returns, TypeOK
    <3>4. CASE SyncList(t)
      BY <1>0, <1>p, <3>4 DEF SyncList, TypeOK
    <3> QED
      BY <2>1, <3>1, <3>2, <3>3, <3>4
  <2>2. CASE Store(t)
    <3>1. read[t] \in Versions
      BY <1>0, <2>2 DEF Store, TypeOK
    <3>2. EntryOK([ver |-> read[t], age |-> 0, real |-> 0, raced |-> raced[t]])
      BY <1>p, <3>1, StoredEntry
    <3>3. cache' \in [Paths -> Entries \cup {None}]
      BY <1>0, <1>p, <2>2, <3>2 DEF Store, TypeOK, EntryOK
    <3> QED
      BY <1>0, <2>2, <3>3 DEF Store, Returns, TypeOK
  <2> QED
    BY <1>5, <2>1, <2>2 DEF PanelRuns
<1>6. ASSUME NEW o \in Operations, Begin(o) PROVE TypeOK'
  BY <1>0, <1>6 DEF Begin, Zero, TypeOK, Versions
<1>7. CASE TakesEffect
  BY <1>0, <1>7 DEF TakesEffect, Changed, TypeOK, Versions
<1>8. CASE Succeeds
  <2>1. op \in Operations /\ op.from \in Targets /\ op.to \in Targets
    BY <1>8 DEF Succeeds, IInv, MadeIsDropped
  <2>2. PathAndParent(op.from) \in Seq(Paths) /\ PathAndParent(op.to) \in Seq(Paths)
    BY <2>1, PathAndParentCovers
  <2>3. todo' \in Seq(Paths)
    BY <1>8, <2>2 DEF Succeeds
  <2> QED
    BY <1>0, <1>8, <2>3 DEF Succeeds, TypeOK
<1>9. CASE Fails
  BY <1>0, <1>9 DEF Fails, Zero, TypeOK, Versions
<1>10. CASE Drop
  <2>1. \A q \in Paths : cache'[q] \in Entries \cup {None}
    BY <1>0, <1>10, NoneIsNoEntry DEF Drop, TypeOK, EntryOK
  <2>2. cache' \in [Paths -> Entries \cup {None}]
    BY <1>10, <2>1 DEF Drop
  <2>3. todo' \in Seq(Paths)
    BY <1>0, <1>10 DEF Drop, TypeOK
  <2>4. raced' \in [Panels -> BOOLEAN]
    BY <1>p, <1>10 DEF Drop
  <2> QED
    BY <1>0, <1>10, <2>2, <2>3, <2>4 DEF Drop, TypeOK
<1>11. CASE Finish
  BY <1>0, <1>11 DEF Finish, Zero, TypeOK, Versions
<1>12. CASE Clear
  BY <1>0, <1>12, NoneIsNoEntry DEF Clear, TypeOK, EntryOK
<1>13. CASE UNCHANGED vars
  BY <1>0, <1>13 DEF vars, TypeOK
<1> QED
  BY <1>1, <1>2, <1>3, <1>4, <1>5, <1>6, <1>7, <1>8, <1>9, <1>10, <1>11, <1>12, <1>13 DEF Next

\* No step makes a listing of q older than n appear, once q has n changes and
\* nobody holds an older one.
LEMMA FreshStays ==
    ASSUME IInv, [Next]_vars, NEW q \in Paths, NEW n \in Versions, n <= ver[q], Fresh(q, n)
    PROVE  Fresh(q, n)'
<1> USE ListingAssumption DEF ListingAssumption, panel, worker
<1>0. TypeOK
  BY DEF IInv
<1>p. /\ \A x \in Paths : /\ EntryOK(cache[x]) /\ cache[x].ver \in Versions \cup {-1}
                          /\ ver[x] \in Versions /\ own[x] \in Versions /\ made[x] \in Versions
      /\ \A t \in Panels : dir[t] \in Paths /\ read[t] \in Versions \cup {-1} /\ raced[t] \in BOOLEAN
  BY <1>0, Parts
<1>a. /\ cache[q].ver >= 0 /\ ~cache[q].raced => cache[q].ver >= n
      /\ \A t \in Panels : pc[t] = "store" /\ dir[t] = q /\ ~raced[t] => read[t] >= n
  BY DEF Fresh, Cached
<1> SUFFICES /\ cache'[q].ver >= 0 /\ ~cache'[q].raced => cache'[q].ver >= n
             /\ \A t \in Panels : pc'[t] = "store" /\ dir'[t] = q /\ ~raced'[t] => read'[t] >= n
  BY DEF Fresh, Cached
<1>1. ASSUME NEW x \in Paths, OtherAppChanges(x)
      PROVE  UNCHANGED <<cache, panel>>
  BY <1>1 DEF OtherAppChanges
<1>2. CASE UNCHANGED <<cache, panel>>
  BY <1>a, <1>2
<1>3. CASE Tick
  <2>1. cache'[q].ver = cache[q].ver /\ cache'[q].raced = cache[q].raced
    BY <1>p, <1>3, AgedEntry DEF Tick
  <2> QED
    BY <1>a, <1>3, <2>1 DEF Tick
<1>4. ASSUME NEW k \in 1..MaxBack, ClockSetBack(k)
      PROVE  cache'[q].ver = cache[q].ver /\ cache'[q].raced = cache[q].raced /\ UNCHANGED panel
  <2>1. cache[q].age \in Ages
    BY <1>p, EntryFields
  <2>2. cache[q].ver >= 0 => cache[q].age >= 0
    BY <1>4, <2>1 DEF IInv, AgesAreClose, ClockSetBack, Cached, Ages, Oldest
  <2> QED
    BY <1>p, <1>4, <2>2, PutBackEntry DEF ClockSetBack
<1>5. CASE \E k \in 1..MaxBack : ClockSetBack(k)
  BY <1>a, <1>4, <1>5
<1>6. ASSUME NEW t \in Panels, NEW x \in Paths, ListDirectory(t, x)
      PROVE  /\ cache'[q] = cache[q] \/ cache'[q] = None
             /\ \A u \in Panels : pc'[u] = "store" =>
                  pc[u] = "store" /\ dir'[u] = dir[u] /\ raced'[u] = raced[u] /\ read'[u] = read[u]
  BY <1>0, <1>6 DEF ListDirectory, Hit, Miss, vars, TypeOK
<1>7. CASE \E t \in Panels, x \in Paths : ListDirectory(t, x)
  BY <1>a, <1>6, <1>7, NoneIsNoEntry
<1>8. ASSUME NEW t \in Panels, CheckIsDirectory(t) \/ ThroughSymlink(t) \/ ListFails(t)
      PROVE  /\ UNCHANGED cache
             /\ \A u \in Panels : pc'[u] = "store" =>
                  pc[u] = "store" /\ dir'[u] = dir[u] /\ raced'[u] = raced[u] /\ read'[u] = read[u]
  <2>1. CASE CheckIsDirectory(t)
    BY <1>0, <2>1 DEF CheckIsDirectory, TypeOK
  <2>2. CASE ThroughSymlink(t)
    BY <1>0, <2>2 DEF ThroughSymlink, TypeOK
  <2>3. CASE ListFails(t)
    BY <1>0, <2>3 DEF ListFails, Returns, TypeOK
  <2> QED
    BY <1>8, <2>1, <2>2, <2>3
<1>9. ASSUME NEW t \in Panels, SyncList(t)
      PROVE  /\ UNCHANGED <<cache, dir, raced>> /\ read'[t] = ver[dir[t]]
             /\ \A u \in Panels : u # t => pc'[u] = pc[u] /\ read'[u] = read[u]
  BY <1>0, <1>9 DEF SyncList, TypeOK
<1>10. CASE \E t \in Panels : SyncList(t)
  <2> PICK t \in Panels : SyncList(t)
    BY <1>10
  <2>1. ASSUME NEW u \in Panels, pc'[u] = "store" /\ dir'[u] = q /\ ~raced'[u]
        PROVE  read'[u] >= n
    BY <1>a, <1>9, <2>1
  <2> QED
    BY <1>a, <1>9, <2>1
<1>11. ASSUME NEW t \in Panels, Store(t)
       PROVE  /\ pc[t] = "store" /\ pc'[t] = "idle"
              /\ cache'[q] = IF dir[t] = q
                    THEN [ver |-> read[t], age |-> 0, real |-> 0, raced |-> raced[t]] ELSE cache[q]
              /\ \A u \in Panels : u # t =>
                   pc'[u] = pc[u] /\ dir'[u] = dir[u] /\ raced'[u] = raced[u] /\ read'[u] = read[u]
  BY <1>0, <1>11 DEF Store, Returns, TypeOK
<1>12. CASE \E t \in Panels : Store(t)
  <2> PICK t \in Panels : Store(t)
    BY <1>12
  <2>1. CASE dir[t] = q
    <3>0. read[t] \in Versions /\ raced[t] \in BOOLEAN
      BY <1>0, <1>p, <1>11 DEF TypeOK
    <3>a. cache'[q] = [ver |-> read[t], age |-> 0, real |-> 0, raced |-> raced[t]]
      BY <1>11, <2>1
    <3>1. cache'[q].ver = read[t] /\ cache'[q].raced = raced[t]
      BY <3>0, <3>a, StoredEntry
    <3> QED
      BY <1>a, <1>11, <2>1, <3>1
  <2>2. CASE dir[t] # q
    BY <1>a, <1>11, <2>2
  <2> QED
    BY <2>1, <2>2
<1>13. CASE Drop
  <2>1. cache'[q] = cache[q] \/ cache'[q] = None
    BY <1>13 DEF Drop
  <2>2. \A u \in Panels : ~raced'[u] => ~raced[u]
    BY <1>13, <1>p DEF Drop
  <2> QED
    BY <1>a, <1>13, <2>1, <2>2, NoneIsNoEntry DEF Drop
<1>14. CASE Clear
  BY <1>a, <1>14, NoneIsNoEntry DEF Clear
<1>15. ASSUME NEW o \in Operations, Begin(o) PROVE UNCHANGED <<cache, panel>>
  BY <1>15 DEF Begin
<1>16. CASE TakesEffect \/ Succeeds \/ Fails \/ Finish \/ UNCHANGED vars
  <2>1. UNCHANGED <<cache, panel>>
    BY <1>16 DEF TakesEffect, Succeeds, Fails, Finish, vars
  <2> QED
    BY <1>2, <2>1
<1>17. CASE \E t \in Panels : CheckIsDirectory(t) \/ ThroughSymlink(t) \/ ListFails(t)
  BY <1>a, <1>8, <1>17
<1> QED
  BY <1>1, <1>2, <1>3, <1>5, <1>7, <1>10, <1>12, <1>13, <1>14, <1>15, <1>16, <1>17 DEF Next, PanelRuns

\* What the plugin has done is in the past.
LEMMA OwnIsPastStep == IInv /\ [Next]_vars => OwnIsPast'
<1> SUFFICES ASSUME IInv, [Next]_vars, NEW q \in Paths
             PROVE  own'[q] <= ver'[q] /\ made'[q] <= ver'[q]
  BY DEF OwnIsPast
<1> USE ListingAssumption DEF ListingAssumption, panel, worker
<1>0. TypeOK /\ own[q] <= ver[q] /\ made[q] <= ver[q]
  BY DEF IInv, OwnIsPast
<1>p. ver[q] \in Nat /\ own[q] \in Nat /\ made[q] \in Nat
  BY <1>0, Parts DEF Versions
<1>1. ASSUME NEW x \in Paths, OtherAppChanges(x) PROVE own'[q] <= ver'[q] /\ made'[q] <= ver'[q]
  BY <1>0, <1>p, <1>1 DEF OtherAppChanges, Changed
<1>2. CASE UNCHANGED <<ver, made, own>>
  BY <1>0, <1>2
<1>3. ASSUME NEW o \in Operations, Begin(o) PROVE own'[q] <= ver'[q] /\ made'[q] <= ver'[q]
  BY <1>0, <1>p, <1>3 DEF Begin, Zero
<1>4. CASE TakesEffect
  BY <1>0, <1>p, <1>4 DEF TakesEffect, Changed
<1>5. CASE Fails \/ Finish
  BY <1>0, <1>p, <1>5 DEF Fails, Finish, Zero
<1>6. CASE Tick \/ Succeeds \/ Drop \/ Clear \/ UNCHANGED vars
  BY <1>2, <1>6 DEF Tick, Succeeds, Drop, Clear, vars
<1>7. ASSUME NEW k \in 1..MaxBack, ClockSetBack(k) PROVE UNCHANGED <<ver, made, own>>
  BY <1>7 DEF ClockSetBack
<1>8. ASSUME NEW t \in Panels, PanelRuns(t) PROVE UNCHANGED <<ver, made, own>>
  BY <1>8 DEF PanelRuns, CheckIsDirectory, ThroughSymlink, ListFails, SyncList, Store
<1>9. ASSUME NEW t \in Panels, NEW x \in Paths, ListDirectory(t, x) PROVE UNCHANGED <<ver, made, own>>
  BY <1>9 DEF ListDirectory, Hit, Miss, vars
<1> QED
  BY <1>1, <1>2, <1>3, <1>4, <1>5, <1>6, <1>7, <1>8, <1>9 DEF Next

\* What finished operations have done stays in sight; what the last one did comes
\* into sight as it finishes.
LEMMA OwnIsFreshStep == IInv /\ [Next]_vars => OwnIsFresh'
<1> SUFFICES ASSUME IInv, [Next]_vars, NEW q \in Paths
             PROVE  Fresh(q, own[q])'
  BY DEF OwnIsFresh
<1>0. TypeOK /\ own[q] \in Versions /\ made[q] \in Versions
  BY Parts DEF IInv
<1>1. Fresh(q, own[q]) /\ own[q] <= ver[q] /\ made[q] <= ver[q]
  BY DEF IInv, OwnIsFresh, OwnIsPast
<1>2. ASSUME NEW m \in Versions, m <= ver[q], Fresh(q, m), own'[q] = m
      PROVE  Fresh(q, own[q])'
  <2>1. Fresh(q, m)'
    BY <1>2, FreshStays
  <2> QED
    BY <1>2, <2>1 DEF Fresh
<1>3. CASE own'[q] = own[q]
  BY <1>0, <1>1, <1>2, <1>3
<1>4. CASE own'[q] # own[q]
  <2>1. Finish
    BY <1>4 DEF Next, OtherAppChanges, Tick, ClockSetBack, ListDirectory, Hit, Miss, PanelRuns,
       CheckIsDirectory, ThroughSymlink, ListFails, SyncList, Store, Begin, TakesEffect,
       Succeeds, Fails, Drop, Clear, vars, worker
  <2>2. own'[q] = made[q] /\ made[q] > 0
    BY <1>0, <1>4, <2>1, ListingAssumption DEF ListingAssumption, Finish, Versions
  <2>3. ~ToBeDropped(q)
    BY <2>1 DEF Finish, ToBeDropped
  <2>4. Fresh(q, made[q])
    BY <2>1, <2>2, <2>3 DEF IInv, MadeIsDropped, Finish
  <2> QED
    BY <1>0, <1>1, <1>2, <2>2, <2>4
<1> QED
  BY <1>3, <1>4

\* The worker's invalidations reach everything its operation changed.
LEMMA MadeIsDroppedStep == IInv /\ [Next]_vars => MadeIsDropped'
<1> SUFFICES ASSUME IInv, [Next]_vars PROVE MadeIsDropped'
  OBVIOUS
<1> USE ListingAssumption DEF ListingAssumption, panel, worker
<1>0. TypeOK /\ MadeIsDropped /\ TypeOK'
  BY TypeStep DEF IInv
<1>p. \A q \in Paths : made[q] \in Versions /\ made[q] <= ver[q]
  BY <1>0, Parts DEF IInv, OwnIsPast
<1>1. ASSUME UNCHANGED <<wpc, op, todo, made>> PROVE MadeIsDropped'
  <2>1. ASSUME NEW q \in Paths, wpc = "drop", made[q] > 0, Fresh(q, made[q])
        PROVE  Fresh(q, made[q])'
    <3> PICK m \in Versions : m = made[q]
      BY <1>p
    <3>1. m <= ver[q] /\ Fresh(q, m)
      BY <1>p, <2>1
    <3>2. Fresh(q, m)'
      BY <3>1, FreshStays
    <3> QED
      BY <1>1, <3>2 DEF Fresh
  <2> QED
    BY <1>0, <1>1, <2>1 DEF MadeIsDropped, ToBeDropped
<1>2. ASSUME NEW o \in Operations, Begin(o) PROVE MadeIsDropped'
  BY <1>2 DEF Begin, Zero, MadeIsDropped
<1>3. CASE TakesEffect
  BY <1>0, <1>3 DEF TakesEffect, MadeIsDropped
<1>4. CASE Succeeds
  <2>1. op \in Operations /\ op.from \in Targets /\ op.to \in Targets /\ UNCHANGED made
    BY <1>0, <1>4 DEF Succeeds, MadeIsDropped
  <2> DEFINE a == PathAndParent(op.from)
             b == PathAndParent(op.to)
  <2>2. /\ a \in Seq(Paths) /\ \A q \in Shows(op.from) : \E i \in 1..Len(a) : q \in Below[a[i]]
        /\ b \in Seq(Paths) /\ \A q \in Shows(op.to) : \E i \in 1..Len(b) : q \in Below[b[i]]
    BY <2>1, PathAndParentCovers
  <2>3. todo' = a \o (IF op.to = op.from THEN <<>> ELSE b)
    BY <1>4 DEF Succeeds
  <2> HIDE DEF a, b
  <2>4. ASSUME NEW q \in Shows(op.from) PROVE \E i \in 1..Len(todo') : q \in Below[todo'[i]]
    <3>1. PICK i \in 1..Len(a) : q \in Below[a[i]]
      BY <2>2
    <3>2. i \in 1..Len(todo') /\ todo'[i] = a[i]
      BY <2>2, <2>3, <3>1
    <3> QED
      BY <3>1, <3>2
  <2>5. ASSUME NEW q \in Shows(op.to) PROVE \E i \in 1..Len(todo') : q \in Below[todo'[i]]
    <3>1. CASE op.to = op.from
      BY <2>4, <2>5, <3>1
    <3>2. CASE op.to # op.from
      <4>1. PICK i \in 1..Len(b) : q \in Below[b[i]]
        BY <2>2
      <4>2. todo' = a \o b
        BY <2>3, <3>2
      <4>3. Len(a) + i \in 1..Len(todo') /\ todo'[Len(a) + i] = b[i]
        BY <2>2, <4>1, <4>2
      <4> QED
        BY <4>1, <4>3
    <3> QED
      BY <3>1, <3>2
  <2>6. \A q \in Paths : made'[q] > 0 => ToBeDropped(q)'
    BY <1>0, <1>4, <2>1, <2>4, <2>5 DEF Succeeds, MadeIsDropped, Affected, ToBeDropped
  <2> QED
    BY <1>4, <2>6 DEF Succeeds, MadeIsDropped
<1>5. CASE Fails \/ Finish
  BY <1>5 DEF Fails, Finish, MadeIsDropped
<1>6. CASE Drop
  <2>1. ASSUME NEW q \in Paths, made'[q] > 0 PROVE ToBeDropped(q)' \/ Fresh(q, made[q])'
    <3>1. made'[q] = made[q] /\ todo \in Seq(Paths) /\ todo # <<>> /\ todo' = Tail(todo)
      BY <1>0, <1>6 DEF Drop, TypeOK
    <3>2. CASE q \in Below[Head(todo)]
      <4>1. cache'[q] = None
        BY <1>6, <3>2 DEF Drop
      <4>2. \A t \in Panels : pc'[t] = "store" /\ dir'[t] = q => raced'[t]
        BY <1>6, <3>2 DEF Drop
      <4> QED
        BY <4>1, <4>2, NoneIsNoEntry DEF Fresh, Cached
    <3>3. CASE q \notin Below[Head(todo)] /\ ToBeDropped(q)
      <4>1. PICK i \in 1..Len(todo) : q \in Below[todo[i]]
        BY <3>3 DEF ToBeDropped
      <4>2. i # 1
        BY <3>1, <3>3, <4>1
      <4>3. i - 1 \in 1..Len(todo') /\ todo'[i - 1] = todo[i]
        BY <3>1, <4>1, <4>2
      <4> QED
        BY <4>1, <4>3 DEF ToBeDropped
    <3>4. CASE ~ToBeDropped(q)
      <4>1. Fresh(q, made[q])
        BY <1>0, <1>6, <2>1, <3>1, <3>4 DEF MadeIsDropped, Drop
      <4> PICK m \in Versions : m = made[q]
        BY <1>p
      <4>2. m <= ver[q] /\ Fresh(q, m)
        BY <1>p, <4>1
      <4>3. Fresh(q, m)'
        BY <4>2, FreshStays
      <4> QED
        BY <3>1, <4>3 DEF Fresh
    <3> QED
      BY <3>2, <3>3, <3>4
  <2> QED
    BY <1>6, <2>1 DEF Drop, MadeIsDropped
<1>7. CASE Tick \/ Clear \/ UNCHANGED vars
  BY <1>1, <1>7 DEF Tick, Clear, vars
<1>8. ASSUME NEW x \in Paths, OtherAppChanges(x) PROVE MadeIsDropped'
  BY <1>1, <1>8 DEF OtherAppChanges
<1>9. ASSUME NEW k \in 1..MaxBack, ClockSetBack(k) PROVE MadeIsDropped'
  BY <1>1, <1>9 DEF ClockSetBack
<1>10. ASSUME NEW t \in Panels, PanelRuns(t) PROVE MadeIsDropped'
  BY <1>1, <1>10 DEF PanelRuns, CheckIsDirectory, ThroughSymlink, ListFails, SyncList, Store
<1>11. ASSUME NEW t \in Panels, NEW x \in Paths, ListDirectory(t, x) PROVE MadeIsDropped'
  BY <1>1, <1>11 DEF ListDirectory, Hit, Miss, vars
<1> QED
  BY <1>2, <1>3, <1>4, <1>5, <1>6, <1>7, <1>8, <1>9, <1>10, <1>11 DEF Next

\* The two ages of an entry stay within what the clock was set back.
LEMMA AgesAreCloseStep == IInv /\ [Next]_vars => AgesAreClose'
<1> SUFFICES ASSUME IInv, [Next]_vars, NEW q \in Paths, cache'[q].ver >= 0
             PROVE  cache'[q].real <= cache'[q].age + back' /\ cache'[q].age + back' >= 0
  BY DEF AgesAreClose, Cached
<1> USE ListingAssumption DEF ListingAssumption, panel, worker
<1>0. TypeOK /\ AgesAreClose
  BY DEF IInv
<1>p. /\ EntryOK(cache[q]) /\ cache[q].age \in Ages /\ cache[q].real \in 0..Oldest
      /\ cache[q].ver \in Versions \cup {-1} /\ back \in 0..MaxBack
  BY <1>0, Parts, EntryFields DEF TypeOK
<1>a. cache[q].ver >= 0 => cache[q].real <= cache[q].age + back /\ cache[q].age + back >= 0
  BY <1>0 DEF AgesAreClose, Cached
<1>1. CASE UNCHANGED back /\ (cache'[q] = cache[q] \/ cache'[q] = None)
  BY <1>a, <1>1, NoneIsNoEntry
<1>2. CASE Tick
  <2>1. cache'[q] = Aged(cache[q]) /\ back' = back
    BY <1>2 DEF Tick
  <2>2. cache[q].ver >= 0 /\ cache'[q].age = OneMore(cache[q].age) /\ cache'[q].real = OneMore(cache[q].real)
    BY <1>p, <2>1, AgedEntry
  <2> QED
    BY <1>p, <1>a, <2>1, <2>2 DEF OneMore, Oldest, Ages
<1>3. ASSUME NEW k \in 1..MaxBack, ClockSetBack(k)
      PROVE  cache'[q].real <= cache'[q].age + back' /\ cache'[q].age + back' >= 0
  <2>1. cache'[q] = PutBack(cache[q], k) /\ back' = k /\ back = 0
    BY <1>3 DEF ClockSetBack
  <2>2. cache[q].ver >= 0 => cache[q].age >= 0
    BY <1>p, <1>a, <2>1 DEF Ages
  <2>3. cache[q].ver >= 0 /\ cache'[q].age = cache[q].age - k /\ cache'[q].real = cache[q].real
    BY <1>p, <2>1, <2>2, PutBackEntry
  <2> QED
    BY <1>p, <1>a, <2>1, <2>3 DEF Ages, Oldest
<1>4. ASSUME NEW t \in Panels, Store(t), dir[t] = q
      PROVE  cache'[q].real <= cache'[q].age + back' /\ cache'[q].age + back' >= 0
  <2>1. read[t] \in Versions /\ raced[t] \in BOOLEAN
    BY <1>0, <1>4 DEF Store, TypeOK
  <2>2. cache'[q].age = 0 /\ cache'[q].real = 0 /\ back' = back
    BY <1>0, <1>4, <2>1, StoredEntry DEF Store, TypeOK
  <2> QED
    BY <1>p, <2>2
<1>5. ASSUME NEW t \in Panels, PanelRuns(t), ~(Store(t) /\ dir[t] = q)
      PROVE  UNCHANGED back /\ cache'[q] = cache[q]
  BY <1>0, <1>5 DEF PanelRuns, CheckIsDirectory, ThroughSymlink, ListFails, SyncList, Store, TypeOK
<1>6. ASSUME NEW t \in Panels, NEW x \in Paths, ListDirectory(t, x)
      PROVE  UNCHANGED back /\ (cache'[q] = cache[q] \/ cache'[q] = None)
  BY <1>0, <1>6 DEF ListDirectory, Hit, Miss, vars, TypeOK
<1>7. CASE Drop \/ Clear \/ UNCHANGED vars \/ TakesEffect \/ Succeeds \/ Fails \/ Finish
  <2>1. UNCHANGED back /\ (cache'[q] = cache[q] \/ cache'[q] = None)
    BY <1>7 DEF Drop, Clear, TakesEffect, Succeeds, Fails, Finish, vars
  <2> QED
    BY <1>1, <2>1
<1>8. ASSUME NEW o \in Operations, Begin(o) PROVE UNCHANGED <<back, cache>>
  BY <1>8 DEF Begin
<1>9. ASSUME NEW x \in Paths, OtherAppChanges(x) PROVE UNCHANGED <<back, cache>>
  BY <1>9 DEF OtherAppChanges
<1> QED
  BY <1>1, <1>2, <1>3, <1>4, <1>5, <1>6, <1>7, <1>8, <1>9 DEF Next

-----------------------------------------------------------------------------
LEMMA Invariance == Spec => []IInv
<1>1. Init => IInv
  BY Initially
<1>2. IInv /\ [Next]_vars => IInv'
  BY TypeStep, OwnIsPastStep, OwnIsFreshStep, MadeIsDroppedStep, AgesAreCloseStep DEF IInv
<1> QED
  BY <1>1, <1>2, PTL DEF Spec

\* Every variable of the cache and of both threads keeps its range.
THEOREM TypeCorrect == Spec => []TypeOK
<1>1. IInv => TypeOK
  BY DEF IInv
<1> QED
  BY <1>1, Invariance, PTL

\* The plugin's finished changes are in every cached listing that no invalidation
\* overtook, for any number of panels, directories and changes.
THEOREM OwnChangesAreShown == Spec => []OwnChangesShow
<1>1. IInv => OwnChangesShow
  BY DEF IInv, OwnIsFresh, Fresh, OwnChangesShow
<1> QED
  BY <1>1, Invariance, PTL

\* What get() hands out is younger than the time to live, give or take what the
\* wall clock was set back.
THEOREM ServedAreYoung == Spec => []ServedIsYoung
<1>1. IInv => ServedIsYoung
  <2> SUFFICES ASSUME IInv, NEW q \in Paths, Live(cache[q])
               PROVE  cache[q].real < TTL + back
    BY DEF ServedIsYoung
  <2>1. TypeOK /\ cache[q].age \in Ages /\ cache[q].real \in 0..Oldest /\ back \in 0..MaxBack
    BY Parts, EntryFields DEF IInv, TypeOK
  <2>2. cache[q].real <= cache[q].age + back /\ cache[q].age < TTL
    BY DEF IInv, AgesAreClose, Live, Cached
  <2> QED
    BY <2>1, <2>2, ListingAssumption DEF ListingAssumption, Ages, Oldest
<1> QED
  BY <1>1, Invariance, PTL
=============================================================================
