--------------------- MODULE WorkbenchContextCacheProofs ---------------------
(***************************************************************************)
(* Proofs about WorkbenchContextCache, for every number of requests,       *)
(* symbols, builds and clears and for every limit: the limit on the builds *)
(* under way holds, a build is shared unless a clear has cut it off, only   *)
(* the close of the cache cancels a build, a build cut off stores nothing, *)
(* and every variable keeps its type.                                      *)
(*                                                                         *)
(* None of them is inductive.  CacheInv adds that a build under way is      *)
(* owned, which is what lets the limit count the owned ones, and that one  *)
(* begun since the last clear is still the shared build of its symbol,     *)
(* which is what lets the next request find it.  EntriesInv, which rests   *)
(* on it, adds that a shared build is of the time since the last clear,    *)
(* and that the entries are of different symbols: an entry stored twice    *)
(* would survive the removal of its symbol.                                *)
(***************************************************************************)
EXTENDS WorkbenchContextCache, FiniteSetTheorems, SequenceTheorems, TLAPS

BuildRecord ==
    [sym : Symbols \cup {NoBuild}, st : DoneStates \cup {"none", "running", "cancelling"}]

BuildsTyped ==
    /\ inflight \in [Symbols -> Builds \cup {NoBuild}]
    /\ owned \in SUBSET Builds
    /\ build \in [Builds -> BuildRecord]
    /\ born \in [Builds -> Nat]
    /\ clears \in Nat
    /\ closed \in BOOLEAN

\* A build under way is owned and has a symbol.
UndoneIsOwned ==
    \A b \in Builds : Undone(b) => b \in owned /\ SymbolOf(b) \in Symbols

\* No build was begun after a clear that is still to come.
BornInThePast == \A b \in Builds : born[b] <= clears

\* Until the close, a build begun since the last clear is the one to share.
RecentIsShared ==
    ~closed => \A b \in Builds : Undone(b) /\ born[b] = clears => inflight[SymbolOf(b)] = b

CacheInv ==
    /\ BuildsTyped
    /\ UndoneIsOwned
    /\ BornInThePast
    /\ RecentIsShared
    /\ BuildsBounded
    /\ BuildIsShared
    /\ OnlyCloseCancels

-----------------------------------------------------------------------------
\* The builds under way in the next state are among those of this one, each
\* with its symbol and its birth: all that most steps do to them.
FewerBuilds ==
    /\ \A b \in Builds : Undone(b)' => Undone(b) /\ SymbolOf(b)' = SymbolOf(b)
    /\ UNCHANGED born

LEMMA UndoneFinite ==
    ASSUME WorkbenchAssumption, NEW S \in SUBSET Builds
    PROVE  IsFiniteSet(S) /\ Cardinality(S) \in Nat
BY FS_Subset, FS_CardinalityType DEF WorkbenchAssumption

\* With fewer builds under way, the limit still holds.
LEMMA FewerBuildsBounded ==
    ASSUME WorkbenchAssumption, CacheInv, FewerBuilds
    PROVE  BuildsBounded'
<1> DEFINE S == {b \in Builds : Undone(b)}
           T == {b \in Builds : Undone(b)'}
<1>1. T \in SUBSET S /\ IsFiniteSet(S)
  BY UndoneFinite DEF FewerBuilds
<1>2. Cardinality(T) <= Cardinality(S)
  BY <1>1, FS_Subset
<1>3. Cardinality(S) \in Nat /\ Cardinality(T) \in Nat
  BY UndoneFinite
<1>4. Cardinality(S) <= MaxInflight
  BY DEF CacheInv, BuildsBounded
<1>5. Cardinality(T) <= MaxInflight
  <2> HIDE DEF S, T
  <2> QED BY <1>2, <1>3, <1>4 DEF WorkbenchAssumption
<1> QED BY <1>5 DEF BuildsBounded

LEMMA FewerBuildsShared ==
    ASSUME CacheInv, FewerBuilds
    PROVE  BuildIsShared'
BY DEF CacheInv, FewerBuilds, BuildIsShared

\* What is left to show of a step that begins no build.
LEMMA FewerBuildsKeep ==
    ASSUME WorkbenchAssumption, CacheInv, FewerBuilds, BuildsTyped',
           UndoneIsOwned', BornInThePast', RecentIsShared', OnlyCloseCancels'
    PROVE  CacheInv'
BY FewerBuildsBounded, FewerBuildsShared DEF CacheInv

-----------------------------------------------------------------------------
\* A new build: there was room for it, and it is born in the present, when no
\* build of its symbol is under way.
LEMMA BuildBegun ==
    ASSUME WorkbenchAssumption, CacheInv, ~closed, HasRoom,
           NEW s \in Symbols, NEW b \in Builds,
           inflight[s] = NoBuild, Unborn(b),
           build' = [build EXCEPT ![b] = [sym |-> s, st |-> "running"]],
           born' = [born EXCEPT ![b] = clears],
           owned' = owned \cup {b},
           inflight' = [inflight EXCEPT ![s] = b],
           UNCHANGED <<clears, closed>>
    PROVE  CacheInv'
<1>1. BuildsTyped'
  BY DEF CacheInv, BuildsTyped, BuildRecord
<1>2. Undone(b)' /\ SymbolOf(b)' = s /\ born'[b] = clears /\ ~Undone(b)
  BY DEF CacheInv, BuildsTyped, Undone, SymbolOf, Unborn
<1>3. ASSUME NEW a \in Builds, a # b
      PROVE  /\ Undone(a)' <=> Undone(a)
             /\ SymbolOf(a)' = SymbolOf(a)
             /\ born'[a] = born[a]
             /\ build'[a] = build[a]
  BY <1>3 DEF CacheInv, BuildsTyped, Undone, SymbolOf
<1>4. UndoneIsOwned'
  BY <1>2, <1>3 DEF CacheInv, UndoneIsOwned
<1>5. BornInThePast'
  BY <1>2, <1>3 DEF CacheInv, BornInThePast, BuildsTyped
<1>6. ASSUME NEW a \in Builds, Undone(a), SymbolOf(a) = s
      PROVE  born[a] # clears
  BY <1>6 DEF CacheInv, RecentIsShared, WorkbenchAssumption
<1>7. RecentIsShared'
  <2> SUFFICES ASSUME NEW a \in Builds, Undone(a)', born'[a] = clears'
               PROVE  inflight'[SymbolOf(a)'] = a
    BY DEF RecentIsShared, SymbolOf, Undone
  <2>1. CASE a = b
    BY <2>1, <1>2 DEF CacheInv, BuildsTyped
  <2>2. CASE a # b
    <3>1. Undone(a) /\ born[a] = clears /\ SymbolOf(a) \in Symbols
      BY <2>2, <1>3 DEF CacheInv, UndoneIsOwned
    <3>2. SymbolOf(a) # s /\ inflight[SymbolOf(a)] = a
      BY <3>1, <1>6 DEF CacheInv, RecentIsShared
    <3> QED BY <2>2, <1>3, <3>1, <3>2 DEF CacheInv, BuildsTyped
  <2> QED BY <2>1, <2>2
<1>8. BuildsBounded'
  <2> DEFINE S == {a \in Builds : Undone(a)}
             O == {a \in owned : Undone(a)}
             T == {a \in Builds : Undone(a)'}
  <2>1. S \in SUBSET Builds /\ S = O /\ T = S \cup {b} /\ b \notin S
    BY <1>2, <1>3 DEF CacheInv, UndoneIsOwned, BuildsTyped
  <2>2. IsFiniteSet(S) /\ Cardinality(S) \in Nat
    BY UndoneFinite
  <2>3. Cardinality(S) < MaxInflight
    <3>1. Cardinality(O) < MaxInflight
      BY DEF HasRoom
    <3> HIDE DEF S, O
    <3> QED BY <3>1, <2>1
  <2>4. Cardinality(T) <= MaxInflight
    <3> HIDE DEF S, T, O
    <3>1. Cardinality(T) = Cardinality(S) + 1
      BY <2>1, <2>2, FS_AddElement
    <3> QED BY <3>1, <2>2, <2>3 DEF WorkbenchAssumption
  <2> QED BY <2>4 DEF BuildsBounded
<1>9. BuildIsShared'
  <2> SUFFICES ASSUME NEW a \in Builds, NEW c \in Builds, Undone(a)', Undone(c)',
                      SymbolOf(a)' = SymbolOf(c)', a # c
               PROVE  born'[a] # born'[c]
    BY DEF BuildIsShared
  <2>1. CASE a = b
    BY <2>1, <1>2, <1>3, <1>6
  <2>2. CASE c = b
    BY <2>2, <1>2, <1>3, <1>6
  <2>3. CASE a # b /\ c # b
    BY <2>3, <1>3 DEF CacheInv, BuildIsShared
  <2> QED BY <2>1, <2>2, <2>3
<1>10. OnlyCloseCancels'
  <2>1. build'[b].st = "running"
    BY DEF CacheInv, BuildsTyped
  <2> QED BY <2>1, <1>3 DEF CacheInv, OnlyCloseCancels
<1> QED BY <1>1, <1>4, <1>5, <1>7, <1>8, <1>9, <1>10 DEF CacheInv

-----------------------------------------------------------------------------
\* A step that changes no build keeps the invariant.
LEMMA BuildsUnchanged ==
    ASSUME CacheInv, UNCHANGED <<inflight, owned, build, born, clears, closed>>
    PROVE  CacheInv'
BY DEF CacheInv, BuildsTyped, UndoneIsOwned, BornInThePast, RecentIsShared, BuildsBounded,
       BuildIsShared, OnlyCloseCancels, Undone, SymbolOf, DoneStates, BuildRecord

LEMMA GetKeeps ==
    ASSUME WorkbenchAssumption, CacheInv,
           NEW c \in Clients, NEW s \in Symbols, NEW useCache \in BOOLEAN,
           Get(c, s, useCache)
    PROVE  CacheInv'
<1>1. CASE UNCHANGED buildVars
  BY <1>1, BuildsUnchanged DEF Get, buildVars
<1>2. CASE ~closed /\ Begin(c, s, useCache) /\ HasRoom
  BY <1>2, BuildBegun DEF Begin, Get
<1> QED BY <1>1, <1>2 DEF Get, Hit, Join, Begin

\* A build that ends is no longer under way; the others are as they were.
LEMMA BuildEndsKeeps ==
    ASSUME WorkbenchAssumption, CacheInv, NEW b \in Builds, BuildEnds(b)
    PROVE  CacheInv'
<1>1. PICK st \in DoneStates :
         /\ build' = [build EXCEPT ![b] = [sym |-> SymbolOf(b), st |-> st]]
         /\ st = "cancelled" => build[b].st = "cancelling"
  BY DEF BuildEnds, Undone, DoneStates
<1>2. BuildsTyped'
  BY <1>1 DEF BuildEnds, CacheInv, BuildsTyped, BuildRecord, SymbolOf, DoneStates
<1>3. /\ build'[b].st = st
      /\ \A a \in Builds : SymbolOf(a)' = SymbolOf(a) /\ (a # b => build'[a] = build[a])
  BY <1>1 DEF CacheInv, BuildsTyped, BuildRecord, SymbolOf
<1>4. \A a \in Builds : Undone(a)' => Undone(a)
  BY <1>3 DEF Undone, DoneStates
<1>5. FewerBuilds
  BY <1>3, <1>4 DEF FewerBuilds, BuildEnds
<1>6. UndoneIsOwned'
  BY <1>3, <1>4 DEF CacheInv, UndoneIsOwned, BuildEnds
<1>7. BornInThePast'
  BY DEF CacheInv, BornInThePast, BuildEnds
<1>8. RecentIsShared'
  BY <1>3, <1>4 DEF CacheInv, RecentIsShared, BuildEnds
<1>9. OnlyCloseCancels'
  BY <1>1, <1>3 DEF CacheInv, OnlyCloseCancels, BuildEnds, DoneStates
<1> QED BY <1>2, <1>5, <1>6, <1>7, <1>8, <1>9, FewerBuildsKeep

\* The callback of a done build takes no build under way out of _inflight or
\* of _owned_tasks.
LEMMA BuildFinalizedKeeps ==
    ASSUME WorkbenchAssumption, CacheInv, NEW b \in Builds, BuildFinalized(b)
    PROVE  CacheInv'
<1>1. ~Undone(b) /\ \A a \in Builds : Undone(a)' = Undone(a) /\ SymbolOf(a)' = SymbolOf(a)
  BY DEF BuildFinalized, Unfinalized, Undone, DoneStates, SymbolOf
<1>2. BuildsTyped'
  BY DEF BuildFinalized, Finalize, CacheInv, BuildsTyped, BuildRecord, DoneStates
<1>3. FewerBuilds
  BY <1>1 DEF FewerBuilds, BuildFinalized
<1>4. UndoneIsOwned'
  BY <1>1 DEF CacheInv, UndoneIsOwned, BuildFinalized, Finalize
<1>5. BornInThePast'
  BY DEF CacheInv, BornInThePast, BuildFinalized
<1>6. RecentIsShared'
  <2> SUFFICES ASSUME ~closed, NEW a \in Builds, Undone(a), born[a] = clears
               PROVE  inflight'[SymbolOf(a)] = a
    BY <1>1 DEF RecentIsShared, BuildFinalized
  <2>1. inflight[SymbolOf(a)] = a /\ SymbolOf(a) \in Symbols
    BY DEF CacheInv, RecentIsShared, UndoneIsOwned
  <2>2. a # b
    BY <1>1
  <2> QED BY <2>1, <2>2 DEF BuildFinalized, Finalize
<1>7. OnlyCloseCancels'
  BY DEF CacheInv, OnlyCloseCancels, BuildFinalized
<1> QED BY <1>2, <1>3, <1>4, <1>5, <1>6, <1>7, FewerBuildsKeep

\* After a clear no build was begun since the last one: the builds under way
\* may be joined no more, and need not be.
LEMMA ClearKeeps ==
    ASSUME WorkbenchAssumption, CacheInv, Clear
    PROVE  CacheInv'
<1>1. \A a \in Builds : Undone(a)' = Undone(a) /\ SymbolOf(a)' = SymbolOf(a)
  BY DEF Clear, Undone, SymbolOf
<1>2. BuildsTyped'
  BY DEF Clear, CacheInv, BuildsTyped, BuildRecord, DoneStates
<1>3. FewerBuilds
  BY <1>1 DEF FewerBuilds, Clear
<1>4. UndoneIsOwned'
  BY <1>1 DEF CacheInv, UndoneIsOwned, Clear
<1>5. \A a \in Builds : born'[a] < clears'
  BY DEF CacheInv, BornInThePast, BuildsTyped, Clear
<1>6. BornInThePast' /\ RecentIsShared'
  BY <1>2, <1>5 DEF BornInThePast, RecentIsShared, BuildsTyped
<1>7. OnlyCloseCancels'
  BY DEF CacheInv, OnlyCloseCancels, Clear
<1> QED BY <1>2, <1>3, <1>4, <1>6, <1>7, FewerBuildsKeep

\* The close cancels every build that runs, since it owns them all.
LEMMA CloseKeeps ==
    ASSUME WorkbenchAssumption, CacheInv, Close
    PROVE  CacheInv'
<1>1. ASSUME NEW a \in Builds
      PROVE  /\ build'[a].sym = build[a].sym
             /\ build'[a].st = IF a \in owned /\ build[a].st = "running" THEN "cancelling"
                               ELSE build[a].st
             /\ build'[a] \in BuildRecord
  BY DEF Close, CacheInv, BuildsTyped, BuildRecord, SymbolOf
<1>2. build' \in [Builds -> BuildRecord]
  BY <1>1 DEF Close
<1>3. BuildsTyped'
  BY <1>2 DEF Close, CacheInv, BuildsTyped, BuildRecord, DoneStates
<1>4. \A a \in Builds : Undone(a)' = Undone(a) /\ SymbolOf(a)' = SymbolOf(a)
  BY <1>1 DEF Undone, SymbolOf
<1>5. FewerBuilds
  BY <1>4 DEF FewerBuilds, Close
<1>6. UndoneIsOwned'
  BY <1>4 DEF CacheInv, UndoneIsOwned, Close
<1>7. BornInThePast' /\ RecentIsShared'
  BY DEF CacheInv, BornInThePast, RecentIsShared, Close
<1>8. OnlyCloseCancels'
  BY <1>1 DEF CacheInv, OnlyCloseCancels, UndoneIsOwned, Undone, Close
<1> QED BY <1>3, <1>5, <1>6, <1>7, <1>8, FewerBuildsKeep

LEMMA InitHasCacheInv ==
    ASSUME WorkbenchAssumption, Init
    PROVE  CacheInv
<1>1. \A b \in Builds : ~Undone(b) /\ build[b].st = "none"
  BY DEF Init, Undone
<1>2. BuildsBounded
  <2>1. {b \in Builds : Undone(b)} = {}
    BY <1>1
  <2> QED BY <2>1, FS_EmptySet DEF BuildsBounded, WorkbenchAssumption
<1>3. BuildsTyped
  BY DEF Init, BuildsTyped, BuildRecord, DoneStates
<1> QED BY <1>1, <1>2, <1>3 DEF Init, CacheInv, UndoneIsOwned, BornInThePast, RecentIsShared,
                               BuildIsShared, OnlyCloseCancels, BuildsTyped

LEMMA CacheInvInductive ==
    ASSUME WorkbenchAssumption, CacheInv, [Next]_vars
    PROVE  CacheInv'
<1>1. CASE \E c \in Clients, s \in Symbols, useCache \in BOOLEAN : Get(c, s, useCache)
  BY <1>1, GetKeeps
<1>2. CASE \E c \in Clients : Answered(c) \/ ClientCancelled(c)
  BY <1>2, BuildsUnchanged DEF Answered, ClientCancelled, buildVars
<1>3. CASE \E b \in Builds : BuildEnds(b)
  BY <1>3, BuildEndsKeeps
<1>4. CASE \E b \in Builds : BuildFinalized(b)
  BY <1>4, BuildFinalizedKeeps
<1>5. CASE Clear
  BY <1>5, ClearKeeps
<1>6. CASE Close
  BY <1>6, CloseKeeps
<1>7. CASE UNCHANGED vars
  BY <1>7, BuildsUnchanged DEF vars, buildVars
<1> QED BY <1>1, <1>2, <1>3, <1>4, <1>5, <1>6, <1>7 DEF Next

-----------------------------------------------------------------------------
(* The cached contexts.                                                    *)

\* A sequence of builds no two of which are of one symbol: a dict's values.
Keyed(seq) ==
    /\ seq \in Seq(Builds)
    /\ \A i, j \in DOMAIN seq : i # j => SymbolOf(seq[i]) # SymbolOf(seq[j])

\* Every place of seq is filled from a place of its own of old.
Drawn(seq, old) ==
    /\ seq \in Seq(Builds)
    /\ \E from \in [DOMAIN seq -> DOMAIN old] :
          /\ \A i, j \in DOMAIN seq : i # j => from[i] # from[j]
          /\ \A i \in DOMAIN seq : seq[i] = old[from[i]]

LEMMA DrawnIsKeyed ==
    ASSUME NEW old, Keyed(old), NEW seq, Drawn(seq, old)
    PROVE  Keyed(seq) /\ \A i \in DOMAIN seq : \E j \in DOMAIN old : seq[i] = old[j]
BY DEF Drawn, Keyed

\* Removing the entry of a symbol leaves all others and nothing of that symbol.
LEMMA WithoutDraws ==
    ASSUME NEW s, Keyed(entries)
    PROVE  /\ Drawn(Without(s), entries)
           /\ Len(Without(s)) <= Len(entries)
           /\ \A i \in DOMAIN Without(s) : SymbolOf(Without(s)[i]) # s
<1>1. entries \in Seq(Builds) /\ Len(entries) \in Nat /\ DOMAIN entries = 1..Len(entries)
  BY LenProperties DEF Keyed
<1>2. CASE Cached(s) = {}
  <2>1. Without(s) = entries
    BY <1>2 DEF Without
  <2>2. Drawn(entries, entries)
    <3>1. [i \in DOMAIN entries |-> i] \in [DOMAIN entries -> DOMAIN entries]
      OBVIOUS
    <3> QED BY <1>1, <3>1 DEF Drawn
  <2> QED BY <1>1, <1>2, <2>1, <2>2 DEF Cached
<1>3. CASE Cached(s) # {}
  <2>1. PICK k \in Cached(s) : Without(s) = RemoveAt(entries, k)
    BY <1>3 DEF Without
  <2>2. k \in 1..Len(entries) /\ SymbolOf(entries[k]) = s
    BY <1>1, <2>1 DEF Cached
  <2> DEFINE a == SubSeq(entries, 1, k-1)
             b == SubSeq(entries, k+1, Len(entries))
             t == Without(s)
             from == [i \in 1..(Len(entries) - 1) |-> IF i < k THEN i ELSE i + 1]
  <2>3. /\ a \in Seq(Builds) /\ Len(a) = k - 1
        /\ \A i \in 1..(k-1) : a[i] = entries[i]
    BY <1>1, <2>2
  <2>4. /\ b \in Seq(Builds) /\ Len(b) = Len(entries) - k
        /\ \A i \in 1..(Len(entries) - k) : b[i] = entries[k + i]
    <3>1. \A i \in (k + 1)..Len(entries) : entries[i] \in Builds
      BY <1>1, <2>2
    <3>2. /\ b \in Seq(Builds)
          /\ Len(b) = IF k + 1 <= Len(entries) THEN Len(entries) - (k + 1) + 1 ELSE 0
          /\ \A i \in 1..(Len(entries) - (k + 1) + 1) : b[i] = entries[(k + 1) + i - 1]
      <4> HIDE DEF b
      <4>1. k + 1 \in Int /\ Len(entries) \in Int /\ b = SubSeq(entries, k + 1, Len(entries))
        BY <1>1, <2>2 DEF b
      <4> QED BY <3>1, <4>1, SubSeqProperties
    <3> HIDE DEF b
    <3>3. Len(b) = Len(entries) - k
      <4>1. Len(b) = IF k + 1 <= Len(entries) THEN Len(entries) - (k + 1) + 1 ELSE 0
        BY <3>2
      <4>2. k \in Nat /\ k <= Len(entries)
        BY <1>1, <2>2
      <4>3. CASE k + 1 <= Len(entries)
        BY <1>1, <4>1, <4>2, <4>3
      <4>4. CASE k = Len(entries)
        BY <1>1, <4>1, <4>2, <4>4
      <4>5. k + 1 <= Len(entries) \/ k = Len(entries)
        <5>1. \A i, n \in Nat : i <= n => i + 1 <= n \/ i = n
          OBVIOUS
        <5>2. Len(entries) \in Nat
          BY <1>1
        <5> QED BY <4>2, <5>1, <5>2
      <4> QED BY <4>3, <4>4, <4>5
    <3>4. ASSUME NEW i \in 1..(Len(entries) - k)
          PROVE  b[i] = entries[k + i]
      <4>1. i \in 1..(Len(entries) - (k + 1) + 1) /\ (k + 1) + i - 1 = k + i
        BY <1>1, <2>2
      <4>2. b[i] = entries[(k + 1) + i - 1]
        BY <3>2, <4>1
      <4> QED BY <4>1, <4>2
    <3> QED BY <3>2, <3>3, <3>4
  <2>5. t = a \o b
    BY <2>1 DEF RemoveAt
  <2>6. /\ t \in Seq(Builds) /\ Len(t) = Len(entries) - 1
        /\ \A i \in 1..(Len(entries) - 1) : t[i] = IF i < k THEN entries[i] ELSE entries[i + 1]
    <3> HIDE DEF a, b, t
    <3>1. t \in Seq(Builds) /\ Len(t) = Len(a) + Len(b)
      BY <2>3, <2>4, <2>5, ConcatProperties
    <3>2. \A i \in 1..(Len(a) + Len(b)) : t[i] = IF i <= Len(a) THEN a[i] ELSE b[i - Len(a)]
      BY <2>3, <2>4, <2>5, ConcatProperties
    <3>3. Len(a) + Len(b) = Len(entries) - 1
      BY <1>1, <2>2, <2>3, <2>4
    <3>4. ASSUME NEW i \in 1..(Len(entries) - 1)
          PROVE  t[i] = IF i < k THEN entries[i] ELSE entries[i + 1]
      <4>1. CASE i < k
        BY <1>1, <2>2, <2>3, <3>2, <3>3, <4>1
      <4>2. CASE i >= k
        <5>0. ~(i <= Len(a)) /\ i \in 1..(Len(a) + Len(b))
          BY <1>1, <2>2, <2>3, <3>3, <4>2
        <5>1. t[i] = b[i - (k - 1)]
          BY <2>3, <3>2, <5>0
        <5>2. i - (k - 1) \in 1..(Len(entries) - k) /\ k + (i - (k - 1)) = i + 1
          BY <1>1, <2>2, <4>2
        <5> QED BY <1>1, <2>2, <2>4, <4>2, <5>1, <5>2
      <4> QED BY <1>1, <2>2, <4>1, <4>2
    <3> QED BY <3>1, <3>3, <3>4
  <2>7. DOMAIN t = 1..(Len(entries) - 1)
    <3> HIDE DEF t
    <3> QED BY <2>6, LenProperties
  <2>8. /\ from \in [DOMAIN t -> DOMAIN entries]
        /\ \A i, j \in DOMAIN t : i # j => from[i] # from[j]
        /\ \A i \in DOMAIN t : t[i] = entries[from[i]] /\ from[i] # k
    <3> HIDE DEF t
    <3> QED BY <1>1, <2>2, <2>6, <2>7
  <2> HIDE DEF t, from
  <2>9. Drawn(t, entries)
    BY <2>6, <2>8 DEF Drawn
  <2>10. \A i \in DOMAIN t : SymbolOf(t[i]) # s
    BY <1>1, <2>2, <2>8 DEF Keyed
  <2>11. Len(t) <= Len(entries)
    BY <1>1, <2>6
  <2> QED BY <2>9, <2>10, <2>11 DEF t
<1> QED BY <1>2, <1>3

\* Trimming drops entries until at most max_size are left.
LEMMA TrimmedDraws ==
    ASSUME WorkbenchAssumption, NEW seq \in Seq(Builds)
    PROVE  Drawn(Trimmed(seq), seq) /\ Len(Trimmed(seq)) <= MaxSize
<1>1. Len(seq) \in Nat /\ DOMAIN seq = 1..Len(seq) /\ MaxSize \in Nat \ {0}
  BY LenProperties DEF WorkbenchAssumption
<1>2. CASE Len(seq) <= MaxSize
  <2>1. Trimmed(seq) = seq
    BY <1>2 DEF Trimmed
  <2>2. [i \in DOMAIN seq |-> i] \in [DOMAIN seq -> DOMAIN seq]
    OBVIOUS
  <2>3. Drawn(seq, seq)
    BY <2>2 DEF Drawn
  <2> QED BY <1>2, <2>1, <2>3
<1>3. CASE Len(seq) > MaxSize
  <2> DEFINE t == Trimmed(seq)
             d == Len(seq) - MaxSize
             from == [i \in 1..MaxSize |-> i + d]
  <2>1. t = SubSeq(seq, d + 1, Len(seq))
    BY <1>1, <1>3 DEF Trimmed
  <2>2. d \in Nat /\ Len(seq) = d + MaxSize
    BY <1>1, <1>3
  <2>3. /\ t \in Seq(Builds) /\ Len(t) = MaxSize
        /\ \A i \in 1..MaxSize : t[i] = seq[i + d]
    <3> HIDE DEF d, t
    <3>1. \A i \in (d + 1)..Len(seq) : seq[i] \in Builds
      BY <1>1, <2>2
    <3>2. /\ t \in Seq(Builds)
          /\ Len(t) = IF d + 1 <= Len(seq) THEN Len(seq) - (d + 1) + 1 ELSE 0
          /\ \A i \in 1..(Len(seq) - (d + 1) + 1) : t[i] = seq[(d + 1) + i - 1]
      BY <1>1, <2>1, <2>2, <3>1, SubSeqProperties
    <3> QED BY <1>1, <2>2, <3>2
  <2>4. DOMAIN t = 1..MaxSize
    <3> HIDE DEF t
    <3> QED BY <2>3, LenProperties
  <2>5. /\ from \in [DOMAIN t -> DOMAIN seq]
        /\ \A i, j \in DOMAIN t : i # j => from[i] # from[j]
        /\ \A i \in DOMAIN t : t[i] = seq[from[i]]
    <3> HIDE DEF t, d
    <3> QED BY <1>1, <2>2, <2>3, <2>4
  <2> HIDE DEF t, from
  <2>6. Drawn(t, seq) /\ Len(t) <= MaxSize
    BY <1>1, <2>3, <2>5 DEF Drawn
  <2> QED BY <2>6 DEF t
<1> QED BY <1>1, <1>2, <1>3

\* The build shared by the requests for a symbol was begun for it since the last
\* clear, in an open cache.
SharedIsRecent ==
    \A s \in Symbols : inflight[s] # NoBuild =>
        /\ SymbolOf(inflight[s]) = s /\ ~Unborn(inflight[s])
        /\ born[inflight[s]] = clears /\ ~closed

\* A build that was begun has a symbol, and the cache knows no others.
BegunBuilds ==
    /\ \A b \in Builds : ~Unborn(b) => SymbolOf(b) \in Symbols
    /\ \A b \in owned : ~Unborn(b)
    /\ \A i \in DOMAIN entries : ~Unborn(entries[i])

ClientsTyped ==
    /\ clears \in 0..MaxClears
    /\ pc \in [Clients -> {"idle", "wait", "end"}]
    /\ on \in [Clients -> Builds \cup {NoBuild}]

\* The invariant of the cached contexts, which rests on CacheInv.
EntriesInv ==
    /\ Keyed(entries) /\ Len(entries) <= MaxSize
    /\ SharedIsRecent
    /\ BegunBuilds
    /\ NoStaleEntry
    /\ ClientsTyped

\* What a step may do to the builds the cache knows: nothing to their symbols
\* and births, and it begins no build anew.
KnownBuildsKept ==
    /\ UNCHANGED clears
    /\ \A b \in Builds : ~Unborn(b) =>
          /\ SymbolOf(b)' = SymbolOf(b) /\ born'[b] = born[b]
          /\ ~Unborn(b)'

\* Entries drawn from the old ones keep all that is said of them.
LEMMA FewerEntriesKeep ==
    ASSUME WorkbenchAssumption, EntriesInv, KnownBuildsKept, closed' = closed,
           Drawn(entries', entries), Len(entries') <= MaxSize
    PROVE  /\ Keyed(entries)' /\ (Len(entries) <= MaxSize)' /\ NoStaleEntry'
           /\ \A i \in DOMAIN entries' : build'[entries'[i]].st # "none"
<1>1. Keyed(entries') /\ \A i \in DOMAIN entries' : \E j \in DOMAIN entries : entries'[i] = entries[j]
  BY DrawnIsKeyed DEF EntriesInv
<1>2. \A i \in DOMAIN entries : entries[i] \in Builds /\ ~Unborn(entries[i])
  BY ElementOfSeq, LenProperties DEF EntriesInv, Keyed, BegunBuilds
<1>3. \A i \in DOMAIN entries' : entries'[i] \in Builds /\ ~Unborn(entries'[i])
  BY <1>1, <1>2
<1>4. \A i \in DOMAIN entries' : build'[entries'[i]].sym = build[entries'[i]].sym
  BY <1>3 DEF KnownBuildsKept, SymbolOf
<1>5. Keyed(entries)'
  BY <1>1, <1>4 DEF Keyed, SymbolOf
<1>6. NoStaleEntry'
  BY <1>1, <1>3 DEF NoStaleEntry, EntriesInv, KnownBuildsKept
<1>7. \A i \in DOMAIN entries' : build'[entries'[i]].st # "none"
  BY <1>3 DEF KnownBuildsKept, Unborn
<1> QED BY <1>5, <1>6, <1>7

\* A context stored by the build its symbol shares is as recent as that build.
LEMMA StoredKeeps ==
    ASSUME WorkbenchAssumption, EntriesInv, NEW b \in Builds,
           SymbolOf(b) \in Symbols, inflight[SymbolOf(b)] = b
    PROVE  /\ Keyed(Stored(b)) /\ Len(Stored(b)) <= MaxSize
           /\ \A i \in DOMAIN Stored(b) :
                 ~Unborn(Stored(b)[i]) /\ born[Stored(b)[i]] = clears /\ ~closed
<1> DEFINE w == Without(SymbolOf(b))
           a == Append(w, b)
<1>1. Drawn(w, entries) /\ \A i \in DOMAIN w : SymbolOf(w[i]) # SymbolOf(b)
  BY WithoutDraws DEF EntriesInv
<1>2. Keyed(w) /\ \A i \in DOMAIN w : \E j \in DOMAIN entries : w[i] = entries[j]
  BY <1>1, DrawnIsKeyed DEF EntriesInv
<1>3. /\ a \in Seq(Builds) /\ DOMAIN a = 1..(Len(w) + 1) /\ DOMAIN w = 1..Len(w) /\ Len(w) \in Nat
      /\ \A i \in 1..Len(w) : a[i] = w[i]
      /\ a[Len(w) + 1] = b
  BY <1>2, AppendProperties, LenProperties DEF Keyed
<1>4. Keyed(a)
  BY <1>1, <1>2, <1>3 DEF Keyed
<1>5. ~Unborn(b) /\ born[b] = clears /\ ~closed
  BY DEF EntriesInv, SharedIsRecent, WorkbenchAssumption
<1>6. \A i \in DOMAIN a : ~Unborn(a[i]) /\ born[a[i]] = clears /\ ~closed
  BY <1>2, <1>3, <1>5 DEF EntriesInv, BegunBuilds, NoStaleEntry
<1>7. Stored(b) = Trimmed(a)
  BY DEF Stored
<1>8. Drawn(Trimmed(a), a) /\ Len(Trimmed(a)) <= MaxSize
  BY <1>3, TrimmedDraws
<1>9. Keyed(Trimmed(a)) /\ \A i \in DOMAIN Trimmed(a) : \E j \in DOMAIN a : Trimmed(a)[i] = a[j]
  <2> HIDE DEF a
  <2> QED BY <1>4, <1>8, DrawnIsKeyed
<1> QED BY <1>6, <1>7, <1>8, <1>9

\* What BegunBuilds says beside the entries.
BuildsNamed ==
    /\ \A b \in Builds : ~Unborn(b) => SymbolOf(b) \in Symbols
    /\ \A b \in owned : ~Unborn(b)

\* What is left to show of a step that stores nothing.
LEMMA EntriesKept ==
    ASSUME WorkbenchAssumption, EntriesInv, KnownBuildsKept, closed' = closed,
           Drawn(entries', entries), Len(entries') <= MaxSize,
           SharedIsRecent', BuildsNamed', ClientsTyped'
    PROVE  EntriesInv'
BY FewerEntriesKeep DEF EntriesInv, BegunBuilds, BuildsNamed, Unborn

LEMMA SameEntriesDrawn ==
    ASSUME Keyed(entries)
    PROVE  Drawn(entries, entries)
<1>1. [i \in DOMAIN entries |-> i] \in [DOMAIN entries -> DOMAIN entries]
  OBVIOUS
<1> QED BY <1>1 DEF Keyed, Drawn

\* An emptied cache has nothing to be wrong about.
LEMMA EmptiedKeeps ==
    ASSUME WorkbenchAssumption, entries' = <<>>,
           inflight' = [s \in Symbols |-> NoBuild],
           BuildsNamed', ClientsTyped'
    PROVE  EntriesInv'
<1>1. <<>> \in Seq(Builds) /\ Len(<<>>) = 0 /\ DOMAIN <<>> = {}
  BY EmptySeq
<1>2. Keyed(entries)' /\ Len(entries') <= MaxSize
  BY <1>1 DEF Keyed, WorkbenchAssumption
<1> QED BY <1>1, <1>2 DEF EntriesInv, SharedIsRecent, BegunBuilds, BuildsNamed, NoStaleEntry

\* A request takes out at most a stale entry, and begins at most one build.
LEMMA GetKeepsEntries ==
    ASSUME WorkbenchAssumption, CacheInv, EntriesInv,
           NEW c \in Clients, NEW s \in Symbols, NEW useCache \in BOOLEAN,
           Get(c, s, useCache)
    PROVE  EntriesInv'
<1>1. UNCHANGED <<clears, closed>>
  BY DEF Get
<1>2. Drawn(entries', entries) /\ Len(entries') <= MaxSize
  <2>1. CASE UNCHANGED entries
    BY <2>1, SameEntriesDrawn DEF EntriesInv
  <2>2. CASE entries' = Without(s)
    <3>1. /\ Drawn(Without(s), entries) /\ Len(Without(s)) <= Len(entries)
          /\ Without(s) \in Seq(Builds) /\ entries \in Seq(Builds)
      BY WithoutDraws DEF EntriesInv, Drawn, Keyed
    <3>2. Len(Without(s)) \in Nat /\ Len(entries) \in Nat /\ MaxSize \in Nat
      BY <3>1, LenProperties DEF WorkbenchAssumption
    <3>3. Len(entries) <= MaxSize
      BY DEF EntriesInv
    <3>4. Len(Without(s)) <= MaxSize
      BY <3>1, <3>2, <3>3
    <3> QED BY <2>2, <3>1, <3>4
  <2> QED BY <2>1, <2>2 DEF Get, Hit, Join, Begin, Miss
<1>3. ClientsTyped'
  <2>1. Respond(c) \/ \E b \in Builds : Await(c, b)
    BY DEF Get, Hit, Join, Begin, CacheInv, BuildsTyped
  <2>2. pc' \in [Clients -> {"idle", "wait", "end"}]
    BY <2>1 DEF Respond, Await, EntriesInv, ClientsTyped
  <2>3. on' \in [Clients -> Builds \cup {NoBuild}]
    BY <2>1 DEF Respond, Await, EntriesInv, ClientsTyped
  <2> QED BY <1>1, <2>2, <2>3 DEF EntriesInv, ClientsTyped
<1>4. CASE UNCHANGED buildVars
  <2>1. KnownBuildsKept /\ SharedIsRecent' /\ BuildsNamed'
    BY <1>1, <1>4 DEF buildVars, KnownBuildsKept, SymbolOf, Unborn, EntriesInv, SharedIsRecent,
                      BegunBuilds, BuildsNamed
  <2> QED BY <1>1, <1>2, <1>3, <2>1, EntriesKept
<1>5. CASE ~closed /\ Begin(c, s, useCache) /\ HasRoom
  <2>1. PICK b \in Builds :
           /\ Unborn(b)
           /\ build' = [build EXCEPT ![b] = [sym |-> s, st |-> "running"]]
           /\ born' = [born EXCEPT ![b] = clears]
           /\ owned' = owned \cup {b}
           /\ inflight' = [inflight EXCEPT ![s] = b]
    BY <1>5 DEF Begin
  <2>2. /\ build'[b].sym = s /\ build'[b].st = "running" /\ born'[b] = clears
        /\ \A a \in Builds \ {b} : build'[a] = build[a] /\ born'[a] = born[a]
    BY <2>1 DEF CacheInv, BuildsTyped
  <2>3. KnownBuildsKept
    BY <1>1, <2>1, <2>2 DEF KnownBuildsKept, SymbolOf, Unborn
  <2>4. BuildsNamed'
    BY <2>1, <2>2 DEF EntriesInv, BegunBuilds, BuildsNamed, Unborn, SymbolOf, CacheInv, BuildsTyped
  <2>5. SharedIsRecent'
    <3> SUFFICES ASSUME NEW x \in Symbols, inflight'[x] # NoBuild
                 PROVE  /\ build'[inflight'[x]].sym = x /\ build'[inflight'[x]].st # "none"
                        /\ born'[inflight'[x]] = clears /\ ~closed
      BY <1>1 DEF SharedIsRecent, SymbolOf, Unborn
    <3>1. CASE x = s
      BY <1>5, <2>1, <2>2, <3>1 DEF CacheInv, BuildsTyped
    <3>2. CASE x # s
      <4>1. inflight'[x] = inflight[x] /\ inflight[x] \in Builds
        BY <2>1, <3>2 DEF CacheInv, BuildsTyped
      <4>2. ~Unborn(inflight[x]) /\ SymbolOf(inflight[x]) = x /\ born[inflight[x]] = clears
        BY <4>1 DEF EntriesInv, SharedIsRecent
      <4> QED BY <1>5, <2>1, <2>2, <4>1, <4>2 DEF Unborn, SymbolOf
    <3> QED BY <3>1, <3>2
  <2> QED BY <1>1, <1>2, <1>3, <2>3, <2>4, <2>5, EntriesKept
<1> QED BY <1>4, <1>5 DEF Get, Hit, Join, Begin

LEMMA BuildEndsKeepsEntries ==
    ASSUME WorkbenchAssumption, CacheInv, EntriesInv, NEW b \in Builds, BuildEnds(b)
    PROVE  EntriesInv'
<1>1. PICK st \in DoneStates : build' = [build EXCEPT ![b] = [sym |-> SymbolOf(b), st |-> st]]
  BY DEF BuildEnds, Undone, DoneStates
<1>2. \A a \in Builds : build'[a].sym = build[a].sym /\ (build[a].st # "none" => build'[a].st # "none")
  BY <1>1 DEF CacheInv, BuildsTyped, SymbolOf, DoneStates
<1>3. UNCHANGED <<entries, inflight, owned, born, clears, clientVars, closed>>
  BY DEF BuildEnds
<1>4. KnownBuildsKept
  BY <1>2, <1>3 DEF KnownBuildsKept, SymbolOf, Unborn
<1>6. ~Unborn(b)
  BY DEF BuildEnds, Undone, Unborn
<1>5. SharedIsRecent' /\ BuildsNamed' /\ ClientsTyped'
  BY <1>1, <1>2, <1>3, <1>6
  DEF EntriesInv, SharedIsRecent, BegunBuilds, BuildsNamed, ClientsTyped, clientVars,
      SymbolOf, Unborn, CacheInv, BuildsTyped
<1> QED BY <1>3, <1>4, <1>5, EntriesKept, SameEntriesDrawn DEF EntriesInv

\* Only the build that is shared stores its context.
LEMMA BuildFinalizedKeepsEntries ==
    ASSUME WorkbenchAssumption, CacheInv, EntriesInv, NEW b \in Builds, BuildFinalized(b)
    PROVE  EntriesInv'
<1>1. UNCHANGED <<build, born, clears, clientVars, closed>> /\ Finalize(b) /\ ~Unborn(b)
  BY DEF BuildFinalized, Unfinalized, Unborn, DoneStates
<1>2. SharedIsRecent' /\ BuildsNamed' /\ ClientsTyped'
  BY <1>1 DEF Finalize, EntriesInv, SharedIsRecent, BegunBuilds, BuildsNamed, ClientsTyped,
              clientVars, SymbolOf, Unborn, CacheInv, BuildsTyped
<1>3. CASE UNCHANGED entries
  <2>1. KnownBuildsKept
    BY <1>1 DEF KnownBuildsKept, SymbolOf, Unborn
  <2> QED BY <1>1, <1>2, <1>3, <2>1, EntriesKept, SameEntriesDrawn DEF EntriesInv
<1>4. CASE inflight[SymbolOf(b)] = b /\ entries' = Stored(b) /\ SymbolOf(b) \in Symbols
  <2>1. /\ Keyed(entries') /\ Len(entries') <= MaxSize
        /\ \A i \in DOMAIN entries' :
              ~Unborn(entries'[i]) /\ born[entries'[i]] = clears /\ ~closed
    BY <1>4, StoredKeeps
  <2>2. Keyed(entries)'
    BY <1>1, <2>1 DEF Keyed, SymbolOf
  <2> QED BY <1>1, <1>2, <2>1, <2>2 DEF EntriesInv, NoStaleEntry, BegunBuilds, BuildsNamed, Unborn
<1>5. SymbolOf(b) \in Symbols
  BY <1>1 DEF EntriesInv, BegunBuilds
<1> QED BY <1>1, <1>3, <1>4, <1>5 DEF Finalize

LEMMA CloseKeepsEntries ==
    ASSUME WorkbenchAssumption, CacheInv, EntriesInv, Close \/ Clear
    PROVE  EntriesInv'
<1>1. BuildsNamed'
  <2>1. \A b \in Builds : build'[b].sym = build[b].sym /\ (build'[b].st # "none" => build[b].st # "none")
                          /\ (build[b].st # "none" => build'[b].st # "none")
    BY DEF Close, Clear, CacheInv, BuildsTyped, SymbolOf
  <2>2. owned' = owned /\ owned \subseteq Builds
    BY DEF Close, Clear, CacheInv, BuildsTyped
  <2> QED BY <2>1, <2>2 DEF EntriesInv, BegunBuilds, BuildsNamed, Unborn, SymbolOf
<1>2. ClientsTyped'
  BY DEF Close, Clear, EntriesInv, ClientsTyped, clientVars, WorkbenchAssumption
<1> QED BY <1>1, <1>2, EmptiedKeeps DEF Close, Clear

LEMMA EntriesInvInductive ==
    ASSUME WorkbenchAssumption, CacheInv, EntriesInv, [Next]_vars
    PROVE  EntriesInv'
<1>1. CASE \E c \in Clients, s \in Symbols, useCache \in BOOLEAN : Get(c, s, useCache)
  BY <1>1, GetKeepsEntries
<1>2. CASE \/ \E c \in Clients : Answered(c) \/ ClientCancelled(c)
           \/ UNCHANGED vars
  <2>1. UNCHANGED <<entries, buildVars, clears, closed>>
    BY <1>2 DEF Answered, ClientCancelled, vars
  <2>2. ClientsTyped'
    BY <1>2 DEF Answered, ClientCancelled, Respond, vars, clientVars, EntriesInv, ClientsTyped
  <2>3. KnownBuildsKept /\ SharedIsRecent' /\ BuildsNamed'
    BY <2>1 DEF buildVars, KnownBuildsKept, SymbolOf, Unborn, EntriesInv, SharedIsRecent,
                     BegunBuilds, BuildsNamed
  <2> QED BY <2>1, <2>2, <2>3, EntriesKept, SameEntriesDrawn DEF EntriesInv
<1>3. CASE \E b \in Builds : BuildEnds(b)
  BY <1>3, BuildEndsKeepsEntries
<1>4. CASE \E b \in Builds : BuildFinalized(b)
  BY <1>4, BuildFinalizedKeepsEntries
<1>5. CASE Clear \/ Close
  BY <1>5, CloseKeepsEntries
<1> QED BY <1>1, <1>2, <1>3, <1>4, <1>5 DEF Next

-----------------------------------------------------------------------------
(* The theorems.                                                           *)

\* The builds stay well typed, owned while under way, and shared while no
\* clear has come after them (WorkbenchContextCache).
THEOREM CacheInvariant == Spec => []CacheInv
<1>1. Init => CacheInv
  BY InitHasCacheInv, WorkbenchAssumption
<1>2. CacheInv /\ [Next]_vars => CacheInv'
  BY CacheInvInductive, WorkbenchAssumption
<1> QED BY <1>1, <1>2, PTL DEF Spec

\* At most max_inflight builds are under way, whatever clears, cancelled
\* requests and late callbacks come between (_task_for).
THEOREM InflightIsBounded == Spec => []BuildsBounded
<1>1. CacheInv => BuildsBounded
  BY DEF CacheInv
<1> QED BY <1>1, CacheInvariant, PTL

\* Requests for a symbol share its build unless a clear came between them
\* (_active_task).
THEOREM OneBuildPerSymbol == Spec => []BuildIsShared
<1>1. CacheInv => BuildIsShared
  BY DEF CacheInv
<1> QED BY <1>1, CacheInvariant, PTL

\* A build is cancelled by the close of the cache and by nothing else, and the
\* close leaves none running (get, aclose).
THEOREM RequestsNeverCancelBuilds == Spec => []OnlyCloseCancels
<1>1. CacheInv => OnlyCloseCancels
  BY DEF CacheInv
<1> QED BY <1>1, CacheInvariant, PTL

\* The cached contexts stay keyed by symbol, within the limit, and no older than
\* the last clear (WorkbenchContextCache).
THEOREM EntriesInvariant == Spec => []EntriesInv
<1>1. Init => EntriesInv
  <2> SUFFICES ASSUME Init PROVE EntriesInv
    OBVIOUS
  <2>1. <<>> \in Seq(Builds) /\ Len(<<>>) = 0 /\ DOMAIN <<>> = {}
    BY EmptySeq
  <2>2. Keyed(entries) /\ Len(entries) <= MaxSize
    BY <2>1, WorkbenchAssumption DEF Init, Keyed, WorkbenchAssumption
  <2> QED BY <2>1, <2>2, WorkbenchAssumption
          DEF Init, EntriesInv, SharedIsRecent, BegunBuilds, NoStaleEntry, ClientsTyped,
              WorkbenchAssumption, Unborn
<1>2. CacheInv /\ EntriesInv /\ [Next]_vars => EntriesInv'
  BY EntriesInvInductive, WorkbenchAssumption
<1> QED BY <1>1, <1>2, CacheInvariant, PTL DEF Spec

\* A build that outlives a clear or a close never writes into the cache
\* (_finalize_task).
THEOREM LateBuildsStoreNothing == Spec => []NoStaleEntry
<1>1. EntriesInv => NoStaleEntry
  BY DEF EntriesInv
<1> QED BY <1>1, EntriesInvariant, PTL

\* Every variable of the cache keeps its type, its size limit and one entry for
\* a symbol (_trim_entries).
THEOREM CacheTypeCorrect == Spec => []TypeOK
<1>1. CacheInv /\ EntriesInv => TypeOK
  BY DEF CacheInv, BuildsTyped, BuildRecord, EntriesInv, Keyed, BegunBuilds, ClientsTyped, TypeOK
<1> QED BY <1>1, CacheInvariant, EntriesInvariant, PTL
=============================================================================
