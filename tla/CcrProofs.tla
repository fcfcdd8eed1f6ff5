------------------------------ MODULE CcrProofs -----------------------------
(***************************************************************************)
(* Proofs about the CCR store: for every number of threads, keys and every *)
(* capacity, its type invariant, the bound on its size, what evictions may *)
(* remove, and that it refines BoundedCache.                               *)
(***************************************************************************)
EXTENDS CcrStore, FiniteSetTheorems, TLAPS

USE ThreadsAssumption, CapacityAssumption, TimeAssumption, KeysAssumption

\* The empty map is a map.
LEMMA EmptyMap == [k \in {} |-> CHOOSE e \in Entry : TRUE] \in [{} -> Entry]
  OBVIOUS

\* A put without arguments is still a put: the constants are not empty.
LEMMA NoPutIsPut == NoPut \in Put
<1>1. PICK k \in Keys, p \in Payloads : TRUE
  OBVIOUS
<1>2. [key |-> k, payload |-> p] \in Put
  BY <1>1 DEF Put
<1> QED
  BY <1>2 DEF NoPut

\* Overwriting or inserting an entry leaves a map, and adds at most its key.
LEMMA WithType ==
  ASSUME TypeOK, NEW k \in Keys, NEW p \in Payloads
  PROVE  /\ With(k, p) \in [DOMAIN map \cup {k} -> Entry]
         /\ DOMAIN map \cup {k} \in SUBSET Keys
  BY DEF TypeOK, With, Entry

\* Keeping some of the entries leaves a map.
LEMMA RestrictType ==
  ASSUME TypeOK, NEW K \in SUBSET DOMAIN map
  PROVE  /\ [j \in K |-> map[j]] \in [K -> Entry]
         /\ K \in SUBSET Keys
  BY DEF TypeOK

\* Each step keeps the type invariant.
LEMMA TypeStep == TypeOK /\ [Next]_vars => TypeOK'
<1> SUFFICES ASSUME TypeOK, [Next]_vars PROVE TypeOK'
  OBVIOUS
<1>1. CASE Tick
  BY <1>1 DEF Tick, TypeOK, Entry
<1>2. ASSUME NEW t \in Threads, NEW k \in Keys, NEW p \in Payloads, PutAtOnce(t, k, p)
      PROVE  TypeOK'
  <2>1. \E S \in SUBSET Keys : map' \in [S -> Entry]
    BY <1>2, WithType DEF PutAtOnce
  <2> QED
    BY <1>2, <2>1 DEF PutAtOnce, TypeOK
<1>3. ASSUME NEW t \in Threads, NEW k \in Keys, NEW p \in Payloads, PutFull(t, k, p)
      PROVE  TypeOK'
  BY <1>3 DEF PutFull, TypeOK, Put
<1>4. ASSUME NEW t \in Threads, Evict(t)
      PROVE  TypeOK'
  <2>1. PICK K \in SUBSET Keys : Survivors(K) /\ map' = [j \in K |-> map[j]]
    BY <1>4 DEF Evict
  <2>2. \E S \in SUBSET Keys : map' \in [S -> Entry]
    BY <2>1, RestrictType DEF Survivors
  <2> QED
    BY <1>4, <2>2 DEF Evict, TypeOK
<1>5. ASSUME NEW t \in Threads, InsertAfterEvict(t)
      PROVE  TypeOK'
  <2>1. arg[t].key \in Keys /\ arg[t].payload \in Payloads
    BY DEF TypeOK, Put
  <2>2. \E S \in SUBSET Keys : map' \in [S -> Entry]
    BY <1>5, <2>1, WithType DEF InsertAfterEvict
  <2> QED
    BY <1>5, <2>2, NoPutIsPut DEF InsertAfterEvict, TypeOK
<1>6. ASSUME NEW t \in Threads, NEW k \in Keys, Get(t, k)
      PROVE  TypeOK'
  <2>1. CASE k \in DOMAIN map /\ ~Expired(k)
    <3>1. map[k].payload \in Payloads
      BY <2>1 DEF TypeOK, Entry
    <3> QED
      BY <1>6, <2>1, <3>1 DEF Get, TypeOK
  <2>2. CASE ~(k \in DOMAIN map /\ ~Expired(k))
    <3>1. \E S \in SUBSET Keys : Without(k) \in [S -> Entry]
      BY RestrictType DEF Without
    <3> QED
      BY <1>6, <2>2, <3>1 DEF Get, TypeOK
  <2> QED
    BY <2>1, <2>2
<1>7. CASE UNCHANGED vars
  BY <1>7 DEF vars, TypeOK
<1> QED
  BY <1>1, <1>2, <1>3, <1>4, <1>5, <1>6, <1>7 DEF Next

\* The empty store is well typed.
LEMMA TypeInit == Init => TypeOK
<1> SUFFICES ASSUME Init PROVE TypeOK
  OBVIOUS
<1>1. map \in [{} -> Entry] /\ {} \in SUBSET Keys
  BY EmptyMap DEF Init
<1>2. \E S \in SUBSET Keys : map \in [S -> Entry]
  BY <1>1
<1>3. now \in 0..MaxTime /\ pc \in [Threads -> {"idle", "full", "evicted"}]
  BY DEF Init
<1>4. arg \in [Threads -> Put] /\ answer \in Payloads \cup {Miss}
  BY NoPutIsPut DEF Init
<1> QED
  BY <1>2, <1>3, <1>4 DEF TypeOK

\* Every state of the store is well typed.
THEOREM TypeCorrect == Spec => []TypeOK
  BY TypeInit, TypeStep, PTL DEF Spec

-----------------------------------------------------------------------------
\* The sizes the bound is about are natural numbers.
LEMMA Sizes ==
  ASSUME TypeOK
  PROVE  /\ IsFiniteSet(DOMAIN map) /\ Len \in Nat
         /\ IsFiniteSet(Pending) /\ Cardinality(Pending) \in Nat
         /\ Cardinality(Threads) \in Nat /\ Cardinality(Pending) <= Cardinality(Threads)
<1>1. DOMAIN map \in SUBSET Keys
  BY DEF TypeOK
<1>2. Pending \in SUBSET Threads
  BY DEF Pending
<1> QED
  BY <1>1, <1>2, FS_Subset, FS_CardinalityType DEF Len

\* Storing under a key adds at most one entry, and none if the key is there.
LEMMA LenWith ==
  ASSUME TypeOK, NEW k, NEW p, map' = With(k, p)
  PROVE  Len' = IF k \in DOMAIN map THEN Len ELSE Len + 1
  BY Sizes, FS_AddElement DEF Len, With

\* No step takes the store past the bound: a put that found room is followed
\* by at most the inserts of the other threads, and an eviction leaves room
\* for the inserts of all of them but one.
LEMMA OvershootStep == TypeOK /\ Overshoot /\ [Next]_vars => Overshoot'
<1> SUFFICES ASSUME TypeOK, Overshoot, [Next]_vars PROVE Overshoot'
  OBVIOUS
<1> USE Sizes
<1> DEFINE N == Cardinality(Threads)
<1>t. TypeOK'
  BY TypeStep
<1>s. Len' \in Nat /\ Cardinality(Pending)' \in Nat /\ Cardinality(Pending)' <= N
  <2>1. (IsFiniteSet(DOMAIN map'))
    <3>1. DOMAIN map' \in SUBSET Keys
      BY <1>t DEF TypeOK
    <3> QED
      BY <3>1, FS_Subset
  <2>2. Pending' \in SUBSET Threads
    BY DEF Pending
  <2> QED
    BY <2>1, <2>2, FS_Subset, FS_CardinalityType DEF Len
<1>1. CASE Tick
  BY <1>1 DEF Tick, Overshoot, Len, Pending
<1>2. ASSUME NEW t \in Threads, NEW k \in Keys, NEW p \in Payloads, PutAtOnce(t, k, p)
      PROVE  Overshoot'
  <2>1. Pending' = Pending
    BY <1>2 DEF PutAtOnce, Pending
  <2>2. Len' = IF k \in DOMAIN map THEN Len ELSE Len + 1
    BY <1>2, LenWith DEF PutAtOnce
  <2>3. CASE k \in DOMAIN map
    BY <2>1, <2>2, <2>3 DEF Overshoot
  <2>4. CASE k \notin DOMAIN map
    <3>1. Pending \in SUBSET (Threads \ {t})
      BY <1>2 DEF PutAtOnce, Pending
    <3>2. Cardinality(Pending) <= N - 1
      BY <3>1, FS_RemoveElement, FS_Subset
    <3>3. Len < Capacity
      BY <1>2, <2>4 DEF PutAtOnce
    <3> QED
      BY <2>1, <2>2, <2>4, <3>2, <3>3 DEF Overshoot
  <2> QED
    BY <2>3, <2>4
<1>3. ASSUME NEW t \in Threads, NEW k \in Keys, NEW p \in Payloads, PutFull(t, k, p)
      PROVE  Overshoot'
  <2>1. Pending' = Pending
    BY <1>3 DEF PutFull, Pending, TypeOK
  <2> QED
    BY <1>3, <2>1 DEF PutFull, Overshoot, Len
<1>4. ASSUME NEW t \in Threads, Evict(t)
      PROVE  Overshoot'
  <2>1. PICK K \in SUBSET Keys : Survivors(K) /\ map' = [j \in K |-> map[j]]
    BY <1>4 DEF Evict
  <2>2. DOMAIN map' = K
    BY <2>1
  <2>3. Len' <= Capacity - 1
    <3>1. CASE Len < Capacity
      BY <2>1, <2>2, <3>1 DEF Survivors, Len
    <3>2. CASE ~(Len < Capacity)
      BY <2>1, <2>2, <3>2 DEF Survivors, Len
    <3> QED
      BY <3>1, <3>2
  <2> QED
    BY <2>3, <1>s DEF Overshoot
<1>5. ASSUME NEW t \in Threads, InsertAfterEvict(t)
      PROVE  Overshoot'
  <2>1. Pending' = Pending \ {t} /\ t \in Pending
    BY <1>5 DEF InsertAfterEvict, Pending, TypeOK
  <2>2. Cardinality(Pending)' = Cardinality(Pending) - 1
    BY <2>1, FS_RemoveElement
  <2>3. Len' <= Len + 1
    BY <1>5, LenWith DEF InsertAfterEvict
  <2> QED
    BY <2>2, <2>3, <1>s DEF Overshoot
<1>6. ASSUME NEW t \in Threads, NEW k \in Keys, Get(t, k)
      PROVE  Overshoot'
  <2>1. Pending' = Pending
    BY <1>6 DEF Get, Pending
  <2>2. DOMAIN map' \in SUBSET DOMAIN map
    BY <1>6 DEF Get, Without
  <2>3. Len' <= Len
    BY <2>2, FS_Subset DEF Len
  <2> QED
    BY <2>1, <2>3, <1>s DEF Overshoot
<1>7. CASE UNCHANGED vars
  BY <1>7 DEF vars, Overshoot, Len, Pending
<1> QED
  BY <1>1, <1>2, <1>3, <1>4, <1>5, <1>6, <1>7 DEF Next

\* The store holds at most capacity + threads - 1 entries.
THEOREM OvershootHolds == Spec => []Overshoot
<1>1. Init => Overshoot
  <2> SUFFICES ASSUME Init PROVE Overshoot
    OBVIOUS
  <2>1. DOMAIN map = {} /\ Pending = {}
    BY DEF Init, Pending
  <2>2. Cardinality(Threads) \in Nat /\ Cardinality(Threads) # 0
    BY FS_CardinalityType, FS_EmptySet
  <2> QED
    BY <2>1, <2>2, FS_EmptySet DEF Overshoot, Len
<1>2. TypeOK /\ Overshoot /\ [Next]_vars => (TypeOK /\ Overshoot)'
  BY TypeStep, OvershootStep
<1> QED
  BY <1>1, <1>2, TypeInit, PTL DEF Spec

-----------------------------------------------------------------------------
\* The step form of LiveEntriesLeaveOnlyWhenFull: only an eviction or the
\* removal of an expired entry takes a key out, and the eviction counts again.
LEMMA LeaveStep ==
  ASSUME TypeOK, [Next]_vars, NEW k \in DOMAIN map \ DOMAIN map'
  PROVE  Expired(k) \/ Len >= Capacity
<1>1. CASE Tick
  BY <1>1 DEF Tick
<1>2. ASSUME NEW t \in Threads, NEW j \in Keys, NEW p \in Payloads,
             PutAtOnce(t, j, p) \/ PutFull(t, j, p)
      PROVE  FALSE
  BY <1>2 DEF PutAtOnce, PutFull, With
<1>3. ASSUME NEW t \in Threads, Evict(t)
      PROVE  Len >= Capacity
  BY <1>3, Sizes DEF Evict, Survivors
<1>4. ASSUME NEW t \in Threads, InsertAfterEvict(t)
      PROVE  FALSE
  BY <1>4 DEF InsertAfterEvict, With
<1>5. ASSUME NEW t \in Threads, NEW j \in Keys, Get(t, j)
      PROVE  Expired(k)
  BY <1>5 DEF Get, Without
<1>6. CASE UNCHANGED vars
  BY <1>6 DEF vars
<1> QED
  BY <1>1, <1>2, <1>3, <1>4, <1>5, <1>6 DEF Next

\* No live entry is lost to a stale look at the length.
THEOREM LiveEntriesAreKept == Spec => LiveEntriesLeaveOnlyWhenFull
<1>1. TypeOK /\ [Next]_vars
        => [\A k \in DOMAIN map \ DOMAIN map' : Expired(k) \/ Len >= Capacity]_vars
  BY LeaveStep
<1> QED
  BY <1>1, TypeCorrect, PTL DEF Spec, LiveEntriesLeaveOnlyWhenFull

\* The step form of ExpiredGoFirst: what an eviction keeps is no older than
\* what it removes.
LEMMA ExpiredStep ==
  ASSUME TypeOK, [Next]_vars,
         NEW gone \in DOMAIN map \ DOMAIN map', ~Expired(gone),
         NEW kept \in DOMAIN map \cap DOMAIN map'
  PROVE  ~Expired(kept)
<1>1. CASE Tick
  BY <1>1 DEF Tick
<1>2. ASSUME NEW t \in Threads, NEW j \in Keys, NEW p \in Payloads,
             PutAtOnce(t, j, p) \/ PutFull(t, j, p)
      PROVE  FALSE
  BY <1>2 DEF PutAtOnce, PutFull, With
<1>3. ASSUME NEW t \in Threads, Evict(t)
      PROVE  ~Expired(kept)
  <2>1. map[gone].inserted <= map[kept].inserted
    BY <1>3 DEF Evict, Survivors
  <2>2. now \in Int /\ map[gone].inserted \in Int /\ map[kept].inserted \in Int
    BY DEF TypeOK, Entry
  <2> QED
    BY <2>1, <2>2 DEF Expired
<1>4. ASSUME NEW t \in Threads, InsertAfterEvict(t)
      PROVE  FALSE
  BY <1>4 DEF InsertAfterEvict, With
<1>5. ASSUME NEW t \in Threads, NEW j \in Keys, Get(t, j)
      PROVE  FALSE
  BY <1>5 DEF Get, Without
<1>6. CASE UNCHANGED vars
  BY <1>6 DEF vars
<1> QED
  BY <1>1, <1>2, <1>3, <1>4, <1>5, <1>6 DEF Next

\* A live entry is never sacrificed for one already past its time to live.
THEOREM EvictionPrefersExpired == Spec => ExpiredGoFirst
<1>1. TypeOK /\ [Next]_vars
        => [\A gone \in DOMAIN map \ DOMAIN map' :
              ~Expired(gone) => \A kept \in DOMAIN map \cap DOMAIN map' : ~Expired(kept)]_vars
  BY ExpiredStep
<1> QED
  BY <1>1, TypeCorrect, PTL DEF Spec, ExpiredGoFirst

-----------------------------------------------------------------------------
\* The entries as the abstract cache sees them.
Held == [k \in DOMAIN map |-> map[k].payload]

\* Storing an entry is the abstract Store.
LEMMA StoreRefined ==
  ASSUME TypeOK, TypeOK', Overshoot', NEW k \in Keys, NEW p \in Payloads,
         map' = With(k, p), UNCHANGED answer
  PROVE  Cache!Store(k, p)
<1>1. Held' = [j \in DOMAIN Held \cup {k} |-> IF j = k THEN p ELSE Held[j]]
  BY DEF Held, With
<1>2. DOMAIN Held' = DOMAIN map'
  BY DEF Held
<1>3. Cardinality(DOMAIN map') <= Capacity + Cardinality(Threads) - 1
  <2>1. DOMAIN map' \in SUBSET Keys /\ Pending' \in SUBSET Threads
    BY DEF TypeOK, Pending
  <2>2. Cardinality(DOMAIN map') \in Nat /\ Cardinality(Pending') \in Nat /\ Cardinality(Threads) \in Nat
    BY <2>1, FS_Subset, FS_CardinalityType
  <2> QED
    BY <2>2 DEF Overshoot, Len
<1> QED
  BY <1>1, <1>2, <1>3 DEF Cache!Store, Held, Cache!Cardinality, Cardinality

\* Every step of the store is a step of the abstract cache, or changes
\* nothing the abstract cache can see.
LEMMA StepRefined ==
  ASSUME TypeOK, TypeOK', Overshoot', [Next]_vars
  PROVE  [Cache!Next]_<<Held, answer>>
<1>1. CASE Tick
  BY <1>1 DEF Tick, Held
<1>2. ASSUME NEW t \in Threads, NEW k \in Keys, NEW p \in Payloads, PutAtOnce(t, k, p)
      PROVE  Cache!Next
  BY <1>2, StoreRefined DEF PutAtOnce, Cache!Next
<1>3. ASSUME NEW t \in Threads, NEW k \in Keys, NEW p \in Payloads, PutFull(t, k, p)
      PROVE  UNCHANGED <<Held, answer>>
  BY <1>3 DEF PutFull, Held
<1>4. ASSUME NEW t \in Threads, Evict(t)
      PROVE  Cache!Next
  <2>1. PICK K \in SUBSET Keys : Survivors(K) /\ map' = [j \in K |-> map[j]]
    BY <1>4 DEF Evict
  <2>2. K \in SUBSET DOMAIN Held /\ Held' = [j \in K |-> Held[j]]
    BY <2>1 DEF Held, Survivors
  <2> QED
    BY <1>4, <2>2 DEF Evict, Cache!Next, Cache!Forget, Held
<1>5. ASSUME NEW t \in Threads, InsertAfterEvict(t)
      PROVE  Cache!Next
  <2>1. arg[t].key \in Keys /\ arg[t].payload \in Payloads
    BY DEF TypeOK, Put
  <2> QED
    BY <1>5, <2>1, StoreRefined DEF InsertAfterEvict, Cache!Next
<1>6. ASSUME NEW t \in Threads, NEW k \in Keys, Get(t, k)
      PROVE  Cache!Next
  <2>1. CASE k \in DOMAIN map /\ ~Expired(k)
    <3>1. k \in DOMAIN Held /\ answer' = Held[k] /\ Held' = Held
      BY <1>6, <2>1 DEF Get, Held
    <3> QED
      BY <3>1 DEF Cache!Next, Cache!Read, Held
  <2>2. CASE ~(k \in DOMAIN map /\ ~Expired(k))
    <3>1. answer' = Miss /\ Held' = [j \in DOMAIN Held \ {k} |-> Held[j]]
      BY <1>6, <2>2 DEF Get, Held, Without
    <3> QED
      BY <3>1 DEF Cache!Next, Cache!Read, Held
  <2> QED
    BY <2>1, <2>2
<1>7. CASE UNCHANGED vars
  BY <1>7 DEF vars, Held
<1> QED
  BY <1>1, <1>2, <1>3, <1>4, <1>5, <1>6, <1>7 DEF Next

\* The store implements a cache of capacity + threads - 1 entries: its three
\* step puts, its clock and its expiry are invisible to a caller.
THEOREM CcrRefinesCache == Spec => CacheSpec
<1>1. Init => Cache!Init
  BY DEF Init, Cache!Init
<1>2. TypeOK /\ TypeOK' /\ Overshoot' /\ [Next]_vars => [Cache!Next]_Cache!cache
  BY StepRefined DEF Cache!cache, Held
<1> QED
  BY <1>1, <1>2, TypeCorrect, OvershootHolds, PTL DEF Spec, CacheSpec, Cache!Spec
=============================================================================
