------------------------------ MODULE CcrStore ------------------------------
(***************************************************************************)
(* The in-memory store behind Compress-Cache-Retrieve                      *)
(* (src/src/runtime/ccr/mod.rs): a mutex around a map with a capacity and  *)
(* a time to live.  A put that finds the store full releases the mutex,    *)
(* evicts under a second acquisition and inserts under a third, so other   *)
(* threads run between its three steps.                                    *)
(***************************************************************************)
EXTENDS Naturals, FiniteSets

CONSTANTS Threads,    \* the threads that share one store
          Keys,       \* content keys (compute_key: a hash of the payload)
          Payloads,   \* what is stored under them
          Miss,       \* get's None
          Capacity,   \* the `capacity` field
          TTL,        \* the `ttl` field, in clock ticks
          MaxTime     \* bound: the last instant of a run

ASSUME ThreadsAssumption  == IsFiniteSet(Threads) /\ Threads # {}
ASSUME CapacityAssumption == Capacity \in Nat \ {0}
ASSUME TimeAssumption     == TTL \in Nat /\ MaxTime \in Nat
ASSUME KeysAssumption     == IsFiniteSet(Keys) /\ Keys # {} /\ Payloads # {}

VARIABLES
    map,      \* the entries: key -> [payload, inserted]
    now,      \* the monotonic clock that Instant::now reads
    pc,       \* per thread: "idle", or where its put stands
    arg,      \* per thread: the key and payload of its put, while it is under way
    answer    \* what the last get returned

vars == <<map, now, pc, arg, answer>>

Entry    == [payload : Payloads, inserted : 0..MaxTime]
Put      == [key : Keys, payload : Payloads]
NoPut    == CHOOSE a \in Put : TRUE

TypeOK ==
    /\ \E S \in SUBSET Keys : map \in [S -> Entry]
    /\ now \in 0..MaxTime
    /\ pc \in [Threads -> {"idle", "full", "evicted"}]
    /\ arg \in [Threads -> Put]
    /\ answer \in Payloads \cup {Miss}

Init ==
    /\ map = [k \in {} |-> CHOOSE e \in Entry : TRUE]
    /\ now = 0
    /\ pc = [t \in Threads |-> "idle"]
    /\ arg = [t \in Threads |-> NoPut]
    /\ answer = Miss

Len == Cardinality(DOMAIN map)

\* Mutant of With: an entry is stamped with the instant it expires.
WithExpiry(k, p) == [j \in DOMAIN map \cup {k} |->
                       IF j = k THEN [payload |-> p, inserted |-> now + TTL] ELSE map[j]]

Without(k)     == [j \in DOMAIN map \ {k} |-> map[j]]
With(k, p)     == [j \in DOMAIN map \cup {k} |->
                     IF j = k THEN [payload |-> p, inserted |-> now] ELSE map[j]]

\* An entry that get would refuse: older than the time to live.
Expired(k) == now - map[k].inserted > TTL

Tick ==
    /\ now < MaxTime
    /\ now' = now + 1
    /\ UNCHANGED <<map, pc, arg, answer>>

\* put_with_version on a key already present, or with room to spare: one
\* critical section that overwrites or inserts and stamps the entry.
PutAtOnce(t, k, p) ==
    /\ pc[t] = "idle"
    /\ k \in DOMAIN map \/ Len < Capacity
    /\ map' = With(k, p)
    /\ UNCHANGED <<now, pc, arg, answer>>

\* put_with_version on a new key with the store full: the mutex is dropped.
PutFull(t, k, p) ==
    /\ pc[t] = "idle"
    /\ k \notin DOMAIN map
    /\ Len >= Capacity
    /\ pc' = [pc EXCEPT ![t] = "full"]
    /\ arg' = [arg EXCEPT ![t] = [key |-> k, payload |-> p]]
    /\ UNCHANGED <<map, now, answer>>

\* Mutants of Survivors: the loop stops at the capacity; it does not look again
\* whether the store is still full; it removes the newest.
SurvivorsAtCapacity(K) ==
    /\ K \subseteq DOMAIN map
    /\ \A kept \in K, gone \in DOMAIN map \ K :
          map[gone].inserted <= map[kept].inserted
    /\ IF Len <= Capacity THEN K = DOMAIN map ELSE Cardinality(K) = Capacity

SurvivorsUnlooked(K) ==
    /\ K \subseteq DOMAIN map
    /\ \A kept \in K, gone \in DOMAIN map \ K :
          map[gone].inserted <= map[kept].inserted
    /\ Cardinality(K) = IF Len = 0 THEN 0 ELSE Len - 1

SurvivorsOldest(K) ==
    /\ K \subseteq DOMAIN map
    /\ \A kept \in K, gone \in DOMAIN map \ K :
          map[gone].inserted >= map[kept].inserted
    /\ IF Len < Capacity THEN K = DOMAIN map ELSE Cardinality(K) = Capacity - 1

\* The keys left when entries go, oldest first, until there is room: no kept
\* entry is older than a removed one, and the loop stops at capacity - 1.
Survivors(K) ==
    /\ K \subseteq DOMAIN map
    /\ \A kept \in K, gone \in DOMAIN map \ K :
          map[gone].inserted <= map[kept].inserted
    /\ IF Len < Capacity THEN K = DOMAIN map ELSE Cardinality(K) = Capacity - 1

\* evict_until_under_capacity, a critical section of its own.  Ties between
\* entries of one instant are broken by the map's iteration order.
Evict(t) ==
    /\ pc[t] = "full"
    /\ \E K \in SUBSET Keys :
          /\ Survivors(K)
          /\ map' = [j \in K |-> map[j]]
    /\ pc' = [pc EXCEPT ![t] = "evicted"]
    /\ UNCHANGED <<now, arg, answer>>

\* The third critical section of the put: it inserts without looking again.
InsertAfterEvict(t) ==
    /\ pc[t] = "evicted"
    /\ map' = With(arg[t].key, arg[t].payload)
    /\ pc' = [pc EXCEPT ![t] = "idle"]
    /\ arg' = [arg EXCEPT ![t] = NoPut]
    /\ UNCHANGED <<now, answer>>

\* Mutant of Get: an expired entry is returned once more before it goes.
GetExpired(t, k) ==
    /\ pc[t] = "idle"
    /\ answer' = IF k \in DOMAIN map THEN map[k].payload ELSE Miss
    /\ map' = IF k \in DOMAIN map /\ ~Expired(k) THEN map ELSE Without(k)
    /\ UNCHANGED <<now, pc, arg>>

\* get_with_version: a fresh entry is returned, an expired one removed.
Get(t, k) ==
    /\ pc[t] = "idle"
    /\ IF k \in DOMAIN map /\ ~Expired(k)
       THEN answer' = map[k].payload /\ map' = map
       ELSE answer' = Miss           /\ map' = Without(k)
    /\ UNCHANGED <<now, pc, arg>>

Next ==
    \/ Tick
    \/ \E t \in Threads, k \in Keys, p \in Payloads : PutAtOnce(t, k, p) \/ PutFull(t, k, p)
    \/ \E t \in Threads : Evict(t) \/ InsertAfterEvict(t)
    \/ \E t \in Threads, k \in Keys : Get(t, k)

Spec == Init /\ [][Next]_vars

-----------------------------------------------------------------------------
(* Properties.                                                             *)

\* Threads that have evicted and are about to insert without a second look.
Pending == {t \in Threads : pc[t] = "evicted"}

\* The store's size never exceeds its capacity by more than the number of
\* other threads that can be between evict_until_under_capacity and insert;
\* each thread in that window is charged the entry it will add.
Overshoot == Len + Cardinality(Pending) <= Capacity + Cardinality(Threads) - 1

\* A live entry leaves the map only in an eviction that found the store full,
\* even when several puts decided on the same full store to evict: the second
\* looks again (evict_until_under_capacity re-reads the length).
LiveEntriesLeaveOnlyWhenFull ==
    [][\A k \in DOMAIN map \ DOMAIN map' : Expired(k) \/ Len >= Capacity]_vars

\* No live entry is evicted while an entry past its time to live stays behind.
ExpiredGoFirst ==
    [][\A gone \in DOMAIN map \ DOMAIN map' :
          ~Expired(gone) => \A kept \in DOMAIN map \cap DOMAIN map' : ~Expired(kept)]_vars

\* The abstract cache: time, threads and the steps of a put are hidden.
Cache == INSTANCE BoundedCache WITH
            Bound <- Capacity + Cardinality(Threads) - 1,
            held  <- [k \in DOMAIN map |-> map[k].payload]
CacheSpec == Cache!Spec
=============================================================================
