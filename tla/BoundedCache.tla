---------------------------- MODULE BoundedCache ----------------------------
(***************************************************************************)
(* What the CCR store promises its callers: a partial map from keys to     *)
(* payloads that holds at most Bound entries, may forget any entry at any  *)
(* time, and answers a read with what is held under that key or with a     *)
(* miss.  Nothing here says when an entry is forgotten, or that a write    *)
(* and the forgetting it causes are one instant; CcrStore refines this.    *)
(***************************************************************************)
EXTENDS Naturals, FiniteSets

CONSTANTS Keys,       \* the content keys
          Payloads,   \* what may be stored
          Miss,       \* the answer of a read that found nothing
          Bound       \* the most entries the cache ever holds

VARIABLES held,       \* the entries: a function from some keys to payloads
          answer      \* what the last read returned

cache == <<held, answer>>

Init ==
    /\ held = [k \in {} |-> Miss]
    /\ answer = Miss

\* One entry is stored; nothing else changes.
Store(k, p) ==
    /\ held' = [j \in DOMAIN held \cup {k} |-> IF j = k THEN p ELSE held[j]]
    /\ Cardinality(DOMAIN held') <= Bound
    /\ UNCHANGED answer

\* Some entries are forgotten; the others keep their payloads.
Forget ==
    /\ \E S \in SUBSET DOMAIN held : held' = [j \in S |-> held[j]]
    /\ UNCHANGED answer

\* A read that hits changes nothing; one that misses may drop the entry.
Read(k) ==
    \/ /\ k \in DOMAIN held
       /\ answer' = held[k]
       /\ UNCHANGED held
    \/ /\ answer' = Miss
       /\ held' = [j \in DOMAIN held \ {k} |-> held[j]]

Next ==
    \/ \E k \in Keys, p \in Payloads : Store(k, p)
    \/ Forget
    \/ \E k \in Keys : Read(k)

Spec == Init /\ [][Next]_cache
=============================================================================
