---------------------------- MODULE OutputLines ----------------------------
(***************************************************************************)
(* What the compression engines (src/src/engines/compression) share: a     *)
(* text is a sequence of lines, a line is a record of what the recognisers *)
(* of the engines see in it (its words are not modelled), and the size an  *)
(* engine may keep comes from the adaptive sizer.                          *)
(***************************************************************************)
EXTENDS Integers, Sequences, FiniteSets, SequencesExt, FiniteSetsExt

CONSTANT SmallInput     \* up to this many items compute_optimal_k keeps all

\* Eight in the code; the ends of what is longer do not overlap.
ASSUME SizerAssumption == SmallInput \in Nat /\ SmallInput >= 2

Smaller(a, b) == IF a <= b THEN a ELSE b
Larger(a, b) == IF a >= b THEN a ELSE b

\* The elements of I in the total order Before. (SetToSortSeq of the community
\* modules looks for an order among all the functions.)
Ordered(I, Before(_, _)) ==
    LET place == [i \in I |-> 1 + Cardinality({j \in I : Before(j, i)})]
    IN  [p \in 1..Cardinality(I) |-> CHOOSE i \in I : place[i] = p]

\* The elements of s at the indices I, in their order.
Pick(s, I) == LET order == Ordered(I, <) IN [n \in 1..Cardinality(I) |-> s[order[n]]]

\* The k elements of I that come first under Before.
FirstOf(I, k, Before(_, _)) == {i \in I : Cardinality({j \in I : Before(j, i)}) < k}

\* validate_with_zlib: a fifth more when the subset compresses unlike the whole.
Validated(n, k, max_k) ==
    IF k >= n \/ k >= max_k THEN {k} ELSE {k, Smaller((k * 12) \div 10, max_k)}

\* compute_optimal_k with the bias 0.0 every caller passes: how many items an
\* engine keeps. Whatever the knee of the bigram curve is, the bias leaves min_k.
OptimalKs(n, min_k, max_k) ==
    LET k == Smaller(min_k, max_k)
    IN  IF n <= SmallInput THEN {n}
        ELSE {k} \cup {Larger(min_k, v) : v \in Validated(n, k, max_k)}
=============================================================================
