---------------------------- MODULE FiniteFolds ----------------------------
(***************************************************************************)
(* Sums, folds and orders over finite sets.  MapThenSumSet and FoldLeft of *)
(* the community modules are recursive functions on the subsets of a set;  *)
(* SumsUp says of a function that it is the first, for the weights w.  The *)
(* induction theorems of the library take the claim as an operator; the    *)
(* proofs below take a smallest subset on which the claim fails instead,   *)
(* of which WFMin speaks without.                                          *)
(***************************************************************************)
EXTENDS FiniteSetsExt, FiniteSetTheorems, TLAPS

First(s) == CHOOSE x \in s : TRUE

SumsUp(g, w, S) ==
    g = [s \in SUBSET S |-> IF s = {} THEN 0 ELSE w[First(s)] + g[s \ {First(s)}]]

\* First is an element.
LEMMA FirstIn == \A s : s # {} => First(s) \in s
  BY DEF First

\* A nonempty collection of subsets of a finite set has a smallest one.
LEMMA Smallest ==
  ASSUME NEW S, IsFiniteSet(S), NEW T, T \subseteq SUBSET S, T # {}
  PROVE  \E s \in T : \A t \in T : ~(t \subseteq s /\ t # s)
<1>1. IsWellFoundedOn(StrictSubsetOrdering(S), FiniteSubsetsOf(S))
  BY FS_StrictSubsetOrderingWellFounded
<1>2. FiniteSubsetsOf(S) = SUBSET S
  BY FS_FiniteSubsetsOfFinite
<1>3. \E s \in T : \A t \in T : <<t, s>> \notin StrictSubsetOrdering(S)
  BY <1>1, <1>2, WFMin
<1> QED
  BY <1>3 DEF StrictSubsetOrdering

\* A nonempty set of natural numbers has a least one.
LEMMA Least ==
  ASSUME NEW T \in SUBSET Nat, T # {}
  PROVE  \E n \in T : \A m \in T : n <= m
<1>1. \E n \in T : \A m \in T : <<m, n>> \notin OpToRel(<, Nat)
  BY NatLessThanWellFounded, WFMin
<1>2. PICK n \in T : \A m \in T : <<m, n>> \notin OpToRel(<, Nat)
  BY <1>1
<1>3. \A m \in T : ~(m < n)
  BY <1>2 DEF OpToRel
<1> QED
  BY <1>3

\* A set of numbers that goes on from each to the next goes up to the last.
LEMMA Climb ==
  ASSUME NEW n \in Nat, NEW T \in SUBSET (0..n), 0 \in T,
         \A m \in 1..n : m - 1 \in T => m \in T
  PROVE  T = 0..n
<1> SUFFICES ASSUME (0..n) \ T # {} PROVE FALSE
  OBVIOUS
<1>1. PICK m \in (0..n) \ T : \A k \in (0..n) \ T : m <= k
  <2>1. (0..n) \ T \in SUBSET Nat
    OBVIOUS
  <2> QED BY <2>1, Least
<1>2. m \in 1..n /\ m - 1 \in 0..n
  BY <1>1
<1> QED BY <1>1, <1>2

\* The image of a finite set is finite, and as large if nothing is mapped twice.
LEMMA Image ==
  ASSUME NEW S, IsFiniteSet(S), NEW f
  PROVE  /\ IsFiniteSet({f[x] : x \in S})
         /\ (\A x, y \in S : f[x] = f[y] => x = y)
               => Cardinality({f[x] : x \in S}) = Cardinality(S)
<1> DEFINE T == {f[x] : x \in S}
           h == [x \in S |-> f[x]]
<1>1. h \in Surjection(S, T)
  BY DEF Surjection
<1>2. IsFiniteSet(T)
  <2> HIDE DEF h, T
  <2> QED BY <1>1, FS_Surjection
<1>3. (\A x, y \in S : f[x] = f[y] => x = y) => h \in Injection(S, T)
  BY DEF Injection, IsInjective
<1>4. h \in Injection(S, T) => Cardinality(T) = Cardinality(S)
  <2> HIDE DEF h, T
  <2> QED BY <1>1, FS_Surjection
<1> QED BY <1>2, <1>3, <1>4

\* The recursion of a sum has a solution: from one on the subsets of up to n
\* elements comes one on those of up to n + 1.
LEMMA SumExists ==
  ASSUME NEW S, IsFiniteSet(S), NEW w
  PROVE  \E g : SumsUp(g, w, S)
<1> DEFINE Level(n) == {s \in SUBSET S : Cardinality(s) <= n}
           Solves(g, n) == g = [s \in Level(n) |-> IF s = {} THEN 0
                                                   ELSE w[First(s)] + g[s \ {First(s)}]]
           Bad == {n \in Nat : ~ \E g : Solves(g, n)}
<1>0. /\ Cardinality(S) \in Nat
      /\ \A s \in SUBSET S : IsFiniteSet(s) /\ Cardinality(s) \in Nat
                             /\ Cardinality(s) <= Cardinality(S)
  BY FS_CardinalityType, FS_Subset
<1>1. SUFFICES Bad = {}
  <2>1. \E g : Solves(g, Cardinality(S))
    BY <1>0, <1>1
  <2>2. Level(Cardinality(S)) = SUBSET S
    BY <1>0
  <2> QED BY <2>1, <2>2 DEF SumsUp
<1>2. SUFFICES ASSUME Bad # {} PROVE FALSE
  OBVIOUS
<1>3. PICK n \in Bad : \A m \in Bad : n <= m
  BY <1>2, Least
<1>4. Level(0) = {{}}
  BY <1>0, FS_EmptySet
<1>5. CASE n = 0
  <2> DEFINE zero == [s \in Level(0) |-> 0]
  <2>1. Solves(zero, 0)
    BY <1>4
  <2>2. \E g : Solves(g, 0)
    <3> HIDE DEF zero, Solves
    <3> QED BY <2>1
  <2> QED BY <1>3, <1>5, <2>2
<1>6. CASE n # 0
  <2>1. n - 1 \in Nat /\ n - 1 \notin Bad
    <3>1. n \in Nat
      OBVIOUS
    <3> HIDE DEF Bad
    <3> QED BY <1>3, <1>6, <3>1
  <2>2. PICK g : Solves(g, n - 1)
    BY <2>1
  <2> DEFINE h == [s \in Level(n) |-> IF s = {} THEN 0 ELSE w[First(s)] + g[s \ {First(s)}]]
  <2>3. \A s \in Level(n) : s # {} => s \ {First(s)} \in Level(n - 1)
    <3> TAKE s \in Level(n)
    <3> HAVE s # {}
    <3>1. First(s) \in s
      BY FirstIn
    <3>2. Cardinality(s \ {First(s)}) = Cardinality(s) - 1
      BY <1>0, <3>1, FS_RemoveElement
    <3> QED BY <1>0, <1>3, <3>2
  <2>4. \A s \in Level(n - 1) : s \in Level(n) /\ h[s] = g[s]
    <3>1. \A s \in Level(n - 1) : s \in Level(n)
      BY <1>0, <1>3
    <3> QED BY <2>2, <3>1
  <2>5. Solves(h, n)
    BY <2>3, <2>4
  <2> QED BY <1>3, <2>5
<1> QED BY <1>5, <1>6

\* The sum of natural numbers is one, and none of them exceeds it.
LEMMA SumIsNat ==
  ASSUME NEW S, IsFiniteSet(S), NEW w, \A x \in S : w[x] \in Nat, NEW g, SumsUp(g, w, S)
  PROVE  /\ \A s \in SUBSET S : g[s] \in Nat
         /\ \A x \in S : w[x] <= g[S]
<1> DEFINE Fine(s) == g[s] \in Nat /\ \A x \in s : w[x] <= g[s]
           Bad == {s \in SUBSET S : ~Fine(s)}
<1>1. SUFFICES ASSUME Bad # {} PROVE FALSE
  OBVIOUS
<1>2. PICK s \in Bad : \A t \in Bad : ~(t \subseteq s /\ t # s)
  <2>1. Bad \subseteq SUBSET S
    OBVIOUS
  <2> HIDE DEF Bad
  <2> QED BY <1>1, <2>1, Smallest
<1>3. s # {}
  BY DEF SumsUp
<1>4. First(s) \in s
  BY <1>3, FirstIn
<1>5. Fine(s \ {First(s)})
  BY <1>2, <1>4
<1>6. g[s] = w[First(s)] + g[s \ {First(s)}]
  BY <1>3 DEF SumsUp
<1>7. w[First(s)] \in Nat
  BY <1>4
<1>8. g[s] \in Nat
  BY <1>5, <1>6, <1>7
<1>9. \A x \in s : w[x] <= g[s]
  <2> TAKE x \in s
  <2>1. w[x] \in Nat
    OBVIOUS
  <2>2. CASE x = First(s)
    BY <1>5, <1>6, <1>7, <2>2
  <2>3. CASE x # First(s)
    <3>1. x \in s \ {First(s)}
      BY <2>3
    <3> QED BY <1>5, <1>6, <1>7, <2>1, <3>1
  <2> QED BY <2>2, <2>3
<1> QED BY <1>2, <1>8, <1>9

\* A sum is any of its elements and the sum of the others.
LEMMA SumTakes ==
  ASSUME NEW S, IsFiniteSet(S), NEW w, \A x \in S : w[x] \in Nat, NEW g, SumsUp(g, w, S)
  PROVE  \A s \in SUBSET S : \A y \in s : g[s] = w[y] + g[s \ {y}]
<1> DEFINE Bad == {s \in SUBSET S : \E y \in s : g[s] # w[y] + g[s \ {y}]}
<1>1. SUFFICES ASSUME Bad # {} PROVE FALSE
  OBVIOUS
<1>2. PICK s \in Bad : \A t \in Bad : ~(t \subseteq s /\ t # s)
  <2>1. Bad \subseteq SUBSET S
    OBVIOUS
  <2> HIDE DEF Bad
  <2> QED BY <1>1, <2>1, Smallest
<1>3. PICK y \in s : g[s] # w[y] + g[s \ {y}]
  OBVIOUS
<1>4. PICK x \in s : x = First(s)
  BY FirstIn
<1>5. g[s] = w[x] + g[s \ {x}]
  BY <1>4 DEF SumsUp
<1>6. y # x
  BY <1>3, <1>5
<1>7. /\ s \ {x} \in SUBSET S /\ s \ {x} \notin Bad /\ y \in s \ {x}
      /\ s \ {y} \in SUBSET S /\ s \ {y} \notin Bad /\ x \in s \ {y}
  <2>1. /\ s \ {x} \in SUBSET S /\ y \in s \ {x} /\ s \ {x} \subseteq s /\ s \ {x} # s
        /\ s \ {y} \in SUBSET S /\ x \in s \ {y} /\ s \ {y} \subseteq s /\ s \ {y} # s
    BY <1>6
  <2> HIDE DEF Bad
  <2> QED BY <1>2, <2>1
<1>8. g[s \ {x}] = w[y] + g[(s \ {x}) \ {y}] /\ g[s \ {y}] = w[x] + g[(s \ {y}) \ {x}]
  BY <1>7
<1>9. (s \ {x}) \ {y} = (s \ {y}) \ {x} /\ (s \ {x}) \ {y} \in SUBSET S
  OBVIOUS
<1>10. w[x] \in Nat /\ w[y] \in Nat /\ g[(s \ {x}) \ {y}] \in Nat
  <2> HIDE DEF Bad
  <2> QED BY <1>7, <1>9, SumIsNat
<1> HIDE DEF Bad
<1> QED BY <1>3, <1>5, <1>8, <1>9, <1>10

\* A sum of natural numbers grows with the set.
LEMMA SumGrows ==
  ASSUME NEW S, IsFiniteSet(S), NEW w, \A x \in S : w[x] \in Nat, NEW g, SumsUp(g, w, S)
  PROVE  \A s \in SUBSET S : \A t \in SUBSET s : g[t] <= g[s]
<1> DEFINE Bad == {s \in SUBSET S : \E t \in SUBSET s : ~(g[t] <= g[s])}
<1>1. SUFFICES ASSUME Bad # {} PROVE FALSE
  OBVIOUS
<1>2. PICK s \in Bad : \A t \in Bad : ~(t \subseteq s /\ t # s)
  <2>1. Bad \subseteq SUBSET S
    OBVIOUS
  <2> HIDE DEF Bad
  <2> QED BY <1>1, <2>1, Smallest
<1>3. PICK t \in SUBSET s : ~(g[t] <= g[s])
  OBVIOUS
<1>4. s \in SUBSET S /\ t \in SUBSET S
  OBVIOUS
<1> HIDE DEF Bad
<1>5. g[s] \in Nat /\ g[t] \in Nat
  BY <1>4, SumIsNat
<1>6. PICK y \in s : y \notin t
  BY <1>3, <1>5
<1>7. g[s] = w[y] + g[s \ {y}]
  BY <1>4, SumTakes
<1>8. s \ {y} \in SUBSET S /\ s \ {y} \notin Bad /\ t \in SUBSET (s \ {y})
  <2>1. s \ {y} \in SUBSET S /\ s \ {y} \subseteq s /\ s \ {y} # s /\ t \in SUBSET (s \ {y})
    BY <1>4, <1>6
  <2> QED BY <1>2, <2>1
<1>9. g[t] <= g[s \ {y}]
  BY <1>8 DEF Bad
<1>10. w[y] \in Nat /\ g[s \ {y}] \in Nat
  BY <1>4, <1>8, SumIsNat
<1> QED BY <1>3, <1>5, <1>7, <1>9, <1>10

\* The sum of nothing but zeros is zero.
LEMMA SumOfZeros ==
  ASSUME NEW S, IsFiniteSet(S), NEW w, \A x \in S : w[x] = 0, NEW g, SumsUp(g, w, S)
  PROVE  g[S] = 0
<1> DEFINE Bad == {s \in SUBSET S : g[s] # 0}
<1>1. SUFFICES ASSUME Bad # {} PROVE FALSE
  OBVIOUS
<1>2. PICK s \in Bad : \A t \in Bad : ~(t \subseteq s /\ t # s)
  <2>1. Bad \subseteq SUBSET S
    OBVIOUS
  <2> HIDE DEF Bad
  <2> QED BY <1>1, <2>1, Smallest
<1>3. s # {}
  BY DEF SumsUp
<1>4. First(s) \in s
  BY <1>3, FirstIn
<1>5. g[s \ {First(s)}] = 0
  BY <1>2, <1>4
<1>6. g[s] = w[First(s)] + g[s \ {First(s)}]
  BY <1>3 DEF SumsUp
<1>7. w[First(s)] = 0
  BY <1>4
<1>8. g[s] = 0
  BY <1>5, <1>6, <1>7
<1> QED BY <1>2, <1>8

\* Two sums over the same set add up to the sum of the added weights.
LEMMA SumsAdd ==
  ASSUME NEW S, IsFiniteSet(S), NEW u, NEW v, NEW w,
         \A x \in S : u[x] \in Nat /\ v[x] \in Nat /\ w[x] = u[x] + v[x],
         NEW f, SumsUp(f, u, S), NEW g, SumsUp(g, v, S), NEW h, SumsUp(h, w, S)
  PROVE  h[S] = f[S] + g[S]
<1> DEFINE Bad == {s \in SUBSET S : h[s] # f[s] + g[s]}
<1>1. SUFFICES ASSUME Bad # {} PROVE FALSE
  OBVIOUS
<1>2. PICK s \in Bad : \A t \in Bad : ~(t \subseteq s /\ t # s)
  <2>1. Bad \subseteq SUBSET S
    OBVIOUS
  <2> HIDE DEF Bad
  <2> QED BY <1>1, <2>1, Smallest
<1>3. s # {}
  BY DEF SumsUp
<1>4. First(s) \in s
  BY <1>3, FirstIn
<1>5. h[s \ {First(s)}] = f[s \ {First(s)}] + g[s \ {First(s)}]
  BY <1>2, <1>4
<1>6. /\ h[s] = w[First(s)] + h[s \ {First(s)}]
      /\ f[s] = u[First(s)] + f[s \ {First(s)}]
      /\ g[s] = v[First(s)] + g[s \ {First(s)}]
  BY <1>3 DEF SumsUp
<1>7. f[s \ {First(s)}] \in Nat /\ g[s \ {First(s)}] \in Nat
  BY SumIsNat
<1>8. u[First(s)] \in Nat /\ v[First(s)] \in Nat /\ w[First(s)] = u[First(s)] + v[First(s)]
  BY <1>4
<1>9. h[s] = f[s] + g[s]
  <2> HIDE DEF Bad
  <2> QED BY <1>5, <1>6, <1>7, <1>8
<1> QED BY <1>2, <1>9

\* A set has one sum of the same weights.
LEMMA SumIsUnique ==
  ASSUME NEW S, IsFiniteSet(S), NEW v, NEW w, \A x \in S : v[x] = w[x],
         NEW f, SumsUp(f, v, S), NEW g, SumsUp(g, w, S)
  PROVE  f[S] = g[S]
<1> DEFINE Bad == {s \in SUBSET S : f[s] # g[s]}
<1>1. SUFFICES ASSUME Bad # {} PROVE FALSE
  OBVIOUS
<1>2. PICK s \in Bad : \A t \in Bad : ~(t \subseteq s /\ t # s)
  <2>1. Bad \subseteq SUBSET S
    OBVIOUS
  <2> HIDE DEF Bad
  <2> QED BY <1>1, <2>1, Smallest
<1>3. s # {}
  BY DEF SumsUp
<1>4. First(s) \in s
  BY <1>3, FirstIn
<1>5. f[s \ {First(s)}] = g[s \ {First(s)}]
  BY <1>2, <1>4
<1>6. f[s] = v[First(s)] + f[s \ {First(s)}] /\ g[s] = w[First(s)] + g[s \ {First(s)}]
  BY <1>3 DEF SumsUp
<1>7. v[First(s)] = w[First(s)]
  BY <1>4
<1> QED BY <1>2, <1>5, <1>6, <1>7

\* Summing a table by rows and then the sums is summing it by columns: a[x] are the
\* weights of row x, and b[s] those of the columns over the rows in s.
Table(a, b, I, R) ==
    /\ IsFiniteSet(I) /\ IsFiniteSet(R)
    /\ \A x \in R : \A i \in I : a[x][i] \in Nat
    /\ \A s \in SUBSET R : \A i \in I : b[s][i] \in Nat
    /\ \A i \in I : b[{}][i] = 0
    /\ \A s \in SUBSET R : s # {} =>
          \A i \in I : b[s][i] = a[First(s)][i] + b[s \ {First(s)}][i]

\* w[x] is the sum of row x.
RowSums(w, a, I, R) == \A x \in R : \E g : SumsUp(g, a[x], I) /\ w[x] = g[I]

LEMMA SumsExchange ==
  ASSUME NEW I, NEW R, NEW a, NEW b, Table(a, b, I, R),
         NEW w, RowSums(w, a, I, R),
         NEW h, SumsUp(h, w, R),
         NEW H, SumsUp(H, b[R], I)
  PROVE  h[R] = H[I]
<1> USE DEF Table
<1> DEFINE K == [s \in SUBSET R |-> CHOOSE g : SumsUp(g, b[s], I)]
           Bad == {s \in SUBSET R : h[s] # K[s][I]}
<1>0. \A s \in SUBSET R : SumsUp(K[s], b[s], I)
  <2> TAKE s \in SUBSET R
  <2>1. \E g : SumsUp(g, b[s], I)
    BY SumExists
  <2>2. K[s] = CHOOSE g : SumsUp(g, b[s], I)
    OBVIOUS
  <2> QED BY <2>1, <2>2
<1> HIDE DEF K
<1>1. Bad = {}
  <2> SUFFICES ASSUME Bad # {} PROVE FALSE
    OBVIOUS
  <2>1. PICK s \in Bad : \A t \in Bad : ~(t \subseteq s /\ t # s)
    <3>1. Bad \subseteq SUBSET R
      OBVIOUS
    <3> HIDE DEF Bad
    <3> QED BY <3>1, Smallest
  <2>2. s \in SUBSET R /\ h[s] # K[s][I]
    OBVIOUS
  <2>3. CASE s = {}
    <3>1. h[{}] = 0
      BY DEF SumsUp
    <3>2. SumsUp(K[{}], b[{}], I)
      BY <1>0
    <3>3. K[{}][I] = 0
      BY <3>2, SumOfZeros
    <3> QED BY <2>2, <2>3, <3>1, <3>3
  <2>4. CASE s # {}
    <3> DEFINE x == First(s)
               t == s \ {x}
    <3>1. x \in s
      BY <2>4, FirstIn
    <3>2. h[t] = K[t][I]
      BY <2>1, <3>1
    <3>3. h[s] = w[x] + h[t]
      BY <2>2, <2>4 DEF SumsUp
    <3>4. PICK row : w[x] = row[I] /\ SumsUp(row, a[x], I)
      BY <3>1 DEF RowSums
    <3>5. SumsUp(K[s], b[s], I) /\ SumsUp(K[t], b[t], I)
      BY <1>0
    <3>6. \A i \in I : a[x][i] \in Nat /\ b[t][i] \in Nat /\ b[s][i] = a[x][i] + b[t][i]
      BY <2>2, <2>4, <3>1
    <3> HIDE DEF x, t
    <3>7. K[s][I] = row[I] + K[t][I]
      <4> DEFINE u == a[x]
                 v == b[t]
                 uv == b[s]
                 f == row
                 g == K[t]
                 fg == K[s]
      <4>1. SumsUp(f, u, I) /\ SumsUp(g, v, I) /\ SumsUp(fg, uv, I)
        BY <3>4, <3>5
      <4>2. \A i \in I : u[i] \in Nat /\ v[i] \in Nat /\ uv[i] = u[i] + v[i]
        BY <3>6
      <4> HIDE DEF u, v, uv, f, g, fg, Bad
      <4>3. fg[I] = f[I] + g[I]
        BY ONLY IsFiniteSet(I), <4>1, <4>2, SumsAdd
      <4> QED BY <4>3 DEF f, g, fg
    <3> QED BY <2>2, <3>2, <3>3, <3>4, <3>7
  <2> QED BY <2>3, <2>4
<1>2. h[R] = K[R][I]
  BY <1>1
<1>3. K[R][I] = H[I]
  BY <1>0, SumIsUnique
<1> QED BY <1>2, <1>3

\* Sets that have nothing in common hold together as much as each of them does.
Apart(X, w, I) ==
    /\ IsFiniteSet(I)
    /\ \A i \in I : IsFiniteSet(X[i]) /\ w[i] = Cardinality(X[i])
    /\ \A i, j \in I : i # j => X[i] \cap X[j] = {}

LEMMA DisjointSum ==
  ASSUME NEW I, NEW X, NEW w, Apart(X, w, I), NEW g, SumsUp(g, w, I)
  PROVE  IsFiniteSet(UNION {X[i] : i \in I}) /\ g[I] = Cardinality(UNION {X[i] : i \in I})
<1> USE DEF Apart
<1> DEFINE U(s) == UNION {X[i] : i \in s}
           Bad == {s \in SUBSET I : ~(IsFiniteSet(U(s)) /\ g[s] = Cardinality(U(s)))}
<1>1. SUFFICES ASSUME Bad # {} PROVE FALSE
  OBVIOUS
<1>2. PICK s \in Bad : \A t \in Bad : ~(t \subseteq s /\ t # s)
  <2>1. Bad \subseteq SUBSET I
    OBVIOUS
  <2> HIDE DEF Bad
  <2> QED BY <1>1, <2>1, Smallest
<1>3. s # {}
  <2>1. U({}) = {} /\ g[{}] = 0
    BY DEF SumsUp
  <2>2. IsFiniteSet({}) /\ Cardinality({}) = 0
    BY FS_EmptySet
  <2> QED BY <2>1, <2>2
<1> DEFINE x == First(s)
           t == s \ {x}
<1>4. x \in s
  BY <1>3, FirstIn
<1>5. IsFiniteSet(U(t)) /\ g[t] = Cardinality(U(t))
  <2>1. t \in SUBSET I /\ t \subseteq s /\ t # s
    BY <1>4
  <2>2. t \notin Bad
    <3> HIDE DEF t, Bad
    <3> QED BY <1>2, <2>1
  <2> HIDE DEF t
  <2> QED BY <2>1, <2>2
<1>6. g[s] = w[x] + g[t]
  BY <1>3 DEF SumsUp
<1>7. U(s) = X[x] \cup U(t) /\ X[x] \cap U(t) = {}
  <2> HIDE DEF x
  <2> QED BY <1>4
<1>8. w[x] = Cardinality(X[x]) /\ IsFiniteSet(X[x])
  BY <1>4
<1> HIDE DEF x, t, U
<1>9. IsFiniteSet(U(s)) /\ Cardinality(U(s)) = Cardinality(X[x]) + Cardinality(U(t)) - 0
  <2>1. IsFiniteSet(X[x] \cup U(t))
        /\ Cardinality(X[x] \cup U(t)) = Cardinality(X[x]) + Cardinality(U(t)) - Cardinality(X[x] \cap U(t))
    BY <1>5, <1>8, FS_Union
  <2>2. Cardinality(X[x] \cap U(t)) = 0
    BY <1>7, FS_EmptySet
  <2> QED BY <1>7, <2>1, <2>2
<1>10. Cardinality(X[x]) \in Nat /\ Cardinality(U(t)) \in Nat
  BY <1>5, <1>8, FS_CardinalityType
<1> QED BY <1>5, <1>6, <1>8, <1>9, <1>10

-----------------------------------------------------------------------------
\* Least and greatest elements.

LEMMA MinIn ==
  ASSUME NEW S, S \subseteq Nat, S # {}
  PROVE  Min(S) \in S /\ \A x \in S : Min(S) <= x
<1>1. \E n \in S : \A m \in S : n <= m
  BY Least
<1> QED BY <1>1 DEF Min

LEMMA MaxIn ==
  ASSUME NEW n \in Nat, NEW S \in SUBSET (1..n), S # {}
  PROVE  Max(S) \in S /\ \A x \in S : x <= Max(S)
<1> DEFINE T == {m \in Nat : \E x \in S : m = n - x}
<1>1. PICK m \in T : \A k \in T : m <= k
  <2>1. PICK x \in S : TRUE
    OBVIOUS
  <2>2. n - x \in Nat
    BY <2>1
  <2>3. T # {} /\ T \subseteq Nat
    BY <2>1, <2>2
  <2> HIDE DEF T
  <2> QED BY <2>3, Least
<1>2. PICK x \in S : m = n - x
  OBVIOUS
<1>3. \A y \in S : x >= y
  <2> TAKE y \in S
  <2>1. n - y \in T
    OBVIOUS
  <2> HIDE DEF T
  <2> QED BY <1>1, <1>2, <2>1
<1>4. \A y \in S : Max(S) >= y /\ Max(S) \in S
  BY <1>2, <1>3 DEF Max
<1> QED BY <1>4

-----------------------------------------------------------------------------
(* FoldLeft over a sequence of n elements takes the greatest index of a    *)
(* set of them out, folds the rest, and takes a step with that index; the  *)
(* step is a function here, of what was folded and the index.              *)

Solves(g, base, step, n) ==
    g = [s \in SUBSET (1..n) |-> IF s = {} THEN base ELSE step[<<g[s \ {Max(s)}], Max(s)>>]]

LEMMA FoldExists ==
  ASSUME NEW n \in Nat, NEW A, NEW base \in A, NEW step \in [A \X (1..n) -> A]
  PROVE  \E g \in [SUBSET (1..n) -> A] : Solves(g, base, step, n)
<1> DEFINE S == 1..n
           Level(k) == {s \in SUBSET S : Cardinality(s) <= k}
           Is(g, k) == /\ g \in [Level(k) -> A]
                       /\ g = [s \in Level(k) |-> IF s = {} THEN base
                                                  ELSE step[<<g[s \ {Max(s)}], Max(s)>>]]
           Bad == {k \in Nat : ~ \E g : Is(g, k)}
<1>0. /\ IsFiniteSet(S) /\ Cardinality(S) = n
      /\ \A s \in SUBSET S : IsFiniteSet(s) /\ Cardinality(s) \in Nat /\ Cardinality(s) <= n
  <2>1. IsFiniteSet(S) /\ Cardinality(S) = n
    BY FS_Interval
  <2> HIDE DEF S
  <2> QED BY <2>1, FS_CardinalityType, FS_Subset
<1>1. SUFFICES Bad = {}
  <2>1. \E g : Is(g, n)
    BY <1>1
  <2>2. Level(n) = SUBSET S
    BY <1>0
  <2> QED BY <2>1, <2>2 DEF Solves
<1>2. SUFFICES ASSUME Bad # {} PROVE FALSE
  OBVIOUS
<1>3. PICK k \in Bad : \A m \in Bad : k <= m
  BY <1>2, Least
<1>4. Level(0) = {{}}
  BY <1>0, FS_EmptySet
<1>5. \A s \in SUBSET S : s # {} => Max(s) \in s
  BY MaxIn
<1> HIDE DEF S
<1>6. CASE k = 0
  <2> DEFINE zero == [s \in Level(0) |-> base]
  <2>1. Is(zero, 0)
    BY <1>4
  <2>2. \E g : Is(g, 0)
    <3> HIDE DEF zero, Is
    <3> QED BY <2>1
  <2> QED BY <1>3, <1>6, <2>2
<1>7. CASE k # 0
  <2>1. k - 1 \in Nat /\ k - 1 \notin Bad
    <3>1. k \in Nat
      OBVIOUS
    <3> HIDE DEF Bad
    <3> QED BY <1>3, <1>7, <3>1
  <2>2. PICK g : Is(g, k - 1)
    BY <2>1
  <2> DEFINE h == [s \in Level(k) |-> IF s = {} THEN base ELSE step[<<g[s \ {Max(s)}], Max(s)>>]]
  <2>3. \A s \in Level(k) : s # {} => s \ {Max(s)} \in Level(k - 1)
    <3> TAKE s \in Level(k)
    <3> HAVE s # {}
    <3>1. Max(s) \in s
      BY <1>5
    <3>2. Cardinality(s \ {Max(s)}) = Cardinality(s) - 1
      BY <1>0, <3>1, FS_RemoveElement
    <3> QED BY <1>0, <1>3, <3>2
  <2>4. \A s \in Level(k - 1) : s \in Level(k) /\ h[s] = g[s]
    <3>1. \A s \in Level(k - 1) : s \in Level(k)
      BY <1>0, <1>3
    <3> QED BY <2>2, <3>1
  <2>5. h \in [Level(k) -> A]
    <3>1. ASSUME NEW s \in Level(k), s # {}
          PROVE  step[<<g[s \ {Max(s)}], Max(s)>>] \in A
      <4>1. g[s \ {Max(s)}] \in A
        BY <2>2, <2>3, <3>1
      <4>2. Max(s) \in 1..n
        BY <1>5, <3>1 DEF S
      <4> QED BY <4>1, <4>2
    <3> QED BY <3>1
  <2>6. Is(h, k)
    BY <2>3, <2>4, <2>5
  <2> QED BY <1>3, <2>6
<1> QED BY <1>6, <1>7

\* It is enough to know the steps of a fold where what was folded so far is in A.
IsFold(iter, base, step, n, A) ==
    /\ n \in Nat /\ base \in A /\ step \in [A \X (1..n) -> A]
    /\ iter[{}] = base
    /\ \A s \in SUBSET (1..n) :
          s # {} /\ iter[s \ {Max(s)}] \in A => iter[s] = step[<<iter[s \ {Max(s)}], Max(s)>>]

\* What a fold is, one element after the other.
LEMMA FoldRuns ==
  ASSUME NEW n, NEW A, NEW base, NEW step, NEW iter, IsFold(iter, base, step, n, A)
  PROVE  \E f \in [0..n -> A] : /\ f[0] = base /\ f[n] = iter[1..n]
                               /\ \A m \in 1..n : f[m] = step[<<f[m - 1], m>>]
<1> USE DEF IsFold
<1> DEFINE Bad == {m \in 0..n : iter[1..m] \notin A}
           f == [m \in 0..n |-> iter[1..m]]
<1>1. \A m \in 1..n : /\ 1..m \in SUBSET (1..n) /\ 1..m # {}
                       /\ Max(1..m) = m /\ (1..m) \ {m} = 1..(m - 1)
  <2> TAKE m \in 1..n
  <2>1. 1..m \in SUBSET (1..n) /\ 1..m # {} /\ m \in 1..m
    OBVIOUS
  <2>2. Max(1..m) \in 1..m /\ \A x \in 1..m : x <= Max(1..m)
    BY <2>1, MaxIn
  <2>3. (1..m) \ {m} = 1..(m - 1)
    OBVIOUS
  <2> QED BY <2>1, <2>2, <2>3
<1>2. 1..0 = {}
  OBVIOUS
<1>3. Bad = {}
  <2> SUFFICES ASSUME Bad # {} PROVE FALSE
    OBVIOUS
  <2>1. PICK m \in Bad : \A k \in Bad : m <= k
    <3>1. Bad \in SUBSET Nat
      OBVIOUS
    <3> HIDE DEF Bad
    <3> QED BY <3>1, Least
  <2>2. m \in 1..n
    BY <1>2, <2>1
  <2>3. m - 1 \in 0..n /\ m - 1 \notin Bad
    <3>1. m - 1 \in 0..n
      BY <2>2
    <3> HIDE DEF Bad
    <3> QED BY <2>1, <2>2, <3>1
  <2>4. iter[1..(m - 1)] \in A
    BY <2>3
  <2>5. iter[1..m] = step[<<iter[1..(m - 1)], m>>]
    BY <1>1, <2>2, <2>4
  <2> QED BY <2>2, <2>4, <2>5
<1>4. \A m \in 0..n : iter[1..m] \in A
  BY <1>3
<1>5. \A m \in 1..n : f[m] = step[<<f[m - 1], m>>]
  <2> TAKE m \in 1..n
  <2>1. m - 1 \in 0..n /\ m \in 0..n
    OBVIOUS
  <2>2. f[m] = iter[1..m] /\ f[m - 1] = iter[1..(m - 1)]
    BY <2>1
  <2>3. iter[1..m] = step[<<iter[1..(m - 1)], m>>]
    BY <1>1, <1>4, <2>1
  <2> QED BY <2>2, <2>3
<1>6. f \in [0..n -> A] /\ f[0] = base /\ f[n] = iter[1..n]
  BY <1>2, <1>4
<1> HIDE DEF f
<1> QED BY <1>5, <1>6

\* A run whose every step keeps what it has keeps it to the end.
LEMMA Growing ==
  ASSUME NEW n \in Nat, NEW f, \A m \in 1..n : f[m - 1] \subseteq f[m]
  PROVE  \A m \in 0..n : f[m] \subseteq f[n]
<1> SUFFICES ASSUME NEW m \in 0..n PROVE f[m] \subseteq f[n]
  OBVIOUS
<1> DEFINE Bad == {k \in m..n : ~(f[m] \subseteq f[k])}
<1>1. Bad = {}
  <2> SUFFICES ASSUME Bad # {} PROVE FALSE
    OBVIOUS
  <2>1. PICK k \in Bad : \A j \in Bad : k <= j
    <3>1. Bad \in SUBSET Nat
      OBVIOUS
    <3> HIDE DEF Bad
    <3> QED BY <3>1, Least
  <2>2. k # m
    OBVIOUS
  <2>3. k - 1 \in m..n /\ k \in 1..n /\ k - 1 \notin Bad
    <3>1. k - 1 \in m..n /\ k \in 1..n /\ k \in Nat
      BY <2>2
    <3> HIDE DEF Bad
    <3> QED BY <2>1, <3>1
  <2>4. f[m] \subseteq f[k - 1] /\ f[k - 1] \subseteq f[k]
    BY <2>3
  <2> QED BY <2>4
<1> QED BY <1>1

\* A fold of sets whose every step keeps what it has.
LEMMA FoldGrows ==
  ASSUME NEW n, NEW A, NEW base, NEW step, NEW iter, IsFold(iter, base, step, n, A),
         \A a \in A : \A m \in 1..n : a \subseteq step[<<a, m>>]
  PROVE  base \subseteq iter[1..n] /\ iter[1..n] \in A
<1>1. PICK f \in [0..n -> A] : /\ f[0] = base /\ f[n] = iter[1..n]
                               /\ \A m \in 1..n : f[m] = step[<<f[m - 1], m>>]
  BY FoldRuns
<1>2. n \in Nat
  BY DEF IsFold
<1>3. \A m \in 1..n : f[m - 1] \subseteq f[m]
  <2> TAKE m \in 1..n
  <2>1. m - 1 \in 0..n
    BY <1>2
  <2>2. f[m - 1] \in A
    BY <1>1, <2>1
  <2>3. f[m - 1] \subseteq step[<<f[m - 1], m>>]
    BY <2>2
  <2> QED BY <1>1, <2>3
<1>4. f[0] \subseteq f[n] /\ 0 \in 0..n /\ n \in 0..n
  BY <1>2, <1>3, Growing
<1> QED BY <1>1, <1>4

\* A run over the numbers up to n, each step from the one before.
IsRun(f, base, step, n) == f = [m \in 0..n |-> IF m = 0 THEN base ELSE step[<<f[m - 1], m>>]]

LEMMA FoldIsRun ==
  ASSUME NEW n, NEW A, NEW base, NEW step, NEW iter, IsFold(iter, base, step, n, A)
  PROVE  \E f : IsRun(f, base, step, n)
<1>1. PICK f \in [0..n -> A] : /\ f[0] = base /\ f[n] = iter[1..n]
                               /\ \A m \in 1..n : f[m] = step[<<f[m - 1], m>>]
  BY FoldRuns
<1>2. \A m \in 0..n : m # 0 => m \in 1..n
  BY DEF IsFold
<1>3. \A m \in 0..n : f[m] = IF m = 0 THEN base ELSE step[<<f[m - 1], m>>]
  BY <1>1, <1>2
<1>4. IsRun(f, base, step, n)
  BY <1>1, <1>3 DEF IsRun
<1> QED BY <1>4

LEMMA RunExists ==
  ASSUME NEW n \in Nat, NEW A, NEW base \in A, NEW step \in [A \X (1..n) -> A]
  PROVE  \E f : IsRun(f, base, step, n)
<1>1. PICK g \in [SUBSET (1..n) -> A] : Solves(g, base, step, n)
  BY FoldExists
<1>2. IsFold(g, base, step, n, A)
  BY <1>1 DEF IsFold, Solves
<1> QED BY <1>2, FoldIsRun

-----------------------------------------------------------------------------
\* Orders.

\* The ranks of a finite set under a strict total order, given by what is below each
\* element, are the numbers up to its size.
LEMMA Ranks ==
  ASSUME NEW I, IsFiniteSet(I), NEW below,
         \A i \in I : below[i] \subseteq I /\ i \notin below[i],
         \A i, j \in I : i # j => i \in below[j] \/ j \in below[i],
         \A i, j \in I : j \in below[i] => below[j] \subseteq below[i],
         NEW place, \A i \in I : place[i] = 1 + Cardinality(below[i])
  PROVE  /\ \A i \in I : place[i] \in 1..Cardinality(I)
         /\ \A i, j \in I : place[i] = place[j] => i = j
         /\ \A p \in 1..Cardinality(I) : \E i \in I : place[i] = p
<1>1. Cardinality(I) \in Nat
  BY FS_CardinalityType
<1>2. \A i \in I : IsFiniteSet(below[i]) /\ Cardinality(below[i]) \in Nat
  BY FS_Subset, FS_CardinalityType
<1>3. \A i \in I : Cardinality(below[i]) < Cardinality(I)
  <2> TAKE i \in I
  <2>1. Cardinality(below[i]) <= Cardinality(I) /\ (Cardinality(I) = Cardinality(below[i]) => I = below[i])
    BY FS_Subset
  <2> QED BY <1>1, <1>2, <2>1
<1>4. \A i, j \in I : j \in below[i] => Cardinality(below[j]) < Cardinality(below[i])
  <2> SUFFICES ASSUME NEW i \in I, NEW j \in I, j \in below[i]
               PROVE  Cardinality(below[j]) < Cardinality(below[i])
    OBVIOUS
  <2>1. below[j] \in SUBSET below[i]
    OBVIOUS
  <2>2. /\ Cardinality(below[j]) <= Cardinality(below[i])
        /\ Cardinality(below[i]) = Cardinality(below[j]) => below[i] = below[j]
    BY <1>2, <2>1, FS_Subset
  <2> QED BY <1>2, <2>2
<1>5. \A i \in I : place[i] \in 1..Cardinality(I)
  BY <1>1, <1>2, <1>3
<1>6. \A i, j \in I : place[i] = place[j] => i = j
  BY <1>2, <1>4
<1>7. \A p \in 1..Cardinality(I) : \E i \in I : place[i] = p
  <2> DEFINE T == {place[i] : i \in I}
  <2>1. Cardinality(T) = Cardinality(I)
    BY <1>6, Image
  <2>2. T \subseteq 1..Cardinality(I)
    BY <1>5
  <2>3. IsFiniteSet(1..Cardinality(I)) /\ Cardinality(1..Cardinality(I)) = Cardinality(I)
    BY <1>1, FS_Interval
  <2>4. T = 1..Cardinality(I)
    <3> HIDE DEF T
    <3> QED BY <2>1, <2>2, <2>3, FS_Subset
  <2> QED BY <2>4
<1> QED BY <1>5, <1>6, <1>7

\* A set of integers in the order of a key, the greater first, and then of their own.
InKeyOrder(o, place, key, I) ==
    /\ I \in SUBSET Int /\ IsFiniteSet(I) /\ \A i \in I : key[i] \in Int
    /\ \A i \in I : place[i] = 1 + Cardinality(
          {j \in I : key[j] > key[i] \/ (key[j] = key[i] /\ j < i)})
    /\ o = [p \in 1..Cardinality(I) |-> CHOOSE i \in I : place[i] = p]

LEMMA OrderedByKey ==
  ASSUME NEW I, NEW key, NEW place, NEW o, InKeyOrder(o, place, key, I)
  PROVE  /\ Cardinality(I) \in Nat /\ o \in [1..Cardinality(I) -> I]
         /\ \A i \in I : place[i] \in 1..Cardinality(I) /\ o[place[i]] = i
         /\ \A p \in 1..Cardinality(I) : place[o[p]] = p
<1> USE DEF InKeyOrder
<1> DEFINE below == [i \in I |-> {j \in I : key[j] > key[i] \/ (key[j] = key[i] /\ j < i)}]
<1>0. \A i \in I : below[i] = {j \in I : key[j] > key[i] \/ (key[j] = key[i] /\ j < i)}
  OBVIOUS
<1> HIDE DEF below
<1>1. /\ \A i \in I : below[i] \subseteq I /\ i \notin below[i]
      /\ \A i, j \in I : i # j => i \in below[j] \/ j \in below[i]
      /\ \A i, j \in I : j \in below[i] => below[j] \subseteq below[i]
      /\ \A i \in I : place[i] = 1 + Cardinality(below[i])
  <2>1. \A i \in I : below[i] \subseteq I /\ i \notin below[i]
    BY <1>0
  <2>2. \A i, j \in I : i # j => i \in below[j] \/ j \in below[i]
    BY <1>0
  <2>3. \A i, j \in I : j \in below[i] => below[j] \subseteq below[i]
    <3> SUFFICES ASSUME NEW i \in I, NEW j \in I, j \in below[i], NEW k \in below[j]
                 PROVE  k \in below[i]
      OBVIOUS
    <3>1. k \in I /\ (key[k] > key[j] \/ (key[k] = key[j] /\ k < j))
      BY <1>0
    <3>2. key[j] > key[i] \/ (key[j] = key[i] /\ j < i)
      BY <1>0
    <3>3. key[k] \in Int /\ key[j] \in Int /\ key[i] \in Int /\ k \in Int /\ j \in Int /\ i \in Int
      BY <3>1
    <3>4. key[k] > key[i] \/ (key[k] = key[i] /\ k < i)
      BY <3>1, <3>2, <3>3
    <3> QED BY <1>0, <3>1, <3>4
  <2>4. \A i \in I : place[i] = 1 + Cardinality(below[i])
    BY <1>0
  <2> QED BY <2>1, <2>2, <2>3, <2>4
<1>2. /\ \A i \in I : place[i] \in 1..Cardinality(I)
      /\ \A i, j \in I : place[i] = place[j] => i = j
      /\ \A p \in 1..Cardinality(I) : \E i \in I : place[i] = p
  BY ONLY IsFiniteSet(I), <1>1, Ranks
<1>3. \A p \in 1..Cardinality(I) : o[p] \in I /\ place[o[p]] = p
  BY <1>2
<1> QED BY <1>2, <1>3, FS_CardinalityType

\* A set of integers in their own order, and the first k of them.
InOwnOrder(o, place, I) ==
    /\ I \in SUBSET Int /\ IsFiniteSet(I)
    /\ \A i \in I : place[i] = 1 + Cardinality({j \in I : j < i})
    /\ o = [p \in 1..Cardinality(I) |-> CHOOSE i \in I : place[i] = p]

LEMMA OrderedUp ==
  ASSUME NEW I, NEW place, NEW o, InOwnOrder(o, place, I)
  PROVE  /\ Cardinality(I) \in Nat /\ o \in [1..Cardinality(I) -> I]
         /\ \A i \in I : \E p \in 1..Cardinality(I) : o[p] = i
         /\ \A p \in 1..Cardinality(I) : Cardinality({j \in I : j < o[p]}) = p - 1
<1> DEFINE key == [i \in I |-> 0]
<1>1. InKeyOrder(o, place, key, I)
  <2>1. \A i \in I : {j \in I : key[j] > key[i] \/ (key[j] = key[i] /\ j < i)} = {j \in I : j < i}
    OBVIOUS
  <2>2. \A i \in I : key[i] \in Int
    OBVIOUS
  <2> HIDE DEF key
  <2> QED BY <2>1, <2>2 DEF InKeyOrder, InOwnOrder
<1>2. \A i \in I : place[i] = 1 + Cardinality({j \in I : j < i})
  BY DEF InOwnOrder
<1> HIDE DEF key
<1>3. /\ Cardinality(I) \in Nat /\ o \in [1..Cardinality(I) -> I]
      /\ \A i \in I : place[i] \in 1..Cardinality(I) /\ o[place[i]] = i
      /\ \A p \in 1..Cardinality(I) : place[o[p]] = p
  BY ONLY <1>1, OrderedByKey
<1>4. ASSUME NEW p \in 1..Cardinality(I)
      PROVE  Cardinality({j \in I : j < o[p]}) = p - 1
  <2> DEFINE T == {j \in I : j < o[p]}
  <2>1. p = 1 + Cardinality(T)
    BY <1>2, <1>3
  <2>2. Cardinality(T) \in Nat
    <3>1. T \subseteq I
      OBVIOUS
    <3>2. IsFiniteSet(I)
      BY DEF InOwnOrder
    <3> HIDE DEF T
    <3> QED BY <3>1, <3>2, FS_Subset, FS_CardinalityType
  <2> HIDE DEF T
  <2>3. Cardinality(T) = p - 1
    BY <1>3, <2>1, <2>2
  <2> QED BY <2>3 DEF T
<1> QED BY <1>3, <1>4

LEMMA FirstOnes ==
  ASSUME NEW I \in SUBSET Int, IsFiniteSet(I), NEW k \in Nat,
         NEW F, F = {i \in I : Cardinality({j \in I : j < i}) < k}
  PROVE  /\ F \subseteq I
         /\ Cardinality(I) <= k => F = I
         /\ Cardinality(I) >= k => Cardinality(F) = k
<1> DEFINE n == Cardinality(I)
           place == [i \in I |-> 1 + Cardinality({j \in I : j < i})]
           o == [p \in 1..Cardinality(I) |-> CHOOSE i \in I : place[i] = p]
<1>1. InOwnOrder(o, place, I)
  BY DEF InOwnOrder
<1> HIDE DEF o, place
<1>2. /\ n \in Nat /\ o \in [1..n -> I]
      /\ \A i \in I : \E p \in 1..n : o[p] = i
      /\ \A p \in 1..n : Cardinality({j \in I : j < o[p]}) = p - 1
  BY <1>1, OrderedUp
<1> HIDE DEF n
<1>3. \A p \in 1..n : o[p] \in F <=> p <= k
  <2> TAKE p \in 1..n
  <2>1. o[p] \in F <=> p - 1 < k
    BY <1>2
  <2> QED BY <1>2, <2>1
<1>4. n <= k => F = I
  <2> HAVE n <= k
  <2>1. \A p \in 1..n : p <= k
    BY <1>2
  <2>2. \A i \in I : i \in F
    BY <1>2, <1>3, <2>1
  <2> QED BY <2>2
<1>5. n >= k => Cardinality(F) = k
  <2> HAVE n >= k
  <2>1. 1..k \subseteq 1..n
    BY <1>2
  <2>2. F = {o[p] : p \in 1..k}
    <3>1. \A i \in F : \E p \in 1..k : i = o[p]
      BY <1>2, <1>3
    <3>2. \A p \in 1..k : o[p] \in F
      BY <1>2, <1>3, <2>1
    <3> QED BY <3>1, <3>2
  <2> DEFINE S == 1..k
  <2>3. IsFiniteSet(S) /\ Cardinality(S) = k
    BY FS_Interval
  <2>4. \A p, q \in S : o[p] = o[q] => p = q
    <3> TAKE p, q \in S
    <3> HAVE o[p] = o[q]
    <3>1. p - 1 = q - 1
      BY <1>2, <2>1
    <3> QED BY <3>1
  <2>5. F = {o[p] : p \in S}
    BY <2>2
  <2> HIDE DEF S
  <2>6. Cardinality({o[p] : p \in S}) = Cardinality(S)
    BY <2>3, <2>4, Image
  <2> QED BY <2>3, <2>5, <2>6
<1> QED BY <1>4, <1>5 DEF n
=============================================================================
