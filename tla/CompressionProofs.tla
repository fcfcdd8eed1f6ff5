------------------------- MODULE CompressionProofs -------------------------
(***************************************************************************)
(* Proofs about the compression engines: what is kept of an output, of any *)
(* length and under any configuration.                                     *)
(***************************************************************************)
EXTENDS CompressionProperties, FiniteFolds, SequenceTheorems

-----------------------------------------------------------------------------
\* What is handed on is the answer of the engine the output was routed to.

Texts == {"SearchResults", "PlainText", "SourceCode"}

Answered ==
    /\ \E family \in DOMAIN Outputs : output \in Outputs[family]
    /\ kind \in {"unread", "passed"} => result = <<>>
    /\ kind = "JsonArray" => output.json # <<>>
    /\ Routed({"JsonArray"}) =>
          \E crushed \in CrushJson(Items) :
              result = <<crushed>> /\ StoreArray(Items, crushed) \subseteq store
    /\ Routed({"BuildOutput"}) => \E compressed \in CompressLog(output.lines) : result = <<compressed>>
    /\ Routed(Texts) => result = <<[kept |-> CrushText(output.lines)]>>
    /\ Routed({"GitDiff"}) => result = <<CompressDiff(output.lines)>>

LEMMA AnsweredHolds == Spec => []Answered
<1>1. Init => Answered
  BY DEF Init, Answered, Routed, Texts
<1>2. Answered /\ [Next]_vars => Answered'
  <2> SUFFICES ASSUME Answered, [Next]_vars PROVE Answered'
    OBVIOUS
  <2>1. CASE PassShort
    BY <2>1 DEF PassShort, Answered, Routed, Texts
  <2>2. CASE Detect
    <3>1. result' = <<>> /\ output' = output
      BY <2>2 DEF Detect, Answered
    <3>2. kind' = DetectContentType(output)
      BY <2>2 DEF Detect
    <3>3. kind' = "JsonArray" => output.json # <<>>
      BY <3>2 DEF DetectContentType
    <3> QED BY <3>1, <3>3 DEF Answered, Routed, Texts
  <2>3. CASE RouteJson
    <3>1. PICK crushed \in CrushJson(Items) :
             result' = <<crushed>> /\ store' = store \cup StoreArray(Items, crushed)
      BY <2>3 DEF RouteJson, Items
    <3>2. kind' = "JsonArray" /\ output' = output /\ Items' = Items
      BY <2>3 DEF RouteJson, Items
    <3>3. StoreArray(Items, crushed) \subseteq store'
      BY <3>1
    <3>4. \E c \in CrushJson(Items)' : result' = <<c>> /\ StoreArray(Items, c)' \subseteq store'
      BY <3>1, <3>2, <3>3 DEF StoreArray
    <3> QED BY <3>2, <3>4, <2>3 DEF RouteJson, Answered, Routed, Texts
  <2>4. CASE RouteLog
    BY <2>4 DEF RouteLog, Answered, Routed, Texts
  <2>5. CASE RouteText
    BY <2>5 DEF RouteText, Answered, Routed, Texts
  <2>6. CASE RouteDiff
    BY <2>6 DEF RouteDiff, Answered, Routed, Texts
  <2>7. CASE UNCHANGED vars
    BY <2>7 DEF vars, Answered, Routed, Texts, Items, StoreArray
  <2> QED BY <2>1, <2>2, <2>3, <2>4, <2>5, <2>6, <2>7 DEF Next
<1> QED BY <1>1, <1>2, PTL DEF Spec

\* What is known of the lines of an output.
LEMMA LinesAre ==
  ASSUME Answered
  PROVE  /\ Len(output.lines) \in Nat
         /\ \A i \in 1..Len(output.lines) :
               /\ output.lines[i].level \in Levels /\ output.lines[i].summary \in BOOLEAN
               /\ output.lines[i].size \in Nat /\ output.lines[i].salience \in Nat
               /\ output.lines[i].from \in Nat
               /\ IsFiniteSet(output.lines[i].shingles)
         /\ kind = "JsonArray" => Len(Items) \in Nat
  BY OutputsAssumption DEF Answered, Items

-----------------------------------------------------------------------------
\* The log engine.

\* The sizer answers a number, and not zero.
LEMMA KeepsSome ==
  ASSUME NEW n \in Nat, NEW k \in OptimalKs(n, LogConfig.min_kept, LogConfig.max_total_lines)
  PROVE  k \in Nat /\ (n # 0 => k >= 1)
<1>1. LogConfig.min_kept \in Nat \ {0} /\ LogConfig.max_total_lines \in Nat \ {0}
  BY LogAssumption
<1> DEFINE best == Smaller(LogConfig.min_kept, LogConfig.max_total_lines)
<1>2. best \in Nat \ {0}
  BY <1>1 DEF Smaller
<1>3. \A v \in Validated(n, best, LogConfig.max_total_lines) : v \in Nat
  <2> HIDE DEF best
  <2>1. (best * 12) \div 10 \in Nat
    BY <1>2
  <2> QED BY <1>1, <1>2, <2>1 DEF Validated, Smaller
<1>4. CASE n <= SmallInput
  <2>1. k = n
    BY <1>4 DEF OptimalKs
  <2> QED BY <2>1
<1>5. CASE ~(n <= SmallInput)
  <2>1. k = best \/ \E v \in Validated(n, best, LogConfig.max_total_lines) : k = Larger(LogConfig.min_kept, v)
    BY <1>5 DEF OptimalKs
  <2>2. CASE k = best
    BY <1>2, <2>2
  <2>3. CASE \E v \in Validated(n, best, LogConfig.max_total_lines) : k = Larger(LogConfig.min_kept, v)
    <3>1. PICK v \in Validated(n, best, LogConfig.max_total_lines) : k = Larger(LogConfig.min_kept, v)
      BY <2>3
    <3>2. v \in Nat
      BY <1>3
    <3> QED BY <1>1, <3>1, <3>2 DEF Larger
  <2> QED BY <2>1, <2>2, <2>3
<1> QED BY <1>4, <1>5

\* The score of a line: full marks for a failure, and otherwise only for a warning in
\* a trace that is a summary.
LEMMA ScoresAre ==
  ASSUME NEW lines, Len(lines) \in Nat,
         \A i \in 1..Len(lines) : lines[i].level \in Levels /\ lines[i].summary \in BOOLEAN
  PROVE  \A i \in 1..Len(lines) :
            /\ Scores(lines)[i] \in Nat /\ Scores(lines)[i] <= 100
            /\ lines[i].level \in {"Error", "Fail"} => Scores(lines)[i] = 100
            /\ Scores(lines)[i] = 100 =>
                  \/ lines[i].level \in {"Error", "Fail"}
                  \/ lines[i].level = "Warn" /\ lines[i].summary /\ i \in Traced(lines)
<1> TAKE i \in 1..Len(lines)
<1> DEFINE base == LevelScore[lines[i].level]
           trace == IF i \in Traced(lines) THEN 30 ELSE 0
           summary == IF lines[i].summary THEN 40 ELSE 0
<1>1. Scores(lines)[i] = Smaller(100, base + trace + summary)
  BY DEF Scores
<1>2. /\ base \in {100, 50, 10, 5, 2}
      /\ lines[i].level \in {"Error", "Fail"} <=> base = 100
      /\ lines[i].level = "Warn" <=> base = 50
  BY DEF Levels, LevelScore
<1>3. /\ trace \in {0, 30} /\ summary \in {0, 40}
      /\ trace = 30 => i \in Traced(lines)
      /\ summary = 40 => lines[i].summary
  OBVIOUS
<1> HIDE DEF base, trace, summary
<1> QED BY <1>1, <1>2, <1>3 DEF Smaller

\* The first of the failures is among the lines that compete for the budget.
LEMMA FirstIsChosen ==
  ASSUME NEW lines, Len(lines) \in Nat, NEW score, NEW level \in {"Error", "Fail"},
         NEW m \in AtLevel(lines, level), \A i \in AtLevel(lines, level) : m <= i
  PROVE  m \in Chosen(lines, score)
<1> DEFINE I == AtLevel(lines, level)
           reach == LogConfig.error_context_lines
<1>1. I \subseteq 1..Len(lines)
  BY DEF AtLevel
<1>2. Min(I) = m
  <2>1. Min(I) \in I /\ \A x \in I : Min(I) <= x
    <3>1. I \subseteq Nat /\ I # {}
      BY <1>1
    <3> HIDE DEF I
    <3> QED BY <3>1, MinIn
  <2> QED BY <1>1, <2>1
<1>3. m \in SelectWithFirstLast(I, score)
  BY <1>2 DEF SelectWithFirstLast
<1>4. reach \in Nat
  BY LogAssumption
<1>5. m \in 1..Len(lines) /\ m \in (m - reach)..(m + reach)
  BY <1>1, <1>4
<1>6. \A J : m \in J => m \in WithContext(lines, J)
  BY <1>5 DEF WithContext
<1> QED BY <1>3, <1>6 DEF Chosen

\* The k best of C by score.
IsCut(K, k, C, score, n) ==
    /\ n \in Nat /\ C \in SUBSET (1..n) /\ k \in Nat /\ k >= 1
    /\ \A i \in C : score[i] \in Int
    /\ K = {i \in C : Cardinality({j \in C : Better(score, j, i)}) < k}

\* Of a cut by score something is left, and whatever is left in the place of m is better.
LEMMA Cut ==
  ASSUME NEW n, NEW C, NEW score, NEW k, NEW K, IsCut(K, k, C, score, n), NEW m \in C
  PROVE  /\ K \subseteq C /\ K # {}
         /\ m \in K \/ \A i \in K : Better(score, i, m)
<1> DEFINE Ahead(i) == {j \in C : Better(score, j, i)}
           place == [i \in C |-> 1 + Cardinality(
                        {j \in C : score[j] > score[i] \/ (score[j] = score[i] /\ j < i)})]
           o == [p \in 1..Cardinality(C) |-> CHOOSE i \in C : place[i] = p]
<1>0. /\ n \in Nat /\ C \in SUBSET (1..n) /\ k \in Nat /\ k >= 1
      /\ \A i \in C : score[i] \in Int
  BY DEF IsCut
<1>1. IsFiniteSet(C) /\ C \in SUBSET Int
  <2>1. IsFiniteSet(1..n)
    BY <1>0, FS_Interval
  <2>2. 1..n \subseteq Int
    OBVIOUS
  <2> QED BY <1>0, <2>1, <2>2, FS_Subset
<1>2. \A i : IsFiniteSet(Ahead(i)) /\ Cardinality(Ahead(i)) \in Nat
  <2>1. \A i : Ahead(i) \in SUBSET C
    OBVIOUS
  <2> HIDE DEF Ahead
  <2> QED BY <1>1, <2>1, FS_Subset, FS_CardinalityType
<1>3. \A i : i \in K <=> i \in C /\ Cardinality(Ahead(i)) < k
  BY DEF IsCut
<1>4. K # {}
  <2>1. InKeyOrder(o, place, score, C)
    BY <1>0, <1>1 DEF InKeyOrder
  <2>2. \A i \in C : place[i] = 1 + Cardinality(Ahead(i))
    BY DEF Better
  <2> HIDE DEF place, o, Ahead
  <2>4. /\ Cardinality(C) \in Nat /\ o \in [1..Cardinality(C) -> C]
        /\ \A p \in 1..Cardinality(C) : place[o[p]] = p
    BY <2>1, OrderedByKey
  <2>5. Cardinality(C) # 0
    BY <1>1, FS_EmptySet
  <2>6. PICK x \in C : place[x] = 1
    <3>1. o[1] \in C /\ place[o[1]] = 1
      BY <2>4, <2>5
    <3> QED BY <3>1
  <2>7. Cardinality(Ahead(x)) = 0
    <3>1. 1 + Cardinality(Ahead(x)) = 1
      BY <2>2, <2>6
    <3> QED BY ONLY <1>2, <3>1
  <2> QED BY ONLY <1>0, <1>3, <2>6, <2>7
<1>5. ASSUME m \notin K, NEW i \in K
      PROVE  Better(score, i, m)
  <2>1. Cardinality(Ahead(i)) < Cardinality(Ahead(m))
    <3> HIDE DEF Ahead
    <3> QED BY <1>0, <1>2, <1>3, <1>5
  <2>2. ~(Ahead(m) \subseteq Ahead(i))
    <3> HIDE DEF Ahead
    <3> QED BY <1>2, <2>1, FS_Subset
  <2>3. PICK j \in C : Better(score, j, m) /\ ~Better(score, j, i)
    BY <2>2
  <2>4. /\ score[i] \in Int /\ score[j] \in Int /\ score[m] \in Int
        /\ i \in Int /\ j \in Int /\ m \in Int
    BY <1>0, <1>1, <1>3, <1>5, <2>3
  <2> QED BY <2>3, <2>4 DEF Better
<1> QED BY <1>3, <1>4, <1>5

\* However long a log is and whatever the sizer answers, select_lines keeps the first
\* line that reports an error or a failure, or only earlier lines that score as much.
THEOREM FirstFailureHolds == Spec => []FirstFailureIsKept
<1>1. Answered => FirstFailureIsKept
  <2> DEFINE lines == output.lines
             failures == {i \in 1..Len(lines) : lines[i].level \in {"Error", "Fail"}}
             rivals == {i \in Traced(lines) : lines[i].level = "Warn" /\ lines[i].summary}
             m == Min(failures)
  <2> SUFFICES ASSUME Answered, Routed({"BuildOutput"}), failures # {}
               PROVE  \/ m \in KeptOf
                      \/ KeptOf # {} /\ KeptOf \subseteq rivals /\ \A i \in KeptOf : i < m
    BY DEF FirstFailureIsKept
  <2>1. Len(lines) \in Nat /\ \A i \in 1..Len(lines) : lines[i].level \in Levels /\ lines[i].summary \in BOOLEAN
    BY LinesAre
  <2>2. m \in failures /\ \A x \in failures : m <= x
    <3>1. failures \subseteq Nat
      OBVIOUS
    <3> HIDE DEF failures
    <3> QED BY <3>1, MinIn
  <2>3. PICK compressed \in CompressLog(lines) : KeptOf = compressed.kept
    BY DEF Answered, KeptOf
  <2>4. CASE Len(lines) < LogConfig.min_lines_for_ccr
    <3>1. KeptOf = 1..Len(lines)
      BY <2>3, <2>4 DEF CompressLog
    <3> QED BY <2>2, <3>1
  <2>5. CASE ~(Len(lines) < LogConfig.min_lines_for_ccr)
    <3>1. PICK k \in OptimalKs(Len(lines), LogConfig.min_kept, LogConfig.max_total_lines) :
             KeptOf = SelectLines(lines, k)
      BY <2>3, <2>5 DEF CompressLog
    <3>2. k \in Nat /\ k >= 1
      BY <2>1, <2>2, KeepsSome
    <3> DEFINE score == Scores(lines)
               C == Chosen(lines, score)
    <3>3. KeptOf = {i \in C : Cardinality({j \in C : Better(score, j, i)}) < k}
      BY <3>1 DEF SelectLines, FirstOf
    <3>4. C \in SUBSET (1..Len(lines))
      BY DEF Chosen, WithContext
    <3>5. m \in C
      <4>1. PICK level \in {"Error", "Fail"} : m \in AtLevel(lines, level)
        BY <2>2 DEF AtLevel
      <4>2. \A i \in AtLevel(lines, level) : m <= i
        BY <2>2 DEF AtLevel
      <4> QED BY <2>1, <4>1, <4>2, FirstIsChosen
    <3>6. \A i \in 1..Len(lines) :
             /\ score[i] \in Nat /\ score[i] <= 100
             /\ i \in failures => score[i] = 100
             /\ score[i] = 100 => i \in failures \/ i \in rivals
      BY <2>1, ScoresAre
    <3> HIDE DEF C, score, failures, rivals, lines, m
    <3>7. /\ KeptOf \subseteq C /\ KeptOf # {}
          /\ m \in KeptOf \/ \A i \in KeptOf : Better(score, i, m)
      <4>1. \A i \in C : score[i] \in Int
        <5>1. \A i \in C : i \in 1..Len(lines)
          BY <3>4
        <5> QED BY <3>6, <5>1
      <4>2. IsCut(KeptOf, k, C, score, Len(lines))
        BY <2>1, <3>2, <3>3, <3>4, <4>1 DEF IsCut
      <4> QED BY <3>5, <4>2, Cut
    <3>8. CASE m \notin KeptOf
      <4>1. ASSUME NEW i \in KeptOf
            PROVE  i \in rivals /\ i < m
        <5>1. Better(score, i, m) /\ i \in 1..Len(lines) /\ m \in 1..Len(lines)
          BY <3>4, <3>5, <3>7, <3>8
        <5>2. score[m] = 100 /\ score[i] \in Nat /\ score[i] <= 100 /\ i \in Int /\ m \in Int
          BY <2>1, <2>2, <3>6, <5>1
        <5>3. score[i] = 100 /\ i < m
          BY ONLY <5>1, <5>2 DEF Better
        <5>4. i \notin failures
          BY <2>2, <5>2, <5>3
        <5> QED BY <3>6, <5>1, <5>3, <5>4
      <4> QED BY <3>7, <4>1
    <3> QED BY <3>8
  <2> QED BY <2>4, <2>5
<1> QED BY <1>1, AnsweredHolds, PTL

-----------------------------------------------------------------------------
\* The text engine.

\* The sizes of all the sets of lines come from one sum.
LEMMA SizesAre ==
  ASSUME NEW lines, NEW I, IsFiniteSet(I), \A i \in I : lines[i].size \in Nat
  PROVE  /\ \A J \in SUBSET I : SizeOf(lines, J) \in Nat
         /\ \A J \in SUBSET I : \A K \in SUBSET J : SizeOf(lines, K) <= SizeOf(lines, J)
<1> DEFINE w == [i \in I |-> lines[i].size]
<1>1. \A i \in I : w[i] \in Nat
  OBVIOUS
<1>2. PICK g : SumsUp(g, w, I)
  <2> HIDE DEF w
  <2> QED BY SumExists
<1>3. ASSUME NEW J \in SUBSET I
      PROVE  SizeOf(lines, J) = g[J]
  <2> DEFINE v == [i \in J |-> lines[i].size]
             h == [s \in SUBSET J |-> g[s]]
             sum == CHOOSE f : f = [s \in SUBSET J |-> IF s = {} THEN 0
                                                    ELSE lines[First(s)].size + f[s \ {First(s)}]]
  <2>1. SizeOf(lines, J) = sum[J]
    BY DEF SizeOf, MapThenSumSet, MapThenFoldSet, First
  <2>2. \A s \in SUBSET J : s # {} => First(s) \in s
    BY FirstIn
  <2>3. \A s \in SUBSET J : g[s] = IF s = {} THEN 0 ELSE lines[First(s)].size + g[s \ {First(s)}]
    BY <1>2, <2>2 DEF SumsUp
  <2>4. h = [s \in SUBSET J |-> IF s = {} THEN 0 ELSE lines[First(s)].size + h[s \ {First(s)}]]
    BY <2>3
  <2>5. sum = [s \in SUBSET J |-> IF s = {} THEN 0 ELSE lines[First(s)].size + sum[s \ {First(s)}]]
    <3> HIDE DEF h
    <3> QED BY <2>4
  <2>6. SumsUp(sum, v, J) /\ SumsUp(h, v, J)
    <3> HIDE DEF sum, h
    <3> QED BY <2>2, <2>4, <2>5 DEF SumsUp
  <2>7. IsFiniteSet(J)
    BY FS_Subset
  <2>8. sum[J] = h[J]
    <3> HIDE DEF sum, h, v
    <3> QED BY <2>6, <2>7, SumIsUnique
  <2> QED BY <2>1, <2>8
<1> HIDE DEF w
<1>4. \A J \in SUBSET I : g[J] \in Nat
  BY <1>1, <1>2, SumIsNat
<1>5. \A J \in SUBSET I : \A K \in SUBSET J : g[K] <= g[J]
  BY <1>1, <1>2, SumGrows
<1> QED BY <1>3, <1>4, <1>5

Target(lines) == Larger(1, (SizeOf(lines, Segments(lines)) * TextConfig.target_ratio) \div 100)
ShinglesOf(lines, I) == UNION {lines[i].shingles : i \in I}

\* What the engine leaves out it left out for one of two reasons, which what it had
\* kept so far gave it.
LEMMA TextIsCut ==
  ASSUME NEW lines, Len(lines) \in Nat,
         \A i \in 1..Len(lines) : lines[i].size \in Nat /\ lines[i].salience \in Nat,
         NEW K, K = CrushText(lines)
  PROVE  /\ K \in SUBSET (1..Len(lines))
         /\ \A i \in Segments(lines) \ K : \E J \in SUBSET K :
               \/ SizeOf(lines, J) >= Target(lines)
               \/ NearDuplicate(lines, i, ShinglesOf(lines, J))
<1> DEFINE I == Segments(lines)
           n == Cardinality(I)
           rank == [i \in I |-> Cardinality({j \in I : j <= i})]
           score == [i \in I |-> SegmentScore(lines, rank[i], n, i)]
           place == [i \in I |-> 1 + Cardinality(
                        {j \in I : score[j] > score[i] \/ (score[j] = score[i] /\ j < i)})]
           o == [p \in 1..n |-> CHOOSE i \in I : place[i] = p]
           A == SUBSET I
           Take(a, i) == IF SizeOf(lines, a) >= Target(lines)
                            \/ NearDuplicate(lines, i, ShinglesOf(lines, a))
                         THEN a ELSE a \cup {i}
           step == [x \in A \X (1..n) |-> Take(x[1], o[x[2]])]
           iter == CHOOSE g : g = [s \in SUBSET (1..n) |-> IF s = {} THEN {}
                                                       ELSE Take(g[s \ {Max(s)}], o[Max(s)])]
<1>1. I \subseteq 1..Len(lines) /\ IsFiniteSet(I) /\ I \in SUBSET Int
  <2>1. IsFiniteSet(1..Len(lines))
    BY FS_Interval
  <2>2. I \subseteq 1..Len(lines)
    BY DEF Segments
  <2>3. 1..Len(lines) \subseteq Int
    OBVIOUS
  <2> HIDE DEF I
  <2> QED BY <2>1, <2>2, <2>3, FS_Subset
<1>2. CASE n < TextConfig.min_segments_for_crush
  <2>1. K = 1..Len(lines)
    BY <1>2 DEF CrushText
  <2> QED BY <1>1, <2>1
<1>3. CASE ~(n < TextConfig.min_segments_for_crush)
  <2>1. K = FoldLeft(Take, {}, o)
    BY <1>3 DEF CrushText, Ordered, Target, ShinglesOf
  <2>2. DOMAIN o = 1..n
    OBVIOUS
  <2>3. K = iter[1..n]
    <3> HIDE DEF o, n
    <3> QED BY <2>1, <2>2 DEF FoldLeft, MapThenFoldSet
  <2>4. InKeyOrder(o, place, score, I)
    <3>1. n \in Nat /\ \A i \in I : rank[i] \in Nat
      <4>1. \A i \in I : {j \in I : j <= i} \subseteq I
        OBVIOUS
      <4> HIDE DEF I
      <4> QED BY <1>1, <4>1, FS_Subset, FS_CardinalityType
    <3>2. \A i \in I : score[i] \in Int
      <4> SUFFICES ASSUME NEW i \in I PROVE score[i] \in Int
        OBVIOUS
      <4>1. score[i] = SegmentScore(lines, rank[i], n, i)
        OBVIOUS
      <4>2. rank[i] \in Nat /\ lines[i].salience \in Nat
        BY <1>1, <3>1
      <4> HIDE DEF score, rank, n, I
      <4>3. n * lines[i].salience \in Nat
        BY <3>1, <4>2
      <4>4. 3 * n * lines[i].salience \in Nat
        BY <3>1, <4>2
      <4>5. 8 * rank[i] + 8 * n + 3 * n * lines[i].salience \in Nat
        BY <3>1, <4>2, <4>4
      <4> QED BY <4>1, <4>5 DEF SegmentScore
    <3> HIDE DEF score
    <3> QED BY <1>1, <3>2 DEF InKeyOrder
  <2> HIDE DEF score, place, o
  <2>5. /\ n \in Nat /\ o \in [1..n -> I]
        /\ \A i \in I : place[i] \in 1..n /\ o[place[i]] = i
    BY <2>4, OrderedByKey
  <2> HIDE DEF I, n
  <2>6. step \in [A \X (1..n) -> A] /\ {} \in A
    BY <2>5
  <2>7. \A s \in SUBSET (1..n) : s # {} => Max(s) \in 1..n
    BY <2>5, MaxIn
  <2>8. \A a \in A : \A m \in 1..n : step[<<a, m>>] = Take(a, o[m])
    OBVIOUS
  <2> HIDE DEF Take, step
  <2>9. iter = [s \in SUBSET (1..n) |-> IF s = {} THEN {} ELSE Take(iter[s \ {Max(s)}], o[Max(s)])]
    <3> HIDE DEF A
    <3>1. PICK g \in [SUBSET (1..n) -> A] : Solves(g, {}, step, n)
      BY <2>5, <2>6, FoldExists
    <3>2. g = [s \in SUBSET (1..n) |-> IF s = {} THEN {} ELSE Take(g[s \ {Max(s)}], o[Max(s)])]
      BY <2>7, <2>8, <3>1 DEF Solves
    <3> QED BY <3>2
  <2> HIDE DEF iter, A
  <2>10. PICK f \in [0..n -> A] : /\ f[0] = {} /\ f[n] = iter[1..n]
                                  /\ \A m \in 1..n : f[m] = step[<<f[m - 1], m>>]
    <3>1. iter[{}] = {} /\ \A s \in SUBSET (1..n) :
            s # {} /\ iter[s \ {Max(s)}] \in A => iter[s] = step[<<iter[s \ {Max(s)}], Max(s)>>]
      BY <2>7, <2>8, <2>9
    <3>2. IsFold(iter, {}, step, n, A)
      BY <2>5, <2>6, <3>1 DEF IsFold
    <3> QED BY <3>2, FoldRuns
  <2>11. \A m \in 1..n : f[m - 1] \in A /\ f[m] = Take(f[m - 1], o[m])
    <3> TAKE m \in 1..n
    <3>1. m - 1 \in 0..n
      BY <2>5
    <3> QED BY <2>8, <2>10, <3>1
  <2>12. \A m \in 0..n : f[m] \subseteq K
    <3>1. \A m \in 1..n : f[m - 1] \subseteq f[m]
      BY <2>11 DEF Take
    <3> QED BY <2>3, <2>5, <2>10, <3>1, Growing
  <2>13. K \in A
    BY <2>3, <2>5, <2>10
  <2>14. ASSUME NEW i \in I, i \notin K
         PROVE  \E J \in SUBSET K : \/ SizeOf(lines, J) >= Target(lines)
                                    \/ NearDuplicate(lines, i, ShinglesOf(lines, J))
    <3>1. PICK m \in 1..n : o[m] = i
      BY <2>5
    <3>2. f[m] = Take(f[m - 1], i) /\ f[m] \subseteq K /\ f[m - 1] \subseteq K
      <4>1. m - 1 \in 0..n /\ m \in 0..n
        BY <2>5
      <4> QED BY <2>11, <2>12, <3>1, <4>1
    <3>3. i \notin f[m]
      BY <2>14, <3>2
    <3> QED BY <3>2, <3>3 DEF Take
  <2> QED BY <1>1, <2>13, <2>14 DEF A, I
<1> QED BY <1>2, <1>3

\* Whatever share of a text compress aims at and whatever it takes for a repetition: a
\* segment it drops found the target reached, or repeats what was kept before it.
THEOREM DroppedTextHolds == Spec => []DroppedTextIsCovered
<1>1. Answered => DroppedTextIsCovered
  <2> DEFINE lines == output.lines
             all == Segments(lines)
             words == UNION {lines[i].shingles : i \in KeptOf}
  <2> SUFFICES ASSUME Answered, Routed(Texts)
               PROVE  \/ 100 * SizeOf(lines, KeptOf) > TextConfig.target_ratio * SizeOf(lines, all) - 100
                      \/ \A i \in all \ KeptOf :
                           100 * Cardinality(lines[i].shingles \cap words)
                             >= TextConfig.near_dup_threshold * Cardinality(lines[i].shingles)
    BY DEF DroppedTextIsCovered, Texts
  <2>1. /\ Len(lines) \in Nat
        /\ \A i \in 1..Len(lines) : /\ lines[i].size \in Nat /\ lines[i].salience \in Nat
                                     /\ IsFiniteSet(lines[i].shingles)
    BY LinesAre
  <2>2. KeptOf = CrushText(lines)
    BY DEF Answered, KeptOf
  <2>3. /\ KeptOf \in SUBSET (1..Len(lines))
        /\ \A i \in all \ KeptOf : \E J \in SUBSET KeptOf :
              \/ SizeOf(lines, J) >= Target(lines)
              \/ NearDuplicate(lines, i, ShinglesOf(lines, J))
    BY <2>1, <2>2, TextIsCut
  <2>4. all \in SUBSET (1..Len(lines)) /\ IsFiniteSet(1..Len(lines))
    BY <2>1, FS_Interval DEF Segments
  <2>5. TextConfig.target_ratio \in Nat /\ TextConfig.near_dup_threshold \in Nat
    BY TextAssumption
  <2> HIDE DEF lines, all
  <2>6. ASSUME NEW J \in SUBSET KeptOf, SizeOf(lines, J) >= Target(lines)
        PROVE  100 * SizeOf(lines, KeptOf) > TextConfig.target_ratio * SizeOf(lines, all) - 100
    <3>1. /\ SizeOf(lines, J) \in Nat /\ SizeOf(lines, KeptOf) \in Nat /\ SizeOf(lines, all) \in Nat
          /\ SizeOf(lines, J) <= SizeOf(lines, KeptOf)
      BY <2>1, <2>3, <2>4, SizesAre
    <3> DEFINE wanted == SizeOf(lines, all) * TextConfig.target_ratio
    <3>2. wanted \in Nat /\ wanted = TextConfig.target_ratio * SizeOf(lines, all)
      BY <2>5, <3>1
    <3>3. Target(lines) >= wanted \div 100 /\ Target(lines) \in Nat
      <4>1. Target(lines) = Larger(1, wanted \div 100)
        BY DEF Target, all
      <4> HIDE DEF wanted
      <4>2. wanted \div 100 \in Nat
        BY <3>2
      <4> QED BY <4>1, <4>2 DEF Larger
    <3> HIDE DEF wanted
    <3>4. 100 * (wanted \div 100) > wanted - 100
      BY <3>2
    <3> QED BY <2>6, <3>1, <3>2, <3>3, <3>4
  <2>7. ASSUME NEW i \in all \ KeptOf, NEW J \in SUBSET KeptOf,
               NearDuplicate(lines, i, ShinglesOf(lines, J))
        PROVE  100 * Cardinality(lines[i].shingles \cap words)
                 >= TextConfig.near_dup_threshold * Cardinality(lines[i].shingles)
    <3> DEFINE own == lines[i].shingles
               few == own \cap ShinglesOf(lines, J)
               many == own \cap words
    <3>1. IsFiniteSet(own)
      BY <2>1, <2>4
    <3>2. few \subseteq many /\ many \subseteq own
      BY DEF ShinglesOf
    <3>3. 100 * Cardinality(few) >= TextConfig.near_dup_threshold * Cardinality(own)
      BY <2>7 DEF NearDuplicate
    <3> HIDE DEF own, few, many
    <3>4. IsFiniteSet(many) /\ IsFiniteSet(few)
      BY <3>1, <3>2, FS_Subset
    <3>5. /\ Cardinality(few) \in Nat /\ Cardinality(many) \in Nat /\ Cardinality(own) \in Nat
          /\ Cardinality(few) <= Cardinality(many)
      BY <3>1, <3>2, <3>4, FS_Subset, FS_CardinalityType
    <3> DEFINE bar == TextConfig.near_dup_threshold * Cardinality(own)
    <3>6. bar \in Nat
      BY <2>5, <3>5
    <3>7. 100 * Cardinality(many) >= bar
      <4> HIDE DEF bar
      <4>1. 100 * Cardinality(few) >= bar
        BY <3>3 DEF bar
      <4> QED BY <3>5, <3>6, <4>1
    <3> QED BY <3>7 DEF own, many
  <2> QED BY <2>3, <2>6, <2>7
<1> QED BY <1>1, AnsweredHolds, PTL

-----------------------------------------------------------------------------
\* The JSON engine: what is kept are positions of the array, and which of them.

\* The positions of an array are finitely many numbers, from zero.
LEMMA PositionsAre ==
  ASSUME NEW items, Len(items) \in Nat
  PROVE  /\ Positions(items) \in SUBSET Int /\ IsFiniteSet(Positions(items))
         /\ Cardinality(Positions(items)) = Len(items)
         /\ \A i : i \in Positions(items) <=> i \in Nat /\ i < Len(items)
<1>1. IsFiniteSet(0..(Len(items) - 1)) /\ Cardinality(0..(Len(items) - 1)) = Len(items)
  <2>1. Len(items) - 1 \in Int /\ 0 \in Int
    OBVIOUS
  <2>2. /\ IsFiniteSet(0..(Len(items) - 1))
        /\ Cardinality(0..(Len(items) - 1)) = IF 0 > Len(items) - 1 THEN 0 ELSE (Len(items) - 1) - 0 + 1
    BY <2>1, FS_Interval
  <2> QED BY <2>2
<1> QED BY <1>1 DEF Positions

\* The ends of the array that a plan always takes are positions of it.
LEMMA RegionIs ==
  ASSUME NEW first \in Nat, NEW beyond \in Int, NEW slots \in Nat
  PROVE  \A i \in RegionSlots(first, beyond, slots) : i \in first..(beyond - 1)
<1> SUFFICES ASSUME NEW i \in RegionSlots(first, beyond, slots) PROVE i \in first..(beyond - 1)
  OBVIOUS
<1>1. CASE slots >= beyond - first
  BY <1>1 DEF RegionSlots
<1>2. CASE ~(slots >= beyond - first)
  <2>1. PICK k \in 1..slots : i = Smaller(beyond - 1, first + (k * (beyond - first)) \div (slots + 1))
    BY <1>2 DEF RegionSlots
  <2> DEFINE reach == k * (beyond - first)
             step == reach \div (slots + 1)
  <2>2. beyond - first \in Nat /\ beyond - 1 >= first
    BY <1>2
  <2>3. reach \in Nat
    BY <2>2
  <2>4. step \in Nat
    <3> HIDE DEF reach
    <3> QED BY <2>3
  <2> HIDE DEF step
  <2>5. i = Smaller(beyond - 1, first + step)
    BY <2>1 DEF step
  <2> QED BY <2>2, <2>4, <2>5 DEF Smaller
<1> QED BY <1>1, <1>2

\* So are the anchors.
LEMMA AnchorsAre ==
  ASSUME NEW items, Len(items) \in Nat, NEW max \in Nat, NEW strategy,
         NEW anchors \in AnchorSets(items, max, strategy)
  PROVE  anchors \subseteq Positions(items)
<1> DEFINE n == Len(items)
           budget == AnchorBudget(n, max)
           front == FrontSlots(budget, strategy)
           back == BackSlots(budget, strategy)
           middle == Larger(0, budget - front - back)
           one == RegionSlots(0, Smaller(2 * front, n \div 3), front)
           two == RegionSlots(Larger(n - 2 * back, (2 * n) \div 3), n, back)
           candidates == RegionSlots(front, n - back, 3 * middle)
<1>1. budget \in Nat
  <2>1. max \div 4 \in Nat
    OBVIOUS
  <2> QED BY <2>1 DEF AnchorBudget, Smaller, Larger
<1>2. front \in Nat /\ back \in Nat
  <2> HIDE DEF budget
  <2>1. \A percent \in {15, 50, 75, 40} : (budget * percent) \div 100 \in Nat
    BY <1>1
  <2>2. /\ front = Larger(1, (budget * 15) \div 100) \/ front = Larger(1, (budget * 50) \div 100)
        /\ back = Larger(1, (budget * 75) \div 100) \/ back = Larger(1, (budget * 40) \div 100)
    BY DEF FrontSlots, BackSlots
  <2>3. \A x \in Nat : Larger(1, x) \in Nat
    BY DEF Larger
  <2> HIDE DEF front, back
  <2> QED BY <2>1, <2>2, <2>3
<1> HIDE DEF front, back, budget
<1>3. middle \in Nat /\ 3 * middle \in Nat
  <2>1. middle \in Nat
    BY <1>1, <1>2 DEF Larger
  <2> HIDE DEF middle
  <2> QED BY <2>1
<1> HIDE DEF middle
<1>4. one \subseteq Positions(items)
  <2>1. \A i \in one : i \in 0..(Smaller(2 * front, n \div 3) - 1)
    <3>1. Smaller(2 * front, n \div 3) \in Int
      BY <1>2 DEF Smaller
    <3> QED BY <1>2, <3>1, RegionIs
  <2>2. Smaller(2 * front, n \div 3) \in Int /\ Smaller(2 * front, n \div 3) <= n
    <3>1. n \div 3 \in Int /\ n \div 3 <= n
      OBVIOUS
    <3> QED BY <1>2, <3>1 DEF Smaller
  <2> HIDE DEF one
  <2> QED BY <2>1, <2>2, PositionsAre
<1>5. two \subseteq Positions(items)
  <2> DEFINE from == Larger(n - 2 * back, (2 * n) \div 3)
  <2>1. from \in Nat /\ n \in Int
    <3>1. (2 * n) \div 3 \in Nat
      OBVIOUS
    <3> QED BY <1>2, <3>1 DEF Larger
  <2>2. two = RegionSlots(from, n, back)
    OBVIOUS
  <2> HIDE DEF from, n, two
  <2>3. \A i \in two : i \in from..(n - 1)
    BY <1>2, <2>1, <2>2, RegionIs
  <2> QED BY <2>1, <2>3, PositionsAre DEF n
<1>6. candidates \subseteq Positions(items)
  <2> DEFINE to == n - back
             slots == 3 * middle
  <2>1. to \in Int /\ to <= n /\ slots \in Nat
    BY <1>2, <1>3
  <2>2. candidates = RegionSlots(front, to, slots)
    OBVIOUS
  <2> HIDE DEF to, slots, candidates
  <2>3. \A i \in candidates : i \in front..(to - 1)
    BY <1>2, <2>1, <2>2, RegionIs
  <2> QED BY <1>2, <2>1, <2>3, PositionsAre
<1>7. /\ middle = 0 => anchors = one \cup two
      /\ middle # 0 => \E chosen \in SUBSET candidates : anchors = (one \cup two) \cup chosen
  BY DEF AnchorSets, one, two, candidates, middle, front, back, budget
<1> HIDE DEF one, two, candidates
<1> QED BY <1>4, <1>5, <1>6, <1>7

\* An order of the lines or positions themselves.
LEMMA Sorted ==
  ASSUME NEW I \in SUBSET Int, IsFiniteSet(I)
  PROVE  Cardinality(I) \in Nat /\ Ordered(I, <) \in [1..Cardinality(I) -> I]
<1> DEFINE place == [i \in I |-> 1 + Cardinality({j \in I : j < i})]
           o == [p \in 1..Cardinality(I) |-> CHOOSE i \in I : place[i] = p]
<1>1. InOwnOrder(o, place, I)
  BY DEF InOwnOrder
<1>2. Ordered(I, <) = o
  BY DEF Ordered
<1> HIDE DEF o, place
<1> QED BY <1>1, <1>2, OrderedUp

\* Every position stays or gives way to an equal item.
LEMMA Represented ==
  ASSUME NEW items, Len(items) \in Nat, NEW keep \in SUBSET Positions(items)
  PROVE  /\ Deduplicated(items, keep) \subseteq keep
         /\ \A i \in keep : \E j \in Deduplicated(items, keep) : At(items, j) = At(items, i)
<1> SUFFICES ASSUME NEW i \in keep
             PROVE  \E j \in Deduplicated(items, keep) : At(items, j) = At(items, i)
  BY DEF Deduplicated
<1> DEFINE T == {j \in keep : At(items, j) = At(items, i)}
<1>1. T \subseteq Nat /\ T # {}
  BY PositionsAre
<1>2. PICK j \in T : \A k \in T : j <= k
  <2> HIDE DEF T
  <2> QED BY <1>1, Least
<1>3. ~\E k \in keep : k < j /\ At(items, k) = At(items, j)
  <2> SUFFICES ASSUME NEW k \in keep, k < j, At(items, k) = At(items, j) PROVE FALSE
    OBVIOUS
  <2>1. k \in T
    OBVIOUS
  <2>2. j <= k /\ j \in Nat /\ k \in Nat
    BY <1>1, <1>2, <2>1
  <2> QED BY <2>2
<1> QED BY <1>3 DEF Deduplicated

\* Filling up keeps what is there and takes positions.
LEMMA FilledKeeps ==
  ASSUME NEW items, Len(items) \in Nat, NEW keep \in SUBSET Positions(items),
         NEW max \in Nat, Cardinality(keep) < max
  PROVE  keep \subseteq Filled(items, keep, max) /\ Filled(items, keep, max) \subseteq Positions(items)
<1> DEFINE I == Positions(items) \ keep
           others == Ordered(I, <)
           n == Len(others)
           room == (max - Cardinality(keep)) + 1
           stride == Larger(1, n \div room)
           key == [a \in 1..n |-> 0 - ((a - 1) % stride)]
           place == [a \in 1..n |-> 1 + Cardinality({b \in 1..n :
                        \/ (b - 1) % stride < (a - 1) % stride
                        \/ (b - 1) % stride = (a - 1) % stride /\ b < a})]
           visits == [p \in 1..Cardinality(1..n) |-> CHOOSE a \in 1..n : place[a] = p]
           A == SUBSET Positions(items)
           Take(kept, v) ==
              LET i == others[v]
              IN  IF Cardinality(kept) >= max \/ \E j \in kept : At(items, j) = At(items, i)
                  THEN kept ELSE kept \cup {i}
           step == [x \in A \X (1..n) |-> Take(x[1], visits[x[2]])]
           iter == CHOOSE g : g = [s \in SUBSET (1..n) |-> IF s = {} THEN keep
                                                       ELSE Take(g[s \ {Max(s)}], visits[Max(s)])]
<1>1. Positions(items) \in SUBSET Int /\ IsFiniteSet(Positions(items))
  BY PositionsAre
<1>2. I \in SUBSET Int /\ IsFiniteSet(I)
  BY <1>1, FS_Subset
<1>3. n \in Nat /\ others \in [1..n -> I]
  <2>1. Cardinality(I) \in Nat /\ others \in [1..Cardinality(I) -> I]
    <3> HIDE DEF I
    <3> QED BY <1>2, Sorted
  <2>2. Len(others) = Cardinality(I)
    <3> HIDE DEF I, others
    <3> QED BY <2>1
  <2> QED BY <2>1, <2>2
<1>4. stride \in Nat /\ stride >= 1
  <2>1. Cardinality(keep) \in Nat
    BY <1>1, FS_Subset, FS_CardinalityType
  <2>2. room \in Nat /\ room > 0
    BY <2>1
  <2> HIDE DEF n, room
  <2>3. n \in Nat
    BY <1>3
  <2>4. n \div room \in Nat
    BY ONLY <2>2, <2>3
  <2> QED BY <2>4 DEF Larger
<1>5. Filled(items, keep, max) = FoldLeft(Take, keep, visits)
  BY DEF Filled, Ordered
<1>6. DOMAIN visits = 1..Cardinality(1..n)
  OBVIOUS
<1>7. IsFiniteSet(1..n) /\ Cardinality(1..n) = n /\ 1..n \in SUBSET Int
  <2> HIDE DEF n
  <2>1. 1..n \in SUBSET Int
    OBVIOUS
  <2>2. n \in Nat
    BY <1>3
  <2>3. IsFiniteSet(1..n)
    BY ONLY <2>2, FS_Interval
  <2>4. Cardinality(1..n) = n
    BY ONLY <2>2, FS_Interval
  <2> QED BY <2>1, <2>3, <2>4
<1> HIDE DEF I, n, others, room, stride
<1>8. Filled(items, keep, max) = iter[1..n]
  <2> HIDE DEF visits
  <2> QED BY <1>5, <1>6, <1>7 DEF FoldLeft, MapThenFoldSet
<1>9. visits \in [1..n -> 1..n]
  <2>1. \A a \in 1..n : (a - 1) % stride \in Int
    BY <1>3, <1>4
  <2>2. \A a \in 1..n : key[a] \in Int
    BY <2>1
  <2>3. \A a \in 1..n : {b \in 1..n : key[b] > key[a] \/ (key[b] = key[a] /\ b < a)}
            = {b \in 1..n : \/ (b - 1) % stride < (a - 1) % stride
                            \/ (b - 1) % stride = (a - 1) % stride /\ b < a}
    BY <2>1
  <2> HIDE DEF key
  <2>4. InKeyOrder(visits, place, key, 1..n)
    BY <1>7, <2>2, <2>3 DEF InKeyOrder
  <2> HIDE DEF visits, place
  <2> QED BY <1>7, <2>4, OrderedByKey
<1> HIDE DEF visits
<1>10. \A a \in A : \A v \in 1..n : Take(a, v) \in A /\ a \subseteq Take(a, v)
  BY <1>3 DEF I
<1>11. \A a \in A : \A m \in 1..n : step[<<a, m>>] = Take(a, visits[m])
  OBVIOUS
<1> HIDE DEF Take
<1>12. step \in [A \X (1..n) -> A] /\ keep \in A
  BY <1>9, <1>10
<1>13. \A a \in A : \A m \in 1..n : a \subseteq step[<<a, m>>]
  BY <1>9, <1>10, <1>11
<1>14. \A s \in SUBSET (1..n) : s # {} => Max(s) \in 1..n
  BY <1>3, MaxIn
<1> HIDE DEF A, step
<1>15. iter = [s \in SUBSET (1..n) |-> IF s = {} THEN keep ELSE Take(iter[s \ {Max(s)}], visits[Max(s)])]
  <2>1. PICK g \in [SUBSET (1..n) -> A] : Solves(g, keep, step, n)
    BY <1>3, <1>12, FoldExists
  <2>2. g = [s \in SUBSET (1..n) |-> IF s = {} THEN keep ELSE Take(g[s \ {Max(s)}], visits[Max(s)])]
    BY <1>11, <1>14, <2>1 DEF Solves
  <2> QED BY <2>2
<1> HIDE DEF iter
<1>16. IsFold(iter, keep, step, n, A)
  BY <1>3, <1>11, <1>12, <1>14, <1>15 DEF IsFold
<1>17. keep \subseteq iter[1..n] /\ iter[1..n] \in A
  BY <1>13, <1>16, FoldGrows
<1> QED BY <1>8, <1>17 DEF A

\* And the items that report something.
LEMMA SignalsAre ==
  ASSUME NEW items
  PROVE  /\ MustKeep(items) \subseteq Signals(items) /\ Signals(items) \subseteq Positions(items)
         /\ Anomalies(items) \subseteq Signals(items)
  BY DEF MustKeep, Signals, Anomalies, ErrorItems, Outliers, RareStatus

Budgeted(K, items, keep, max) ==
    /\ Len(items) \in Nat /\ Len(items) >= 3 /\ max \in Nat
    /\ keep \in SUBSET Positions(items) /\ MustKeep(items) \subseteq keep
    /\ K = Prioritize(items, keep, max)

\* The budget goes to the signals first: all of them stay, or nothing else does.
LEMMA PrioritizedKeeps ==
  ASSUME NEW K, NEW items, NEW keep, NEW max, Budgeted(K, items, keep, max)
  PROVE  /\ K \subseteq Positions(items)
         /\ \/ K \subseteq Signals(items)
            \/ \A i \in MustKeep(items) : \E j \in K : At(items, j) = At(items, i)
<1> USE DEF Budgeted
<1> DEFINE n == Len(items)
           unique == Deduplicated(items, keep)
           current == IF Cardinality(unique) < Smaller(max, n) THEN Filled(items, unique, max)
                      ELSE unique
           First3 == 0..2
           Last2 == (n - 2)..(n - 1)
           tiers == <<Signals(items), First3, Last2, current>>
           last == 4
           A == SUBSET Positions(items)
           Take(kept, tier) == kept \cup FirstOf(tier \ kept, max - Cardinality(kept), <)
           step == [x \in A \X (1..last) |-> Take(x[1], tiers[x[2]])]
           iter == CHOOSE g : g = [s \in SUBSET (1..last) |-> IF s = {} THEN {}
                                                       ELSE Take(g[s \ {Max(s)}], tiers[Max(s)])]
<1>1. Positions(items) \in SUBSET Int /\ IsFiniteSet(Positions(items))
  BY PositionsAre
<1>2. /\ unique \subseteq keep
      /\ \A i \in keep : \E j \in unique : At(items, j) = At(items, i)
  BY Represented
<1>3. unique \subseteq current /\ current \subseteq Positions(items)
  <2>1. CASE Cardinality(unique) < Smaller(max, n)
    <3>1. Cardinality(unique) \in Nat
      BY <1>1, <1>2, FS_Subset, FS_CardinalityType
    <3>2. Cardinality(unique) < max
      BY <2>1, <3>1 DEF Smaller
    <3>3. unique \in SUBSET Positions(items)
      BY <1>2
    <3> HIDE DEF unique
    <3>4. unique \subseteq Filled(items, unique, max) /\ Filled(items, unique, max) \subseteq Positions(items)
      BY <3>2, <3>3, FilledKeeps
    <3> QED BY <2>1, <3>4
  <2>2. CASE ~(Cardinality(unique) < Smaller(max, n))
    BY <1>2, <2>2
  <2> QED BY <2>1, <2>2
<1>4. /\ Cardinality(current) <= max => K = current
      /\ ~(Cardinality(current) <= max) => K = FoldLeft(Take, {}, tiers)
  BY DEF Prioritize
<1> HIDE DEF unique, current
<1>5. CASE Cardinality(current) <= max
  <2>1. \A i \in MustKeep(items) : \E j \in K : At(items, j) = At(items, i)
    BY <1>2, <1>3, <1>4, <1>5
  <2> QED BY <1>3, <1>4, <1>5, <2>1
<1>6. CASE ~(Cardinality(current) <= max)
  <2>1. DOMAIN tiers = 1..last /\ \A m \in 1..last : tiers[m] \in A
    <3>1. First3 \in A /\ Last2 \in A
      BY PositionsAre
    <3>2. Signals(items) \in A /\ current \in A
      BY <1>3, SignalsAre
    <3> HIDE DEF A, First3, Last2
    <3>3. tiers[1] \in A /\ tiers[2] \in A /\ tiers[3] \in A /\ tiers[4] \in A
      BY <3>1, <3>2
    <3>4. DOMAIN tiers = 1..last
      OBVIOUS
    <3> HIDE DEF tiers
    <3> QED BY <3>3, <3>4
  <2>2. tiers[1] = Signals(items)
    OBVIOUS
  <2> HIDE DEF tiers
  <2>3. K = iter[1..last]
    BY <1>4, <1>6, <2>1 DEF FoldLeft, MapThenFoldSet
  <2>4. \A a \in A : \A t \in A : Take(a, t) \in A /\ a \subseteq Take(a, t)
    BY DEF FirstOf
  <2>5. \A a \in A : \A m \in 1..last : step[<<a, m>>] = Take(a, tiers[m])
    OBVIOUS
  <2>6. ASSUME NEW a \in A, NEW t \in A, Cardinality(a) = max
        PROVE  Take(a, t) = a
    <3> DEFINE Before(i) == {j \in t \ a : j < i}
               T == {i \in t \ a : Cardinality(Before(i)) < max - Cardinality(a)}
    <3>1. Take(a, t) = a \cup T
      BY DEF FirstOf
    <3>2. \A i : Before(i) \subseteq Positions(items)
      OBVIOUS
    <3> HIDE DEF Before
    <3>3. \A i : Cardinality(Before(i)) \in Nat
      BY <1>1, <3>2, FS_Subset, FS_CardinalityType
    <3>4. \A i : ~(Cardinality(Before(i)) < max - Cardinality(a))
      <4>1. max - Cardinality(a) = 0
        BY <2>6
      <4> QED BY ONLY <3>3, <4>1
    <3>5. T = {}
      BY <3>4
    <3> QED BY <3>1, <3>5
  <2>7. /\ Take({}, Signals(items)) \subseteq Signals(items)
        /\ \/ Take({}, Signals(items)) = Signals(items)
           \/ Cardinality(Take({}, Signals(items))) = max
    <3> DEFINE S == Signals(items)
               F == {i \in S : Cardinality({j \in S : j < i}) < max}
    <3>0. max \in Nat
      OBVIOUS
    <3>1. Take({}, S) = F
      <4>1. S \ {} = S /\ max - Cardinality({}) = max
        BY FS_EmptySet
      <4> QED BY <4>1 DEF FirstOf
    <3>2. S \in SUBSET Int /\ IsFiniteSet(S)
      BY <1>1, SignalsAre, FS_Subset
    <3>3. F = {i \in S : Cardinality({j \in S : j < i}) < max}
      OBVIOUS
    <3> HIDE DEF S, F
    <3>4. /\ F \subseteq S
          /\ Cardinality(S) <= max => F = S
          /\ Cardinality(S) >= max => Cardinality(F) = max
      BY ONLY <3>0, <3>2, <3>3, FirstOnes
    <3>5. Cardinality(S) \in Nat
      BY <3>2, FS_CardinalityType
    <3>6. F = S \/ Cardinality(F) = max
      BY ONLY <3>0, <3>4, <3>5
    <3> QED BY <3>1, <3>4, <3>6 DEF S
  <2>8. last \in Nat
    OBVIOUS
  <2> HIDE DEF Take, last
  <2>9. step \in [A \X (1..last) -> A] /\ {} \in A
    BY <2>1, <2>4
  <2>10. \A s \in SUBSET (1..last) : s # {} => Max(s) \in 1..last
    BY <2>8, MaxIn
  <2> HIDE DEF A, step
  <2>11. iter = [s \in SUBSET (1..last) |-> IF s = {} THEN {} ELSE Take(iter[s \ {Max(s)}], tiers[Max(s)])]
    <3>1. PICK g \in [SUBSET (1..last) -> A] : Solves(g, {}, step, last)
      BY <2>8, <2>9, FoldExists
    <3>2. g = [s \in SUBSET (1..last) |-> IF s = {} THEN {} ELSE Take(g[s \ {Max(s)}], tiers[Max(s)])]
      BY <2>5, <2>10, <3>1 DEF Solves
    <3> QED BY <3>2
  <2> HIDE DEF iter
  <2>12. IsFold(iter, {}, step, last, A)
    <3>1. iter[{}] = {}
      BY <2>11
    <3>2. ASSUME NEW s \in SUBSET (1..last), s # {}, iter[s \ {Max(s)}] \in A
          PROVE  iter[s] = step[<<iter[s \ {Max(s)}], Max(s)>>]
      BY <2>5, <2>10, <2>11, <3>2
    <3> QED BY <2>8, <2>9, <3>1, <3>2 DEF IsFold
  <2>13. PICK f \in [0..last -> A] : /\ f[0] = {} /\ f[last] = iter[1..last]
                                  /\ \A m \in 1..last : f[m] = step[<<f[m - 1], m>>]
    BY <2>12, FoldRuns
  <2>14. /\ f[1] = Take({}, Signals(items)) /\ f[2] = Take(f[1], tiers[2])
         /\ f[3] = Take(f[2], tiers[3]) /\ f[4] = Take(f[3], tiers[4])
         /\ f[1] \in A /\ f[2] \in A /\ f[3] \in A /\ f[4] \in A
    <3>1. \A m \in 1..last : m - 1 \in 0..last /\ f[m - 1] \in A /\ f[m] = Take(f[m - 1], tiers[m])
      <4> TAKE m \in 1..last
      <4>1. m - 1 \in 0..last
        BY <2>8
      <4> QED BY <2>5, <2>13, <4>1
    <3>2. f[1] = Take(f[0], tiers[1]) /\ f[2] = Take(f[1], tiers[2])
      BY <3>1 DEF last
    <3>3. f[3] = Take(f[2], tiers[3]) /\ f[4] = Take(f[3], tiers[4])
      BY <3>1 DEF last
    <3>4. f[1] \in A /\ f[2] \in A /\ f[3] \in A /\ f[4] \in A
      BY DEF last
    <3> QED BY <2>2, <2>13, <3>2, <3>3, <3>4
  <2>15. /\ tiers[2] \in A /\ tiers[3] \in A /\ tiers[4] \in A
    BY <2>1 DEF last
  <2>16. f[1] \subseteq f[2] /\ f[2] \subseteq f[3] /\ f[3] \subseteq f[4]
    BY <2>4, <2>14, <2>15
  <2>17. CASE f[1] = Signals(items)
    <3>1. MustKeep(items) \subseteq K
      BY <2>3, <2>13, <2>16, <2>17, SignalsAre DEF last
    <3> QED BY <2>3, <2>13, <2>14, <3>1 DEF A, last
  <2>18. CASE Cardinality(f[1]) = max
    <3>1. f[4] = f[1]
      BY <2>6, <2>14, <2>15, <2>18
    <3> QED BY <2>3, <2>7, <2>13, <2>14, <3>1 DEF A, last
  <2> QED BY <2>7, <2>14, <2>17, <2>18
<1> QED BY <1>5, <1>6

ErrorsOf(items) == {i \in Positions(items) : At(items, i).error}

\* The stride goes on from the strings that must stay.
LEMMA StringsKeep ==
  ASSUME NEW items, Len(items) \in Nat
  PROVE  ErrorsOf(items) \cup Anomalies(items) \subseteq CrushStrings(items)
<1> DEFINE P == Positions(items)
           k == KTotal(Len(items))
           keep == ErrorsOf(items) \cup Anomalies(items) \cup EndsOf(items)
           budget == Larger(0, k - Cardinality(keep))
           stride == Larger(1, (Len(items) - 1) \div (budget + 1))
           I == {i \in P : i % stride = 0}
           n == Cardinality(I)
           visits == Ordered(I, <)
           A == SUBSET P
           Take(kept, i) == IF Cardinality(kept) >= k + Cardinality(ErrorsOf(items)) + Cardinality(Anomalies(items)) \/ i \in kept
                               \/ ~(~\E j \in kept : At(items, j) = At(items, i))
                            THEN kept ELSE kept \cup {i}
           step == [x \in A \X (1..n) |-> Take(x[1], visits[x[2]])]
           iter == CHOOSE g : g = [s \in SUBSET (1..n) |-> IF s = {} THEN keep
                                                       ELSE Take(g[s \ {Max(s)}], visits[Max(s)])]
<1>1. P \in SUBSET Int /\ IsFiniteSet(P) /\ keep \in A
  BY PositionsAre DEF Anomalies, EndsOf, ErrorsOf
<1>2. ErrorsOf(items) \cup Anomalies(items) \subseteq keep
  OBVIOUS
<1>3. CASE Len(items) <= SmallInput
  BY <1>3 DEF CrushStrings, Anomalies, ErrorsOf
<1>4. CASE ~(Len(items) <= SmallInput)
  <2>1. CrushStrings(items) = IF budget = 0 THEN keep ELSE FoldLeft(Take, keep, visits)
    BY <1>4 DEF CrushStrings, Strided, ErrorsOf
  <2>2. n \in Nat /\ visits \in [1..n -> I] /\ I \subseteq P
    <3>1. I \in SUBSET Int /\ IsFiniteSet(I) /\ I \subseteq P
      BY <1>1, FS_Subset
    <3> HIDE DEF I
    <3> QED BY <3>1, Sorted
  <2> HIDE DEF P, I, n, visits, budget, stride, keep
  <2>3. DOMAIN visits = 1..n
    BY <2>2
  <2>4. FoldLeft(Take, keep, visits) = iter[1..n]
    BY <2>3 DEF FoldLeft, MapThenFoldSet
  <2>5. \A a \in A : \A i \in P : Take(a, i) \in A /\ a \subseteq Take(a, i)
    OBVIOUS
  <2>6. \A a \in A : \A m \in 1..n : step[<<a, m>>] = Take(a, visits[m])
    OBVIOUS
  <2> HIDE DEF Take
  <2>7. \A m \in 1..n : visits[m] \in P
    BY <2>2
  <2>8. step \in [A \X (1..n) -> A] /\ \A a \in A : \A m \in 1..n : a \subseteq step[<<a, m>>]
    BY <2>5, <2>6, <2>7
  <2>9. \A s \in SUBSET (1..n) : s # {} => Max(s) \in 1..n
    BY <2>2, MaxIn
  <2> HIDE DEF A, step
  <2>10. iter = [s \in SUBSET (1..n) |-> IF s = {} THEN keep ELSE Take(iter[s \ {Max(s)}], visits[Max(s)])]
    <3>1. PICK g \in [SUBSET (1..n) -> A] : Solves(g, keep, step, n)
      BY <1>1, <2>2, <2>8, FoldExists
    <3>2. g = [s \in SUBSET (1..n) |-> IF s = {} THEN keep ELSE Take(g[s \ {Max(s)}], visits[Max(s)])]
      BY <2>6, <2>9, <3>1 DEF Solves
    <3> QED BY <3>2
  <2> HIDE DEF iter
  <2>11. IsFold(iter, keep, step, n, A)
    BY <1>1, <2>2, <2>6, <2>8, <2>9, <2>10 DEF IsFold
  <2>12. keep \subseteq iter[1..n]
    BY <2>8, <2>11, FoldGrows
  <2> QED BY <1>2, <2>1, <2>4, <2>12
<1> QED BY <1>3, <1>4

\* So it does among numbers.
LEMMA NumbersKeep ==
  ASSUME NEW items, Len(items) \in Nat
  PROVE  Anomalies(items) \subseteq CrushNumbers(items)
<1> DEFINE P == Positions(items)
           k == KTotal(Len(items))
           keep == Anomalies(items) \cup EndsOf(items)
           budget == Larger(0, k - Cardinality(keep))
           stride == Larger(1, (Len(items) - 1) \div (budget + 1))
           I == {i \in P : i % stride = 0}
           n == Cardinality(I)
           visits == Ordered(I, <)
           A == SUBSET P
           Take(kept, i) == IF Cardinality(kept) >= k + Cardinality(Anomalies(items)) \/ i \in kept
                               \/ ~(TRUE)
                            THEN kept ELSE kept \cup {i}
           step == [x \in A \X (1..n) |-> Take(x[1], visits[x[2]])]
           iter == CHOOSE g : g = [s \in SUBSET (1..n) |-> IF s = {} THEN keep
                                                       ELSE Take(g[s \ {Max(s)}], visits[Max(s)])]
<1>1. P \in SUBSET Int /\ IsFiniteSet(P) /\ keep \in A
  BY PositionsAre DEF Anomalies, EndsOf
<1>2. Anomalies(items) \subseteq keep
  OBVIOUS
<1>3. CASE Len(items) <= SmallInput
  BY <1>3 DEF CrushNumbers, Anomalies
<1>4. CASE ~(Len(items) <= SmallInput)
  <2>1. CrushNumbers(items) = IF budget = 0 THEN keep ELSE FoldLeft(Take, keep, visits)
    BY <1>4 DEF CrushNumbers, Strided
  <2>2. n \in Nat /\ visits \in [1..n -> I] /\ I \subseteq P
    <3>1. I \in SUBSET Int /\ IsFiniteSet(I) /\ I \subseteq P
      BY <1>1, FS_Subset
    <3> HIDE DEF I
    <3> QED BY <3>1, Sorted
  <2> HIDE DEF P, I, n, visits, budget, stride, keep
  <2>3. DOMAIN visits = 1..n
    BY <2>2
  <2>4. FoldLeft(Take, keep, visits) = iter[1..n]
    BY <2>3 DEF FoldLeft, MapThenFoldSet
  <2>5. \A a \in A : \A i \in P : Take(a, i) \in A /\ a \subseteq Take(a, i)
    OBVIOUS
  <2>6. \A a \in A : \A m \in 1..n : step[<<a, m>>] = Take(a, visits[m])
    OBVIOUS
  <2> HIDE DEF Take
  <2>7. \A m \in 1..n : visits[m] \in P
    BY <2>2
  <2>8. step \in [A \X (1..n) -> A] /\ \A a \in A : \A m \in 1..n : a \subseteq step[<<a, m>>]
    BY <2>5, <2>6, <2>7
  <2>9. \A s \in SUBSET (1..n) : s # {} => Max(s) \in 1..n
    BY <2>2, MaxIn
  <2> HIDE DEF A, step
  <2>10. iter = [s \in SUBSET (1..n) |-> IF s = {} THEN keep ELSE Take(iter[s \ {Max(s)}], visits[Max(s)])]
    <3>1. PICK g \in [SUBSET (1..n) -> A] : Solves(g, keep, step, n)
      BY <1>1, <2>2, <2>8, FoldExists
    <3>2. g = [s \in SUBSET (1..n) |-> IF s = {} THEN keep ELSE Take(g[s \ {Max(s)}], visits[Max(s)])]
      BY <2>6, <2>9, <3>1 DEF Solves
    <3> QED BY <3>2
  <2> HIDE DEF iter
  <2>11. IsFold(iter, keep, step, n, A)
    BY <1>1, <2>2, <2>6, <2>8, <2>9, <2>10 DEF IsFold
  <2>12. keep \subseteq iter[1..n]
    BY <2>8, <2>11, FoldGrows
  <2> QED BY <1>2, <2>1, <2>4, <2>12
<1> QED BY <1>3, <1>4

\* Whatever plan an array of rows is crushed by.
LEMMA RowsAre ==
  ASSUME NEW items, Len(items) \in Nat, ArrayType(items) = "DictArray",
         NEW crushed \in CrushJson(items)
  PROVE  /\ crushed.kept \subseteq Positions(items)
         /\ crushed.kept = Positions(items) \/ crushed.pager = Pager(items, crushed.kept)
         /\ \/ crushed.kept \subseteq Signals(items)
            \/ \A i \in MustKeep(items) : \E j \in crushed.kept : At(items, j) = At(items, i)
<1>1. MustKeep(items) \subseteq Positions(items)
  BY SignalsAre
<1>2. CASE crushed.kept = Positions(items)
  BY <1>1, <1>2
<1>3. CASE crushed.kept # Positions(items)
  <2>1. crushed \in CrushArray(items)
    <3>1. CASE Len(items) >= CrusherConfig.min_items_to_analyze
      BY <3>1 DEF CrushJson
    <3>2. CASE ~(Len(items) >= CrusherConfig.min_items_to_analyze)
      <4>1. crushed.kept = Positions(items)
        BY <3>2 DEF CrushJson
      <4> QED BY <1>3, <4>1
    <3> QED BY <3>1, <3>2
  <2> DEFINE max == Smaller(CrusherConfig.min_kept, CrusherConfig.max_items_after_crush)
  <2>2. max \in Nat
    BY CrusherAssumption DEF Smaller
  <2>3. Len(items) >= 3
    <3>1. ~(Len(items) <= SmallInput)
      BY <1>3, <2>1 DEF CrushArray
    <3> QED BY <3>1, SizerAssumption
  <2>4. PICK s \in Strategies(items) : \E kept \in Planned(items, max, s) :
            crushed = [kept |-> kept, pager |-> Pager(items, kept)]
    BY <1>3, <2>1 DEF CrushArray
  <2>5. PICK kept \in Planned(items, max, s) :
            crushed = [kept |-> kept, pager |-> Pager(items, kept)]
    BY <2>4
  <2> HIDE DEF max
  <2>6. crushed.kept = kept /\ crushed.pager = Pager(items, crushed.kept)
    BY <2>5
  <2>7. s \in {"SmartSample", "ClusterSample", "TopN", "Skip"}
    BY DEF Strategies
  <2>8. /\ kept \subseteq Positions(items)
        /\ \/ kept \subseteq Signals(items)
           \/ \A i \in MustKeep(items) : \E j \in kept : At(items, j) = At(items, i)
    <3>1. CASE s = "Skip"
      <4>1. kept = Positions(items)
        BY <3>1 DEF Planned
      <4> QED BY <1>1, <4>1
    <3>2. CASE s = "TopN"
      <4>1. PICK best \in SUBSET Positions(items) : kept = MustKeep(items) \cup best
        BY <3>2 DEF Planned, TopN
      <4> QED BY <1>1, <4>1
    <3>3. CASE s = "SmartSample"
      <4>1. PICK anchors \in AnchorSets(items, max, "SmartSample") :
               kept = Prioritize(items, anchors \cup MustKeep(items) \cup Anomalies(items), max)
        BY <3>3 DEF Planned, SmartSample
      <4> DEFINE keep == anchors \cup MustKeep(items) \cup Anomalies(items)
      <4>2. anchors \subseteq Positions(items)
        BY <2>2, AnchorsAre
      <4>3. keep \in SUBSET Positions(items) /\ MustKeep(items) \subseteq keep
        BY <1>1, <4>2 DEF Anomalies
      <4>4. kept = Prioritize(items, keep, max)
        BY <4>1
      <4> HIDE DEF keep
      <4>5. Budgeted(kept, items, keep, max)
        BY <2>2, <2>3, <4>3, <4>4 DEF Budgeted
      <4> QED BY <4>5, PrioritizedKeeps
    <3>4. CASE s = "ClusterSample"
      <4>1. PICK anchors \in AnchorSets(items, max, "ClusterSample") :
               kept = Prioritize(items, anchors \cup MustKeep(items) \cup FirstTwoOfEach(items), max)
        BY <3>4 DEF Planned, ClusterSample
      <4> DEFINE keep == anchors \cup MustKeep(items) \cup FirstTwoOfEach(items)
      <4>2. anchors \subseteq Positions(items)
        BY <2>2, AnchorsAre
      <4>3. keep \in SUBSET Positions(items) /\ MustKeep(items) \subseteq keep
        BY <1>1, <4>2 DEF FirstTwoOfEach
      <4>4. kept = Prioritize(items, keep, max)
        BY <4>1
      <4> HIDE DEF keep
      <4>5. Budgeted(kept, items, keep, max)
        BY <2>2, <2>3, <4>3, <4>4 DEF Budgeted
      <4> QED BY <4>5, PrioritizedKeeps
    <3> QED BY <2>7, <3>1, <3>2, <3>3, <3>4
  <2> QED BY <2>6, <2>8
<1> QED BY <1>2, <1>3

\* Whatever plan crush_array chooses for an array of rows, what it does not keep is in
\* the store under the key the pager names.
THEOREM DroppedRowsHold == Spec => []DroppedRowsAreStored
<1>1. Answered => DroppedRowsAreStored
  <2> SUFFICES ASSUME Answered, Routed({"JsonArray"}), ArrayType(Items) = "DictArray",
                      KeptOf # Positions(Items)
               PROVE  \E array \in store : /\ result[1].pager # <<>>
                                           /\ result[1].pager[1].hash = array
                                           /\ Range(array) = Range(Items)
    BY DEF DroppedRowsAreStored
  <2>1. Len(Items) \in Nat
    BY LinesAre DEF Routed
  <2>2. PICK crushed \in CrushJson(Items) : result = <<crushed>> /\ StoreArray(Items, crushed) \subseteq store
    BY DEF Answered
  <2>3. KeptOf = crushed.kept /\ result[1].pager = crushed.pager
    BY <2>2 DEF KeptOf
  <2>4. KeptOf \subseteq Positions(Items) /\ crushed.pager = Pager(Items, KeptOf)
    BY <2>1, <2>3, RowsAre
  <2>5. Cardinality(KeptOf) # Len(Items)
    <3>1. IsFiniteSet(Positions(Items)) /\ Cardinality(Positions(Items)) = Len(Items)
      BY <2>1, PositionsAre
    <3> QED BY <2>4, <3>1, FS_Subset
  <2>6. crushed.pager # <<>> /\ crushed.pager[1].hash = Items
    BY <2>4, <2>5 DEF Pager
  <2>7. Items \in store
    BY <2>2, <2>6 DEF StoreArray
  <2> QED BY <2>3, <2>6, <2>7
<1> QED BY <1>1, AnsweredHolds, PTL

\* Whatever plan crush_array chooses and however many rows compete: errors and rows of a
\* rare shape stay before others do, and the outliers among strings and numbers stay.
THEOREM SignalsAreKept == Spec => []SignalsAreKeptFirst
<1>1. Answered => SignalsAreKeptFirst
  <2> SUFFICES ASSUME Answered, Routed({"JsonArray"}) PROVE SignalsAreKeptFirst
    BY DEF SignalsAreKeptFirst
  <2>1. Len(Items) \in Nat
    BY LinesAre DEF Routed
  <2>2. PICK crushed \in CrushJson(Items) : KeptOf = crushed.kept
    <3>1. PICK crushed \in CrushJson(Items) : result = <<crushed>>
      BY DEF Answered
    <3> QED BY <3>1 DEF KeptOf
  <2>3. ASSUME ArrayType(Items) = "DictArray"
        PROVE  \/ KeptOf \subseteq Signals(Items)
               \/ \A i \in MustKeep(Items) : \E j \in KeptOf : At(Items, j) = At(Items, i)
    BY <2>1, <2>2, <2>3, RowsAre
  <2>4. Errors \subseteq Positions(Items) /\ Anomalies(Items) \subseteq Positions(Items)
    BY DEF Errors, Anomalies
  <2>5. ASSUME ArrayType(Items) = "StringArray"
        PROVE  Errors \cup Anomalies(Items) \subseteq KeptOf
    <3>1. KeptOf = CrushStrings(Items) \/ KeptOf = Positions(Items)
      <4>1. CASE Len(Items) >= CrusherConfig.min_items_to_analyze
        BY <2>2, <2>5, <4>1 DEF CrushJson
      <4>2. CASE ~(Len(Items) >= CrusherConfig.min_items_to_analyze)
        BY <2>2, <2>5, <4>2 DEF CrushJson
      <4> QED BY <4>1, <4>2
    <3>2. Errors = ErrorsOf(Items)
      BY DEF Errors, ErrorsOf
    <3> QED BY <2>1, <2>4, <3>1, <3>2, StringsKeep
  <2>6. ASSUME ArrayType(Items) = "NumberArray"
        PROVE  Anomalies(Items) \subseteq KeptOf
    <3>1. KeptOf = CrushNumbers(Items) \/ KeptOf = Positions(Items)
      <4>1. CASE Len(Items) >= CrusherConfig.min_items_to_analyze
        BY <2>2, <2>6, <4>1 DEF CrushJson
      <4>2. CASE ~(Len(Items) >= CrusherConfig.min_items_to_analyze)
        BY <2>2, <2>6, <4>2 DEF CrushJson
      <4> QED BY <4>1, <4>2
    <3> QED BY <2>1, <2>4, <3>1, NumbersKeep
  <2> QED BY <2>3, <2>5, <2>6 DEF SignalsAreKeptFirst
<1> QED BY <1>1, AnsweredHolds, PTL

-----------------------------------------------------------------------------
\* The diff engine.

\* What a sequence consists of.
LEMMA RangesAre ==
  ASSUME NEW S
  PROVE  /\ \A s \in Seq(S) : /\ Len(s) \in Nat /\ Range(s) \subseteq S
                              /\ \A x : x \in Range(s) <=> \E p \in 1..Len(s) : s[p] = x
         /\ <<>> \in Seq(S) /\ Range(<<>>) = {}
         /\ \A x \in S : <<x>> \in Seq(S) /\ Range(<<x>>) = {x}
         /\ \A s \in Seq(S), x \in S : Append(s, x) \in Seq(S) /\ Range(Append(s, x)) = Range(s) \cup {x}
         /\ \A s, t \in Seq(S) : s \o t \in Seq(S) /\ Range(s \o t) = Range(s) \cup Range(t)
<1>1. \A s \in Seq(S) : /\ Len(s) \in Nat /\ Range(s) \subseteq S
                        /\ \A x : x \in Range(s) <=> \E p \in 1..Len(s) : s[p] = x
  BY DEF Range
<1>2. <<>> \in Seq(S) /\ Range(<<>>) = {}
  BY DEF Range
<1>3. \A x \in S : <<x>> \in Seq(S) /\ Range(<<x>>) = {x}
  BY DEF Range
<1>4. \A s, t \in Seq(S) : s \o t \in Seq(S) /\ Range(s \o t) = Range(s) \cup Range(t)
  BY RangeConcatenation
<1>5. ASSUME NEW s \in Seq(S), NEW x \in S
      PROVE  Append(s, x) \in Seq(S) /\ Range(Append(s, x)) = Range(s) \cup {x}
  <2>1. Append(s, x) = s \o <<x>>
    OBVIOUS
  <2> QED BY <1>3, <1>4, <2>1
<1> QED BY <1>1, <1>2, <1>3, <1>4, <1>5

Opener(lines, i) == Max({0} \cup {o \in 1..i : lines[o].diff \in Opens})

\* The line that opens what a line is in is the line itself or that of the line before.
LEMMA OpenersAre ==
  ASSUME NEW lines, NEW i \in Nat
  PROVE  /\ Opener(lines, i) \in 0..i
         /\ \A o \in 1..i : lines[o].diff \in Opens => o <= Opener(lines, i)
         /\ Opener(lines, i) # 0 => lines[Opener(lines, i)].diff \in Opens
<1> DEFINE O == {o \in 1..i : lines[o].diff \in Opens}
<1>1. PICK m \in {0} \cup O : \A x \in {0} \cup O : m >= x
  <2>1. CASE O = {}
    BY <2>1
  <2>2. CASE O # {}
    <3>1. Max(O) \in O /\ \A x \in O : x <= Max(O)
      <4> HIDE DEF O
      <4>1. O \in SUBSET (1..i)
        BY DEF O
      <4> QED BY <2>2, <4>1, MaxIn
    <3>2. Max(O) >= 0 /\ \A x \in {0} \cup O : Max(O) >= x
      BY <3>1
    <3> QED BY <3>1, <3>2
  <2> QED BY <2>1, <2>2
<1>2. Opener(lines, i) = CHOOSE x \in {0} \cup O : \A y \in {0} \cup O : x >= y
  BY DEF Opener, Max
<1> DEFINE c == Opener(lines, i)
<1>3. c \in {0} \cup O /\ \A y \in {0} \cup O : c >= y
  <2> HIDE DEF O
  <2> QED BY <1>1, <1>2
<1> QED BY <1>3

LEMMA OpenersFollow ==
  ASSUME NEW lines, NEW i \in Nat \ {0}
  PROVE  Opener(lines, i) = IF lines[i].diff \in Opens THEN i ELSE Opener(lines, i - 1)
<1>1. i - 1 \in Nat /\ i \in 1..i /\ i \in Nat
  OBVIOUS
<1>2. /\ Opener(lines, i) \in 0..i
      /\ \A o \in 1..i : lines[o].diff \in Opens => o <= Opener(lines, i)
      /\ Opener(lines, i) # 0 => lines[Opener(lines, i)].diff \in Opens
  BY <1>1, OpenersAre
<1>3. /\ Opener(lines, i - 1) \in 0..(i - 1)
      /\ \A o \in 1..(i - 1) : lines[o].diff \in Opens => o <= Opener(lines, i - 1)
      /\ Opener(lines, i - 1) # 0 => lines[Opener(lines, i - 1)].diff \in Opens
  BY <1>1, OpenersAre
<1>4. CASE lines[i].diff \in Opens
  BY <1>1, <1>2, <1>4
<1>5. CASE lines[i].diff \notin Opens
  <2>1. Opener(lines, i) # i
    BY <1>1, <1>2, <1>5
  <2>2. Opener(lines, i) # 0 => Opener(lines, i) \in 1..(i - 1)
    BY <1>2, <2>1
  <2>3. Opener(lines, i) <= Opener(lines, i - 1)
    BY <1>2, <1>3, <2>2
  <2>4. Opener(lines, i - 1) # 0 => Opener(lines, i - 1) \in 1..i
    BY <1>3
  <2>5. Opener(lines, i - 1) <= Opener(lines, i)
    BY <1>2, <1>3, <2>4
  <2>6. Opener(lines, i) = Opener(lines, i - 1)
    BY <1>2, <1>3, <2>3, <2>5
  <2> QED BY <1>5, <2>6
<1> QED BY <1>4, <1>5

\* The lines that do not open a hunk, and the types of the engine's records.
Hunkless(lines) == {i \in 1..Len(lines) : lines[i].diff # "hunk"}
Hunked(lines) ==
    [header : {i \in 1..Len(lines) : lines[i].diff = "hunk"}, body : Seq(Hunkless(lines))]
Filed(lines) ==
    [header : Hunkless(lines), old : Seq(Hunkless(lines)), new : Seq(Hunkless(lines)),
     renames : Seq(Hunkless(lines)), hunks : Seq(Hunked(lines)),
     is_new_file : BOOLEAN, is_deleted_file : BOOLEAN, is_binary : BOOLEAN]
Reading(lines) ==
    {st \in [files : Seq(Filed(lines)), file : Seq(Filed(lines)), hunk : Seq(Hunked(lines)),
             pre : Seq(1..Len(lines))] :
        /\ st.file = <<>> \/ st.file = <<st.file[1]>>
        /\ st.hunk = <<>> \/ st.hunk = <<st.hunk[1]>>
        /\ st.file = <<>> => st.files = <<>> /\ st.hunk = <<>>}

HunksOf(files) == UNION {Range(f.hunks) : f \in Range(files)}
\* The hunks that the parser is done with.
Closed(st) == HunksOf(st.files) \cup HunksOf(st.file)

\* Closing a hunk puts it among those of its file.
LEMMA HunkCloses ==
  ASSUME NEW lines, NEW st \in Reading(lines), NEW next, next = CloseHunk(st)
  PROVE  /\ next \in Reading(lines) /\ next.hunk = <<>> /\ next.pre = st.pre
         /\ next.files = st.files /\ (next.file = <<>> <=> st.file = <<>>)
         /\ Closed(next) = Closed(st) \cup Range(st.hunk)
<1>1. CASE st.hunk = <<>>
  BY <1>1, RangesAre DEF CloseHunk
<1>2. CASE st.hunk # <<>>
  <2>1. /\ st.file = <<st.file[1]>> /\ st.hunk = <<st.hunk[1]>>
        /\ st.file # <<>> /\ st.file \in Seq(Filed(lines)) /\ st.hunk \in Seq(Hunked(lines))
    BY <1>2 DEF Reading
  <2>2. st.file[1] \in Filed(lines) /\ st.hunk[1] \in Hunked(lines)
    BY <1>2, <2>1
  <2> DEFINE file == st.file[1]
             hunk == st.hunk[1]
             longer == [file EXCEPT !.hunks = Append(@, hunk)]
  <2>3. next = [st EXCEPT !.file = [st.file EXCEPT ![1] = longer], !.hunk = <<>>]
    BY <1>2 DEF CloseHunk
  <2>4. [st.file EXCEPT ![1] = longer] = <<longer>>
    <3> HIDE DEF longer
    <3> QED BY <2>1
  <2>5. longer \in Filed(lines) /\ Range(longer.hunks) = Range(file.hunks) \cup {hunk}
    <3>1. file.hunks \in Seq(Hunked(lines))
      BY <2>2 DEF Filed
    <3>2. Append(file.hunks, hunk) \in Seq(Hunked(lines))
          /\ Range(Append(file.hunks, hunk)) = Range(file.hunks) \cup {hunk}
      BY <2>2, <3>1, RangesAre
    <3> QED BY <2>2, <3>2 DEF Filed
  <2> HIDE DEF longer
  <2>6. next = [files |-> st.files, file |-> <<longer>>, hunk |-> <<>>, pre |-> st.pre]
    BY <2>3, <2>4 DEF Reading
  <2>7. next \in Reading(lines)
    <3>1. <<longer>> \in Seq(Filed(lines)) /\ <<>> \in Seq(Hunked(lines))
      BY <2>5
    <3>2. st.files \in Seq(Filed(lines)) /\ st.pre \in Seq(1..Len(lines))
      BY DEF Reading
    <3>3. <<longer>>[1] = longer /\ <<longer>> # <<>>
      OBVIOUS
    <3> QED BY <2>6, <3>1, <3>2, <3>3 DEF Reading
  <2>8. HunksOf(next.file) = HunksOf(st.file) \cup {hunk}
    <3>1. Range(next.file) = {longer} /\ Range(st.file) = {file}
      BY <2>1, <2>2, <2>5, <2>6, RangesAre
    <3> QED BY <2>5, <3>1 DEF HunksOf
  <2>9. Range(st.hunk) = {hunk}
    BY <2>1, <2>2, RangesAre
  <2> QED BY <2>1, <2>6, <2>7, <2>8, <2>9 DEF Closed
<1> QED BY <1>1, <1>2

\* So does closing the file, and puts it among the files.
LEMMA FileCloses ==
  ASSUME NEW lines, NEW st \in Reading(lines), NEW next, next = CloseFile(st)
  PROVE  /\ next.files \in Seq(Filed(lines)) /\ next.hunk = <<>> /\ next.file = <<>>
         /\ next.pre = st.pre
         /\ next = [files |-> next.files, file |-> <<>>, hunk |-> <<>>, pre |-> st.pre]
         /\ HunksOf(next.files) = Closed(st) \cup Range(st.hunk)
<1> DEFINE closed == CloseHunk(st)
<1>1. /\ closed \in Reading(lines) /\ closed.hunk = <<>> /\ closed.pre = st.pre
      /\ closed.files = st.files /\ Closed(closed) = Closed(st) \cup Range(st.hunk)
  BY HunkCloses
<1>2. next = [closed EXCEPT !.files = @ \o closed.file, !.file = <<>>]
  BY DEF CloseFile
<1> HIDE DEF closed
<1>3. /\ next.files = closed.files \o closed.file /\ next.file = <<>> /\ next.hunk = <<>>
      /\ next.pre = st.pre
      /\ next = [files |-> next.files, file |-> <<>>, hunk |-> <<>>, pre |-> st.pre]
  BY <1>1, <1>2 DEF Reading
<1>4. closed.files \in Seq(Filed(lines)) /\ closed.file \in Seq(Filed(lines))
  BY <1>1 DEF Reading
<1>5. next.files \in Seq(Filed(lines)) /\ Range(next.files) = Range(closed.files) \cup Range(closed.file)
  BY <1>3, <1>4, RangesAre
<1> QED BY <1>1, <1>3, <1>5 DEF Closed, HunksOf

\* A line that changes the file in reading, but not its hunks.
Refiled(lines, st, g, next) ==
    /\ st \in Reading(lines) /\ st.file # <<>>
    /\ g \in Filed(lines) /\ g.hunks = st.file[1].hunks
    /\ next = [st EXCEPT !.file = [st.file EXCEPT ![1] = g]]

LEMMA FileChanges ==
  ASSUME NEW lines, NEW st, NEW g, NEW next, Refiled(lines, st, g, next)
  PROVE  /\ next \in Reading(lines) /\ next.file # <<>> /\ next.file[1] = g
         /\ next.files = st.files /\ next.hunk = st.hunk /\ next.pre = st.pre
         /\ Closed(next) = Closed(st)
<1>0. /\ st \in Reading(lines) /\ st.file # <<>>
      /\ g \in Filed(lines) /\ g.hunks = st.file[1].hunks
      /\ next = [st EXCEPT !.file = [st.file EXCEPT ![1] = g]]
  BY DEF Refiled
<1>1. st.file = <<st.file[1]>> /\ st.file \in Seq(Filed(lines))
  BY <1>0 DEF Reading
<1>2. st.file[1] \in Filed(lines)
  BY <1>0, <1>1
<1>3. [st.file EXCEPT ![1] = g] = <<g>>
  BY <1>1
<1>4. next = [files |-> st.files, file |-> <<g>>, hunk |-> st.hunk, pre |-> st.pre]
  BY <1>0, <1>3 DEF Reading
<1>5. /\ st.files \in Seq(Filed(lines)) /\ st.hunk \in Seq(Hunked(lines)) /\ st.pre \in Seq(1..Len(lines))
      /\ st.hunk = <<>> \/ st.hunk = <<st.hunk[1]>>
  BY <1>0 DEF Reading
<1>6. <<g>> \in Seq(Filed(lines)) /\ <<g>>[1] = g /\ <<g>> # <<>>
  BY <1>0
<1>7. next \in Reading(lines)
  <2>1. next \in [files : Seq(Filed(lines)), file : Seq(Filed(lines)), hunk : Seq(Hunked(lines)),
                  pre : Seq(1..Len(lines))]
    BY ONLY <1>4, <1>5, <1>6
  <2>2. next.file = <<next.file[1]>> /\ next.file # <<>> /\ next.hunk = st.hunk
    BY <1>4, <1>6
  <2> QED BY <1>5, <2>1, <2>2 DEF Reading
<1>8. Range(next.file) = {g} /\ Range(st.file) = {st.file[1]}
  BY <1>0, <1>1, <1>2, <1>4, RangesAre
<1>9. Closed(next) = Closed(st)
  BY <1>0, <1>4, <1>8 DEF Closed, HunksOf
<1> QED BY <1>4, <1>6, <1>7, <1>9

\* What one line does to the hunks that are closed, the one that is open, and the lines
\* before the first file.
LineStep(st, i, form, next) ==
    \/ form = "git" /\ next.hunk = <<>> /\ next.pre = st.pre
       /\ Closed(next) = Closed(st) \cup Range(st.hunk)
    \/ form # "git" /\ st.file = <<>> /\ next.hunk = <<>> /\ next.pre = Append(st.pre, i)
       /\ Closed(next) = Closed(st)
    \/ form = "hunk" /\ st.file # <<>> /\ next.hunk = <<[header |-> i, body |-> <<>>]>>
       /\ next.pre = st.pre /\ Closed(next) = Closed(st) \cup Range(st.hunk)
    \/ form \in {"old", "new"} /\ st.file # <<>> /\ next.hunk = st.hunk
       /\ next.pre = st.pre /\ Closed(next) = Closed(st)
    \/ form \notin {"git", "hunk", "old", "new"} /\ st.file # <<>> /\ next.pre = st.pre
       /\ Closed(next) = Closed(st)
       /\ next.hunk = IF st.hunk = <<>> THEN <<>>
                      ELSE <<[st.hunk[1] EXCEPT !.body = Append(@, i)]>>

LEMMA LineIsRead ==
  ASSUME NEW lines, NEW st \in Reading(lines), NEW i \in 1..Len(lines),
         NEW form, form = lines[i].diff, NEW next, next = ParseLine(st, i, form)
  PROVE  /\ next \in Reading(lines)
         /\ (next.file = <<>> <=> form # "git" /\ st.file = <<>>)
         /\ LineStep(st, i, form, next)
<1> DEFINE in == [st EXCEPT !.file[1] = Flagged(@, form, i)]
<1>0. st.file \in Seq(Filed(lines)) /\ st.hunk \in Seq(Hunked(lines)) /\ st.pre \in Seq(1..Len(lines))
  BY DEF Reading
<1>1. CASE form = "git"
  <2> DEFINE closed == CloseFile(st)
  <2>1. /\ closed.files \in Seq(Filed(lines)) /\ closed.hunk = <<>> /\ closed.pre = st.pre
        /\ closed = [files |-> closed.files, file |-> <<>>, hunk |-> <<>>, pre |-> st.pre]
        /\ HunksOf(closed.files) = Closed(st) \cup Range(st.hunk)
    BY FileCloses
  <2>2. next = [closed EXCEPT !.file = <<NewFile(i)>>]
    BY <1>1 DEF ParseLine
  <2>3. NewFile(i) \in Filed(lines) /\ NewFile(i).hunks = <<>>
    <3>1. i \in Hunkless(lines)
      BY <1>1 DEF Hunkless
    <3>2. <<>> \in Seq(Hunkless(lines)) /\ <<>> \in Seq(Hunked(lines))
      OBVIOUS
    <3> QED BY <3>1, <3>2 DEF NewFile, Filed
  <2> HIDE DEF closed
  <2>4. next = [files |-> closed.files, file |-> <<NewFile(i)>>, hunk |-> <<>>, pre |-> st.pre]
    BY <2>1, <2>2
  <2>5. /\ <<NewFile(i)>> \in Seq(Filed(lines)) /\ <<NewFile(i)>>[1] = NewFile(i)
        /\ <<NewFile(i)>> # <<>> /\ <<>> \in Seq(Hunked(lines))
        /\ Range(<<NewFile(i)>>) = {NewFile(i)}
    BY <2>3, RangesAre
  <2>6. next \in Reading(lines)
    BY <1>0, <2>1, <2>4, <2>5 DEF Reading
  <2>7. HunksOf(next.file) = {}
    <3>1. Range(NewFile(i).hunks) = {}
      BY <2>3, RangesAre
    <3> QED BY <2>4, <2>5, <3>1 DEF HunksOf
  <2>8. Closed(next) = Closed(st) \cup Range(st.hunk)
    BY <2>1, <2>4, <2>7 DEF Closed
  <2> QED BY <1>1, <2>4, <2>5, <2>6, <2>8 DEF LineStep
<1>2. CASE form # "git" /\ st.file = <<>>
  <2>1. next = [st EXCEPT !.pre = Append(st.pre, i)]
    BY <1>2 DEF ParseLine
  <2>2. Append(st.pre, i) \in Seq(1..Len(lines))
    BY <1>0
  <2>3. /\ next \in Reading(lines) /\ next.pre = Append(st.pre, i) /\ next.hunk = <<>>
        /\ next.file = st.file /\ next.files = st.files
    BY <1>2, <2>1, <2>2 DEF Reading
  <2> QED BY <1>2, <2>3 DEF Closed, LineStep
<1>3. CASE form # "git" /\ st.file # <<>>
  <2> DEFINE flagged == Flagged(st.file[1], form, i)
  <2>1. st.file[1] \in Filed(lines)
    BY <1>0, <1>3 DEF Reading
  <2>2. form # "hunk" => i \in Hunkless(lines)
    BY DEF Hunkless
  <2>3. flagged \in Filed(lines) /\ flagged.hunks = st.file[1].hunks
    <3>1. CASE form = "rename"
      <4>1. Append(st.file[1].renames, i) \in Seq(Hunkless(lines))
        BY <2>1, <2>2, <3>1 DEF Filed
      <4> QED BY <2>1, <3>1, <4>1 DEF Flagged, Filed
    <3>2. CASE form # "rename"
      BY <2>1, <3>2 DEF Flagged, Filed
    <3> QED BY <3>1, <3>2
  <2>4. in = [st EXCEPT !.file = [st.file EXCEPT ![1] = flagged]]
    OBVIOUS
  <2> HIDE DEF flagged, in
  <2>5. /\ in \in Reading(lines) /\ in.file # <<>> /\ in.file[1] = flagged
        /\ in.files = st.files /\ in.hunk = st.hunk /\ in.pre = st.pre /\ Closed(in) = Closed(st)
    <3>1. Refiled(lines, st, flagged, in)
      BY <1>3, <2>3, <2>4 DEF Refiled
    <3> QED BY <3>1, FileChanges
  <2>6. CASE form = "old"
    <3> DEFINE g == [flagged EXCEPT !.old = <<i>>]
    <3>1. next = [in EXCEPT !.file = [in.file EXCEPT ![1] = g]]
      BY <1>3, <2>5, <2>6 DEF ParseLine, in
    <3>2. g \in Filed(lines) /\ g.hunks = in.file[1].hunks
      <4>1. <<i>> \in Seq(Hunkless(lines))
        BY <2>2, <2>6
      <4> QED BY <2>3, <2>5, <4>1 DEF Filed
    <3> HIDE DEF g
    <3>3. /\ next \in Reading(lines) /\ next.file # <<>> /\ next.hunk = in.hunk /\ next.pre = in.pre
          /\ Closed(next) = Closed(in)
      <4>1. Refiled(lines, in, g, next)
        BY <2>5, <3>1, <3>2 DEF Refiled
      <4> QED BY <4>1, FileChanges
    <3> QED BY <1>3, <2>5, <2>6, <3>3 DEF LineStep
  <2>7. CASE form = "new"
    <3> DEFINE g == [flagged EXCEPT !.new = <<i>>]
    <3>1. next = [in EXCEPT !.file = [in.file EXCEPT ![1] = g]]
      BY <1>3, <2>5, <2>7 DEF ParseLine, in
    <3>2. g \in Filed(lines) /\ g.hunks = in.file[1].hunks
      <4>1. <<i>> \in Seq(Hunkless(lines))
        BY <2>2, <2>7
      <4> QED BY <2>3, <2>5, <4>1 DEF Filed
    <3> HIDE DEF g
    <3>3. /\ next \in Reading(lines) /\ next.file # <<>> /\ next.hunk = in.hunk /\ next.pre = in.pre
          /\ Closed(next) = Closed(in)
      <4>1. Refiled(lines, in, g, next)
        BY <2>5, <3>1, <3>2 DEF Refiled
      <4> QED BY <4>1, FileChanges
    <3> QED BY <1>3, <2>5, <2>7, <3>3 DEF LineStep
  <2>8. CASE form = "hunk"
    <3> DEFINE closed == CloseHunk(in)
               opened == [header |-> i, body |-> <<>>]
    <3>1. /\ closed \in Reading(lines) /\ closed.hunk = <<>> /\ closed.pre = in.pre
          /\ closed.files = in.files /\ (closed.file = <<>> <=> in.file = <<>>)
          /\ Closed(closed) = Closed(in) \cup Range(in.hunk)
      BY <2>5, HunkCloses
    <3>2. next = [closed EXCEPT !.hunk = <<opened>>]
      BY <1>3, <2>8 DEF ParseLine, in
    <3>3. opened \in Hunked(lines)
      <4>1. <<>> \in Seq(Hunkless(lines))
        OBVIOUS
      <4> QED BY <2>8, <4>1 DEF Hunked
    <3> HIDE DEF closed, opened
    <3>4. <<opened>> \in Seq(Hunked(lines)) /\ <<opened>>[1] = opened
      BY <3>3
    <3>5. /\ next \in Reading(lines) /\ next.hunk = <<opened>> /\ next.pre = closed.pre
          /\ next.file = closed.file /\ next.files = closed.files
      BY <2>5, <3>1, <3>2, <3>4 DEF Reading
    <3> QED BY <1>3, <2>5, <2>8, <3>1, <3>5 DEF Closed, opened, LineStep
  <2>9. CASE form \notin {"old", "new", "hunk"}
    <3>1. CASE st.hunk = <<>>
      <4>1. next = in
        BY <1>3, <2>5, <2>9, <3>1 DEF ParseLine, in
      <4> QED BY <1>3, <2>5, <2>9, <3>1, <4>1 DEF LineStep
    <3>2. CASE st.hunk # <<>>
      <4> DEFINE longer == [st.hunk[1] EXCEPT !.body = Append(@, i)]
      <4>1. next = [in EXCEPT !.hunk = [in.hunk EXCEPT ![1] = longer]]
        BY <1>3, <2>5, <2>9, <3>2 DEF ParseLine, in
      <4>2. in.hunk = <<st.hunk[1]>>
        BY <2>5, <3>2 DEF Reading
      <4>3. longer \in Hunked(lines)
        <5>1. st.hunk[1] \in Hunked(lines)
          BY <1>0, <3>2 DEF Reading
        <5>2. Append(st.hunk[1].body, i) \in Seq(Hunkless(lines))
          BY <2>2, <2>9, <5>1 DEF Hunked
        <5> QED BY <5>1, <5>2 DEF Hunked
      <4> HIDE DEF longer
      <4>4. [in.hunk EXCEPT ![1] = longer] = <<longer>>
        BY <4>2
      <4>5. <<longer>> \in Seq(Hunked(lines)) /\ <<longer>>[1] = longer
        BY <4>3
      <4>6. /\ next \in Reading(lines) /\ next.hunk = <<longer>> /\ next.pre = in.pre
            /\ next.file = in.file /\ next.files = in.files
        BY <2>5, <4>1, <4>4, <4>5 DEF Reading
      <4> QED BY <1>3, <2>5, <2>9, <3>2, <4>6 DEF Closed, longer, LineStep
    <3> QED BY <3>1, <3>2
  <2> QED BY <2>6, <2>7, <2>8, <2>9
<1> QED BY <1>1, <1>2, <1>3

\* A hunk holds every change among the first i lines that is under its header.
Whole(lines, i, h) ==
    \A j \in 1..i : Opener(lines, j) = h.header /\ lines[j].diff \in ChangeKinds => j \in Range(h.body)
Fileless(lines, i) == \A j \in 1..i : lines[j].diff # "git"

\* Where the parser stands after i lines: no change of a hunk is lost, open or closed,
\* and what stands before the first file is kept aside.
ReadTo(lines, i, st) ==
    /\ st \in Reading(lines)
    /\ \A h \in Closed(st) : h.header < Opener(lines, i) /\ Whole(lines, i, h)
    /\ \A h \in Range(st.hunk) : h.header = Opener(lines, i) /\ Whole(lines, i, h)
    /\ (st.file = <<>> <=> Fileless(lines, i))
    /\ \A j \in Range(st.pre) : Fileless(lines, j)
    /\ \A j \in 1..i : Fileless(lines, j) => j \in Range(st.pre)

\* The headers of hunks are lines.
LEMMA HeadersAre ==
  ASSUME NEW lines, Len(lines) \in Nat, NEW st \in Reading(lines)
  PROVE  \A h \in Closed(st) \cup Range(st.hunk) : h \in Hunked(lines) /\ h.header \in 1..Len(lines)
<1>1. /\ st.files \in Seq(Filed(lines)) /\ st.file \in Seq(Filed(lines))
      /\ st.hunk \in Seq(Hunked(lines))
  BY DEF Reading
<1>2. \A f \in Range(st.files) \cup Range(st.file) : f.hunks \in Seq(Hunked(lines))
  <2>1. Range(st.files) \cup Range(st.file) \subseteq Filed(lines)
    BY <1>1, RangesAre
  <2> QED BY <2>1 DEF Filed
<1>3. \A h \in Closed(st) \cup Range(st.hunk) : h \in Hunked(lines)
  BY <1>1, <1>2, RangesAre DEF Closed, HunksOf
<1> QED BY <1>3 DEF Hunked

LEMMA ReadGoesOn ==
  ASSUME NEW lines, Len(lines) \in Nat, NEW i \in 1..Len(lines), NEW st, ReadTo(lines, i - 1, st)
  PROVE  ReadTo(lines, i, ParseLine(st, i, lines[i].diff))
<1> DEFINE form == lines[i].diff
           next == ParseLine(st, i, form)
<1> SUFFICES ReadTo(lines, i, next)
  OBVIOUS
<1>1. /\ st \in Reading(lines) /\ i \in Nat /\ i - 1 \in Nat /\ i \in 1..i /\ i \notin 1..(i - 1)
      /\ \A j \in 1..i : j = i \/ j \in 1..(i - 1)
      /\ \A j \in 1..(i - 1) : j \in 1..i
  BY DEF ReadTo
<1>2. /\ next \in Reading(lines)
      /\ (next.file = <<>> <=> form # "git" /\ st.file = <<>>)
      /\ LineStep(st, i, form, next)
  BY <1>1, LineIsRead
<1> HIDE DEF form, next
<1>3. Opener(lines, i) = IF form \in Opens THEN i ELSE Opener(lines, i - 1)
  BY <1>1, OpenersFollow DEF form
<1>4. Opener(lines, i - 1) \in 0..(i - 1) /\ Opener(lines, i) \in 0..i
  BY <1>1, OpenersAre
<1>5. /\ \A h \in Closed(st) : h.header < Opener(lines, i - 1) /\ Whole(lines, i - 1, h)
      /\ \A h \in Range(st.hunk) : h.header = Opener(lines, i - 1) /\ Whole(lines, i - 1, h)
      /\ (st.file = <<>> <=> Fileless(lines, i - 1))
      /\ \A j \in Range(st.pre) : Fileless(lines, j)
      /\ \A j \in 1..(i - 1) : Fileless(lines, j) => j \in Range(st.pre)
  BY DEF ReadTo
<1>6. \A h \in Closed(st) \cup Range(st.hunk) : h \in Hunked(lines) /\ h.header \in 1..Len(lines)
  BY <1>1, HeadersAre
<1>7. st.pre \in Seq(1..Len(lines)) /\ st.hunk \in Seq(Hunked(lines))
  BY <1>1 DEF Reading
\* A hunk under another header misses nothing by this line.
<1>8. ASSUME NEW h, Whole(lines, i - 1, h), h.header # Opener(lines, i) \/ form \notin ChangeKinds
      PROVE  Whole(lines, i, h)
  BY <1>1, <1>8 DEF Whole, form
\* The hunks that are closed after this line.
<1>9. ASSUME NEW h \in Closed(st), Closed(next) = Closed(st) \/ form \in Opens
      PROVE  h.header < Opener(lines, i) /\ Whole(lines, i, h)
  <2>1. h.header < Opener(lines, i)
    BY <1>3, <1>4, <1>5, <1>6
  <2>2. h.header # Opener(lines, i)
    BY <1>4, <1>6, <2>1
  <2> QED BY <1>5, <1>8, <2>1, <2>2
<1>10. ASSUME NEW h \in Range(st.hunk), form \in Opens
       PROVE  h.header < Opener(lines, i) /\ Whole(lines, i, h)
  <2>1. h.header < Opener(lines, i)
    BY <1>3, <1>4, <1>5, <1>6, <1>10
  <2>2. h.header # Opener(lines, i)
    BY <1>4, <1>6, <2>1
  <2> QED BY <1>5, <1>8, <2>1, <2>2
<1>11. \A h \in Closed(next) : h.header < Opener(lines, i) /\ Whole(lines, i, h)
  BY <1>2, <1>9, <1>10 DEF Opens, LineStep
<1>12. \A h \in Range(next.hunk) : h.header = Opener(lines, i) /\ Whole(lines, i, h)
  <2>1. CASE next.hunk = <<>>
    BY <2>1, RangesAre
  <2>2. CASE form = "hunk" /\ next.hunk = <<[header |-> i, body |-> <<>>]>>
    <3> DEFINE opened == [header |-> i, body |-> <<>>]
    <3>1. Range(next.hunk) = {opened}
      <4> HIDE DEF opened
      <4>1. next.hunk = <<opened>>
        BY <2>2 DEF opened
      <4> QED BY <4>1, RangesAre
    <3>2. Opener(lines, i) = i
      BY <1>3, <2>2 DEF Opens
    <3>3. \A j \in 1..(i - 1) : Opener(lines, j) # i
      BY OpenersAre
    <3>4. Whole(lines, i, opened)
      BY <1>1, <2>2, <3>3 DEF Whole, ChangeKinds, form
    <3> QED BY <3>1, <3>2, <3>4
  <2>3. CASE form \in {"old", "new"} /\ next.hunk = st.hunk
    <3>1. Opener(lines, i) = Opener(lines, i - 1) /\ form \notin ChangeKinds
      BY <1>3, <2>3 DEF Opens, ChangeKinds
    <3> QED BY <1>5, <1>8, <2>3, <3>1
  <2>4. CASE /\ form \notin {"git", "hunk", "old", "new"} /\ st.hunk # <<>>
             /\ next.hunk = <<[st.hunk[1] EXCEPT !.body = Append(@, i)]>>
    <3> DEFINE open == st.hunk[1]
               longer == [open EXCEPT !.body = Append(@, i)]
    <3>1. open \in Range(st.hunk) /\ open \in Hunked(lines)
      <4>1. st.hunk = <<open>>
        BY <1>1, <2>4 DEF Reading
      <4>2. open \in Hunked(lines)
        BY <1>7, <2>4, <4>1
      <4> HIDE DEF open
      <4>3. Range(<<open>>) = {open}
        BY <4>2, RangesAre
      <4> QED BY <4>1, <4>2, <4>3
    <3>2. Opener(lines, i) = Opener(lines, i - 1)
      BY <1>3, <2>4 DEF Opens
    <3>3. open.header = Opener(lines, i) /\ Whole(lines, i - 1, open)
      BY <1>5, <3>1, <3>2
    <3>4. i \in Hunkless(lines) /\ open.body \in Seq(Hunkless(lines))
      BY <2>4, <3>1 DEF Hunkless, Hunked, form
    <3>5. longer.header = open.header /\ Range(longer.body) = Range(open.body) \cup {i}
      <4>1. Range(Append(open.body, i)) = Range(open.body) \cup {i}
        BY <3>4, RangesAre
      <4> QED BY <3>1, <4>1 DEF Hunked
    <3>6. Range(next.hunk) = {longer}
      <4> HIDE DEF longer
      <4>1. next.hunk = <<longer>>
        BY <2>4 DEF longer
      <4> QED BY <4>1, RangesAre
    <3> HIDE DEF longer, open
    <3>7. Whole(lines, i, longer)
      BY <1>1, <3>3, <3>5 DEF Whole
    <3> QED BY <3>3, <3>5, <3>6, <3>7
  <2> QED BY <1>2, <2>1, <2>2, <2>3, <2>4 DEF LineStep
\* The lines before the first file.
<1>13. Fileless(lines, i) <=> Fileless(lines, i - 1) /\ form # "git"
  BY <1>1 DEF Fileless, form
<1>14. next.file = <<>> <=> Fileless(lines, i)
  BY <1>2, <1>5, <1>13
<1>15. CASE next.pre = st.pre /\ (form = "git" \/ st.file # <<>>)
  <2>1. ~ Fileless(lines, i)
    BY <1>5, <1>13, <1>15
  <2>2. \A j \in 1..i : Fileless(lines, j) => j \in Range(next.pre)
    BY <1>1, <1>5, <1>15, <2>1
  <2>3. next \in Reading(lines)
    BY <1>2
  <2> QED BY <1>5, <1>11, <1>12, <1>14, <1>15, <2>2, <2>3 DEF ReadTo
<1>16. CASE next.pre = Append(st.pre, i) /\ form # "git" /\ st.file = <<>>
  <2>1. Range(next.pre) = Range(st.pre) \cup {i}
    BY <1>7, <1>16, RangesAre
  <2>2. Fileless(lines, i)
    BY <1>5, <1>13, <1>16
  <2>3. \A j \in 1..i : Fileless(lines, j) => j \in Range(next.pre)
    BY <1>1, <1>5, <2>1
  <2>4. \A j \in Range(next.pre) : Fileless(lines, j)
    BY <1>5, <2>1, <2>2
  <2>5. next \in Reading(lines)
    BY <1>2
  <2> QED BY <1>11, <1>12, <1>14, <2>3, <2>4, <2>5 DEF ReadTo
<1> QED BY <1>2, <1>15, <1>16 DEF LineStep

\* The parser's states, line after line, exist.
Unread == [files |-> <<>>, file |-> <<>>, hunk |-> <<>>, pre |-> <<>>]
Parses(f, lines, n) ==
    f = [i \in 0..n |-> IF i = 0 THEN Unread ELSE ParseLine(f[i - 1], i, lines[i].diff)]

LEMMA ParseExists ==
  ASSUME NEW lines, NEW n \in Nat
  PROVE  \E f : Parses(f, lines, n)
<1> DEFINE Bad == {m \in Nat : ~ \E f : Parses(f, lines, m)}
<1>1. SUFFICES Bad = {}
  OBVIOUS
<1>2. SUFFICES ASSUME Bad # {} PROVE FALSE
  OBVIOUS
<1>3. PICK m \in Bad : \A k \in Bad : m <= k
  <2>1. Bad \in SUBSET Nat
    OBVIOUS
  <2> HIDE DEF Bad
  <2> QED BY <1>2, <2>1, Least
<1>4. CASE m = 0
  <2>1. Parses([i \in 0..0 |-> Unread], lines, 0)
    BY DEF Parses
  <2> QED BY <1>4, <2>1
<1>5. CASE m # 0
  <2>1. m \in Nat /\ m - 1 \in Nat /\ m - 1 \notin Bad
    <3>1. m \in Nat
      OBVIOUS
    <3> HIDE DEF Bad
    <3> QED BY <1>3, <1>5, <3>1
  <2>2. PICK g : Parses(g, lines, m - 1)
    BY <2>1
  <2> DEFINE f == [i \in 0..m |-> IF i < m THEN g[i] ELSE ParseLine(g[m - 1], m, lines[m].diff)]
  <2>3. \A i \in 0..(m - 1) :
           g[i] = IF i = 0 THEN Unread ELSE ParseLine(g[i - 1], i, lines[i].diff)
    BY <2>2 DEF Parses
  <2>4. ASSUME NEW i \in 0..m
        PROVE  f[i] = IF i = 0 THEN Unread ELSE ParseLine(f[i - 1], i, lines[i].diff)
    <3>1. CASE i < m
      <4>1. i \in 0..(m - 1) /\ f[i] = g[i]
        BY <2>1, <3>1
      <4>2. i # 0 => f[i - 1] = g[i - 1]
        BY <2>1, <3>1
      <4> HIDE DEF f
      <4> QED BY <2>3, <4>1, <4>2
    <3>2. CASE ~(i < m)
      <4>1. i = m
        BY <2>1, <3>2
      <4>2. f[m] = ParseLine(g[m - 1], m, lines[m].diff) /\ f[m - 1] = g[m - 1]
        BY <1>5, <2>1
      <4> HIDE DEF f
      <4> QED BY <1>5, <4>1, <4>2
    <3> QED BY <3>1, <3>2
  <2>5. f = [i \in 0..m |-> f[i]]
    OBVIOUS
  <2> HIDE DEF f
  <2>6. Parses(f, lines, m)
    BY <2>4, <2>5 DEF Parses
  <2> QED BY <2>6
<1> QED BY <1>4, <1>5

\* The parser stops where its invariant says; closing the last file leaves every hunk
\* whole.
LEMMA DiffIsRead ==
  ASSUME NEW lines, Len(lines) \in Nat, NEW parsed, parsed = ParseDiff(lines)
  PROVE  /\ parsed.files \in Seq(Filed(lines)) /\ parsed.pre \in Seq(1..Len(lines))
         /\ \A h \in HunksOf(parsed.files) : Whole(lines, Len(lines), h)
         /\ \A j \in Range(parsed.pre) : Fileless(lines, j)
         /\ \A j \in 1..Len(lines) : Fileless(lines, j) => j \in Range(parsed.pre)
<1> DEFINE n == Len(lines)
           f == CHOOSE f : f = [i \in 0..n |-> IF i = 0 THEN Unread
                                               ELSE ParseLine(f[i - 1], i, lines[i].diff)]
<1>1. parsed = CloseFile(f[n])
  BY DEF ParseDiff, Unread
<1>2. f = [i \in 0..n |-> IF i = 0 THEN Unread ELSE ParseLine(f[i - 1], i, lines[i].diff)]
  <2>1. \E g : g = [i \in 0..n |-> IF i = 0 THEN Unread ELSE ParseLine(g[i - 1], i, lines[i].diff)]
    BY ParseExists DEF Parses
  <2> QED BY <2>1
<1> HIDE DEF f
<1>3. f[0] = Unread /\ \A i \in 1..n : f[i] = ParseLine(f[i - 1], i, lines[i].diff)
  BY <1>2
<1>4. ReadTo(lines, 0, Unread)
  <2>1. Unread \in Reading(lines)
    BY DEF Unread, Reading
  <2>2. Closed(Unread) = {} /\ Range(Unread.hunk) = {} /\ Range(Unread.pre) = {} /\ Unread.file = <<>>
    BY RangesAre DEF Unread, Closed, HunksOf
  <2> QED BY <2>1, <2>2 DEF ReadTo, Fileless
<1>5. \A i \in 0..n : ReadTo(lines, i, f[i])
  <2> DEFINE Bad == {i \in 0..n : ~ReadTo(lines, i, f[i])}
  <2> SUFFICES ASSUME Bad # {} PROVE FALSE
    OBVIOUS
  <2>1. Bad \in SUBSET Nat
    OBVIOUS
  <2>2. PICK i \in Bad : \A k \in Bad : i <= k
    <3> HIDE DEF Bad
    <3> QED BY <2>1, Least
  <2>3. i # 0 /\ i \in 1..n
    BY <1>3, <1>4
  <2>4. i - 1 \in 0..n /\ i - 1 \notin Bad
    <3> HIDE DEF Bad
    <3> QED BY <2>2, <2>3
  <2>5. ReadTo(lines, i - 1, f[i - 1])
    BY <2>4
  <2>6. ReadTo(lines, i, f[i])
    BY <1>3, <2>3, <2>5, ReadGoesOn
  <2> QED BY <2>6
<1> DEFINE st == f[n]
<1>6. ReadTo(lines, n, st)
  BY <1>5
<1> HIDE DEF st
<1>7. parsed = CloseFile(st)
  BY <1>1 DEF st
<1>8. st \in Reading(lines)
  BY <1>6 DEF ReadTo
<1>9. /\ parsed.files \in Seq(Filed(lines)) /\ parsed.pre = st.pre
      /\ HunksOf(parsed.files) = Closed(st) \cup Range(st.hunk)
  BY <1>7, <1>8, FileCloses
<1>10. st.pre \in Seq(1..Len(lines))
  BY <1>8 DEF Reading
<1> QED BY <1>6, <1>9, <1>10 DEF ReadTo

-----------------------------------------------------------------------------
\* Which hunks are kept, and what of them.

\* The elements of s at some of its indices.
LEMMA PickIs ==
  ASSUME NEW S, NEW s \in Seq(S), NEW I \in SUBSET (1..Len(s))
  PROVE  Pick(s, I) \in Seq(S) /\ Range(Pick(s, I)) = {s[p] : p \in I}
<1> DEFINE k == Cardinality(I)
           place == [i \in I |-> 1 + Cardinality({j \in I : j < i})]
           o == [p \in 1..Cardinality(I) |-> CHOOSE i \in I : place[i] = p]
<1>1. IsFiniteSet(I) /\ I \in SUBSET Int
  <2>1. IsFiniteSet(1..Len(s))
    BY FS_Interval
  <2>2. IsFiniteSet(I)
    BY <2>1, FS_Subset
  <2> QED BY <2>2
<1>2. InOwnOrder(o, place, I)
  BY <1>1 DEF InOwnOrder
<1>3. Ordered(I, <) = o
  BY DEF Ordered
<1> HIDE DEF o, place
<1>4. k \in Nat /\ o \in [1..k -> I] /\ \A i \in I : \E p \in 1..k : o[p] = i
  BY <1>2, OrderedUp
<1>5. Pick(s, I) = [p \in 1..k |-> s[o[p]]]
  BY <1>3 DEF Pick
<1> HIDE DEF k
<1>6. Pick(s, I) \in [1..k -> S]
  <2>1. \A i \in I : s[i] \in S
    OBVIOUS
  <2>2. \A p \in 1..k : o[p] \in I
    BY <1>4
  <2> QED BY <1>5, <2>1, <2>2
<1>7. Pick(s, I) \in Seq(S) /\ Len(Pick(s, I)) = k
  BY <1>4, <1>6
<1>8. ASSUME NEW x PROVE x \in Range(Pick(s, I)) <=> \E i \in I : x = s[i]
  <2>1. x \in Range(Pick(s, I)) <=> \E p \in 1..k : s[o[p]] = x
    BY <1>5 DEF Range
  <2> QED BY <1>4, <2>1
<1> QED BY <1>7, <1>8

\* Reducing a hunk keeps its header and every change, and adds nothing.
LEMMA ChangesAreKept ==
  ASSUME NEW lines, NEW h \in Hunked(lines), NEW r, r = ReduceContext(lines, h)
  PROVE  /\ r \in Hunked(lines) /\ r.header = h.header
         /\ \A i \in Range(h.body) : lines[i].diff \in ChangeKinds => i \in Range(r.body)
<1> DEFINE body == h.body
           changes == {p \in 1..Len(body) : lines[body[p]].diff \in ChangeKinds}
           near == (1..Len(body)) \cap
                       UNION {(p - DiffConfig.max_context_lines)..(p + DiffConfig.max_context_lines) :
                                  p \in changes}
           marks == {p \in 1..Len(body) : lines[body[p]].diff = "slash"}
           start == Smaller(DiffConfig.max_context_lines, Len(body))
           kept == IF changes = {} THEN SubSeq(body, 1, start) ELSE Pick(body, near \cup marks)
<1>1. body \in Seq(Hunkless(lines)) /\ Len(body) \in Nat
  BY DEF Hunked
<1>2. r = [h EXCEPT !.body = kept]
  BY DEF ReduceContext
<1>3. DiffConfig.max_context_lines \in Nat
  BY DiffAssumption
<1>4. \A p \in changes : p \in near
  <2> TAKE p \in changes
  <2>1. p \in 1..Len(body) /\ p \in Nat
    BY <1>1
  <2>2. p \in (p - DiffConfig.max_context_lines)..(p + DiffConfig.max_context_lines)
    BY <1>3, <2>1
  <2> QED BY <2>1, <2>2
<1>5. near \cup marks \in SUBSET (1..Len(body)) /\ changes \in SUBSET (1..Len(body))
  OBVIOUS
<1>6. \A i \in Range(body) : lines[i].diff \in ChangeKinds => \E p \in changes : body[p] = i
  BY <1>1, RangesAre
<1>7. start \in 0..Len(body)
  BY <1>1, <1>3 DEF Smaller
<1> HIDE DEF near, marks, changes, start
<1>8. /\ kept \in Seq(Hunkless(lines))
      /\ \A p \in changes : body[p] \in Range(kept)
  <2>1. CASE changes = {}
    <3>1. SubSeq(body, 1, start) \in Seq(Hunkless(lines))
      BY <1>1, <1>7
    <3> QED BY <2>1, <3>1
  <2>2. CASE changes # {}
    <3>1. /\ Pick(body, near \cup marks) \in Seq(Hunkless(lines))
          /\ Range(Pick(body, near \cup marks)) = {body[p] : p \in near \cup marks}
      BY <1>1, <1>5, PickIs
    <3> QED BY <1>4, <2>2, <3>1
  <2> QED BY <2>1, <2>2
<1> HIDE DEF kept
<1>9. r \in Hunked(lines) /\ r.header = h.header /\ r.body = kept
  BY <1>2, <1>8 DEF Hunked
<1> QED BY <1>6, <1>8, <1>9

\* How many lines of a kind a hunk has, and a file.
LEMMA CountsAre ==
  ASSUME NEW lines, NEW h \in Hunked(lines), NEW form
  PROVE  CountIn(lines, h, form) \in Nat
<1> DEFINE C == {p \in 1..Len(h.body) : lines[h.body[p]].diff = form}
<1>1. Len(h.body) \in Nat
  BY DEF Hunked
<1>2. IsFiniteSet(1..Len(h.body)) /\ C \subseteq 1..Len(h.body)
  BY <1>1, FS_Interval
<1> HIDE DEF C
<1>3. Cardinality(C) \in Nat
  BY <1>2, FS_Subset, FS_CardinalityType
<1> QED BY <1>3 DEF CountIn, C

LEMMA TotalsAre ==
  ASSUME NEW lines, NEW file \in Filed(lines), NEW form
  PROVE  TotalOf(lines, file, form) \in Nat
<1> DEFINE S == 1..Len(file.hunks)
           w == [h \in S |-> CountIn(lines, file.hunks[h], form)]
           sum == CHOOSE f : f = [s \in SUBSET S |-> IF s = {} THEN 0
                     ELSE CountIn(lines, file.hunks[First(s)], form) + f[s \ {First(s)}]]
<1>1. file.hunks \in Seq(Hunked(lines)) /\ Len(file.hunks) \in Nat
  BY DEF Filed
<1>2. TotalOf(lines, file, form) = sum[S]
  BY DEF TotalOf, MapThenSumSet, MapThenFoldSet, First
<1>3. IsFiniteSet(S)
  BY <1>1, FS_Interval
<1>4. \A h \in S : w[h] \in Nat
  BY <1>1, CountsAre
<1>5. PICK g : SumsUp(g, w, S)
  <2> HIDE DEF w, S
  <2> QED BY <1>3, SumExists
<1>6. \A s \in SUBSET S : s # {} => First(s) \in s
  BY FirstIn
<1>7. g = [s \in SUBSET S |-> IF s = {} THEN 0
                              ELSE CountIn(lines, file.hunks[First(s)], form) + g[s \ {First(s)}]]
  <2>1. \A s \in SUBSET S : s # {} => w[First(s)] = CountIn(lines, file.hunks[First(s)], form)
    BY <1>6
  <2> HIDE DEF w, S
  <2> QED BY <1>5, <2>1 DEF SumsUp
<1>8. sum = [s \in SUBSET S |-> IF s = {} THEN 0
                              ELSE CountIn(lines, file.hunks[First(s)], form) + sum[s \ {First(s)}]]
  <2> HIDE DEF S
  <2> QED BY <1>7
<1>9. SumsUp(sum, w, S)
  <2>1. \A s \in SUBSET S : s # {} => w[First(s)] = CountIn(lines, file.hunks[First(s)], form)
    BY <1>6
  <2> HIDE DEF sum, w, S
  <2> QED BY <1>8, <2>1 DEF SumsUp
<1> HIDE DEF sum, w, S
<1>10. sum[S] \in Nat
  BY <1>3, <1>4, <1>9, SumIsNat
<1> QED BY <1>2, <1>10

\* What is selected are hunks of the file.
LEMMA HunksAreSelected ==
  ASSUME NEW lines, Len(lines) \in Nat, \A i \in 1..Len(lines) : lines[i].from \in Nat,
         NEW hunks \in Seq(Hunked(lines)), NEW selected, selected = SelectHunks(lines, hunks)
  PROVE  selected \in Seq(Hunked(lines)) /\ Range(selected) \subseteq Range(hunks)
<1> DEFINE n == Len(hunks)
           score == [h \in 1..n |-> HunkScore(lines, hunks[h])]
           Ahead(a, b) == score[a] > score[b] \/ (score[a] = score[b] /\ a < b)
           middle == FirstOf(2..(n - 1), Larger(0, DiffConfig.max_hunks_per_file - 2), Ahead)
           best == Ordered(middle, Ahead)
           chosen == <<1>> \o best \o <<n>>
           From(a) == lines[hunks[chosen[a]].header].from
           order == Ordered(1..Len(chosen),
                              LAMBDA a, b : From(a) < From(b) \/ (From(a) = From(b) /\ a < b))
<1>1. selected = IF n <= DiffConfig.max_hunks_per_file THEN hunks
                 ELSE [p \in 1..Len(chosen) |-> hunks[chosen[order[p]]]]
  BY DEF SelectHunks
<1>2. CASE n <= DiffConfig.max_hunks_per_file
  BY <1>1, <1>2
<1>3. CASE ~(n <= DiffConfig.max_hunks_per_file)
  <2>1. n \in Nat /\ n >= 1 /\ \A h \in 1..n : hunks[h] \in Hunked(lines)
    BY <1>3, DiffAssumption
  <2>2. \A h \in 1..n : score[h] \in Int
    <3> TAKE h \in 1..n
    <3>1. CountIn(lines, hunks[h], "add") \in Nat /\ CountIn(lines, hunks[h], "del") \in Nat
      BY <2>1, CountsAre
    <3> QED BY <3>1 DEF HunkScore, Smaller
  <2>3. middle \subseteq 2..(n - 1)
    BY DEF FirstOf
  <2>4. IsFiniteSet(middle) /\ middle \in SUBSET Int /\ middle \subseteq 1..n
    <3> HIDE DEF middle
    <3>1. IsFiniteSet(2..(n - 1))
      BY <2>1, FS_Interval
    <3>2. IsFiniteSet(middle)
      BY <2>3, <3>1, FS_Subset
    <3> QED BY <2>1, <2>3, <3>2
  <2>5. Cardinality(middle) \in Nat /\ best \in [1..Cardinality(middle) -> middle]
    <3> DEFINE place == [i \in middle |-> 1 + Cardinality({j \in middle : Ahead(j, i)})]
    <3>1. best = [p \in 1..Cardinality(middle) |-> CHOOSE i \in middle : place[i] = p]
      BY DEF Ordered
    <3>2. \A i \in middle : place[i] = 1 + Cardinality(
             {j \in middle : score[j] > score[i] \/ (score[j] = score[i] /\ j < i)})
      OBVIOUS
    <3> HIDE DEF place, best, middle, score
    <3>3. InKeyOrder(best, place, score, middle)
      BY <2>2, <2>4, <3>1, <3>2 DEF InKeyOrder
    <3> QED BY <3>3, OrderedByKey
  <2> HIDE DEF middle, best, score
  <2>6. best \in Seq(1..n)
    <3>1. best \in [1..Cardinality(middle) -> 1..n]
      BY <2>4, <2>5
    <3> QED BY <2>5, <3>1
  <2>7. <<1>> \in Seq(1..n) /\ <<n>> \in Seq(1..n)
    BY <2>1
  <2>8. chosen \in Seq(1..n) /\ Len(chosen) \in Nat
    BY <2>6, <2>7
  <2> DEFINE m == Len(chosen)
             key == [a \in 1..m |-> 0 - From(a)]
             place == [i \in 1..m |-> 1 + Cardinality(
                          {j \in 1..m : From(j) < From(i) \/ (From(j) = From(i) /\ j < i)})]
  <2>9. \A a \in 1..m : From(a) \in Nat
    <3> TAKE a \in 1..m
    <3>1. chosen[a] \in 1..n
      BY <2>8
    <3> HIDE DEF chosen
    <3>2. hunks[chosen[a]].header \in 1..Len(lines)
      BY <2>1, <3>1 DEF Hunked
    <3> QED BY <3>2
  <2>10. order = [p \in 1..Cardinality(1..m) |-> CHOOSE i \in 1..m : place[i] = p]
    BY DEF Ordered
  <2>11. \A i \in 1..m : {j \in 1..m : From(j) < From(i) \/ (From(j) = From(i) /\ j < i)}
                           = {j \in 1..m : key[j] > key[i] \/ (key[j] = key[i] /\ j < i)}
    <3> HIDE DEF From
    <3> QED BY <2>9
  <2>12. /\ \A i \in 1..m : place[i] = 1 + Cardinality(
                {j \in 1..m : key[j] > key[i] \/ (key[j] = key[i] /\ j < i)})
         /\ \A i \in 1..m : key[i] \in Int
    <3> HIDE DEF From, m
    <3>1. \A i \in 1..m : key[i] \in Int
      BY <2>9
    <3>2. \A i \in 1..m : place[i] = 1 + Cardinality(
             {j \in 1..m : From(j) < From(i) \/ (From(j) = From(i) /\ j < i)})
      OBVIOUS
    <3> HIDE DEF place, key
    <3> QED BY <2>11, <3>1, <3>2
  <2>13. m \in Nat /\ IsFiniteSet(1..m) /\ Cardinality(1..m) = m
    <3>1. m \in Nat
      BY <2>8
    <3> HIDE DEF m
    <3> QED BY ONLY <3>1, FS_Interval
  <2> HIDE DEF place, key, order, From, chosen
  <2>14. order \in [1..m -> 1..m]
    <3> HIDE DEF m
    <3>1. InKeyOrder(order, place, key, 1..m)
      BY <2>10, <2>12, <2>13 DEF InKeyOrder
    <3> QED BY <2>13, <3>1, OrderedByKey
  <2>15. \A p \in 1..m : chosen[order[p]] \in 1..n
    <3>1. \A p \in 1..m : order[p] \in 1..m
      BY <2>14
    <3> QED BY <2>8, <3>1
  <2>16. selected \in [1..m -> Hunked(lines)] /\ \A p \in 1..m : \E h \in 1..n : selected[p] = hunks[h]
    BY <1>1, <1>3, <2>1, <2>15
  <2>17. selected \in Seq(Hunked(lines)) /\ Len(selected) = m
    BY <2>13, <2>16
  <2> QED BY <2>1, <2>16, <2>17 DEF Range
<1> QED BY <1>2, <1>3

\* What is kept are files of the diff.
LEMMA FilesAreKept ==
  ASSUME NEW lines, NEW files \in Seq(Filed(lines)), NEW kept, kept = KeptFiles(lines, files)
  PROVE  kept \in Seq(Filed(lines)) /\ Range(kept) \subseteq Range(files)
<1> DEFINE n == Len(files)
           max == DiffConfig.max_files
           Changes(f) == TotalOf(lines, files[f], "add") + TotalOf(lines, files[f], "del")
           order == Ordered(1..n,
                     LAMBDA a, b : Changes(a) > Changes(b) \/ (Changes(a) = Changes(b) /\ a < b))
           key == [f \in 1..n |-> Changes(f)]
           place == [i \in 1..n |-> 1 + Cardinality(
                        {j \in 1..n : Changes(j) > Changes(i) \/ (Changes(j) = Changes(i) /\ j < i)})]
<1>1. kept = IF n <= max THEN files ELSE [p \in 1..max |-> files[order[p]]]
  BY DEF KeptFiles
<1>2. n \in Nat /\ max \in Nat /\ \A f \in 1..n : files[f] \in Filed(lines)
  BY DiffAssumption
<1>3. \A f \in 1..n : Changes(f) \in Int
  <2> TAKE f \in 1..n
  <2>1. TotalOf(lines, files[f], "add") \in Nat /\ TotalOf(lines, files[f], "del") \in Nat
    BY <1>2, TotalsAre
  <2> QED BY <2>1
<1>4. order = [p \in 1..Cardinality(1..n) |-> CHOOSE i \in 1..n : place[i] = p]
  BY DEF Ordered
<1>5. IsFiniteSet(1..n) /\ Cardinality(1..n) = n
  <2>1. n \in Nat
    BY <1>2
  <2> HIDE DEF n
  <2> QED BY ONLY <2>1, FS_Interval
<1>6. /\ \A i \in 1..n : place[i] = 1 + Cardinality(
            {j \in 1..n : key[j] > key[i] \/ (key[j] = key[i] /\ j < i)})
      /\ \A i \in 1..n : key[i] \in Int
  <2> HIDE DEF Changes
  <2>1. \A i \in 1..n : {j \in 1..n : Changes(j) > Changes(i) \/ (Changes(j) = Changes(i) /\ j < i)}
                          = {j \in 1..n : key[j] > key[i] \/ (key[j] = key[i] /\ j < i)}
    OBVIOUS
  <2> QED BY <1>3, <2>1
<1> HIDE DEF place, key, order, n, max
<1>7. order \in [1..n -> 1..n]
  <2>1. InKeyOrder(order, place, key, 1..n)
    BY <1>2, <1>4, <1>5, <1>6 DEF InKeyOrder
  <2> QED BY <1>5, <2>1, OrderedByKey
<1>8. CASE n <= max
  BY <1>1, <1>8
<1>9. CASE ~(n <= max)
  <2>1. \A p \in 1..max : order[p] \in 1..n
    BY <1>2, <1>7, <1>9
  <2>2. kept \in [1..max -> Filed(lines)] /\ \A p \in 1..max : \E f \in 1..n : kept[p] = files[f]
    BY <1>1, <1>2, <1>9, <2>1
  <2>3. kept \in Seq(Filed(lines)) /\ Len(kept) = max
    BY <1>2, <2>2
  <2> QED BY <1>2, <2>2, <2>3 DEF Range, n
<1> QED BY <1>8, <1>9

-----------------------------------------------------------------------------
\* What is written.

Wording == {"", "new file mode 100644", "deleted file mode 100644", "Binary files differ"}
Entry == [line : Nat, text : Wording]
Printed(body) == {e.line : e \in Range(body)}

\* Joining sequences joins what they consist of.
LEMMA FlatIs ==
  ASSUME NEW S, NEW seqs \in Seq(Seq(S))
  PROVE  /\ FlattenSeq(seqs) \in Seq(S)
         /\ Range(FlattenSeq(seqs)) = UNION {Range(seqs[k]) : k \in 1..Len(seqs)}
<1> DEFINE n == Len(seqs)
           flat == CHOOSE f : f = [i \in 1..n |-> IF i = 1 THEN seqs[i] ELSE f[i - 1] \o seqs[i]]
<1>1. n \in Nat /\ \A k \in 1..n : seqs[k] \in Seq(S)
  OBVIOUS
<1>2. CASE n = 0
  <2>1. FlattenSeq(seqs) = <<>>
    BY <1>2 DEF FlattenSeq
  <2> QED BY <1>2, <2>1, RangesAre
<1>3. CASE n # 0
  <2> DEFINE Upto(m) == UNION {Range(seqs[k]) : k \in 1..m}
             Is(f, m) == f = [i \in 1..m |-> IF i = 1 THEN seqs[i] ELSE f[i - 1] \o seqs[i]]
             Bad == {m \in 1..n : ~ \E f : Is(f, m)}
  <2>1. FlattenSeq(seqs) = flat[n]
    BY <1>3 DEF FlattenSeq
  <2>2. Upto(1) = Range(seqs[1])
    OBVIOUS
  <2>3. \A m \in 2..n : Upto(m) = Upto(m - 1) \cup Range(seqs[m])
    <3> TAKE m \in 2..n
    <3>1. \A k : k \in 1..m <=> k \in 1..(m - 1) \/ k = m
      BY <1>1
    <3> QED BY <3>1
  <2> HIDE DEF Upto
  <2>4. Bad = {}
    <3> SUFFICES ASSUME Bad # {} PROVE FALSE
      OBVIOUS
    <3>1. Bad \in SUBSET Nat
      <4> HIDE DEF Is, n
      <4> QED BY <1>1
    <3>2. PICK m \in Bad : \A k \in Bad : m <= k
      <4> HIDE DEF Bad
      <4> QED BY <3>1, Least
    <3>3. m \in 1..n /\ n \in Nat
      BY <1>1
    <3>4. CASE m = 1
      <4>1. Is([i \in 1..1 |-> seqs[i]], 1)
        OBVIOUS
      <4> QED BY <3>4, <4>1
    <3>5. CASE m # 1
      <4>1. m \in 2..n /\ m - 1 \in 1..n /\ m - 1 \in Nat
        BY <3>3, <3>5
      <4>2. m - 1 \notin Bad
        <5> HIDE DEF Bad
        <5> QED BY <3>2, <3>3, <4>1
      <4>3. PICK g : Is(g, m - 1)
        BY <4>1, <4>2
      <4> DEFINE f == [i \in 1..m |-> IF i < m THEN g[i] ELSE g[m - 1] \o seqs[m]]
      <4>4. \A i \in 1..(m - 1) : g[i] = IF i = 1 THEN seqs[i] ELSE g[i - 1] \o seqs[i]
        BY <4>3
      <4>5. f[m] = g[m - 1] \o seqs[m] /\ \A i \in 1..(m - 1) : f[i] = g[i]
        <5> HIDE DEF n
        <5>1. m \in Nat /\ m \in 1..m /\ ~(m < m)
          BY <4>1
        <5>2. \A i \in 1..(m - 1) : i \in 1..m /\ i < m
          BY <5>1
        <5> QED BY <5>1, <5>2
      <4>6. f = [i \in 1..m |-> f[i]]
        OBVIOUS
      <4> HIDE DEF f
      <4>7. \A i \in 1..m : i = m \/ i \in 1..(m - 1)
        BY <3>3
      <4>8. \A i \in 1..m : f[i] = IF i = 1 THEN seqs[i] ELSE f[i - 1] \o seqs[i]
        <5> TAKE i \in 1..m
        <5>1. CASE i = m
          <6>1. m - 1 \in 1..(m - 1)
            BY <4>1
          <6> QED BY <3>5, <4>5, <5>1, <6>1
        <5>2. CASE i \in 1..(m - 1)
          <6>1. i # 1 => i - 1 \in 1..(m - 1)
            BY <4>1, <5>2
          <6> QED BY <4>4, <4>5, <5>2, <6>1
        <5> QED BY <4>7, <5>1, <5>2
      <4>9. Is(f, m)
        BY <4>6, <4>8
      <4> QED BY <4>9
    <3> QED BY <3>4, <3>5
  <2>5. n \in 1..n /\ n \notin Bad
    <3>1. n \in 1..n
      BY <1>1, <1>3
    <3> HIDE DEF Bad
    <3> QED BY <2>4, <3>1
  <2>6. PICK g : Is(g, n)
    BY <2>5
  <2>7. flat = [i \in 1..n |-> IF i = 1 THEN seqs[i] ELSE flat[i - 1] \o seqs[i]]
    <3>1. \E f : f = [i \in 1..n |-> IF i = 1 THEN seqs[i] ELSE f[i - 1] \o seqs[i]]
      BY <2>6
    <3> QED BY <3>1
  <2> HIDE DEF flat
  <2>8. \A i \in 1..n : flat[i] = IF i = 1 THEN seqs[i] ELSE flat[i - 1] \o seqs[i]
    BY <2>7
  <2>9. \A i \in 1..n : flat[i] \in Seq(S) /\ Range(flat[i]) = Upto(i)
    <3> DEFINE Worse == {i \in 1..n : ~(flat[i] \in Seq(S) /\ Range(flat[i]) = Upto(i))}
    <3> SUFFICES ASSUME Worse # {} PROVE FALSE
      OBVIOUS
    <3>1. Worse \in SUBSET Nat
      OBVIOUS
    <3>2. PICK i \in Worse : \A k \in Worse : i <= k
      <4> HIDE DEF Worse
      <4> QED BY <3>1, Least
    <3>3. i \in 1..n
      OBVIOUS
    <3>4. i # 1
      BY <1>1, <2>2, <2>8, <3>3
    <3>5. i - 1 \in 1..n /\ i \in 2..n
      BY <1>1, <3>3, <3>4
    <3>6. i - 1 \notin Worse
      <4> HIDE DEF Worse
      <4> QED BY <3>2, <3>3
    <3> HIDE DEF Upto
    <3>7. flat[i - 1] \in Seq(S) /\ Range(flat[i - 1]) = Upto(i - 1) /\ seqs[i] \in Seq(S)
      BY <1>1, <3>3, <3>5, <3>6
    <3>8. /\ flat[i - 1] \o seqs[i] \in Seq(S)
          /\ Range(flat[i - 1] \o seqs[i]) = Upto(i - 1) \cup Range(seqs[i])
      BY <3>7, RangesAre
    <3>9. flat[i] = flat[i - 1] \o seqs[i] /\ Upto(i) = Upto(i - 1) \cup Range(seqs[i])
      BY <2>3, <2>8, <3>3, <3>4, <3>5
    <3> QED BY <3>8, <3>9
  <2> QED BY <2>1, <2>5, <2>9 DEF Upto
<1> QED BY <1>2, <1>3

LEMMA LineIs ==
  ASSUME NEW i \in Nat
  PROVE  Line(i) \in Entry /\ Line(i).line = i
  BY DEF Line, Entry, Wording

\* Lines quoted by their number.
LEMMA QuotesAre ==
  ASSUME NEW s \in Seq(Nat)
  PROVE  Quoted(s) \in Seq(Entry) /\ Printed(Quoted(s)) = Range(s)
<1>1. Len(s) \in Nat /\ \A p \in 1..Len(s) : Line(s[p]) \in Entry /\ Line(s[p]).line = s[p]
  <2>1. \A p \in 1..Len(s) : s[p] \in Nat
    OBVIOUS
  <2> QED BY <2>1, LineIs
<1>2. Quoted(s) \in [1..Len(s) -> Entry] /\ \A p \in 1..Len(s) : Quoted(s)[p] = Line(s[p])
  BY <1>1 DEF Quoted
<1>3. Quoted(s) \in Seq(Entry) /\ Len(Quoted(s)) = Len(s)
  BY <1>1, <1>2
<1>4. Range(Quoted(s)) = {Line(s[p]) : p \in 1..Len(s)}
  BY <1>2 DEF Range
<1>5. Range(s) = {s[p] : p \in 1..Len(s)}
  BY DEF Range
<1>6. Printed(Quoted(s)) = {Line(s[p]).line : p \in 1..Len(s)}
  BY <1>4 DEF Printed
<1> QED BY <1>1, <1>3, <1>5, <1>6

\* What joined sequences print, and a line on its own.
LEMMA PrintsAre ==
  /\ \A s, t \in Seq(Entry) : s \o t \in Seq(Entry) /\ Printed(s \o t) = Printed(s) \cup Printed(t)
  /\ \A i \in Nat : <<Line(i)>> \in Seq(Entry) /\ Printed(<<Line(i)>>) = {i}
  /\ \A text \in Wording : Written(text) \in Seq(Entry) /\ Printed(Written(text)) = {0}
  /\ <<>> \in Seq(Entry) /\ Printed(<<>>) = {}
<1>1. \A s, t \in Seq(Entry) : s \o t \in Seq(Entry) /\ Printed(s \o t) = Printed(s) \cup Printed(t)
  <2> TAKE s, t \in Seq(Entry)
  <2>1. s \o t \in Seq(Entry) /\ Range(s \o t) = Range(s) \cup Range(t)
    BY RangesAre
  <2> QED BY <2>1 DEF Printed
<1>2. \A e \in Entry : <<e>> \in Seq(Entry) /\ Printed(<<e>>) = {e.line}
  <2> TAKE e \in Entry
  <2>1. <<e>> \in Seq(Entry) /\ Range(<<e>>) = {e}
    BY RangesAre
  <2> QED BY <2>1 DEF Printed
<1>3. \A i \in Nat : Line(i) \in Entry /\ Line(i).line = i
  BY LineIs
<1>4. \A text \in Wording : Written(text) \in Seq(Entry) /\ Printed(Written(text)) = {0}
  <2> TAKE text \in Wording
  <2> DEFINE e == [line |-> 0, text |-> text]
  <2>1. e \in Entry /\ e.line = 0
    BY DEF Entry
  <2>2. Written(text) = <<e>>
    BY DEF Written
  <2> HIDE DEF e
  <2> QED BY <1>2, <2>1, <2>2
<1>5. <<>> \in Seq(Entry) /\ Printed(<<>>) = {}
  <2>1. <<>> \in Seq(Entry) /\ Range(<<>>) = {}
    BY RangesAre
  <2> QED BY <2>1 DEF Printed
<1> QED BY <1>1, <1>2, <1>3, <1>4, <1>5

Joins(u, s, t) == s \in Seq(Entry) /\ t \in Seq(Entry) /\ u = s \o t

LEMMA JoinedPrint ==
  ASSUME NEW u, NEW s, NEW t, Joins(u, s, t)
  PROVE  u \in Seq(Entry) /\ Printed(u) = Printed(s) \cup Printed(t)
  BY PrintsAre DEF Joins

\* A hunk prints its header and its body, hunks print what each of them prints.
PrintedHunk(h) == {h.header} \cup Range(h.body)

LEMMA HunksArePrinted ==
  ASSUME NEW lines, NEW hunks \in Seq(Hunked(lines))
  PROVE  /\ FormatHunks(hunks) \in Seq(Entry)
         /\ Printed(FormatHunks(hunks)) = UNION {PrintedHunk(h) : h \in Range(hunks)}
<1> DEFINE n == Len(hunks)
           seqs == [h \in 1..n |-> <<Line(hunks[h].header)>> \o Quoted(hunks[h].body)]
<1>1. ASSUME NEW k \in 1..n
      PROVE  /\ seqs[k] \in Seq(Entry)
             /\ Printed(seqs[k]) = PrintedHunk(hunks[k])
  <2>1. hunks[k] \in Hunked(lines)
    OBVIOUS
  <2>2. hunks[k].header \in Nat /\ hunks[k].body \in Seq(Nat)
    <3>1. hunks[k].header \in 1..Len(lines) /\ hunks[k].body \in Seq(Hunkless(lines))
      BY <2>1 DEF Hunked
    <3>2. Hunkless(lines) \subseteq Nat
      BY DEF Hunkless
    <3> QED BY <3>1, <3>2
  <2>3. /\ <<Line(hunks[k].header)>> \in Seq(Entry)
        /\ Printed(<<Line(hunks[k].header)>>) = {hunks[k].header}
    BY <2>2, PrintsAre
  <2>4. Quoted(hunks[k].body) \in Seq(Entry) /\ Printed(Quoted(hunks[k].body)) = Range(hunks[k].body)
    BY <2>2, QuotesAre
  <2>5. seqs[k] = <<Line(hunks[k].header)>> \o Quoted(hunks[k].body)
    OBVIOUS
  <2> HIDE DEF seqs
  <2>6. seqs[k] \in Seq(Entry) /\ Printed(seqs[k]) = {hunks[k].header} \cup Range(hunks[k].body)
    <3>1. Joins(seqs[k], <<Line(hunks[k].header)>>, Quoted(hunks[k].body))
      BY <2>3, <2>4, <2>5 DEF Joins
    <3> QED BY <2>3, <2>4, <3>1, JoinedPrint
  <2> QED BY <2>6 DEF PrintedHunk
<1>2. FormatHunks(hunks) = FlattenSeq(seqs)
  BY DEF FormatHunks
<1>3. seqs = [k \in 1..n |-> seqs[k]] /\ n \in Nat
  OBVIOUS
<1> HIDE DEF seqs
<1>4. seqs \in Seq(Seq(Entry)) /\ Len(seqs) = n
  <2>1. seqs \in [1..n -> Seq(Entry)]
    BY <1>1, <1>3
  <2> HIDE DEF n
  <2> QED BY <1>3, <2>1
<1>5. /\ FormatHunks(hunks) \in Seq(Entry)
      /\ Range(FormatHunks(hunks)) = UNION {Range(seqs[k]) : k \in 1..n}
  BY <1>2, <1>4, FlatIs
<1>6. ASSUME NEW x
      PROVE  x \in Printed(FormatHunks(hunks)) <=> \E k \in 1..n : x \in Printed(seqs[k])
  BY <1>5 DEF Printed
<1>7. ASSUME NEW x
      PROVE  x \in Printed(FormatHunks(hunks)) <=> \E h \in Range(hunks) : x \in PrintedHunk(h)
  <2>1. \A h : h \in Range(hunks) <=> \E k \in 1..n : h = hunks[k]
    BY RangesAre
  <2> QED BY <1>1, <1>6, <2>1
<1> QED BY <1>5, <1>7

\* What a file prints: no line that opens a hunk but those of its hunks, and those whole.
LEMMA FilesArePrinted ==
  ASSUME NEW lines, NEW file \in Filed(lines)
  PROVE  /\ FormatFile(file) \in Seq(Entry)
         /\ \A x \in Printed(FormatFile(file)) :
               x # 0 /\ lines[x].diff = "hunk" =>
                   \E h \in Range(file.hunks) : h.header = x /\ PrintedHunk(h) \subseteq Printed(FormatFile(file))
<1> DEFINE mode == IF file.is_new_file THEN Written("new file mode 100644")
                   ELSE IF file.is_deleted_file THEN Written("deleted file mode 100644") ELSE <<>>
           rest == IF file.is_binary THEN Written("Binary files differ")
                   ELSE Quoted(file.old) \o Quoted(file.new) \o FormatHunks(file.hunks)
           top == <<Line(file.header)>> \o Quoted(file.renames)
<1>1. FormatFile(file) = top \o mode \o rest
  BY DEF FormatFile
<1>2. /\ file.header \in Hunkless(lines) /\ file.old \in Seq(Hunkless(lines))
      /\ file.new \in Seq(Hunkless(lines)) /\ file.renames \in Seq(Hunkless(lines))
      /\ file.hunks \in Seq(Hunked(lines))
  BY DEF Filed
<1>3. Hunkless(lines) \subseteq Nat /\ \A x \in Hunkless(lines) : lines[x].diff # "hunk"
  BY DEF Hunkless
<1>4. \A s \in Seq(Hunkless(lines)) :
         Quoted(s) \in Seq(Entry) /\ Printed(Quoted(s)) \subseteq Hunkless(lines)
  <2> TAKE s \in Seq(Hunkless(lines))
  <2>1. s \in Seq(Nat) /\ Range(s) \subseteq Hunkless(lines)
    BY <1>3, RangesAre
  <2> QED BY <2>1, QuotesAre
<1>5. top \in Seq(Entry) /\ Printed(top) \subseteq Hunkless(lines)
  <2>1. <<Line(file.header)>> \in Seq(Entry) /\ Printed(<<Line(file.header)>>) = {file.header}
    BY <1>2, <1>3, PrintsAre
  <2>2. Quoted(file.renames) \in Seq(Entry) /\ Printed(Quoted(file.renames)) \subseteq Hunkless(lines)
    BY <1>2, <1>4
  <2>3. top \in Seq(Entry) /\ Printed(top) = {file.header} \cup Printed(Quoted(file.renames))
    <3>1. Joins(top, <<Line(file.header)>>, Quoted(file.renames))
      BY <2>1, <2>2 DEF Joins
    <3> HIDE DEF top
    <3> QED BY <2>1, <3>1, JoinedPrint
  <2> QED BY <1>2, <2>2, <2>3
<1>6. mode \in Seq(Entry) /\ Printed(mode) \subseteq {0}
  <2>1. /\ Written("new file mode 100644") \in Seq(Entry)
        /\ Printed(Written("new file mode 100644")) = {0}
    BY PrintsAre DEF Wording
  <2>2. /\ Written("deleted file mode 100644") \in Seq(Entry)
        /\ Printed(Written("deleted file mode 100644")) = {0}
    BY PrintsAre DEF Wording
  <2>3. <<>> \in Seq(Entry) /\ Printed(<<>>) = {}
    BY PrintsAre
  <2> QED BY <2>1, <2>2, <2>3
<1>7. /\ FormatHunks(file.hunks) \in Seq(Entry)
      /\ Printed(FormatHunks(file.hunks)) = UNION {PrintedHunk(h) : h \in Range(file.hunks)}
  BY <1>2, HunksArePrinted
<1>8. rest \in Seq(Entry) /\ \/ Printed(rest) \subseteq {0}
                             \/ \E old \in SUBSET Hunkless(lines) :
                                   Printed(rest) = old \cup Printed(FormatHunks(file.hunks))
  <2>1. CASE file.is_binary
    <3>1. /\ Written("Binary files differ") \in Seq(Entry)
          /\ Printed(Written("Binary files differ")) = {0}
      BY PrintsAre DEF Wording
    <3> QED BY <2>1, <3>1
  <2>2. CASE ~ file.is_binary
    <3> DEFINE sides == Quoted(file.old) \o Quoted(file.new)
    <3>1. sides \in Seq(Entry) /\ Printed(sides) \subseteq Hunkless(lines)
      <4>1. /\ Quoted(file.old) \in Seq(Entry) /\ Printed(Quoted(file.old)) \subseteq Hunkless(lines)
            /\ Quoted(file.new) \in Seq(Entry) /\ Printed(Quoted(file.new)) \subseteq Hunkless(lines)
        BY <1>2, <1>4
      <4>2. sides \in Seq(Entry) /\ Printed(sides) = Printed(Quoted(file.old)) \cup Printed(Quoted(file.new))
        <5>1. Joins(sides, Quoted(file.old), Quoted(file.new))
          BY <4>1 DEF Joins
        <5> HIDE DEF sides
        <5> QED BY <5>1, JoinedPrint
      <4> QED BY <4>1, <4>2
    <3>2. rest = sides \o FormatHunks(file.hunks)
      BY <2>2
    <3> HIDE DEF sides, rest
    <3>3. rest \in Seq(Entry) /\ Printed(rest) = Printed(sides) \cup Printed(FormatHunks(file.hunks))
      <4>1. Joins(rest, sides, FormatHunks(file.hunks))
        BY <1>7, <3>1, <3>2 DEF Joins
      <4> QED BY <4>1, JoinedPrint
    <3> QED BY <3>1, <3>3
  <2> QED BY <2>1, <2>2
<1> HIDE DEF top, mode, rest
<1>9. /\ FormatFile(file) \in Seq(Entry)
      /\ Printed(FormatFile(file)) = Printed(top) \cup Printed(mode) \cup Printed(rest)
  <2>1. top \o mode \in Seq(Entry) /\ Printed(top \o mode) = Printed(top) \cup Printed(mode)
    <3>1. Joins(top \o mode, top, mode)
      BY <1>5, <1>6 DEF Joins
    <3> QED BY <3>1, JoinedPrint
  <2>2. Joins(FormatFile(file), top \o mode, rest)
    BY <1>1, <1>8, <2>1 DEF Joins
  <2> QED BY <2>1, <2>2, JoinedPrint
<1>10. ASSUME NEW x \in Printed(FormatFile(file)), x # 0, lines[x].diff = "hunk"
       PROVE  \E h \in Range(file.hunks) :
                 h.header = x /\ PrintedHunk(h) \subseteq Printed(FormatFile(file))
  <2>1. x \notin Hunkless(lines)
    BY <1>3, <1>10
  <2>2. x \in Printed(rest) /\ ~(Printed(rest) \subseteq {0})
    BY <1>5, <1>6, <1>9, <1>10, <2>1
  <2>3. x \in Printed(FormatHunks(file.hunks)) /\ Printed(FormatHunks(file.hunks)) \subseteq Printed(rest)
    BY <1>8, <2>1, <2>2
  <2>4. PICK h \in Range(file.hunks) : x \in PrintedHunk(h)
    BY <1>7, <2>3
  <2>5. PrintedHunk(h) \subseteq Printed(FormatFile(file))
    BY <1>7, <1>9, <2>3
  <2>6. h \in Hunked(lines)
    BY <1>2, RangesAre
  <2>7. Range(h.body) \subseteq Hunkless(lines)
    <3>1. h.body \in Seq(Hunkless(lines))
      BY <2>6 DEF Hunked
    <3> QED BY <3>1, RangesAre
  <2>8. h.header = x
    BY <2>1, <2>4, <2>7 DEF PrintedHunk
  <2> QED BY <2>5, <2>8
<1> QED BY <1>9, <1>10

\* Files of the diff, reduced: each hunk of theirs is one of the diff's, with its changes.
LEMMA FilesAreReduced ==
  ASSUME NEW lines, Len(lines) \in Nat, \A i \in 1..Len(lines) : lines[i].from \in Nat,
         NEW file \in Filed(lines), NEW reduced, reduced = ReducedFile(lines, file)
  PROVE  /\ reduced \in Filed(lines)
         /\ \A r \in Range(reduced.hunks) : \E h \in Range(file.hunks) :
               /\ r.header = h.header
               /\ \A i \in Range(h.body) : lines[i].diff \in ChangeKinds => i \in Range(r.body)
<1> DEFINE selected == SelectHunks(lines, file.hunks)
           n == Len(selected)
           hunks == [h \in 1..n |-> ReduceContext(lines, selected[h])]
<1>1. file.hunks \in Seq(Hunked(lines))
  BY DEF Filed
<1>2. selected \in Seq(Hunked(lines)) /\ Range(selected) \subseteq Range(file.hunks)
  BY <1>1, HunksAreSelected
<1>3. reduced = [file EXCEPT !.hunks = hunks]
  BY DEF ReducedFile
<1> HIDE DEF selected
<1>4. n \in Nat /\ \A k \in 1..n : selected[k] \in Hunked(lines) /\ selected[k] \in Range(file.hunks)
  <2>1. n \in Nat /\ \A k \in 1..n : selected[k] \in Hunked(lines)
    BY <1>2
  <2>2. \A k \in 1..n : selected[k] \in Range(selected)
    BY <1>2, RangesAre
  <2> QED BY <1>2, <2>1, <2>2
<1>5. ASSUME NEW k \in 1..n
      PROVE  /\ hunks[k] \in Hunked(lines) /\ hunks[k].header = selected[k].header
             /\ \A i \in Range(selected[k].body) :
                   lines[i].diff \in ChangeKinds => i \in Range(hunks[k].body)
  <2>1. hunks[k] = ReduceContext(lines, selected[k])
    OBVIOUS
  <2> HIDE DEF hunks
  <2> QED BY <1>4, <2>1, ChangesAreKept
<1>6. hunks \in Seq(Hunked(lines)) /\ \A r \in Range(hunks) : \E k \in 1..n : r = hunks[k]
  <2>1. hunks = [k \in 1..n |-> hunks[k]]
    OBVIOUS
  <2> HIDE DEF hunks, n
  <2>2. hunks \in [1..n -> Hunked(lines)]
    BY <1>5, <2>1
  <2>3. hunks \in Seq(Hunked(lines)) /\ Len(hunks) = n
    BY <1>4, <2>2
  <2> QED BY <2>3, RangesAre
<1> HIDE DEF hunks, n
<1>7. reduced \in Filed(lines) /\ reduced.hunks = hunks
  BY <1>3, <1>6 DEF Filed
<1> QED BY <1>4, <1>5, <1>6, <1>7

\* A line that is printed as the header of a hunk takes its changes with it.
LEMMA ChangesArePrinted ==
  ASSUME NEW lines, Len(lines) \in Nat, \A i \in 1..Len(lines) : lines[i].from \in Nat
  PROVE  /\ CompressDiff(lines).body \in Seq(Entry)
         /\ \A x \in Printed(CompressDiff(lines).body) \ {0}, i \in 1..Len(lines) :
               lines[x].diff = "hunk" /\ Opener(lines, i) = x /\ lines[i].diff \in ChangeKinds
                  => i \in Printed(CompressDiff(lines).body)
<1> DEFINE parsed == ParseDiff(lines)
           kept == KeptFiles(lines, parsed.files)
           files == [f \in 1..Len(kept) |-> ReducedFile(lines, kept[f])]
           n == Len(kept)
           seqs == [f \in 1..n |-> FormatFile(files[f])]
           body == Quoted(parsed.pre) \o FlattenSeq(seqs)
           whole == [p \in 1..Len(lines) |-> Line(p)]
<1>1. CompressDiff(lines).body \in {body, whole}
  <2>1. Len(files) = n
    OBVIOUS
  <2> QED BY <2>1 DEF CompressDiff
<1>2. CASE CompressDiff(lines).body = whole
  <2>1. \A p \in 1..Len(lines) : Line(p) \in Entry /\ Line(p).line = p
    BY LineIs
  <2>2. whole \in [1..Len(lines) -> Entry]
    BY <2>1
  <2>3. whole \in Seq(Entry)
    BY <2>2
  <2>4. \A i \in 1..Len(lines) : whole[i] \in Range(whole) /\ whole[i].line = i
    BY <2>1 DEF Range
  <2> HIDE DEF whole
  <2> QED BY <1>2, <2>3, <2>4 DEF Printed
<1>3. CASE CompressDiff(lines).body = body
  <2>1. /\ parsed.files \in Seq(Filed(lines)) /\ parsed.pre \in Seq(1..Len(lines))
        /\ \A h \in HunksOf(parsed.files) : Whole(lines, Len(lines), h)
        /\ \A j \in Range(parsed.pre) : Fileless(lines, j)
        /\ \A j \in 1..Len(lines) : Fileless(lines, j) => j \in Range(parsed.pre)
    BY DiffIsRead
  <2> HIDE DEF parsed
  <2>2. kept \in Seq(Filed(lines)) /\ Range(kept) \subseteq Range(parsed.files)
    BY <2>1, FilesAreKept
  <2> HIDE DEF kept
  <2>3. n \in Nat /\ \A f \in 1..n : kept[f] \in Filed(lines) /\ kept[f] \in Range(kept)
    BY <2>2, RangesAre
  <2>4. ASSUME NEW f \in 1..n
        PROVE  /\ files[f] \in Filed(lines)
               /\ \A r \in Range(files[f].hunks) : \E h \in Range(kept[f].hunks) :
                     /\ r.header = h.header
                     /\ \A j \in Range(h.body) : lines[j].diff \in ChangeKinds => j \in Range(r.body)
    <3>1. files[f] = ReducedFile(lines, kept[f])
      OBVIOUS
    <3> HIDE DEF files, n
    <3> QED BY <2>3, <3>1, FilesAreReduced
  <2> HIDE DEF files
  <2>5. ASSUME NEW f \in 1..n
        PROVE  /\ seqs[f] \in Seq(Entry)
               /\ \A y \in Printed(seqs[f]) :
                     y # 0 /\ lines[y].diff = "hunk" =>
                         \E h \in Range(files[f].hunks) :
                            h.header = y /\ PrintedHunk(h) \subseteq Printed(seqs[f])
    <3>1. seqs[f] = FormatFile(files[f])
      OBVIOUS
    <3> HIDE DEF seqs, n
    <3> QED BY <2>4, <3>1, FilesArePrinted
  <2>6. seqs \in Seq(Seq(Entry)) /\ Len(seqs) = n
    <3>1. seqs = [f \in 1..n |-> seqs[f]]
      OBVIOUS
    <3> HIDE DEF seqs, n
    <3>2. seqs \in [1..n -> Seq(Entry)]
      BY <2>5, <3>1
    <3> QED BY <2>3, <3>2
  <2> HIDE DEF seqs
  <2>7. /\ FlattenSeq(seqs) \in Seq(Entry)
        /\ Range(FlattenSeq(seqs)) = UNION {Range(seqs[f]) : f \in 1..n}
    <3> HIDE DEF n
    <3> QED BY <2>6, FlatIs
  <2>8. Quoted(parsed.pre) \in Seq(Entry) /\ Printed(Quoted(parsed.pre)) = Range(parsed.pre)
    <3>1. parsed.pre \in Seq(Nat)
      BY <2>1
    <3> QED BY <3>1, QuotesAre
  <2>9. body \in Seq(Entry) /\ Printed(body) = Range(parsed.pre) \cup Printed(FlattenSeq(seqs))
    <3>1. Joins(body, Quoted(parsed.pre), FlattenSeq(seqs))
      BY <2>7, <2>8 DEF Joins
    <3> HIDE DEF body
    <3> QED BY <2>8, <3>1, JoinedPrint
  <2> HIDE DEF body
  <2>10. \A y : y \in Printed(FlattenSeq(seqs)) <=> \E f \in 1..n : y \in Printed(seqs[f])
    BY <2>7 DEF Printed
  <2> SUFFICES ASSUME NEW x \in Printed(body) \ {0}, NEW i \in 1..Len(lines), lines[x].diff = "hunk",
                      Opener(lines, i) = x, lines[i].diff \in ChangeKinds
               PROVE  i \in Printed(body)
    BY <1>3, <2>9
  <2>11. CASE x \in Range(parsed.pre)
    <3>1. Fileless(lines, x) /\ x \in 1..Len(lines)
      BY <2>1, <2>11, RangesAre
    <3>2. \A o \in 1..i : lines[o].diff \in Opens => o <= x
      BY OpenersAre
    <3>3. Fileless(lines, i)
      BY <3>1, <3>2 DEF Fileless, Opens
    <3> QED BY <2>1, <2>9, <3>3
  <2>12. CASE x \in Printed(FlattenSeq(seqs))
    <3>1. PICK f \in 1..n : x \in Printed(seqs[f])
      BY <2>10, <2>12
    <3>2. PICK r \in Range(files[f].hunks) : r.header = x /\ PrintedHunk(r) \subseteq Printed(seqs[f])
      BY <2>5, <3>1
    <3>3. PICK h \in Range(kept[f].hunks) :
             /\ r.header = h.header
             /\ \A j \in Range(h.body) : lines[j].diff \in ChangeKinds => j \in Range(r.body)
      BY <2>4, <3>2
    <3>4. h \in HunksOf(parsed.files)
      BY <2>2, <2>3, <3>3 DEF HunksOf
    <3>5. i \in Range(h.body)
      BY <2>1, <3>2, <3>3, <3>4 DEF Whole
    <3>6. i \in Range(r.body)
      BY <3>3, <3>5
    <3> QED BY <2>9, <2>10, <3>2, <3>6 DEF PrintedHunk
  <2> QED BY <2>9, <2>11, <2>12
<1> HIDE DEF body, whole
<1> QED BY <1>1, <1>2, <1>3

\* However long a diff is, whichever files and hunks select_hunks leaves and however
\* little context reduce_context keeps: a hunk that is shown is shown with its changes.
THEOREM ShownHunksHold == Spec => []ShownHunksKeepTheirChanges
<1>1. Answered => ShownHunksKeepTheirChanges
  <2> SUFFICES ASSUME Answered, Routed({"GitDiff"}), NEW i \in 1..Len(output.lines),
                      output.lines[i].diff \in ChangeKinds, OpenedBy(i) \in Shown,
                      output.lines[OpenedBy(i)].diff = "hunk"
               PROVE  i \in Shown
    BY DEF ShownHunksKeepTheirChanges
  <2> DEFINE lines == output.lines
  <2>1. Len(lines) \in Nat /\ \A j \in 1..Len(lines) : lines[j].from \in Nat
    BY LinesAre
  <2>2. result[1] = CompressDiff(lines)
    BY DEF Answered
  <2>3. Opener(lines, i) = OpenedBy(i)
    BY DEF Opener, OpenedBy
  <2> HIDE DEF lines
  <2>4. /\ CompressDiff(lines).body \in Seq(Entry)
        /\ \A x \in Printed(CompressDiff(lines).body) \ {0}, j \in 1..Len(lines) :
              lines[x].diff = "hunk" /\ Opener(lines, j) = x /\ lines[j].diff \in ChangeKinds
                 => j \in Printed(CompressDiff(lines).body)
    BY <2>1, ChangesArePrinted
  <2>5. Shown = Printed(CompressDiff(lines).body) \ {0}
    <3>1. \A e : e \in Range(CompressDiff(lines).body)
                    <=> \E p \in 1..Len(CompressDiff(lines).body) : CompressDiff(lines).body[p] = e
      BY <2>4, RangesAre
    <3> QED BY <2>2, <3>1 DEF Shown, Printed
  <2> QED BY <2>1, <2>3, <2>4, <2>5 DEF lines
<1> QED BY <1>1, AnsweredHolds, PTL
=============================================================================
