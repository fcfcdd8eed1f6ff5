---------------------------- MODULE SmartCrusher ----------------------------
(***************************************************************************)
(* The JSON array engine (src/src/engines/compression/smart_crusher) as    *)
(* route_and_compress configures it: the default configuration, no query,  *)
(* the bias 0.0. An item is a record: its JSON type, whether it holds an   *)
(* error keyword, whether its number or length is an outlier, its fields,  *)
(* its status and its message. Equal records are equal items. Positions    *)
(* are counted from 0, as in the code. Compaction is attempted first; a    *)
(* table keeps every row, and whether it saves enough is left open.        *)
(***************************************************************************)
EXTENDS OutputLines

CONSTANT CrusherConfig  \* SmartCrusherConfig; min_kept is the sizer's min_k

ASSUME CrusherAssumption ==
    CrusherConfig \in [min_kept : Nat, max_items_after_crush : Nat, min_items_to_analyze : Nat,
                       first_percent : Nat, last_percent : Nat]

Positions(items) == 0..(Len(items) - 1)
At(items, i) == items[i + 1]

\* classify_array.
ArrayType(items) ==
    LET types == {At(items, i).type : i \in Positions(items)}
    IN  CASE types = {} -> "Empty" [] types = {"dict"} -> "DictArray"
          [] types = {"str"} -> "StringArray" [] types = {"number"} -> "NumberArray"
          [] types = {"bool"} -> "BoolArray" [] types = {"list"} -> "NestedArray"
          [] OTHER -> "MixedArray"

ErrorItems(items) == {i \in Positions(items) : At(items, i).type = "dict" /\ At(items, i).error}
Anomalies(items) == {i \in Positions(items) : At(items, i).anomaly}

\* detect_rare_status_values: a value outside the ones that make up four fifths.
RareStatus(items) ==
    LET statuses == {At(items, i).status : i \in Positions(items)}
        Count(s) == Cardinality({i \in Positions(items) : At(items, i).status = s})
        Ahead(s, t) == Count(s) > Count(t) \/ (Count(s) = Count(t) /\ s < t)
        before(s) == Cardinality({i \in Positions(items) : Ahead(At(items, i).status, s)})
        common == {s \in statuses : 10 * before(s) < 8 * Len(items)}
    IN  IF Cardinality(statuses) \notin 2..50 \/ Cardinality(common) > 5 THEN {}
        ELSE {i \in Positions(items) : At(items, i).status \notin common}

\* detect_structural_outliers: a field fewer than a fifth of the items have.
Outliers(items) ==
    LET Rare(f) == 10 * Cardinality({i \in Positions(items) : f \in At(items, i).fields})
                     < 2 * Len(items)
    IN  IF Len(items) < 5 THEN {}
        ELSE {i \in Positions(items) : \E f \in At(items, i).fields : Rare(f)}
                 \cup RareStatus(items)

MustKeep(items) == ErrorItems(items) \cup Outliers(items)

-----------------------------------------------------------------------------
\* select_anchors. One item is taken at step of a region's slots.
AnchorBudget(n, max_items) == Smaller(n, Smaller(12, Larger(3, max_items \div 4)))

\* select_region, not by density: the slots of a region, evenly spaced.
RegionSlots(first, beyond, slots) ==
    IF slots >= beyond - first THEN first..(beyond - 1)
    ELSE {Smaller(beyond - 1, first + (k * (beyond - first)) \div (slots + 1)) : k \in 1..slots}

\* Front and back weights in percent: Distributed, or BackHeavy for a cluster.
FrontSlots(budget, strategy) ==
    Larger(1, (budget * (IF strategy = "ClusterSample" THEN 15 ELSE 50)) \div 100)
BackSlots(budget, strategy) ==
    Larger(1, (budget * (IF strategy = "ClusterSample" THEN 75 ELSE 40)) \div 100)

\* The anchors of an array with more items than may stay: one choice for each
\* middle candidate the information score may prefer.
AnchorSets(items, max_items, strategy) ==
    LET n == Len(items)
        budget == AnchorBudget(n, max_items)
        front == FrontSlots(budget, strategy)
        back == BackSlots(budget, strategy)
        middle == Larger(0, budget - front - back)
        ends == RegionSlots(0, Smaller(2 * front, n \div 3), front)
                    \cup RegionSlots(Larger(n - 2 * back, (2 * n) \div 3), n, back)
        candidates == RegionSlots(front, n - back, 3 * middle)
    IN  IF middle = 0 THEN {ends}
        ELSE {ends \cup chosen : chosen \in {c \in SUBSET candidates : Cardinality(c) <= middle}}

-----------------------------------------------------------------------------
\* prioritize_indices and its two steps.
Deduplicated(items, keep) == {i \in keep : ~\E j \in keep : j < i /\ At(items, j) = At(items, i)}

\* fill_remaining_slots: the others, one in step, then the ones between.
Filled(items, keep, max) ==
    LET others == Ordered(Positions(items) \ keep, <)
        remaining == max - Cardinality(keep)
        step == Larger(1, Len(others) \div (remaining + 1))
        visits == Ordered(1..Len(others), LAMBDA a, b :
                      \/ (a - 1) % step < (b - 1) % step
                      \/ (a - 1) % step = (b - 1) % step /\ a < b)
        Take(kept, v) ==
            LET i == others[v]
            IN  IF Cardinality(kept) >= max \/ \E j \in kept : At(items, j) = At(items, i)
                THEN kept ELSE kept \cup {i}
    IN  FoldLeft(Take, keep, visits)

Signals(items) == MustKeep(items) \cup Anomalies(items)

\* Mutant of Prioritize: the ends come before the signals.
PrioritizeEnds(items, keep, max) ==
    FirstOf((0..2) \cup ((Len(items) - 2)..(Len(items) - 1)) \cup keep, max, <)

\* Over the budget: the signals, the first three, the last two, then the others.
Prioritize(items, keep, max) ==
    LET n == Len(items)
        unique == Deduplicated(items, keep)
        current == IF Cardinality(unique) < Smaller(max, n) THEN Filled(items, unique, max)
                   ELSE unique
        Take(kept, tier) == kept \cup FirstOf(tier \ kept, max - Cardinality(kept), <)
    IN  IF Cardinality(current) <= max THEN current
        ELSE FoldLeft(Take, {}, <<Signals(items), 0..2, (n - 2)..(n - 1), current>>)

\* plan_smart_sample, plan_cluster_sample and plan_top_n.
FirstTwoOfEach(items) ==
    {i \in Positions(items) :
        Cardinality({j \in Positions(items) :
            j < i /\ At(items, j).message = At(items, i).message}) < 2}

SmartSample(items, max) ==
    {Prioritize(items, anchors \cup MustKeep(items) \cup Anomalies(items), max) :
        anchors \in AnchorSets(items, max, "SmartSample")}
ClusterSample(items, max) ==
    {Prioritize(items, anchors \cup MustKeep(items) \cup FirstTwoOfEach(items), max) :
        anchors \in AnchorSets(items, max, "ClusterSample")}

\* The three slots it leaves are for the query's matches: there is no query.
TopN(items, max) ==
    {MustKeep(items) \cup best :
        best \in {b \in SUBSET Positions(items) : Cardinality(b) = Larger(0, max - 3)}}

\* analyze_crushability and select_strategy: an array without any signal may be
\* left alone; the rest depends on figures the model does not have.
Strategies(items) ==
    {"SmartSample", "ClusterSample", "TopN"} \cup (IF Signals(items) = {} THEN {"Skip"} ELSE {})

Planned(items, max, strategy) ==
    CASE strategy = "Skip" -> {Positions(items)}
      [] strategy = "SmartSample" -> SmartSample(items, max)
      [] strategy = "ClusterSample" -> ClusterSample(items, max)
      [] strategy = "TopN" -> TopN(items, max)

\* The pager: which rows the reader is told he may ask for, under which key.
Pager(items, kept) ==
    IF Cardinality(kept) = Len(items) THEN <<>>
    ELSE <<[hash |-> items, total |-> Len(items),
            valid_indices |-> Cardinality(kept)..(Len(items) - 1)]>>

\* crush_array.
CrushArray(items) ==
    LET max == Smaller(CrusherConfig.min_kept, CrusherConfig.max_items_after_crush)
        whole == [kept |-> Positions(items), pager |-> <<>>]
    IN  IF Len(items) <= SmallInput THEN {whole}
        ELSE {whole} \cup {[kept |-> kept, pager |-> Pager(items, kept)] :
                 kept \in UNION {Planned(items, max, s) : s \in Strategies(items)}}

-----------------------------------------------------------------------------
\* compute_k_split: how many of n go to the front and to the back.
RoundTiesEven(n, percent) ==
    LET twice == (2 * n * percent) \div 100
    IN  IF (2 * n * percent) % 100 = 0 /\ twice % 4 = 1 THEN twice \div 2 ELSE (twice + 1) \div 2
KTotal(n) == IF n <= SmallInput THEN n
             ELSE Smaller(CrusherConfig.min_kept, CrusherConfig.max_items_after_crush)
KFirst(n) == Smaller(KTotal(n), Larger(1, RoundTiesEven(KTotal(n), CrusherConfig.first_percent)))
KLast(n) == Smaller(KTotal(n) - KFirst(n),
                    Larger(1, RoundTiesEven(KTotal(n), CrusherConfig.last_percent)))

\* The rest of the budget, one in stride, up to cap.
Strided(items, keep, k, cap, Fresh(_, _)) ==
    LET n == Len(items)
        budget == Larger(0, k - Cardinality(keep))
        stride == Larger(1, (n - 1) \div (budget + 1))
        visits == Ordered({i \in Positions(items) : i % stride = 0}, <)
        Take(kept, i) == IF Cardinality(kept) >= cap \/ i \in kept \/ ~Fresh(kept, i)
                         THEN kept ELSE kept \cup {i}
    IN  IF budget = 0 THEN keep ELSE FoldLeft(Take, keep, visits)

EndsOf(items) == {i \in Positions(items) : i < KFirst(Len(items))
                                             \/ i >= Len(items) - KLast(Len(items))}

\* crush_string_array: errors and odd lengths come on top of the budget.
CrushStrings(items) ==
    LET errors == {i \in Positions(items) : At(items, i).error}
        keep == errors \cup Anomalies(items) \cup EndsOf(items)
        k == KTotal(Len(items))
        Fresh(kept, i) == ~\E j \in kept : At(items, j) = At(items, i)
    IN  IF Len(items) <= SmallInput THEN Positions(items)
        ELSE Strided(items, keep, k, k + Cardinality(errors) + Cardinality(Anomalies(items)), Fresh)

\* crush_number_array: up to ten numbers there is no window for a change point.
CrushNumbers(items) ==
    LET k == KTotal(Len(items))
    IN  IF Len(items) <= SmallInput THEN Positions(items)
        ELSE Strided(items, Anomalies(items) \cup EndsOf(items), k,
                     k + Cardinality(Anomalies(items)), LAMBDA kept, i : TRUE)

\* crush_mixed_array: each type by its own rule; a dict stays when an equal one does.
CrushMixed(items) ==
    LET Group(t) == {i \in Positions(items) : At(items, i).type = t}
        order(t) == Ordered(Group(t), <)
        group(t) == [p \in 1..Cardinality(Group(t)) |-> At(items, order(t)[p])]
        equal(t, kept) == {i \in Group(t) : \E j \in kept : At(items, i) = At(group(t), j)}
        numbers == {order("number")[p + 1] : p \in EndsOf(group("number")) \cup Anomalies(group("number"))}
        Kept(t, kept) == IF Cardinality(Group(t)) < CrusherConfig.min_items_to_analyze
                         THEN Group(t) ELSE kept
        others == {i \in Positions(items) : At(items, i).type \notin {"dict", "str", "number"}}
    IN  IF Len(items) <= SmallInput THEN {Positions(items)}
        ELSE {others \cup Kept("number", numbers)
                     \cup Kept("str", equal("str", CrushStrings(group("str"))))
                     \cup Kept("dict", equal("dict", result.kept)) :
                 result \in CrushArray(group("dict"))}

\* process_value on the array that is the whole output. An array of no other
\* type is descended into, and only its nested values may change.
CrushJson(items) ==
    LET type == ArrayType(items)
        Bare(kept) == [kept |-> kept, pager |-> <<>>]
    IN  CASE Len(items) >= CrusherConfig.min_items_to_analyze /\ type = "DictArray" ->
                 CrushArray(items)
          [] Len(items) >= CrusherConfig.min_items_to_analyze /\ type = "StringArray" ->
                 {Bare(CrushStrings(items))}
          [] Len(items) >= CrusherConfig.min_items_to_analyze /\ type = "NumberArray" ->
                 {Bare(CrushNumbers(items))}
          [] Len(items) >= CrusherConfig.min_items_to_analyze /\ type = "MixedArray" ->
                 {Bare(kept) : kept \in CrushMixed(items)}
          [] OTHER -> {Bare(Positions(items))}
=============================================================================
