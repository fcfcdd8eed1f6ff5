---------------------------- MODULE TextCrusher ----------------------------
(***************************************************************************)
(* The extractive engine for plain text, search results and source code    *)
(* (src/src/engines/compression/text_crusher/crusher.rs). A line is one    *)
(* segment; it carries its size, its share of salient words in quarters    *)
(* and the set of its shingles.                                            *)
(***************************************************************************)
EXTENDS OutputLines

CONSTANT TextConfig     \* TextCrusherConfig; the ratio and the threshold in hundredths

ASSUME TextAssumption ==
    TextConfig \in [target_ratio : Nat, min_segment_chars : Nat, near_dup_threshold : Nat,
                    min_segments_for_crush : Nat]

\* split_segments: the lines that are not blank.
Segments(lines) == {i \in 1..Len(lines) : ~lines[i].blank}

SizeOf(lines, I) == MapThenSumSet(LAMBDA i : lines[i].size, I)

\* The score of a segment, times 8 n: its place, the 0.5 of an empty query, its
\* salient words, and a quarter of all that when it is short.
SegmentScore(lines, rank, n, i) ==
    (8 * rank + 8 * n + 3 * n * lines[i].salience)
    * (IF lines[i].size < TextConfig.min_segment_chars THEN 1 ELSE 4)

\* Mutant of NearDuplicate: one shingle in common is enough.
SharesAShingle(lines, i, seen) == lines[i].shingles \cap seen # {}

NearDuplicate(lines, i, seen) ==
    /\ lines[i].shingles # {}
    /\ 100 * Cardinality(lines[i].shingles \cap seen)
         >= TextConfig.near_dup_threshold * Cardinality(lines[i].shingles)

\* compress: best score first, until half the text is kept.
CrushText(lines) ==
    LET segments == Segments(lines)
        n == Cardinality(segments)
        rank == [i \in segments |-> Cardinality({j \in segments : j <= i})]
        score == [i \in segments |-> SegmentScore(lines, rank[i], n, i)]
        order == Ordered(segments,
                     LAMBDA a, b : score[a] > score[b] \/ (score[a] = score[b] /\ a < b))
        target == Larger(1, (SizeOf(lines, segments) * TextConfig.target_ratio) \div 100)
        seen(kept) == UNION {lines[i].shingles : i \in kept}
        Take(kept, i) == IF SizeOf(lines, kept) >= target \/ NearDuplicate(lines, i, seen(kept))
                         THEN kept ELSE kept \cup {i}
    IN  IF n < TextConfig.min_segments_for_crush THEN 1..Len(lines)
        ELSE FoldLeft(Take, {}, order)
=============================================================================
