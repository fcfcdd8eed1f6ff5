----------------------- MODULE CompressionProperties -----------------------
(***************************************************************************)
(* What the engines promise of the outputs they are handed: each property  *)
(* is stated on the output and on what is kept of it, not on how the       *)
(* engine chose.                                                           *)
(***************************************************************************)
EXTENDS OutputRouter

Routed(kinds) == kind \in kinds /\ result # <<>>
KeptOf == result[1].kept
Items == output.json[1]

\* log_compressor.rs:120 (keep_first_error): whatever the sizer answers and however
\* many lines compete for the budget, the first line that reports an error or a
\* failure is handed on; only warnings in a trace that are summaries too, which
\* score as much, can take its place, and then from before it.
FirstFailureIsKept ==
    LET failures == {i \in 1..Len(output.lines) : output.lines[i].level \in {"Error", "Fail"}}
        rivals == {i \in Traced(output.lines) : output.lines[i].level = "Warn"
                                                /\ output.lines[i].summary}
    IN  Routed({"BuildOutput"}) /\ failures # {} =>
            \/ Min(failures) \in KeptOf
            \/ /\ KeptOf # {} /\ KeptOf \subseteq rivals
               /\ \A i \in KeptOf : i < Min(failures)

Errors == {i \in Positions(Items) : At(Items, i).error}

\* planning.rs, prioritize_indices, and crushers.rs, crush_string_array and
\* crush_number_array: the budget never costs a row with an error or of a rare shape
\* its place while an ordinary row has one, and strings that report an error and
\* outliers among strings and numbers all stay. (A row whose number is an outlier has
\* that promise from plan_smart_sample alone: the other plans collect it only when
\* they are over the budget.)
SignalsAreKeptFirst ==
    /\ Routed({"JsonArray"}) /\ ArrayType(Items) = "DictArray"
         => \/ KeptOf \subseteq Signals(Items)
            \/ \A i \in MustKeep(Items) : \E j \in KeptOf : At(Items, j) = At(Items, i)
    /\ Routed({"JsonArray"}) /\ ArrayType(Items) = "StringArray"
         => Errors \cup Anomalies(Items) \subseteq KeptOf
    /\ Routed({"JsonArray"}) /\ ArrayType(Items) = "NumberArray"
         => Anomalies(Items) \subseteq KeptOf

\* crusher.rs:436-462: when rows of an array are dropped, the reader is given a key
\* under which the store holds every one of them.
DroppedRowsAreStored ==
    Routed({"JsonArray"}) /\ ArrayType(Items) = "DictArray" /\ KeptOf # Positions(Items)
        => \E array \in store :
               /\ result[1].pager # <<>> /\ result[1].pager[1].hash = array
               /\ Range(array) = Range(Items)

Opens == {"git", "hunk"}
\* The last line at or before i that opens a file or a hunk.
OpenedBy(i) == Max({0} \cup {o \in 1..i : output.lines[o].diff \in Opens})
\* The lines of the input in what is handed on (a line written anew has number 0).
Shown == {result[1].body[p].line : p \in 1..Len(result[1].body)} \ {0}

\* diff_compressor.rs, reduce_context: whatever files, hunks and context the budget
\* costs, a hunk that is shown is shown with every line it adds or removes.
ShownHunksKeepTheirChanges ==
    Routed({"GitDiff"}) =>
        \A i \in 1..Len(output.lines) :
            LET hunk == OpenedBy(i)
            IN  /\ output.lines[i].diff \in ChangeKinds
                /\ hunk \in Shown
                /\ output.lines[hunk].diff = "hunk"
                => i \in Shown

\* text_crusher/crusher.rs, compress: a line with words goes only when as much of
\* the text is kept as was asked for, or when the lines that stay repeat most of it.
DroppedTextIsCovered ==
    LET all == Segments(output.lines)
        words == UNION {output.lines[i].shingles : i \in KeptOf}
    IN  Routed({"SearchResults", "PlainText", "SourceCode"}) =>
            \/ 100 * SizeOf(output.lines, KeptOf)
                   > TextConfig.target_ratio * SizeOf(output.lines, all) - 100
            \/ \A i \in all \ KeptOf :
                   100 * Cardinality(output.lines[i].shingles \cap words)
                       >= TextConfig.near_dup_threshold * Cardinality(output.lines[i].shingles)
=============================================================================
