--------------------------- MODULE LogCompressor ---------------------------
(***************************************************************************)
(* The log engine (src/src/engines/compression/log_compressor.rs). A line  *)
(* carries its level, the flavor of stack trace it opens, the flavors it   *)
(* ends, whether it is a summary, and the topic warnings are deduped by.   *)
(***************************************************************************)
EXTENDS OutputLines

CONSTANT LogConfig      \* LogCompressorConfig, and min_kept: the sizer's min_k

ASSUME LogAssumption ==
    LogConfig \in [min_lines_for_ccr : Nat, max_errors : Nat, error_context_lines : Nat,
                   max_stack_traces : Nat, stack_trace_max_lines : Nat, max_warnings : Nat,
                   max_total_lines : Nat \ {0}, min_kept : Nat \ {0}]

Levels == {"Error", "Fail", "Warn", "Info", "Debug", "Trace", "Unknown"}
TraceFlavors == {"PythonTraceback", "Js", "Java", "RustError", "Go"}

AtLevel(lines, level) == {i \in 1..Len(lines) : lines[i].level = level}
Summaries(lines) == {i \in 1..Len(lines) : lines[i].summary}

\* parse_lines: a trace goes on until it is too long or a line ends it; the line
\* that ended one may open the next.
TraceAt(lines) ==
    LET state[i \in 0..Len(lines)] ==
            IF i = 0 THEN [active |-> "none", length |-> 0]
            ELSE LET before == state[i - 1]
                     goesOn == /\ before.active # "none"
                               /\ before.length < LogConfig.stack_trace_max_lines
                               /\ before.active \notin lines[i].ends
                 IN  IF goesOn THEN [before EXCEPT !.length = @ + 1]
                     ELSE IF lines[i].flavor # "none"
                          THEN [active |-> lines[i].flavor, length |-> 1]
                          ELSE [active |-> "none", length |-> 0]
    IN  state

Traced(lines) == LET state == TraceAt(lines)
                 IN  {i \in 1..Len(lines) : state[i].active # "none"}

\* score_log_line, in hundredths.
LevelScore == [Error |-> 100, Fail |-> 100, Warn |-> 50, Info |-> 10, Unknown |-> 10,
               Debug |-> 5, Trace |-> 2]
Scores(lines) ==
    LET traced == Traced(lines)
    IN  [i \in 1..Len(lines) |->
            Smaller(100, LevelScore[lines[i].level] + (IF i \in traced THEN 30 ELSE 0)
                           + (IF lines[i].summary THEN 40 ELSE 0))]

\* The order of every cut: the score, then the line number.
Better(score, i, j) == score[i] > score[j] \/ (score[i] = score[j] /\ i < j)

\* Mutant of SelectWithFirstLast: the first of them is not kept.
SelectWithLast(I, score) ==
    IF Cardinality(I) <= LogConfig.max_errors THEN I
    ELSE {Max(I)} \cup FirstOf(I \ {Min(I), Max(I)}, LogConfig.max_errors - 1,
                               LAMBDA i, j : Better(score, i, j))

SelectWithFirstLast(I, score) ==
    LET ends == {Min(I), Max(I)}
        rest == Larger(0, LogConfig.max_errors - Cardinality(ends))
    IN  IF Cardinality(I) <= LogConfig.max_errors THEN I
        ELSE ends \cup FirstOf(I \ ends, rest, LAMBDA i, j : Better(score, i, j))

\* dedupe_similar, and the first of what is left.
KeptWarnings(lines) ==
    LET warnings == AtLevel(lines, "Warn")
        fresh == {i \in warnings : ~\E j \in warnings : j < i /\ lines[j].topic = lines[i].topic}
    IN  FirstOf(fresh, LogConfig.max_warnings, <)

\* A stack trace is a run of traced lines; of the first ones the first lines.
KeptTraces(lines) ==
    LET traced == Traced(lines)
        starts == {i \in traced : i - 1 \notin traced}
        StartOf(i) == Max({s \in starts : s <= i})
        kept == FirstOf(starts, LogConfig.max_stack_traces, <)
    IN  {i \in traced : StartOf(i) \in kept
                        /\ i - StartOf(i) < LogConfig.stack_trace_max_lines}

WithContext(lines, I) ==
    (1..Len(lines)) \cap
        UNION {(i - LogConfig.error_context_lines)..(i + LogConfig.error_context_lines) : i \in I}

Chosen(lines, score) ==
    WithContext(lines, SelectWithFirstLast(AtLevel(lines, "Error"), score)
                       \cup SelectWithFirstLast(AtLevel(lines, "Fail"), score)
                       \cup KeptWarnings(lines) \cup KeptTraces(lines) \cup Summaries(lines))

\* The budget is spent on the best lines.
SelectLines(lines, adaptive_max) ==
    LET score == Scores(lines)
    IN  FirstOf(Chosen(lines, score), adaptive_max, LAMBDA i, j : Better(score, i, j))

\* format_output: the number of lines left out is said when some line had a level.
OmissionNote(lines, kept) ==
    LET counts == [level \in {"Error", "Fail", "Warn", "Info"} |->
                      Cardinality(AtLevel(lines, level))]
        omitted == Len(lines) - Cardinality(kept)
    IN  IF omitted > 0 /\ \E level \in DOMAIN counts : counts[level] > 0
        THEN <<[omitted |-> omitted, counts |-> counts]>> ELSE <<>>

\* compress: the lines kept, one of the sizes the sizer may answer.
CompressLog(lines) ==
    IF Len(lines) < LogConfig.min_lines_for_ccr
    THEN {[kept |-> 1..Len(lines), note |-> <<>>]}
    ELSE {[kept |-> SelectLines(lines, k), note |-> OmissionNote(lines, SelectLines(lines, k))] :
             k \in OptimalKs(Len(lines), LogConfig.min_kept, LogConfig.max_total_lines)}
=============================================================================
