----------------------------- MODULE MCCompress -----------------------------
(***************************************************************************)
(* The outputs of the compression runs, one family per engine, and the     *)
(* sizes of the engines' configuration, reduced with the outputs.          *)
(***************************************************************************)
EXTENDS CompressionProperties

\* Configurations: the code's figures are in the comments where they differ.
MCLogConfig ==
    [min_lines_for_ccr |-> 9 (* 50 *), max_errors |-> 5 (* 10 *), error_context_lines |-> 1 (* 3 *),
     max_stack_traces |-> 1 (* 3 *), stack_trace_max_lines |-> 2 (* 20 *), max_warnings |-> 1 (* 5 *),
     max_total_lines |-> 8 (* 100 *), min_kept |-> 5 (* 10 *)]
MCDiffConfig ==
    [max_context_lines |-> 1 (* 2 *), max_hunks_per_file |-> 2 (* 10 *), max_files |-> 2 (* 20 *),
     min_lines_for_ccr |-> 6 (* 50 *), ratio_for_ccr |-> 8]
MCTextConfig ==
    [target_ratio |-> 50, min_segment_chars |-> 12, near_dup_threshold |-> 85,
     min_segments_for_crush |-> 6]
MCWindows == [diff |-> 3, search |-> 3, log |-> 9, code |-> 5]
MCCrusherConfig ==
    [min_kept |-> 3, max_items_after_crush |-> 15, min_items_to_analyze |-> 5,
     first_percent |-> 30, last_percent |-> 15]

\* A line none of the engines sees anything in.
PlainLine ==
    [level |-> "Info", flavor |-> "none", ends |-> {}, summary |-> FALSE, topic |-> "Info",
     diff |-> "text", from |-> 0, priority |-> FALSE, size |-> 20, salience |-> 0,
     shingles |-> {1}, marks |-> {}, blank |-> FALSE]

Lines(lines) == [json |-> <<>>, lines |-> lines, short |-> FALSE]
Json(items) == [json |-> <<items>>, lines |-> <<>>, short |-> FALSE]

-----------------------------------------------------------------------------
\* Build logs of nine lines, of which seven are over alphabets of three.
LogLine(level, flavor, summary) ==
    [PlainLine EXCEPT !.level = level, !.flavor = flavor, !.summary = summary,
                      !.topic = level, !.marks = {"log"}]
Info == [LogLine("Info", "none", FALSE) EXCEPT !.ends = TraceFlavors]
Logs(n, letters) == {Lines(<<Info>> \o log \o <<Info>>) : log \in [1..(n - 2) -> letters]}
Failing == {LogLine("Error", "none", FALSE), LogLine("Fail", "none", FALSE), Info}
Tracing == {LogLine("Error", "RustError", FALSE), LogLine("Warn", "none", TRUE), Info}

\* Summaries that are warnings inside a trace, and so score what a failure scores.
Boasting == {LogLine("Error", "none", FALSE), LogLine("Warn", "Js", TRUE), Info}

\* Diffs: a file header, then six lines over two alphabets.
DiffLine(diff, n) ==
    [PlainLine EXCEPT !.diff = diff, !.from = n,
                      !.marks = IF diff \in {"git", "hunk"} THEN {"diffheader"} ELSE {}]
Diffs(n, kinds) ==
    {Lines([i \in 1..(n + 2) |-> DiffLine((<<"git", "hunk">> \o body)[i], i)]) :
         body \in [1..n -> kinds]}
Hunks == {"git", "hunk", "add", "add3", "ctx"}
Headers == {"old", "new", "del", "del3", "ctx", "hunk", "binary"}
Oddities == {"slash", "text", "newmode", "delmode", "rename"}

\* Plain text of six lines; two shingles make a near-duplicate only in full.
TextLine(size, salience, shingles) ==
    [PlainLine EXCEPT !.size = size, !.salience = salience, !.shingles = shingles]
Texts(n) ==
    LET letters == {TextLine(40, 0, {1, 2}), TextLine(40, 2, {2, 3}),
                    TextLine(6, 3, {3}), [TextLine(0, 0, {}) EXCEPT !.blank = TRUE]}
    IN  {Lines(text) : text \in [1..n -> letters]}

\* Lines of every pattern, for the detector; no engine reads further.
Mixtures(n) ==
    LET marks == {{"diffheader"}, {"html"}, {"doctype"}, {"tag"}, {"search"}, {"log"},
                  {"code"}, {}}
        LineWith(m) == [PlainLine EXCEPT !.marks = m]
    IN  {Lines([i \in 1..n |-> LineWith(m[i])]) : m \in [1..n -> marks]}
Short == {[Lines(<<PlainLine>>) EXCEPT !.short = TRUE]}

-----------------------------------------------------------------------------
\* JSON arrays of nine items: plain ones, and some that are not.
Item(type, n) == [type |-> type, error |-> FALSE, anomaly |-> FALSE, fields |-> {"id"},
                  status |-> 0, message |-> n]
Variant(item, v) ==
    CASE v = "repeated" -> [item EXCEPT !.message = 0]
      [] v = "error" -> [item EXCEPT !.error = TRUE]
      [] v = "same error" -> [item EXCEPT !.error = TRUE, !.message = 0]
      [] v = "anomaly" -> [item EXCEPT !.anomaly = TRUE]
      [] v = "field" -> [item EXCEPT !.fields = {"id", "detail"}]
      [] v = "status" -> [item EXCEPT !.status = 1]
      [] v = "plain" -> item
Arrays(n, type, variants, most) ==
    {Json([p \in 1..n |-> IF p \in DOMAIN odd THEN Variant(Item(type, p), odd[p])
                          ELSE Item(type, p)]) :
        odd \in UNION {[S -> variants] : S \in kSubset(most, 1..n) \cup {{}}}}
Signalled == {"repeated", "error", "same error", "anomaly"}
ManyErrors(n, type) == UNION {Arrays(n, type, {"error"}, k) : k \in 3..n}
TwoTypes(n) ==
    {Json([p \in 1..n |-> Item(types[p], p)]) : types \in [1..n -> {"dict", "number"}]}
\* Rows that repeat each other's messages.
Clusters(n, k) ==
    {Json([p \in 1..n |-> [Variant(Item("dict", p), IF p \in odd THEN v ELSE "plain") EXCEPT !.message = p % k]]) :
        odd \in kSubset(1, 1..n) \cup {{}}, v \in {"error", "anomaly", "field", "status"}}
OtherArrays(n) ==
    {Json([p \in 1..n |-> Item("str", p)] \o [p \in 1..n |-> Item("dict", p)]),
     Json([p \in 1..n |-> Item("bool", p)]), Json(<<>>)}

MCOutputs ==
    [boasting |-> Logs(9, Boasting), clusters |-> Clusters(9, 3),
     failing |-> Logs(9, Failing), tracing |-> Logs(9, Tracing),
     hunks |-> Diffs(5, Hunks), headers |-> Diffs(4, Headers), oddities |-> Diffs(4, Oddities),
     texts |-> Texts(6), mixtures |-> Mixtures(4), short |-> Short,
     rows |-> Arrays(9, "dict", Signalled \cup {"field", "status"}, 2),
     crowded |-> Arrays(9, "dict", {"repeated", "error", "anomaly"}, 3),
     failed |-> ManyErrors(9, "dict"), strings |-> Arrays(9, "str", Signalled, 2),
     complaints |-> ManyErrors(9, "str"), numbers |-> Arrays(9, "number", {"anomaly"}, 2),
     mixed |-> TwoTypes(9), others |-> OtherArrays(9)]
=============================================================================
