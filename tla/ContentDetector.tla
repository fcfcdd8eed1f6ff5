-------------------------- MODULE ContentDetector --------------------------
(***************************************************************************)
(* detect_content_type (src/src/engines/compression/content_detector.rs).  *)
(* The field marks of a line is the set of patterns it matches; the        *)
(* confidences are kept in hundredths, as quotients multiplied out.        *)
(***************************************************************************)
EXTENDS OutputLines

CONSTANT Windows        \* how many lines each detector reads

ContentTypes == {"JsonArray", "SourceCode", "SearchResults", "BuildOutput", "GitDiff",
                 "Html", "PlainText"}

Read(lines, window) == SubSeq(lines, 1, Smaller(window, Len(lines)))
Marked(lines, mark) == Cardinality({i \in 1..Len(lines) : mark \in lines[i].marks})
NonEmpty(lines) == Cardinality({i \in 1..Len(lines) : ~lines[i].blank})

\* One header already gives 0.7: the changes cannot take it below.
LooksLikeDiff(lines) ==
    LET read == Read(lines, Windows.diff)
        headers == Marked(read, "diffheader")
    IN  headers > 0 /\ 50 + 20 * headers + 5 * Marked(read, "diffchange") >= 70

\* A doctype or <html> tag, or three structural tags; 0.7 at least.
LooksLikeHtml(lines) ==
    LET has(mark) == IF Marked(lines, mark) > 0 THEN 1 ELSE 0
        tags == Marked(lines, "tag")
    IN  /\ has("doctype") = 1 \/ has("html") = 1 \/ tags >= 3
        /\ 50 * has("doctype") + 30 * has("html") + 10 * has("head") + 10 * has("body")
             + Smaller(3 * tags, 30) >= 70

LooksLikeSearch(lines) ==
    LET read == Read(lines, Windows.search)
        found == Marked(read, "search")
        n == NonEmpty(read)
    IN  found > 0 /\ 10 * found >= 3 * n /\ 40 * n + 60 * found >= 60 * n

\* The first pattern a line matches decides whether it counts as an error.
LooksLikeLog(lines) ==
    LET read == Read(lines, Windows.log)
        found == Marked(read, "log")
        severe == Marked(read, "severe")
        n == NonEmpty(read)
    IN  found > 0 /\ 10 * found >= n /\ 30 * n + 50 * found + 5 * severe * n >= 50 * n

LooksLikeCode(lines) ==
    LET read == Read(lines, Windows.code)
        found == Marked(read, "code")
        n == Larger(1, NonEmpty(read))
    IN  found >= 3 /\ 40 * n + 40 * found + 2 * found * n >= 50 * n

\* The first detector that is sure enough.
DetectContentType(output) ==
    LET lines == output.lines
    IN  IF output.json # <<>> THEN "JsonArray"
        ELSE IF NonEmpty(lines) = 0 THEN "PlainText"
        ELSE IF LooksLikeDiff(lines) THEN "GitDiff"
        ELSE IF LooksLikeHtml(lines) THEN "Html"
        ELSE IF LooksLikeSearch(lines) THEN "SearchResults"
        ELSE IF LooksLikeLog(lines) THEN "BuildOutput"
        ELSE IF LooksLikeCode(lines) THEN "SourceCode"
        ELSE "PlainText"
=============================================================================
