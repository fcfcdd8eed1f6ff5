--------------------------- MODULE DiffCompressor ---------------------------
(***************************************************************************)
(* The diff engine (src/src/engines/compression/diff_compressor.rs). The   *)
(* field diff of a line is what the engine's expressions and prefixes take *)
(* it for: "git" opens a file, "old" and "new" are the names of its two    *)
(* sides, "hunk" opens a hunk at the line from, "add" and "del" are changes*)
(* and "add3" and "del3" changes that begin with three signs; a line in a  *)
(* hunk that looks like "--- a/name" is an "old", whatever diff meant.     *)
(***************************************************************************)
EXTENDS OutputLines

CONSTANT DiffConfig     \* DiffCompressorConfig; the ratio in tenths

ASSUME DiffAssumption ==
    DiffConfig \in [max_context_lines : Nat, max_hunks_per_file : Nat, max_files : Nat,
                    min_lines_for_ccr : Nat, ratio_for_ccr : Nat]

\* DiffFile: lines are named by their number, an Option is a short sequence.
NewFile(i) == [header |-> i, old |-> <<>>, new |-> <<>>, renames |-> <<>>, hunks |-> <<>>,
               is_new_file |-> FALSE, is_deleted_file |-> FALSE, is_binary |-> FALSE]

CloseHunk(st) ==
    IF st.hunk = <<>> THEN st
    ELSE [st EXCEPT !.file[1].hunks = Append(@, st.hunk[1]), !.hunk = <<>>]
CloseFile(st) ==
    LET closed == CloseHunk(st)
    IN  [closed EXCEPT !.files = @ \o closed.file, !.file = <<>>]

\* The extended header lines, recognised wherever they stand.
Flagged(file, kind, i) ==
    [file EXCEPT !.is_new_file = @ \/ kind = "newmode",
                 !.is_deleted_file = @ \/ kind = "delmode",
                 !.is_binary = @ \/ kind = "binary",
                 !.renames = IF kind = "rename" THEN Append(@, i) ELSE @]

\* parse_diff, one line: outside a hunk a line it does not know is dropped.
ParseLine(st, i, kind) ==
    LET in == [st EXCEPT !.file[1] = Flagged(@, kind, i)]
    IN  CASE kind = "git" -> [CloseFile(st) EXCEPT !.file = <<NewFile(i)>>]
          [] kind # "git" /\ st.file = <<>> -> [st EXCEPT !.pre = Append(@, i)]
          [] st.file # <<>> /\ kind = "old" -> [in EXCEPT !.file[1].old = <<i>>]
          [] st.file # <<>> /\ kind = "new" -> [in EXCEPT !.file[1].new = <<i>>]
          [] st.file # <<>> /\ kind = "hunk" ->
                 [CloseHunk(in) EXCEPT !.hunk = <<[header |-> i, body |-> <<>>]>>]
          [] OTHER -> IF in.hunk = <<>> THEN in
                      ELSE [in EXCEPT !.hunk[1].body = Append(@, i)]

ParseDiff(lines) ==
    LET parsed[i \in 0..Len(lines)] ==
            IF i = 0 THEN [files |-> <<>>, file |-> <<>>, hunk |-> <<>>, pre |-> <<>>]
            ELSE ParseLine(parsed[i - 1], i, lines[i].diff)
    IN  CloseFile(parsed[Len(lines)])

-----------------------------------------------------------------------------
CountIn(lines, hunk, kind) == Cardinality({p \in 1..Len(hunk.body) : lines[hunk.body[p]].diff = kind})
TotalOf(lines, file, kind) ==
    MapThenSumSet(LAMBDA h : CountIn(lines, file.hunks[h], kind), 1..Len(file.hunks))

\* score_hunks, in hundredths; the router passes no context words.
HunkScore(lines, hunk) ==
    Smaller(30, 3 * (CountIn(lines, hunk, "add") + CountIn(lines, hunk, "del")))
    + (IF \E p \in 1..Len(hunk.body) : lines[hunk.body[p]].priority THEN 30 ELSE 0)

\* select_hunks: the first, the last, the best of the others, by new line number.
SelectHunks(lines, hunks) ==
    LET n == Len(hunks)
        score == [h \in 1..n |-> HunkScore(lines, hunks[h])]
        Ahead(a, b) == score[a] > score[b] \/ (score[a] = score[b] /\ a < b)
        middle == FirstOf(2..(n - 1), Larger(0, DiffConfig.max_hunks_per_file - 2), Ahead)
        chosen == <<1>> \o Ordered(middle, Ahead) \o <<n>>
        From(a) == lines[hunks[chosen[a]].header].from
        order == Ordered(1..Len(chosen),
                              LAMBDA a, b : From(a) < From(b) \/ (From(a) = From(b) /\ a < b))
    IN  IF n <= DiffConfig.max_hunks_per_file THEN hunks
        ELSE [p \in 1..Len(chosen) |-> hunks[chosen[order[p]]]]

ChangeKinds == {"add", "del", "add3", "del3"}

\* Mutant of ReduceContext: only the changes the totals count are kept.
ReduceToCounted(lines, hunk) ==
    [hunk EXCEPT !.body = SelectSeq(@, LAMBDA i : lines[i].diff \in {"add", "del", "slash"})]

\* reduce_context: the changes, the lines near them, the missing-newline marks.
ReduceContext(lines, hunk) ==
    LET body == hunk.body
        changes == {p \in 1..Len(body) : lines[body[p]].diff \in ChangeKinds}
        near == (1..Len(body)) \cap
                    UNION {(p - DiffConfig.max_context_lines)..(p + DiffConfig.max_context_lines) :
                               p \in changes}
        marks == {p \in 1..Len(body) : lines[body[p]].diff = "slash"}
    IN  [hunk EXCEPT !.body =
            IF changes = {} THEN SubSeq(body, 1, Smaller(DiffConfig.max_context_lines, Len(body)))
            ELSE Pick(body, near \cup marks)]

\* The files with the most changes, when there are too many.
KeptFiles(lines, files) ==
    LET Changes(f) == TotalOf(lines, files[f], "add") + TotalOf(lines, files[f], "del")
        order == Ordered(1..Len(files),
                     LAMBDA a, b : Changes(a) > Changes(b) \/ (Changes(a) = Changes(b) /\ a < b))
    IN  IF Len(files) <= DiffConfig.max_files THEN files
        ELSE [p \in 1..DiffConfig.max_files |-> files[order[p]]]

ReducedFile(lines, file) ==
    LET selected == SelectHunks(lines, file.hunks)
    IN  [file EXCEPT !.hunks = [h \in 1..Len(selected) |-> ReduceContext(lines, selected[h])]]

-----------------------------------------------------------------------------
\* format_output: input lines by their number, and the lines it writes itself.
Line(i) == [line |-> i, text |-> ""]
Written(text) == <<[line |-> 0, text |-> text]>>
Quoted(numbers) == [p \in 1..Len(numbers) |-> Line(numbers[p])]

FormatHunks(hunks) ==
    FlattenSeq([h \in 1..Len(hunks) |-> <<Line(hunks[h].header)>> \o Quoted(hunks[h].body)])

FormatFile(file) ==
    <<Line(file.header)>> \o Quoted(file.renames)
    \o (IF file.is_new_file THEN Written("new file mode 100644")
        ELSE IF file.is_deleted_file THEN Written("deleted file mode 100644") ELSE <<>>)
    \o (IF file.is_binary THEN Written("Binary files differ")
        ELSE Quoted(file.old) \o Quoted(file.new) \o FormatHunks(file.hunks))

HunksIn(files) == MapThenSumSet(LAMBDA f : Len(files[f].hunks), 1..Len(files))

\* compress_with_store: the figures of the last line are those of the files kept;
\* the marker names the whole diff whether or not there is a store to put it in.
CompressDiff(lines) ==
    LET parsed == ParseDiff(lines)
        kept == KeptFiles(lines, parsed.files)
        files == [f \in 1..Len(kept) |-> ReducedFile(lines, kept[f])]
        Sum(kind) == MapThenSumSet(LAMBDA f : TotalOf(lines, kept[f], kind), 1..Len(kept))
        figures == [files |-> Len(kept), additions |-> Sum("add"), deletions |-> Sum("del"),
                    omitted |-> HunksIn(kept) - HunksIn(files)]
        body == Quoted(parsed.pre) \o FlattenSeq([f \in 1..Len(files) |-> FormatFile(files[f])])
        small == 10 * (Len(body) + 1) < DiffConfig.ratio_for_ccr * Len(lines)
    IN  IF Len(lines) < DiffConfig.min_lines_for_ccr \/ parsed.files = <<>>
        THEN [body |-> [i \in 1..Len(lines) |-> Line(i)], figures |-> <<>>, marker |-> FALSE]
        ELSE [body |-> body, figures |-> <<figures>>, marker |-> small]
=============================================================================
