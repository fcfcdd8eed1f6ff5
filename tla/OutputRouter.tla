---------------------------- MODULE OutputRouter ----------------------------
(***************************************************************************)
(* route_and_compress (src/src/engines/compression/mod.rs): one command    *)
(* output is detected and handed to its engine, with no query and the bias *)
(* 0.0. The engines are process-wide; of them only the JSON engine has a   *)
(* store. A result names the lines or items that are kept by their number, *)
(* so an output no engine changes is the result of no engine at all.       *)
(***************************************************************************)
EXTENDS LogCompressor, DiffCompressor, TextCrusher, ContentDetector, SmartCrusher

CONSTANT Outputs        \* bound: the families of command outputs of a run

\* What the engines compare and count in a line.
ASSUME OutputsAssumption ==
    \A family \in DOMAIN Outputs : \A o \in Outputs[family] :
        /\ Len(o.lines) \in Nat
        /\ \A i \in 1..Len(o.lines) :
              /\ o.lines[i].level \in Levels /\ o.lines[i].summary \in BOOLEAN
              /\ o.lines[i].size \in Nat /\ o.lines[i].salience \in Nat /\ o.lines[i].from \in Nat
              /\ IsFiniteSet(o.lines[i].shingles)
        /\ o.json # <<>> => Len(o.json[1]) \in Nat

VARIABLES
    output,     \* json (the items, if it is a JSON array), lines, short (under 512 bytes)
    kind,       \* what it was detected as; "unread" before, "passed" when it is short
    result,     \* what is handed on: <<>> before, and when it is the output itself
    store       \* the arrays in the store of the JSON engine

vars == <<output, kind, result, store>>

Init ==
    /\ \E family \in DOMAIN Outputs : output \in Outputs[family]
    /\ kind = "unread"
    /\ result = <<>>
    /\ store = {}

\* content.len() < 512: as it is.
PassShort ==
    /\ kind = "unread"
    /\ output.short
    /\ kind' = "passed"
    /\ UNCHANGED <<output, result, store>>

Detect ==
    /\ kind = "unread"
    /\ ~output.short
    /\ kind' = DetectContentType(output)
    /\ UNCHANGED <<output, result, store>>

\* Mutant of StoreArray: only the rows that were kept are stored.
StoreKept(items, crushed) ==
    IF crushed.pager = <<>> THEN {} ELSE {Pick(items, {i + 1 : i \in crushed.kept})}

\* crush_array puts the whole array when it drops rows of it.
StoreArray(items, crushed) == IF crushed.pager = <<>> THEN {} ELSE {items}

RouteJson ==
    /\ kind = "JsonArray"
    /\ result = <<>>
    /\ \E crushed \in CrushJson(output.json[1]) :
           /\ result' = <<crushed>>
           /\ store' = store \cup StoreArray(output.json[1], crushed)
    /\ UNCHANGED <<output, kind>>

RouteLog ==
    /\ kind = "BuildOutput"
    /\ result = <<>>
    /\ \E compressed \in CompressLog(output.lines) : result' = <<compressed>>
    /\ UNCHANGED <<output, kind, store>>

RouteText ==
    /\ kind \in {"SearchResults", "PlainText", "SourceCode"}
    /\ result = <<>>
    /\ result' = <<[kept |-> CrushText(output.lines)]>>
    /\ UNCHANGED <<output, kind, store>>

RouteDiff ==
    /\ kind = "GitDiff"
    /\ result = <<>>
    /\ result' = <<CompressDiff(output.lines)>>
    /\ UNCHANGED <<output, kind, store>>

\* Html has no engine: there is nothing to do after Detect.
Next == PassShort \/ Detect \/ RouteJson \/ RouteLog \/ RouteText \/ RouteDiff

Spec == Init /\ [][Next]_vars
=============================================================================
