---------------------------- MODULE CallsiteScan ----------------------------
(***************************************************************************)
(* The AST engine's locator (src/src/engines/ast/locator.rs): the lines of *)
(* a source that refer to an SDK.  A line is what the matching code can    *)
(* see of it:                                                              *)
(*   [comment : BOOLEAN, imports, types : sets of SDK names,               *)
(*    methods, urls : sets of patterns,                                    *)
(*    bind : <<alias, sdk>> or <<>>, uses : aliases followed by a dot,     *)
(*    column : <<kind, text>> -> where that text first is on the line]     *)
(* where bind is a proven binding (new, require or import ... as), and the *)
(* kind of a text is that of the hits it gives, or "Alias" for an alias    *)
(* followed by a dot.                                                      *)
(***************************************************************************)
EXTENDS Integers, Sequences, SequencesExt

\* The configuration searched for: [sdks, methods, urls].

Hit(line, column, kind, pattern) ==
    [line |-> line, column |-> column, kind |-> kind, pattern |-> pattern]

\* A hit at the text that is its pattern.
HitAt(source, i, kind, pattern) == Hit(i, source[i].column[<<kind, pattern>>], kind, pattern)

\* discover_aliases: the bindings of the whole source, in order, each once.
DiscoverAliases(source, config) ==
    LET bound == SelectSeq(source, LAMBDA l : /\ ~l.comment
                                              /\ l.bind # <<>>
                                              /\ l.bind[2] \in config.sdks)
    IN  [i \in DOMAIN bound |-> bound[i].bind]

ImportsOf(l, config) == l.imports \cap config.sdks
MethodsOf(l, config) == IF l.comment THEN {} ELSE l.methods \cap config.methods

\* The alias pass: the first binding used on a line that is no comment, no
\* import and has no method call of its own; the sdk stands for the pattern, the
\* column is the alias's.
AliasHit(source, i, config) ==
    LET l       == source[i]
        aliases == DiscoverAliases(source, config)
        usable  == {a \in DOMAIN aliases : /\ aliases[a][1] # aliases[a][2]
                                           /\ aliases[a][1] \in l.uses}
        open    == ~l.comment /\ MethodsOf(l, config) = {} /\ ImportsOf(l, config) = {}
    IN  IF open /\ usable # {}
        THEN {LET used == aliases[Min(usable)] IN
                 Hit(i, l.column[<<"Alias", <<used[1]>>>>], "MethodCall", <<used[2]>>)}
        ELSE {}

\* locate_callsites_in_source.  Imports and URLs count in comments too; a
\* type is no hit on the line that imports its sdk.
LocateInSource(source, config) ==
    UNION {LET l == source[i] IN
              {HitAt(source, i, "Import", <<s>>) : s \in ImportsOf(l, config)}
              \cup {HitAt(source, i, "MethodCall", m) : m \in MethodsOf(l, config)}
              \cup {HitAt(source, i, "UrlReference", u) : u \in l.urls \cap config.urls}
              \cup {HitAt(source, i, "TypeReference", <<s>>) :
                       s \in IF l.comment THEN {} ELSE (l.types \cap config.sdks) \ l.imports}
              \cup AliasHit(source, i, config) :
           i \in DOMAIN source}

\* locate_callsites over a repository: name -> [skipped, readable, lines],
\* skipped for a file below SKIP_DIRS or without a scanned extension.
Scanned(repo) == {f \in DOMAIN repo : ~repo[f].skipped /\ repo[f].readable}

Locate(repo, config) ==
    [callsites     |-> UNION {{[file |-> f, line |-> h.line, column |-> h.column, kind |-> h.kind,
                                pattern |-> h.pattern] :
                                  h \in LocateInSource(repo[f].lines, config)} : f \in Scanned(repo)},
     files_scanned |-> Scanned(repo)]
=============================================================================
