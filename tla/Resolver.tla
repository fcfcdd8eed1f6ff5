------------------------------ MODULE Resolver ------------------------------
(***************************************************************************)
(* From an SDK call to an HTTP operation and back: SpecRouteIndex, the     *)
(* canonical table and assess_impact_with_index of                         *)
(* src/src/engines/autopatch/resolver.rs.  A path, a URL and a call chain  *)
(* are sequences of segments; the camelCase and snake_case spellings the   *)
(* index stores of a chain are one chain here.                             *)
(***************************************************************************)
EXTENDS Integers, Sequences, SequencesExt

CONSTANTS Parameters,   \* template segments, "{id}"
          Versions,     \* is_version_or_base_segment: "v1", "api", a date
          SdkPrefixes,  \* the variables strip_sdk_prefix knows
          Canonical,    \* resolve_canonical_method's table: chain -> <<method, path>>
          Rank          \* the order of BTreeMap keys "method:path": <<method, path>> -> Nat

ActionVerbs == {"confirm", "capture", "cancel", "close", "pay", "finalize",
                "expire", "attach", "detach"}

IsParameter(s) == s \in Parameters
NotParameter(s) == s \notin Parameters

\* synthesize_actions.
Actions(method, isItem) ==
    CASE method = "post" /\ ~isItem        -> {"create", "new"}
      [] method = "post" /\ isItem         -> {"update"}
      [] method = "get" /\ ~isItem         -> {"list", "all"}
      [] method = "get" /\ isItem          -> {"retrieve", "get"}
      [] method \in {"put", "patch"}       -> {"update", "modify"}
      [] method = "delete"                 -> {"del", "delete", "cancel"}
      [] OTHER                             -> {}

\* index_endpoint: the call chains under which an endpoint is filed.
ChainsOf(method, path) ==
    LET raw    == SelectSeq(path, LAMBDA s : s \notin Versions)
        n      == Len(raw)
        isSub  == raw[n] \in ActionVerbs
        resource ==
            IF isSub THEN SelectSeq(raw, LAMBDA s : NotParameter(s) /\ s # raw[n])
            ELSE IF n >= 2 /\ IsParameter(raw[n - 1]) THEN <<raw[n]>>
            ELSE SelectSeq(raw, NotParameter)
        actions == IF isSub THEN {raw[n]} ELSE Actions(method, IsParameter(raw[n]))
    IN  IF n = 0 \/ resource = <<>> THEN {} ELSE {Append(resource, a) : a \in actions}

\* from_parsed_spec: endpoints are filed in key order, and of two endpoints
\* with one chain the later one takes it.
SpecIndex(keys) ==
    LET chains      == UNION {ChainsOf(k[1], k[2]) : k \in keys}
        claiming(c) == {k \in keys : c \in ChainsOf(k[1], k[2])}
    IN  [c \in chains |-> CHOOSE k \in claiming(c) : \A j \in claiming(c) : Rank[j] <= Rank[k]]

Strip(pattern) ==
    IF Len(pattern) > 1 /\ pattern[1] \in SdkPrefixes THEN Tail(pattern) ELSE pattern

\* Mutant of Resolve: the built-in table is asked first.
ResolveCanonicalFirst(index, pattern) ==
    LET chain == Strip(pattern)
    IN  IF chain \in DOMAIN Canonical THEN {Canonical[chain]}
        ELSE IF chain \in DOMAIN index THEN {index[chain]}
        ELSE {}

\* SpecRouteIndex::resolve, then resolve_canonical_method: the operations a
\* pattern resolves to (none or one).
Resolve(index, pattern) ==
    LET chain == Strip(pattern)
    IN  IF chain \in DOMAIN index THEN {index[chain]}
        ELSE IF chain \in DOMAIN Canonical THEN {Canonical[chain]}
        ELSE {}

\* url_matches_templated_path, on the segments after the host.
MatchesTemplate(url, path) ==
    /\ Len(url) = Len(path)
    /\ \A i \in DOMAIN path : IsParameter(path[i]) \/ url[i] = path[i]

Mentions(url, path) ==
    \E i \in 0..Len(url) - Len(path) : SubSeq(url, i + 1, i + Len(path)) = path

\* Why a call that resolves to nothing stays unresolved.
DynamicParts == {"[", "$", "getattr"}
WrapperParts == {"request", "call", "send"}

WhyUnresolved(pattern) ==
    IF Range(pattern) \cap DynamicParts # {} THEN "DynamicMethodChain"
    ELSE IF Range(pattern) \cap WrapperParts # {} THEN "CustomWrapper"
    ELSE "MissingSpecMapping"

\* assess_impact_with_index: is a callsite affected by a change to key?
Assess(index, callsite, key) ==
    CASE callsite.kind = "UrlReference" ->
            IF Mentions(callsite.pattern, key[2]) \/ MatchesTemplate(callsite.pattern, key[2])
            THEN "Confirmed" ELSE "FalsePositive"
      [] callsite.kind = "Import"        -> "ImportReference"
      [] callsite.kind = "TypeReference" -> "TypeReference"
      [] callsite.kind = "MethodCall"    ->
            LET found == Resolve(index, callsite.pattern)
            IN  IF found = {} THEN WhyUnresolved(callsite.pattern)
                ELSE IF found = {key} THEN "Confirmed" ELSE "FalsePositive"
=============================================================================
