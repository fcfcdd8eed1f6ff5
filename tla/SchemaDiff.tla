----------------------------- MODULE SchemaDiff -----------------------------
(***************************************************************************)
(* The schema engine: what parse_spec reads out of an OpenAPI document     *)
(* (src/src/engines/schema/parser.rs) and what diff_specs says of two of   *)
(* them (diff.rs).  A document is its paths: a function from a path to its *)
(* methods, and from a method to an operation                              *)
(*   [parameters : Seq([name, location, type, required]),                  *)
(*    body       : what the request's body has to be,                      *)
(*    responses  : status -> schema],                                      *)
(* where a schema maps property paths (sequences of names, the properties  *)
(* of an object or of an array's items below their owner) to types. It is  *)
(* the one written out under application/json: what stands behind a $ref   *)
(* or under another media type is no part of it.                           *)
(***************************************************************************)
EXTENDS Integers, Sequences, FiniteSets, FiniteSetsExt

NoType == "any"      \* extract_type of a schema without a type
NoName == ""         \* a parameter without a name

Methods == {"get", "post", "put", "patch", "delete", "head", "options"}

\* parse_parameters: nameless entries are skipped, and of two entries with
\* one name (say in the path and in the query) the later one stays.
ParseParameters(params) ==
    LET at(n) == {i \in DOMAIN params : params[i].name = n}
        names == {params[i].name : i \in DOMAIN params} \ {NoName}
    IN  [n \in names |-> LET p == params[Max(at(n))]
                         IN  [location |-> p.location, type |-> p.type, required |-> p.required]]

\* collect_fields: a property is reached through objects and array items only.
Reached(schema) ==
    {f \in DOMAIN schema :
        \A i \in 1..Len(f) - 1 : schema[SubSeq(f, 1, i)] \in {"object", "array"}}

\* The name of a field says of which owners it is in the items: card[].last4 is not
\* card.last4. Names of schemas, and the type a schema has for one.
NameOf(schema, f) ==
    [i \in DOMAIN f |-> [name |-> f[i], items |-> i < Len(f) /\ schema[SubSeq(f, 1, i)] = "array"]]
FieldsOf(schema) == {NameOf(schema, f) : f \in Reached(schema)}
TypeOf(schema, field) == schema[[i \in DOMAIN field |-> field[i].name]]

\* parse_responses: the fields of every status go into one map, in the order
\* of the statuses, so the last status that has a field gives its type.
ParseFields(responses) ==
    LET having(f) == {s \in DOMAIN responses : f \in FieldsOf(responses[s])}
    IN  [f \in UNION {FieldsOf(responses[s]) : s \in DOMAIN responses} |->
            TypeOf(responses[Max(having(f))], f)]

OperationsOf(doc) == {k \in Methods \X DOMAIN doc : k[1] \in DOMAIN doc[k[2]]}

\* parse_paths, keyed by method and path. Nothing is read of a body.
ParseSpec(doc) ==
    [key \in OperationsOf(doc) |->
        LET op == doc[key[2]][key[1]]
        IN  [method            |-> key[1],
             path              |-> key[2],
             parameters        |-> ParseParameters(op.parameters),
             response_fields   |-> ParseFields(op.responses),
             response_statuses |-> DOMAIN op.responses]]

-----------------------------------------------------------------------------
Change(field, kind, severity) == [field |-> field, kind |-> kind, severity |-> severity]
NoField == <<>>

\* Mutant of DiffParameters: new obligations never break a caller.
DiffParametersLenient(old, new) ==
    LET removed == DOMAIN old \ DOMAIN new
        added   == DOMAIN new \ DOMAIN old
        common  == DOMAIN old \cap DOMAIN new
    IN  {Change(<<"parameters", n>>, "ParameterRemoved", "Breaking") : n \in removed}
        \cup {Change(<<"parameters", n>>, "ParameterAdded", "Info") : n \in added}
        \cup {Change(<<"parameters", n>>, "ParameterTypeChanged", "Breaking") :
                 n \in {n \in common : old[n].type # new[n].type}}
        \cup {Change(<<"parameters", n>>, "ParameterRequiredChanged", "Info") :
                 n \in {n \in common : old[n].required # new[n].required}}

\* diff_endpoint, the parameters' part.
DiffParameters(old, new) ==
    LET removed == DOMAIN old \ DOMAIN new
        added   == DOMAIN new \ DOMAIN old
        common  == DOMAIN old \cap DOMAIN new
        ifRequired(n) == IF new[n].required THEN "Breaking" ELSE "Info"
    IN  {Change(<<"parameters", n>>, "ParameterRemoved", "Breaking") : n \in removed}
        \cup {Change(<<"parameters", n>>, "ParameterAdded", ifRequired(n)) : n \in added}
        \cup {Change(<<"parameters", n>>, "ParameterTypeChanged", "Breaking") :
                 n \in {n \in common : old[n].type # new[n].type}}
        \cup {Change(<<"parameters", n>>, "ParameterRequiredChanged", ifRequired(n)) :
                 n \in {n \in common : old[n].required # new[n].required}}

\* Mutant of DiffResponses: the statuses are forgotten.
DiffResponsesFieldsOnly(old, new) ==
    LET of == old.response_fields
        nf == new.response_fields
    IN  {Change(<<"response", f>>, "ResponseFieldRemoved", "Warning") : f \in DOMAIN of \ DOMAIN nf}
        \cup {Change(<<"response", f>>, "ResponseFieldAdded", "Info") : f \in DOMAIN nf \ DOMAIN of}
        \cup {Change(<<"response", f>>, "ResponseFieldTypeChanged", "Breaking") :
                 f \in {f \in DOMAIN of \cap DOMAIN nf : of[f] # nf[f]}}

\* diff_endpoint, the response fields' and statuses' part.
DiffResponses(old, new) ==
    LET of == old.response_fields
        nf == new.response_fields
    IN  {Change(<<"response", f>>, "ResponseFieldRemoved", "Warning") : f \in DOMAIN of \ DOMAIN nf}
        \cup {Change(<<"response", f>>, "ResponseFieldAdded", "Info") : f \in DOMAIN nf \ DOMAIN of}
        \cup {Change(<<"response", f>>, "ResponseFieldTypeChanged", "Breaking") :
                 f \in {f \in DOMAIN of \cap DOMAIN nf : of[f] # nf[f]}}
        \cup {Change(<<"responses", s>>, "ResponseStatusRemoved", "Warning") :
                 s \in old.response_statuses \ new.response_statuses}
        \cup {Change(<<"responses", s>>, "ResponseStatusAdded", "Info") :
                 s \in new.response_statuses \ old.response_statuses}

DiffEndpoint(old, new) ==
    DiffParameters(old.parameters, new.parameters) \cup DiffResponses(old, new)

\* diff_specs: the changed endpoints with their changes, and the counts.
EndpointChanges(old, new) ==
    {[key |-> k, changes |-> {Change(NoField, "EndpointRemoved", "Breaking")}] :
        k \in DOMAIN old \ DOMAIN new}
    \cup {[key |-> k, changes |-> DiffEndpoint(old[k], new[k])] :
        k \in {k \in DOMAIN old \cap DOMAIN new : DiffEndpoint(old[k], new[k]) # {}}}
    \cup {[key |-> k, changes |-> {Change(NoField, "EndpointAdded", "Info")}] :
        k \in DOMAIN new \ DOMAIN old}

CountOf(endpointChanges, severity) ==
    MapThenSumSet(LAMBDA ec : Cardinality({c \in ec.changes : c.severity = severity}),
                  endpointChanges)

DiffSpecs(old, new) ==
    LET ecs == EndpointChanges(old, new)
    IN  [endpoint_changes |-> ecs,
         breaking         |-> CountOf(ecs, "Breaking"),
         warning          |-> CountOf(ecs, "Warning"),
         info             |-> CountOf(ecs, "Info")]
=============================================================================
