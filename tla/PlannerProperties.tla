-------------------------- MODULE PlannerProperties -------------------------
(***************************************************************************)
(* What a maintenance plan promises.                                       *)
(***************************************************************************)
EXTENDS Planner

Planned == stage \in {"contracts", "report", "done"}
OldSpec == ParseSpec(old)
NewSpec == ParseSpec(new)

\* A request to an operation of a document: values, by their types, for parameters
\* known by name and location. It is accepted if every required parameter is there,
\* and every one that is there is known and of the type asked for.
Places(operation) ==
    {<<operation.parameters[i].name, operation.parameters[i].location>> :
        i \in DOMAIN operation.parameters}

Accepts(operation, request) ==
    /\ \A i \in DOMAIN operation.parameters :
          LET p == operation.parameters[i]
          IN  p.required => <<p.name, p.location>> \in DOMAIN request
    /\ \A place \in DOMAIN request :
          \E i \in DOMAIN operation.parameters :
             LET p == operation.parameters[i]
             IN  place = <<p.name, p.location>> /\ request[place] = p.type

RequestsTo(operation) ==
    UNION {[places -> {operation.parameters[i].type : i \in DOMAIN operation.parameters}] :
              places \in SUBSET Places(operation)}

\* What the comparison has to be spared of two versions of an operation, for the
\* parser sees neither bodies nor two parameters of one name, and the difference no
\* change of a parameter's place.
RequestsAreRead(was, is) ==
    /\ was.body = is.body
    /\ \A op \in {was, is} : \A i, j \in DOMAIN op.parameters :
          /\ op.parameters[i].name # NoName
          /\ op.parameters[i].name = op.parameters[j].name => i = j
    /\ \A i \in DOMAIN was.parameters, j \in DOMAIN is.parameters :
          was.parameters[i].name = is.parameters[j].name =>
              was.parameters[i].location = is.parameters[j].location

\* Nor does the parser see which of several answers has a field.
AnsweredOnlyWith(operation, field, status) ==
    \A s \in DOMAIN operation.responses \ {status} : field \notin FieldsOf(operation.responses[s])

\* A plan that says Clean means that callers of the old document's API do not break by
\* what the comparison can see: every operation is still there, with every status it
\* answered; it accepts every request it accepted, where bodies and the places of
\* parameters are what they were and a parameter's name is unique; and a field that
\* comes with one status only still comes with it, in the same type.
CleanMeansCompatible ==
    Planned /\ plan.status = "Clean" =>
        \A k \in OperationsOf(old) :
            /\ k \in OperationsOf(new)
            /\ LET was == old[k[2]][k[1]]
                   is  == new[k[2]][k[1]]
               IN  /\ RequestsAreRead(was, is) =>
                         \A r \in RequestsTo(was) : Accepts(was, r) => Accepts(is, r)
                   /\ DOMAIN was.responses \subseteq DOMAIN is.responses
                   /\ \A s \in DOMAIN was.responses : \A f \in FieldsOf(was.responses[s]) :
                         AnsweredOnlyWith(was, f, s) /\ AnsweredOnlyWith(is, f, s) =>
                            /\ f \in FieldsOf(is.responses[s])
                            /\ TypeOf(is.responses[s], f) = TypeOf(was.responses[s], f)

\* An operation as its callers see it: where a parameter goes is left out,
\* as the comparison leaves it out.
Contract(endpoint) ==
    [parameters |-> [n \in DOMAIN endpoint.parameters |->
                        <<endpoint.parameters[n].type, endpoint.parameters[n].required>>],
     fields     |-> endpoint.response_fields,
     statuses   |-> endpoint.response_statuses]

\* diff_specs reports an endpoint exactly when its contract is not the same
\* in both documents, and its three counts add up to the reported changes.
DiffIsExact ==
    stage \in {"scan", "contracts"} =>
        LET ecs     == diff.endpoint_changes
            differs == {k \in DOMAIN OldSpec \cup DOMAIN NewSpec :
                           ~ /\ k \in DOMAIN OldSpec \cap DOMAIN NewSpec
                             /\ Contract(OldSpec[k]) = Contract(NewSpec[k])}
        IN  /\ {ec.key : ec \in ecs} = differs
            /\ Cardinality(ecs) = Cardinality(differs)
            /\ diff.breaking + diff.warning + diff.info
                  = MapThenSumSet(LAMBDA ec : Cardinality(ec.changes), ecs)

\* An endpoint that breaks or is hit is in the plan, its references are split
\* into confirmed, rejected and unresolved without loss or overlap, and the
\* trust report's totals and reasons add up to the same figures.
ReferencesAreAccountedFor ==
    /\ stage \in {"contracts", "report", "done"} /\ plan.status # "Clean" =>
          /\ \A ec \in diff.endpoint_changes :
                (\E c \in ec.changes : c.severity = "Breaking") =>
                    \E i \in plan.impacted_endpoints : i.key = ec.key
          /\ \A i \in plan.impacted_endpoints :
                Cardinality(i.affected_callsites) + Cardinality(i.provably_unaffected)
                    + Cardinality(i.unresolved) = i.total_sdk_references
    /\ stage = "done" =>
          /\ report.trust.confirmed = plan.total_affected_callsites
          /\ MapThenSumSet(LAMBDA r : report.trust.reasons[r], DOMAIN report.trust.reasons)
                = report.trust.unresolved

\* The status, the targets and the verification specs are computed apart and
\* say the same: work is required exactly when there is a line to patch, every
\* confirmed callsite is on a targeted line of its file and endpoint, and
\* nothing is verified that is not patched.
StatusMatchesTargets ==
    Planned =>
        /\ plan.status = "ActionRequired" <=> plan.patch_targets # {}
        /\ \A i \in plan.impacted_endpoints : \A cs \in i.affected_callsites :
              \E t \in plan.patch_targets :
                  t.key = i.key /\ t.file = cs.file /\ cs.line \in t.lines
        /\ {s.key : s \in plan.verification_specs} \subseteq {t.key : t \in plan.patch_targets}

\* A chain that one operation of the two documents can be filed under names
\* that operation, and as long as the new document has it, a call through the
\* chain is confirmed for its changes and rejected for every other's.
Claimants(chain) ==
    {k \in DOMAIN OldSpec \cup DOMAIN NewSpec : chain \in ChainsOf(k[1], k[2])}

UnambiguousCallsAreClassified ==
    Planned =>
        \A cs \in callsites :
            LET claimants == Claimants(Strip(cs.pattern))
            IN  cs.kind = "MethodCall" /\ Cardinality(claimants) = 1
                  /\ claimants \subseteq DOMAIN NewSpec =>
                    \A i \in plan.impacted_endpoints :
                        IF i.key \in claimants THEN cs \in i.affected_callsites
                        ELSE cs \in i.provably_unaffected
=============================================================================
