------------------------------ MODULE Planner ------------------------------
(***************************************************************************)
(* plan_maintenance (src/src/engines/autopatch/planner.rs) and what the    *)
(* Python side asks of its plan through src/src/py_bindings.rs: the        *)
(* contract tests (contracts.rs) and the reports (report.rs).              *)
(* SchemaDiff, CallsiteScan and Resolver are the engines it calls.         *)
(***************************************************************************)
EXTENDS SchemaDiff, CallsiteScan, Resolver

CONSTANTS Documents,      \* the API documents a plan may be asked for
          Unparsable,     \* what parse_spec refuses
          Repositories,   \* the repositories it may be asked about
          Config          \* the ScanConfig: [sdks, methods, urls]

\* A document has finitely many paths, parameters (in a row), statuses (numbers) and
\* fields, and the order of the endpoints' keys knows all of its operations.
ASSUME DocumentsAssumption ==
    \A doc \in Documents \ {Unparsable} :
        /\ IsFiniteSet(DOMAIN doc)
        /\ \A p \in DOMAIN doc : \A m \in DOMAIN doc[p] \cap Methods :
              /\ Len(doc[p][m].parameters) \in Nat
              /\ DOMAIN doc[p][m].parameters = 1..Len(doc[p][m].parameters)
              /\ IsFiniteSet(DOMAIN doc[p][m].responses) /\ DOMAIN doc[p][m].responses \subseteq Nat
              /\ \A s \in DOMAIN doc[p][m].responses : IsFiniteSet(DOMAIN doc[p][m].responses[s])
              /\ Rank[<<m, p>>] \in Int

\* So has a repository finitely many lines, and what is searched for is finite.
ASSUME RepositoriesAssumption ==
    /\ \A r \in Repositories : /\ IsFiniteSet(DOMAIN r)
                               /\ \A f \in DOMAIN r : IsFiniteSet(DOMAIN r[f].lines)
    /\ IsFiniteSet(Config.sdks) /\ IsFiniteSet(Config.methods) /\ IsFiniteSet(Config.urls)

VARIABLES old, new,       \* the two documents
          repo,           \* the repository
          stage,          \* what the caller asks for next
          diff,           \* SchemaDiff
          callsites,      \* ScanResult
          plan,           \* MaintenancePlan
          suite,          \* ContractTestSuite
          report          \* the trust report's figures

vars == <<old, new, repo, stage, diff, callsites, plan, suite, report>>

Nothing == [none |-> TRUE]

\* MaintenancePlan::default, with the status Clean.
CleanPlan == [status |-> "Clean", breaking_changes |-> 0, total_affected_files |-> 0,
              total_affected_callsites |-> 0, impacted_endpoints |-> {},
              patch_targets |-> {}, verification_specs |-> {}]

-----------------------------------------------------------------------------
\* correlate, one changed endpoint at a time.

MaxSeverity(changes) ==
    LET found == {c.severity : c \in changes}
    IN  CASE "Breaking" \in found -> "Breaking"
          [] "Breaking" \notin found /\ "Warning" \in found -> "Warning"
          [] OTHER -> "Info"

IsUnresolved(verdict) == verdict \notin {"Confirmed", "FalsePositive"}

Impact(ec, index) ==
    LET verdict(cs) == Assess(index, cs, ec.key)
    IN  [key                 |-> ec.key,
         changes             |-> ec.changes,
         severity            |-> MaxSeverity(ec.changes),
         affected_callsites  |-> {cs \in callsites : verdict(cs) = "Confirmed"},
         provably_unaffected |-> {cs \in callsites : verdict(cs) = "FalsePositive"},
         unresolved          |-> {[callsite |-> cs, reason |-> verdict(cs)] :
                                     cs \in {cs \in callsites : IsUnresolved(verdict(cs))}},
         total_sdk_references |-> Cardinality(callsites)]

\* Mutant of Impacts: what nobody calls is not reported, however it breaks.
ImpactsConfirmedOnly(index) ==
    {impact \in {Impact(ec, index) : ec \in diff.endpoint_changes} :
        impact.affected_callsites # {}}

\* An endpoint is reported when a callsite is confirmed or a change breaks.
Impacts(index) ==
    {impact \in {Impact(ec, index) : ec \in diff.endpoint_changes} :
        impact.affected_callsites # {} \/ impact.severity = "Breaking"}

\* SafetyPolicy::evaluate_patch_eligibility: only a confirmed impact that says
\* what changed upstream is patched automatically.
Eligible(state, upstreamChange) == state = "ConfirmedAffected" /\ upstreamChange # {}

\* Mutant of TargetsOf: the first callsite of a file decides its lines.
TargetsOfFirst(impact) ==
    {[key |-> impact.key, file |-> f, upstream_change |-> impact.changes,
      lines |-> {Min({cs.line : cs \in {cs \in impact.affected_callsites : cs.file = f}})}] :
        f \in {cs.file : cs \in impact.affected_callsites}}

\* One target for each file an endpoint is confirmed in, with its lines.
TargetsOf(impact) ==
    {t \in {[key |-> impact.key, file |-> f, upstream_change |-> impact.changes,
             lines |-> {cs.line : cs \in {cs \in impact.affected_callsites : cs.file = f}}] :
                f \in {cs.file : cs \in impact.affected_callsites}} :
        Eligible("ConfirmedAffected", t.upstream_change)}

VerifiedKinds == {"ParameterTypeChanged", "ResponseFieldTypeChanged",
                  "ParameterRemoved", "ResponseFieldRemoved"}

FieldsToVerify(impact) == {c.field : c \in {c \in impact.changes : c.kind \in VerifiedKinds}}

VerificationSpecs(impacts) ==
    {[key |-> i.key, fields |-> FieldsToVerify(i)] :
        i \in {i \in impacts : i.affected_callsites # {} /\ FieldsToVerify(i) # {}}}

PlanOf(impacts) ==
    LET total == MapThenSumSet(LAMBDA i : Cardinality(i.affected_callsites), impacts)
    IN  [status                   |-> IF total = 0 THEN "NoImpact" ELSE "ActionRequired",
         breaking_changes         |-> diff.breaking,
         total_affected_files     |->
             Cardinality(UNION {{cs.file : cs \in i.affected_callsites} : i \in impacts}),
         total_affected_callsites |-> total,
         impacted_endpoints       |-> impacts,
         patch_targets            |-> UNION {TargetsOf(i) : i \in impacts},
         verification_specs       |-> VerificationSpecs(impacts)]

-----------------------------------------------------------------------------
\* synthesize_contract_tests: what is asserted of a field to verify.
Assertion(field) ==
    IF field[1] = "parameters" THEN [type |-> "ParamRequired", field |-> field[2]]
    ELSE IF field[1] = "response" THEN [type |-> "FieldExists", field |-> field[2]]
    ELSE [type |-> "FieldExists", field |-> field]

SynthesizeContractTests(specs) ==
    {[key |-> s.key, assertions |-> {Assertion(f) : f \in s.fields}] : s \in specs}

\* render_trust_report_cli: its three totals and the count of each reason.
Sum(impacts, Count(_)) == MapThenSumSet(Count, impacts)

TrustReport(p) ==
    LET impacts == p.impacted_endpoints
        reasons == UNION {{u.reason : u \in i.unresolved} : i \in impacts}
    IN  [confirmed  |-> Sum(impacts, LAMBDA i : Cardinality(i.affected_callsites)),
         unaffected |-> Sum(impacts, LAMBDA i : Cardinality(i.provably_unaffected)),
         unresolved |-> Sum(impacts, LAMBDA i : Cardinality(i.unresolved)),
         reasons    |-> [r \in reasons |->
             Sum(impacts, LAMBDA i : Cardinality({u \in i.unresolved : u.reason = r}))]]

\* render_markdown: the badge, the summary table and the sections printed.
Markdown(p) ==
    [badge    |-> p.status,
     summary  |-> IF p.status = "Clean" THEN <<>>
                  ELSE <<p.breaking_changes, p.total_affected_files,
                         p.total_affected_callsites, Cardinality(p.patch_targets)>>,
     sections |-> {s \in {"Impacted Endpoints", "Patch Targets", "Verification Requirements"} :
                      /\ p.status # "Clean"
                      /\ s = "Impacted Endpoints" => p.impacted_endpoints # {}
                      /\ s = "Patch Targets" => p.patch_targets # {}
                      /\ s = "Verification Requirements" => p.verification_specs # {}}]

-----------------------------------------------------------------------------
Init ==
    /\ old \in Documents /\ new \in Documents /\ repo \in Repositories
    /\ stage = "plan"
    /\ diff = Nothing /\ callsites = {} /\ plan = Nothing /\ suite = {} /\ report = Nothing

\* plan_maintenance: a document that does not parse is the caller's error.
RefuseDocument ==
    /\ stage = "plan" /\ Unparsable \in {old, new}
    /\ stage' = "refused"
    /\ UNCHANGED <<old, new, repo, diff, callsites, plan, suite, report>>

CompareDocuments ==
    /\ stage = "plan" /\ Unparsable \notin {old, new}
    /\ diff' = DiffSpecs(ParseSpec(old), ParseSpec(new))
    /\ IF diff'.breaking = 0 /\ diff'.warning = 0
       THEN plan' = CleanPlan /\ stage' = "contracts"
       ELSE plan' = plan /\ stage' = "scan"
    /\ UNCHANGED <<old, new, repo, callsites, suite, report>>

ScanRepository ==
    /\ stage = "scan"
    /\ callsites' = Locate(repo, Config).callsites
    /\ stage' = "correlate"
    /\ UNCHANGED <<old, new, repo, diff, plan, suite, report>>

\* The index is built from the new document alone.
Correlate ==
    /\ stage = "correlate"
    /\ plan' = PlanOf(Impacts(SpecIndex(DOMAIN ParseSpec(new))))
    /\ stage' = "contracts"
    /\ UNCHANGED <<old, new, repo, diff, callsites, suite, report>>

\* synthesize_contracts of the bindings, on the plan's verification specs.
SynthesizeContracts ==
    /\ stage = "contracts"
    /\ suite' = SynthesizeContractTests(plan.verification_specs)
    /\ stage' = "report"
    /\ UNCHANGED <<old, new, repo, diff, callsites, plan, report>>

\* trust_report_render and render_report_markdown.
RenderReport ==
    /\ stage = "report"
    /\ report' = [trust |-> TrustReport(plan), markdown |-> Markdown(plan)]
    /\ stage' = "done"
    /\ UNCHANGED <<old, new, repo, diff, callsites, plan, suite>>

Next == \/ RefuseDocument \/ CompareDocuments \/ ScanRepository
        \/ Correlate \/ SynthesizeContracts \/ RenderReport

Spec == Init /\ [][Next]_vars
=============================================================================
