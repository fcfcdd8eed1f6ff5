------------------------------ MODULE Services ------------------------------
(***************************************************************************)
(* The engine's services that answer one question each: the audit of a     *)
(* repository's external dependencies (DependencyGraph), the order of a    *)
(* workflow (Workflow), and the verdict on a replay (Evidence), whose      *)
(* commands run one after the other.                                       *)
(***************************************************************************)
EXTENDS DependencyGraph, Workflow, Evidence

CONSTANTS
    Audited,        \* what there is to audit: a set of [repo, dir]
    Workflows,      \* what there is to order
    Replays,        \* what the caller of classify_replay adds to the executions
    Resembles(_, _) \* the relation of added lines

ASSUME ServicesAssumption ==
    /\ IsFiniteSet(ProviderIds)
    /\ \A i \in ProviderIds : /\ Providers[i].packages \in Seq(Range(Providers[i].packages))
                             /\ IsFiniteSet(Providers[i].urls) /\ IsFiniteSet(Providers[i].methods)
    /\ \A a \in Audited : /\ IsFiniteSet(DOMAIN a.repo)
                          /\ \A f \in DOMAIN a.repo : IsFiniteSet(DOMAIN a.repo[f].lines)
    /\ Workflows \subseteq Seq([name : Nat, depends_on : Seq(Nat)])
    /\ \A r \in Replays : r.unintended \in Nat

VARIABLES
    input,       \* [service, of]
    ended,       \* slot of a replay -> how its command ended and whether its log is there
    result       \* what the service answered, or Pending

servicesVars == <<input, ended, result>>

Pending == [answer |-> "pending"]

ServicesInit ==
    /\ input \in [service : {"audit"}, of : Audited]
                 \cup [service : {"workflow"}, of : Workflows]
                 \cup [service : {"replay"}, of : Replays]
    /\ ended = [s \in Slots |-> <<>>]
    /\ result = Pending

Serve(service) == input.service = service /\ result = Pending

\* run_inventory and audit_summary of the same repository.
Audit ==
    /\ Serve("audit")
    /\ result' = [inventory |-> RunInventory(input.of.repo),
                  audit |-> AuditSummary(BuildGraph(input.of.repo, input.of.dir))]
    /\ UNCHANGED <<input, ended>>

\* workflow_validate and workflow_execution_order, of which the second does not ask
\* the first.
OrderWorkflow ==
    /\ Serve("workflow")
    /\ result' = [errors |-> ValidateWorkflow(input.of), order |-> ExecutionOrder(input.of)]
    /\ UNCHANGED <<input, ended>>

Before(s) == CASE s = "baseline" -> {} [] s = "drift" -> {"baseline"}
               [] s = "post_patch" -> {"baseline", "drift"} [] s = "t1" -> Slots \ {"t1"}

\* execute_and_record_command for the next command of the replay.
Execute(s, outcome, logged) ==
    /\ Serve("replay")
    /\ ended[s] = <<>> /\ \A t \in Before(s) : ended[t] # <<>>
    /\ ended' = [ended EXCEPT ![s] = <<[outcome |-> outcome, logged |-> logged]>>]
    /\ UNCHANGED <<input, result>>

EvidenceOf(replay) ==
    [executions |-> [s \in Slots |-> IF ended[s] = <<>> THEN <<>>
                                     ELSE <<[exit_code |-> ExitCode(ended[s][1].outcome),
                                             logged |-> ended[s][1].logged]>>],
     placeholder |-> replay.placeholder,
     blast_radius_verified |-> replay.verified,
     unintended_files_modified |-> replay.unintended,
     files_modified |-> replay.files,
     score |-> SemanticScore(replay.koyote, replay.human, Resembles)]

\* classify_replay, at whatever point the caller stops executing.
Classify ==
    /\ Serve("replay")
    /\ LET e == EvidenceOf(input.of) IN
       result' = [classification |-> ClassifyReplay(e), mergeable |-> MergeablePr(e)]
    /\ UNCHANGED <<input, ended>>

ServicesNext ==
    \/ Audit
    \/ OrderWorkflow
    \/ \E s \in Slots, outcome \in Outcomes, logged \in BOOLEAN : Execute(s, outcome, logged)
    \/ Classify

ServicesSpec == ServicesInit /\ [][ServicesNext]_servicesVars
-----------------------------------------------------------------------------
Answered(service) == input.service = service /\ result # Pending

\* No two providers are called at one place: what the same alias or the same method
\* stands for in both would be.
NoSharedCalls(repo) ==
    \A i, j \in ProviderIds : i # j =>
        \A s \in SitesOf(repo, Providers[i]), t \in SitesOf(repo, Providers[j]) : CallId(s) # CallId(t)

\* Where no file, line and column is a callsite of two providers, the audit names the providers the
\* inventory found, with as many callsites and the same files, and its counts add up,
\* though it reads them off the edges of a graph; nothing deprecated is healthy.
AuditMatchesInventory ==
    Answered("audit") /\ NoSharedCalls(input.of.repo) =>
        LET audit == result.audit
            inventory == result.inventory
        IN  /\ DOMAIN audit.items = DOMAIN inventory.dependencies
            /\ audit.total_callsites_mapped = inventory.total_callsites
            /\ \A i \in DOMAIN audit.items :
                  /\ audit.items[i].callsites_count = inventory.dependencies[i].callsite_count
                  /\ audit.items[i].standing = "at_risk" =>
                        audit.items[i].affected_files = inventory.dependencies[i].affected_files
                  /\ inventory.dependencies[i].health = "Deprecated" =>
                        audit.items[i].standing # "healthy"

\* <<s, t>>: s needs t, itself or through steps in between.
Needs(workflow) ==
    LET pairs == (DOMAIN workflow) \X (DOMAIN workflow)
        asked == {p \in pairs : workflow[p[2]].name \in Range(workflow[p[1]].depends_on)}
        path[n \in 0..Len(workflow)] ==
            IF n = 0 THEN asked
            ELSE path[n - 1] \cup {p \in pairs :
                    \E u \in DOMAIN workflow : <<p[1], u>> \in path[n - 1] /\ <<u, p[2]>> \in asked}
    IN  path[Len(workflow)]

\* A workflow is given an order exactly if its names are unique, what they depend on
\* exists and nothing depends on itself even through others; the order has every
\* step once and after all it depends on. What validates but has no order is cyclic.
OrderIsSound ==
    Answered("workflow") =>
        LET w == input.of
            Orderable == /\ Cardinality(Names(w)) = Len(w)
                         /\ \A s \in DOMAIN w : Range(w[s].depends_on) \subseteq Names(w)
                         /\ \A s \in DOMAIN w : <<s, s>> \notin Needs(w)
        IN  /\ (result.order # <<>>) = Orderable
            /\ Orderable =>
                  LET order == result.order[1]
                      At(n) == CHOOSE p \in DOMAIN order : order[p] = n
                  IN  /\ Range(order) = Names(w) /\ Len(order) = Len(w)
                      /\ \A s \in DOMAIN w : \A d \in Range(w[s].depends_on) : At(d) < At(w[s].name)
            /\ result.errors = {} /\ ~Orderable => \E s \in DOMAIN w : <<s, s>> \in Needs(w)

\* A replay is reproducible only if the commands ended so: the baseline and the patch
\* with status 0, the drift not, and what people wrote, if it was run, with status 0;
\* with their logs there, the blast radius verified and no file touched that was not
\* meant to be. Only such a replay is mergeable.
VerdictIsEarned ==
    Answered("replay") =>
        LET Ended(s, outcomes) == ended[s] # <<>> /\ ended[s][1].outcome \in outcomes
        IN  /\ result.classification = "Reproducible" =>
                  /\ Ended("baseline", {"green"}) /\ Ended("post_patch", {"green"})
                  /\ Ended("drift", Outcomes \ {"green"})
                  /\ ended["t1"] # <<>> => Ended("t1", {"green"})
                  /\ \A s \in Slots \ {"t1"} : ended[s][1].logged
                  /\ ~input.of.placeholder /\ input.of.verified /\ input.of.unintended = 0
            /\ result.mergeable => result.classification = "Reproducible" /\ input.of.files > 0
=============================================================================
