-------------------------- MODULE DependencyGraph --------------------------
(***************************************************************************)
(* Three readings of one repository: the inventory                         *)
(* (src/src/engines/autopatch/inventory.rs), the external dependency graph *)
(* (src/src/engines/graph/builder.rs) with the manifests resolved by       *)
(* manifest_lockfile.rs, and the audit of that graph (graph/query.rs).     *)
(* An edge knows a callsite by file, line and column, whichever provider   *)
(* it was found for and whatever was matched there.                        *)
(***************************************************************************)
EXTENDS CallsiteScan, FiniteSets, FiniteSetsExt

\* builtin_providers: [name, packages (a sequence), urls, methods, deadline], in order.
CONSTANT Providers

ConfigOf(p) == [sdks |-> Range(p.packages), urls |-> p.urls, methods |-> p.methods]
SitesOf(repo, p) == Locate(repo, ConfigOf(p)).callsites
ProviderIds == DOMAIN Providers

\* run_inventory: a dependency per provider with a callsite.
RunInventory(repo) ==
    LET sites(i) == SitesOf(repo, Providers[i])
        found == {i \in ProviderIds : sites(i) # {}}
    IN  [dependencies |->
            [i \in found |->
                [callsite_count |-> Cardinality(sites(i)),
                 affected_files |-> {s.file : s \in sites(i)},
                 health |-> IF Providers[i].deadline THEN "Deprecated" ELSE "Behind"]],
         total_callsites |-> MapThenSumSet(LAMBDA i : Cardinality(sites(i)), found)]

-----------------------------------------------------------------------------
\* A directory of manifests: [lockfiles, manifests: the names of those that are there,
\* unreadable: of which these cannot be read, declared: package -> what the manifest
\* asks for, locked: package -> version]; an answer is <<>> for an Err. A range is
\* [prefix, version].
PackageManagers == <<[name |-> "pnpm", lockfile |-> "pnpm-lock.yaml", manifest |-> "package.json"],
                     [name |-> "yarn", lockfile |-> "yarn.lock", manifest |-> "package.json"],
                     [name |-> "npm", lockfile |-> "package-lock.json", manifest |-> "package.json"],
                     [name |-> "cargo", lockfile |-> "Cargo.lock", manifest |-> "Cargo.toml"]>>

\* detect_package_manager: by the first lockfile there is, else npm by its manifest.
DetectPackageManager(dir) ==
    LET locked == {m \in DOMAIN PackageManagers : PackageManagers[m].lockfile \in dir.lockfiles}
    IN  CASE locked # {} -> <<PackageManagers[Min(locked)]>>
          [] locked = {} /\ "package.json" \in dir.manifests -> <<PackageManagers[3]>>
          [] OTHER -> <<>>

\* resolve_dependency: what the lockfile says, and when there is none or it does not
\* say anything the declared range without its prefix; an Err for what is unreadable.
ResolveDependency(dir, package) ==
    LET manager == DetectPackageManager(dir)
    IN  IF manager = <<>> \/ manager[1].manifest \notin dir.manifests
           \/ package \notin DOMAIN dir.declared
           \/ {manager[1].manifest, manager[1].lockfile} \cap dir.unreadable # {}
        THEN <<>>
        ELSE <<[manager |-> manager[1].name, declared_range |-> dir.declared[package],
                resolved_version |->
                    IF manager[1].lockfile \in dir.lockfiles /\ package \in DOMAIN dir.locked
                    THEN dir.locked[package] ELSE dir.declared[package].version]>>

ManifestDeps(dir) ==
    LET packages == UNION {Range(Providers[i].packages) : i \in ProviderIds}
    IN  [k \in {k \in packages : ResolveDependency(dir, k) # <<>>} |-> ResolveDependency(dir, k)[1]]

-----------------------------------------------------------------------------
\* The contracts of a provider whose method is part of what was matched.
ContractOf(p, site) == IF site.kind = "MethodCall" /\ site.pattern \in p.methods
                       THEN {site.pattern} ELSE {}

CallId(site) == <<site.file, site.line, site.column>>

\* build_external_dependency_graph. The nodes are one per provider and callsite, an
\* edge joins ids. Wrappers are files of client code, held by the first provider that
\* is called in them.
BuildGraph(repo, dir) ==
    LET callsites == UNION {{[found_for |-> i, id |-> CallId(s), site |-> s] : s \in SitesOf(repo, Providers[i])} :
                                i \in ProviderIds}
        invokes == {<<n.id, n.found_for>> : n \in callsites}
        Callers(i) == {n \in callsites : <<n.id, i>> \in invokes}
        wrappers == {n.site.file : n \in {n \in callsites : repo[n.site.file].wrapper}}
    IN  [callsites |-> callsites,
         invokes |-> invokes,
         contracts |-> UNION {{<<n.id, n.found_for, c>> : c \in ContractOf(Providers[n.found_for], n.site)} :
                                 n \in callsites},
         manifest_deps |-> ManifestDeps(dir),
         wraps |-> [f \in wrappers |->
                       Min({n.found_for : n \in {n \in callsites : n.site.file = f}})],
         migrations |-> [i \in {i \in ProviderIds : Callers(i) # {}} |-> Callers(i)]]

\* Mutant of CallersOf: only calls that match a contract of the provider count.
CallersOfContracts(graph, i) ==
    {n \in graph.callsites : \E c \in graph.contracts : c[1] = n.id /\ c[2] = i}

\* The callsites with an edge to the provider, whoever they were found for.
CallersOf(graph, i) == {n \in graph.callsites : <<n.id, i>> \in graph.invokes}

AtRisk == {"Stripe", "OpenAI"}

\* The version an item of the audit names: that of the first manifest dependency
\* among the provider's packages, else a stand-in.
CurrentVersion(graph, i, missing) ==
    LET declared == {k \in DOMAIN Providers[i].packages :
                        Providers[i].packages[k] \in DOMAIN graph.manifest_deps}
    IN  IF declared = {} THEN missing
        ELSE graph.manifest_deps[Providers[i].packages[Min(declared)]].resolved_version

\* audit_summary.
AuditSummary(graph) ==
    LET detected == {i \in ProviderIds : CallersOf(graph, i) # {}}
        Count(i) == Cardinality(CallersOf(graph, i))
        at_risk == {i \in detected : Providers[i].name \in AtRisk}
        watchlist == {i \in detected \ at_risk :
                         Providers[i].name = "Twilio" \/ Providers[i].deadline}
        Item(i) ==
            [callsites_count |-> Count(i),
             affected_files |-> {n.site.file : n \in CallersOf(graph, i)},
             current_version |-> CurrentVersion(graph, i, IF i \in at_risk THEN "11.x" ELSE "latest"),
             standing |-> CASE i \in at_risk -> "at_risk" [] i \in watchlist -> "watchlist"
                            [] OTHER -> "healthy"]
    IN  [items |-> [i \in detected |-> Item(i)],
         total_callsites_mapped |-> Cardinality(graph.callsites),
         total_auto_repairable |-> MapThenSumSet(Count, at_risk)]
=============================================================================
