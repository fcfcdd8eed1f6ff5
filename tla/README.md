# Koyote in TLA+

Koyote watches the dependencies and contracts of a code base, and repairs the
code when one of them changes. This directory holds TLA+ models of its stateful
parts and of its decision engines, the TLC runs that check them on small
instances, and theorems about them that TLAPS proves for every instance.
`PROJECT.json` maps every definition to the source lines it stands for (paths
below are relative to `src/`, `K/` is `python/koyote/`, `E/` is `src/engines/`).

## 1. What is modelled

| part | modules | stands for |
|---|---|---|
| repair loop | `Checkout`, `Hunt`, `HuntProperties`; `HuntProofs`; `MCHunt` | `run_hunt` and `cmd_hunt` by any number of callers, the git checkout command by command, a developer, crashes |
| maintenance | `Snapshots`, `Maintenance`; `MaintenanceProofs`; `MCMaintenance` | the snapshot manager one file operation at a time; the cycle that uses it |
| CCR store | `BoundedCache`, `CcrStore`; `CcrProofs`; `MCCcr` | what a bounded cache promises; put in its separate lock sections, get, expiry |
| cross-repository impact | `WorkImpact`; `WorkImpactProofs`; `MCWork` | the work graph file, pushes, evaluation, issues, the sweep of the watch thread |
| planning | `SchemaDiff`, `CallsiteScan`, `Resolver`, `Planner`, `PlannerProperties`; `AutopatchProofs`; `MCPlan` | `plan_maintenance`: parse and compare two documents, scan a repository, resolve calls, classify, report |
| compression | `OutputLines`, `ContentDetector`, `LogCompressor`, `DiffCompressor`, `TextCrusher`, `SmartCrusher`, `OutputRouter`, `CompressionProperties`; `CompressionProofs`; `MCCompress` | `route_and_compress` and the engine it picks |
| services | `DependencyGraph`, `Workflow`, `Evidence`, `Services`; `AutopatchProofs`; `MCServices` | inventory, dependency graph and audit; workflow order; replays and their verdict |
| compartments | `Confinement`, `Container`; `ContainerProofs`; `MCContainer` | the run of a `Koyote`: box, compartments, messages, enforcer; what the kernel sandbox leaves |

`Maintenance` extends `Snapshots`, `Planner` the three engines it calls,
`Services` its three parts, `OutputRouter` the engines, `Container` the
sandbox. `AutopatchProofs` extends `Planner` and `Services`, which share the
locator. `FiniteFolds` holds lemmas about sums, folds and orders over finite
sets, on which the proofs of all the functional parts rest.
`tlc -config <run>.cfg <module>.tla` checks a run (the table in section 3 names
the module), `tlapm <X>Proofs.tla` a module of proofs.

## 2. How the models correspond to the code

### Hunt

Every element of `Hunts` is one call of `run_hunt`; `pc` says where it stands,
`locals` holds the local variables that later steps read. All hunts share one
checkout.

| code | model |
|---|---|
| no finding, no AI provider (1145-1175) | `RefuseEarly` |
| `HuntLock.acquire` / `release` | `Acquire`, `LockTimeout`; `Leave`. `Flock = FALSE` is a platform without fcntl, where acquire succeeds and holds nothing |
| `gather_context`, `create_sandbox`, `snapshot()`, `_worktree_dirty_set` | `GatherContext` (fixes the commit), `CreateSandbox` (linked worktree, or a copy of the tracked files as they are on disk), `TakeSnapshot`, `RecordBaseline` |
| one attempt | `Reason`, `Author`, `Verify`, `Judge`; `Continue` is the loop's `continue` |
| `evaluate_scope`, `seal_verified_repair` | `InScope`, `Sealable` |
| refusals | `Refuse` (restore, audit record, finally block), used by `RefuseUnverified`, `Bind`, `RefusePromotion`, `VerifyPromotion` |
| `_promote_sandbox` | `PromoteFile`, one file per step |
| `decide_pr`, the publisher | `Defer`, `Approve`, `SwitchBranch`, `StageRepair`, `CommitRepair`, `PushRepair`, `NotePR` |
| the finally block, exceptions, SIGKILL | `Finish`, `RaiseEarly`, `RaiseInLoop`, `Crash` |
| "Raise PR? [y/N]" of `cmd_hunt` | `AnswerYes` |

What the model decides (declared paths, forbidden paths, edits, whether the
evidence convinces it) and what the project's tests say is nondeterministic. A
file's content is a model value. `tested` and `entry` are history variables:
the tree the last test run saw, the work tree when the lock was taken. A step
is one call that touches shared state, so a developer, another hunt or a crash
can come between any two git commands and any two file copies.

`Faults` switches on what may fail: `snapshot` (an exception that is swallowed,
and leaves no manifest or an earlier hunt's), `git` (worktree commands that time
out), `commit`, `push` (also an exception after the branch was pushed), `crash`.
`Unreadable` files may be missed by a snapshot, `Excluded` ones always are.

### Snapshots and maintenance

`work` is the checkout, `store` the copies, `manifest` the list of hashes;
`mgr[c]` is where a caller's call of the manager stands. `BeginSnapshot`,
`RemoveEntry`, `Cleared`, `CopyFile`, `WriteManifest` are `snapshot()`;
`BeginRestore`, `RestoreFile`, `Sweep`, `Unlink`, `Swept` are `restore()`. A
crash may come between any two. `Maintenance` puts `run_maintenance_cycle`
around it: `Start`, `Patch`, `Measure`, `Test` or `NoTests`, `Retry` or
`GiveUp`, `RollBack`, `CleanUp`, `Report`; `Raise` is the second test run's
timeout, which nothing catches. What tests write is any subset of `Scratch`.

### CCR store

`put` looks at the size under the lock (`PutAtOnce`, or `PutFull` when there is
no room), evicts (`Evict`) and inserts (`InsertAfterEvict`) in lock sections of
their own; `Get` drops an entry that expired. `Survivors` says which entries an
eviction may keep. `BoundedCache` is the abstract specification.

### Cross-repository impact

`disk` is the graph file, `loc[t]` the operation of a thread with its local
variables: every load is a read of `disk`, every save is `Truncate` and then
`Write` of a copy. The push handler is `StartPush`, `Record`, the evaluation
(`Evaluate`, `Match`, `Stamp`, `Assess`, `Label`), `Reconcile`, `Retract`,
`Close`, and on high confidence the confirmation (`Confirm`, `Recheck`,
`Settle`) and notification (`Notify`, `Load`, `File`, `Conclude`); the watch
thread's `StartSweep` runs the same evaluation and confirmation for every quiet
candidate. What the model judges, and which consumers the scan finds, is open.
Time stamps are two flags, for the quiet window and for the window in which
pushes coalesce, and `Elapse` lets both pass. `Faults` lets GitHub calls fail
or lose their answer (the client returns failures as results), and lets the AI
provider be missing; `Overlap` lets both threads work at once.

### Planning, compression, services

These are functions of their input, so a behaviour picks an input and computes,
one action per entry point the Python side calls. Characters are abstracted:
a source line is the set of things on it the locator's expressions match, a
log line its level and what it opens, a diff line what the parser takes it for,
a JSON item its type, fields and signals. Sizes that depend on compression
ratios or bigrams (the adaptive sizer) are any the code's bounds allow.

A document has what the parser reads (parameters with name, location, type and
whether they are required, fields and types of responses by status) and some of
what it does not: an operation has a body, several parameters may share a name,
and a field comes with a status. `ParseSpec` makes of that what `parse_spec`
does, and `CleanMeansCompatible` is about documents, not about what was parsed.
A callsite is a file, a line and a column, with the kind and text of what
matched there; the graph's edges know the first three only (`CallId`), as the
ids of `builder.rs` do.

### Compartments

`runtime[k]` is a container's run, its queues and outboxes, `box[k]` its
sandboxed box with the snapshot taken before the current compartment. Each
container is run on a thread (`setup.thread`); `calls[t]` is the runs a thread is
in, one within the other where a compartment calls another container's run, and
`layers[t]` the confinement it has accumulated. With `setup.overlap` runs may
begin while others are under way, as nothing in `koyote.py` or `runtime.py`
prevents it. `patched` is the policies that the process-wide functions check: an
enforcer wraps what it finds, saves that in `originals[k]`, and puts it back
when it leaves, whatever has been patched since.

`Confinement` says which rights a Landlock version or a Seatbelt profile leaves
to a thread. What a compartment does to files is its user's code: `ChangeFile` is
guarded by the kernel's confinement only, not by the compartment's policy,
because the enforcer wraps a fixed list of functions and others go past it. The
policy guards what the runtime itself does through patched functions: snapshots,
roll-backs, the box's directories.

`setup.faults` says what may go wrong with snapshots. `snapshot`: files that
cannot be read are missing from it, or it raises; `restore`: files cannot be
written back, which is logged or raised; `tampering`: a compartment changes the
snapshot, which lies in the working directory. A snapshot that does not have the
tree is `Damaged`, and what a restore makes of it is any content.

## 3. What the runs check

| run | module | distinct states | properties |
|---|---|---|---|
| `hunt_serial` | `MCHunt` | 184 656 | `TypeOK`, `OneHuntInside`, `LockMatchesHolder`, `NothingHeldAfterwards`, `RefusalLeavesNoTrace`, `PromotionOntoBoundCommit`, `PushCarriesTestedFiles`, `AuditBacksThePush`, `EveryHuntEnds` |
| `hunt_unlocked` | `MCHunt` | 1 486 232 | `SealedRepairIsEarned` |
| `hunt_developer` | `MCHunt` | 195 339 | `CommitCarriesOnlyTheRepair` |
| `ccr` | `MCCcr` | 58 815 | `TypeOK`, `Overshoot`, `LiveEntriesLeaveOnlyWhenFull`, `ExpiredGoFirst`, `CacheSpec` (the refinement) |
| `maintenance` | `MCMaintenance` | 30 636 | `ManifestIsBacked`, `PatchesAreAccountedFor`, `RollbackIsExact`, `SuccessKeepsThePatch` |
| `work` | `MCWork` | 382 145 | `OneIssuePerWork`, `NotifiedIsCurrent`, `ImpactIsDecided` |
| `plan` | `MCPlan` | 355 784 | `CleanMeansCompatible`, `DiffIsExact`, `ReferencesAreAccountedFor`, `StatusMatchesTargets`, `UnambiguousCallsAreClassified` |
| `compress` | `MCCompress` | 95 692 | `FirstFailureIsKept`, `SignalsAreKeptFirst`, `DroppedRowsAreStored`, `ShownHunksKeepTheirChanges`, `DroppedTextIsCovered` |
| `services` | `MCServices` | 1 208 178 | `AuditMatchesInventory`, `OrderIsSound`, `VerdictIsEarned` |
| `compartments` | `MCContainer` | 861 476 | `MessagesArrive`, `PoliciesInForce`, `BoxesConfine`, `FailureIsRolledBack` |

What they show, beside what the comment above each property says:

- **Hunt.** One at a time under the lock, never an orphaned lock, promotion onto
  the commit the tests ran on, refusals that leave nothing, pushes of tested
  files by hunts of different findings, backed by the audit; no verdict survives
  into a later attempt or another tree, with the lock or (run `hunt_unlocked`)
  without it; a commit holds the repair only, as long as the developer stages
  nothing himself; and a hunt ends, unless a git command of its own publication
  waits for ever.
- **CCR.** Concurrent puts exceed the capacity, by at most one entry for each
  other thread, and evict live entries only from a full store.
- **Maintenance.** A roll-back is exact even when an earlier cycle died in the
  middle of its own snapshot, because every cycle empties the directory and
  takes its own, and the manifest is written last.
- **Work impact.** However pushes, request events, sweeps and evaluations
  follow one another, no work gets a second open issue, and a candidate that is
  NOTIFIED and fully evaluated has an issue per affected work that was told of
  its head. STABLE is a state in which nobody looks at a candidate any more;
  `ImpactIsDecided` says that a sweep which goes on leaves none there, also if
  the AI provider is gone when it wants to evaluate. It says nothing of a sweep
  that an exception or a restart ends, which does leave one (section 5).
- **Plan.** Clean is said only where no caller breaks by what the comparison
  can see: operations, statuses, requests between operations with the same body
  and the same places of uniquely named parameters, and fields that come with
  one status only. Outside of that Clean is said although callers break, which
  section 5 lists. No reference is lost or counted twice between the classes.
- **Compress.** The first failure of a log outlives every budget, but for
  earlier warnings that sum up inside a trace, which score as much; rows with an
  error or of a rare shape go last, outliers among strings and numbers never; a
  hunk that is shown is shown with all its changes; of a JSON array whose rows
  are dropped the store has every row, and a text segment is dropped only past
  the target or because it repeats what is kept. The rest of what is dropped is
  lost: logs and diffs are compressed without a store, dropped strings and
  numbers leave no marker, and text past the target cannot be asked for.
- **Services.** Audit and inventory agree though they scan apart, in a
  repository in which no file, line and column is a callsite of two providers; a
  workflow's order respects its dependencies; no replay is called verified
  without the runs it needs.
- **Compartments.** Messages of completed compartments arrive once and in
  order. Where runs follow or call each other, the policies in force are exactly
  those of the compartments that run, however they end. What a failed
  compartment did is undone where the snapshot is whole, files can be written
  back and no other run is under way. A box that reports a sandbox confines its
  thread (from Landlock 8 and on macOS its process) for good, whatever runs there
  later. Nothing is said of what a policy keeps a compartment from.

Two runs find a violation of what the repository says of itself:

| run | distinct states | property | what happens |
|---|---|---|---|
| `hunt_untested_tree` | 4 072 | `PublishedTreeWasTested` | the sandbox keeps the edits of failed attempts, the push carries only the last attempt's patches: the pushed tree was never tested |
| `maintenance_untested` | 4 194 | `SuccessIsTested` | without a test command the retry runs an empty one, which succeeds, and the cycle reports a verified patch |

Every property of a passing run has a mutant in `PROJECT.json`: a plausible bug
in one definition (a restore forgotten, a verdict cached, an issue looked up by
its latest notice only) under which TLC refutes it.

### Bounds

There is no symmetry reduction. `CHECK_DEADLOCK FALSE` is set where the modelled
system ends: an input has been computed, all events are used up, a container
has run, the clock of `ccr` or the cycles of `maintenance` are used up. The
passing `hunt_*` runs and `hunt_untested_tree` are checked for deadlock; there
hunts that have all ended stutter (`AllEnded`).

- `hunt_*`: two hunts meet at the lock and follow one another; a second file
  lets a repair be partly promoted and lets one file be declared and another
  forbidden; two attempts are what a leak between attempts needs; two developer
  moves are an edit and its commit (`MaxAttempts`, `MaxDevMoves`).
- `ccr`: two threads, three keys and a capacity of two are the least with which
  two puts meet on a full store and a third key is at stake; `TTL` 1 and
  `MaxTime` 2 let entries expire at different times.
- `maintenance`: two cycles one after the other, the second finding what the
  first left when it died; a target, another source file that tests write, and
  a file that only builds write, under an excluded name.
- `work`: one service, two consumers, `MaxEvents` 3: notified, affected again,
  and confirmed or retracted again. `OneIssuePerWork` needs two notifications
  to break, `NotifiedIsCurrent` a notification and a later head.
- `plan`: documents that vary one operation's parameters and responses in
  detail (a place, a type or an obligation that changes, two parameters of one
  name, one without a name, a field that two statuses have, a body), and
  documents assembled from five operations with nested, templated and overloaded
  routes; repositories of a line or two.
- `compress`: the engines' limits are reduced with the outputs (`MCCompress`
  gives the code's figures in comments): every selection rule competes for a
  budget of a few lines, over alphabets that exercise it. Two families exist for
  the exceptions the properties name: `boasting` (logs whose warnings score as
  high as the first failure) and `clusters` (arrays whose outliers a plan by
  clusters may pass over).
- `services`: two files, four providers of which two share a call chain, a file
  with an alias bound to two SDKs, an unreadable lockfile, three workflow steps
  with every dependency, every way four commands may end.
- `compartments`: two containers, at most three compartments; on one thread one
  after the other or within each other, on two threads by turns or side by side;
  kernels with Landlock 0, 2, 4 and 8, macOS and others; each fault of snapshots;
  a working directory is one content; `MaxEdges` 1.

### Fairness

`EveryHuntEnds` assumes `WF_vars(Timed(h))`: of a call of `run_hunt` that has
begun, the steps go on that have a timeout or compute locally, that is the wait
for the lock, the model calls, the install and test commands, the git queries
and worktree commands, and copying files. The commands of a publication are left
out: `git branch`, `add`, `commit` and `push` and `gh pr create` run without a
timeout (`K/git_ops.py:20-33`, 48), and a push may wait for credentials for ever.
A hunt that has come to them may stay there, and the others then end at the
lock's timeout. The property says just that.

`ImpactIsDecided` assumes `WF_vars(Step(t))` for the two threads of `WorkImpact`
(`FairSpec`): an operation that began makes its next call, since HTTP calls have
timeouts. It assumes nothing of the sweep and of the time: the watch loop is off
unless `--watch N` is given (`K/cli/main.py:2255`, 2772), and a round of it that
raises does not reach its sweep. `WatchedSpec` adds both, for those who do start
it; it serves only to refute `PendingIsEvaluated` (section 5) even so.

Nothing is assumed of users, events, developers or crashes; a crashed hunt
counts as ended.

## 4. What is proved

TLAPS checks seven modules of proofs (planning and services share one) and one
of lemmas: 40 theorems, of which 38 state a property that some run checks. Every theorem holds
for all constants that satisfy the assumptions named with it; what else it needs
is a hypothesis of the theorem, and TLC confirms on small instances which of the
hypotheses the code cannot do without.

### Hunt

The assumptions are `CheckoutAssumption` and `HuntAssumption` only (distinct
special values, constants of the right kind, at least one attempt); `Hunts`,
`Files`, `Contents` and the attempt bound are arbitrary.

| theorem | states | needs |
|---|---|---|
| `TypeCorrect` | `Spec => []TypeOK` | - |
| `LockHeldInside` | `Spec => []LockMatchesHolder` | - |
| `MutualExclusion` | `Spec => []OneHuntInside` | - |
| `RepairGate` | `Spec => []SealedRepairIsEarned` | - |
| `BoundPromotion` | `Spec => PromotionOntoBoundCommit` | flock; a developer who neither commits nor switches |
| `RefusalRestores` | `Spec => []RefusalLeavesNoTrace` | flock; a developer who neither edits nor switches; complete snapshots |
| `NothingHeld` | `Spec => []NothingHeldAfterwards` | git worktree commands that answer |
| `AuditsBackPushes` | `Spec => AuditBacksThePush` | one hunt per finding |
| `PushesCarryTestedFiles` | `Spec => PushCarriesTestedFiles` | flock; one hunt per finding, or one finding for all; a developer who neither edits nor switches |
| `CommitsCarryOnlyTheRepair` | `Spec => CommitCarriesOnlyTheRepair` | flock; a developer who stages nothing; no crash and no failing commit, or a single hunt |

The hypotheses are necessary: TLC refutes each property without them. With three
hunts, of one finding, of another and of the first again, a push carries
untested files though no developer is there: the third cannot switch back to its
branch (section 5). A commit between the binding check and the copy goes unnoticed
(`verify_sandbox_binding` runs once, before the loop that copies); `restore`
undoes what a developer edited meanwhile and unlinks files the snapshot missed;
a second hunt of a finding, refused at the lock, overwrites the audit record;
what a failed commit or a kill leaves staged goes into the next hunt's commit.

The argument. `TypeOK` alone is not inductive: an attempt number stays in range
only because the loop tests it before beginning one, and a commit number can be
used as an index only after `GatherContext` stored it. `LocalsInOrder` says at
which stages the locals have those values; `IInv == TypeOK /\ LocalsInOrder` is
inductive (`InitTyped`, `StepTyped`, one lemma per group of actions).
`LockMatchesHolder` is inductive relative to it, since every step of a hunt
stays on its side of the lock, except for acquiring and leaving (`SameSide`),
and mutual exclusion follows. For the repair gate, `Earned(h)` adds what holds
at `judge` (the verdict is of the tree in the sandbox), and `OthersUntouched`
shows that no other hunt or developer touches the evidence of `h`. The two
recovery theorems use mutual exclusion to show that between snapshot and
restore, or between binding and copy, nobody else writes (`OneWriter`), and
then follow one hunt through its stages (`Bound`, `Restorable`). The four that
follow have an invariant each, on the same ground. `Tidy(h)` says which stages
own a sandbox and that the others have none. `Audited(h)` keeps the record of a
finding "verified" from the seal to the push. `Carried(h)` says that the files
on disk, then in the commit, then on the branch, are the tested ones, which
needs that the hunt will get onto its branch (`Reachable`): no other hunt creates
it, or none ever leaves it (`NoBranchBefore`, `ReachableToOthers`). `StagedByHunts` says that the hunt about to commit has staged
its repair only, and that otherwise nothing is staged as long as a commit is
still to come.

### CCR store

From `ThreadsAssumption`, `CapacityAssumption`, `TimeAssumption` and
`KeysAssumption` (finitely many threads, a capacity of at least one, a lifetime,
finitely many keys):

| theorem | states |
|---|---|
| `TypeCorrect` | `Spec => []TypeOK` |
| `OvershootHolds` | `Spec => []Overshoot` |
| `LiveEntriesAreKept` | `Spec => LiveEntriesLeaveOnlyWhenFull` |
| `EvictionPrefersExpired` | `Spec => ExpiredGoFirst` |
| `CcrRefinesCache` | `Spec => CacheSpec` |

`Overshoot` counts a thread between eviction and insertion as the entry it will
add; so stated it is inductive with the types: an eviction (a step of
`OvershootStep`) leaves room for one, and `LenWith` and `Sizes` say what an
insertion does to the size. For the refinement time, threads and the sections
of a put are hidden (`held` is the payloads, `Bound` is the capacity plus the
number of other threads). `StoreRefined` shows an insertion to be a `Store`,
which needs the bound and so `Overshoot'`; an eviction is a `Forget`, a get a
`Read`, and the look that finds the store full a stutter (`StepRefined`).

### Maintenance

From `ScratchAssumption` and `ContentsAssumption` (what tests write and what is
patched are files; "absent" is no content). `~Overlap` says that cycles of one
checkout follow one another, which nothing in the code enforces (hazard at
`K/pipeline.py:668`).

| theorem | states | needs |
|---|---|---|
| `TypeCorrect` | `Spec => []TypeOK` | - |
| `RestoresAreBacked` | `Spec => []ManifestIsBacked` | `~Overlap` |
| `RollbacksAreExact` | `Spec => RollbackIsExact` | `~Overlap` |
| `SuccessesKeepThePatch` | `Spec => SuccessKeepsThePatch` | `~Overlap`; no patched file that tests write |
| `PatchesAreAnsweredFor` | `Spec => []PatchesAreAccountedFor` | `~Overlap`; no patched file that a snapshot excludes |

TLC finds a counterexample without each of them. The code ensures neither of the
last two: the walk that looks for files to patch (`K/maintenance.py:143`) skips
fewer directories than the snapshot does (`venv`, `target`, `build`, `dist` and
more are patched but never restored).

The argument. `Alone` says that one cycle runs and that no other cycle's manager
works; it makes `Sound(c)`, a statement on the running cycle, inductive. Its
parts follow the snapshot directory from the moment it is emptied: `Clearing` and
`Copying` say which copies are still those of an earlier cycle and which are
already those of this one, `Backed` that a manifest, once written, is the tree
the snapshot saw, file by file, `Restoring` and `Sweeping` what of it is back on
disk, `RolledBack` what a report then finds. So a crash in the middle of a
snapshot harms no later cycle: what it leaves is emptied before it is read.

### Cross-repository impact

From `WorksAssumption` and `CandidateAssumption`:

| theorem | states | needs |
|---|---|---|
| `TypeCorrect` | `Spec => []TypeOK` | - |
| `OneIssueEach` | `Spec => []OneIssuePerWork` | `~Overlap`; neither "failed" nor "lost" in `Faults` |
| `NoticesAreCurrent` | `Spec => []NotifiedIsCurrent` | `~Overlap`; "failed" not in `Faults` |

TLC refutes both properties when the threads overlap or a call fails, and
`OneIssuePerWork` when an answer is lost. Missing credentials do no harm.

An operation works on its own copy of the graph, and GitHub is ahead of the copy
from the creation of an issue to the next save. The invariant therefore speaks
of the graph that counts (`LatestIn`: the copy of the thread that works, while
it notifies, retracts or saves, and the file otherwise). There every notice
stands for an issue of its own in the state the notice says; a notice without a
url, which a lost answer leaves, stands for one that no notice names and that so
stays as it is (`Orphaned`); and where no answer is lost every issue has its notice and no
target has two open ones (`FaithfulTo`); a NOTIFIED candidate with nothing to
evaluate has told every target of its head (`Fresh`). `Account(t)` says at which
stage the second is suspended, and what is left to do to restore it.

### Planning

From `DocumentsAssumption` and `RepositoriesAssumption`: documents, repositories
and what is searched for are finite, parameters come in a row, statuses are
numbers, and the order of endpoint keys knows every operation. Nothing else is
needed; what `CleanMeansCompatible` supposes of two versions of an operation
(`RequestsAreRead`, `AnsweredOnlyWith`) is part of the property.

| theorem | states |
|---|---|
| `CleanIsCompatible` | `Spec => []CleanMeansCompatible` |
| `DifferenceHolds` | `Spec => []DiffIsExact` |
| `StatusHolds` | `Spec => []StatusMatchesTargets` |
| `UnambiguousCallsHold` | `Spec => []UnambiguousCallsAreClassified` |
| `ReferencesHold` | `Spec => []ReferencesAreAccountedFor` |

The invariant, `Computed`, says that each variable is what the engines compute
from the documents and the repository. The rest is about the operators: that
each difference of two contracts is reported with a severity and each report
comes from one; that the severities partition the changes, so that counts add up
(`CleanMeansCompatible` rests on the count of breaking and warning changes being
zero, and then goes back from the parsed contracts to the documents:
`OperationRead` says what the parser made of an operation, and where names are
unique and a field comes with one status that is the parameter or the field
itself); that the classes of references are disjoint and cover what the scan
found; that a call chain one operation can be filed under is filed there.

### Services

From `ServicesAssumption`: providers, the URLs and methods they are known by,
and the lines of a repository are finite, packages come in a sequence, and a
workflow is a sequence of steps with a name and a sequence of names.

| theorem | states |
|---|---|
| `VerdictsAreEarned` | `ServicesSpec => []VerdictIsEarned` |
| `AuditsMatch` | `ServicesSpec => []AuditMatchesInventory` |
| `OrdersAreSound` | `ServicesSpec => []OrderIsSound` |

The invariant, `Served`, says that what is asked does not change and that the
answer, once there, is what the engine gives to it. What each engine gives:

- verdict: an exit code of 0 stands for a command that ended well, whichever
  way the others failed (`ExitCodeTells`), so the classification, which reads
  exit codes, speaks of outcomes (`EvidenceIs`);
- audit: a node of the graph stands for a provider and a callsite, so the nodes
  of the providers are apart and add up to the inventory's total (`CallsAddUp`,
  from `DisjointSum`). The callers of a provider are read off the edges, which
  know a callsite's file, line and column only; they are its own nodes where no
  such place is a callsite of two providers (`NoSharedCalls`, `CallersAre`). That hypothesis is part of the property: without it
  the two do count differently (section 5);
- order: the engine counts, for each step, the dependencies not yet taken,
  where a name that nobody has counts for ever. If all names are known, the
  count is zero exactly when all dependencies are taken (`ReadyIs`). The queue
  keeps `InOrder`: each step is named once, after all it depends on
  (`OrderGrows`). Conversely, if the queue stops short, every step left depends
  on a step left (`NextReady`); walking from one to the next for as many steps as
  the workflow has meets one twice (`WalkNeeds`, `StuckIsCyclic`, a pigeonhole
  argument), which is a cycle of `Needs`. And an order excludes a cycle, because
  every path of `Needs` leads to an earlier place (`NeedsWithin`).

### Compression

From the assumptions on the limits (`SizerAssumption`, `LogAssumption`,
`DiffAssumption`, `TextAssumption`, `CrusherAssumption`: they are natural
numbers, and an array small enough to be kept whole may have two elements at
least) and on the outputs (`OutputsAssumption`: sequences of lines with levels,
sizes and finite sets of words).

| theorem | states |
|---|---|
| `FirstFailureHolds` | `Spec => []FirstFailureIsKept` |
| `SignalsAreKept` | `Spec => []SignalsAreKeptFirst` |
| `DroppedRowsHold` | `Spec => []DroppedRowsAreStored` |
| `DroppedTextHolds` | `Spec => []DroppedTextIsCovered` |
| `ShownHunksHold` | `Spec => []ShownHunksKeepTheirChanges` |

`Answered` says that what is handed on is the answer of the engine the output was
routed to. Then, engine by engine:

- log: a selection is cut to the budget by score (`IsCut`), and a line that is
  cut leaves only lines that score more, or as much and come earlier;
- text: a segment is left out because what was kept when its turn came met the
  target, or because it repeated that (`TextIsCut`);
- JSON: `RowsAre` is what every plan of `prioritize_indices` delivers whatever
  it began with, `StringsKeep` and `NumbersKeep` what the two other array
  engines do;
- diff: `ReadTo(n)` says that after n lines the parser has lost no change of a
  hunk, open or closed (`ReadGoesOn` is one more line); then no stage between
  the parse and the output loses one of a hunk it keeps: files
  (`FilesAreKept`), hunks (`HunksAreSelected`), context (`ChangesAreKept`) and
  the printing (`ChangesArePrinted`).

Two of these properties were stated too strongly before: TLC had found them true
on its instances, the proofs did not go through, and larger instances refuted
them. `FirstFailureIsKept` had no exception for warnings that are summaries
within a trace: they too score 100 and, coming first, can take all the places.
`SignalsAreKeptFirst` counted outliers among the rows that stay first; the plans
by clusters and by score never add them unless they are over the budget. The
families `boasting` and `clusters` of `MCCompress` now hold the counterexamples.
`DroppedTextIsCovered` was about the default configuration and now is about any,
and the promises on strings and numbers became stronger.

### Compartments

From `ContainerAssumption` (each container has a working directory and a thread;
"no tree" and "damaged" are no contents), for any kernels, threads and faults:

| theorem | states | supposed in the property |
|---|---|---|
| `BoxesAlwaysConfine` | `Spec => BoxesConfine` | Landlock 3 or later, since truncation is not confined before |
| `PoliciesAlwaysInForce` | `Spec => []PoliciesInForce` | runs are not side by side on two threads |
| `FailuresAreUndone` | `Spec => FailureIsRolledBack` | runs do not overlap; no fault of snapshots, no tampering |
| `MessagesAlwaysArrive` | `Spec => []MessagesArrive` | - |

TLC refutes `PoliciesInForce` without `Sequential` and `FailureIsRolledBack`
without `setup.faults = {}`. The code ensures neither: section 5.

The invariant is `Typed`, `InOrder` (a compartment that runs is one of the
order's), `Nested` (the runs of a thread are within one another, and all but the
innermost are inside a compartment), `Sole` and `OneAtATime` (one thread is at
work where runs are not side by side, one container where they do not overlap),
`Confined` (a thread's layers include those of every box on it that reports them
applied, and a box that could be entered can be written to), `Enforced` (the
patched functions check the policies of the compartments that run, and each
enforcer has saved the functions that check those of its callers) and `Saved`
(without faults, what will be restored is what the compartment found). `Enforced`
is inductive only with what the enforcers saved: a run that ends leaves the
policies of the runs around it because that is what it found.

For the messages it is joined by `Flows`, a statement on each container: there is
a sequence of what was delivered so far; with the outbox behind it, it is all
that was sent, and a compartment still to come has its share of it, in that
order, in its queue (`Waits`). For one that has begun, what was sent falls into
what was delivered by then, which it was given, what lay in the outbox of
compartments that had failed, and what was sent later by itself and its
successors (`Given`), so that nothing it was due is in the last two parts. The
rest is about `Only`, the messages of a sequence that are in a set, as one
appends, concatenates and selects twice (`OnlyGrows`, `OnlyJoined`, `OnlyTwice`).

### Induction over data

The library's induction theorems take the claim as an operator, which no prover
here can instantiate. `FiniteFolds` argues with a smallest counterexample
instead: on the subsets of a finite set strict inclusion is well founded
(`FS_StrictSubsetOrderingWellFounded`), so a set of subsets on which a claim fails
has a minimal element (`Smallest`), and that is a first-order fact. In this way
it proves what `MapThenSumSet` and `FoldLeft` compute: sums of disjoint unions,
of zeros and ones, monotony, a last element for every order, unions of disjoint
parts. The diff parser, which is a recursive function on line numbers, and
`FlattenSeq` are reasoned about in the same way in `CompressionProofs`, and `Only`
on growing sequences in `ContainerProofs`. `RunExists` gives what a recursive
function over 0..n is (a first value, and a step from each to the next), and
`Climb` carries a claim along it: the queue of the topological order, the paths
of `Needs` and the walk through a stuck workflow.

### What is only model-checked

- Liveness: `EveryHuntEnds` and `ImpactIsDecided`, since the prover has neither
  ENABLED nor fairness.

Every other property of a passing run is stated by a theorem. Some of the
theorems need hypotheses, which their tables name; where TLC finds a
counterexample without one, the text says so.

## 5. Disagreements without a run of their own

Where the code does something else than one of its documents, comments or names
says, beside the two violation runs. All are in the models unless noted.

Hunt:

- The next hunt overwrites a verified repair left uncommitted for review
  (`K/hunt.py:1736`; the lock's docstring at 1615 says it serializes to prevent
  clobbering), and a developer's uncommitted work in a patched file alike.
- `git checkout <old branch>` may fail unseen (`K/git_ops.py:20`); the commit
  lands elsewhere and the old branch is force-pushed and reported. It takes no
  developer: hunts leave the checkout on their branch, so one that comes back to
  a finding after a hunt of another is refused where both repaired one file, and
  `PushCarriesTestedFiles` fails with three hunts and one file.
- Files the developer staged are committed with the repair (`K/git_ops.py:26`;
  `README.md:179` promises zero unintended files).
- The loser of the lock overwrites the audit record of the same finding
  (`K/hunt.py:1183`).
- Answering yes to "Raise PR?" publishes nothing (`K/cli/main.py:2117`).
- A commit by the developer between binding check and copy goes unnoticed
  (theorem `BoundPromotion` has to exclude it); `evaluate_scope` lets a path
  pass that ends with a declared one (`Fits`).

Maintenance: "100% Contained" (`K/github/trust_pr.py:142`) is measured before
the tests run; "Rollback: APPLIED" (`K/cli/main.py:2354`) is printed also when
nothing was rolled back.

Work impact:

- A warning that the sweep retracts stays open. `reconcile_prior_notification`
  is called by the push handler only, and only for candidates that were
  NOTIFIED before the push; `docs/CROSS_REPO_WORK_IMPACT.md:39` says "retracted
  impact posts a correction and closes it". `RetractedIsClosed` states it; TLC
  refutes it with one thread and no fault. A target dropped by a later
  evaluation that still finds others keeps its issue as well.
- A push coalesced on an OBSERVED candidate is never evaluated: the sweep looks
  at POTENTIAL ones and nobody reads `eval_pending`
  (`docs/CROSS_REPO_WORK_IMPACT.md:32`, "rapid pushes coalesce; the sweep
  evaluates the latest head only"). `PendingIsEvaluated` states it; TLC refutes
  it even under `WatchedSpec`, a watch loop that comes back for ever.
- The GitHub client returns failures instead of raising them
  (`K/github/client.py:145`), so the handlers in `notify_confirmed` never run:
  a failed creation leaves a NOTIFIED candidate without issue and a notice
  without url, which is found first on every later head and files a new issue
  each time; a lost answer does the same beside an existing issue. With
  "failed" in `Faults` TLC refutes `NotifiedIsCurrent` and `OneIssuePerWork`,
  with "lost" the latter.
- With `Overlap = TRUE` (webhook and watch thread at once) all three properties
  of run `work` are refuted: a save overwrites a push recorded meanwhile, a
  read between truncation and write finds an empty graph, both threads file the
  issue.
- An exception or a restart in the middle of an operation is not in the model. A
  kill between truncation and write leaves the empty graph for good; one after
  GitHub created an issue and before the save (`K/cross_repo.py:346`) leaves no
  notice of it, and the next head files a second issue. `sweep_quiet` saves
  every quiet candidate as STABLE before the first is evaluated
  (`K/cross_repo.py:413`), and later sweeps select POTENTIAL ones only: what a
  sweep does not reach, because it raised (`K/github/watch.py:99` catches that)
  or the daemon was restarted, stays STABLE until the next push, against the
  docstring "Quiet POTENTIAL -> STABLE -> evaluate latest -> confirm+notify (or
  silent retract)" (411).
- GitHub's event name is `pull_request`, the handler tests for
  `pull_request.` (`K/github/pr_bot.py:488`, `K/github/webhook_server.py:23`):
  `pr_fastpath` is reached through other callers only. `HowlBot` sets
  `readonly` on a client it is given. (Neither is in the model.)

Planning: "provably unaffected" (`E/autopatch/resolver.rs:333`) is said of every
known call chain of another operation, also when two operations share the chain
and the later one replaced the earlier in the index; the contract test of a
removed field asserts that the field is there (`E/autopatch/contracts.rs:203`);
"No circular dependencies (simple check)" (`E/autopatch/workflow.rs:59`) finds
self-dependencies only; an audit counts a callsite of two providers for each
(`README.md:103-118`). An alias bound to the SDKs of two providers in one file
gives such callsites too (`E/ast/locator.rs:115-130`): two hits at one file, line
and column, which share an id (`E/graph/builder.rs:112`), so the graph has two
callers of each provider where the inventory has one. A command that could not
be started, or was stopped, counts as the red run of a replay
(`E/autopatch/evidence.rs:108`).

A plan also says Clean where callers do break, by what `parse_spec` and
`diff_specs` do not look at. In the model: a request body, which is never read
(`E/schema/parser.rs:83`); a parameter that moves, say from the query to the
path; parameters of one name, of which the last is kept; a field that goes from
one status to another, since the fields of all statuses go into one map. TLC
refutes `CleanMeansCompatible` without `RequestsAreRead`, which excludes the
first three. Not in the model: schemas behind `$ref`, media types other than
`application/json`, parameters of a whole path, and arrays at the root of a
response are not read either.

Compression: the range in the pager's hint leaves out dropped rows, and
`koyote_expand` exists nowhere (`E/compression/smart_crusher/crusher.rs:369`,
463); the diff engine prints its marker though it has no store
(`E/compression/diff_compressor.rs:294`); a build log with a diff header in its
first lines is taken for a diff and loses its unparsed lines; a deleted line
that begins with `-- ` is parsed as a header.

Compartments:

- Messages of a failed compartment wait in its outbox and are delivered with the
  next one's (`K/compartments/runtime.py:168`); neither `allow_inbound_from`,
  `allow_outbound_to` nor the edges are consulted when a message is queued
  (`K/compartments/runtime.py:196`, against `docs/API_REFERENCE.md:45`).
- Two runs side by side, on two threads, check each other's policies, and the
  one that leaves first puts back the functions it found, so that the other goes
  on without its own. `tests/test_hostile_concurrency.py:49` expects "Two
  instances running simultaneously with opposing policies", each under its own.
  `OwnPolicyDecides` states that; TLC refutes it with two containers on two
  threads and `overlap`, and `PoliciesInForce` without `Sequential`.
- A policy keeps a compartment from a fixed list of functions
  (`K/sandbox/enforcer.py:40-77`). `io.open`, which `pathlib` uses,
  `os.truncate`, `os.link`, `os.exec*` and references taken before the run are
  not among them, and change files without `fs_write`. The model therefore does
  not let the policy guard what a compartment does.
- A roll-back is as good as its snapshot. Files that cannot be read and dangling
  links are skipped (`K/sandbox/snapshot.py:63`), and restore unlinks them as
  generated ones (124); errors of copying back are logged only (108), while
  those of `makedirs` (104) leave the run; without a manifest nothing is restored
  (74), and manifest and copies lie in the working directory
  (`K/koyote.py:66`), where the compartment can change them. An interrupted
  compartment is not rolled back at all.
- Before Landlock 8 only the thread that enters a box is confined, though the
  box reports its sandbox applied; truncation is unconfined below Landlock 3.
- `timeout_s` is never enforced; the run order ignores edges.

## 6. Inventory

| component | state | hard behaviour | correct when | status |
|---|---|---|---|---|
| hunt (`K/hunt.py`, `hunt_ports.py`) | checkout, sandbox, lock, audit record | parallel hunts, a live developer, exceptions, kills, retries | only earned repairs are promoted; refusals leave nothing; what is pushed was tested | partly: not the text of prompts and bodies, nor detection |
| git and Python snapshots (`K/git_ops.py`, `sandbox/snapshot.py`) | index, branches, snapshot | failing commands nobody looks at | restore gives back what snapshot saw | modelled |
| AI planner (`K/ai_planner.py`, `llm.py`) | files | arbitrary answers | edits stay where they are declared | partly: its edits |
| snapshot manager (`src/runtime/snapshot.rs`) | copies, manifest | crashes between files | a manifest is backed by its copies | modelled |
| maintenance (`K/maintenance.py`, `test_runner.py`) | checkout, snapshot directory | exceptions, retries, missing tests | failure restores, success was tested | partly: not the search for a patch, nor the PR |
| pipeline, agents (`K/pipeline.py`) | as above | overlapping runs of one checkout | - | not modelled: the same cycle around other detectors |
| schema, AST, autopatch planning (`E/schema`, `E/ast`, `E/autopatch`) | none | boundaries, ambiguous routes, what the parser does not read | Clean means compatible in what is compared; nothing lost between classes | modelled |
| inventory, graph, workflow, evidence (`E/graph`, `E/autopatch`) | none | separate scans, cycles, commands that do not run | they agree; verdicts are earned | partly: not lock file text, nor diagnostics |
| compression (`E/compression`) | none, but the JSON engine's store | limits, competing rules | what matters is kept or can be asked for | partly: see section 7 |
| CCR store (`src/runtime/ccr`) | bounded map | three lock sections in one put | it is a bounded cache | modelled |
| compartments, box, enforcer, sandbox (`K/compartments`, `K/sandbox`, `src/sandbox`, `src/runtime`) | queues, files, patched functions, kernel layers | failures in the middle, several runs in one process, nested or on threads | messages, roll-back, confinement, policies in force | partly: not the wrapped functions one by one, command lists, handlers of events |
| work graph, cross-repository impact (`K/work_graph.py`, `cross_repo.py`) | one JSON file, issues | unlocked threads, partial saves, failing calls | one current issue per affected work; impact is decided | partly: not `request_hunt_repair`, nor exceptions and restarts within an operation |
| GitHub side (`K/github/*`) | installation records, `last_watch` | threads, failing pipelines | a change is processed until its pipeline succeeded | partly: push handler and sweep |
| sessions and lanes (`K/engine/*`) | worktrees, processes | agents in parallel | no lane is lost | not modelled |
| CLI, configuration (`K/cli`, `config.py`) | files | - | - | partly: `cmd_hunt` |
| credential proxy, drift, knowledge, providers, audit, redaction, rendering, MCP, SDK | - | - | - | not modelled |

The CLI, the webhook server and the watch thread call hunt, maintenance and the
work graph in one process or several; all of them meet on the file system
(checkout, `.koyote/`, the graph file), which is why many hazards in
`PROJECT.json` are about files that two actors use.

## 7. What the models leave out, and why

Hunt:

- Files the install step or the test command write in the sandbox: they would be
  in neither the scope check nor the tested tree.
- `.koyote/` itself, which `restore` and the dirty set skip.
- Path escapes and symlinks out of the sandbox: they end in `RefusePromotion`
  like every other file that cannot be promoted.
- The sandbox directory vanishing during a run, and repositories without git.
- The branch of the attempt loop for patches that fail to seal: it cannot be
  reached once the measured scope is accepted, since the loop and the sealer
  evaluate the same function on the same values.
- The bound of 30 candidates and the sharing of one `snapshot_tmp` directory by
  two hunts of one finding without fcntl.
- The text of prompts, reports and pull requests; `gh_create_pr`, which does
  not change what is pushed.
- `list_findings`, `persist_findings`: detection, a cache file.

Elsewhere:

- JSON engine: the TimeSeries plan, change points and numeric statistics (which
  plan is chosen is left open), and the compaction into a table, which keeps
  every row. `bm25.rs` and `anchors.rs` rank by a query, and no caller passes
  one.
- Compartments: entering and leaving an enforcer, and a hook with its whole
  restore, are one step each, so that two threads do not interleave within them;
  a working directory is one content, and what a faulty restore makes of it any
  content. Handlers of emitted events, the shared state but for the outbox,
  lists of allowed commands and the functions one by one are left out. So are
  threads a compartment starts, which inherit its confinement, and
  `enable_snapshot`, which acts as `auto_modules` does.
- Planning: of a document, what section 5 lists as not read, but for bodies,
  places, names and statuses; statuses are numbers.
- Work impact: exceptions and restarts within an operation (section 5);
  `request_hunt_repair` (an explicit call that leaves the
  candidate as it is), how the exact pushed revision is obtained, the link
  comment on an open request.
- GitHub: installation records and `last_watch`, which the watch thread saves
  from a copy it read before its pipelines ran; comments and their commands;
  checkouts. Planned.
- Sessions and lanes: their state is processes and ptys of the operating system.
- Formats: lock files, prompts, reports, markdown, the credential proxy's
  header. Nothing depends on them later.

## 8. Plan

`Installations`: the records and `last_watch`, with `WorkImpact`'s threads; after
it, request handling of the bot and the compaction of tables.
