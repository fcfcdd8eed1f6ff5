-------------------------------- MODULE Hunt --------------------------------
(***************************************************************************)
(* Hunt: the autonomous repair loop run_hunt of python/koyote/hunt.py with *)
(* the sealing rules of hunt_ports.py.                                     *)
(*                                                                         *)
(* Every element of Hunts is one invocation of run_hunt.  All of them work *)
(* on the one checkout of module Checkout, which a developer keeps using   *)
(* meanwhile.  A hunt takes the repository lock, copies the commit it      *)
(* found into a sandbox, lets the model author and judge a bounded number  *)
(* of attempts there, and only with a sealed repair in hand promotes the   *)
(* patched files to the checkout and, when approved, pushes a branch.      *)
(*                                                                         *)
(* What the model decides (which files are affected, what to write,        *)
(* whether the evidence convinces it) and what the project's tests say are *)
(* nondeterministic choices.                                               *)
(***************************************************************************)
EXTENDS Checkout

CONSTANTS
    Hunts,             \* invocations of run_hunt
    FindingOf,         \* hunt -> the branch name of its finding
    NoHunt,
    Relevant,          \* the finding's own candidate files
    SuffixOf,          \* <<c, d>>: path c ends with path d
    Drafts,            \* what the model may write into a file
    DevContent,        \* what the developer writes into a file
    MaxAttempts,       \* max_iterations
    Flock,             \* the platform has fcntl
    Faults,            \* "snapshot", "git", "commit", "push", "crash": may fail
    DevMoves,          \* "edit", "stage", "commit", "switch"
    MaxDevMoves,       \* bound on the developer's moves
    DevMeanwhile       \* the developer also moves while a hunt is running

Findings == Branches

ASSUME HuntAssumption ==
    /\ NoHunt \notin Hunts
    /\ FindingOf \in [Hunts -> Findings]
    /\ Relevant \subseteq Files
    /\ SuffixOf \subseteq Files \X Files
    /\ Drafts \subseteq Contents
    /\ DevContent \in Contents
    /\ MaxAttempts \in Nat \ {0}
    /\ Flock \in BOOLEAN
    /\ MaxDevMoves \in Nat
    /\ DevMeanwhile \in BOOLEAN

VARIABLES
    lock,        \* holder of the flock on .koyote/hunt.lock
    pc,          \* where run_hunt stands
    outcome,     \* the HuntReport it is going to return
    locals,      \* what the call keeps in local variables
    sandbox,     \* the tree in the sandbox directory
    token,       \* files of the VerifiedRepair, {} while there is none
    pushed,      \* publish() returned a URL
    answered,    \* the user said yes to "Raise PR?"
    audit,       \* finding -> its audit.json
    avoid,       \* findings on the avoid-list
    manifest,    \* finding -> the manifest in its snapshot_tmp directory
    devLeft,     \* moves the developer has left
    tested,      \* history: the tree the last test run saw
    entry        \* history: the work tree when the lock was taken

reportVars == <<outcome, token, pushed, answered>>
diskVars   == <<audit, avoid, manifest>>
restVars   == <<devLeft, entry>>
vars == <<gitVars, lock, pc, reportVars, locals, sandbox, diskVars, restVars,
          tested>>

Stages == {"idle", "lock", "gather", "sandbox", "snapshot", "baseline",
           "reason", "author", "verify", "judge", "settle", "bind",
           "promote", "decide", "branch", "add", "commit", "push",
           "finish", "ended"}
\* Between acquiring the lock and the end of the finally block.
Inside == Stages \ {"idle", "lock", "ended"}

Refusals == {"refused_unverified", "refused_binding", "refused_promotion",
             "refused_promotion_integrity"}
Outcomes == Refusals \cup {"none", "refused_early", "refused_lock",
                           "verified", "raised", "crashed"}

\* run_verification: exit 0, anything else or a timeout, or no test command.
Verdicts == {"green", "red", "nocommand"}

Locals == [attempt   : 0..MaxAttempts,      \* iterations begun
           sha       : Nat,                 \* ctx.commit_sha
           linked    : BOOLEAN,             \* sandbox.worktree_created
           baseline  : SUBSET Files,        \* baseline_dirty
           declared  : SUBSET Files,        \* reasoning.affected_paths
           forbidden : SUBSET Files,        \* reasoning.must_not_change
           candidates : SUBSET Files,       \* candidate_abs
           patched   : SUBSET Files,        \* files of the sealed patches
           changed   : SUBSET Files,        \* evidence.changed_files
           exit      : Verdicts \cup {"none"},
           promoted  : SUBSET Files]        \* files copied so far

NoLocals == [attempt |-> 0, sha |-> 0, linked |-> FALSE, baseline |-> {},
             declared |-> {}, forbidden |-> {},
             candidates |-> {}, patched |-> {}, changed |-> {},
             exit |-> "none", promoted |-> {}]

Audits == [final : Outcomes, pr : BOOLEAN]

LocalsTypeOK ==
    /\ locals \in [Hunts -> Locals]
    /\ \A h \in Hunts : locals[h].sha <= Len(commits)

HuntTypeOK ==
    /\ lock \in Hunts \cup {NoHunt}
    /\ pc \in [Hunts -> Stages]
    /\ outcome \in [Hunts -> Outcomes]
    /\ sandbox \in [Hunts -> Tree \cup {NoTree}]
    /\ token \in [Hunts -> SUBSET Files]
    /\ pushed \in [Hunts -> BOOLEAN]
    /\ answered \in [Hunts -> BOOLEAN]
    /\ audit \in [Findings -> Audits]
    /\ avoid \subseteq Findings
    /\ manifest \in [Findings -> Tree \cup {NoTree}]
    /\ devLeft \in 0..MaxDevMoves
    /\ tested \in [Hunts -> Tree \cup {NoTree}]
    /\ entry \in [Hunts -> Tree \cup {NoTree}]

TypeOK == CheckoutTypeOK /\ HuntTypeOK /\ LocalsTypeOK

Init ==
    /\ CheckoutInit
    /\ lock = NoHunt
    /\ pc = [h \in Hunts |-> "idle"]
    /\ outcome = [h \in Hunts |-> "none"]
    /\ locals = [h \in Hunts |-> NoLocals]
    /\ sandbox = [h \in Hunts |-> NoTree]
    /\ token = [h \in Hunts |-> {}]
    /\ pushed = [h \in Hunts |-> FALSE]
    /\ answered = [h \in Hunts |-> FALSE]
    /\ audit = [b \in Findings |-> [final |-> "none", pr |-> FALSE]]
    /\ avoid = {}
    /\ manifest = [b \in Findings |-> NoTree]
    /\ devLeft = MaxDevMoves
    /\ tested = [h \in Hunts |-> NoTree]
    /\ entry = [h \in Hunts |-> NoTree]

-----------------------------------------------------------------------------
(* Helpers.                                                                *)

At(h, stage) == pc[h] = stage
Goto(h, stage) == pc' = [pc EXCEPT ![h] = stage]
Keep(h, record) == locals' = [locals EXCEPT ![h] = record]

\* A refusal or a success: the report, the audit record and the way out.
Conclude(h, final, stage) ==
    /\ outcome' = [outcome EXCEPT ![h] = final]
    /\ audit' = [audit EXCEPT ![FindingOf[h]] = [final |-> final, pr |-> FALSE]]
    /\ Goto(h, stage)

\* Mutant of Refuse: the checkout is not restored.
RefuseWithoutRestore(h, final) ==
    Conclude(h, final, "finish") /\ UNCHANGED gitVars

Refuse(h, final) ==
    /\ Conclude(h, final, "finish")
    /\ work' = Restored(manifest[FindingOf[h]])
    /\ UNCHANGED <<index, head, tip, commits, remote>>

\* Mutants of Continue: one attempt too many; no way out after the last one.
ContinueOnceMore(h, begun) ==
    Goto(h, IF begun <= MaxAttempts THEN "reason" ELSE "settle")
ContinueUntilPatched(h, begun) ==
    Goto(h, IF begun < MaxAttempts THEN "reason" ELSE "author")

\* `continue` in the attempt loop: the next attempt, or the end of the range.
Continue(h, begun) ==
    Goto(h, IF begun < MaxAttempts THEN "reason" ELSE "settle")

\* evaluate_scope: paths fit when equal or when one ends with the other.
Fits(c, d) == c = d \/ <<c, d>> \in SuffixOf \/ <<d, c>> \in SuffixOf

InScope(declared, forbidden, measured) ==
    /\ measured # {}
    /\ \A c \in measured, m \in forbidden : ~Fits(c, m)
    /\ declared # {} => \A c \in measured : \E d \in declared : Fits(c, d)

\* sandbox_changed_vs_repo: git diff in a linked worktree, and when that is
\* empty the candidates that differ from the checkout.
MeasuredChange(l, tree) ==
    LET diff == Differing(commits[l.sha], tree)
    IN  IF l.linked /\ diff # {} THEN diff
        ELSE {f \in l.candidates : tree[f] # work[f]}

\* ai_interpret: a red run never solves, and an unusable answer fails closed.
Interpretations(l) == IF l.exit = "green" THEN BOOLEAN ELSE {FALSE}

\* Mutant of Sealable: the sealer trusts the loop's scope check.
SealableUnscoped(l, convinced) ==
    l.patched # {} /\ l.exit = "green" /\ convinced

\* seal_verified_repair: what it derives from the patches and the evidence.
Sealable(l, convinced) ==
    /\ l.patched # {}
    /\ l.exit = "green"
    /\ convinced
    /\ InScope(l.declared, l.forbidden, l.changed)

-----------------------------------------------------------------------------
(* Before the attempt loop.                                                *)

\* Unknown finding or no AI provider: refused before the lock is asked for.
RefuseEarly(h) ==
    /\ At(h, "idle")
    /\ Conclude(h, "refused_early", "ended")
    /\ UNCHANGED <<gitVars, lock, token, pushed, answered, locals, sandbox,
                   avoid, manifest, restVars, tested>>

Start(h) ==
    /\ At(h, "idle")
    /\ Goto(h, "lock")
    /\ UNCHANGED <<gitVars, lock, reportVars, locals, sandbox, diskVars,
                   restVars, tested>>

\* Mutant of Acquire: the file is opened and never locked.
AcquireUnguarded(h) ==
    /\ At(h, "lock")
    /\ lock' = h
    /\ Goto(h, "gather")
    /\ entry' = [entry EXCEPT ![h] = work]
    /\ UNCHANGED <<gitVars, reportVars, locals, sandbox, diskVars, devLeft,
                   tested>>

\* HuntLock.acquire: without fcntl it succeeds and holds nothing.
Acquire(h) ==
    /\ At(h, "lock")
    /\ \/ Flock /\ lock = NoHunt /\ lock' = h
       \/ ~Flock /\ UNCHANGED lock
    /\ Goto(h, "gather")
    /\ entry' = [entry EXCEPT ![h] = work]
    /\ UNCHANGED <<gitVars, reportVars, locals, sandbox, diskVars, devLeft,
                   tested>>

\* The deadline is looked at only after a failed attempt to lock, but a lock
\* file that cannot be opened refuses at once.
LockTimeout(h) ==
    /\ At(h, "lock")
    /\ Flock
    /\ Conclude(h, "refused_lock", "ended")
    /\ UNCHANGED <<gitVars, lock, token, pushed, answered, locals, sandbox,
                   avoid, manifest, restVars, tested>>

GatherContext(h) ==
    /\ At(h, "gather")
    /\ Keep(h, [locals[h] EXCEPT !.sha = tip[head]])
    /\ Goto(h, "sandbox")
    /\ UNCHANGED <<gitVars, lock, reportVars, sandbox, diskVars, restVars,
                   tested>>

\* create_sandbox: a detached worktree at the exact commit, or else a copy of
\* the tracked files as they are on disk.
CreateSandbox(h) ==
    /\ At(h, "sandbox")
    /\ \E worktree \in BOOLEAN :
         /\ Keep(h, [locals[h] EXCEPT !.linked = worktree])
         /\ sandbox' = [sandbox EXCEPT ![h] =
              IF worktree THEN commits[locals[h].sha]
              ELSE [f \in Files |-> IF index[f] = Absent THEN Absent
                                    ELSE work[f]]]
    /\ Goto(h, "snapshot")
    /\ UNCHANGED <<gitVars, lock, reportVars, diskVars, restVars, tested>>

\* snapshotter.snapshot(); an exception is swallowed and leaves no manifest, or
\* the one of an earlier hunt of this finding when it comes before the clearing.
TakeSnapshot(h) ==
    /\ At(h, "snapshot")
    /\ \/ \E skipped \in SUBSET Unreadable :
            manifest' = [manifest EXCEPT ![FindingOf[h]] = Captured(skipped)]
       \/ "snapshot" \in Faults /\ UNCHANGED manifest
       \/ "snapshot" \in Faults /\ manifest' = [manifest EXCEPT ![FindingOf[h]] = NoTree]
    /\ Goto(h, "baseline")
    /\ UNCHANGED <<gitVars, lock, reportVars, locals, sandbox, audit, avoid,
                   restVars, tested>>

RecordBaseline(h) ==
    /\ At(h, "baseline")
    /\ Keep(h, [locals[h] EXCEPT !.baseline = DirtySet])
    /\ Goto(h, "reason")
    /\ UNCHANGED <<gitVars, lock, reportVars, sandbox, diskVars, restVars,
                   tested>>

-----------------------------------------------------------------------------
(* The attempt loop.                                                       *)

\* reasoner.reason: declared affected paths and must-not-change paths; the
\* candidates are those paths, or the finding's, that exist in the sandbox.
Reason(h) ==
    /\ At(h, "reason")
    /\ \E declared, forbidden \in SUBSET Files :
         LET named == IF declared # {} THEN declared ELSE Relevant
             candidates == {f \in named : sandbox[h][f] # Absent}
             begun == locals[h].attempt + 1
         IN  /\ Keep(h, [locals[h] EXCEPT !.attempt = begun,
                                          !.declared = declared,
                                          !.forbidden = forbidden,
                                          !.candidates = candidates])
             /\ IF candidates = {} THEN Continue(h, begun)
                ELSE Goto(h, "author")
    /\ UNCHANGED <<gitVars, lock, reportVars, sandbox, diskVars, restVars,
                   tested>>

Edited(tree, draft) ==
    [f \in Files |-> IF f \in DOMAIN draft THEN draft[f] ELSE tree[f]]

\* The sandbox after authoring, and the patches that were sealed.
Patch(h, tree, sealed) ==
    /\ sandbox' = [sandbox EXCEPT ![h] = tree]
    /\ IF sealed = {}
       THEN Continue(h, locals[h].attempt) /\ UNCHANGED locals
       ELSE /\ Keep(h, [locals[h] EXCEPT
                          !.patched = sealed,
                          !.changed = MeasuredChange(locals[h], tree)])
            /\ Goto(h, "verify")

\* author.author edits the sandbox in place.  A written file is a changed
\* file and carries a sealed patch, unless the planner raised: then nothing is
\* sealed, and what was written stays written.
Author(h) ==
    /\ At(h, "author")
    /\ \E written \in SUBSET locals[h].candidates, raised \in BOOLEAN :
       \E draft \in [written -> Drafts] :
         /\ \A f \in written : draft[f] # sandbox[h][f]
         /\ Patch(h, Edited(sandbox[h], draft), IF raised THEN {} ELSE written)
    /\ UNCHANGED <<gitVars, lock, reportVars, diskVars, restVars, tested>>

\* Mutant of Verify: a green verdict is kept for the following attempts.
VerifyOnce(h) ==
    /\ At(h, "verify")
    /\ IF locals[h].exit = "green" THEN UNCHANGED <<locals, tested>>
       ELSE /\ \E e \in Verdicts :
                 Keep(h, [locals[h] EXCEPT !.exit = e])
            /\ tested' = [tested EXCEPT ![h] = sandbox[h]]
    /\ Goto(h, "judge")
    /\ UNCHANGED <<gitVars, lock, reportVars, sandbox, diskVars, restVars>>

\* verifier.verify: the project's own test command, when there is one.
Verify(h) ==
    /\ At(h, "verify")
    /\ \E e \in Verdicts :
         Keep(h, [locals[h] EXCEPT !.exit = e])
    /\ tested' = [tested EXCEPT ![h] = sandbox[h]]
    /\ Goto(h, "judge")
    /\ UNCHANGED <<gitVars, lock, reportVars, sandbox, diskVars, restVars>>

\* interpret, the scope check, the exit code, the interpretation, the seal.
Judge(h) ==
    /\ At(h, "judge")
    /\ \E convinced \in Interpretations(locals[h]) :
         IF Sealable(locals[h], convinced)
         THEN /\ token' = [token EXCEPT ![h] = locals[h].patched]
              /\ Goto(h, "bind")
         ELSE Continue(h, locals[h].attempt) /\ UNCHANGED token
    /\ UNCHANGED <<gitVars, lock, outcome, pushed, answered, locals, sandbox,
                   diskVars, restVars, tested>>

\* No attempt was sealed.
RefuseUnverified(h) ==
    /\ At(h, "settle")
    /\ Refuse(h, "refused_unverified")
    /\ avoid' = avoid \cup {FindingOf[h]}
    /\ UNCHANGED <<lock, token, pushed, answered, locals, sandbox, manifest, restVars,
                   tested>>

-----------------------------------------------------------------------------
(* Promotion of a sealed repair.                                           *)

\* verify_sandbox_binding: HEAD must still be the sandbox's commit. It refuses
\* also when git cannot be read or the sandbox or its registration is gone.
Bind(h) ==
    /\ At(h, "bind")
    /\ \/ /\ tip[head] = locals[h].sha
          /\ Goto(h, "promote")
          /\ UNCHANGED <<gitVars, outcome, audit>>
       \/ Refuse(h, "refused_binding")
    /\ UNCHANGED <<lock, token, pushed, answered, locals, sandbox, avoid, manifest,
                   restVars, tested>>

\* _promote_sandbox, one patched file at a time.
PromoteFile(h) ==
    /\ At(h, "promote")
    /\ \E f \in token[h] \ locals[h].promoted :
         /\ work' = [work EXCEPT ![f] = sandbox[h][f]]
         /\ Keep(h, [locals[h] EXCEPT !.promoted = @ \cup {f}])
    /\ UNCHANGED <<index, head, tip, commits, remote, lock, pc, reportVars,
                   sandbox, diskVars, restVars, tested>>

\* A file that is a symlink or cannot be copied refuses the whole promotion.
RefusePromotion(h) ==
    /\ At(h, "promote")
    /\ token[h] \ locals[h].promoted # {}
    /\ Refuse(h, "refused_promotion")
    /\ UNCHANGED <<lock, token, pushed, answered, locals, sandbox, avoid, manifest,
                   restVars, tested>>

\* verify_promotion.
Intact(h) ==
    /\ \A f \in locals[h].promoted : work[f] = sandbox[h][f]
    /\ DirtySet \subseteq locals[h].promoted \cup locals[h].baseline

VerifyPromotion(h) ==
    /\ At(h, "promote")
    /\ token[h] \subseteq locals[h].promoted
    /\ IF Intact(h)
       THEN /\ manifest' = [manifest EXCEPT ![FindingOf[h]] = NoTree]
            /\ Conclude(h, "verified", "decide")
            /\ UNCHANGED gitVars
       ELSE Refuse(h, "refused_promotion_integrity") /\ UNCHANGED manifest
    /\ UNCHANGED <<lock, token, pushed, answered, locals, sandbox, avoid, restVars,
                   tested>>

-----------------------------------------------------------------------------
(* Publication: decide_pr, LocalGitHubPublisher, git_commit_and_push.      *)

\* Mutant of NotePR: the record is rewritten instead of updated.
NotePROnly(h, url) ==
    audit' = [audit EXCEPT ![FindingOf[h]] = [final |-> "none", pr |-> url]]

\* update_audit(pr_url=...) edits whatever record the file holds by now.
NotePR(h, url) ==
    audit' = [audit EXCEPT ![FindingOf[h]] = [@ EXCEPT !.pr = url]]

\* Neither a flag nor the repository's policy asks for a PR, or there is no
\* GitHub repository to open it on.
Defer(h) ==
    /\ At(h, "decide")
    /\ NotePR(h, FALSE)
    /\ Goto(h, "finish")
    /\ UNCHANGED <<gitVars, lock, reportVars, locals, sandbox, avoid, manifest, restVars,
                   tested>>

\* Mutant of Approve: the lock is given up before the publication.
ApproveUnlocked(h) ==
    /\ At(h, "decide")
    /\ lock' = NoHunt
    /\ Goto(h, "branch")
    /\ UNCHANGED <<gitVars, reportVars, locals, sandbox, diskVars, restVars,
                   tested>>

Approve(h) ==
    /\ At(h, "decide")
    /\ Goto(h, "branch")
    /\ UNCHANGED <<gitVars, lock, reportVars, locals, sandbox, diskVars,
                   restVars, tested>>

SwitchBranch(h) ==
    /\ At(h, "branch")
    /\ CheckoutBranch(FindingOf[h])
    /\ Goto(h, "add")
    /\ UNCHANGED <<lock, reportVars, locals, sandbox, diskVars, restVars,
                   tested>>

\* Mutant of StageRepair: git add -A.
StageEverything(h) ==
    /\ At(h, "add")
    /\ AddFiles(Files)
    /\ Goto(h, "commit")
    /\ UNCHANGED <<lock, reportVars, locals, sandbox, diskVars, restVars,
                   tested>>

StageRepair(h) ==
    /\ At(h, "add")
    /\ AddFiles(token[h])
    /\ Goto(h, "commit")
    /\ UNCHANGED <<lock, reportVars, locals, sandbox, diskVars, restVars,
                   tested>>

\* Mutant of CommitRepair: the exit status of git commit is ignored.
CommitUnchecked(h) ==
    /\ At(h, "commit")
    /\ CommitTree(index) \/ UNCHANGED gitVars
    /\ Goto(h, "push")
    /\ UNCHANGED <<lock, reportVars, locals, sandbox, diskVars, restVars,
                   tested>>

\* git commit fails with nothing staged, or through a hook: no PR.
CommitRepair(h) ==
    /\ At(h, "commit")
    /\ \/ /\ ~NothingStaged
          /\ CommitTree(index)
          /\ Goto(h, "push")
          /\ UNCHANGED audit
       \/ /\ NothingStaged \/ "commit" \in Faults
          /\ NotePR(h, FALSE)
          /\ Goto(h, "finish")
          /\ UNCHANGED gitVars
    /\ UNCHANGED <<lock, reportVars, locals, sandbox, avoid, manifest, restVars, tested>>

\* git push and gh pr create: publish() returns a URL, or None because the push
\* failed, or because opening the request raised after it.
PushRepair(h) ==
    /\ At(h, "push")
    /\ \/ /\ PushBranch(FindingOf[h])
          /\ pushed' = [pushed EXCEPT ![h] = TRUE]
          /\ NotePR(h, TRUE)
       \/ /\ "push" \in Faults
          /\ PushBranch(FindingOf[h]) \/ UNCHANGED gitVars
          /\ NotePR(h, FALSE)
          /\ UNCHANGED pushed
    /\ Goto(h, "finish")
    /\ UNCHANGED <<lock, outcome, token, answered, locals, sandbox, avoid, manifest,
                   restVars, tested>>

-----------------------------------------------------------------------------
(* Ends.                                                                   *)

\* Mutant of Leave: the lock file stays locked.
LeaveLocked(h) ==
    /\ Keep(h, NoLocals)
    /\ Goto(h, "ended")
    /\ UNCHANGED <<gitVars, lock, token, pushed, answered, diskVars, restVars,
                   tested>>

Leave(h) ==
    /\ lock' = IF lock = h THEN NoHunt ELSE lock
    /\ Keep(h, NoLocals)
    /\ Goto(h, "ended")
    /\ UNCHANGED <<gitVars, token, pushed, answered, diskVars, restVars, tested>>

\* Mutant of Finish: the sandbox is left behind.
FinishWithoutDestroy(h) ==
    At(h, "finish") /\ Leave(h) /\ UNCHANGED <<outcome, sandbox>>

\* The finally block: sandbox.destroy, lock.release.  When `git worktree
\* remove` times out, destroy_sandbox gives up before it deletes anything.
Finish(h) ==
    /\ At(h, "finish")
    /\ \/ sandbox' = [sandbox EXCEPT ![h] = NoTree]
       \/ "git" \in Faults /\ locals[h].linked /\ UNCHANGED sandbox
    /\ Leave(h)
    /\ UNCHANGED outcome

\* gather_context or create_sandbox raises: the finally block is not reached,
\* the lock goes when the HuntLock is collected with the frame.  When `git
\* worktree add` times out, what it had checked out by then stays.
RaiseEarly(h) ==
    /\ pc[h] \in {"gather", "sandbox"}
    /\ outcome' = [outcome EXCEPT ![h] = "raised"]
    /\ \/ UNCHANGED sandbox
       \/ /\ "git" \in Faults /\ At(h, "sandbox")
          /\ \E missing \in SUBSET Files :
               sandbox' = [sandbox EXCEPT ![h] =
                 Edited(commits[locals[h].sha], [f \in missing |-> Absent])]
    /\ Leave(h)

\* reasoner, verifier or interpreter raises: the finally block runs, but
\* nothing is restored or recorded.
RaiseInLoop(h) ==
    /\ pc[h] \in {"reason", "verify", "judge"}
    /\ outcome' = [outcome EXCEPT ![h] = "raised"]
    /\ Goto(h, "finish")
    /\ UNCHANGED <<gitVars, lock, token, pushed, answered, locals, sandbox,
                   diskVars, restVars, tested>>

\* The process is killed: the kernel frees the flock, the files stay.
Crash(h) ==
    /\ "crash" \in Faults
    /\ pc[h] \in Inside \cup {"lock"}
    /\ outcome' = [outcome EXCEPT ![h] = "crashed"]
    /\ Leave(h)
    /\ UNCHANGED sandbox

\* cmd_hunt asks "Raise PR? [y/N]" about a deferred repair.  On yes it hands
\* decide_pr a context fresh from gather_context: only run_hunt puts the
\* checkout's path on the context, so publish() finds none and returns None.
AnswerYes(h) ==
    /\ At(h, "ended")
    /\ outcome[h] = "verified"
    /\ ~pushed[h] /\ ~answered[h]
    /\ answered' = [answered EXCEPT ![h] = TRUE]
    /\ UNCHANGED <<gitVars, lock, pc, outcome, token, pushed, locals, sandbox,
                   diskVars, restVars, tested>>

-----------------------------------------------------------------------------
(* The developer, at the same checkout, without the lock.                  *)

DevMove(kind) ==
    /\ kind \in DevMoves
    /\ devLeft > 0
    /\ DevMeanwhile \/ \A h \in Hunts : pc[h] \notin Inside
    /\ devLeft' = devLeft - 1
    /\ UNCHANGED <<lock, pc, reportVars, locals, sandbox, diskVars, entry,
                   tested>>

DevEdit ==
    /\ DevMove("edit")
    /\ \E f \in Files :
         work[f] # DevContent /\ work' = [work EXCEPT ![f] = DevContent]
    /\ UNCHANGED <<index, head, tip, commits, remote>>

DevStage ==
    /\ DevMove("stage")
    /\ \E f \in Files : work[f] # index[f] /\ AddFiles({f})

\* git commit -a.
DevCommit ==
    /\ DevMove("commit")
    /\ LET t == [f \in Files |-> IF index[f] = Absent THEN Absent ELSE work[f]]
       IN  t # HeadTree /\ CommitTree(t)

DevSwitchToMain ==
    /\ DevMove("switch")
    /\ head # Main
    /\ SwitchAllowed(commits[tip[Main]])
    /\ SwitchTo(Main)

Developer == DevEdit \/ DevStage \/ DevCommit \/ DevSwitchToMain

-----------------------------------------------------------------------------

Loop(h) == Reason(h) \/ Author(h) \/ Verify(h) \/ Judge(h)

Before(h) ==
    \/ Acquire(h) \/ LockTimeout(h) \/ GatherContext(h) \/ CreateSandbox(h)
    \/ TakeSnapshot(h) \/ RecordBaseline(h)

Promotion(h) ==
    \/ RefuseUnverified(h) \/ Bind(h) \/ PromoteFile(h) \/ RefusePromotion(h)
    \/ VerifyPromotion(h)

Publication(h) ==
    \/ Defer(h) \/ Approve(h) \/ SwitchBranch(h) \/ StageRepair(h)
    \/ CommitRepair(h) \/ PushRepair(h)

\* What run_hunt does by itself once it was called.
Step(h) == Before(h) \/ Loop(h) \/ Promotion(h) \/ Publication(h) \/ Finish(h)

\* The steps that end by themselves: git_commit_and_push and gh_create_pr run
\* their commands without a timeout, and a push may wait for credentials for ever.
Timed(h) == Before(h) \/ Loop(h) \/ Promotion(h) \/ Defer(h) \/ Approve(h) \/ Finish(h)

Raise(h) == RaiseEarly(h) \/ RaiseInLoop(h)

\* Nothing is left to do.
AllEnded == (\A h \in Hunts : At(h, "ended")) /\ UNCHANGED vars

Next ==
    \/ \E h \in Hunts : \/ RefuseEarly(h) \/ Start(h) \/ Step(h)
                        \/ Raise(h) \/ Crash(h) \/ AnswerYes(h)
    \/ Developer
    \/ AllEnded

Spec == Init /\ [][Next]_vars

\* A called run_hunt keeps running up to its publication: its waits, test runs,
\* model calls and git queries have timeouts.  Nothing makes the commands of the
\* publication return, nor the user start a hunt, answer it or type.
Fairness == \A h \in Hunts : WF_vars(Timed(h))
FairSpec == Spec /\ Fairness

=============================================================================
