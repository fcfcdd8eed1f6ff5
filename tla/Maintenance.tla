---------------------------- MODULE Maintenance -----------------------------
(***************************************************************************)
(* run_maintenance_cycle (src/python/koyote/maintenance.py): snapshot the  *)
(* repository, let the planner patch it, measure the blast radius, install *)
(* and test, patch and test once more, roll back what did not pass, remove *)
(* the snapshot, report.  The snapshot lives in .koyote/snapshot_tmp: one  *)
(* directory for every cycle on the repository, and no lock.               *)
(***************************************************************************)
EXTENDS Snapshots

CONSTANTS Targets,    \* the files plan_and_apply may be given
          Scratch,    \* the files an install or a test run may write
          Overlap,    \* may a cycle begin while another runs
          Faults      \* subset of {"crash", "raise"}

ASSUME ScratchAssumption == Targets \subseteq Files /\ Scratch \subseteq Files

Original == "original"   \* what the repository held
Patched  == "patched"    \* what plan_and_apply writes
Output   == "output"     \* what installs, builds and tests write

\* No content is the absence of a file, and no copied file is the manifest.
ASSUME ContentsAssumption ==
    /\ {Original, Patched, Output} \subseteq Contents
    /\ Absent \notin Contents
    /\ "manifest" \notin Files

VARIABLES
    stage,     \* per cycle: where run_maintenance_cycle stands
    modified,  \* modified_paths: the files the first plan_and_apply patched
    exit,      \* test_exit_code: -1 before a test run
    strayed,   \* unintended_count > 0
    baseline,  \* the tree when the cycle began
    suite      \* does _detect_test_command find a test command

cycleVars == <<stage, modified, exit, strayed, baseline, suite>>
vars      == <<snapVars, cycleVars>>

Ended == {"done", "raised", "dead"}

TypeOK ==
    /\ SnapTypeOK
    /\ stage \in [Callers -> Ended \cup {"idle", "snapshot", "patch", "measure", "test",
                                         "retry", "settle", "rollback", "cleanup"}]
    /\ modified \in [Callers -> SUBSET Targets]
    /\ exit \in [Callers -> {-1, 0, 1}]
    /\ strayed \in [Callers -> BOOLEAN]
    /\ baseline \in [Callers -> Tree]
    /\ suite \in BOOLEAN

Init ==
    /\ SnapInit
    /\ Listed(work) # {} /\ \A f \in Listed(work) : work[f] = Original
    /\ stage = [c \in Callers |-> "idle"]
    /\ modified = [c \in Callers |-> {}]
    /\ exit = [c \in Callers |-> -1]
    /\ strayed = [c \in Callers |-> FALSE]
    /\ baseline = [c \in Callers |-> Nothing]
    /\ suite \in BOOLEAN

Running(c)    == stage[c] \notin Ended \cup {"idle"}
At(c, s)      == stage[c] = s /\ mgr[c].at = "idle"
Advance(c, s) == stage' = [stage EXCEPT ![c] = s]
Write(S, v)   == work' = [f \in Files |-> IF f \in S THEN v ELSE work[f]]

Start(c) ==
    /\ At(c, "idle")
    /\ Overlap \/ \A d \in Callers : ~Running(d)
    /\ BeginSnapshot(c)
    /\ Advance(c, "snapshot")
    /\ baseline' = [baseline EXCEPT ![c] = work]
    /\ UNCHANGED <<modified, exit, strayed, suite>>

\* plan_and_apply: any of the targets that exist, or none when the cycle is
\* quarantined; the formatter then touches only what was patched.
Patch(c) ==
    /\ At(c, "snapshot")
    /\ \E S \in SUBSET (Targets \cap Listed(work)) :
          /\ modified' = [modified EXCEPT ![c] = S]
          /\ Write(S, Patched)
    /\ Advance(c, "measure")
    /\ UNCHANGED <<store, manifest, mgr, exit, strayed, baseline, suite>>

\* The blast radius: files with a copy that differs, less the patched ones.
Measure(c) ==
    /\ At(c, "measure")
    /\ strayed' = [strayed EXCEPT ![c] =
          \E f \in Walked(work) \ modified[c] : store[f] \notin {Absent, work[f]}]
    /\ Advance(c, IF modified[c] = {} THEN "settle" ELSE "test")
    /\ UNCHANGED <<snapVars, modified, exit, baseline, suite>>

\* The install and the test run write what they like; the exit code is the
\* tests', 1 on a timeout or another exception.
RunTests(c, S, code) ==
    /\ Write(S, Output)
    /\ exit' = [exit EXCEPT ![c] = code]

Test(c) ==
    /\ At(c, "test") /\ suite
    /\ \E S \in SUBSET Scratch, code \in {0, 1} :
          /\ RunTests(c, S, code)
          /\ Advance(c, IF code = 0 THEN "settle" ELSE "retry")
    /\ UNCHANGED <<store, manifest, mgr, modified, strayed, baseline, suite>>

\* No test command: the exit code stays -1.
NoTests(c) ==
    /\ At(c, "test") /\ ~suite
    /\ Advance(c, "retry")
    /\ UNCHANGED <<snapVars, modified, exit, strayed, baseline, suite>>

\* The second attempt patches the same files and tests again; the exit code
\* only changes if the second run passes. Without a test command the shell is
\* given an empty one, which writes nothing and succeeds.
Retry(c) ==
    /\ At(c, "retry")
    /\ \E S \in SUBSET Scratch, pass \in BOOLEAN :
          /\ ~suite => S = {} /\ pass
          /\ work' = [f \in Files |-> IF f \in S THEN Output
                                      ELSE IF f \in modified[c] THEN Patched ELSE work[f]]
          /\ exit' = IF pass THEN [exit EXCEPT ![c] = 0] ELSE exit
    /\ Advance(c, "settle")
    /\ UNCHANGED <<store, manifest, mgr, modified, strayed, baseline, suite>>

\* Mutant of GiveUp: there is nothing to settle without a second attempt.
GiveUpUnsettled(c) ==
    /\ At(c, "retry")
    /\ Advance(c, "rollback")
    /\ UNCHANGED <<snapVars, modified, exit, strayed, baseline, suite>>

\* The planner has nothing better to offer.
GiveUp(c) ==
    /\ At(c, "retry")
    /\ Advance(c, "settle")
    /\ UNCHANGED <<snapVars, modified, exit, strayed, baseline, suite>>

\* The second test run is not guarded: its timeout leaves the function, past
\* the rollback and the cleanup.
Raise(c) ==
    /\ "raise" \in Faults
    /\ At(c, "retry") /\ suite
    /\ Write(modified[c], Patched)
    /\ Advance(c, "raised")
    /\ UNCHANGED <<store, manifest, mgr, modified, exit, strayed, baseline, suite>>

\* Mutant of RollBack: it rolls back what the second attempt repaired.
RollBackAlways(c) ==
    /\ At(c, "settle")
    /\ BeginRestore(c)
    /\ Advance(c, "rollback")
    /\ UNCHANGED <<modified, exit, strayed, baseline, suite>>

RollBack(c) ==
    /\ At(c, "settle") /\ exit[c] # 0
    /\ BeginRestore(c)
    /\ Advance(c, "rollback")
    /\ UNCHANGED <<modified, exit, strayed, baseline, suite>>

\* Settled, or rolled back, the cycle removes its snapshot.
CleanUp(c) ==
    /\ At(c, "rollback") \/ (At(c, "settle") /\ exit[c] = 0)
    /\ BeginCleanup(c)
    /\ Advance(c, "cleanup")
    /\ UNCHANGED <<modified, exit, strayed, baseline, suite>>

Report(c) ==
    /\ At(c, "cleanup")
    /\ Advance(c, "done")
    /\ UNCHANGED <<snapVars, modified, exit, strayed, baseline, suite>>

\* The process dies: the tree and the snapshot directory stay as they are.
Crash(c) ==
    /\ "crash" \in Faults
    /\ Running(c)
    /\ Advance(c, "dead")
    /\ mgr' = [mgr EXCEPT ![c] = Idle]
    /\ UNCHANGED <<work, store, manifest, modified, exit, strayed, baseline, suite>>

Manage(c) == ManagerStep(c) /\ UNCHANGED cycleVars

Cycle(c) ==
    \/ Patch(c) \/ Measure(c) \/ Test(c) \/ NoTests(c) \/ Retry(c) \/ GiveUp(c)
    \/ RollBack(c) \/ CleanUp(c) \/ Report(c) \/ Manage(c)

Next == \E c \in Callers : Start(c) \/ Cycle(c) \/ Raise(c) \/ Crash(c)

Spec == Init /\ [][Next]_vars

-----------------------------------------------------------------------------
\* report.success, for a cycle that ended.
Succeeded(c) == stage[c] = "done" /\ exit[c] = 0 /\ ~strayed[c] /\ modified[c] # {}

\* What a rollback answers for: a file it could copy comes back as it was,
\* and one that did not exist is gone; excluded and unreadable files are not
\* the snapshot's.
RestoredTo(tree) ==
    \A f \in Files \ (Excluded \cup Unreadable) : work[f] = tree[f]

\* A cycle that reports a failed verification leaves the tree it found, also
\* when an earlier cycle died half way through its own snapshot, patch,
\* rollback or cleanup (maintenance.py:264, snapshot.rs:81-169).
RollbackIsExact ==
    [][\A c \in Callers :
          stage[c] # "done" /\ stage'[c] = "done" /\ exit[c] # 0 => RestoredTo(baseline[c])]_vars

\* A restore never begins on a manifest whose copies are missing or changed,
\* although remove_dir_all and the copying are many steps a crash can cut.
ManifestIsBacked ==
    \A c \in Callers : mgr[c].at \in {"restoring", "sweeping"} =>
        \A f \in Files : mgr[c].seen[f] # Absent => store[f] = mgr[c].seen[f]

\* A cycle that reports success leaves its whole patch on disk, whatever attempt
\* it took and whatever an earlier cycle left there.
SuccessKeepsThePatch ==
    [][\A c \in Callers : stage[c] # "done" /\ Succeeded(c)' =>
          \A f \in modified[c] : work[f] = Patched]_vars

\* docs/ARCHITECTURE.md:89, "No real test suite = never merge-ready": a cycle that
\* reports success, which opens the pull request, has run the tests.
SuccessIsTested == \A c \in Callers : Succeeded(c) => suite

\* With no cycle running, a patch on disk is one a cycle kept because its
\* tests passed, or one that an exception or a crash left behind.
PatchesAreAccountedFor ==
    (\A c \in Callers : ~Running(c)) =>
        \A f \in Files : work[f] = Patched =>
            \E c \in Callers : /\ f \in modified[c]
                               /\ stage[c] \in {"raised", "dead"} \/ exit[c] = 0
=============================================================================
