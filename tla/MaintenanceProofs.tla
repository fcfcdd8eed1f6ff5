------------------------- MODULE MaintenanceProofs --------------------------
(***************************************************************************)
(* Proofs about the maintenance cycle and the snapshot directory its runs  *)
(* share, for every set of files, every number of cycles one after the     *)
(* other, and every place a crash or an exception cuts one short: what a   *)
(* restore relies on, what a failed cycle leaves, what a successful one    *)
(* keeps, and who answers for a patch that is on disk.                     *)
(***************************************************************************)
EXTENDS Maintenance, TLAPS

USE ScratchAssumption, ContentsAssumption

\* What a snapshot of a tree holds: the files it covers and can read.
Snapped(tree) ==
    [f \in Files |-> IF f \in Excluded \cup Unreadable THEN Absent ELSE tree[f]]

\* The stages from the patch to the rollback: the snapshot is taken.
Protected(c) ==
    /\ stage[c] \in {"snapshot", "measure", "test", "retry", "settle", "rollback"}
    /\ mgr[c].at \in {"idle", "restoring", "sweeping"}

\* One cycle runs at a time, and a manager works only for the running one.
Alone ==
    /\ \A c, d \in Callers : Running(c) /\ Running(d) => c = d
    /\ \A c \in Callers : ~Running(c) => mgr[c].at = "idle"

\* What a cycle's manager does, its stage tells.
Staged(c) ==
    /\ mgr[c].at \in {"clearing", "copying"} => stage[c] = "snapshot"
    /\ mgr[c].at \in {"restoring", "sweeping"} => stage[c] = "rollback"
    /\ mgr[c].at = "cleaning" => stage[c] = "cleanup"
    /\ stage[c] = "rollback" => exit[c] # 0

\* Until the copying begins, what an earlier cycle left is still to be removed.
Clearing(c) ==
    mgr[c].at = "clearing" =>
        /\ work = baseline[c]
        /\ Listed(store) \subseteq mgr[c].todo
        /\ manifest.complete => "manifest" \in mgr[c].todo

\* While it copies, the directory holds what it has copied and no manifest.
Copying(c) ==
    mgr[c].at = "copying" =>
        /\ work = baseline[c]
        /\ ~manifest.complete
        /\ store = mgr[c].seen
        /\ mgr[c].todo \subseteq Files \ Excluded
        /\ \A f \in Files : mgr[c].seen[f] = IF f \in mgr[c].todo THEN Absent
                                             ELSE Snapped(baseline[c])[f]

\* From the patch to the rollback the snapshot is the tree the cycle found.
Backed(c) ==
    Protected(c) => /\ manifest.complete
                    /\ store = manifest.hash
                    /\ manifest.hash = Snapped(baseline[c])

\* A listed file that is not awaited any more holds what the manifest says.
Restoring(c) ==
    mgr[c].at = "restoring" =>
        /\ mgr[c].seen = manifest.hash
        /\ \A f \in Listed(mgr[c].seen) \ mgr[c].todo : work[f] = mgr[c].seen[f]

\* The sweep finds every listed file restored, and awaits every other one.
Sweeping(c) ==
    mgr[c].at = "sweeping" =>
        /\ mgr[c].seen = manifest.hash
        /\ \A f \in Listed(mgr[c].seen) : work[f] = mgr[c].seen[f] /\ f \notin mgr[c].todo
        /\ Walked(work) \ Listed(mgr[c].seen) \subseteq mgr[c].todo

\* Its restore over, the tree is the one it found, as far as the snapshot covers it.
RolledBack(c) ==
    At(c, "rollback") \/ (stage[c] = "cleanup" /\ exit[c] # 0) =>
        \A f \in Files \ Excluded : work[f] = Snapped(baseline[c])[f]

Sound(c) ==
    /\ Staged(c) /\ Clearing(c) /\ Copying(c) /\ Backed(c)
    /\ Restoring(c) /\ Sweeping(c) /\ RolledBack(c)

\* What every step keeps, while one cycle runs at a time.
IInv == TypeOK /\ Alone /\ \A c \in Callers : Sound(c)

\* Once patched, the files stay patched until the verdict is acted on.
Kept ==
    \A c \in Callers :
        stage[c] \in {"measure", "test", "retry", "settle"} \/ (stage[c] = "cleanup" /\ exit[c] = 0)
        => \A f \in modified[c] : work[f] = Patched

\* A cycle that is over answers for the patch of a file.
AnsweredFor(f) ==
    \E c \in Callers : /\ f \in modified[c]
                       /\ \/ stage[c] \in {"raised", "dead"}
                          \/ stage[c] = "done" /\ exit[c] = 0

\* So does the running one; the tree it found needs no answer of its own.
Answered ==
    /\ \A f \in Files : work[f] = Patched =>
          AnsweredFor(f) \/ \E c \in Callers : Running(c) /\ f \in modified[c]
    /\ \A c \in Callers : Running(c) =>
          \A f \in Files : baseline[c][f] = Patched => AnsweredFor(f)
    /\ \A c \in Callers : stage[c] \in {"idle", "snapshot"} => modified[c] = {}

-----------------------------------------------------------------------------
\* The contents the cycle itself writes are contents, and none is an absence.
LEMMA ContentFacts ==
    /\ Original \in Contents /\ Patched \in Contents /\ Output \in Contents
    /\ Original # Patched /\ Patched # Output /\ Patched # Absent
  BY DEF Original, Patched, Output

\* A tree without files is a tree, and the idle manager a manager.
LEMMA IdleType ==
    /\ Nothing \in Tree
    /\ Idle \in [at : {"idle", "clearing", "copying", "restoring", "sweeping", "cleaning"},
                 todo : SUBSET Entries, seen : Tree]
  BY DEF Nothing, Tree, Idle

\* Writing some files leaves a tree.
LEMMA WriteType ==
  ASSUME TypeOK, NEW S, NEW v \in Contents, Write(S, v)
  PROVE  work' \in Tree
  BY DEF Write, TypeOK, SnapTypeOK, Tree

\* What a manager may be doing, and all that one can be.
Doing    == {"idle", "clearing", "copying", "restoring", "sweeping", "cleaning"}
Managers == [at : Doing, todo : SUBSET Entries, seen : Tree]

\* All that a manager can be, field by field.
LEMMA ManagerFields ==
  ASSUME SnapTypeOK, NEW c \in Callers
  PROVE  /\ mgr \in [Callers -> Managers]
         /\ mgr[c].todo \in SUBSET Entries /\ mgr[c].seen \in Tree /\ mgr[c].at \in Doing
  BY DEF SnapTypeOK, Managers, Doing

\* A step of a manager keeps the types of the directory.
LEMMA ManagerType ==
  ASSUME TypeOK, NEW c \in Callers, ManagerStep(c)
  PROVE  SnapTypeOK'
<1>t. SnapTypeOK
  BY DEF TypeOK
<1>m. /\ mgr \in [Callers -> Managers]
      /\ mgr[c].todo \in SUBSET Entries /\ mgr[c].seen \in Tree /\ mgr[c].at \in Doing
  BY <1>t, ManagerFields
<1>n. Nothing \in Tree /\ Idle \in Managers
  BY IdleType DEF Managers, Doing
<1>g. ASSUME mgr' \in [Callers -> Managers], work' \in Tree, store' \in Tree,
             manifest' \in [complete : BOOLEAN, hash : Tree]
      PROVE  SnapTypeOK'
  BY <1>g DEF SnapTypeOK, Managers, Doing
<1>1. ASSUME NEW e \in Entries, RemoveEntry(c, e) PROVE SnapTypeOK'
  <2>1. [at |-> mgr[c].at, todo |-> mgr[c].todo \ {e}, seen |-> Nothing] \in Managers
    BY <1>m, <1>n DEF Managers
  <2>2. mgr' \in [Callers -> Managers]
    BY <1>1, <1>m, <2>1 DEF RemoveEntry, GoTo
  <2>3. store' \in Tree /\ work' \in Tree
    BY <1>1, <1>t DEF RemoveEntry, SnapTypeOK, Tree
  <2>4. manifest' \in [complete : BOOLEAN, hash : Tree]
    <3>1. manifest' \in {manifest, [complete |-> FALSE, hash |-> Nothing]}
      BY <1>1 DEF RemoveEntry
    <3>2. [complete |-> FALSE, hash |-> Nothing] \in [complete : BOOLEAN, hash : Tree]
      BY <1>n
    <3> QED
      BY <1>t, <3>1, <3>2 DEF SnapTypeOK
  <2> QED
    BY <1>g, <2>2, <2>3, <2>4
<1>2. CASE Cleared(c)
  <2>1. [at |-> "copying", todo |-> Files \ Excluded, seen |-> Nothing] \in Managers
    <3>1. Files \ Excluded \in SUBSET Entries
      BY DEF Entries
    <3> QED
      BY <3>1, <1>n DEF Managers, Doing
  <2>2. mgr' \in [Callers -> Managers]
    <3>1. \/ mgr' = [mgr EXCEPT ![c] = [at |-> "copying", todo |-> Files \ Excluded, seen |-> Nothing]]
          \/ mgr' = [mgr EXCEPT ![c] = Idle]
      BY <1>2 DEF Cleared, GoTo
    <3> QED
      BY <1>m, <1>n, <2>1, <3>1
  <2> QED
    BY <1>2, <1>t, <1>g, <2>2 DEF Cleared, SnapTypeOK
<1>3. ASSUME NEW f \in Files, CopyFile(c, f) PROVE SnapTypeOK'
  <2>1. [mgr[c].seen EXCEPT ![f] = work[f]] \in Tree
    BY <1>t, <1>m DEF Tree, SnapTypeOK
  <2>2. /\ [at |-> "copying", todo |-> mgr[c].todo \ {f}, seen |-> mgr[c].seen] \in Managers
        /\ [at |-> "copying", todo |-> mgr[c].todo \ {f},
            seen |-> [mgr[c].seen EXCEPT ![f] = work[f]]] \in Managers
    BY <1>m, <2>1 DEF Managers, Doing
  <2>3. mgr' \in [Callers -> Managers]
    BY <1>3, <1>m, <2>2 DEF CopyFile, GoTo
  <2>4. store' \in Tree
    BY <1>3, <1>t DEF CopyFile, SnapTypeOK, Tree
  <2> QED
    BY <1>3, <1>t, <1>g, <2>3, <2>4 DEF CopyFile, SnapTypeOK
<1>4. ASSUME NEW f \in Files, RestoreFile(c, f) PROVE SnapTypeOK'
  BY <1>4, <1>t DEF RestoreFile, GoTo, SnapTypeOK, Tree
<1>5. ASSUME NEW f \in Files, Unlink(c, f) PROVE SnapTypeOK'
  BY <1>5, <1>t DEF Unlink, GoTo, SnapTypeOK, Tree
<1>6. CASE WriteManifest(c)
  BY <1>6, <1>t, <1>m, <1>n, <1>g DEF WriteManifest, SnapTypeOK
<1>7. CASE Sweep(c)
  BY <1>7, <1>t DEF Sweep, GoTo, SnapTypeOK, Entries, Walked, Listed
<1>8. CASE Swept(c)
  BY <1>8, <1>t, <1>m, <1>n, <1>g DEF Swept, SnapTypeOK
<1> QED
  BY <1>1, <1>2, <1>3, <1>4, <1>5, <1>6, <1>7, <1>8 DEF ManagerStep

\* Each step keeps the type invariant.
LEMMA TypeStep == TypeOK /\ [Next]_vars => TypeOK'
<1> SUFFICES ASSUME TypeOK, [Next]_vars PROVE TypeOK'
  OBVIOUS
<1> USE IdleType, ContentFacts
<1>1. ASSUME NEW c \in Callers, Start(c) PROVE TypeOK'
  BY <1>1 DEF Start, BeginSnapshot, Begin, GoTo, Advance, TypeOK, SnapTypeOK, InStore, Listed, Entries
<1>2. ASSUME NEW c \in Callers, Patch(c) PROVE TypeOK'
  BY <1>2, WriteType DEF Patch, Advance, TypeOK, SnapTypeOK
<1>3. ASSUME NEW c \in Callers, Measure(c) PROVE TypeOK'
  BY <1>3 DEF Measure, Advance, TypeOK, SnapTypeOK, snapVars
<1>4. ASSUME NEW c \in Callers, Test(c) PROVE TypeOK'
  BY <1>4, WriteType DEF Test, RunTests, Advance, TypeOK, SnapTypeOK
<1>5. ASSUME NEW c \in Callers, NoTests(c) PROVE TypeOK'
  BY <1>5 DEF NoTests, Advance, TypeOK, SnapTypeOK, snapVars
<1>6. ASSUME NEW c \in Callers, Retry(c) PROVE TypeOK'
  BY <1>6 DEF Retry, Advance, TypeOK, SnapTypeOK, Tree
<1>7. ASSUME NEW c \in Callers, GiveUp(c) PROVE TypeOK'
  BY <1>7 DEF GiveUp, Advance, TypeOK, SnapTypeOK, snapVars
<1>8. ASSUME NEW c \in Callers, Raise(c) PROVE TypeOK'
  BY <1>8, WriteType DEF Raise, Advance, TypeOK, SnapTypeOK, Ended
<1>9. ASSUME NEW c \in Callers, RollBack(c) PROVE TypeOK'
  BY <1>9 DEF RollBack, BeginRestore, GoTo, Advance, TypeOK, SnapTypeOK, Listed, Entries
<1>10. ASSUME NEW c \in Callers, CleanUp(c) PROVE TypeOK'
  BY <1>10 DEF CleanUp, BeginCleanup, Begin, GoTo, Advance, TypeOK, SnapTypeOK, InStore, Listed, Entries
<1>11. ASSUME NEW c \in Callers, Report(c) PROVE TypeOK'
  BY <1>11 DEF Report, Advance, TypeOK, SnapTypeOK, snapVars, Ended
<1>12. ASSUME NEW c \in Callers, Crash(c) PROVE TypeOK'
  BY <1>12 DEF Crash, Advance, TypeOK, SnapTypeOK, Ended
<1>13. ASSUME NEW c \in Callers, Manage(c) PROVE TypeOK'
  BY <1>13, ManagerType DEF Manage, cycleVars, TypeOK
<1>14. CASE UNCHANGED vars
  BY <1>14 DEF vars, snapVars, cycleVars, TypeOK, SnapTypeOK
<1> QED
  BY <1>1, <1>2, <1>3, <1>4, <1>5, <1>6, <1>7, <1>8, <1>9, <1>10, <1>11, <1>12, <1>13, <1>14
     DEF Next, Cycle

\* The cycle begins well typed.
LEMMA TypeInit == Init => TypeOK
  BY IdleType DEF Init, SnapInit, TypeOK, SnapTypeOK, Tree, Nothing, Ended

\* The variables of the cycle and of the snapshot directory keep their types,
\* through every interleaving of cycles, crashes and exceptions.
THEOREM TypeCorrect == Spec => []TypeOK
  BY TypeInit, TypeStep, PTL DEF Spec

-----------------------------------------------------------------------------
\* A cycle that does not run has nothing under way.
LEMMA Resting ==
  ASSUME NEW c \in Callers, (~Running(c))', mgr'[c].at = "idle"
  PROVE  Sound(c)'
  BY DEF Running, Ended, Sound, Staged, Clearing, Copying, Backed, Protected, Restoring,
         Sweeping, RolledBack, At

\* A manager at work is at one of its stages.
LEMMA ManagerAt ==
  ASSUME TypeOK, NEW c \in Callers, ManagerStep(c)
  PROVE  /\ mgr[c].at \in {"clearing", "copying", "restoring", "sweeping", "cleaning"}
         /\ \A d \in Callers \ {c} : mgr'[d] = mgr[d]
<1> USE DEF TypeOK, SnapTypeOK, GoTo
<1>1. ASSUME NEW e \in Entries, RemoveEntry(c, e)
      PROVE  mgr[c].at \in {"clearing", "cleaning"} /\ \A d \in Callers \ {c} : mgr'[d] = mgr[d]
  BY <1>1 DEF RemoveEntry
<1>2. ASSUME NEW f \in Files, CopyFile(c, f) \/ RestoreFile(c, f) \/ Unlink(c, f)
      PROVE  /\ mgr[c].at \in {"copying", "restoring", "sweeping"}
             /\ \A d \in Callers \ {c} : mgr'[d] = mgr[d]
  BY <1>2 DEF CopyFile, RestoreFile, Unlink
<1>3. ASSUME Cleared(c) \/ WriteManifest(c) \/ Sweep(c) \/ Swept(c)
      PROVE  /\ mgr[c].at \in {"clearing", "copying", "restoring", "sweeping", "cleaning"}
             /\ \A d \in Callers \ {c} : mgr'[d] = mgr[d]
  BY <1>3 DEF Cleared, WriteManifest, Sweep, Swept
<1> QED
  BY <1>1, <1>2, <1>3 DEF ManagerStep

\* A step of one cycle changes nothing of another, and begins only where no
\* other one runs.
LEMMA OneMoves ==
  ASSUME ~Overlap, IInv, NEW c \in Callers, Start(c) \/ Cycle(c) \/ Raise(c) \/ Crash(c)
  PROVE  /\ \A d \in Callers \ {c} : stage'[d] = stage[d] /\ mgr'[d] = mgr[d] /\ ~Running(d)
         /\ (~Running(c))' => mgr'[c].at = "idle"
<1> USE DEF Running, At, Advance, Ended
<1>t. /\ stage \in [Callers -> Ended \cup {"idle", "snapshot", "patch", "measure", "test",
                                          "retry", "settle", "rollback", "cleanup"}]
      /\ mgr \in [Callers -> Managers]
  <2>1. TypeOK
    BY DEF IInv
  <2> QED
    BY <2>1 DEF TypeOK, SnapTypeOK, Managers, Doing
<1>1. CASE Start(c)
  BY <1>1, <1>t DEF Start, BeginSnapshot, Begin, GoTo
<1>r. CASE Running(c) /\ ~Manage(c)
  <2>1. \A d \in Callers \ {c} : ~Running(d)
    BY <1>r DEF IInv, Alone
  <2>2. \A d \in Callers \ {c} : stage'[d] = stage[d] /\ mgr'[d] = mgr[d]
    BY <1>r, <1>t DEF Start, BeginSnapshot, Begin, GoTo, Cycle, Patch, Measure, Test, NoTests,
       Retry, GiveUp, RollBack, BeginRestore, CleanUp, BeginCleanup, Report, Raise, Crash, snapVars
  <2>3. (~Running(c))' => mgr'[c].at = "idle"
    BY <1>r, <1>t DEF Start, BeginSnapshot, Begin, GoTo, Cycle, Patch, Measure, Test, NoTests,
       Retry, GiveUp, RollBack, BeginRestore, CleanUp, BeginCleanup, Report, Raise, Crash, snapVars, Idle
  <2> QED
    BY <2>1, <2>2, <2>3
<1>m. CASE Manage(c)
  <2>1. Running(c)
    BY <1>m, ManagerAt DEF Manage, IInv, Alone
  <2>2. \A d \in Callers \ {c} : ~Running(d)
    BY <2>1 DEF IInv, Alone
  <2>3. \A d \in Callers \ {c} : mgr'[d] = mgr[d]
    BY <1>m, ManagerAt DEF Manage, IInv
  <2>4. stage' = stage
    BY <1>m DEF Manage, cycleVars
  <2> QED
    BY <2>1, <2>2, <2>3, <2>4
<1>2. Start(c) \/ Running(c)
  BY <1>m, ManagerAt DEF Cycle, Patch, Measure, Test, NoTests, Retry, GiveUp, RollBack, CleanUp,
     Report, Raise, Crash, Manage, IInv, Alone
<1> QED
  BY <1>1, <1>2, <1>r, <1>m

\* While it removes what is in the directory, and while it copies, a manager
\* keeps the account of what is left to do.
LEMMA SnapshotStep ==
  ASSUME IInv, NEW c \in Callers, ManagerStep(c), UNCHANGED cycleVars,
         mgr[c].at \in {"clearing", "copying"}
  PROVE  Sound(c)'
<1>t. /\ mgr \in [Callers -> Managers] /\ store \in Tree /\ work \in Tree
      /\ manifest \in [complete : BOOLEAN, hash : Tree]
      /\ baseline[c] \in Tree /\ stage[c] = "snapshot"
  BY DEF IInv, TypeOK, SnapTypeOK, Managers, Doing, Sound, Staged
<1>u. UNCHANGED <<stage, baseline, exit>>
  BY DEF cycleVars
<1>i. Clearing(c) /\ Copying(c)
  BY DEF IInv, Sound
<1>1. ASSUME NEW e \in Entries, RemoveEntry(c, e) PROVE Sound(c)'
  <2>1. /\ mgr[c].at = "clearing" /\ work = baseline[c] /\ Listed(store) \subseteq mgr[c].todo
        /\ manifest.complete => "manifest" \in mgr[c].todo
    BY <1>1, <1>i DEF RemoveEntry, Clearing
  <2>2. mgr'[c] = [at |-> "clearing", todo |-> mgr[c].todo \ {e}, seen |-> Nothing]
    BY <1>1, <1>t, <2>1 DEF RemoveEntry, GoTo
  <2>3. Clearing(c)'
    BY <1>1, <1>t, <1>u, <2>1, <2>2 DEF RemoveEntry, Clearing, Listed, Entries, Tree
  <2> QED
    BY <1>t, <1>u, <2>2, <2>3 DEF Sound, Staged, Copying, Backed, Protected, Restoring, Sweeping,
       RolledBack, At
<1>2. CASE Cleared(c)
  <2>1. /\ mgr[c].at = "clearing" /\ work = baseline[c] /\ Listed(store) = {} /\ ~manifest.complete
    BY <1>2, <1>i DEF Cleared, Clearing
  <2>2. mgr'[c] = [at |-> "copying", todo |-> Files \ Excluded, seen |-> Nothing]
    BY <1>2, <1>t, <2>1 DEF Cleared, GoTo
  <2>3. store = Nothing
    BY <1>t, <2>1 DEF Listed, Nothing, Tree
  <2>4. Copying(c)'
    BY <1>2, <1>t, <1>u, <2>1, <2>2, <2>3 DEF Cleared, Copying, Snapped, Nothing
  <2> QED
    BY <1>t, <1>u, <2>2, <2>4 DEF Sound, Staged, Clearing, Backed, Protected, Restoring, Sweeping,
       RolledBack, At
<1>3. ASSUME NEW f \in Files, CopyFile(c, f) PROVE Sound(c)'
  <2>1. /\ mgr[c].at = "copying" /\ f \in mgr[c].todo
        /\ work = baseline[c] /\ ~manifest.complete /\ store = mgr[c].seen
        /\ mgr[c].todo \subseteq Files \ Excluded
        /\ \A g \in Files : mgr[c].seen[g] = IF g \in mgr[c].todo THEN Absent
                                             ELSE Snapped(baseline[c])[g]
    BY <1>3, <1>i DEF CopyFile, Copying
  <2>2. CASE work[f] # Absent /\ f \notin Unreadable
    <3>1. /\ mgr'[c] = [at |-> "copying", todo |-> mgr[c].todo \ {f},
                        seen |-> [mgr[c].seen EXCEPT ![f] = work[f]]]
          /\ store' = [store EXCEPT ![f] = work[f]]
      BY <1>3, <1>t, <2>2 DEF CopyFile, GoTo
    <3>2. Snapped(baseline[c])[f] = work[f]
      BY <2>1, <2>2 DEF Snapped
    <3>3. Copying(c)'
      BY <1>3, <1>t, <1>u, <2>1, <3>1, <3>2 DEF CopyFile, Copying, Tree
    <3> QED
      BY <1>t, <1>u, <3>1, <3>3 DEF Sound, Staged, Clearing, Backed, Protected, Restoring,
         Sweeping, RolledBack, At
  <2>3. CASE ~(work[f] # Absent /\ f \notin Unreadable)
    <3>1. /\ mgr'[c] = [at |-> "copying", todo |-> mgr[c].todo \ {f}, seen |-> mgr[c].seen]
          /\ store' = store
      BY <1>3, <1>t, <2>3 DEF CopyFile, GoTo
    <3>2. Snapped(baseline[c])[f] = Absent
      BY <2>1, <2>3 DEF Snapped
    <3>3. Copying(c)'
      BY <1>3, <1>t, <1>u, <2>1, <3>1, <3>2 DEF CopyFile, Copying, Tree
    <3> QED
      BY <1>t, <1>u, <3>1, <3>3 DEF Sound, Staged, Clearing, Backed, Protected, Restoring,
         Sweeping, RolledBack, At
  <2> QED
    BY <2>2, <2>3
<1>4. CASE WriteManifest(c)
  <2>1. /\ mgr[c].at = "copying" /\ store = mgr[c].seen
        /\ \A g \in Files : mgr[c].seen[g] = Snapped(baseline[c])[g]
    BY <1>4, <1>i DEF WriteManifest, Copying
  <2>2. mgr[c].seen \in Tree
    BY <1>t DEF Managers
  <2>3. mgr[c].seen = Snapped(baseline[c])
    BY <2>1, <2>2 DEF Snapped, Tree
  <2>4. /\ mgr'[c] = Idle /\ store' = store
        /\ manifest' = [complete |-> TRUE, hash |-> mgr[c].seen]
    BY <1>4, <1>t DEF WriteManifest
  <2>5. Backed(c)'
    BY <1>u, <2>1, <2>3, <2>4 DEF Backed
  <2> QED
    BY <1>t, <1>u, <2>4, <2>5 DEF Sound, Staged, Clearing, Copying, Restoring, Sweeping,
       RolledBack, At, Idle
<1> QED
  BY <1>1, <1>2, <1>3, <1>4 DEF ManagerStep, RestoreFile, Unlink, Sweep, Swept

\* While it restores, sweeps and cleans up, it keeps the account of what is
\* still to be undone.
LEMMA RestoreStep ==
  ASSUME IInv, NEW c \in Callers, ManagerStep(c), UNCHANGED cycleVars,
         mgr[c].at \in {"restoring", "sweeping", "cleaning"}
  PROVE  Sound(c)'
<1>t. /\ mgr \in [Callers -> Managers] /\ store \in Tree /\ work \in Tree /\ baseline[c] \in Tree
  BY DEF IInv, TypeOK, SnapTypeOK, Managers, Doing
<1>u. UNCHANGED <<stage, baseline, exit>>
  BY DEF cycleVars
<1>i. /\ Staged(c) /\ Backed(c) /\ Restoring(c) /\ Sweeping(c)
      /\ stage[c] = "cleanup" /\ exit[c] # 0 =>
            \A f \in Files \ Excluded : work[f] = Snapped(baseline[c])[f]
  BY DEF IInv, Sound, RolledBack
<1>b. mgr[c].at \in {"restoring", "sweeping"} =>
         /\ stage[c] = "rollback" /\ exit[c] # 0 /\ manifest.complete
         /\ store = mgr[c].seen /\ manifest.hash = mgr[c].seen /\ mgr[c].seen = Snapped(baseline[c])
  BY <1>i DEF Staged, Backed, Protected, Restoring, Sweeping
<1>1. ASSUME NEW e \in Entries, RemoveEntry(c, e) PROVE Sound(c)'
  <2>1. mgr[c].at = "cleaning" /\ stage[c] = "cleanup" /\ work' = work
    BY <1>1, <1>i DEF RemoveEntry, Staged
  <2>2. mgr'[c].at = "cleaning"
    BY <1>1, <1>t, <2>1 DEF RemoveEntry, GoTo
  <2> QED
    BY <1>i, <1>u, <2>1, <2>2 DEF Sound, Staged, Clearing, Copying, Backed, Protected, Restoring,
       Sweeping, RolledBack, At
<1>2. CASE Cleared(c)
  <2>1. mgr[c].at = "cleaning" /\ stage[c] = "cleanup" /\ work' = work
    BY <1>2, <1>i DEF Cleared, Staged
  <2>2. mgr'[c].at = "idle"
    BY <1>2, <1>t, <2>1 DEF Cleared, Idle
  <2> QED
    BY <1>i, <1>u, <2>1, <2>2 DEF Sound, Staged, Clearing, Copying, Backed, Protected, Restoring,
       Sweeping, RolledBack, At
<1>3. ASSUME NEW f \in Files, RestoreFile(c, f) PROVE Sound(c)'
  <2>1. mgr[c].at = "restoring" /\ f \in mgr[c].todo
    BY <1>3 DEF RestoreFile
  <2>2. /\ mgr'[c] = [at |-> "restoring", todo |-> mgr[c].todo \ {f}, seen |-> mgr[c].seen]
        /\ UNCHANGED <<store, manifest>>
    BY <1>3, <1>t DEF RestoreFile, GoTo
  <2>3. f \in Listed(mgr[c].seen) => work'[f] = mgr[c].seen[f]
    BY <1>3, <1>t, <1>b, <2>1 DEF RestoreFile, Listed, Tree
  <2>4. \A g \in Files \ {f} : work'[g] = work[g]
    BY <1>3, <1>t DEF RestoreFile, Tree
  <2>5. Restoring(c)'
    BY <1>i, <1>b, <2>1, <2>2, <2>3, <2>4 DEF Restoring, Listed
  <2>6. Backed(c)'
    BY <1>b, <1>u, <2>1, <2>2 DEF Backed
  <2> QED
    BY <1>b, <1>u, <2>1, <2>2, <2>5, <2>6 DEF Sound, Staged, Clearing, Copying, Sweeping, RolledBack, At
<1>4. CASE Sweep(c)
  <2>1. mgr[c].at = "restoring" /\ mgr[c].todo = {}
    BY <1>4 DEF Sweep
  <2>2. /\ mgr'[c] = [at |-> "sweeping", todo |-> Walked(work) \ Listed(mgr[c].seen),
                      seen |-> mgr[c].seen]
        /\ UNCHANGED <<work, store, manifest>>
    BY <1>4, <1>t DEF Sweep, GoTo
  <2>3. Sweeping(c)'
    BY <1>i, <1>b, <2>1, <2>2 DEF Restoring, Sweeping
  <2>4. Backed(c)'
    BY <1>b, <1>u, <2>1, <2>2 DEF Backed
  <2> QED
    BY <1>b, <1>u, <2>1, <2>2, <2>3, <2>4 DEF Sound, Staged, Clearing, Copying, Restoring, RolledBack, At
<1>5. ASSUME NEW f \in Files, Unlink(c, f) PROVE Sound(c)'
  <2>1. mgr[c].at = "sweeping" /\ f \in mgr[c].todo
    BY <1>5 DEF Unlink
  <2>2. /\ mgr'[c] = [at |-> "sweeping", todo |-> mgr[c].todo \ {f}, seen |-> mgr[c].seen]
        /\ work' = [work EXCEPT ![f] = Absent]
        /\ UNCHANGED <<store, manifest>>
    BY <1>5, <1>t DEF Unlink, GoTo
  <2>3. f \notin Listed(mgr[c].seen)
    BY <1>i, <2>1 DEF Sweeping
  <2>4. Sweeping(c)'
    <3>1. \A g \in Listed(mgr[c].seen) : work'[g] = mgr[c].seen[g] /\ g \notin mgr[c].todo \ {f}
      BY <1>i, <1>t, <2>1, <2>2, <2>3 DEF Sweeping, Tree, Listed
    <3>2. Walked(work') \ Listed(mgr[c].seen) \subseteq mgr[c].todo \ {f}
      <4> SUFFICES ASSUME NEW g \in Files \ Excluded, work'[g] # Absent, g \notin Listed(mgr[c].seen)
                   PROVE  g \in mgr[c].todo \ {f}
        BY DEF Walked, Listed
      <4>1. g # f /\ work[g] # Absent
        BY <1>t, <2>2 DEF Tree
      <4>2. g \in Walked(work) \ Listed(mgr[c].seen)
        BY <4>1 DEF Walked, Listed
      <4> QED
        BY <1>i, <2>1, <4>1, <4>2 DEF Sweeping
    <3>3. /\ mgr'[c].seen = mgr[c].seen /\ mgr'[c].todo = mgr[c].todo \ {f}
          /\ manifest' = manifest /\ manifest.hash = mgr[c].seen
      BY <1>b, <2>1, <2>2
    <3> QED
      BY <3>1, <3>2, <3>3 DEF Sweeping
  <2>5. Backed(c)'
    BY <1>b, <1>u, <2>1, <2>2 DEF Backed
  <2> QED
    BY <1>b, <1>u, <2>1, <2>2, <2>4, <2>5 DEF Sound, Staged, Clearing, Copying, Restoring, RolledBack, At
<1>6. CASE Swept(c)
  <2>1. /\ mgr[c].at = "sweeping" /\ mgr[c].todo = {} /\ mgr'[c] = Idle
        /\ UNCHANGED <<work, store, manifest>>
    BY <1>6, <1>t DEF Swept
  <2>2. \A f \in Files \ Excluded : work[f] = mgr[c].seen[f]
    BY <1>i, <1>t, <2>1 DEF Sweeping, Walked, Listed, Managers, Tree
  <2>3. RolledBack(c)'
    BY <1>b, <1>u, <2>1, <2>2 DEF RolledBack
  <2>4. Backed(c)'
    BY <1>b, <1>u, <2>1 DEF Backed
  <2> QED
    BY <1>b, <1>u, <2>1, <2>3, <2>4 DEF Sound, Staged, Clearing, Copying, Restoring, Sweeping, Idle
<1> QED
  BY <1>1, <1>2, <1>3, <1>4, <1>5, <1>6 DEF ManagerStep, CopyFile, WriteManifest

\* The cycle's own steps, up to the verdict.
LEMMA CycleStep ==
  ASSUME IInv, NEW c \in Callers,
         Patch(c) \/ Measure(c) \/ Test(c) \/ NoTests(c) \/ Retry(c) \/ GiveUp(c)
  PROVE  Sound(c)'
<1>t. stage \in [Callers -> Ended \cup {"idle", "snapshot", "patch", "measure", "test",
                                        "retry", "settle", "rollback", "cleanup"}]
  BY DEF IInv, TypeOK
<1>1. /\ At(c, stage[c]) /\ Protected(c) /\ UNCHANGED <<store, manifest, mgr, baseline>>
      /\ stage'[c] \in {"measure", "test", "retry", "settle"}
  BY <1>t DEF Patch, Measure, Test, NoTests, Retry, GiveUp, At, Protected, Advance, snapVars
<1>2. Backed(c)'
  BY <1>1 DEF IInv, Sound, Backed
<1> QED
  BY <1>1, <1>2 DEF At, Sound, Staged, Clearing, Copying, Restoring, Sweeping, RolledBack

\* The verdict: rolled back, cleaned up, reported.
LEMMA VerdictStep ==
  ASSUME IInv, NEW c \in Callers, RollBack(c) \/ CleanUp(c) \/ Report(c)
  PROVE  Sound(c)'
<1>t. /\ stage \in [Callers -> Ended \cup {"idle", "snapshot", "patch", "measure", "test",
                                           "retry", "settle", "rollback", "cleanup"}]
      /\ mgr \in [Callers -> Managers]
  <2>1. TypeOK
    BY DEF IInv
  <2> QED
    BY <2>1 DEF TypeOK, SnapTypeOK, Managers, Doing
<1>i. Backed(c) /\ RolledBack(c) /\ Staged(c)
  BY DEF IInv, Sound
<1>1. CASE RollBack(c)
  <2>1. /\ stage[c] = "settle" /\ mgr[c].at = "idle" /\ exit[c] # 0 /\ stage'[c] = "rollback"
        /\ UNCHANGED <<work, store, manifest, exit, baseline>>
    BY <1>1, <1>t DEF RollBack, At, Advance, BeginRestore
  <2>2. manifest.complete /\ store = manifest.hash /\ manifest.hash = Snapped(baseline[c])
    BY <1>i, <2>1 DEF Backed, Protected
  <2>3. mgr'[c] = [at |-> "restoring", todo |-> Listed(manifest.hash), seen |-> manifest.hash]
    BY <1>1, <1>t, <2>2 DEF RollBack, BeginRestore, GoTo
  <2>4. Backed(c)' /\ Restoring(c)'
    BY <2>1, <2>2, <2>3 DEF Backed, Restoring
  <2> QED
    BY <2>1, <2>3, <2>4 DEF Sound, Staged, Clearing, Copying, Sweeping, RolledBack, At
<1>2. CASE CleanUp(c)
  <2>1. /\ mgr'[c].at = "cleaning" /\ stage'[c] = "cleanup"
        /\ UNCHANGED <<work, exit, baseline>>
        /\ At(c, "rollback") \/ exit[c] = 0
    BY <1>2, <1>t DEF CleanUp, At, Advance, BeginCleanup, Begin, GoTo
  <2>2. RolledBack(c)'
    BY <1>i, <2>1 DEF RolledBack, At
  <2> QED
    BY <2>1, <2>2 DEF Sound, Staged, Clearing, Copying, Backed, Protected, Restoring, Sweeping
<1>3. CASE Report(c)
  BY <1>3, <1>t, Resting DEF Report, At, Advance, snapVars, Running, Ended
<1> QED
  BY <1>1, <1>2, <1>3

\* Every step of a cycle keeps its account.
LEMMA SoundStep ==
  ASSUME ~Overlap, IInv, NEW c \in Callers, Start(c) \/ Cycle(c) \/ Raise(c) \/ Crash(c)
  PROVE  Sound(c)'
<1>t. /\ stage \in [Callers -> Ended \cup {"idle", "snapshot", "patch", "measure", "test",
                                           "retry", "settle", "rollback", "cleanup"}]
      /\ mgr \in [Callers -> Managers] /\ baseline \in [Callers -> Tree]
  <2>1. TypeOK
    BY DEF IInv
  <2> QED
    BY <2>1 DEF TypeOK, SnapTypeOK, Managers, Doing
<1>1. CASE Start(c)
  <2>1. /\ stage'[c] = "snapshot" /\ baseline'[c] = work /\ UNCHANGED <<work, store, manifest>>
        /\ mgr'[c] = [at |-> "clearing", todo |-> InStore, seen |-> Nothing]
    BY <1>1, <1>t DEF Start, BeginSnapshot, Begin, GoTo, Advance
  <2>2. Clearing(c)'
    BY <2>1 DEF Clearing, InStore, Listed
  <2> QED
    BY <2>1, <2>2 DEF Sound, Staged, Copying, Backed, Protected, Restoring, Sweeping, RolledBack, At
<1>2. CASE Raise(c) \/ Crash(c)
  <2>1. (~Running(c))'
    BY <1>2, <1>t DEF Raise, Crash, Advance, Running, Ended
  <2> QED
    BY <2>1, OneMoves, Resting
<1>3. CASE Manage(c)
  <2>1. TypeOK /\ ManagerStep(c) /\ UNCHANGED cycleVars
    BY <1>3 DEF Manage, IInv
  <2> QED
    BY <2>1, ManagerAt, SnapshotStep, RestoreStep
<1> QED
  BY <1>1, <1>2, <1>3, CycleStep, VerdictStep DEF Cycle

\* The strengthened invariant is inductive.
LEMMA IInvStep ==
  ASSUME ~Overlap, IInv, [Next]_vars
  PROVE  IInv'
<1>t. TypeOK'
  BY TypeStep DEF IInv
<1>1. ASSUME NEW c \in Callers, Start(c) \/ Cycle(c) \/ Raise(c) \/ Crash(c)
      PROVE  IInv'
  <2>1. /\ \A d \in Callers \ {c} : stage'[d] = stage[d] /\ mgr'[d] = mgr[d] /\ ~Running(d)
        /\ (~Running(c))' => mgr'[c].at = "idle"
    BY <1>1, OneMoves
  <2>2. \A d \in Callers \ {c} : (~Running(d))' /\ mgr'[d].at = "idle"
    BY <2>1 DEF IInv, Alone, Running
  <2>3. Alone'
    BY <2>1, <2>2 DEF Alone
  <2>4. \A d \in Callers \ {c} : Sound(d)'
    BY <2>2, Resting
  <2>5. Sound(c)'
    BY <1>1, SoundStep
  <2> QED
    BY <1>t, <2>3, <2>4, <2>5 DEF IInv
<1>2. CASE UNCHANGED vars
  BY <1>2, <1>t DEF vars, snapVars, cycleVars, IInv, Alone, Running, Sound, Staged, Clearing,
     Copying, Backed, Protected, Restoring, Sweeping, RolledBack, At
<1> QED
  BY <1>1, <1>2 DEF Next

\* The invariant holds before any cycle.
LEMMA IInvInit == Init => IInv
<1> SUFFICES ASSUME Init PROVE IInv
  OBVIOUS
<1>1. \A c \in Callers : stage[c] = "idle" /\ mgr[c].at = "idle"
  BY DEF Init, SnapInit, Idle
<1> QED
  BY <1>1, TypeInit DEF IInv, Alone, Running, Ended, Sound, Staged, Clearing, Copying, Backed,
     Protected, Restoring, Sweeping, RolledBack, At

\* With one cycle at a time the account holds in every state.
LEMMA Invariance ==
  ASSUME ~Overlap
  PROVE  Spec => []IInv
  BY IInvInit, IInvStep, PTL DEF Spec

\* A restore only ever begins on a manifest whose copies are all there,
\* wherever a crash cut the removal, the copying or the manifest of an earlier
\* cycle, as long as cycles do not overlap.
THEOREM RestoresAreBacked ==
  ASSUME ~Overlap
  PROVE  Spec => []ManifestIsBacked
<1>1. ASSUME IInv, NEW c \in Callers, mgr[c].at \in {"restoring", "sweeping"}
      PROVE  store = mgr[c].seen
  BY <1>1 DEF IInv, Sound, Staged, Backed, Protected, Restoring, Sweeping
<1>2. IInv => ManifestIsBacked
  BY <1>1 DEF ManifestIsBacked
<1> QED
  BY <1>2, Invariance, PTL

\* A cycle is done by its report, and only its own.
LEMMA ReportsOnly ==
  ASSUME TypeOK, NEW c \in Callers, Next, stage[c] # "done", stage'[c] = "done"
  PROVE  Report(c)
<1>t. stage \in [Callers -> Ended \cup {"idle", "snapshot", "patch", "measure", "test",
                                        "retry", "settle", "rollback", "cleanup"}]
  BY DEF TypeOK
<1>1. PICK d \in Callers : Start(d) \/ Cycle(d) \/ Raise(d) \/ Crash(d)
  BY DEF Next
<1> QED
  BY <1>1, <1>t DEF Start, Cycle, Patch, Measure, Test, NoTests, Retry, GiveUp, RollBack, CleanUp,
     Raise, Crash, Manage, Advance, Report, cycleVars

\* A cycle that reports a failed verification leaves the tree it found, with
\* the exception of excluded and unreadable files.
THEOREM RollbacksAreExact ==
  ASSUME ~Overlap
  PROVE  Spec => RollbackIsExact
<1>1. ASSUME IInv, NEW c \in Callers, Next, stage[c] # "done", stage'[c] = "done"
      PROVE  Report(c)
  BY <1>1, ReportsOnly DEF IInv
<1>2. ASSUME IInv, NEW c \in Callers, Report(c), exit[c] # 0
      PROVE  RestoredTo(baseline[c])
  BY <1>2 DEF Report, At, IInv, Sound, RolledBack, RestoredTo, Snapped
<1>3. IInv /\ [Next]_vars =>
         [\A c \in Callers : stage[c] # "done" /\ stage'[c] = "done" /\ exit[c] # 0
                             => RestoredTo(baseline[c])]_vars
  BY <1>1, <1>2
<1> QED
  BY <1>3, Invariance, PTL DEF Spec, RollbackIsExact

-----------------------------------------------------------------------------
\* The types the last two invariants need.
LEMMA CycleTypes ==
  ASSUME IInv
  PROVE  /\ stage \in [Callers -> Ended \cup {"idle", "snapshot", "patch", "measure", "test",
                                              "retry", "settle", "rollback", "cleanup"}]
         /\ exit \in [Callers -> {-1, 0, 1}]
         /\ modified \in [Callers -> SUBSET Targets]
         /\ baseline \in [Callers -> Tree]
         /\ work \in Tree /\ mgr \in [Callers -> Managers]
<1>1. TypeOK
  BY DEF IInv
<1> QED
  BY <1>1 DEF TypeOK, SnapTypeOK, Managers, Doing

\* A manager that removes entries, copies, or writes the manifest leaves the
\* working directory; one at work has a cycle that is not in between.
LEMMA ManagerWork ==
  ASSUME IInv, NEW c \in Callers, Manage(c)
  PROVE  /\ UNCHANGED cycleVars
         /\ stage[c] \in {"snapshot", "rollback", "cleanup"}
         /\ stage[c] # "rollback" => work' = work
<1>1. TypeOK /\ ManagerStep(c) /\ UNCHANGED cycleVars
  BY DEF Manage, IInv
<1>2. Staged(c)
  BY DEF IInv, Sound
<1>3. stage[c] \in {"snapshot", "rollback", "cleanup"}
  BY <1>1, <1>2, ManagerAt DEF Staged
<1>4. stage[c] # "rollback" => work' = work
  BY <1>1, <1>2 DEF Staged, ManagerStep, RemoveEntry, Cleared, CopyFile, RestoreFile, Unlink,
     WriteManifest, Sweep, Swept
<1> QED
  BY <1>1, <1>3, <1>4

\* Where no test run writes what the planner patches, patched files stay
\* patched until the verdict is acted on.
LEMMA KeptStep ==
  ASSUME ~Overlap, Targets \cap Scratch = {}, IInv, Kept, [Next]_vars
  PROVE  Kept'
<1>t. /\ stage \in [Callers -> Ended \cup {"idle", "snapshot", "patch", "measure", "test",
                                           "retry", "settle", "rollback", "cleanup"}]
      /\ exit \in [Callers -> {-1, 0, 1}] /\ modified \in [Callers -> SUBSET Targets]
      /\ work \in Tree /\ mgr \in [Callers -> Managers]
  BY CycleTypes
<1> DEFINE Keeping(d) ==
              stage[d] \in {"measure", "test", "retry", "settle"} \/ (stage[d] = "cleanup" /\ exit[d] = 0)
           KeptBy(d) == Keeping(d) => \A f \in modified[d] : work[f] = Patched
<1>1. ASSUME NEW c \in Callers, Start(c) \/ Cycle(c) \/ Raise(c) \/ Crash(c)
      PROVE  Kept'
  <2>o. \A d \in Callers \ {c} : ~Running(d)' /\ stage'[d] = stage[d]
    BY <1>1, OneMoves DEF Running
  <2>k. \A d \in Callers \ {c} : KeptBy(d)'
    BY <2>o DEF Running, Ended
  <2>c. KeptBy(c)
    BY DEF Kept
  <2>1. CASE Start(c) \/ Raise(c) \/ Crash(c)
    <3>1. ~Keeping(c)'
      BY <1>t, <2>1 DEF Start, Raise, Crash, Advance
    <3> QED
      BY <2>k, <3>1 DEF Kept
  <2>2. CASE Patch(c)
    <3>1. PICK S \in SUBSET (Targets \cap Listed(work)) :
             modified' = [modified EXCEPT ![c] = S] /\ Write(S, Patched)
      BY <2>2 DEF Patch
    <3>2. KeptBy(c)'
      BY <1>t, <3>1 DEF Write
    <3> QED
      BY <2>k, <3>2 DEF Kept
  <2>3. CASE Measure(c) \/ NoTests(c) \/ GiveUp(c)
    <3>1. Keeping(c) /\ UNCHANGED <<work, modified>>
      BY <2>3 DEF Measure, NoTests, GiveUp, At, snapVars
    <3> QED
      BY <2>k, <2>c, <3>1 DEF Kept
  <2>4. CASE Test(c)
    <3>1. PICK S \in SUBSET Scratch : Write(S, Output)
      BY <2>4 DEF Test, RunTests
    <3>2. Keeping(c) /\ UNCHANGED modified
      BY <2>4 DEF Test, At
    <3>3. KeptBy(c)'
      BY <1>t, <2>c, <3>1, <3>2 DEF Write
    <3> QED
      BY <2>k, <3>3 DEF Kept
  <2>5. CASE Retry(c)
    <3>1. PICK S \in SUBSET Scratch :
             work' = [f \in Files |-> IF f \in S THEN Output
                                      ELSE IF f \in modified[c] THEN Patched ELSE work[f]]
      BY <2>5 DEF Retry
    <3>2. UNCHANGED modified
      BY <2>5 DEF Retry
    <3>3. KeptBy(c)'
      BY <1>t, <3>1, <3>2
    <3> QED
      BY <2>k, <3>3 DEF Kept
  <2>6. CASE RollBack(c)
    <3>1. ~Keeping(c)'
      BY <1>t, <2>6 DEF RollBack, Advance
    <3> QED
      BY <2>k, <3>1 DEF Kept
  <2>7. CASE CleanUp(c)
    <3>1. UNCHANGED <<work, modified, exit>> /\ stage'[c] = "cleanup"
      BY <1>t, <2>7 DEF CleanUp, BeginCleanup, Advance
    <3>2. Staged(c) /\ (stage[c] = "rollback" \/ (stage[c] = "settle" /\ exit[c] = 0))
      BY <2>7 DEF CleanUp, At, IInv, Sound
    <3> QED
      BY <2>k, <2>c, <3>1, <3>2 DEF Kept, Staged
  <2>8. CASE Report(c)
    <3>1. ~Keeping(c)'
      BY <1>t, <2>8 DEF Report, Advance
    <3> QED
      BY <2>k, <3>1 DEF Kept
  <2>9. CASE Manage(c)
    <3>1. /\ UNCHANGED <<stage, modified, exit>>
          /\ Keeping(c) => work' = work
      BY <2>9, ManagerWork DEF cycleVars
    <3> QED
      BY <2>k, <2>c, <3>1 DEF Kept
  <2> QED
    BY <1>1, <2>1, <2>2, <2>3, <2>4, <2>5, <2>6, <2>7, <2>8, <2>9 DEF Cycle
<1>2. CASE UNCHANGED vars
  BY <1>2 DEF vars, snapVars, cycleVars, Kept
<1> QED
  BY <1>1, <1>2 DEF Next

\* A cycle that reports success leaves its whole patch on disk: neither the
\* second attempt nor what an interrupted cycle left takes a file of it back.
\* The planner's files must not be among those that installs and tests write.
THEOREM SuccessesKeepThePatch ==
  ASSUME ~Overlap, Targets \cap Scratch = {}
  PROVE  Spec => SuccessKeepsThePatch
<1>1. Init => Kept
  BY DEF Init, Kept
<1>2. IInv /\ Kept /\ [Next]_vars => Kept'
  BY KeptStep
<1>3. ASSUME IInv, Kept, NEW c \in Callers, Next, stage[c] # "done", Succeeded(c)'
      PROVE  \A f \in modified[c] : work[f] = Patched
  <2>1. Report(c)
    BY <1>3, ReportsOnly DEF IInv, Succeeded
  <2>2. stage[c] = "cleanup" /\ exit[c] = 0
    BY <1>3, <2>1 DEF Report, At, Succeeded
  <2> QED
    BY <1>3, <2>2 DEF Kept
<1>4. IInv /\ Kept /\ [Next]_vars =>
         [\A c \in Callers : stage[c] # "done" /\ Succeeded(c)' =>
             \A f \in modified[c] : work[f] = Patched]_vars
  BY <1>3
<1> QED
  BY <1>1, <1>2, <1>4, Invariance, PTL DEF Spec, SuccessKeepsThePatch

\* What a cycle has answered for, it goes on answering for.
LEMMA AnswersStay ==
  ASSUME ~Overlap, IInv, NEW c \in Callers, Start(c) \/ Cycle(c) \/ Raise(c) \/ Crash(c),
         NEW f, AnsweredFor(f)
  PROVE  AnsweredFor(f)'
<1>t. stage \in [Callers -> Ended \cup {"idle", "snapshot", "patch", "measure", "test",
                                        "retry", "settle", "rollback", "cleanup"}]
  BY CycleTypes
<1>1. PICK d \in Callers : /\ f \in modified[d]
                           /\ stage[d] \in {"raised", "dead"} \/ (stage[d] = "done" /\ exit[d] = 0)
  BY DEF AnsweredFor
<1>2. c # d
  BY <1>1, ManagerWork DEF Start, Cycle, Patch, Measure, Test, NoTests, Retry, GiveUp, RollBack,
     CleanUp, Report, Raise, Crash, At, Running, Ended
<1>3. stage'[d] = stage[d]
  BY <1>2, OneMoves
<1>4. modified'[d] = modified[d] /\ exit'[d] = exit[d]
  <2>1. CASE Manage(c)
    BY <2>1 DEF Manage, cycleVars
  <2>2. /\ modified \in [Callers -> SUBSET Targets] /\ exit \in [Callers -> {-1, 0, 1}]
    BY CycleTypes
  <2> QED
    BY <1>2, <2>1, <2>2 DEF Start, Cycle, Patch, Measure, Test, RunTests, NoTests, Retry, GiveUp, RollBack,
       CleanUp, Report, Raise, Crash
<1> QED
  BY <1>1, <1>3, <1>4 DEF AnsweredFor

\* What a restore or a sweep writes, the cycle found there.
LEMMA RestoredContent ==
  ASSUME IInv, NEW c \in Callers, Manage(c), NEW f \in Files, work'[f] # work[f]
  PROVE  work'[f] \in {Absent, baseline[c][f]}
<1>t. mgr \in [Callers -> Managers] /\ work \in Tree
  BY CycleTypes
<1>1. ManagerStep(c)
  BY DEF Manage
<1>2. ASSUME NEW g \in Files, RestoreFile(c, g)
      PROVE  work'[f] \in {Absent, baseline[c][f]}
  <2>1. mgr[c].at = "restoring" /\ Protected(c)
    BY <1>2 DEF RestoreFile, IInv, Sound, Staged, Protected
  <2>2. store = Snapped(baseline[c])
    BY <2>1 DEF IInv, Sound, Backed
  <2>3. work'[f] = store[f]
    BY <1>2, <1>t DEF RestoreFile, Tree
  <2> QED
    BY <2>2, <2>3 DEF Snapped
<1>3. ASSUME NEW g \in Files, Unlink(c, g)
      PROVE  work'[f] \in {Absent, baseline[c][f]}
  BY <1>3, <1>t DEF Unlink, Tree
<1> QED
  BY <1>1, <1>2, <1>3 DEF ManagerStep, RemoveEntry, Cleared, CopyFile, WriteManifest, Sweep, Swept

\* No step puts a patch on disk that neither a cycle that is over nor the
\* running one answers for.
LEMMA AnsweredStep ==
  ASSUME ~Overlap, Targets \cap Excluded = {}, IInv, Answered, [Next]_vars
  PROVE  Answered'
<1>t. /\ stage \in [Callers -> Ended \cup {"idle", "snapshot", "patch", "measure", "test",
                                           "retry", "settle", "rollback", "cleanup"}]
      /\ exit \in [Callers -> {-1, 0, 1}] /\ modified \in [Callers -> SUBSET Targets]
      /\ baseline \in [Callers -> Tree] /\ work \in Tree
  BY CycleTypes
<1>1. ASSUME NEW c \in Callers, Start(c) \/ Cycle(c) \/ Raise(c) \/ Crash(c)
      PROVE  Answered'
  <2>a. \A f \in Files : AnsweredFor(f) => AnsweredFor(f)'
    BY <1>1, AnswersStay
  <2>o. \A d \in Callers \ {c} : ~Running(d) /\ ~Running(d)'
    BY <1>1, OneMoves DEF Running
  <2>w. \A f \in Files : work[f] = Patched =>
           AnsweredFor(f)' \/ (Running(c) /\ f \in modified[c])
    BY <2>a, <2>o DEF Answered
  <2>b. Running(c) => \A f \in Files : baseline[c][f] = Patched => AnsweredFor(f)'
    BY <2>a DEF Answered
  <2>e. \A d \in Callers : stage'[d] \in {"idle", "snapshot"} => modified'[d] = {}
    <3>1. CASE Manage(c)
      BY <3>1 DEF Manage, cycleVars, Answered
    <3>2. CASE Start(c)
      BY <1>t, <3>2 DEF Start, At, Advance, Answered
    <3>3. CASE ~Manage(c) /\ ~Start(c)
      <4>1. stage'[c] \notin {"idle", "snapshot"} /\ \A d \in Callers \ {c} : stage'[d] = stage[d]
        BY <1>1, <1>t, <3>3, OneMoves DEF Cycle, Patch, Measure, Test, NoTests, Retry, GiveUp,
           RollBack, CleanUp, Report, Raise, Crash, Advance
      <4>2. \A d \in Callers \ {c} : modified'[d] = modified[d]
        BY <1>1, <1>t, <3>3 DEF Cycle, Patch, Measure, Test, NoTests, Retry, GiveUp,
           RollBack, CleanUp, Report, Raise, Crash
      <4> QED
        BY <4>1, <4>2 DEF Answered
    <3> QED
      BY <3>1, <3>2, <3>3
  <2>q. ASSUME \A f \in Files : work'[f] = Patched =>
                  AnsweredFor(f)' \/ (Running(c)' /\ f \in modified'[c]),
               Running(c)' => \A f \in Files : baseline'[c][f] = Patched => AnsweredFor(f)'
        PROVE  Answered'
    BY <2>o, <2>q, <2>e DEF Answered
  <2>1. CASE Start(c)
    <3>1. ~Running(c) /\ baseline'[c] = work /\ work' = work
      BY <1>t, <2>1 DEF Start, BeginSnapshot, At, Running
    <3> QED
      BY <2>w, <2>q, <3>1
  <2>2. CASE Patch(c)
    <3>1. PICK S \in SUBSET (Targets \cap Listed(work)) :
             modified'[c] = S /\ \A f \in Files : work'[f] = IF f \in S THEN Patched ELSE work[f]
      BY <1>t, <2>2 DEF Patch, Write
    <3>2. Running(c) /\ Running(c)' /\ UNCHANGED baseline
      BY <1>t, <2>2 DEF Patch, At, Advance, Running, Ended
    <3>3. modified[c] = {}
      BY <2>2 DEF Patch, At, Answered
    <3> QED
      BY <2>w, <2>b, <2>q, <3>1, <3>2, <3>3
  <2>3. CASE Measure(c) \/ NoTests(c) \/ GiveUp(c) \/ RollBack(c) \/ CleanUp(c)
    <3>1. /\ Running(c)' /\ Running(c)
          /\ UNCHANGED <<work, baseline, modified>>
      BY <1>t, <2>3 DEF Measure, NoTests, GiveUp, RollBack, BeginRestore, CleanUp, BeginCleanup,
         At, Advance, Running, Ended, snapVars
    <3> QED
      BY <2>w, <2>b, <2>q, <3>1
  <2>4. CASE Test(c) \/ Retry(c)
    <3>1. /\ Running(c)' /\ Running(c) /\ UNCHANGED <<baseline, modified>>
      BY <1>t, <2>4 DEF Test, Retry, At, Advance, Running, Ended
    <3>2. \A f \in Files : work'[f] = Patched => work[f] = Patched \/ f \in modified[c]
      BY <1>t, <2>4, ContentFacts DEF Test, RunTests, Retry, Write
    <3> QED
      BY <2>w, <2>b, <2>q, <3>1, <3>2
  <2>5. CASE Raise(c) \/ Crash(c)
    <3>1. /\ stage'[c] \in {"raised", "dead"} /\ UNCHANGED modified
          /\ \A f \in Files : work'[f] = Patched => work[f] = Patched \/ f \in modified[c]
      BY <1>t, <2>5 DEF Raise, Crash, Advance, Write
    <3>2. \A f \in modified[c] : AnsweredFor(f)'
      BY <3>1 DEF AnsweredFor
    <3>3. ~Running(c)'
      BY <3>1 DEF Running, Ended
    <3> QED
      BY <2>w, <2>q, <3>1, <3>2, <3>3
  <2>6. CASE Report(c)
    <3>1. /\ stage'[c] = "done" /\ stage[c] = "cleanup" /\ Running(c) /\ ~Running(c)'
          /\ UNCHANGED <<work, modified, exit>>
      BY <1>t, <2>6 DEF Report, At, Advance, Running, Ended, snapVars
    <3>2. CASE exit[c] = 0
      <4>1. \A f \in modified[c] : AnsweredFor(f)'
        BY <3>1, <3>2 DEF AnsweredFor
      <4> QED
        BY <2>w, <2>q, <3>1, <4>1
    <3>3. CASE exit[c] # 0
      <4>1. \A f \in Files \ Excluded : work[f] = Snapped(baseline[c])[f]
        BY <3>1, <3>3 DEF IInv, Sound, RolledBack
      <4>2. \A f \in Files : work[f] = Patched /\ f \in modified[c] => AnsweredFor(f)'
        BY <1>t, <2>b, <3>1, <4>1, ContentFacts DEF Snapped
      <4> QED
        BY <2>w, <2>q, <3>1, <4>2
    <3> QED
      BY <3>2, <3>3
  <2>7. CASE Manage(c)
    <3>1. UNCHANGED cycleVars /\ stage[c] \in {"snapshot", "rollback", "cleanup"}
      BY <2>7, ManagerWork
    <3>2. Running(c) /\ Running(c)' /\ UNCHANGED <<modified, baseline>>
      BY <3>1 DEF cycleVars, Running, Ended
    <3>3. \A f \in Files : work'[f] = Patched => work[f] = Patched \/ baseline[c][f] = Patched
      BY <2>7, RestoredContent, ContentFacts
    <3> QED
      BY <2>w, <2>b, <2>q, <3>2, <3>3
  <2> QED
    BY <1>1, <2>1, <2>2, <2>3, <2>4, <2>5, <2>6, <2>7 DEF Cycle
<1>2. CASE UNCHANGED vars
  BY <1>2 DEF vars, snapVars, cycleVars, Answered, AnsweredFor, Running
<1> QED
  BY <1>1, <1>2 DEF Next

\* With no cycle running, every patch on disk is one that a cycle kept because
\* its tests passed, or that an exception or a crash left; the planner's files
\* must be ones the snapshot covers, for a rollback does not touch the others.
THEOREM PatchesAreAnsweredFor ==
  ASSUME ~Overlap, Targets \cap Excluded = {}
  PROVE  Spec => []PatchesAreAccountedFor
<1>1. Init => Answered
  <2> SUFFICES ASSUME Init PROVE Answered
    OBVIOUS
  <2>1. \A c \in Callers : ~Running(c)
    BY DEF Init, Running
  <2>2. \A f \in Files : work[f] # Patched
    BY ContentFacts DEF Init, Listed
  <2> QED
    BY <2>1, <2>2 DEF Answered, Init
<1>2. IInv /\ Answered /\ [Next]_vars => Answered'
  BY AnsweredStep
<1>3. Answered => PatchesAreAccountedFor
  BY DEF Answered, AnsweredFor, PatchesAreAccountedFor
<1> QED
  BY <1>1, <1>2, <1>3, Invariance, PTL DEF Spec
=============================================================================
