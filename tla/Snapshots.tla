----------------------------- MODULE Snapshots ------------------------------
(***************************************************************************)
(* SnapshotManager (src/src/runtime/snapshot.rs): snapshot() empties the   *)
(* snapshot directory, copies every file that is not excluded and writes   *)
(* the manifest last; restore() copies back what differs from the manifest *)
(* and unlinks what it does not list.  The class of the same name in       *)
(* src/python/koyote/sandbox/snapshot.py is this algorithm over again, and *)
(* Maintenance composes it with its caller.                                *)
(*                                                                         *)
(* Several callers may share one directory.  A file is read, hashed and    *)
(* copied in one step, so a hash stands for the content it was taken of.   *)
(***************************************************************************)
EXTENDS Integers, FiniteSets

CONSTANTS Callers,     \* the processes or threads that use the directory
          Files,       \* the files of the working directory
          Excluded,    \* those under a name of DEFAULT_EXCLUDE
          Unreadable,  \* those file_hash or fs::copy fails on
          Contents,    \* what a file may hold
          Absent       \* no such file

VARIABLES
    work,      \* the working directory
    store,     \* the copies in the snapshot directory
    manifest,  \* _manifest.json: the hash of each copied file; complete: it exists
    mgr        \* per caller: the manager's operation under way

snapVars == <<work, store, manifest, mgr>>

Tree     == [Files -> Contents \cup {Absent}]
Nothing  == [f \in Files |-> Absent]
Entries  == Files \cup {"manifest"}       \* what the snapshot directory can hold
Idle     == [at |-> "idle", todo |-> {}, seen |-> Nothing]

SnapTypeOK ==
    /\ work \in Tree /\ store \in Tree
    /\ manifest \in [complete : BOOLEAN, hash : Tree]
    /\ mgr \in [Callers ->
          [at : {"idle", "clearing", "copying", "restoring", "sweeping", "cleaning"},
           todo : SUBSET Entries, seen : Tree]]

SnapInit ==
    /\ work \in Tree
    /\ store = Nothing
    /\ manifest = [complete |-> FALSE, hash |-> Nothing]
    /\ mgr = [c \in Callers |-> Idle]

Listed(tree) == {f \in Files : tree[f] # Absent}

\* walk_files: the files of the working directory outside excluded names.
Walked(tree) == Listed(tree) \ Excluded

InStore == Listed(store) \cup (IF manifest.complete THEN {"manifest"} ELSE {})

GoTo(c, at, todo, seen) ==
    mgr' = [mgr EXCEPT ![c] = [at |-> at, todo |-> todo, seen |-> seen]]

Begin(c, at) ==
    /\ mgr[c].at = "idle"
    /\ GoTo(c, at, InStore, Nothing)

\* Mutant of BeginSnapshot: the snapshot an interrupted run left is used again.
BeginSnapshotOver(c) ==
    /\ IF manifest.complete THEN mgr[c].at = "idle" /\ UNCHANGED mgr ELSE Begin(c, "clearing")
    /\ UNCHANGED <<work, store, manifest>>

\* snapshot() and cleanup() begin with remove_dir_all, which removes the
\* directory's entries one by one, in no particular order.
BeginSnapshot(c) == Begin(c, "clearing") /\ UNCHANGED <<work, store, manifest>>
BeginCleanup(c)  == Begin(c, "cleaning") /\ UNCHANGED <<work, store, manifest>>

RemoveEntry(c, e) ==
    /\ mgr[c].at \in {"clearing", "cleaning"}
    /\ e \in mgr[c].todo
    /\ GoTo(c, mgr[c].at, mgr[c].todo \ {e}, Nothing)
    /\ IF e \in Files
       THEN store' = [store EXCEPT ![e] = Absent] /\ UNCHANGED manifest
       ELSE manifest' = [complete |-> FALSE, hash |-> Nothing] /\ UNCHANGED store
    /\ UNCHANGED work

Cleared(c) ==
    /\ mgr[c].at \in {"clearing", "cleaning"}
    /\ mgr[c].todo = {}
    /\ IF mgr[c].at = "clearing"
       THEN GoTo(c, "copying", Files \ Excluded, Nothing)
       ELSE mgr' = [mgr EXCEPT ![c] = Idle]
    /\ UNCHANGED <<work, store, manifest>>

\* The visit closure of snapshot(): a file that cannot be read is left out
\* of both the copies and the manifest.
CopyFile(c, f) ==
    /\ mgr[c].at = "copying"
    /\ f \in mgr[c].todo
    /\ IF work[f] # Absent /\ f \notin Unreadable
       THEN /\ store' = [store EXCEPT ![f] = work[f]]
            /\ GoTo(c, "copying", mgr[c].todo \ {f}, [mgr[c].seen EXCEPT ![f] = work[f]])
       ELSE /\ GoTo(c, "copying", mgr[c].todo \ {f}, mgr[c].seen)
            /\ UNCHANGED store
    /\ UNCHANGED <<work, manifest>>

WriteManifest(c) ==
    /\ mgr[c].at = "copying"
    /\ mgr[c].todo = {}
    /\ manifest' = [complete |-> TRUE, hash |-> mgr[c].seen]
    /\ mgr' = [mgr EXCEPT ![c] = Idle]
    /\ UNCHANGED <<work, store>>

\* restore() without a manifest returns 0 and touches nothing.
BeginRestore(c) ==
    /\ mgr[c].at = "idle"
    /\ IF manifest.complete
       THEN GoTo(c, "restoring", Listed(manifest.hash), manifest.hash)
       ELSE UNCHANGED mgr
    /\ UNCHANGED <<work, store, manifest>>

\* Mutant of RestoreFile: only missing files are copied back.
RestoreMissing(c, f) ==
    /\ mgr[c].at = "restoring"
    /\ f \in mgr[c].todo
    /\ work' = IF work[f] = Absent /\ store[f] # Absent THEN [work EXCEPT ![f] = store[f]] ELSE work
    /\ GoTo(c, "restoring", mgr[c].todo \ {f}, mgr[c].seen)
    /\ UNCHANGED <<store, manifest>>

\* A listed file whose hash differs, or that is missing, is copied back if
\* its copy is still there.
RestoreFile(c, f) ==
    /\ mgr[c].at = "restoring"
    /\ f \in mgr[c].todo
    /\ work' = IF work[f] # mgr[c].seen[f] /\ store[f] # Absent
               THEN [work EXCEPT ![f] = store[f]]
               ELSE work
    /\ GoTo(c, "restoring", mgr[c].todo \ {f}, mgr[c].seen)
    /\ UNCHANGED <<store, manifest>>

\* The second walk collects the files the manifest does not list ...
Sweep(c) ==
    /\ mgr[c].at = "restoring"
    /\ mgr[c].todo = {}
    /\ GoTo(c, "sweeping", Walked(work) \ Listed(mgr[c].seen), mgr[c].seen)
    /\ UNCHANGED <<work, store, manifest>>

\* ... and unlinks them, whoever wrote them.
Unlink(c, f) ==
    /\ mgr[c].at = "sweeping"
    /\ f \in mgr[c].todo
    /\ work' = [work EXCEPT ![f] = Absent]
    /\ GoTo(c, "sweeping", mgr[c].todo \ {f}, mgr[c].seen)
    /\ UNCHANGED <<store, manifest>>

Swept(c) ==
    /\ mgr[c].at = "sweeping"
    /\ mgr[c].todo = {}
    /\ mgr' = [mgr EXCEPT ![c] = Idle]
    /\ UNCHANGED <<work, store, manifest>>

\* The steps of an operation once its caller has begun it.
ManagerStep(c) ==
    \/ \E e \in Entries : RemoveEntry(c, e)
    \/ Cleared(c)
    \/ \E f \in Files : CopyFile(c, f) \/ RestoreFile(c, f) \/ Unlink(c, f)
    \/ WriteManifest(c)
    \/ Sweep(c)
    \/ Swept(c)
=============================================================================
