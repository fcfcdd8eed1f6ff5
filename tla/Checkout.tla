------------------------------ MODULE Checkout ------------------------------
(***************************************************************************)
(* The customer's git checkout as Koyote's repair paths use it: the work   *)
(* tree, the index, the branch tips and the remote, together with          *)
(*                                                                         *)
(*   - git_commit_and_push (python/koyote/git_ops.py), one operator per    *)
(*     git command it runs, so that a crash or another writer may come     *)
(*     between two of them;                                                *)
(*   - SnapshotManager.snapshot / restore (python/koyote/sandbox/          *)
(*     snapshot.py).                                                       *)
(*                                                                         *)
(* A tree maps every file to its content, or to Absent.  git itself is     *)
(* outside the repository: its commands are modelled by what the code that *)
(* runs them relies on.                                                    *)
(***************************************************************************)
EXTENDS Integers, Sequences, FiniteSets

CONSTANTS
    Files,       \* repo-relative paths
    Contents,    \* what a present file may hold
    Absent,      \* "no such file"
    NoTree,      \* no sandbox, no snapshot
    BaseTree,    \* the tree of the first commit
    Main,        \* the branch the developer works on
    Branches,    \* the branches koyote/hunt-<finding> of the repairs
    Excluded,    \* files below build/, dist/, target/, ...: not snapshotted
    Unreadable   \* files SnapshotManager may fail to read or copy

Tree == [Files -> Contents \cup {Absent}]
AllBranches == Branches \cup {Main}

ASSUME CheckoutAssumption ==
    /\ Absent \notin Contents
    /\ NoTree \notin Tree
    /\ BaseTree \in Tree
    /\ Main \notin Branches
    /\ Excluded \subseteq Files
    /\ Unreadable \subseteq Files

VARIABLES
    work,      \* the files on disk
    index,     \* the git index of the checkout
    head,      \* the branch that is checked out
    tip,       \* branch -> commit, 0 when the branch does not exist
    commits,   \* the trees of the commits, in the order they were made
    remote     \* branch -> commit on origin, 0 when never pushed

gitVars == <<work, index, head, tip, commits, remote>>

CheckoutTypeOK ==
    /\ work \in Tree
    /\ index \in Tree
    /\ head \in AllBranches
    /\ commits \in Seq(Tree)
    /\ tip \in [AllBranches -> 0..Len(commits)]
    /\ tip[head] # 0 /\ tip[Main] # 0
    /\ remote \in [Branches -> 0..Len(commits)]

CheckoutInit ==
    /\ work = BaseTree
    /\ index = BaseTree
    /\ head = Main
    /\ tip = [b \in AllBranches |-> IF b = Main THEN 1 ELSE 0]
    /\ commits = <<BaseTree>>
    /\ remote = [b \in Branches |-> 0]

HeadTree == commits[tip[head]]

Differing(t, u) == {f \in Files : t[f] # u[f]}

\* The names `git status --porcelain` prints: staged, modified and untracked
\* files alike (_worktree_dirty_set).
DirtySet == Differing(HeadTree, index) \cup Differing(index, work)

-----------------------------------------------------------------------------
(* git checkout of an existing branch: git refuses when a file the two     *)
(* commits disagree on has local changes that the switch would overwrite.  *)

SwitchAllowed(target) ==
    \A f \in Differing(HeadTree, target) :
        \/ index[f] = target[f]
        \/ index[f] = HeadTree[f] /\ work[f] = index[f]

SwitchTo(b) ==
    LET target == commits[tip[b]]
        moved  == {f \in Differing(HeadTree, target) : index[f] # target[f]}
        over(t) == [f \in Files |-> IF f \in moved THEN target[f] ELSE t[f]]
    IN  /\ head' = b
        /\ index' = over(index)
        /\ work' = over(work)
        /\ UNCHANGED <<tip, commits, remote>>

\* git_commit_and_push first tries `checkout -b`; when the branch exists it
\* falls back to `checkout`, whose failure it does not look at.
CheckoutBranch(b) ==
    \/ /\ tip[b] = 0
       /\ head' = b
       /\ tip' = [tip EXCEPT ![b] = tip[head]]
       /\ UNCHANGED <<work, index, commits, remote>>
    \/ tip[b] # 0 /\ SwitchAllowed(commits[tip[b]]) /\ SwitchTo(b)
    \/ tip[b] # 0 /\ ~SwitchAllowed(commits[tip[b]]) /\ UNCHANGED gitVars

\* git add of the repair's files.
AddFiles(fs) ==
    /\ index' = [f \in Files |-> IF f \in fs THEN work[f] ELSE index[f]]
    /\ UNCHANGED <<work, head, tip, commits, remote>>

NothingStaged == index = HeadTree

\* git commit records the whole index on whatever branch is checked out.
CommitTree(t) ==
    /\ commits' = Append(commits, t)
    /\ tip' = [tip EXCEPT ![head] = Len(commits) + 1]
    /\ index' = t
    /\ UNCHANGED <<work, head, remote>>

\* git push --force of the branch the caller named, not of the one that is
\* checked out.
PushBranch(b) ==
    /\ remote' = [remote EXCEPT ![b] = tip[b]]
    /\ UNCHANGED <<work, index, head, tip, commits>>

-----------------------------------------------------------------------------
(* SnapshotManager.  A file it skipped is not in the manifest, and so is   *)
(* remembered like a file that did not exist.                              *)

Captured(skipped) ==
    [f \in Files |-> IF f \in Excluded \cup skipped THEN Absent ELSE work[f]]

\* restore() copies every manifest file back and unlinks every other file it
\* walks over; excluded directories are left alone, and without a manifest
\* nothing happens.
Restored(snapshot) ==
    IF snapshot = NoTree THEN work
    ELSE [f \in Files |-> IF f \in Excluded THEN work[f] ELSE snapshot[f]]

=============================================================================
