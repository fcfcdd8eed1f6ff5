--------------------------- MODULE HuntProperties ---------------------------
(***************************************************************************)
(* What Hunt has to guarantee: the properties that hold of the code, and   *)
(* one its documents state that the code does not keep (README.md says     *)
(* which).                                                                 *)
(***************************************************************************)
EXTENDS Hunt

\* Where the locals have the values the next step relies on: TypeOK with this
\* is inductive.
Preloop == {"idle", "lock", "gather", "sandbox", "snapshot", "baseline"}
Boxed == {"snapshot", "baseline", "reason", "author", "verify", "judge",
          "settle", "bind", "promote"}
LocalsInOrder ==
    \A h \in Hunts :
        /\ pc[h] \in Preloop => locals[h].attempt = 0
        /\ pc[h] = "reason" => locals[h].attempt < MaxAttempts
        /\ pc[h] = "sandbox" => locals[h].sha # 0
        /\ pc[h] \in Boxed => sandbox[h] \in Tree

IInv == TypeOK /\ LocalsInOrder

\* The lock is held by exactly the hunt that is between HuntLock.acquire and
\* the release in the finally block, through refusals, exceptions and crashes.
LockMatchesHolder ==
    Flock => \A h \in Hunts : (lock = h <=> pc[h] \in Inside)

\* "One Hunt per repository at a time": with flock available no two hunts are
\* between gathering their context and dropping their sandbox.
OneHuntInside ==
    Flock => \A g, h \in Hunts :
        pc[g] \in Inside /\ pc[h] \in Inside => g = h

\* What a hunt is about to promote was sealed on evidence that still holds:
\* green tests of exactly the tree that is now in the sandbox, measured
\* changes inside the scope the model declared.  A retry may not inherit a
\* verdict, and nothing may edit the sandbox after the tests.
SealedRepairIsEarned ==
    \A h \in Hunts : pc[h] \in {"bind", "promote"} =>
        /\ token[h] # {}
        /\ token[h] = locals[h].patched
        /\ locals[h].exit = "green"
        /\ InScope(locals[h].declared, locals[h].forbidden, locals[h].changed)
        /\ sandbox[h] = tested[h]

\* A refused hunt leaves every file of the checkout as it found it when it got
\* the lock, also when it had promoted part of its repair already.
RefusalLeavesNoTrace ==
    \A h \in Hunts :
        At(h, "finish") /\ outcome[h] \in Refusals => work = entry[h]

\* Once a hunt is over, its sandbox is gone and it does not hold the lock,
\* also when it was refused or an exception ended it; a killed process leaves
\* its sandbox behind (and so does a git that hangs, which the run excludes).
NothingHeldAfterwards ==
    \A h \in Hunts : At(h, "ended") =>
        /\ lock # h
        /\ outcome[h] # "crashed" => sandbox[h] = NoTree

\* Files are promoted only onto the commit the sandbox was made from: no other
\* hunt's publication moves HEAD between the binding check and the copy.
PromotionOntoBoundCommit ==
    [][\A h \in Hunts : \A f \in locals'[h].promoted \ locals[h].promoted :
          tip[head] = locals[h].sha]_vars

\* When publish() reports a pushed branch, the repaired files on that branch
\* are byte for byte the ones the tests ran on.
PushCarriesTestedFiles ==
    [][\A h \in Hunts : pushed'[h] # pushed[h] =>
        \A f \in token[h] :
            commits'[remote'[FindingOf[h]]][f] = tested[h][f]]_vars

\* The whole tree of the pushed commit is a tree the tests ran on.
PublishedTreeWasTested ==
    [][\A h \in Hunts : pushed'[h] # pushed[h] =>
        commits'[remote'[FindingOf[h]]] = tested[h]]_vars

\* The commit a hunt makes touches the files of its sealed repair only.
CommitCarriesOnlyTheRepair ==
    [][\A h \in Hunts : At(h, "commit") /\ pc'[h] = "push" =>
        Differing(HeadTree, commits'[Len(commits')]) \subseteq token[h]]_vars

\* The audit record a commit message points to calls the repair verified when
\* the branch is pushed.
AuditBacksThePush ==
    [][\A h \in Hunts : pushed'[h] # pushed[h] =>
        audit'[FindingOf[h]].final = "verified"]_vars

\* A hunt that asked for the lock, and one that left its publication, ends,
\* whatever the model, the tests, the developer and the other hunts do: also when
\* another hunt holds the lock for ever, waiting for git push.  Only its own
\* publication may keep it.
Commands == {"branch", "add", "commit", "push"}
EveryHuntEnds ==
    \A h \in Hunts : pc[h] \in (Inside \cup {"lock"}) \ Commands
                         ~> At(h, "ended") \/ pc[h] \in Commands
=============================================================================
