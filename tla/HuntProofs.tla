----------------------------- MODULE HuntProofs -----------------------------
(***************************************************************************)
(* What holds of Hunt for any number of hunts, files and attempts.  First  *)
(* what needs nothing: with or without flock, whatever the developer does  *)
(* and whatever fails.  Then what the lock buys a hunt whose developer     *)
(* keeps still, and what a hunt leaves behind and publishes; there each    *)
(* theorem names what it takes from the lock, from the developer and from  *)
(* what may fail; without it TLC finds a counterexample, as the README     *)
(* says.                                                                   *)
(***************************************************************************)
EXTENDS HuntProperties, TLAPS

USE CheckoutAssumption, HuntAssumption DEF Verdicts, Interpretations

-----------------------------------------------------------------------------
(* Lemmas on the checkout.                                                 *)

\* The tree of the commit that is checked out.
LEMMA HeadTreeType == CheckoutTypeOK => HeadTree \in Tree
BY DEF CheckoutTypeOK, HeadTree

\* A restored checkout is a tree, whatever the snapshot caught.
LEMMA RestoredType ==
    ASSUME work \in Tree, NEW s \in Tree \cup {NoTree}
    PROVE  Restored(s) \in Tree
BY DEF Restored, Tree

\* The git commands of git_commit_and_push keep the checkout well-formed.
LEMMA GitSteps ==
    ASSUME CheckoutTypeOK
    PROVE  /\ \A b \in Branches : CheckoutBranch(b) => CheckoutTypeOK'
           /\ \A fs \in SUBSET Files : AddFiles(fs) => CheckoutTypeOK'
           /\ \A t \in Tree : CommitTree(t) =>
                CheckoutTypeOK' /\ Len(commits') = Len(commits) + 1
           /\ \A b \in Branches : PushBranch(b) => CheckoutTypeOK'
           /\ SwitchTo(Main) /\ tip[Main] # 0 => CheckoutTypeOK'
<1>1. ASSUME NEW b \in AllBranches, SwitchTo(b), tip[b] # 0
      PROVE  CheckoutTypeOK'
  <2>1. commits[tip[b]] \in Tree
    BY <1>1 DEF CheckoutTypeOK
  <2> QED BY <1>1, <2>1 DEF CheckoutTypeOK, SwitchTo, Tree
<1>2. ASSUME NEW b \in Branches, CheckoutBranch(b) PROVE CheckoutTypeOK'
  <2>1. CASE tip[b] = 0
    BY <1>2, <2>1 DEF CheckoutBranch, CheckoutTypeOK, AllBranches
  <2>2. CASE tip[b] # 0 /\ SwitchTo(b)
    BY <1>1, <2>2 DEF AllBranches
  <2>3. CASE UNCHANGED gitVars
    BY <2>3 DEF gitVars, CheckoutTypeOK
  <2> QED BY <1>2, <2>1, <2>2, <2>3 DEF CheckoutBranch
<1>3. ASSUME NEW fs \in SUBSET Files, AddFiles(fs) PROVE CheckoutTypeOK'
  BY <1>3 DEF AddFiles, CheckoutTypeOK, Tree
<1>4. ASSUME NEW t \in Tree, CommitTree(t)
      PROVE  CheckoutTypeOK' /\ Len(commits') = Len(commits) + 1
  BY <1>4 DEF CommitTree, CheckoutTypeOK
<1>5. ASSUME NEW b \in Branches, PushBranch(b) PROVE CheckoutTypeOK'
  BY <1>5 DEF PushBranch, CheckoutTypeOK, AllBranches
<1> QED BY <1>1, <1>2, <1>3, <1>4, <1>5 DEF AllBranches

-----------------------------------------------------------------------------
(* The type invariant.                                                     *)

\* A checkout of one commit, no hunt running.
LEMMA InitTyped == Init => IInv
<1> SUFFICES ASSUME Init PROVE IInv
  OBVIOUS
<1>1. CheckoutTypeOK
  BY DEF Init, CheckoutInit, CheckoutTypeOK, AllBranches
<1>2. HuntTypeOK
  BY DEF Init, HuntTypeOK, Stages, Outcomes, Refusals, Audits, Findings, CheckoutInit
<1>3. NoLocals \in Locals
  BY DEF NoLocals, Locals
<1>4. LocalsTypeOK
  BY <1>3 DEF Init, LocalsTypeOK, CheckoutInit, NoLocals
<1>5. LocalsInOrder
  BY DEF Init, LocalsInOrder, NoLocals, Boxed, Preloop
<1> QED BY <1>1, <1>2, <1>4, <1>5 DEF IInv, TypeOK

\* A step of one hunt that replaces its locals by a well-formed record.
LEMMA KeepType ==
    ASSUME NEW h \in Hunts, NEW r \in Locals, LocalsTypeOK,
           Keep(h, r), r.sha <= Len(commits'), Len(commits) <= Len(commits'),
           Len(commits) \in Nat, Len(commits') \in Nat
    PROVE  LocalsTypeOK'
BY DEF LocalsTypeOK, Keep, Locals

\* A report, its audit record and the next stage.
LEMMA ConcludeType ==
    ASSUME HuntTypeOK, NEW h \in Hunts, NEW final \in Outcomes,
           NEW stage \in Stages, Conclude(h, final, stage)
    PROVE  /\ pc' \in [Hunts -> Stages] /\ pc'[h] = stage
           /\ \A g \in Hunts \ {h} : pc'[g] = pc[g]
           /\ outcome' \in [Hunts -> Outcomes]
           /\ audit' \in [Findings -> Audits]
<1>1. [final |-> final, pr |-> FALSE] \in Audits /\ FindingOf[h] \in Findings
  BY DEF Audits
<1> QED BY <1>1 DEF HuntTypeOK, Conclude, Goto

\* Everything before the attempt loop.
LEMMA BeforeTyped ==
    ASSUME IInv, NEW h \in Hunts, RefuseEarly(h) \/ Start(h) \/ Before(h)
    PROVE  IInv'
<1>0. CheckoutTypeOK /\ HuntTypeOK /\ LocalsTypeOK /\ LocalsInOrder
  BY DEF IInv, TypeOK
<1>1. UNCHANGED gitVars
  BY DEF RefuseEarly, Start, Before, Acquire, LockTimeout, GatherContext,
         CreateSandbox, TakeSnapshot, RecordBaseline
<1>2. CheckoutTypeOK' /\ Len(commits) \in Nat /\ commits' = commits
  BY <1>0, <1>1 DEF CheckoutTypeOK, gitVars
<1>3. FindingOf[h] \in Findings /\ locals[h] \in Locals
  BY <1>0 DEF LocalsTypeOK
<1>4. CASE RefuseEarly(h) \/ Start(h) \/ Acquire(h) \/ LockTimeout(h)
  <2>1. CASE RefuseEarly(h) \/ LockTimeout(h)
    <3>1. {"refused_early", "refused_lock"} \subseteq Outcomes /\ "ended" \in Stages
      BY DEF Outcomes, Stages
    <3>2. HuntTypeOK'
      BY <1>0, <2>1, <3>1, ConcludeType DEF HuntTypeOK, RefuseEarly,
         LockTimeout, restVars
    <3>3. LocalsTypeOK' /\ LocalsInOrder'
      BY <1>0, <1>2, <2>1, <3>1, ConcludeType DEF LocalsTypeOK, LocalsInOrder,
         RefuseEarly, LockTimeout, Preloop, Boxed
    <3> QED BY <1>2, <3>2, <3>3 DEF IInv, TypeOK
  <2>2. CASE Start(h) \/ Acquire(h)
    <3>0. pc' \in [Hunts -> Stages]
      BY <1>0, <2>2 DEF HuntTypeOK, Start, Acquire, Goto, Stages
    <3>1. HuntTypeOK'
      <4>1. CASE Start(h)
        BY <1>0, <3>0, <4>1 DEF HuntTypeOK, Start, reportVars, restVars,
           diskVars
      <4>2. CASE Acquire(h)
        BY <1>0, <3>0, <4>2 DEF CheckoutTypeOK, HuntTypeOK, Acquire,
           reportVars, diskVars
      <4> QED BY <2>2, <4>1, <4>2
    <3>2. LocalsTypeOK' /\ LocalsInOrder'
      BY <1>0, <1>2, <2>2 DEF HuntTypeOK, LocalsTypeOK, LocalsInOrder, Start,
         Acquire, At, Goto, Preloop, Boxed
    <3> QED BY <1>2, <3>1, <3>2 DEF IInv, TypeOK
  <2> QED BY <1>4, <2>1, <2>2
<1>5. CASE GatherContext(h)
  <2>1. HuntTypeOK'
    BY <1>0, <1>5 DEF HuntTypeOK, GatherContext, At, Goto, Stages, reportVars,
       restVars, diskVars
  <2>2. tip[head] \in Nat /\ tip[head] <= Len(commits) /\ tip[head] # 0
    BY <1>0 DEF CheckoutTypeOK
  <2>3. [locals[h] EXCEPT !.sha = tip[head]] \in Locals
    BY <1>3, <2>2 DEF Locals
  <2>4. LocalsTypeOK'
    BY <1>0, <1>2, <1>3, <1>5, <2>2, <2>3, KeepType DEF GatherContext, Locals
  <2>5. LocalsInOrder'
    BY <1>0, <1>3, <1>5, <2>2 DEF HuntTypeOK, LocalsTypeOK, LocalsInOrder,
       GatherContext, At, Goto, Keep, Preloop, Boxed, Locals
  <2> QED BY <1>2, <2>1, <2>4, <2>5 DEF IInv, TypeOK
<1>6. CASE CreateSandbox(h)
  <2>1. PICK worktree \in BOOLEAN :
          /\ Keep(h, [locals[h] EXCEPT !.linked = worktree])
          /\ sandbox' = [sandbox EXCEPT ![h] =
               IF worktree THEN commits[locals[h].sha]
               ELSE [f \in Files |-> IF index[f] = Absent THEN Absent
                                     ELSE work[f]]]
    BY <1>6 DEF CreateSandbox
  <2>2. commits[locals[h].sha] \in Tree
    BY <1>0, <1>3, <1>6 DEF CreateSandbox, At, LocalsInOrder, LocalsTypeOK,
       Locals, CheckoutTypeOK
  <2>3. [f \in Files |-> IF index[f] = Absent THEN Absent ELSE work[f]] \in Tree
    BY <1>0 DEF CheckoutTypeOK, Tree
  <2>4. sandbox' \in [Hunts -> Tree \cup {NoTree}] /\ sandbox'[h] \in Tree
    BY <1>0, <2>1, <2>2, <2>3 DEF HuntTypeOK
  <2>5. HuntTypeOK'
    BY <1>0, <1>6, <2>4 DEF HuntTypeOK, CreateSandbox, At, Goto, Stages,
       reportVars, restVars, diskVars
  <2>6. LocalsTypeOK'
    <3> DEFINE r == [locals[h] EXCEPT !.linked = worktree]
    <3>1. r \in Locals /\ r.sha = locals[h].sha
      BY <1>3 DEF Locals
    <3>2. r.sha <= Len(commits') /\ Keep(h, r)
      BY <1>0, <1>2, <2>1, <3>1 DEF LocalsTypeOK
    <3>3. /\ Len(commits') \in Nat
          /\ Len(commits) <= Len(commits')
      BY <1>2
    <3> HIDE DEF r
    <3> QED BY <1>0, <1>2, <3>1, <3>2, <3>3, KeepType
  <2>7. LocalsInOrder'
    BY <1>0, <1>3, <1>6, <2>1, <2>4 DEF HuntTypeOK, LocalsTypeOK,
       LocalsInOrder, CreateSandbox, At, Goto, Keep, Preloop, Boxed, Locals
  <2> QED BY <1>2, <2>5, <2>6, <2>7 DEF IInv, TypeOK
<1>7. CASE TakeSnapshot(h) \/ RecordBaseline(h)
  <2>1. PICK r \in Locals : /\ Keep(h, r)
                            /\ r.sha = locals[h].sha
                            /\ r.attempt = locals[h].attempt
    <3>1. CASE TakeSnapshot(h)
      BY <1>0, <1>3, <3>1 DEF TakeSnapshot, Keep, LocalsTypeOK
    <3>3. CASE RecordBaseline(h)
      <4>1. [locals[h] EXCEPT !.baseline = DirtySet] \in Locals
        BY <1>3 DEF Locals, DirtySet, Differing
      <4> QED BY <1>3, <3>3, <4>1 DEF Locals, RecordBaseline
    <3> QED BY <1>7, <3>1, <3>3
  <2>2. HuntTypeOK'
    <3>1. manifest' \in [Findings -> Tree \cup {NoTree}]
      <4>1. \A skipped \in SUBSET Unreadable : Captured(skipped) \in Tree
        BY <1>0 DEF Captured, CheckoutTypeOK, Tree
      <4>2. \/ UNCHANGED manifest
            \/ \E m \in Tree \cup {NoTree} :
                 manifest' = [manifest EXCEPT ![FindingOf[h]] = m]
        BY <1>7, <4>1 DEF TakeSnapshot, RecordBaseline, diskVars
      <4> QED BY <1>0, <4>2 DEF HuntTypeOK
    <3> QED BY <1>0, <1>7, <3>1 DEF HuntTypeOK, TakeSnapshot, RecordBaseline, At, Goto,
               Stages, reportVars, restVars, diskVars
  <2>3. LocalsTypeOK'
    BY <1>0, <1>2, <2>1, KeepType DEF LocalsTypeOK
  <2>4. LocalsInOrder'
    BY <1>0, <1>3, <1>7, <2>1 DEF HuntTypeOK, LocalsTypeOK, LocalsInOrder,
       TakeSnapshot, RecordBaseline, At, Goto, Keep, Preloop, Boxed, Locals
  <2> QED BY <1>2, <2>2, <2>3, <2>4 DEF IInv, TypeOK
<1> QED BY <1>4, <1>5, <1>6, <1>7 DEF Before

\* From the attempt loop on: what a step of one hunt has to show.
LEMMA LaterStepTyped ==
    ASSUME IInv, NEW h \in Hunts, NEW r \in Locals,
           NEW stage \in Stages \ Preloop, Keep(h, r), Goto(h, stage),
           CheckoutTypeOK', Len(commits) <= Len(commits'), HuntTypeOK',
           r.sha <= Len(commits'),
           stage = "reason" => r.attempt < MaxAttempts,
           stage \in Boxed => sandbox'[h] \in Tree,
           \A g \in Hunts \ {h} : sandbox'[g] = sandbox[g]
    PROVE  IInv'
<1>0. CheckoutTypeOK /\ HuntTypeOK /\ LocalsTypeOK /\ LocalsInOrder
  BY DEF IInv, TypeOK
<1>1. Len(commits) \in Nat /\ Len(commits') \in Nat
  BY <1>0 DEF CheckoutTypeOK
<1>2. LocalsTypeOK'
  BY <1>0, <1>1, KeepType
<1>3. /\ pc'[h] = stage /\ locals'[h] = r
      /\ \A g \in Hunts \ {h} : pc'[g] = pc[g] /\ locals'[g] = locals[g]
  BY <1>0 DEF HuntTypeOK, LocalsTypeOK, Goto, Keep
<1>4. LocalsInOrder'
  <2> SUFFICES ASSUME NEW g \in Hunts
               PROVE /\ pc'[g] \in Preloop => locals'[g].attempt = 0
                     /\ pc'[g] = "reason" => locals'[g].attempt < MaxAttempts
                     /\ pc'[g] = "sandbox" => locals'[g].sha # 0
                     /\ pc'[g] \in Boxed => sandbox'[g] \in Tree
    BY DEF LocalsInOrder
  <2>1. CASE g = h
    BY <1>3, <2>1 DEF Preloop
  <2>2. CASE g # h
    BY <1>0, <1>3, <2>2 DEF LocalsInOrder
  <2> QED BY <2>1, <2>2
<1> QED BY <1>2, <1>4 DEF IInv, TypeOK

\* `continue` begins another attempt only while the range has one left.
LEMMA ContinueStage ==
    ASSUME NEW h \in Hunts, NEW begun \in Nat, Continue(h, begun)
    PROVE  \E stage \in {"reason", "settle"} :
              /\ Goto(h, stage)
              /\ stage = "reason" => begun < MaxAttempts
BY DEF Continue

\* The attempt loop.
LEMMA LoopTyped ==
    ASSUME IInv, NEW h \in Hunts, Loop(h)
    PROVE  IInv'
<1>0. CheckoutTypeOK /\ HuntTypeOK /\ LocalsTypeOK /\ LocalsInOrder
  BY DEF IInv, TypeOK
<1>1. UNCHANGED gitVars
  BY DEF Loop, Reason, Author, Verify, Judge
<1>2. /\ CheckoutTypeOK' /\ Len(commits) \in Nat
      /\ commits' = commits /\ Len(commits) <= Len(commits')
  BY <1>0, <1>1 DEF CheckoutTypeOK, gitVars
<1>3. /\ locals[h] \in Locals /\ locals[h].sha <= Len(commits')
      /\ locals[h].attempt \in Nat
  BY <1>0, <1>2 DEF LocalsTypeOK, Locals
<1>4. {"reason", "settle", "author", "verify", "judge", "bind"}
        \subseteq Stages \ Preloop
  BY DEF Stages, Preloop
<1>5. ASSUME NEW r \in Locals, Keep(h, r), r.sha = locals[h].sha,
             NEW stage \in {"reason", "settle", "author", "verify", "judge", "bind"},
             Goto(h, stage), stage = "reason" => r.attempt < MaxAttempts,
             HuntTypeOK', sandbox'[h] \in Tree,
             \A g \in Hunts \ {h} : sandbox'[g] = sandbox[g]
      PROVE  IInv'
  BY <1>2, <1>3, <1>4, <1>5, LaterStepTyped
<1>6. ASSUME UNCHANGED locals PROVE Keep(h, locals[h])
  BY <1>0, <1>6 DEF Keep, LocalsTypeOK
<1>7. CASE Reason(h)
  <2>1. \E declared, forbidden, candidates \in SUBSET Files :
          /\ Keep(h, [locals[h] EXCEPT !.attempt = locals[h].attempt + 1,
                                       !.declared = declared,
                                       !.forbidden = forbidden,
                                       !.candidates = candidates])
          /\ Continue(h, locals[h].attempt + 1) \/ Goto(h, "author")
    <3>1. PICK declared \in SUBSET Files, forbidden \in SUBSET Files :
            LET named == IF declared # {} THEN declared ELSE Relevant
                candidates == {f \in named : sandbox[h][f] # Absent}
            IN  /\ Keep(h, [locals[h] EXCEPT !.attempt = locals[h].attempt + 1,
                                             !.declared = declared,
                                             !.forbidden = forbidden,
                                             !.candidates = candidates])
                /\ IF candidates = {} THEN Continue(h, locals[h].attempt + 1)
                   ELSE Goto(h, "author")
      BY <1>7 DEF Reason
    <3> DEFINE named == IF declared # {} THEN declared ELSE Relevant
               candidates == {f \in named : sandbox[h][f] # Absent}
    <3>2. candidates \in SUBSET Files
      OBVIOUS
    <3>3. /\ Keep(h, [locals[h] EXCEPT !.attempt = locals[h].attempt + 1,
                                       !.declared = declared,
                                       !.forbidden = forbidden,
                                       !.candidates = candidates])
          /\ Continue(h, locals[h].attempt + 1) \/ Goto(h, "author")
      BY <3>1
    <3> HIDE DEF candidates
    <3> QED BY <3>2, <3>3
  <2>a. PICK declared \in SUBSET Files, forbidden \in SUBSET Files,
             candidates \in SUBSET Files :
          /\ Keep(h, [locals[h] EXCEPT !.attempt = locals[h].attempt + 1,
                                       !.declared = declared,
                                       !.forbidden = forbidden,
                                       !.candidates = candidates])
          /\ Continue(h, locals[h].attempt + 1) \/ Goto(h, "author")
    BY <2>1
  <2> DEFINE begun == locals[h].attempt + 1
             r == [locals[h] EXCEPT !.attempt = begun,
                                    !.declared = declared,
                                    !.forbidden = forbidden,
                                    !.candidates = candidates]
  <2>2. begun \in 0..MaxAttempts
    BY <1>0, <1>7 DEF LocalsInOrder, LocalsTypeOK, Locals, Reason, At
  <2>3. r \in Locals /\ r.sha = locals[h].sha /\ r.attempt = begun
    BY <1>3, <2>2 DEF Locals
  <2>4. PICK stage \in {"reason", "settle", "author"} :
          Goto(h, stage) /\ (stage = "reason" => begun < MaxAttempts)
    BY <2>a, <2>2, ContinueStage
  <2>5. /\ HuntTypeOK' /\ sandbox'[h] \in Tree
        /\ \A g \in Hunts \ {h} : sandbox'[g] = sandbox[g]
    <3>1. pc' \in [Hunts -> Stages]
      BY <1>0, <1>4, <2>4 DEF HuntTypeOK, Goto
    <3> QED BY <1>0, <1>7, <3>1 DEF HuntTypeOK, LocalsInOrder, Boxed, Reason,
               At, reportVars, diskVars, restVars
  <2>6. Keep(h, r)
    BY <2>a
  <2> HIDE DEF r, begun
  <2> QED BY <1>5, <2>3, <2>4, <2>5, <2>6
<1>8. CASE Author(h)
  <2>1. PICK written \in SUBSET locals[h].candidates, raised \in BOOLEAN :
          \E draft \in [written -> Drafts] :
            Patch(h, Edited(sandbox[h], draft), IF raised THEN {} ELSE written)
    BY <1>8 DEF Author
  <2>2. PICK draft \in [written -> Drafts] :
            Patch(h, Edited(sandbox[h], draft), IF raised THEN {} ELSE written)
    BY <2>1
  <2> DEFINE tree == Edited(sandbox[h], draft)
             sealed == IF raised THEN {} ELSE written
             r == [locals[h] EXCEPT !.patched = sealed,
                                    !.changed = MeasuredChange(locals[h], tree)]
  <2>3. tree \in Tree
    BY <1>0, <1>8 DEF Author, At, LocalsInOrder, Boxed, Tree, Edited
  <2>4. sealed \in SUBSET Files
    BY <1>3 DEF Locals
  <2>5. /\ sandbox' \in [Hunts -> Tree \cup {NoTree}] /\ sandbox'[h] \in Tree
        /\ \A g \in Hunts \ {h} : sandbox'[g] = sandbox[g]
    BY <1>0, <2>2, <2>3 DEF HuntTypeOK, Patch
  <2>6. MeasuredChange(locals[h], tree) \in SUBSET Files
    BY <1>3 DEF MeasuredChange, Differing, Locals
  <2>7. r \in Locals /\ r.sha = locals[h].sha
    BY <1>3, <2>4, <2>6 DEF Locals
  <2>8. CASE sealed = {}
    <3>1. PICK stage \in {"reason", "settle"} :
            Goto(h, stage) /\ (stage = "reason" => locals[h].attempt < MaxAttempts)
      BY <1>3, <2>2, <2>8, ContinueStage DEF Patch
    <3>2. Keep(h, locals[h])
      BY <1>6, <2>2, <2>8 DEF Patch
    <3>3. HuntTypeOK'
      <4>1. pc' \in [Hunts -> Stages]
        BY <1>0, <1>4, <3>1 DEF HuntTypeOK, Goto
      <4> QED BY <1>0, <1>8, <2>5, <4>1 DEF HuntTypeOK, Author, reportVars,
                 diskVars, restVars
    <3> QED BY <1>3, <1>5, <2>5, <3>1, <3>2, <3>3
  <2>9. CASE sealed # {}
    <3>1. Keep(h, r) /\ Goto(h, "verify")
      BY <2>2, <2>9 DEF Patch
    <3>2. HuntTypeOK'
      <4>1. pc' \in [Hunts -> Stages]
        BY <1>0, <1>4, <3>1 DEF HuntTypeOK, Goto
      <4> QED BY <1>0, <1>8, <2>5, <4>1 DEF HuntTypeOK, Author, reportVars,
                 diskVars, restVars
    <3> HIDE DEF r
    <3> QED BY <1>5, <2>5, <2>7, <3>1, <3>2
  <2> QED BY <2>8, <2>9
<1>9. CASE Verify(h)
  <2>1. PICK e \in {"green", "red", "nocommand"} :
          Keep(h, [locals[h] EXCEPT !.exit = e])
    BY <1>9 DEF Verify
  <2> DEFINE r == [locals[h] EXCEPT !.exit = e]
  <2>2. r \in Locals /\ r.sha = locals[h].sha
    BY <1>3 DEF Locals
  <2>3. HuntTypeOK' /\ Goto(h, "judge")
    <3>1. pc' \in [Hunts -> Stages]
      BY <1>0, <1>9 DEF HuntTypeOK, Verify, Goto, Stages
    <3>2. tested' \in [Hunts -> Tree \cup {NoTree}]
      BY <1>0, <1>9 DEF HuntTypeOK, Verify
    <3> QED BY <1>0, <1>9, <3>1, <3>2 DEF HuntTypeOK, Verify, reportVars,
               diskVars, restVars
  <2>4. sandbox'[h] \in Tree /\ sandbox' = sandbox
    BY <1>0, <1>9 DEF Verify, At, LocalsInOrder, Boxed
  <2>5. Keep(h, r)
    BY <2>1
  <2> HIDE DEF r
  <2> QED BY <1>5, <2>2, <2>3, <2>4, <2>5
<1>10. CASE Judge(h)
  <2>1. PICK stage \in {"reason", "settle", "bind"} :
          Goto(h, stage) /\ (stage = "reason" => locals[h].attempt < MaxAttempts)
    BY <1>3, <1>10, ContinueStage DEF Judge
  <2>2. HuntTypeOK'
    <3>1. pc' \in [Hunts -> Stages]
      BY <1>0, <1>4, <2>1 DEF HuntTypeOK, Goto
    <3>2. token' \in [Hunts -> SUBSET Files]
      BY <1>0, <1>3, <1>10 DEF HuntTypeOK, Judge, Locals
    <3> QED BY <1>0, <1>10, <3>1, <3>2 DEF HuntTypeOK, Judge, diskVars, restVars
  <2>3. sandbox'[h] \in Tree /\ sandbox' = sandbox /\ Keep(h, locals[h])
    BY <1>0, <1>6, <1>10 DEF Judge, At, LocalsInOrder, Boxed
  <2> QED BY <1>3, <1>5, <2>1, <2>2, <2>3
<1> QED BY <1>7, <1>8, <1>9, <1>10 DEF Loop

\* A refusal restores the checkout to a tree and goes to the finally block.
LEMMA RefuseTyped ==
    ASSUME IInv, NEW h \in Hunts, NEW final \in Refusals, Refuse(h, final),
           UNCHANGED <<lock, token, pushed, answered, locals, sandbox, manifest,
                       restVars, tested>>,
           avoid' \subseteq Findings
    PROVE  IInv'
<1>0. CheckoutTypeOK /\ HuntTypeOK /\ LocalsTypeOK /\ LocalsInOrder
  BY DEF IInv, TypeOK
<1>1. final \in Outcomes /\ "finish" \in Stages \ Preloop /\ "finish" \notin Boxed
  BY DEF Outcomes, Stages, Preloop, Boxed
<1>2. Conclude(h, final, "finish") /\ Goto(h, "finish")
  BY DEF Refuse, Conclude
<1>3. HuntTypeOK'
  <2>1. /\ pc' \in [Hunts -> Stages] /\ outcome' \in [Hunts -> Outcomes]
        /\ audit' \in [Findings -> Audits]
    BY <1>0, <1>1, <1>2, ConcludeType
  <2> QED BY <1>0, <2>1 DEF HuntTypeOK, restVars
<1>4. Restored(manifest[FindingOf[h]]) \in Tree
  <2>1. FindingOf[h] \in Findings
    OBVIOUS
  <2>2. manifest[FindingOf[h]] \in Tree \cup {NoTree}
    BY <1>0, <2>1 DEF HuntTypeOK
  <2> QED BY <1>0, <2>2, RestoredType DEF CheckoutTypeOK
<1>5. CheckoutTypeOK' /\ commits' = commits /\ Len(commits) \in Nat
  BY <1>0, <1>4 DEF Refuse, CheckoutTypeOK
<1>6. locals[h] \in Locals /\ locals[h].sha <= Len(commits) /\ Keep(h, locals[h])
  BY <1>0 DEF LocalsTypeOK, Keep
<1> QED BY <1>1, <1>2, <1>3, <1>5, <1>6, LaterStepTyped

\* Promotion of a sealed repair.
LEMMA PromotionTyped ==
    ASSUME IInv, NEW h \in Hunts, Promotion(h)
    PROVE  IInv'
<1>0. CheckoutTypeOK /\ HuntTypeOK /\ LocalsTypeOK /\ LocalsInOrder
  BY DEF IInv, TypeOK
<1>1. Len(commits) \in Nat /\ locals[h] \in Locals /\ locals[h].sha <= Len(commits)
  BY <1>0 DEF CheckoutTypeOK, LocalsTypeOK
<1>2. {"promote", "decide"} \subseteq Stages \ Preloop /\ "decide" \notin Boxed
  BY DEF Stages, Preloop, Boxed
<1>3. /\ {"refused_unverified", "refused_binding", "refused_promotion",
          "refused_promotion_integrity"} \subseteq Refusals
      /\ "verified" \in Outcomes
  BY DEF Refusals, Outcomes
<1>4. CASE RefuseUnverified(h)
  <2>1. avoid' \subseteq Findings
    BY <1>0, <1>4 DEF RefuseUnverified, HuntTypeOK
  <2> QED BY <1>3, <1>4, <2>1, RefuseTyped DEF RefuseUnverified
<1>5. CASE Bind(h)
  <2>1. CASE Goto(h, "promote") /\ UNCHANGED <<gitVars, outcome, audit>>
    <3>1. HuntTypeOK' /\ sandbox'[h] \in Tree /\ Goto(h, "promote")
      <4>1. pc' \in [Hunts -> Stages]
        BY <1>0, <1>2, <1>5, <2>1 DEF HuntTypeOK, Bind, Goto
      <4> QED BY <1>0, <1>5, <2>1, <4>1 DEF HuntTypeOK, Bind, At,
                 LocalsInOrder, Boxed, restVars
    <3>2. CheckoutTypeOK' /\ commits' = commits
      BY <1>0, <1>5, <2>1 DEF CheckoutTypeOK, Bind, gitVars
    <3>3. Keep(h, locals[h])
      BY <1>0, <1>5 DEF Bind, Keep, LocalsTypeOK
    <3> QED BY <1>1, <1>2, <1>5, <3>1, <3>2, <3>3, LaterStepTyped DEF Bind
  <2>2. CASE Refuse(h, "refused_binding")
    <3>1. avoid' \subseteq Findings
      BY <1>0, <1>5 DEF Bind, HuntTypeOK
    <3> QED BY <1>3, <1>5, <2>2, <3>1, RefuseTyped DEF Bind
  <2> QED BY <1>5, <2>1, <2>2 DEF Bind
<1>6. CASE PromoteFile(h)
  <2>1. PICK f \in token[h] \ locals[h].promoted :
          /\ work' = [work EXCEPT ![f] = sandbox[h][f]]
          /\ Keep(h, [locals[h] EXCEPT !.promoted =
                        locals[h].promoted \cup {f}])
    BY <1>6 DEF PromoteFile
  <2> DEFINE r == [locals[h] EXCEPT !.promoted = locals[h].promoted \cup {f}]
  <2>2. f \in Files /\ sandbox[h] \in Tree
    BY <1>0, <1>6 DEF HuntTypeOK, LocalsInOrder, PromoteFile, At, Boxed
  <2>3. r \in Locals /\ r.sha = locals[h].sha
    BY <1>1, <2>2 DEF Locals
  <2>4. CheckoutTypeOK' /\ commits' = commits
    <3>1. work' \in Tree
      BY <1>0, <2>1, <2>2 DEF CheckoutTypeOK, Tree
    <3> QED BY <1>0, <1>6, <3>1 DEF CheckoutTypeOK, PromoteFile
  <2>5. HuntTypeOK' /\ sandbox' = sandbox /\ pc' = pc
    BY <1>0, <1>6 DEF HuntTypeOK, PromoteFile, reportVars, diskVars, restVars
  <2>6. Goto(h, "promote")
    BY <1>0, <1>6, <2>5 DEF PromoteFile, At, Goto, HuntTypeOK
  <2>7. Keep(h, r)
    BY <2>1
  <2> HIDE DEF r
  <2> QED BY <1>1, <1>2, <2>2, <2>3, <2>4, <2>5, <2>6, <2>7, LaterStepTyped
<1>7. CASE RefusePromotion(h)
  <2>1. avoid' \subseteq Findings
    BY <1>0, <1>7 DEF RefusePromotion, HuntTypeOK
  <2> QED BY <1>3, <1>7, <2>1, RefuseTyped DEF RefusePromotion
<1>8. CASE VerifyPromotion(h)
  <2>1. CASE Intact(h)
    <3>1. Keep(h, locals[h])
      BY <1>0, <1>8 DEF VerifyPromotion, Keep, LocalsTypeOK
    <3>2. Conclude(h, "verified", "decide") /\ Goto(h, "decide")
      BY <1>8, <2>1 DEF VerifyPromotion, Conclude
    <3>3. HuntTypeOK' /\ sandbox' = sandbox
      <4>1. /\ pc' \in [Hunts -> Stages] /\ outcome' \in [Hunts -> Outcomes]
            /\ audit' \in [Findings -> Audits]
        BY <1>0, <1>2, <1>3, <3>2, ConcludeType
      <4>2. manifest' \in [Findings -> Tree \cup {NoTree}]
        BY <1>0, <1>8, <2>1 DEF HuntTypeOK, VerifyPromotion
      <4> QED BY <1>0, <1>8, <4>1, <4>2 DEF HuntTypeOK, VerifyPromotion, restVars
    <3>4. CheckoutTypeOK' /\ commits' = commits
      BY <1>0, <1>8, <2>1 DEF CheckoutTypeOK, VerifyPromotion, gitVars
    <3> QED BY <1>1, <1>2, <3>1, <3>2, <3>3, <3>4, LaterStepTyped
  <2>2. CASE ~Intact(h)
    <3>1. avoid' \subseteq Findings
      BY <1>0, <1>8 DEF VerifyPromotion, HuntTypeOK
    <3> QED BY <1>3, <1>8, <2>2, <3>1, RefuseTyped DEF VerifyPromotion
  <2> QED BY <2>1, <2>2
<1> QED BY <1>4, <1>5, <1>6, <1>7, <1>8 DEF Promotion

\* update_audit keeps an audit record an audit record.
LEMMA NotePRType ==
    ASSUME HuntTypeOK, NEW h \in Hunts, NEW url \in BOOLEAN, NotePR(h, url)
    PROVE  audit' \in [Findings -> Audits]
<1>1. audit[FindingOf[h]] \in Audits
  BY DEF HuntTypeOK
<1>2. [audit[FindingOf[h]] EXCEPT !.pr = url] \in Audits
  BY <1>1 DEF Audits
<1> QED BY <1>2 DEF NotePR, HuntTypeOK

\* Publication of a promoted repair.
LEMMA PublicationTyped ==
    ASSUME IInv, NEW h \in Hunts, Publication(h)
    PROVE  IInv'
<1>0. CheckoutTypeOK /\ HuntTypeOK /\ LocalsTypeOK /\ LocalsInOrder
  BY DEF IInv, TypeOK
<1>1. /\ Len(commits) \in Nat /\ locals[h] \in Locals
      /\ locals[h].sha <= Len(commits) /\ locals[h].sha \in Nat
  BY <1>0 DEF CheckoutTypeOK, LocalsTypeOK, Locals
<1>2. FindingOf[h] \in Branches /\ token[h] \in SUBSET Files /\ index \in Tree
  BY <1>0 DEF HuntTypeOK, CheckoutTypeOK, Findings
<1> DEFINE After == {"branch", "add", "commit", "push", "finish"}
<1>3. After \subseteq Stages \ Preloop /\ After \cap Boxed = {} /\ "reason" \notin After
  BY DEF Stages, Preloop, Boxed
<1>4. PICK stage \in After : Goto(h, stage)
  BY DEF Publication, Defer, Approve, SwitchBranch, StageRepair, CommitRepair,
     PushRepair
<1>5. UNCHANGED <<lock, outcome, token, answered, locals, sandbox, avoid,
                  manifest, restVars, tested>>
  BY DEF Publication, Defer, Approve, SwitchBranch, StageRepair, CommitRepair,
     PushRepair, reportVars, diskVars
<1>6. CheckoutTypeOK' /\ Len(commits) <= Len(commits')
  <2>2. CASE SwitchBranch(h)
    <3>1. CheckoutTypeOK'
      BY <1>0, <1>2, <2>2, GitSteps DEF SwitchBranch
    <3>2. commits' = commits
      BY <2>2 DEF SwitchBranch, CheckoutBranch, SwitchTo, gitVars
    <3> QED BY <1>1, <3>1, <3>2
  <2>3. CASE StageRepair(h)
    <3>1. CheckoutTypeOK'
      BY <1>0, <1>2, <2>3, GitSteps DEF StageRepair
    <3>2. commits' = commits
      BY <2>3 DEF StageRepair, AddFiles
    <3> QED BY <1>1, <3>1, <3>2
  <2>4. CASE CommitRepair(h) /\ CommitTree(index)
    BY <1>0, <1>1, <1>2, <2>4, GitSteps
  <2>5. CASE PushRepair(h) /\ PushBranch(FindingOf[h])
    <3>1. CheckoutTypeOK'
      BY <1>0, <1>2, <2>5, GitSteps
    <3>2. commits' = commits
      BY <2>5 DEF PushBranch
    <3> QED BY <1>1, <3>1, <3>2
  <2>6. CASE UNCHANGED gitVars
    BY <1>0, <1>1, <2>6 DEF CheckoutTypeOK, gitVars
  <2> QED BY <2>2, <2>3, <2>4, <2>5, <2>6 DEF Publication, Defer, Approve,
             CommitRepair, PushRepair
<1>7. HuntTypeOK'
  <2>1. pc' \in [Hunts -> Stages]
    BY <1>0, <1>3, <1>4 DEF HuntTypeOK, Goto
  <2>2. audit' \in [Findings -> Audits]
    <3>1. UNCHANGED audit \/ \E url \in BOOLEAN : NotePR(h, url)
      BY DEF Publication, Defer, Approve, SwitchBranch, StageRepair,
         CommitRepair, PushRepair, diskVars
    <3> QED BY <1>0, <3>1, NotePRType DEF HuntTypeOK
  <2>3. pushed' \in [Hunts -> BOOLEAN]
    <3>1. pushed' = pushed \/ pushed' = [pushed EXCEPT ![h] = TRUE]
      BY DEF Publication, Defer, Approve, SwitchBranch, StageRepair,
         CommitRepair, PushRepair, reportVars
    <3> QED BY <1>0, <3>1 DEF HuntTypeOK
  <2> QED BY <1>0, <1>5, <2>1, <2>2, <2>3 DEF HuntTypeOK, restVars
<1>8. Keep(h, locals[h])
  BY <1>0, <1>5 DEF Keep, LocalsTypeOK
<1>9. locals[h].sha <= Len(commits') /\ sandbox' = sandbox
  <2>1. Len(commits') \in Nat
    BY <1>6 DEF CheckoutTypeOK
  <2> QED BY <1>1, <1>5, <1>6, <2>1
<1> HIDE DEF After
<1>10. stage \in Stages \ Preloop /\ stage \notin Boxed /\ stage # "reason"
  BY <1>3, <1>4
<1> QED BY <1>1, <1>4, <1>6, <1>7, <1>8, <1>9, <1>10, LaterStepTyped

\* The ends of a call: returned, raised, killed; and the user's answer.
LEMMA EndsTyped ==
    ASSUME IInv, NEW h \in Hunts,
           Finish(h) \/ Raise(h) \/ Crash(h) \/ AnswerYes(h)
    PROVE  IInv'
<1>0. CheckoutTypeOK /\ HuntTypeOK /\ LocalsTypeOK /\ LocalsInOrder
  BY DEF IInv, TypeOK
<1>1. UNCHANGED gitVars
  BY DEF Finish, Raise, RaiseEarly, RaiseInLoop, Crash, AnswerYes, Leave
<1>2. /\ CheckoutTypeOK' /\ commits' = commits /\ Len(commits) \in Nat
      /\ Len(commits) <= Len(commits')
  BY <1>0, <1>1 DEF CheckoutTypeOK, gitVars
<1>3. /\ {"finish", "ended"} \subseteq Stages \ Preloop
      /\ "finish" \notin Boxed /\ "ended" \notin Boxed
      /\ {"raised", "crashed"} \subseteq Outcomes
  BY DEF Stages, Preloop, Boxed, Outcomes
<1>4. CASE Finish(h) \/ RaiseEarly(h) \/ Crash(h)
  <2>1. Leave(h)
    BY <1>4 DEF Finish, RaiseEarly, Crash
  <2>2. Keep(h, NoLocals) /\ Goto(h, "ended")
    BY <2>1 DEF Leave
  <2>3. NoLocals \in Locals /\ NoLocals.sha = 0
    BY DEF NoLocals, Locals
  <2>4. HuntTypeOK'
    <3>1. pc' \in [Hunts -> Stages] /\ lock' \in Hunts \cup {NoHunt}
      BY <1>0, <1>3, <2>1, <2>2 DEF HuntTypeOK, Goto, Leave
    <3>2. outcome' \in [Hunts -> Outcomes]
      BY <1>0, <1>3, <1>4 DEF HuntTypeOK, Finish, RaiseEarly, Crash
    <3>3. sandbox' \in [Hunts -> Tree \cup {NoTree}]
      <4>1. ASSUME At(h, "sandbox"), NEW missing \in SUBSET Files
            PROVE  Edited(commits[locals[h].sha],
                          [f \in missing |-> Absent]) \in Tree
        <5>0. locals[h].sha \in 1..Len(commits)
          <6>1. locals[h].sha \in Nat /\ locals[h].sha # 0
            BY <1>0, <4>1 DEF At, LocalsTypeOK, Locals, LocalsInOrder
          <6> QED BY <1>0, <1>2, <6>1 DEF LocalsTypeOK
        <5>1. commits[locals[h].sha] \in Tree
          BY <1>0, <5>0 DEF CheckoutTypeOK
        <5> QED BY <5>1 DEF Edited, Tree
      <4>2. sandbox \in [Hunts -> Tree \cup {NoTree}]
        BY <1>0 DEF HuntTypeOK
      <4>3. \/ UNCHANGED sandbox
            \/ \E t \in Tree \cup {NoTree} :
                 sandbox' = [sandbox EXCEPT ![h] = t]
        <5>1. CASE Finish(h) \/ Crash(h)
          BY <5>1 DEF Finish, Crash
        <5>2. CASE RaiseEarly(h)
          BY <4>1, <5>2 DEF RaiseEarly
        <5> QED BY <1>4, <5>1, <5>2
      <4> QED BY <4>2, <4>3
    <3> QED BY <1>0, <2>1, <3>1, <3>2, <3>3 DEF HuntTypeOK, Leave, restVars,
               diskVars
  <2>5. \A g \in Hunts \ {h} : sandbox'[g] = sandbox[g]
    BY <1>0, <1>4 DEF HuntTypeOK, Finish, RaiseEarly, Crash
  <2> QED BY <1>2, <1>3, <2>2, <2>3, <2>4, <2>5, LaterStepTyped
<1>5. CASE RaiseInLoop(h)
  <2>1. Goto(h, "finish") /\ Keep(h, locals[h]) /\ sandbox' = sandbox
    BY <1>0, <1>5 DEF RaiseInLoop, Keep, LocalsTypeOK
  <2>2. HuntTypeOK'
    <3>1. pc' \in [Hunts -> Stages] /\ outcome' \in [Hunts -> Outcomes]
      BY <1>0, <1>3, <1>5 DEF HuntTypeOK, Goto, RaiseInLoop
    <3> QED BY <1>0, <1>5, <3>1 DEF HuntTypeOK, RaiseInLoop, restVars, diskVars
  <2>3. locals[h] \in Locals /\ locals[h].sha <= Len(commits')
    BY <1>0, <1>2 DEF LocalsTypeOK
  <2> QED BY <1>2, <1>3, <2>1, <2>2, <2>3, LaterStepTyped
<1>6. CASE AnswerYes(h)
  <2>1. HuntTypeOK'
    <3>1. answered' \in [Hunts -> BOOLEAN]
      BY <1>0, <1>6 DEF HuntTypeOK, AnswerYes
    <3> QED BY <1>0, <1>6, <3>1 DEF HuntTypeOK, AnswerYes, restVars, diskVars
  <2>2. LocalsTypeOK' /\ LocalsInOrder'
    BY <1>0, <1>2, <1>6 DEF LocalsTypeOK, LocalsInOrder, AnswerYes
  <2> QED BY <1>2, <2>1, <2>2 DEF IInv, TypeOK
<1> QED BY <1>4, <1>5, <1>6 DEF Raise

\* Whatever the developer does, a hunt's locals stay well-formed.
LEMMA DeveloperTyped == IInv /\ Developer => IInv'
<1> SUFFICES ASSUME IInv, Developer PROVE IInv'
  OBVIOUS
<1>0. CheckoutTypeOK /\ HuntTypeOK /\ LocalsTypeOK /\ LocalsInOrder
  BY DEF IInv, TypeOK
<1>1. Len(commits) \in Nat
  BY <1>0 DEF CheckoutTypeOK
<1>2. CheckoutTypeOK' /\ Len(commits) <= Len(commits')
  <2>1. CASE DevEdit
    <3>1. work' \in Tree
      BY <1>0, <2>1 DEF CheckoutTypeOK, DevEdit, Tree
    <3> QED BY <1>0, <1>1, <2>1, <3>1 DEF CheckoutTypeOK, DevEdit
  <2>2. CASE DevStage
    <3>1. PICK f \in Files : AddFiles({f})
      BY <2>2 DEF DevStage
    <3>2. CheckoutTypeOK' /\ commits' = commits
      <4>1. {f} \in SUBSET Files
        OBVIOUS
      <4> QED BY <1>0, <3>1, <4>1, GitSteps DEF AddFiles
    <3> QED BY <1>1, <3>2
  <2>3. CASE DevCommit
    <3>1. [f \in Files |-> IF index[f] = Absent THEN Absent ELSE work[f]] \in Tree
      BY <1>0 DEF CheckoutTypeOK, Tree
    <3> QED BY <1>0, <1>1, <2>3, <3>1, GitSteps DEF DevCommit
  <2>4. CASE DevSwitchToMain
    <3>1. SwitchTo(Main) /\ commits' = commits
      BY <2>4 DEF DevSwitchToMain, SwitchTo
    <3>2. tip[Main] # 0
      BY <1>0 DEF CheckoutTypeOK
    <3> QED BY <1>0, <1>1, <3>1, <3>2, GitSteps
  <2> QED BY <2>1, <2>2, <2>3, <2>4 DEF Developer
<1>3. /\ UNCHANGED <<lock, pc, reportVars, locals, sandbox, diskVars, entry, tested>>
      /\ devLeft > 0 /\ devLeft' = devLeft - 1
  BY DEF Developer, DevEdit, DevStage, DevCommit, DevSwitchToMain, DevMove
<1>4. HuntTypeOK'
  <2>1. devLeft' \in 0..MaxDevMoves
    BY <1>0, <1>3 DEF HuntTypeOK
  <2> QED BY <1>0, <1>3, <2>1 DEF HuntTypeOK, reportVars, diskVars
<1>5. LocalsTypeOK' /\ LocalsInOrder'
  <2>1. Len(commits') \in Nat
    BY <1>2 DEF CheckoutTypeOK
  <2>2. ASSUME NEW g \in Hunts PROVE locals[g].sha <= Len(commits')
    BY <1>0, <1>1, <1>2, <2>1 DEF LocalsTypeOK, Locals
  <2> QED BY <1>0, <1>3, <2>2 DEF LocalsTypeOK, LocalsInOrder
<1> QED BY <1>2, <1>4, <1>5 DEF IInv, TypeOK

\* A step that changes nothing.
LEMMA StutterTyped == IInv /\ UNCHANGED vars => IInv'
BY DEF IInv, TypeOK, CheckoutTypeOK, HuntTypeOK, LocalsTypeOK, LocalsInOrder,
       vars, gitVars, reportVars, diskVars, restVars

\* The type invariant, strengthened by LocalsInOrder, is inductive.
LEMMA StepTyped == IInv /\ [Next]_vars => IInv'
<1> SUFFICES ASSUME IInv, [Next]_vars PROVE IInv'
  OBVIOUS
<1>1. ASSUME NEW h \in Hunts, RefuseEarly(h) \/ Start(h) \/ Before(h)
      PROVE  IInv'
  BY <1>1, BeforeTyped
<1>2. ASSUME NEW h \in Hunts, Loop(h) PROVE IInv'
  BY <1>2, LoopTyped
<1>3. ASSUME NEW h \in Hunts, Promotion(h) PROVE IInv'
  BY <1>3, PromotionTyped
<1>4. ASSUME NEW h \in Hunts, Publication(h) PROVE IInv'
  BY <1>4, PublicationTyped
<1>5. ASSUME NEW h \in Hunts, Finish(h) \/ Raise(h) \/ Crash(h) \/ AnswerYes(h)
      PROVE  IInv'
  BY <1>5, EndsTyped
<1>6. CASE Developer
  BY <1>6, DeveloperTyped
<1>7. CASE UNCHANGED vars
  BY <1>7, StutterTyped
<1> QED BY <1>1, <1>2, <1>3, <1>4, <1>5, <1>6, <1>7 DEF Next, Step, AllEnded

\* Every variable has its type in every reachable state: no attempt beyond
\* max_iterations, no sandbox commit that does not exist, no pushed branch
\* without a commit, whatever the developer does and whatever fails.
THEOREM TypeCorrect == Spec => []TypeOK
<1>1. Spec => []IInv
  BY InitTyped, StepTyped, PTL DEF Spec
<1>2. IInv => TypeOK
  BY DEF IInv
<1> QED BY <1>1, <1>2, PTL

-----------------------------------------------------------------------------
(* Mutual exclusion.                                                       *)

\* A step of h moves no other hunt, and unless it acquires or leaves it keeps
\* the lock and stays on its side of the lock.
LEMMA SameSide ==
    ASSUME IInv, NEW h \in Hunts,
           \/ RefuseEarly(h) \/ Start(h) \/ LockTimeout(h) \/ GatherContext(h)
           \/ CreateSandbox(h) \/ TakeSnapshot(h) \/ RecordBaseline(h)
           \/ Loop(h) \/ Promotion(h) \/ Publication(h) \/ RaiseInLoop(h)
           \/ AnswerYes(h)
    PROVE  /\ lock' = lock
           /\ pc'[h] \in Inside <=> pc[h] \in Inside
           /\ \A g \in Hunts \ {h} : pc'[g] = pc[g]
<1>0. pc \in [Hunts -> Stages]
  BY DEF IInv, TypeOK, HuntTypeOK
<1>1. CASE \/ RefuseEarly(h) \/ Start(h) \/ LockTimeout(h) \/ GatherContext(h)
           \/ CreateSandbox(h) \/ TakeSnapshot(h) \/ RecordBaseline(h)
  BY <1>0, <1>1 DEF RefuseEarly, Start, LockTimeout, GatherContext,
     CreateSandbox, TakeSnapshot, RecordBaseline, Conclude, Goto, At, Inside,
     Stages
<1>2. CASE Loop(h)
  BY <1>0, <1>2 DEF Loop, Reason, Author, Patch, Verify, Judge, Continue, Goto,
     At, Inside, Stages
<1>3. CASE Promotion(h)
  BY <1>0, <1>3 DEF Promotion, RefuseUnverified, Bind, PromoteFile,
     RefusePromotion, VerifyPromotion, Refuse, Conclude, Goto, At, Inside, Stages
<1>4. CASE Publication(h)
  BY <1>0, <1>4 DEF Publication, Defer, Approve, SwitchBranch, StageRepair,
     CommitRepair, PushRepair, Goto, At, Inside, Stages
<1>5. CASE RaiseInLoop(h) \/ AnswerYes(h)
  BY <1>0, <1>5 DEF RaiseInLoop, AnswerYes, Goto, Inside, Stages
<1> QED BY <1>1, <1>2, <1>3, <1>4, <1>5

\* The holder of the lock is the hunt inside, and every step keeps it so.
LEMMA StepLock == IInv /\ LockMatchesHolder /\ [Next]_vars => LockMatchesHolder'
<1> SUFFICES ASSUME IInv, LockMatchesHolder, [Next]_vars, Flock, NEW g \in Hunts
             PROVE  (lock = g <=> pc[g] \in Inside)'
  BY DEF LockMatchesHolder
<1>0. /\ pc \in [Hunts -> Stages] /\ lock \in Hunts \cup {NoHunt}
      /\ \A i \in Hunts : lock = i <=> pc[i] \in Inside
  BY DEF IInv, TypeOK, HuntTypeOK, LockMatchesHolder
<1>1. ASSUME NEW h \in Hunts, Acquire(h)
      PROVE  (lock = g <=> pc[g] \in Inside)'
  BY <1>0, <1>1 DEF Acquire, Goto, Inside, Stages
<1>2. ASSUME NEW h \in Hunts, Leave(h)
      PROVE  (lock = g <=> pc[g] \in Inside)'
  BY <1>0, <1>2 DEF Leave, Goto, Inside, Stages
<1>3. ASSUME NEW h \in Hunts,
           \/ RefuseEarly(h) \/ Start(h) \/ LockTimeout(h) \/ GatherContext(h)
           \/ CreateSandbox(h) \/ TakeSnapshot(h) \/ RecordBaseline(h)
           \/ Loop(h) \/ Promotion(h) \/ Publication(h) \/ RaiseInLoop(h)
           \/ AnswerYes(h)
      PROVE  (lock = g <=> pc[g] \in Inside)'
  <2>1. /\ lock' = lock
        /\ pc'[h] \in Inside <=> pc[h] \in Inside
        /\ \A i \in Hunts \ {h} : pc'[i] = pc[i]
    BY <1>3, SameSide
  <2> QED BY <1>0, <2>1
<1>4. CASE Developer \/ UNCHANGED vars
  <2>1. UNCHANGED <<lock, pc>>
    BY <1>4 DEF Developer, DevEdit, DevStage, DevCommit, DevSwitchToMain,
       DevMove, vars
  <2> QED BY <1>0, <2>1
<1> QED BY <1>1, <1>2, <1>3, <1>4 DEF Next, Step, Before, Raise, Finish,
           RaiseEarly, Crash, AllEnded

\* With flock, the lock is held by exactly the hunt between acquire and
\* release, through refusals, exceptions and crashes.
THEOREM LockHeldInside == Spec => []LockMatchesHolder
<1>1. Init => LockMatchesHolder
  BY DEF Init, LockMatchesHolder, Inside, Stages
<1>2. Spec => []IInv
  BY InitTyped, StepTyped, PTL DEF Spec
<1> QED BY <1>1, <1>2, StepLock, PTL DEF Spec

\* With flock, no two hunts of any number are ever inside together, so no
\* hunt promotes, restores or publishes while another one does.
THEOREM MutualExclusion == Spec => []OneHuntInside
<1>1. LockMatchesHolder => OneHuntInside
  BY DEF LockMatchesHolder, OneHuntInside
<1> QED BY <1>1, LockHeldInside, PTL

-----------------------------------------------------------------------------
(* The repair gate.                                                        *)

\* The conjunct of SealedRepairIsEarned about one hunt, with the verdict the
\* sealing rests on.
Earned(h) ==
    /\ pc[h] = "judge" => sandbox[h] = tested[h]
    /\ pc[h] \in {"bind", "promote"} =>
         /\ token[h] # {}
         /\ token[h] = locals[h].patched
         /\ locals[h].exit = "green"
         /\ InScope(locals[h].declared, locals[h].forbidden, locals[h].changed)
         /\ sandbox[h] = tested[h]

\* A step of h leaves what is known about every other hunt alone.
LEMMA OthersUntouched ==
    ASSUME IInv, NEW h \in Hunts,
           \/ RefuseEarly(h) \/ Start(h) \/ Step(h) \/ Raise(h) \/ Crash(h)
           \/ AnswerYes(h)
    PROVE  \A g \in Hunts \ {h} :
             /\ pc'[g] = pc[g] /\ locals'[g] = locals[g]
             /\ sandbox'[g] = sandbox[g] /\ tested'[g] = tested[g]
             /\ token'[g] = token[g] /\ entry'[g] = entry[g]
             /\ outcome'[g] = outcome[g]
<1>0. /\ pc \in [Hunts -> Stages] /\ locals \in [Hunts -> Locals]
      /\ sandbox \in [Hunts -> Tree \cup {NoTree}]
      /\ tested \in [Hunts -> Tree \cup {NoTree}]
      /\ entry \in [Hunts -> Tree \cup {NoTree}]
      /\ token \in [Hunts -> SUBSET Files] /\ outcome \in [Hunts -> Outcomes]
  BY DEF IInv, TypeOK, HuntTypeOK, LocalsTypeOK
<1>1. CASE RefuseEarly(h) \/ Start(h) \/ Before(h)
  BY <1>0, <1>1 DEF RefuseEarly, Start, Before, Acquire, LockTimeout,
     GatherContext, CreateSandbox, TakeSnapshot, RecordBaseline, Conclude, Goto,
     Keep, reportVars, restVars
<1>2. CASE Loop(h)
  <2>1. CASE Reason(h)
    BY <1>0, <2>1 DEF Reason, Continue, Goto, Keep, reportVars, restVars
  <2>2. CASE Author(h)
    BY <1>0, <2>2 DEF Author, Patch, Continue, Goto, Keep, reportVars, restVars
  <2>3. CASE Verify(h)
    BY <1>0, <2>3 DEF Verify, Goto, Keep, reportVars, restVars
  <2>4. CASE Judge(h)
    BY <1>0, <2>4 DEF Judge, Continue, Goto, Keep, restVars
  <2> QED BY <1>2, <2>1, <2>2, <2>3, <2>4 DEF Loop
<1>3. CASE Promotion(h)
  BY <1>0, <1>3 DEF Promotion, RefuseUnverified, Bind, PromoteFile,
     RefusePromotion, VerifyPromotion, Refuse, Conclude, Goto, Keep, reportVars,
     restVars
<1>4. CASE Publication(h)
  BY <1>0, <1>4 DEF Publication, Defer, Approve, SwitchBranch, StageRepair,
     CommitRepair, PushRepair, Goto, reportVars, restVars
<1>5. CASE Finish(h) \/ Raise(h) \/ Crash(h) \/ AnswerYes(h)
  BY <1>0, <1>5 DEF Finish, Raise, RaiseEarly, RaiseInLoop, Crash, AnswerYes,
     Leave, Goto, Keep, reportVars, restVars
<1> QED BY <1>1, <1>2, <1>3, <1>4, <1>5 DEF Step

\* What a step of the hunt itself does for its own evidence.
LEMMA StepEarned ==
    ASSUME IInv, NEW h \in Hunts, Earned(h),
           \/ RefuseEarly(h) \/ Start(h) \/ Step(h) \/ Raise(h) \/ Crash(h)
           \/ AnswerYes(h)
    PROVE  Earned(h)'
<1>0. /\ pc \in [Hunts -> Stages] /\ locals \in [Hunts -> Locals]
      /\ sandbox \in [Hunts -> Tree \cup {NoTree}]
      /\ tested \in [Hunts -> Tree \cup {NoTree}]
      /\ token \in [Hunts -> SUBSET Files]
  BY DEF IInv, TypeOK, HuntTypeOK, LocalsTypeOK
<1>1. CASE \/ RefuseEarly(h) \/ Start(h) \/ Before(h) \/ Reason(h) \/ Author(h)
           \/ Publication(h) \/ Finish(h) \/ Raise(h) \/ Crash(h)
           \/ RefuseUnverified(h) \/ RefusePromotion(h) \/ VerifyPromotion(h)
  <2>1. pc'[h] \notin {"judge", "bind", "promote"}
    <3>1. CASE RefuseEarly(h) \/ Start(h) \/ Before(h)
      BY <1>0, <3>1 DEF RefuseEarly, Start, Before, Acquire, LockTimeout,
         GatherContext, CreateSandbox, TakeSnapshot, RecordBaseline, Conclude,
         Goto
    <3>2. CASE Reason(h) \/ Author(h)
      BY <1>0, <3>2 DEF Reason, Author, Patch, Continue, Goto
    <3>3. CASE RefuseUnverified(h) \/ RefusePromotion(h) \/ VerifyPromotion(h)
      BY <1>0, <3>3 DEF RefuseUnverified, RefusePromotion, VerifyPromotion,
         Refuse, Conclude, Goto
    <3>4. CASE Publication(h)
      BY <1>0, <3>4 DEF Publication, Defer, Approve, SwitchBranch, StageRepair,
         CommitRepair, PushRepair, Goto
    <3>5. CASE Finish(h) \/ Raise(h) \/ Crash(h)
      BY <1>0, <3>5 DEF Finish, Raise, RaiseEarly, RaiseInLoop, Crash, Leave, Goto
    <3> QED BY <1>1, <3>1, <3>2, <3>3, <3>4, <3>5
  <2> QED BY <2>1 DEF Earned
<1>2. CASE Verify(h)
  BY <1>0, <1>2 DEF Verify, Goto, Earned
<1>3. CASE Judge(h)
  <2>1. CASE Sealable(locals[h], TRUE) /\ token' = [token EXCEPT ![h] = locals[h].patched]
    <3>1. UNCHANGED <<locals, sandbox, tested>> /\ sandbox[h] = tested[h]
      BY <1>3 DEF Judge, At, Earned
    <3>2. token'[h] = locals[h].patched
      BY <1>0, <2>1
    <3>3. pc'[h] # "judge"
      BY <1>0, <1>3 DEF Judge, Continue, Goto
    <3> QED BY <2>1, <3>1, <3>2, <3>3 DEF Sealable, Earned
  <2>2. CASE Continue(h, locals[h].attempt)
    <3>1. pc'[h] \in {"reason", "settle"}
      BY <1>0, <2>2 DEF Continue, Goto
    <3> QED BY <3>1 DEF Earned
  <2> QED BY <1>3, <2>1, <2>2 DEF Judge, Sealable
<1>4. CASE Bind(h)
  <2>1. CASE Goto(h, "promote")
    <3>1. UNCHANGED <<locals, sandbox, tested, token>> /\ pc'[h] = "promote"
      BY <1>0, <1>4, <2>1 DEF Bind, Goto
    <3> QED BY <1>4, <3>1 DEF Bind, At, Earned
  <2>2. CASE Refuse(h, "refused_binding")
    <3>1. pc'[h] = "finish"
      BY <1>0, <2>2 DEF Refuse, Conclude, Goto
    <3> QED BY <3>1 DEF Earned
  <2> QED BY <1>4, <2>1, <2>2 DEF Bind
<1>5. CASE PromoteFile(h)
  <2>1. PICK f \in token[h] \ locals[h].promoted :
          Keep(h, [locals[h] EXCEPT !.promoted = locals[h].promoted \cup {f}])
    BY <1>5 DEF PromoteFile
  <2>2. /\ locals'[h].patched = locals[h].patched
        /\ locals'[h].exit = locals[h].exit
        /\ locals'[h].declared = locals[h].declared
        /\ locals'[h].forbidden = locals[h].forbidden
        /\ locals'[h].changed = locals[h].changed
    BY <1>0, <2>1 DEF Keep, Locals
  <2>3. UNCHANGED <<pc, sandbox, tested, token>>
    BY <1>5 DEF PromoteFile, reportVars
  <2> QED BY <1>5, <2>2, <2>3 DEF PromoteFile, At, Earned
<1>6. CASE AnswerYes(h)
  BY <1>6 DEF AnswerYes, Earned
<1> QED BY <1>1, <1>2, <1>3, <1>4, <1>5, <1>6 DEF Step, Loop, Promotion, Raise

\* Whatever the model answers and however often it is asked, a repair reaches
\* promotion only on green tests of the very tree in the sandbox, with its
\* measured changes in the declared scope.
THEOREM RepairGate == Spec => []SealedRepairIsEarned
<1> DEFINE AllEarned == \A h \in Hunts : Earned(h)
<1>1. Init => AllEarned
  BY DEF Init, Earned
<1>2. IInv /\ AllEarned /\ [Next]_vars => AllEarned'
  <2> SUFFICES ASSUME IInv, AllEarned, [Next]_vars, NEW g \in Hunts
               PROVE  Earned(g)'
    OBVIOUS
  <2>1. ASSUME NEW h \in Hunts,
               \/ RefuseEarly(h) \/ Start(h) \/ Step(h) \/ Raise(h) \/ Crash(h)
               \/ AnswerYes(h)
        PROVE  Earned(g)'
    <3>1. CASE g = h
      BY <2>1, <3>1, StepEarned
    <3>2. CASE g # h
      BY <2>1, <3>2, OthersUntouched DEF Earned
    <3> QED BY <3>1, <3>2
  <2>2. CASE Developer \/ UNCHANGED vars
    <3>1. UNCHANGED <<pc, locals, sandbox, tested, token>>
      BY <2>2 DEF Developer, DevEdit, DevStage, DevCommit, DevSwitchToMain,
         DevMove, vars, reportVars
    <3> QED BY <3>1 DEF Earned
  <2> QED BY <2>1, <2>2 DEF Next, AllEnded
<1>3. AllEarned => SealedRepairIsEarned
  BY DEF Earned, SealedRepairIsEarned
<1>4. Spec => []IInv
  BY InitTyped, StepTyped, PTL DEF Spec
<1> QED BY <1>1, <1>2, <1>3, <1>4, PTL DEF Spec

-----------------------------------------------------------------------------
(* With the lock: a repair is promoted onto the commit it was made from,   *)
(* and a refusal puts the checkout back.                                   *)

HIDE DEF Verdicts, Interpretations

\* What a hunt may do in one step.
HuntStep(h) ==
    \/ RefuseEarly(h) \/ Start(h) \/ Step(h) \/ Raise(h) \/ Crash(h)
    \/ AnswerYes(h)

\* A hunt that is not inside touches neither the checkout nor a snapshot.
LEMMA OutsideKeepsCheckout ==
    ASSUME NEW h \in Hunts, pc[h] \notin Inside, HuntStep(h)
    PROVE  UNCHANGED <<gitVars, manifest>>
<1>1. \/ RefuseEarly(h) \/ Start(h) \/ Acquire(h) \/ LockTimeout(h)
      \/ Crash(h) \/ AnswerYes(h)
  <2>1. ~(GatherContext(h) \/ CreateSandbox(h) \/ TakeSnapshot(h)
          \/ RecordBaseline(h) \/ Loop(h))
    BY DEF GatherContext, CreateSandbox, TakeSnapshot, RecordBaseline, Loop,
       Reason, Author, Verify, Judge, At, Inside, Stages
  <2>2. ~(Promotion(h) \/ Publication(h))
    BY DEF Promotion, RefuseUnverified, Bind, PromoteFile, RefusePromotion,
       VerifyPromotion, Publication, Defer, Approve, SwitchBranch, StageRepair,
       CommitRepair, PushRepair, At, Inside, Stages
  <2>3. ~(Finish(h) \/ Raise(h))
    BY DEF Finish, Raise, RaiseEarly, RaiseInLoop, At, Inside, Stages
  <2> QED BY <2>1, <2>2, <2>3 DEF HuntStep, Step, Before
<1> QED BY <1>1 DEF RefuseEarly, Start, Acquire, LockTimeout, Crash, Leave,
           AnswerYes, diskVars

\* While one hunt is inside, no other hunt touches the checkout or a snapshot.
LEMMA OneWriter ==
    ASSUME Flock, LockMatchesHolder, NEW g \in Hunts, NEW h \in Hunts, g # h,
           pc[g] \in Inside, HuntStep(h)
    PROVE  UNCHANGED <<gitVars, manifest>>
<1>1. pc[h] \notin Inside
  BY DEF LockMatchesHolder
<1> QED BY <1>1, OutsideKeepsCheckout

\* Authoring replaces the patches and the measured change, nothing else.
LEMMA AuthorKeeps ==
    ASSUME IInv, NEW h \in Hunts, Author(h)
    PROVE  locals'[h].promoted = locals[h].promoted
<1>1. locals \in [Hunts -> Locals]
  BY DEF IInv, TypeOK, LocalsTypeOK
<1>2. UNCHANGED locals \/ \E patched, changed :
        Keep(h, [locals[h] EXCEPT !.patched = patched, !.changed = changed])
  <2>1. PICK written \in SUBSET locals[h].candidates, raised \in BOOLEAN :
          \E draft \in [written -> Drafts] :
            Patch(h, Edited(sandbox[h], draft), IF raised THEN {} ELSE written)
    BY DEF Author
  <2> QED BY <2>1 DEF Patch
<1>3. ASSUME NEW patched, NEW changed,
             Keep(h, [locals[h] EXCEPT !.patched = patched, !.changed = changed])
      PROVE  locals'[h].promoted = locals[h].promoted
  BY <1>1, <1>3 DEF Keep, Locals
<1> QED BY <1>2, <1>3

-----------------------------------------------------------------------------
(* Promotion onto the bound commit.                                        *)

\* From the binding check on, HEAD is the sandbox's commit.
Bound == \A h \in Hunts : pc[h] = "promote" => tip[head] = locals[h].sha

\* A step of h that is at "promote" afterwards has checked the binding.
LEMMA StepBound ==
    ASSUME IInv, NEW h \in Hunts, HuntStep(h), pc'[h] = "promote",
           pc[h] = "promote" => tip[head] = locals[h].sha
    PROVE  tip'[head'] = locals'[h].sha
<1>0. pc \in [Hunts -> Stages] /\ locals \in [Hunts -> Locals]
  BY DEF IInv, TypeOK, HuntTypeOK, LocalsTypeOK
<1>1. Bind(h) \/ PromoteFile(h) \/ AnswerYes(h)
  <2>1. ~(RefuseEarly(h) \/ Start(h) \/ Before(h))
    BY <1>0 DEF RefuseEarly, Start, Before, Acquire, LockTimeout,
       GatherContext, CreateSandbox, TakeSnapshot, RecordBaseline, Conclude, Goto
  <2>2. ~(Loop(h) \/ Publication(h))
    BY <1>0 DEF Loop, Reason, Author, Patch, Verify, Judge, Continue,
       Publication, Defer, Approve, SwitchBranch, StageRepair, CommitRepair,
       PushRepair, Goto
  <2>3. ~(RefuseUnverified(h) \/ RefusePromotion(h) \/ VerifyPromotion(h))
    BY <1>0 DEF RefuseUnverified, RefusePromotion, VerifyPromotion, Refuse,
       Conclude, Goto
  <2>4. ~(Finish(h) \/ Raise(h) \/ Crash(h))
    BY <1>0 DEF Finish, Raise, RaiseEarly, RaiseInLoop, Crash, Leave, Goto
  <2> QED BY <2>1, <2>2, <2>3, <2>4 DEF HuntStep, Step, Promotion
<1>2. CASE Bind(h)
  <2>1. tip[head] = locals[h].sha /\ UNCHANGED gitVars
    BY <1>0, <1>2 DEF Bind, Refuse, Conclude, Goto
  <2> QED BY <1>2, <2>1 DEF Bind, gitVars
<1>3. CASE PromoteFile(h)
  <2>1. PICK f \in token[h] \ locals[h].promoted :
          Keep(h, [locals[h] EXCEPT !.promoted = locals[h].promoted \cup {f}])
    BY <1>3 DEF PromoteFile
  <2>2. locals'[h].sha = locals[h].sha
    BY <1>0, <2>1 DEF Keep, Locals
  <2> QED BY <1>3, <2>2 DEF PromoteFile, At
<1>4. CASE AnswerYes(h)
  BY <1>0, <1>4 DEF AnswerYes, gitVars, At
<1> QED BY <1>1, <1>2, <1>3, <1>4

\* Only PromoteFile copies a file, and only where the binding was checked.
LEMMA OnlyPromotionCopies ==
    ASSUME IInv, NEW h \in Hunts, HuntStep(h), NEW f,
           f \in locals'[h].promoted \ locals[h].promoted
    PROVE  pc[h] = "promote"
<1>0. locals \in [Hunts -> Locals]
  BY DEF IInv, TypeOK, LocalsTypeOK
<1>1. CASE RefuseEarly(h) \/ Start(h) \/ Before(h)
  BY <1>0, <1>1 DEF RefuseEarly, Start, Before, Acquire, LockTimeout,
     GatherContext, CreateSandbox, TakeSnapshot, RecordBaseline, Keep, Locals
<1>2. CASE Loop(h)
  <2>1. CASE Reason(h)
    BY <1>0, <2>1 DEF Reason, Keep, Locals
  <2>2. CASE Author(h)
    BY <2>2, AuthorKeeps
  <2>3. CASE Verify(h) \/ Judge(h)
    BY <1>0, <2>3 DEF Verify, Judge, Keep, Locals
  <2> QED BY <1>2, <2>1, <2>2, <2>3 DEF Loop
<1>3. CASE Promotion(h)
  BY <1>0, <1>3 DEF Promotion, RefuseUnverified, Bind, PromoteFile,
     RefusePromotion, VerifyPromotion, At
<1>4. CASE Publication(h)
  BY <1>4 DEF Publication, Defer, Approve, SwitchBranch, StageRepair,
     CommitRepair, PushRepair
<1>5. CASE Finish(h) \/ Raise(h) \/ Crash(h) \/ AnswerYes(h)
  BY <1>0, <1>5 DEF Finish, Raise, RaiseEarly, RaiseInLoop, Crash, AnswerYes,
     Leave, Keep, NoLocals
<1> QED BY <1>1, <1>2, <1>3, <1>4, <1>5 DEF HuntStep, Step

\* As long as the developer neither commits nor switches branches, the lock
\* keeps HEAD where the binding check saw it until the last file is copied:
\* no number of other hunts can move it in between.
THEOREM BoundPromotion ==
    ASSUME Flock, DevMoves \cap {"commit", "switch"} = {}
    PROVE  Spec => PromotionOntoBoundCommit
<1>1. Init => Bound
  BY DEF Init, Bound
<1>2. ASSUME IInv, LockMatchesHolder, Bound, [Next]_vars PROVE Bound'
  <2> SUFFICES ASSUME NEW g \in Hunts, pc'[g] = "promote"
               PROVE  tip'[head'] = locals'[g].sha
    BY DEF Bound
  <2>1. ASSUME NEW h \in Hunts, HuntStep(h) PROVE tip'[head'] = locals'[g].sha
    <3>1. CASE g = h
      BY <1>2, <2>1, <3>1, StepBound DEF Bound
    <3>2. CASE g # h
      <4>1. pc[g] = "promote" /\ locals'[g] = locals[g]
        BY <1>2, <2>1, <3>2, OthersUntouched DEF HuntStep
      <4>2. pc[g] \in Inside
        BY <4>1 DEF Inside, Stages
      <4>3. UNCHANGED gitVars
        BY <1>2, <2>1, <3>2, <4>2, OneWriter
      <4> QED BY <1>2, <4>1, <4>3 DEF Bound, gitVars
    <3> QED BY <3>1, <3>2
  <2>2. CASE Developer \/ UNCHANGED vars
    <3>1. UNCHANGED <<pc, locals, head, tip>>
      BY <2>2 DEF Developer, DevEdit, DevStage, DevCommit, DevSwitchToMain,
         DevMove, AddFiles, vars, gitVars
    <3> QED BY <1>2, <3>1 DEF Bound
  <2> QED BY <1>2, <2>1, <2>2 DEF Next, HuntStep, AllEnded
<1>3. ASSUME IInv, Bound, [Next]_vars
      PROVE  [\A h \in Hunts : \A f \in locals'[h].promoted \ locals[h].promoted :
                tip[head] = locals[h].sha]_vars
  <2> SUFFICES ASSUME NEW h \in Hunts,
                      NEW f \in locals'[h].promoted \ locals[h].promoted
               PROVE  tip[head] = locals[h].sha
    OBVIOUS
  <2>1. PICK g \in Hunts : HuntStep(g)
    <3>1. CASE Developer \/ UNCHANGED vars
      BY <3>1 DEF Developer, DevEdit, DevStage, DevCommit, DevSwitchToMain,
         DevMove, vars
    <3> QED BY <1>3, <3>1 DEF Next, HuntStep, AllEnded
  <2>2. g = h
    BY <1>3, <2>1, OthersUntouched DEF HuntStep
  <2> QED BY <1>3, <2>1, <2>2, OnlyPromotionCopies DEF Bound
<1>4. Spec => []IInv
  BY InitTyped, StepTyped, PTL DEF Spec
<1> QED BY <1>1, <1>2, <1>3, <1>4, LockHeldInside, PTL
        DEF Spec, PromotionOntoBoundCommit

-----------------------------------------------------------------------------
(* Refusals.                                                               *)

Snapped == {"baseline", "reason", "author", "verify", "judge", "settle",
            "bind", "promote"}
Publishing == {"decide", "branch", "add", "commit", "push"}

\* A hunt can go back to the work tree it found: nothing was written before
\* the snapshot, the snapshot is that tree, and a refusal restored it.
Restorable(h) ==
    /\ pc[h] \in {"gather", "sandbox", "snapshot"} => work = entry[h]
    /\ pc[h] \in Snapped => manifest[FindingOf[h]] = entry[h] /\ entry[h] \in Tree
    /\ pc[h] \in Publishing => outcome[h] \notin Refusals
    /\ pc[h] = "finish" /\ outcome[h] \in Refusals => work = entry[h]

\* With every file in the snapshot, restoring gives back the tree it caught.
LEMMA RestoreGivesBack ==
    ASSUME Excluded = {}, NEW t \in Tree
    PROVE  Restored(t) = t
<1>1. t # NoTree
  OBVIOUS
<1>2. Restored(t) = [f \in Files |-> t[f]]
  BY <1>1 DEF Restored
<1> QED BY <1>2 DEF Tree

\* A step of h keeps h restorable.
LEMMA StepRestorable ==
    ASSUME Excluded = {}, Unreadable = {}, "snapshot" \notin Faults,
           IInv, NEW h \in Hunts, HuntStep(h), Restorable(h)
    PROVE  Restorable(h)'
<1>0. /\ pc \in [Hunts -> Stages] /\ locals \in [Hunts -> Locals]
      /\ entry \in [Hunts -> Tree \cup {NoTree}]
      /\ outcome \in [Hunts -> Outcomes] /\ work \in Tree
      /\ manifest \in [Findings -> Tree \cup {NoTree}] /\ FindingOf[h] \in Findings
  BY DEF IInv, TypeOK, HuntTypeOK, LocalsTypeOK, CheckoutTypeOK
<1>1. CASE RefuseEarly(h) \/ Start(h) \/ LockTimeout(h) \/ AnswerYes(h)
           \/ Finish(h) \/ RaiseEarly(h) \/ Crash(h)
  <2>1. pc'[h] \in {"lock", "ended"}
    BY <1>0, <1>1 DEF RefuseEarly, Start, LockTimeout, AnswerYes, Finish,
       RaiseEarly, Crash, Leave, Conclude, Goto, At
  <2> QED BY <2>1 DEF Restorable, Snapped, Publishing
<1>2. CASE Acquire(h)
  BY <1>0, <1>2 DEF Acquire, Goto, gitVars, Restorable, Snapped, Publishing
<1>3. CASE GatherContext(h) \/ CreateSandbox(h)
  <2>1. /\ pc'[h] \in {"sandbox", "snapshot"} /\ UNCHANGED <<work, entry>>
        /\ pc[h] \in {"gather", "sandbox"}
    BY <1>0, <1>3 DEF GatherContext, CreateSandbox, Goto, At, gitVars, restVars
  <2> QED BY <2>1 DEF Restorable, Snapped, Publishing
<1>4. CASE TakeSnapshot(h)
  <2>1. manifest' = [manifest EXCEPT ![FindingOf[h]] = Captured({})]
    BY <1>4 DEF TakeSnapshot
  <2>2. Captured({}) = work
    BY <1>0 DEF Captured, Tree
  <2>3. manifest'[FindingOf[h]] = work
    BY <1>0, <2>1, <2>2
  <2>4. work = entry[h] /\ entry'[h] = entry[h] /\ pc'[h] = "baseline"
    BY <1>0, <1>4 DEF TakeSnapshot, At, Goto, restVars, Restorable
  <2> QED BY <1>0, <2>3, <2>4 DEF Restorable, Snapped, Publishing
<1>5. CASE RecordBaseline(h) \/ Loop(h)
  <2>1. pc[h] \in Snapped /\ pc'[h] \in Snapped
    <3>1. CASE RecordBaseline(h) \/ Verify(h)
      BY <1>0, <3>1 DEF RecordBaseline, Verify, Goto, At, Snapped
    <3>2. CASE Reason(h)
      BY <1>0, <3>2 DEF Reason, Continue, Goto, At, Snapped
    <3>3. CASE Author(h) \/ Judge(h)
      BY <1>0, <3>3 DEF Author, Patch, Judge, Continue, Goto, At, Snapped
    <3> QED BY <1>5, <3>1, <3>2, <3>3 DEF Loop
  <2>2. manifest' = manifest
    BY <1>5 DEF RecordBaseline, Loop, Reason, Author, Verify, Judge, diskVars
  <2>3. entry' = entry
    BY <1>5 DEF RecordBaseline, Loop, Reason, Author, Verify, Judge, restVars
  <2> QED BY <2>1, <2>2, <2>3 DEF Restorable, Snapped, Publishing
<1>6. ASSUME NEW final \in Refusals, Refuse(h, final), UNCHANGED entry,
             pc[h] \in Snapped
      PROVE  Restorable(h)'
  <2>1. Restored(manifest[FindingOf[h]]) = entry[h]
    BY <1>6, RestoreGivesBack DEF Restorable
  <2>2. pc'[h] = "finish" /\ work' = entry'[h]
    BY <1>0, <1>6, <2>1 DEF Refuse, Conclude, Goto
  <2> QED BY <2>2 DEF Restorable, Snapped, Publishing
<1>7. CASE Promotion(h)
  <2>1. pc[h] \in Snapped /\ UNCHANGED entry
    BY <1>7 DEF Promotion, RefuseUnverified, Bind, PromoteFile,
       RefusePromotion, VerifyPromotion, At, Snapped, restVars
  <2>2. CASE \E final \in Refusals : Refuse(h, final)
    BY <1>6, <2>1, <2>2
  <2>3. CASE Bind(h) /\ Goto(h, "promote")
    <3>1. pc'[h] = "promote" /\ UNCHANGED <<entry, manifest>>
      BY <1>0, <2>3 DEF Bind, Goto, restVars
    <3> QED BY <2>1, <3>1 DEF Restorable, Snapped, Publishing
  <2>4. CASE PromoteFile(h)
    <3>1. manifest' = manifest
      BY <2>4 DEF PromoteFile, diskVars
    <3>2. pc'[h] = "promote" /\ pc[h] = "promote"
      BY <2>4 DEF PromoteFile, At
    <3> QED BY <2>1, <3>1, <3>2 DEF Restorable, Snapped, Publishing
  <2>5. CASE Conclude(h, "verified", "decide")
    <3>1. pc'[h] = "decide" /\ outcome'[h] = "verified"
      BY <1>0, <2>5 DEF Conclude, Goto
    <3> QED BY <3>1 DEF Restorable, Snapped, Publishing, Refusals
  <2> QED BY <1>7, <2>2, <2>3, <2>4, <2>5 DEF Promotion, RefuseUnverified,
             Bind, RefusePromotion, VerifyPromotion, Refusals
<1>8. CASE Publication(h)
  <2>1. /\ pc[h] \in Publishing /\ pc'[h] \in Publishing \cup {"finish"}
        /\ outcome' = outcome
    BY <1>0, <1>8 DEF Publication, Defer, Approve, SwitchBranch, StageRepair,
       CommitRepair, PushRepair, Goto, At, Publishing, reportVars
  <2> QED BY <2>1 DEF Restorable, Snapped, Publishing
<1>9. CASE RaiseInLoop(h)
  <2>1. pc'[h] = "finish" /\ outcome'[h] = "raised"
    BY <1>0, <1>9 DEF RaiseInLoop, Goto
  <2> QED BY <2>1 DEF Restorable, Snapped, Publishing, Refusals
<1> QED BY <1>1, <1>2, <1>3, <1>4, <1>5, <1>7, <1>8, <1>9
        DEF HuntStep, Step, Before, Raise

\* When the snapshot caught every file and the developer does not touch the
\* work tree meanwhile, every refusal leaves all files as the hunt found
\* them, however far promotion had come.
THEOREM RefusalRestores ==
    ASSUME Flock, DevMoves \cap {"edit", "switch"} = {},
           Excluded = {}, Unreadable = {}, "snapshot" \notin Faults
    PROVE  Spec => []RefusalLeavesNoTrace
<1> DEFINE AllRestorable == \A h \in Hunts : Restorable(h)
<1>1. Init => AllRestorable
  BY DEF Init, Restorable, Snapped, Publishing
<1>2. ASSUME IInv, LockMatchesHolder, AllRestorable, [Next]_vars
      PROVE  AllRestorable'
  <2> SUFFICES ASSUME NEW g \in Hunts PROVE Restorable(g)'
    OBVIOUS
  <2>1. ASSUME NEW h \in Hunts, HuntStep(h) PROVE Restorable(g)'
    <3>1. CASE g = h
      BY <1>2, <2>1, <3>1, StepRestorable
    <3>2. CASE g # h
      <4>1. /\ pc'[g] = pc[g] /\ locals'[g] = locals[g]
            /\ entry'[g] = entry[g] /\ outcome'[g] = outcome[g]
        BY <1>2, <2>1, <3>2, OthersUntouched DEF HuntStep
      <4>2. CASE pc[g] \in Inside
        <5>1. work' = work /\ manifest' = manifest
          BY <1>2, <2>1, <3>2, <4>2, OneWriter DEF gitVars
        <5> QED BY <1>2, <4>1, <5>1 DEF Restorable
      <4>3. CASE pc[g] \notin Inside
        BY <4>1, <4>3 DEF Restorable, Inside, Stages, Snapped, Publishing
      <4> QED BY <4>2, <4>3
    <3> QED BY <3>1, <3>2
  <2>2. CASE Developer \/ UNCHANGED vars
    <3>1. UNCHANGED <<work, pc, locals, outcome, entry, manifest>>
      BY <2>2 DEF Developer, DevEdit, DevStage, DevCommit, DevSwitchToMain,
         DevMove, AddFiles, CommitTree, vars, gitVars, reportVars, restVars, diskVars
    <3> QED BY <1>2, <3>1 DEF Restorable
  <2> QED BY <1>2, <2>1, <2>2 DEF Next, HuntStep, AllEnded
<1>3. AllRestorable => RefusalLeavesNoTrace
  BY DEF Restorable, RefusalLeavesNoTrace, At
<1>4. Spec => []IInv
  BY InitTyped, StepTyped, PTL DEF Spec
<1> QED BY <1>1, <1>2, <1>3, <1>4, LockHeldInside, PTL DEF Spec

-----------------------------------------------------------------------------
(* What is left behind and published: no sandbox and no lock afterwards,   *)
(* an audit record that backs every push, a pushed branch that holds the   *)
(* files the tests ran on, and a commit that holds nothing but the repair. *)

\* No two hunts repair the same finding.
OwnFindings == \A g, h \in Hunts : FindingOf[g] = FindingOf[h] => g = h

-----------------------------------------------------------------------------
(* After the end.                                                          *)

\* The sandbox directory exists between create_sandbox and destroy, and the
\* lock file is never held by a platform that has no flock.
Tidy(h) ==
    /\ pc[h] \in {"idle", "lock", "gather", "sandbox"} => sandbox[h] = NoTree
    /\ pc[h] = "ended" /\ outcome[h] # "crashed" => sandbox[h] = NoTree

LEMMA StepTidy ==
    ASSUME "git" \notin Faults, IInv, NEW h \in Hunts, HuntStep(h), Tidy(h)
    PROVE  Tidy(h)'
<1>0. /\ pc \in [Hunts -> Stages] /\ outcome \in [Hunts -> Outcomes]
      /\ sandbox \in [Hunts -> Tree \cup {NoTree}]
  BY DEF IInv, TypeOK, HuntTypeOK
<1>1. CASE \/ RefuseEarly(h) \/ Start(h) \/ Acquire(h) \/ LockTimeout(h)
           \/ GatherContext(h) \/ AnswerYes(h)
  <2>1. sandbox' = sandbox
    BY <1>1 DEF RefuseEarly, Start, Acquire, LockTimeout, GatherContext,
       AnswerYes
  <2>2. \/ pc[h] \in {"idle", "lock", "gather", "sandbox"}
        \/ pc'[h] = pc[h] /\ outcome' = outcome
    BY <1>1 DEF RefuseEarly, Start, Acquire, LockTimeout, GatherContext,
       AnswerYes, At
  <2> QED BY <2>1, <2>2 DEF Tidy
<1>2. CASE \/ CreateSandbox(h) \/ TakeSnapshot(h) \/ RecordBaseline(h)
           \/ Loop(h) \/ Promotion(h) \/ Publication(h) \/ RaiseInLoop(h)
  <2>1. pc'[h] \notin {"idle", "lock", "gather", "sandbox", "ended"}
    <3>1. CASE \/ CreateSandbox(h) \/ TakeSnapshot(h) \/ RecordBaseline(h)
               \/ RaiseInLoop(h)
      BY <1>0, <3>1 DEF CreateSandbox, TakeSnapshot, RecordBaseline,
         RaiseInLoop, Goto
    <3>2. CASE Loop(h)
      BY <1>0, <3>2 DEF Loop, Reason, Author, Patch, Verify, Judge, Continue,
         Goto
    <3>3. CASE Promotion(h)
      BY <1>0, <3>3 DEF Promotion, RefuseUnverified, Bind, PromoteFile,
         RefusePromotion, VerifyPromotion, Refuse, Conclude, Goto, At
    <3>4. CASE Publication(h)
      BY <1>0, <3>4 DEF Publication, Defer, Approve, SwitchBranch,
         StageRepair, CommitRepair, PushRepair, Goto
    <3> QED BY <1>2, <3>1, <3>2, <3>3, <3>4
  <2> QED BY <2>1 DEF Tidy
<1>3. CASE Finish(h)
  <2>1. pc'[h] = "ended" /\ sandbox'[h] = NoTree
    BY <1>0, <1>3 DEF Finish, Leave, Goto
  <2> QED BY <2>1 DEF Tidy
<1>4. CASE RaiseEarly(h)
  <2>1. pc'[h] = "ended" /\ sandbox' = sandbox
    BY <1>0, <1>4 DEF RaiseEarly, Leave, Goto
  <2> QED BY <1>4, <2>1 DEF RaiseEarly, Tidy
<1>5. CASE Crash(h)
  <2>1. pc'[h] = "ended" /\ outcome'[h] = "crashed"
    BY <1>0, <1>5 DEF Crash, Leave, Goto
  <2> QED BY <2>1 DEF Tidy
<1> QED BY <1>1, <1>2, <1>3, <1>4, <1>5 DEF HuntStep, Step, Before, Raise

\* Without flock, nobody ever holds the lock.
LEMMA StepUnheld ==
    IInv /\ (~Flock => lock = NoHunt) /\ [Next]_vars => (~Flock => lock' = NoHunt)
<1> SUFFICES ASSUME IInv, ~Flock, lock = NoHunt, [Next]_vars
             PROVE  lock' = NoHunt
  OBVIOUS
<1>1. ASSUME NEW h \in Hunts, HuntStep(h) PROVE lock' = NoHunt
  <2>1. CASE Acquire(h)
    BY <2>1 DEF Acquire
  <2>2. CASE Finish(h) \/ RaiseEarly(h) \/ Crash(h)
    BY <2>2 DEF Finish, RaiseEarly, Crash, Leave
  <2> QED BY <1>1, <2>1, <2>2, SameSide DEF HuntStep, Step, Before, Raise
<1>2. CASE Developer \/ UNCHANGED vars
  BY <1>2 DEF Developer, DevEdit, DevStage, DevCommit, DevSwitchToMain,
     DevMove, vars
<1> QED BY <1>1, <1>2 DEF Next, HuntStep, AllEnded

\* Unless git hangs while it removes or makes a worktree, a hunt that ended in
\* any way but being killed has no sandbox and no lock, with and without
\* flock.
THEOREM NothingHeld ==
    ASSUME "git" \notin Faults
    PROVE  Spec => []NothingHeldAfterwards
<1> DEFINE AllTidy == \A h \in Hunts : Tidy(h)
           Unheld  == ~Flock => lock = NoHunt
<1>1. Init => AllTidy /\ Unheld
  BY DEF Init, Tidy
<1>2. ASSUME IInv, AllTidy, [Next]_vars PROVE AllTidy'
  <2> SUFFICES ASSUME NEW g \in Hunts PROVE Tidy(g)'
    OBVIOUS
  <2>1. ASSUME NEW h \in Hunts, HuntStep(h) PROVE Tidy(g)'
    <3>1. CASE g = h
      BY <1>2, <2>1, <3>1, StepTidy
    <3>2. CASE g # h
      BY <1>2, <2>1, <3>2, OthersUntouched DEF HuntStep, Tidy
    <3> QED BY <3>1, <3>2
  <2>2. CASE Developer \/ UNCHANGED vars
    <3>1. UNCHANGED <<pc, outcome, sandbox>>
      BY <2>2 DEF Developer, DevEdit, DevStage, DevCommit, DevSwitchToMain,
         DevMove, vars, reportVars
    <3> QED BY <1>2, <3>1 DEF Tidy
  <2> QED BY <1>2, <2>1, <2>2 DEF Next, HuntStep, AllEnded
<1>3. IInv /\ Unheld /\ [Next]_vars => Unheld'
  BY StepUnheld
<1>4. LockMatchesHolder /\ Unheld /\ AllTidy => NothingHeldAfterwards
  <2> SUFFICES ASSUME LockMatchesHolder, Unheld, AllTidy, NEW h \in Hunts,
                      At(h, "ended")
               PROVE  lock # h /\ (outcome[h] # "crashed" => sandbox[h] = NoTree)
    BY DEF NothingHeldAfterwards
  <2>1. lock # h
    BY DEF LockMatchesHolder, At, Inside
  <2> QED BY <2>1 DEF Tidy, At
<1>5. Spec => []IInv
  BY InitTyped, StepTyped, PTL DEF Spec
<1> QED BY <1>1, <1>2, <1>3, <1>4, <1>5, LockHeldInside, PTL DEF Spec

-----------------------------------------------------------------------------
(* The audit record.                                                       *)

\* From the verdict on, the record of the hunt's finding says "verified".
Audited(h) == pc[h] \in Publishing => audit[FindingOf[h]].final = "verified"

\* A hunt writes the record of its own finding only.
LEMMA OneRecord ==
    ASSUME IInv, NEW h \in Hunts, HuntStep(h),
           NEW b \in Findings, b # FindingOf[h]
    PROVE  audit'[b] = audit[b]
<1>0. audit \in [Findings -> Audits]
  BY DEF IInv, TypeOK, HuntTypeOK
<1>1. CASE RefuseEarly(h) \/ Start(h) \/ Before(h) \/ Promotion(h)
  BY <1>0, <1>1 DEF RefuseEarly, Start, Before, Acquire, LockTimeout,
     GatherContext, CreateSandbox, TakeSnapshot, RecordBaseline, Promotion,
     RefuseUnverified, Bind, PromoteFile, RefusePromotion, VerifyPromotion,
     Refuse, Conclude, diskVars
<1>2. CASE Loop(h)
  BY <1>2 DEF Loop, Reason, Author, Verify, Judge, diskVars
<1>3. CASE Publication(h)
  BY <1>0, <1>3 DEF Publication, Defer, Approve, SwitchBranch, StageRepair,
     CommitRepair, PushRepair, NotePR, diskVars
<1>4. CASE Finish(h) \/ Raise(h) \/ Crash(h) \/ AnswerYes(h)
  BY <1>4 DEF Finish, Raise, RaiseEarly, RaiseInLoop, Crash, AnswerYes, Leave,
     diskVars
<1> QED BY <1>1, <1>2, <1>3, <1>4 DEF HuntStep, Step

\* update_audit leaves the verdict as it finds it.
LEMMA NoteKeepsVerdict ==
    ASSUME IInv, NEW h \in Hunts, NEW url \in BOOLEAN, NotePR(h, url)
    PROVE  audit'[FindingOf[h]].final = audit[FindingOf[h]].final
<1>1. audit \in [Findings -> Audits] /\ FindingOf[h] \in Findings
  BY DEF IInv, TypeOK, HuntTypeOK
<1>2. audit'[FindingOf[h]] = [audit[FindingOf[h]] EXCEPT !.pr = url]
  BY <1>1 DEF NotePR
<1>3. audit[FindingOf[h]] \in Audits
  BY <1>1
<1> QED BY <1>2, <1>3 DEF Audits

\* The stages a hunt publishes from are reached by the verdict and by
\* publication alone.
LEMMA IntoPublishing ==
    ASSUME IInv, NEW h \in Hunts, HuntStep(h), pc'[h] \in Publishing
    PROVE  \/ VerifyPromotion(h) /\ Intact(h)
           \/ Publication(h) /\ pc[h] \in Publishing
<1>0. pc \in [Hunts -> Stages]
  BY DEF IInv, TypeOK, HuntTypeOK
<1>1. ~(RefuseEarly(h) \/ Start(h) \/ Before(h))
  BY <1>0 DEF RefuseEarly, Start, Before, Acquire, LockTimeout, GatherContext,
     CreateSandbox, TakeSnapshot, RecordBaseline, Conclude, Goto, Publishing
<1>2. ~Loop(h)
  BY <1>0 DEF Loop, Reason, Author, Patch, Verify, Judge, Continue, Goto,
     Publishing
<1>3. ~(RefuseUnverified(h) \/ Bind(h) \/ PromoteFile(h) \/ RefusePromotion(h))
  BY <1>0 DEF RefuseUnverified, Bind, PromoteFile, RefusePromotion, Refuse,
     Conclude, Goto, At, Publishing
<1>4. VerifyPromotion(h) => Intact(h)
  BY <1>0 DEF VerifyPromotion, Refuse, Conclude, Goto, Publishing
<1>5. ~(Finish(h) \/ Raise(h) \/ Crash(h) \/ AnswerYes(h))
  BY <1>0 DEF Finish, Raise, RaiseEarly, RaiseInLoop, Crash, AnswerYes, Leave,
     Goto, At, Publishing
<1>6. Publication(h) => pc[h] \in Publishing
  BY DEF Publication, Defer, Approve, SwitchBranch, StageRepair, CommitRepair,
     PushRepair, At, Publishing
<1> QED BY <1>1, <1>2, <1>3, <1>4, <1>5, <1>6 DEF HuntStep, Step, Promotion

LEMMA StepAudited ==
    ASSUME IInv, NEW h \in Hunts, HuntStep(h), Audited(h)
    PROVE  Audited(h)'
<1> SUFFICES ASSUME pc'[h] \in Publishing
             PROVE  audit'[FindingOf[h]].final = "verified"
  BY DEF Audited
<1>0. audit \in [Findings -> Audits] /\ FindingOf[h] \in Findings
  BY DEF IInv, TypeOK, HuntTypeOK
<1>1. CASE VerifyPromotion(h) /\ Intact(h)
  BY <1>0, <1>1 DEF VerifyPromotion, Conclude
<1>2. CASE Publication(h) /\ pc[h] \in Publishing
  <2>1. UNCHANGED audit \/ \E url \in BOOLEAN : NotePR(h, url)
    BY <1>2 DEF Publication, Defer, Approve, SwitchBranch, StageRepair,
       CommitRepair, PushRepair, diskVars
  <2> QED BY <1>2, <2>1, NoteKeepsVerdict DEF Audited
<1> QED BY <1>1, <1>2, IntoPublishing

\* What a hunt pushes, it pushes by PushRepair.
LEMMA OnlyPushPushes ==
    ASSUME IInv, [Next]_vars, NEW h \in Hunts, pushed'[h] # pushed[h]
    PROVE  /\ At(h, "push") /\ PushBranch(FindingOf[h]) /\ NotePR(h, TRUE)
           /\ UNCHANGED <<token, tested>>
<1>0. pushed \in [Hunts -> BOOLEAN]
  BY DEF IInv, TypeOK, HuntTypeOK
<1>1. ASSUME NEW g \in Hunts, HuntStep(g)
      PROVE  UNCHANGED pushed \/ (g = h /\ PushRepair(h))
  <2>1. CASE RefuseEarly(g) \/ Start(g) \/ Before(g) \/ Promotion(g)
    BY <2>1 DEF RefuseEarly, Start, Before, Acquire, LockTimeout,
       GatherContext, CreateSandbox, TakeSnapshot, RecordBaseline, Promotion,
       RefuseUnverified, Bind, PromoteFile, RefusePromotion, VerifyPromotion,
       reportVars
  <2>2. CASE Loop(g)
    BY <2>2 DEF Loop, Reason, Author, Verify, Judge, reportVars
  <2>3. CASE Publication(g)
    <3>1. CASE PushRepair(g)
      BY <1>0, <3>1 DEF PushRepair
    <3> QED BY <2>3, <3>1 DEF Publication, Defer, Approve, SwitchBranch,
               StageRepair, CommitRepair, reportVars
  <2>4. CASE Finish(g) \/ Raise(g) \/ Crash(g) \/ AnswerYes(g)
    BY <2>4 DEF Finish, Raise, RaiseEarly, RaiseInLoop, Crash, AnswerYes, Leave
  <2> QED BY <1>1, <2>1, <2>2, <2>3, <2>4 DEF HuntStep, Step
<1>2. Developer \/ UNCHANGED vars => UNCHANGED pushed
  BY DEF Developer, DevEdit, DevStage, DevCommit, DevSwitchToMain, DevMove,
     vars, reportVars
<1>3. PushRepair(h)
  <2>1. pushed' # pushed
    OBVIOUS
  <2>2. PICK g \in Hunts : HuntStep(g)
    BY <1>2, <2>1 DEF Next, HuntStep, AllEnded
  <2> QED BY <1>1, <2>1, <2>2
<1> QED BY <1>3 DEF PushRepair

\* When no two hunts repair the same finding, the audit record a pushed commit
\* points to calls the repair verified, with or without the lock: a second
\* hunt for the finding would overwrite the record when it is refused.
THEOREM AuditsBackPushes ==
    ASSUME OwnFindings
    PROVE  Spec => AuditBacksThePush
<1> DEFINE AllAudited == \A h \in Hunts : Audited(h)
<1>1. Init => AllAudited
  BY DEF Init, Audited, Publishing
<1>2. ASSUME IInv, AllAudited, [Next]_vars PROVE AllAudited'
  <2> SUFFICES ASSUME NEW g \in Hunts PROVE Audited(g)'
    OBVIOUS
  <2>1. ASSUME NEW h \in Hunts, HuntStep(h) PROVE Audited(g)'
    <3>1. CASE g = h
      BY <1>2, <2>1, <3>1, StepAudited
    <3>2. CASE g # h
      <4>1. pc'[g] = pc[g]
        BY <1>2, <2>1, <3>2, OthersUntouched DEF HuntStep
      <4>2. FindingOf[g] \in Findings /\ FindingOf[g] # FindingOf[h]
        BY <3>2 DEF OwnFindings
      <4>3. audit'[FindingOf[g]] = audit[FindingOf[g]]
        BY <1>2, <2>1, <4>2, OneRecord
      <4> QED BY <1>2, <4>1, <4>3 DEF Audited
    <3> QED BY <3>1, <3>2
  <2>2. CASE Developer \/ UNCHANGED vars
    <3>1. UNCHANGED <<pc, audit>>
      BY <2>2 DEF Developer, DevEdit, DevStage, DevCommit, DevSwitchToMain,
         DevMove, vars, diskVars
    <3> QED BY <1>2, <3>1 DEF Audited
  <2> QED BY <1>2, <2>1, <2>2 DEF Next, HuntStep, AllEnded
<1>3. ASSUME IInv, AllAudited, [Next]_vars
      PROVE  [\A h \in Hunts : pushed'[h] # pushed[h] =>
                audit'[FindingOf[h]].final = "verified"]_vars
  <2> SUFFICES ASSUME NEW h \in Hunts, pushed'[h] # pushed[h]
               PROVE  audit'[FindingOf[h]].final = "verified"
    OBVIOUS
  <2>1. At(h, "push") /\ NotePR(h, TRUE)
    BY <1>3, OnlyPushPushes
  <2> QED BY <1>3, <2>1, NoteKeepsVerdict DEF Audited, At, Publishing
<1>4. Spec => []IInv
  BY InitTyped, StepTyped, PTL DEF Spec
<1> QED BY <1>1, <1>2, <1>3, <1>4, PTL DEF Spec, AuditBacksThePush
-----------------------------------------------------------------------------
(* The pushed branch.                                                      *)

\* Whether a hunt will get onto its branch: it does not exist yet, or no hunt ever
\* leaves it.
OneFinding == \A g, h \in Hunts : FindingOf[g] = FindingOf[h]
Reachable(h) == tip[FindingOf[h]] = 0 \/ (OneFinding /\ head = FindingOf[h])

\* The tested contents on their way to the remote: the hunt will get onto its
\* branch, and from the verdict on the work tree, then the index, then the branch's
\* commit hold the repaired files as they were tested.
Carried(h) ==
    /\ pc[h] \notin {"add", "commit", "push", "finish", "ended"} => Reachable(h)
    /\ pc[h] \in Publishing =>
         /\ sandbox[h] = tested[h]
         /\ \A f \in token[h] : work[f] = tested[h][f]
    /\ pc[h] \in {"add", "commit", "push"} => head = FindingOf[h]
    /\ pc[h] \in {"commit", "push"} =>
         \A f \in token[h] : index[f] = tested[h][f]
    /\ pc[h] = "push" => \A f \in token[h] : HeadTree[f] = tested[h][f]

\* What a hunt publishes with is settled before it begins to publish.
LEMMA PublicationKeeps ==
    ASSUME IInv, NEW h \in Hunts, Publication(h)
    PROVE  UNCHANGED <<token, sandbox, tested, work>> \/ SwitchBranch(h)
BY DEF Publication, Defer, Approve, SwitchBranch, StageRepair, CommitRepair,
   PushRepair, CommitTree, AddFiles, PushBranch, reportVars, gitVars

\* A commit of the tree t is the tree that is checked out afterwards.
LEMMA CommittedTree ==
    ASSUME CheckoutTypeOK, NEW t \in Tree, CommitTree(t)
    PROVE  HeadTree' = t
<1>1. Len(commits) \in Nat /\ head' = head /\ head \in AllBranches
  BY DEF CheckoutTypeOK, CommitTree
<1>2. tip'[head] = Len(commits) + 1
  BY DEF CheckoutTypeOK, CommitTree
<1>3. commits'[Len(commits) + 1] = t
  BY DEF CheckoutTypeOK, CommitTree
<1> QED BY <1>1, <1>2, <1>3 DEF HeadTree

\* Before its repair is verified a hunt creates no branch and commits nothing.
LEMMA NoBranchBefore ==
    ASSUME IInv, NEW h \in Hunts, HuntStep(h), ~Publication(h)
    PROVE  UNCHANGED <<index, head, tip, commits>>
<1>1. CASE RefuseEarly(h) \/ Start(h) \/ Before(h) \/ Promotion(h)
  BY <1>1 DEF RefuseEarly, Start, Before, Acquire, LockTimeout, GatherContext,
     CreateSandbox, TakeSnapshot, RecordBaseline, Promotion, RefuseUnverified,
     Bind, PromoteFile, RefusePromotion, VerifyPromotion, Refuse, gitVars
<1>2. CASE Loop(h)
  BY <1>2 DEF Loop, Reason, Author, Verify, Judge, gitVars
<1>3. CASE Finish(h) \/ Raise(h) \/ Crash(h) \/ AnswerYes(h)
  BY <1>3 DEF Finish, Raise, RaiseEarly, RaiseInLoop, Crash, AnswerYes, Leave,
     gitVars
<1> QED BY <1>1, <1>2, <1>3 DEF HuntStep, Step

\* A commit moves the branch that is checked out, and that one exists.
LEMMA CommitKeepsAbsent ==
    ASSUME CheckoutTypeOK, NEW b \in AllBranches, tip[b] = 0,
           NEW t, CommitTree(t)
    PROVE  tip'[b] = 0
BY DEF CheckoutTypeOK, CommitTree

\* No other hunt creates the branch of a hunt's finding, or none leaves it.
LEMMA ReachableToOthers ==
    ASSUME OwnFindings \/ OneFinding, IInv, NEW g \in Hunts, NEW h \in Hunts, g # h,
           HuntStep(g), Reachable(h)
    PROVE  Reachable(h)'
<1>0. CheckoutTypeOK /\ FindingOf[h] \in AllBranches
  BY DEF IInv, TypeOK, AllBranches, Findings
<1>1. CASE SwitchBranch(g)
  <2>1. CheckoutBranch(FindingOf[g])
    BY <1>1 DEF SwitchBranch
  <2>2. CASE FindingOf[g] = FindingOf[h]
    <3>1. OneFinding
      BY <2>2 DEF OwnFindings
    <3>2. head' = FindingOf[h] \/ UNCHANGED <<tip, head>>
      BY <2>1, <2>2 DEF CheckoutBranch, SwitchTo, gitVars
    <3> QED BY <3>1, <3>2 DEF Reachable
  <2>3. CASE FindingOf[g] # FindingOf[h]
    <3>1. tip[FindingOf[h]] = 0
      BY <2>3 DEF Reachable, OneFinding
    <3>2. tip'[FindingOf[h]] = 0
      BY <1>0, <2>1, <2>3, <3>1 DEF CheckoutTypeOK, CheckoutBranch, SwitchTo, gitVars
    <3> QED BY <3>2 DEF Reachable
  <2> QED BY <2>2, <2>3
<1>2. CASE CommitRepair(g) /\ CommitTree(index)
  BY <1>0, <1>2, CommitKeepsAbsent DEF Reachable, CommitTree
<1>3. CASE Publication(g) /\ ~SwitchBranch(g) /\ UNCHANGED <<tip, head>>
  BY <1>3 DEF Reachable
<1>4. CASE ~Publication(g)
  BY <1>4, NoBranchBefore DEF Reachable
<1> QED BY <1>1, <1>2, <1>3, <1>4 DEF Publication, Defer, Approve,
           StageRepair, CommitRepair, PushRepair, AddFiles, PushBranch, gitVars

\* To switch to the branch one is on does nothing.
LEMMA OntoItsBranch ==
    ASSUME CheckoutTypeOK, NEW h \in Hunts, Reachable(h), CheckoutBranch(FindingOf[h])
    PROVE  head' = FindingOf[h] /\ work' = work
<1>1. CASE tip[FindingOf[h]] = 0
  BY <1>1 DEF CheckoutBranch
<1>2. CASE head = FindingOf[h] /\ SwitchTo(FindingOf[h])
  <2>1. Differing(HeadTree, commits[tip[FindingOf[h]]]) = {}
    BY <1>2 DEF Differing, HeadTree
  <2>2. work' = [f \in Files |-> work[f]] /\ head' = FindingOf[h]
    BY <1>2, <2>1 DEF SwitchTo
  <2>3. work \in Tree
    BY DEF CheckoutTypeOK
  <2> QED BY <2>2, <2>3 DEF Tree
<1>3. CASE head = FindingOf[h] /\ UNCHANGED gitVars
  BY <1>3 DEF gitVars
<1> QED BY <1>1, <1>2, <1>3 DEF Reachable, CheckoutBranch

LEMMA StepCarried ==
    ASSUME IInv, SealedRepairIsEarned, NEW h \in Hunts, HuntStep(h), Carried(h)
    PROVE  Carried(h)'
<1>0. /\ pc \in [Hunts -> Stages] /\ CheckoutTypeOK
      /\ FindingOf[h] \in AllBranches /\ token \in [Hunts -> SUBSET Files]
  BY DEF IInv, TypeOK, HuntTypeOK, AllBranches, Findings
<1>1. CASE pc'[h] \in {"finish", "ended"}
  BY <1>1 DEF Carried, Publishing
<1>2. CASE pc'[h] \notin Publishing \cup {"finish", "ended"}
  <2>1. pc[h] \notin {"add", "commit", "push", "finish", "ended"}
    <3>1. CASE Publication(h)
      BY <1>0, <1>2, <3>1 DEF Publication, Defer, Approve, SwitchBranch,
         StageRepair, CommitRepair, PushRepair, Goto, Publishing
    <3>2. CASE Finish(h) \/ Raise(h) \/ Crash(h) \/ AnswerYes(h)
      BY <1>0, <1>2, <3>2 DEF Finish, Raise, RaiseEarly, RaiseInLoop, Crash,
         AnswerYes, Leave, Goto, At
    <3>3. CASE RefuseEarly(h) \/ Start(h) \/ Before(h) \/ Promotion(h)
      BY <3>3 DEF RefuseEarly, Start, Before, Acquire, LockTimeout,
         GatherContext, CreateSandbox, TakeSnapshot, RecordBaseline, Promotion,
         RefuseUnverified, Bind, PromoteFile, RefusePromotion, VerifyPromotion,
         At
    <3>4. CASE Loop(h)
      BY <3>4 DEF Loop, Reason, Author, Verify, Judge, At
    <3> QED BY <3>1, <3>2, <3>3, <3>4 DEF HuntStep, Step
  <2>2. ~Publication(h)
    BY <1>0, <1>2 DEF Publication, Defer, Approve, SwitchBranch, StageRepair,
       CommitRepair, PushRepair, Goto, Publishing
  <2>3. Reachable(h)'
    BY <2>1, <2>2, NoBranchBefore DEF Carried, Reachable
  <2> QED BY <1>2, <2>3 DEF Carried, Publishing
<1>3. CASE VerifyPromotion(h) /\ Intact(h)
  <2>1. pc[h] = "promote" /\ pc'[h] = "decide" /\ UNCHANGED gitVars
        /\ UNCHANGED <<token, sandbox, tested>> /\ token[h] \subseteq locals[h].promoted
    BY <1>0, <1>3 DEF VerifyPromotion, Conclude, Goto, At
  <2>2. sandbox[h] = tested[h]
    BY <2>1 DEF SealedRepairIsEarned
  <2>3. \A f \in token[h] : work[f] = tested[h][f]
    BY <1>3, <2>1, <2>2 DEF Intact
  <2> QED BY <2>1, <2>2, <2>3 DEF Carried, Reachable, Publishing, gitVars
<1>4. CASE Approve(h)
  <2>1. /\ pc[h] = "decide" /\ pc'[h] = "branch" /\ UNCHANGED gitVars
        /\ UNCHANGED <<token, sandbox, tested>>
    BY <1>0, <1>4 DEF Approve, At, Goto, reportVars
  <2> QED BY <2>1 DEF Carried, Reachable, Publishing, gitVars
<1>5. CASE SwitchBranch(h)
  <2>1. /\ pc[h] = "branch" /\ pc'[h] = "add"
        /\ UNCHANGED <<token, sandbox, tested>>
    BY <1>0, <1>5 DEF SwitchBranch, At, Goto, reportVars
  <2>2. Reachable(h)
    BY <2>1 DEF Carried
  <2>3. head' = FindingOf[h] /\ work' = work
    BY <1>0, <1>5, <2>2, OntoItsBranch DEF SwitchBranch
  <2> QED BY <2>1, <2>3 DEF Carried, Publishing
<1>6. CASE StageRepair(h)
  <2>1. /\ pc[h] = "add" /\ pc'[h] = "commit"
        /\ UNCHANGED <<token, sandbox, tested, work, head>>
    BY <1>0, <1>6 DEF StageRepair, At, Goto, reportVars, AddFiles
  <2>2. \A f \in token[h] : index'[f] = work[f]
    BY <1>0, <1>6 DEF StageRepair, AddFiles
  <2> QED BY <2>1, <2>2 DEF Carried, Publishing
<1>7. CASE CommitRepair(h) /\ pc'[h] = "push"
  <2>1. /\ pc[h] = "commit" /\ CommitTree(index)
        /\ UNCHANGED <<token, sandbox, tested>>
    BY <1>0, <1>7 DEF CommitRepair, At, Goto, reportVars
  <2>2. /\ index \in Tree /\ UNCHANGED <<work, head>> /\ index' = index
    BY <1>0, <2>1 DEF CommitTree, CheckoutTypeOK
  <2>3. HeadTree' = index
    BY <1>0, <2>1, <2>2, CommittedTree
  <2> QED BY <1>7, <2>1, <2>2, <2>3 DEF Carried, Publishing
<1>8. CASE Publication(h) /\ pc'[h] \in Publishing
  <2>1. ~Defer(h) /\ ~PushRepair(h)
    BY <1>0, <1>8 DEF Defer, PushRepair, Goto, Publishing
  <2>2. CommitRepair(h) => pc'[h] = "push"
    BY <1>0, <1>8 DEF CommitRepair, Goto, Publishing
  <2> QED BY <1>4, <1>5, <1>6, <1>7, <1>8, <2>1, <2>2 DEF Publication
<1> QED BY <1>1, <1>2, <1>3, <1>8, IntoPublishing DEF Publishing

\* A developer who neither edits nor switches branches may stage and commit
\* the repair as it lies in the work tree.
LEMMA DeveloperCarries ==
    ASSUME DevMoves \cap {"edit", "switch"} = {}, IInv, Developer,
           NEW h \in Hunts, Carried(h)
    PROVE  Carried(h)'
<1>0. /\ CheckoutTypeOK /\ FindingOf[h] \in AllBranches
      /\ token \in [Hunts -> SUBSET Files]
  BY DEF IInv, TypeOK, HuntTypeOK, AllBranches, Findings
<1>1. UNCHANGED <<pc, token, sandbox, tested, work, head>>
  BY DEF Developer, DevEdit, DevStage, DevCommit, DevSwitchToMain, DevMove,
     AddFiles, CommitTree, reportVars
<1>2. CASE DevStage
  <2>1. PICK f \in Files : AddFiles({f})
    BY <1>2 DEF DevStage
  <2>2. \A e \in Files : index'[e] \in {index[e], work[e]}
    BY <2>1 DEF AddFiles
  <2>3. UNCHANGED <<tip, HeadTree>>
    BY <2>1 DEF AddFiles, HeadTree
  <2>4. \A e \in token[h] : e \in Files
    BY <1>0
  <2> QED BY <1>1, <2>2, <2>3, <2>4 DEF Carried, Reachable, Publishing
<1>3. CASE DevCommit
  <2> DEFINE t == [f \in Files |-> IF index[f] = Absent THEN Absent ELSE work[f]]
  <2>1. CommitTree(t)
    BY <1>3 DEF DevCommit
  <2>2. t \in Tree
    BY <1>0 DEF CheckoutTypeOK, Tree
  <2>3. HeadTree' = t /\ index' = t
    <3> HIDE DEF t
    <3> QED BY <1>0, <2>1, <2>2, CommittedTree DEF CommitTree
  <2>4. Reachable(h) => Reachable(h)'
    <3> HIDE DEF t
    <3> QED BY <1>0, <2>1, CommitKeepsAbsent DEF Reachable, CommitTree
  <2>5. \A e \in token[h] : t[e] \in {index[e], work[e]}
    BY <1>0
  <2> HIDE DEF t
  <2> QED BY <1>1, <2>3, <2>4, <2>5 DEF Carried, Publishing
<1> QED BY <1>2, <1>3 DEF Developer, DevEdit, DevSwitchToMain, DevMove

\* With the lock, with one hunt for a finding or one finding for all hunts, and a
\* developer who leaves the files and the branch alone, the repaired files that
\* publish() reports as pushed are the ones the tests ran on, whatever else the
\* commit contains. (A hunt that comes back to a finding from another one's branch
\* may be refused the checkout, and then pushes the old branch.)
THEOREM PushesCarryTestedFiles ==
    ASSUME Flock, OwnFindings \/ OneFinding, DevMoves \cap {"edit", "switch"} = {}
    PROVE  Spec => PushCarriesTestedFiles
<1> DEFINE AllCarried == \A h \in Hunts : Carried(h)
<1>1. Init => AllCarried
  BY DEF Init, CheckoutInit, Carried, Reachable, Publishing, AllBranches, Findings
<1>2. ASSUME IInv, LockMatchesHolder, SealedRepairIsEarned, AllCarried,
             [Next]_vars
      PROVE  AllCarried'
  <2> SUFFICES ASSUME NEW g \in Hunts PROVE Carried(g)'
    OBVIOUS
  <2>1. ASSUME NEW h \in Hunts, HuntStep(h) PROVE Carried(g)'
    <3>1. CASE g = h
      BY <1>2, <2>1, <3>1, StepCarried
    <3>2. CASE g # h
      <4>1. /\ pc'[g] = pc[g] /\ token'[g] = token[g]
            /\ sandbox'[g] = sandbox[g] /\ tested'[g] = tested[g]
        BY <1>2, <2>1, <3>2, OthersUntouched DEF HuntStep
      <4>2. CASE pc[g] \in Inside
        <5>1. UNCHANGED gitVars
          BY <1>2, <2>1, <3>2, <4>2, OneWriter
        <5>2. UNCHANGED <<work, index, head, tip, HeadTree>>
          BY <5>1 DEF gitVars, HeadTree
        <5> QED BY <1>2, <4>1, <5>2 DEF Carried, Reachable
      <4>3. CASE pc[g] \notin Inside
        <5>1. Reachable(g) => Reachable(g)'
          BY <1>2, <2>1, <3>2, ReachableToOthers
        <5>2. pc[g] \notin Publishing \cup {"finish"}
          BY <4>3 DEF Inside, Stages, Publishing
        <5> QED BY <1>2, <4>1, <5>1, <5>2 DEF Carried, Publishing
      <4> QED BY <4>2, <4>3
    <3> QED BY <3>1, <3>2
  <2>2. CASE Developer
    BY <1>2, <2>2, DeveloperCarries
  <2>3. CASE UNCHANGED vars
    BY <1>2, <2>3 DEF Carried, Reachable, vars, gitVars, reportVars, HeadTree
  <2> QED BY <1>2, <2>1, <2>2, <2>3 DEF Next, HuntStep, AllEnded
<1>3. ASSUME IInv, AllCarried, [Next]_vars
      PROVE  [\A h \in Hunts : pushed'[h] # pushed[h] =>
                \A f \in token[h] :
                  commits'[remote'[FindingOf[h]]][f] = tested[h][f]]_vars
  <2> SUFFICES ASSUME NEW h \in Hunts, pushed'[h] # pushed[h],
                      NEW f \in token[h]
               PROVE  commits'[remote'[FindingOf[h]]][f] = tested[h][f]
    OBVIOUS
  <2>1. pc[h] = "push" /\ PushBranch(FindingOf[h])
    BY <1>3, OnlyPushPushes DEF At
  <2>2. head = FindingOf[h] /\ HeadTree[f] = tested[h][f]
    BY <1>3, <2>1 DEF Carried
  <2>3. commits' = commits /\ remote'[FindingOf[h]] = tip[FindingOf[h]]
    BY <1>3, <2>1 DEF PushBranch, IInv, TypeOK, CheckoutTypeOK, Findings
  <2> QED BY <2>2, <2>3 DEF HeadTree
<1>4. Spec => []IInv
  BY InitTyped, StepTyped, PTL DEF Spec
<1> QED BY <1>1, <1>2, <1>3, <1>4, LockHeldInside, RepairGate, PTL
        DEF Spec, PushCarriesTestedFiles
-----------------------------------------------------------------------------
(* The commit.                                                             *)

\* The files staged against the commit that is checked out.
StagedFiles == Differing(HeadTree, index)

\* Before the hunt's commit is made (or refused).
Uncommitted == Stages \ {"commit", "push", "finish", "ended"}

\* Nothing is staged until a hunt stages its repair, and then only the repair.
StagedByHunts ==
    /\ \A h \in Hunts : pc[h] = "commit" => StagedFiles \subseteq token[h]
    /\ (\E h \in Hunts : pc[h] \in Uncommitted)
         /\ (\A h \in Hunts : pc[h] # "commit") => StagedFiles = {}

\* Switching branches stages nothing: a file that is staged afterwards was
\* staged before.
LEMMA SwitchStagesNothing ==
    ASSUME CheckoutTypeOK, NEW b \in AllBranches, tip[b] # 0, SwitchTo(b)
    PROVE  StagedFiles' \subseteq StagedFiles
<1> DEFINE target == commits[tip[b]]
<1>1. HeadTree' = target
  BY DEF SwitchTo, HeadTree
<1>2. \A f \in Files :
        index'[f] = IF f \in Differing(HeadTree, target) /\ index[f] # target[f]
                    THEN target[f] ELSE index[f]
  BY DEF SwitchTo
<1> HIDE DEF target
<1> SUFFICES ASSUME NEW f \in StagedFiles' PROVE f \in StagedFiles
  OBVIOUS
<1>3. f \in Files /\ target[f] # index'[f]
  BY <1>1 DEF StagedFiles, Differing
<1>4. index'[f] = index[f] /\ target[f] = HeadTree[f]
  BY <1>2, <1>3 DEF Differing
<1> QED BY <1>3, <1>4 DEF StagedFiles, Differing

\* Committing the tree t leaves t in the index, and so nothing staged.
LEMMA CommitStagesNothing ==
    ASSUME CheckoutTypeOK, NEW t \in Tree, CommitTree(t)
    PROVE  StagedFiles' = {}
<1>1. HeadTree' = t /\ index' = t
  BY CommittedTree DEF CommitTree
<1> QED BY <1>1 DEF StagedFiles, Differing

\* Only `git add` stages files.
LEMMA OnlyAddStages ==
    ASSUME IInv, NEW h \in Hunts, HuntStep(h), ~StageRepair(h)
    PROVE  StagedFiles' \subseteq StagedFiles
<1>0. CheckoutTypeOK /\ FindingOf[h] \in AllBranches /\ index \in Tree
  BY DEF IInv, TypeOK, CheckoutTypeOK, AllBranches, Findings
<1>1. CASE UNCHANGED <<index, head, tip, commits>>
  BY <1>1 DEF StagedFiles, HeadTree
<1>2. CASE SwitchBranch(h)
  <2>1. CASE tip[FindingOf[h]] = 0
    <3>1. /\ head' = FindingOf[h] /\ UNCHANGED <<index, commits>>
          /\ tip' = [tip EXCEPT ![FindingOf[h]] = tip[head]]
      BY <1>2, <2>1 DEF SwitchBranch, CheckoutBranch
    <3>2. HeadTree' = HeadTree
      BY <1>0, <3>1 DEF CheckoutTypeOK, HeadTree
    <3> QED BY <3>1, <3>2 DEF StagedFiles
  <2>2. CASE tip[FindingOf[h]] # 0 /\ SwitchTo(FindingOf[h])
    BY <1>0, <2>2, SwitchStagesNothing
  <2>3. CASE UNCHANGED gitVars
    BY <1>1, <2>3 DEF gitVars
  <2> QED BY <1>2, <2>1, <2>2, <2>3 DEF SwitchBranch, CheckoutBranch
<1>3. CASE CommitRepair(h) /\ CommitTree(index)
  <2>1. StagedFiles' = {}
    BY <1>0, <1>3, CommitStagesNothing
  <2> QED BY <2>1
<1> QED BY <1>1, <1>2, <1>3, NoBranchBefore DEF Publication, Defer, Approve,
           CommitRepair, PushRepair, PushBranch, gitVars

\* With the lock, with a developer who does not stage, and unless a commit
\* fails or the process dies between `git add` and `git commit` while other
\* hunts are to come, the commit that a hunt publishes touches the files of
\* its sealed repair only.
THEOREM CommitsCarryOnlyTheRepair ==
    ASSUME Flock, "stage" \notin DevMoves,
           \/ {"commit", "crash"} \cap Faults = {}
           \/ \A g, h \in Hunts : g = h
    PROVE  Spec => CommitCarriesOnlyTheRepair
<1>1. Init => StagedByHunts
  <2> SUFFICES ASSUME Init PROVE StagedFiles = {}
    BY DEF Init, StagedByHunts
  <2>1. HeadTree = BaseTree
    BY DEF Init, CheckoutInit, HeadTree, AllBranches
  <2> QED BY <2>1 DEF Init, CheckoutInit, StagedFiles, Differing
<1>2. ASSUME IInv, LockMatchesHolder, StagedByHunts, [Next]_vars
      PROVE  StagedByHunts'
  <2>0. /\ pc \in [Hunts -> Stages] /\ CheckoutTypeOK /\ index \in Tree
        /\ token \in [Hunts -> SUBSET Files]
    BY <1>2 DEF IInv, TypeOK, HuntTypeOK, CheckoutTypeOK
  <2>1. ASSUME NEW h \in Hunts, HuntStep(h) PROVE StagedByHunts'
    <3>0. \A g \in Hunts \ {h} : pc'[g] = pc[g] /\ token'[g] = token[g]
      BY <1>2, <2>1, OthersUntouched DEF HuntStep
    <3>1. pc[h] \in Inside => \A g \in Hunts \ {h} : pc[g] # "commit"
      BY <1>2 DEF LockMatchesHolder, Inside, Stages
    <3>2. CASE StageRepair(h)
      <4>1. /\ pc[h] = "add" /\ pc'[h] = "commit" /\ UNCHANGED <<token, HeadTree>>
        BY <2>0, <3>2 DEF StageRepair, At, Goto, AddFiles, HeadTree, reportVars
      <4>2. StagedFiles = {}
        BY <1>2, <3>1, <4>1 DEF StagedByHunts, Uncommitted, Inside, Stages
      <4>3. StagedFiles' \subseteq token'[h]
        BY <2>0, <3>2, <4>1, <4>2 DEF StageRepair, AddFiles, StagedFiles,
           Differing
      <4> QED BY <3>0, <3>1, <4>1, <4>3 DEF StagedByHunts, Inside, Stages
    <3>3. CASE CommitRepair(h)
      <4>1. pc[h] = "commit" /\ pc'[h] \in {"push", "finish"}
        BY <2>0, <3>3 DEF CommitRepair, At, Goto
      <4>2. \A g \in Hunts : pc'[g] # "commit"
        BY <3>0, <3>1, <4>1 DEF Inside, Stages
      <4>3. CASE CommitTree(index)
        <5>1. StagedFiles' = {}
          BY <2>0, <4>3, CommitStagesNothing
        <5> QED BY <4>2, <5>1 DEF StagedByHunts
      <4>4. CASE NothingStaged /\ UNCHANGED gitVars
        <5>1. StagedFiles' = {}
          BY <4>4 DEF NothingStaged, StagedFiles, HeadTree, Differing, gitVars
        <5> QED BY <4>2, <5>1 DEF StagedByHunts
      <4>5. CASE "commit" \in Faults
        <5>1. \A g \in Hunts : g = h
          BY <4>5
        <5>2. \A g \in Hunts : pc'[g] \notin Uncommitted
          BY <4>1, <5>1 DEF Uncommitted
        <5> QED BY <4>2, <5>2 DEF StagedByHunts
      <4> QED BY <3>3, <4>3, <4>4, <4>5 DEF CommitRepair
    <3>4. CASE ~StageRepair(h) /\ ~CommitRepair(h)
      <4>1. StagedFiles' \subseteq StagedFiles
        BY <1>2, <2>1, <3>4, OnlyAddStages
      <4>2. pc'[h] # "commit"
        <5>1. pc'[h] # "commit" \/ Publication(h)
          BY <1>2, <2>1, IntoPublishing DEF VerifyPromotion, Publishing,
             Conclude, Goto, IInv, TypeOK, HuntTypeOK
        <5> QED BY <2>0, <3>4, <5>1 DEF Publication, Defer, Approve,
                   SwitchBranch, PushRepair, Goto
      <4>3. pc[h] = "commit" => Crash(h)
        BY <2>1, <3>4 DEF HuntStep, Step, RefuseEarly, Start, Before, Acquire,
           LockTimeout, GatherContext, CreateSandbox, TakeSnapshot,
           RecordBaseline, Loop, Reason, Author, Verify, Judge, Promotion,
           RefuseUnverified, Bind, PromoteFile, RefusePromotion,
           VerifyPromotion, Publication, Defer, Approve, SwitchBranch,
           PushRepair, Finish, Raise, RaiseEarly, RaiseInLoop, AnswerYes, At
      <4>4. CASE pc[h] = "commit"
        <5>1. pc'[h] = "ended" /\ "crash" \in Faults
          BY <2>0, <4>3, <4>4 DEF Crash, Leave, Goto
        <5>2. \A g \in Hunts : g = h
          BY <5>1
        <5> QED BY <4>2, <5>1, <5>2 DEF StagedByHunts, Uncommitted
      <4>5. CASE pc[h] # "commit"
        <5>1. pc'[h] \in Uncommitted => pc[h] \in Uncommitted
          <6>1. pc[h] = "push" => pc'[h] \in {"finish", "ended", "push"}
            BY <2>0, <2>1, <3>4 DEF HuntStep, Step, RefuseEarly, Start,
               Before, Acquire, LockTimeout, GatherContext, CreateSandbox,
               TakeSnapshot, RecordBaseline, Loop, Reason, Author, Verify,
               Judge, Promotion, RefuseUnverified, Bind, PromoteFile,
               RefusePromotion, VerifyPromotion, Publication, Defer, Approve,
               SwitchBranch, PushRepair, Finish, Raise, RaiseEarly,
               RaiseInLoop, Crash, Leave, AnswerYes, At, Goto
          <6>2. pc[h] \in {"finish", "ended"} => pc'[h] = "ended"
            BY <2>0, <2>1, <3>4 DEF HuntStep, Step, RefuseEarly, Start,
               Before, Acquire, LockTimeout, GatherContext, CreateSandbox,
               TakeSnapshot, RecordBaseline, Loop, Reason, Author, Verify,
               Judge, Promotion, RefuseUnverified, Bind, PromoteFile,
               RefusePromotion, VerifyPromotion, Publication, Defer, Approve,
               SwitchBranch, PushRepair, Finish, Raise, RaiseEarly,
               RaiseInLoop, Crash, Leave, AnswerYes, At, Goto, Inside
          <6> QED BY <2>0, <4>5, <6>1, <6>2 DEF Uncommitted
        <5>2. \A g \in Hunts : pc'[g] = "commit" => pc[g] = "commit" /\ token'[g] = token[g]
          BY <3>0, <4>2
        <5>3. \A g \in Hunts : pc'[g] \in Uncommitted => pc[g] \in Uncommitted
          BY <3>0, <5>1
        <5>4. \A g \in Hunts : pc[g] = "commit" => pc'[g] = "commit"
          BY <3>0, <4>5
        <5> QED BY <1>2, <4>1, <5>2, <5>3, <5>4 DEF StagedByHunts
      <4> QED BY <4>4, <4>5
    <3> QED BY <3>2, <3>3, <3>4
  <2>2. CASE Developer
    <3>1. UNCHANGED <<pc, token>>
      BY <2>2 DEF Developer, DevEdit, DevStage, DevCommit, DevSwitchToMain,
         DevMove, reportVars
    <3>2. StagedFiles' \subseteq StagedFiles
      <4>1. CASE DevEdit
        BY <4>1 DEF DevEdit, StagedFiles, HeadTree
      <4>2. CASE DevCommit
        <5>1. PICK t \in Tree : CommitTree(t)
          <6>1. [f \in Files |-> IF index[f] = Absent THEN Absent ELSE work[f]] \in Tree
            BY <2>0 DEF CheckoutTypeOK, Tree
          <6> QED BY <4>2, <6>1 DEF DevCommit
        <5>2. StagedFiles' = {}
          BY <2>0, <5>1, CommitStagesNothing
        <5> QED BY <5>2
      <4>3. CASE DevSwitchToMain
        <5>1. tip[Main] # 0 /\ Main \in AllBranches
          BY <2>0 DEF CheckoutTypeOK, AllBranches
        <5> QED BY <2>0, <4>3, <5>1, SwitchStagesNothing DEF DevSwitchToMain
      <4> QED BY <2>2, <4>1, <4>2, <4>3 DEF Developer, DevStage, DevMove
    <3> QED BY <1>2, <3>1, <3>2 DEF StagedByHunts
  <2>3. CASE UNCHANGED vars
    BY <1>2, <2>3 DEF StagedByHunts, StagedFiles, HeadTree, vars, gitVars,
       reportVars
  <2> QED BY <1>2, <2>1, <2>2, <2>3 DEF Next, HuntStep, AllEnded
<1>3. ASSUME IInv, StagedByHunts, [Next]_vars
      PROVE  [\A h \in Hunts : At(h, "commit") /\ pc'[h] = "push" =>
                Differing(HeadTree, commits'[Len(commits')])
                  \subseteq token[h]]_vars
  <2> SUFFICES ASSUME NEW h \in Hunts, pc[h] = "commit", pc'[h] = "push"
               PROVE  Differing(HeadTree, commits'[Len(commits')])
                        \subseteq token[h]
    BY DEF At
  <2>0. pc \in [Hunts -> Stages] /\ CheckoutTypeOK
    BY <1>3 DEF IInv, TypeOK, HuntTypeOK
  <2>1. PICK g \in Hunts : HuntStep(g)
    <3>1. ~(Developer \/ UNCHANGED vars)
      BY DEF Developer, DevEdit, DevStage, DevCommit, DevSwitchToMain,
         DevMove, vars
    <3> QED BY <1>3, <3>1 DEF Next, HuntStep, AllEnded
  <2>2. g = h
    BY <1>3, <2>1, OthersUntouched DEF HuntStep
  <2>3. Publication(h)
    BY <1>3, <2>0, <2>1, <2>2, IntoPublishing DEF VerifyPromotion, Publishing,
       At
  <2>4. CommitTree(index)
    BY <2>0, <2>3 DEF Publication, Defer, Approve, SwitchBranch, StageRepair,
       CommitRepair, PushRepair, At, Goto
  <2>5. commits'[Len(commits')] = index
    BY <2>0, <2>4 DEF CommitTree, CheckoutTypeOK
  <2> QED BY <1>3, <2>5 DEF StagedByHunts, StagedFiles
<1>4. Spec => []IInv
  BY InitTyped, StepTyped, PTL DEF Spec
<1> QED BY <1>1, <1>2, <1>3, <1>4, LockHeldInside, PTL
        DEF Spec, CommitCarriesOnlyTheRepair
=============================================================================
