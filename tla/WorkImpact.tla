----------------------------- MODULE WorkImpact -----------------------------
(***************************************************************************)
(* Cross-repository work impact (src/python/koyote/cross_repo.py over      *)
(* work_graph.py): pushes become candidates, candidates are evaluated,     *)
(* confirmed and notified as GitHub issues.  The webhook server handles    *)
(* one event at a time; the watch thread of the same process sweeps.  Both *)
(* read the whole graph file, change it and write it back, with no lock:   *)
(* a save truncates the file before it writes, and what was read may be    *)
(* old by then.                                                            *)
(***************************************************************************)
EXTENDS Naturals, Sequences, FiniteSets

CONSTANTS Works,       \* repository#branch pairs
          Consumers,   \* per work: the works whose checkout calls its repository
          Active,      \* the works with a branch entry when the run begins
          Overlap,     \* may the two threads run at the same time
          Faults,      \* subset of {"failed", "lost", "credentials"}: GitHub does not do
                       \* what it is asked, or does it but the answer is lost; the AI
                       \* provider cannot be used
          MaxEvents,   \* bound: push and pull request events of a run
          NoCandidate  \* no candidate is filed under a work

ASSUME WorksAssumption ==
    /\ Consumers \in [Works -> SUBSET Works] /\ Active \subseteq Works /\ MaxEvents \in Nat
    /\ Works # {}

VARIABLES
    disk,     \* work_graph.json
    loc,      \* per thread: where its operation stands, and its local variables
    events,   \* how many events the server has taken
    pushed,   \* per work: the last head a push event brought (0: none)
    issues    \* the issues on GitHub, by number

vars == <<disk, loc, events, pushed, issues>>

Threads  == {"webhook", "watch"}
Statuses == {"OBSERVED", "POTENTIAL", "STABLE", "CONFIRMED", "NOTIFIED"}
NoUrl    == 0
Heads    == 0..MaxEvents

\* An entry of notified_issues; number is what _issue_number makes of its url.
Notice == [target : Works, number : Nat, head : Heads, open : BOOLEAN]

\* quiet: updated_ts is out of the quiet window; recent: last_evaluated_ts is
\* in it; hollow: a record without the keys record_push relies on.
Candidate == [status : Statuses, head : Heads, quiet : BOOLEAN, recent : BOOLEAN,
              pending : BOOLEAN, targets : SUBSET Works, notified : Seq(Notice),
              hollow : BOOLEAN]
Graph == [branches : SUBSET Works, cand : [Works -> Candidate \cup {NoCandidate}]]

\* A record is told from a missing one.
ASSUME CandidateAssumption == NoCandidate \notin Candidate

New   == [status |-> "OBSERVED", head |-> 0, quiet |-> FALSE, recent |-> FALSE,
          pending |-> FALSE, targets |-> {}, notified |-> <<>>, hollow |-> FALSE]
Empty == [branches |-> {}, cand |-> [w \in Works |-> NoCandidate]]

\* at: the next stage; saving: how far save_graph of `copy` has come; prior: was
\* the work notified before the push; fast: fast_confirm; aged: a quiet
\* window has passed since the operation looked at the clock.
Idle == [at |-> "idle", op |-> "none", work |-> CHOOSE w \in Works : TRUE, rest |-> {},
         head |-> 0, found |-> {}, todo |-> {}, prior |-> FALSE, fast |-> FALSE,
         aged |-> FALSE, copy |-> Empty, saving |-> "no"]

Init ==
    /\ disk = [branches |-> Active,
               cand |-> [w \in Works |-> IF w \in Active THEN [New EXCEPT !.quiet = TRUE]
                                                         ELSE NoCandidate]]
    /\ loc = [t \in Threads |-> Idle]
    /\ events = 0
    /\ pushed = [w \in Works |-> 0]
    /\ issues = <<>>

-----------------------------------------------------------------------------
At(t, s)     == loc[t].at = s /\ loc[t].saving = "no"
Free(t)      == At(t, "idle") /\ (Overlap \/ \A u \in Threads : loc[u].at = "idle")
Known(g, w)  == g.cand[w] # NoCandidate
Status(g, w) == IF Known(g, w) THEN g.cand[w].status ELSE "none"
With(g, w, c) == [g EXCEPT !.cand[w] = c]

\* The local variables of an operation that goes on at s, or that saves g first.
GoOn(l, s)    == [l EXCEPT !.at = s]
Save(l, g, s) == [l EXCEPT !.at = s, !.copy = g, !.saving = "open"]
Let(t, l)     == loc' = [loc EXCEPT ![t] = l]

\* An exception leaves the operation: the server drops the request, the watch
\* loop the rest of its sweep.
Raise(t) == Let(t, Idle)

\* set_candidate_status, on a graph just read.
SetStatus(l, s, next) ==
    IF Known(disk, l.work)
    THEN Save(l, With(disk, l.work, [disk.cand[l.work] EXCEPT !.status = s, !.quiet = FALSE]), next)
    ELSE GoOn(l, next)

\* The stage after evaluate_candidate returned, with its result's status.
AfterEvaluation(l, result) ==
    CASE l.op = "push" -> IF l.prior THEN "reconcile" ELSE IF l.fast THEN "confirm" ELSE "next"
      [] l.op = "pr"   -> IF result = "POTENTIAL" THEN "confirm" ELSE "next"
      [] OTHER         -> "confirm"
AfterReconciliation(l) == IF l.fast THEN "confirm" ELSE "next"

\* find_plausible_targets: consumers with active work, as far as the scan of
\* their checkouts finds callsites.
Plausible(w) == IF Known(disk, w) THEN SUBSET (Consumers[w] \cap disk.branches) ELSE {{}}

-----------------------------------------------------------------------------
\* save_graph: open with O_TRUNC, then write. In between the file reads as empty.
Truncate(t) ==
    /\ loc[t].saving = "open"
    /\ disk' = Empty
    /\ loc' = [loc EXCEPT ![t].saving = "truncated"]
    /\ UNCHANGED <<events, pushed, issues>>

Write(t) ==
    /\ loc[t].saving = "truncated"
    /\ disk' = loc[t].copy
    /\ loc' = [loc EXCEPT ![t].saving = "no", ![t].copy = Empty]
    /\ UNCHANGED <<events, pushed, issues>>

\* handle_push_event reads what the candidate was before the push.
StartPush(w) ==
    /\ Free("webhook") /\ events < MaxEvents
    /\ events' = events + 1
    /\ pushed' = [pushed EXCEPT ![w] = events + 1]
    /\ Let("webhook", [Idle EXCEPT !.at = "record", !.op = "push", !.work = w,
                                   !.prior = Status(disk, w) = "NOTIFIED"])
    /\ UNCHANGED <<disk, issues>>

\* pr_fastpath: tracks the branch; only an opened or merged request goes on. The handler
\* takes it from events named pull_request.<action> (pr_bot.py:488).
StartPr(w, opens) ==
    /\ Free("webhook") /\ events < MaxEvents /\ Known(disk, w)
    /\ events' = events + 1
    /\ Let("webhook", [Idle EXCEPT !.at = "track", !.op = "pr", !.work = w, !.fast = opens])
    /\ UNCHANGED <<disk, pushed, issues>>

\* record_branch_activity.
Track(t) ==
    /\ At(t, "track")
    /\ LET l == loc[t] IN
       Let(t, Save([l EXCEPT !.fast = FALSE], [disk EXCEPT !.branches = @ \cup {l.work}],
                   IF l.fast THEN "evaluate" ELSE "next"))
    /\ UNCHANGED <<disk, events, pushed, issues>>

\* record_push: the push takes a candidate back that was stable or confirmed.
Record(t) ==
    /\ At(t, "record")
    /\ LET l == loc[t]
           c == IF Known(disk, l.work) THEN disk.cand[l.work] ELSE New
       IN  IF c.hollow THEN Raise(t)
           ELSE Let(t, Save(l, [With(disk, l.work,
                       [c EXCEPT !.head = pushed[l.work], !.pending = TRUE, !.quiet = FALSE,
                                 !.status = IF @ \in {"STABLE", "CONFIRMED"} THEN "POTENTIAL"
                                            ELSE @])
                       EXCEPT !.branches = @ \cup {l.work}], "evaluate"))
    /\ UNCHANGED <<disk, events, pushed, issues>>

\* sweep_quiet; a hollow candidate among those moved ends the sweep's loop.
StartSweep ==
    LET moved == {w \in Works : Status(disk, w) = "POTENTIAL" /\ disk.cand[w].quiet}
        lame  == {w \in moved : disk.cand[w].hollow}
    IN  /\ Free("watch") /\ moved # {}
        /\ \E rest \in SUBSET (moved \ lame) :
              /\ lame = {} => rest = moved
              /\ Let("watch", Save([Idle EXCEPT !.op = "sweep", !.rest = rest],
                     [disk EXCEPT !.cand = [w \in Works |->
                        IF w \in moved THEN [@[w] EXCEPT !.status = "STABLE", !.quiet = FALSE]
                        ELSE @[w]]], "next"))
        /\ UNCHANGED <<disk, events, pushed, issues>>

\* The operation is over, or the sweep takes its next candidate.
Proceed(t) ==
    /\ At(t, "next")
    /\ \/ loc[t].rest = {} /\ Let(t, Idle)
       \/ \E w \in loc[t].rest :
             Let(t, [Idle EXCEPT !.at = "evaluate", !.op = "sweep", !.work = w,
                                 !.rest = loc[t].rest \ {w}, !.aged = loc[t].aged])
    /\ UNCHANGED <<disk, events, pushed, issues>>

-----------------------------------------------------------------------------
\* evaluate_candidate. A push is coalesced while the last evaluation is
\* recent, unless it is forced; a sweep compares with the clock it read first.
Evaluate(t) ==
    /\ At(t, "evaluate")
    /\ LET l == loc[t]
           c == disk.cand[l.work]
           coalesced == Known(disk, l.work) /\ l.op = "push" /\ ~l.prior /\ c.recent
       IN  \/ /\ ~Known(disk, l.work) \/ coalesced \/ "credentials" \in Faults
              /\ Let(t, GoOn(l, AfterEvaluation(l, "none")))
           \/ /\ Known(disk, l.work) /\ ~coalesced
              /\ Let(t, [l EXCEPT !.at = "match", !.head = c.head,
                                  !.aged = l.op = "sweep" /\ l.aged])
    /\ UNCHANGED <<disk, events, pushed, issues>>

Match(t) ==
    /\ At(t, "match")
    /\ \E S \in Plausible(loc[t].work) : Let(t, [loc[t] EXCEPT !.at = "stamp", !.found = S])
    /\ UNCHANGED <<disk, events, pushed, issues>>

\* _stamp_evaluated.
Stamp(t) ==
    /\ At(t, "stamp")
    /\ LET l == loc[t] IN
       Let(t, IF Known(disk, l.work)
              THEN Save(l, With(disk, l.work, [disk.cand[l.work] EXCEPT
                                                !.pending = FALSE, !.recent = ~l.aged]), "assess")
              ELSE GoOn(l, "assess"))
    /\ UNCHANGED <<disk, events, pushed, issues>>

\* The model judges each target; its verdicts become the status.
Assess(t) ==
    /\ At(t, "assess")
    /\ \E S \in SUBSET loc[t].found, high \in BOOLEAN :
          LET l == [loc[t] EXCEPT !.found = S, !.fast = high] IN
          IF S = {} THEN ~high /\ Let(t, SetStatus(l, "OBSERVED", AfterEvaluation(l, "OBSERVED")))
                    ELSE Let(t, SetStatus(l, "POTENTIAL", "label"))
    /\ UNCHANGED <<disk, events, pushed, issues>>

\* A second load and save for the targets; the candidate may be gone.
Label(t) ==
    /\ At(t, "label")
    /\ LET l == loc[t] IN
       IF Known(disk, l.work)
       THEN Let(t, Save(l, With(disk, l.work, [disk.cand[l.work] EXCEPT !.targets = l.found]),
                        AfterEvaluation(l, "POTENTIAL")))
       ELSE Raise(t)
    /\ UNCHANGED <<disk, events, pushed, issues>>

-----------------------------------------------------------------------------
\* What a call to GitHub may end with; the client raises nothing, it returns
\* a failure as a result (client.py:145).
Answers == {"ok"} \cup (Faults \cap {"failed", "lost"})

\* reconcile_prior_notification: looks at the candidate, then loads the graph it
\* will save after its calls to GitHub.
Reconcile(t) ==
    /\ At(t, "reconcile")
    /\ LET l == loc[t] IN
       Let(t, GoOn(l, IF Status(disk, l.work) = "OBSERVED" THEN "retract" ELSE AfterReconciliation(l)))
    /\ UNCHANGED <<disk, events, pushed, issues>>

Notified(g, w) == IF Known(g, w) THEN g.cand[w].notified ELSE <<>>
Retractable(g, w) ==
    {i \in DOMAIN Notified(g, w) : Notified(g, w)[i].open /\ Notified(g, w)[i].number # NoUrl}

Retract(t) ==
    /\ At(t, "retract")
    /\ LET l == loc[t]
           S == Retractable(disk, l.work)
       IN  Let(t, IF S = {} THEN GoOn(l, AfterReconciliation(l))
                  ELSE [l EXCEPT !.at = "close", !.copy = disk, !.todo = S])
    /\ UNCHANGED <<disk, events, pushed, issues>>

\* The correction and the closing of one issue. The client reports an HTTP
\* failure in its result, which is not looked at.
Close(t) ==
    /\ At(t, "close")
    /\ \E i \in loc[t].todo, answer \in Answers :
          LET l == loc[t]
              n == Notified(l.copy, l.work)[i]
              g == [l.copy EXCEPT !.cand[l.work].notified[i].open = FALSE]
          IN  /\ issues' = IF answer = "failed" THEN issues
                           ELSE [issues EXCEPT ![n.number].open = FALSE]
              /\ Let(t, IF l.todo = {i} THEN Save([l EXCEPT !.todo = {}], g, AfterReconciliation(l))
                        ELSE [l EXCEPT !.todo = @ \ {i}, !.copy = g])
    /\ UNCHANGED <<disk, events, pushed>>

-----------------------------------------------------------------------------
\* Mutant of Confirm: only what is still possible is confirmed.
ConfirmPossible(t) ==
    /\ At(t, "confirm")
    /\ Let(t, GoOn(loc[t], IF Status(disk, loc[t].work) = "POTENTIAL" THEN "recheck" ELSE "next"))
    /\ UNCHANGED <<disk, events, pushed, issues>>

\* confirm_candidate: still confirmable, still plausible, then marked.
Confirm(t) ==
    /\ At(t, "confirm")
    /\ LET l == loc[t] IN
       Let(t, GoOn(l, IF Status(disk, l.work) \in {"POTENTIAL", "STABLE"} THEN "recheck" ELSE "next"))
    /\ UNCHANGED <<disk, events, pushed, issues>>

Recheck(t) ==
    /\ At(t, "recheck")
    /\ \E S \in Plausible(loc[t].work) :
          Let(t, GoOn(loc[t], IF S = {} THEN "drop" ELSE "mark"))
    /\ UNCHANGED <<disk, events, pushed, issues>>

Settle(t) ==
    /\ \/ At(t, "drop") /\ Let(t, SetStatus(loc[t], "OBSERVED", "next"))
       \/ At(t, "mark") /\ Let(t, SetStatus(loc[t], "CONFIRMED", "notify"))
    /\ UNCHANGED <<disk, events, pushed, issues>>

\* notify_confirmed reads the candidate it tells of, then loads the graph that
\* it will save; a candidate that is missing there is saved hollow.
Notify(t) ==
    /\ At(t, "notify")
    /\ LET l == loc[t] IN
       Let(t, IF Status(disk, l.work) # "CONFIRMED" THEN GoOn(l, "next")
              ELSE [l EXCEPT !.at = "load", !.head = disk.cand[l.work].head,
                             !.todo = disk.cand[l.work].targets])
    /\ UNCHANGED <<disk, events, pushed, issues>>

Load(t) ==
    /\ At(t, "load")
    /\ LET l == loc[t] IN
       Let(t, [l EXCEPT !.at = "file",
                        !.copy = IF Known(disk, l.work) THEN disk
                                 ELSE With(disk, l.work, [New EXCEPT !.hollow = TRUE])])
    /\ UNCHANGED <<disk, events, pushed, issues>>

\* Mutant of Prior: only the latest notice is looked at.
PriorLatest(seq, target) ==
    IF seq # <<>> /\ seq[Len(seq)].target = target /\ seq[Len(seq)].open THEN Len(seq) ELSE 0

\* The first open notice of a target, 0 if there is none.
Prior(seq, target) ==
    LET S == {i \in DOMAIN seq : seq[i].target = target /\ seq[i].open}
    IN  IF S = {} THEN 0 ELSE CHOOSE i \in S : \A j \in S : i <= j

\* Mutant of FileNothing: a target is told once, whatever the head.
FileKnown(t, target) ==
    /\ Prior(Notified(loc[t].copy, loc[t].work), target) # 0
    /\ Let(t, [loc[t] EXCEPT !.todo = @ \ {target}])
    /\ UNCHANGED issues

\* The next target is known, and has been told of this head.
FileNothing(t, target) ==
    LET l == loc[t]
        n == Notified(l.copy, l.work)
        i == Prior(n, target)
    IN  /\ i # 0 /\ n[i].head = l.head
        /\ Let(t, [l EXCEPT !.todo = @ \ {target}])
        /\ UNCHANGED issues

\* It has an issue, which gets a comment; again nobody looks at the result.
FileComment(t, target) ==
    LET l == loc[t]
        n == Notified(l.copy, l.work)
        i == Prior(n, target)
    IN  /\ i # 0 /\ n[i].head # l.head /\ n[i].number # NoUrl
        /\ \E answer \in Answers :
              issues' = IF answer = "failed" THEN issues
                        ELSE [issues EXCEPT ![n[i].number].told = l.head]
        /\ Let(t, [l EXCEPT !.todo = @ \ {target},
                            !.copy.cand[l.work].notified[i].head = l.head])

\* It has none, or one whose url is not known: an issue is created. A failed
\* call and a lost answer leave a notice without url.
FileIssue(t, target) ==
    LET l == loc[t]
        n == Notified(l.copy, l.work)
        i == Prior(n, target)
    IN  /\ i # 0 => n[i].head # l.head /\ n[i].number = NoUrl
        /\ \E answer \in Answers :
              /\ issues' = IF answer = "failed" THEN issues
                           ELSE Append(issues, [source |-> l.work, target |-> target,
                                                open |-> TRUE, told |-> l.head])
              /\ Let(t, [l EXCEPT !.todo = @ \ {target},
                    !.copy.cand[l.work].notified = Append(@,
                       [target |-> target, head |-> l.head, open |-> TRUE,
                        number |-> IF answer = "ok" THEN Len(issues) + 1 ELSE NoUrl])])

File(t) ==
    /\ At(t, "file")
    /\ \E target \in loc[t].todo :
          FileNothing(t, target) \/ FileComment(t, target) \/ FileIssue(t, target)
    /\ UNCHANGED <<disk, events, pushed>>

\* Whatever the calls brought, the candidate is notified.
Conclude(t) ==
    /\ At(t, "file") /\ loc[t].todo = {}
    /\ LET l == loc[t] IN
       Let(t, Save(l, [l.copy EXCEPT !.cand[l.work].status = "NOTIFIED",
                                     !.cand[l.work].quiet = FALSE], "next"))
    /\ UNCHANGED <<disk, events, pushed, issues>>

-----------------------------------------------------------------------------
\* A quiet window passes: no time stamp is recent any more.
Aged(g) == [g EXCEPT !.cand = [w \in Works |->
              IF Known(g, w) THEN [@[w] EXCEPT !.quiet = TRUE, !.recent = FALSE] ELSE @[w]]]

Elapse ==
    /\ Aged(disk) # disk \/ \E t \in Threads : loc[t].at # "idle" /\ ~loc[t].aged
    /\ disk' = Aged(disk)
    /\ loc' = [t \in Threads |-> IF loc[t].at = "idle" THEN loc[t]
                                 ELSE [loc[t] EXCEPT !.copy = Aged(@), !.aged = TRUE]]
    /\ UNCHANGED <<events, pushed, issues>>

Step(t) ==
    \/ Truncate(t) \/ Write(t) \/ Track(t) \/ Record(t) \/ Proceed(t)
    \/ Evaluate(t) \/ Match(t) \/ Stamp(t) \/ Assess(t) \/ Label(t)
    \/ Reconcile(t) \/ Retract(t) \/ Close(t)
    \/ Confirm(t) \/ Recheck(t) \/ Settle(t) \/ Notify(t) \/ Load(t) \/ File(t) \/ Conclude(t)

Next ==
    \/ \E w \in Works : StartPush(w) \/ \E opens \in BOOLEAN : StartPr(w, opens)
    \/ StartSweep \/ Elapse
    \/ \E t \in Threads : Step(t)

Spec == Init /\ [][Next]_vars

\* An operation that began goes on: each call it makes has a timeout. Nothing is
\* assumed of the events, of the sweeps (the watch loop is off by default, and a round
\* of it can fail before its sweep) and of the time that passes.
FairSpec == Spec /\ \A t \in Threads : WF_vars(Step(t))

\* What a user may hope for who starts the daemon with --watch.
WatchedSpec == FairSpec /\ WF_vars(StartSweep) /\ WF_vars(Elapse)

-----------------------------------------------------------------------------
Resting    == \A t \in Threads : loc[t].at = "idle"
IssuesOf(w, target) ==
    {i \in DOMAIN issues : issues[i].source = w /\ issues[i].target = target /\ issues[i].open}

\* One issue per affected work: re-confirmation updates it, and never files a
\* second one (cross_repo.py:297).
OneIssuePerWork == \A w, v \in Works : Cardinality(IssuesOf(w, v)) <= 1

\* A candidate that rests as NOTIFIED with nothing left to evaluate has an open issue on
\* every work the last evaluation named, and the issue was told of the latest push.
NotifiedIsCurrent ==
    Resting => \A w \in Works : Status(disk, w) = "NOTIFIED" /\ ~disk.cand[w].pending =>
        \A v \in disk.cand[w].targets : \E i \in IssuesOf(w, v) : issues[i].told = disk.cand[w].head

\* docs/CROSS_REPO_WORK_IMPACT.md:39, "retracted impact posts a correction and
\* closes it": no warning stays open for a work that is observed only.
RetractedIsClosed ==
    Resting => \A w, v \in Works : Status(disk, w) = "OBSERVED" => IssuesOf(w, v) = {}

\* "Quiet POTENTIAL -> STABLE -> evaluate latest -> confirm+notify (or silent retract)"
\* (sweep_and_notify, cross_repo.py:411): what a sweep took up is notified or retracted,
\* although no other sweep will look at it.
ImpactIsDecided ==
    \A w \in Works : Status(disk, w) = "STABLE" ~> Status(disk, w) \in {"OBSERVED", "NOTIFIED"}

\* docs/CROSS_REPO_WORK_IMPACT.md:32, "rapid pushes coalesce; the sweep
\* evaluates the latest head only": what was coalesced is evaluated later.
PendingIsEvaluated ==
    \A w \in Works : (Known(disk, w) /\ disk.cand[w].pending)
                        ~> ~(Known(disk, w) /\ disk.cand[w].pending)
=============================================================================
