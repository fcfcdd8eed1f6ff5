-------------------------- MODULE WorkImpactProofs --------------------------
(***************************************************************************)
(* Proofs about the notification of cross-repository impact, for every set *)
(* of works, every consumers and any number of events: the types of the    *)
(* graph and of an operation's local variables always; and, as long as the *)
(* two threads take turns and GitHub does what it is asked, that an        *)
(* affected work has one open issue and that a candidate at rest as        *)
(* notified has told every work it names of the latest push.               *)
(***************************************************************************)
EXTENDS WorkImpact, WellFoundedInduction, FiniteSetTheorems, TLAPS

USE WorksAssumption, CandidateAssumption

Stages == {"idle", "record", "track", "evaluate", "next", "match", "stamp", "assess", "label",
           "reconcile", "retract", "close", "confirm", "recheck", "drop", "mark", "notify",
           "load", "file"}

Local == [at : Stages, op : {"none", "push", "pr", "sweep"}, work : Works, rest : SUBSET Works,
          head : Heads, found : SUBSET Works, todo : SUBSET (Works \cup Nat), prior : BOOLEAN,
          fast : BOOLEAN, aged : BOOLEAN, copy : Graph, saving : {"no", "open", "truncated"}]

\* What an operation still has to do: targets to tell, or notices to retract.
Ready(l) ==
    /\ l.at \in {"load", "file"} => l.todo \subseteq Works
    /\ l.at = "file" => Known(l.copy, l.work)
    /\ l.at = "close" => l.todo \subseteq DOMAIN Notified(l.copy, l.work)
    /\ l.at \in {"load", "file", "close", "idle"} => l.saving = "no"

Issue == [source : Works, target : Works, open : BOOLEAN, told : Heads]

TypeOK ==
    /\ disk \in Graph
    /\ loc \in [Threads -> Local]
    /\ \A t \in Threads : Ready(loc[t])
    /\ events \in Heads
    /\ pushed \in [Works -> Heads]
    /\ issues \in Seq(Issue)

-----------------------------------------------------------------------------
\* The stages an operation may go on at with nothing more to be said of them.
Plain == Stages \ {"load", "file", "close", "idle"}

\* Numbers, empty sequences and the records the model starts from.
LEMMA Constants ==
    /\ 0 \in Heads /\ Heads \subseteq Nat
    /\ New \in Candidate /\ Empty \in Graph
    /\ [New EXCEPT !.quiet = TRUE] \in Candidate /\ [New EXCEPT !.hollow = TRUE] \in Candidate
<1>1. 0 \in Heads /\ Heads \subseteq Nat
  BY DEF Heads
<1>2. <<>> \in Seq(Notice)
  OBVIOUS
<1>3. New \in Candidate
  BY <1>1, <1>2 DEF New, Candidate, Statuses
<1>4. [New EXCEPT !.quiet = TRUE] \in Candidate /\ [New EXCEPT !.hollow = TRUE] \in Candidate
  BY <1>3 DEF Candidate
<1>5. Empty \in Graph
  BY DEF Empty, Graph
<1> QED
  BY <1>1, <1>3, <1>4, <1>5

\* The idle operation is an operation.
LEMMA IdleType == Idle \in Local /\ Ready(Idle)
<1>1. (CHOOSE w \in Works : TRUE) \in Works
  OBVIOUS
<1> QED
  BY <1>1, Constants DEF Idle, Local, Ready, Stages

\* Filing a candidate under a work leaves a graph.
LEMMA WithType ==
  ASSUME NEW g \in Graph, NEW w \in Works, NEW c \in Candidate
  PROVE  /\ With(g, w, c) \in Graph
         /\ With(g, w, c).branches = g.branches
         /\ With(g, w, c).cand = [g.cand EXCEPT ![w] = c]
  BY DEF With, Graph

\* A known candidate is a record.
LEMMA KnownType ==
  ASSUME NEW g \in Graph, NEW w \in Works
  PROVE  /\ Known(g, w) => g.cand[w] \in Candidate
         /\ Notified(g, w) \in Seq(Notice)
<1>1. Known(g, w) => g.cand[w] \in Candidate
  BY DEF Known, Graph
<1>2. <<>> \in Seq(Notice)
  OBVIOUS
<1> QED
  BY <1>1, <1>2 DEF Notified, Candidate

\* Going on, and saving a graph first, leaves an operation.
LEMMA GoOnType ==
  ASSUME NEW l \in Local, NEW s \in Plain, NEW g \in Graph
  PROVE  /\ GoOn(l, s) \in Local /\ Ready(GoOn(l, s))
         /\ Save(l, g, s) \in Local /\ Ready(Save(l, g, s))
  BY DEF GoOn, Save, Local, Ready, Plain

\* Setting a status leaves an operation.
LEMMA SetStatusType ==
  ASSUME NEW l \in Local, disk \in Graph, NEW s \in Statuses, NEW next \in Plain
  PROVE  SetStatus(l, s, next) \in Local /\ Ready(SetStatus(l, s, next))
<1>w. l.work \in Works
  BY DEF Local
<1>1. CASE Known(disk, l.work)
  <2>0. disk.cand[l.work] \in Candidate
    BY <1>w, <1>1, KnownType
  <2>1. [disk.cand[l.work] EXCEPT !.status = s, !.quiet = FALSE] \in Candidate
    BY <2>0 DEF Candidate
  <2>2. With(disk, l.work, [disk.cand[l.work] EXCEPT !.status = s, !.quiet = FALSE]) \in Graph
    BY <1>w, <2>1, WithType
  <2> QED
    BY <1>1, <2>2, GoOnType DEF SetStatus
<1>2. CASE ~Known(disk, l.work)
  BY <1>2, GoOnType, Constants DEF SetStatus
<1> QED
  BY <1>1, <1>2

\* The stages after an evaluation and a reconciliation.
LEMMA AfterTypes ==
  ASSUME NEW l, NEW result
  PROVE  AfterEvaluation(l, result) \in Plain /\ AfterReconciliation(l) \in Plain
  BY DEF AfterEvaluation, AfterReconciliation, Plain, Stages

\* A quiet window changes neither who is known nor what was notified.
LEMMA AgedType ==
  ASSUME NEW g \in Graph
  PROVE  /\ Aged(g) \in Graph
         /\ \A w \in Works : /\ Known(Aged(g), w) <=> Known(g, w)
                             /\ Notified(Aged(g), w) = Notified(g, w)
<1>1. ASSUME NEW w \in Works, Known(g, w)
      PROVE  [g.cand[w] EXCEPT !.quiet = TRUE, !.recent = FALSE] \in Candidate
  BY <1>1, KnownType DEF Candidate
<1>2. /\ Aged(g).branches = g.branches
      /\ Aged(g).cand = [w \in Works |->
            IF Known(g, w) THEN [g.cand[w] EXCEPT !.quiet = TRUE, !.recent = FALSE] ELSE g.cand[w]]
      /\ DOMAIN Aged(g) = {"branches", "cand"}
  BY DEF Aged, Graph
<1>3. Aged(g) \in Graph
  BY <1>1, <1>2 DEF Graph, Aged
<1>4. ASSUME NEW w \in Works
      PROVE  (Known(Aged(g), w) <=> Known(g, w)) /\ Notified(Aged(g), w) = Notified(g, w)
  <2>1. CASE Known(g, w)
    <3>1. Aged(g).cand[w] = [g.cand[w] EXCEPT !.quiet = TRUE, !.recent = FALSE]
      BY <1>2, <2>1
    <3>2. Aged(g).cand[w] \in Candidate /\ Aged(g).cand[w].notified = g.cand[w].notified
      BY <1>1, <2>1, <3>1, KnownType DEF Candidate
    <3> QED
      BY <2>1, <3>2 DEF Known, Notified
  <2>2. CASE ~Known(g, w)
    BY <1>2, <2>2 DEF Known, Notified
  <2> QED
    BY <2>1, <2>2
<1> QED
  BY <1>3, <1>4

\* The types of the local variables a step replaces.
LEMMA LocalStep ==
  ASSUME TypeOK, NEW t \in Threads, NEW l \in Local, Ready(l), loc' = [loc EXCEPT ![t] = l]
  PROVE  loc' \in [Threads -> Local] /\ \A u \in Threads : Ready(loc[u])'
<1>1. loc' \in [Threads -> Local] /\ \A u \in Threads : loc'[u] = IF u = t THEN l ELSE loc[u]
  BY DEF TypeOK
<1>2. \A u \in Threads : Ready(loc'[u])
  BY <1>1 DEF TypeOK
<1> QED
  BY <1>1, <1>2

\* A step that only moves an operation on keeps the types.
LEMMA LetType ==
  ASSUME TypeOK, NEW t \in Threads, NEW l \in Local, Ready(l), Let(t, l),
         UNCHANGED <<disk, events, pushed, issues>>
  PROVE  TypeOK'
<1>1. loc' \in [Threads -> Local] /\ \A u \in Threads : Ready(loc[u])'
  BY LocalStep DEF Let
<1> QED
  BY <1>1 DEF TypeOK

\* The next event has a number too.
LEMMA NextEvent ==
  ASSUME TypeOK, events < MaxEvents
  PROVE  events + 1 \in Heads
<1>1. events \in 0..MaxEvents
  BY DEF TypeOK, Heads
<1> QED
  BY <1>1 DEF Heads

\* The steps of save_graph, and those that begin or end an operation.
LEMMA FrameType ==
  ASSUME TypeOK, NEW t \in Threads,
         Truncate(t) \/ Write(t) \/ Proceed(t) \/ StartSweep
         \/ (\E w \in Works : StartPush(w) \/ \E opens \in BOOLEAN : StartPr(w, opens))
  PROVE  TypeOK'
<1>t. loc[t] \in Local /\ Ready(loc[t])
  BY DEF TypeOK
<1>1. CASE Truncate(t)
  <2>1. /\ [loc[t] EXCEPT !.saving = "truncated"] \in Local
        /\ Ready([loc[t] EXCEPT !.saving = "truncated"])
    BY <1>t, <1>1 DEF Truncate, Local, Ready
  <2> QED
    BY <1>1, <2>1, LocalStep, Constants DEF Truncate, TypeOK
<1>2. CASE Write(t)
  <2>1. /\ [loc[t] EXCEPT !.saving = "no", !.copy = Empty] \in Local
        /\ Ready([loc[t] EXCEPT !.saving = "no", !.copy = Empty])
    BY <1>t, <1>2, Constants DEF Write, Local, Ready
  <2>2. loc' = [loc EXCEPT ![t] = [loc[t] EXCEPT !.saving = "no", !.copy = Empty]]
    BY <1>2 DEF Write, TypeOK
  <2>3. disk' \in Graph
    BY <1>t, <1>2 DEF Write, Local
  <2> QED
    BY <1>2, <2>1, <2>2, <2>3, LocalStep DEF Write, TypeOK
<1>3. CASE Proceed(t)
  <2>1. CASE Let(t, Idle)
    BY <1>3, <2>1, IdleType, LetType DEF Proceed
  <2>2. ASSUME NEW w \in loc[t].rest,
               Let(t, [Idle EXCEPT !.at = "evaluate", !.op = "sweep", !.work = w,
                                   !.rest = loc[t].rest \ {w}, !.aged = loc[t].aged])
        PROVE  TypeOK'
    <3>1. w \in Works /\ loc[t].rest \ {w} \in SUBSET Works /\ loc[t].aged \in BOOLEAN
      BY <1>t DEF Local
    <3> DEFINE l == [Idle EXCEPT !.at = "evaluate", !.op = "sweep", !.work = w,
                                 !.rest = loc[t].rest \ {w}, !.aged = loc[t].aged]
    <3>2. l \in Local /\ Ready(l)
      BY <3>1, IdleType DEF Local, Ready, Stages
    <3> QED
      BY <1>3, <2>2, <3>2, LetType DEF Proceed
  <2> QED
    BY <1>3, <2>1, <2>2 DEF Proceed
<1>4. ASSUME NEW w \in Works, StartPush(w)
      PROVE  TypeOK'
  <2>1. events + 1 \in Heads /\ (Status(disk, w) = "NOTIFIED") \in BOOLEAN
    BY <1>4, NextEvent DEF StartPush
  <2> DEFINE l == [Idle EXCEPT !.at = "record", !.op = "push", !.work = w,
                               !.prior = Status(disk, w) = "NOTIFIED"]
  <2>2. l \in Local /\ Ready(l)
    BY <2>1, IdleType DEF Local, Ready, Stages
  <2>3. "webhook" \in Threads /\ loc' = [loc EXCEPT !["webhook"] = l]
    BY <1>4 DEF StartPush, Let, Threads
  <2>4. loc' \in [Threads -> Local] /\ \A u \in Threads : Ready(loc[u])'
    BY <2>2, <2>3, LocalStep
  <2> QED
    BY <1>4, <2>1, <2>4 DEF StartPush, TypeOK
<1>5. ASSUME NEW w \in Works, NEW opens \in BOOLEAN, StartPr(w, opens)
      PROVE  TypeOK'
  <2>1. events + 1 \in Heads
    BY <1>5, NextEvent DEF StartPr
  <2> DEFINE l == [Idle EXCEPT !.at = "track", !.op = "pr", !.work = w, !.fast = opens]
  <2>2. l \in Local /\ Ready(l)
    BY IdleType DEF Local, Ready, Stages
  <2>3. "webhook" \in Threads /\ loc' = [loc EXCEPT !["webhook"] = l]
    BY <1>5 DEF StartPr, Let, Threads
  <2>4. loc' \in [Threads -> Local] /\ \A u \in Threads : Ready(loc[u])'
    BY <2>2, <2>3, LocalStep
  <2> QED
    BY <1>5, <2>1, <2>4 DEF StartPr, TypeOK
<1>6. CASE StartSweep
  <2> DEFINE moved == {w \in Works : Status(disk, w) = "POTENTIAL" /\ disk.cand[w].quiet}
             g == [disk EXCEPT !.cand = [w \in Works |->
                      IF w \in moved THEN [disk.cand[w] EXCEPT !.status = "STABLE", !.quiet = FALSE]
                      ELSE disk.cand[w]]]
  <2>1. PICK rest \in SUBSET moved :
           Let("watch", Save([Idle EXCEPT !.op = "sweep", !.rest = rest], g, "next"))
    BY <1>6 DEF StartSweep
  <2>2. ASSUME NEW w \in moved
        PROVE  [disk.cand[w] EXCEPT !.status = "STABLE", !.quiet = FALSE] \in Candidate
    <3>1. disk.cand[w] \in Candidate
      BY KnownType DEF TypeOK, Status
    <3> QED
      BY <3>1 DEF Candidate, Statuses
  <2>3. g \in Graph
    BY <2>2 DEF TypeOK, Graph
  <2>4. [Idle EXCEPT !.op = "sweep", !.rest = rest] \in Local
    BY IdleType DEF Local
  <2>5. "next" \in Plain /\ "watch" \in Threads
    BY DEF Plain, Stages, Threads
  <2> HIDE DEF g, moved
  <2> QED
    BY <1>6, <2>1, <2>3, <2>4, <2>5, GoOnType, LetType DEF StartSweep
<1> QED
  BY <1>1, <1>2, <1>3, <1>4, <1>5, <1>6

-----------------------------------------------------------------------------
\* A graph in which the notices of a work are replaced.
Renotify(g, w, seq) == [g EXCEPT !.cand[w].notified = seq]

LEMMA RenotifyType ==
  ASSUME NEW g \in Graph, NEW w \in Works, Known(g, w), NEW seq \in Seq(Notice)
  PROVE  /\ Renotify(g, w, seq) \in Graph
         /\ Renotify(g, w, seq).cand[w].status = g.cand[w].status
         /\ Renotify(g, w, seq).cand[w].head = g.cand[w].head
         /\ Renotify(g, w, seq).cand[w].pending = g.cand[w].pending
         /\ Renotify(g, w, seq).cand[w].targets = g.cand[w].targets
         /\ \A v \in Works \ {w} : Renotify(g, w, seq).cand[v] = g.cand[v]
         /\ Renotify(g, w, seq).cand[w] \in Candidate
         /\ \A v \in Works : Known(Renotify(g, w, seq), v) <=> Known(g, v)
         /\ Notified(Renotify(g, w, seq), w) = seq
         /\ \A v \in Works \ {w} : Notified(Renotify(g, w, seq), v) = Notified(g, v)
<1>1. g.cand[w] \in Candidate
  BY KnownType
<1>2. [g.cand[w] EXCEPT !.notified = seq] \in Candidate
  BY <1>1 DEF Candidate
<1>3. /\ Renotify(g, w, seq).cand = [g.cand EXCEPT ![w] = [g.cand[w] EXCEPT !.notified = seq]]
      /\ Renotify(g, w, seq) \in Graph
  BY <1>2 DEF Renotify, Graph
<1>4. /\ Renotify(g, w, seq).cand[w] = [g.cand[w] EXCEPT !.notified = seq]
      /\ \A v \in Works \ {w} : Renotify(g, w, seq).cand[v] = g.cand[v]
  BY <1>3 DEF Graph
<1>5. [g.cand[w] EXCEPT !.notified = seq].notified = seq
  BY <1>1 DEF Candidate
<1>9. /\ Renotify(g, w, seq).cand[w].status = g.cand[w].status
      /\ Renotify(g, w, seq).cand[w].head = g.cand[w].head
      /\ Renotify(g, w, seq).cand[w].pending = g.cand[w].pending
      /\ Renotify(g, w, seq).cand[w].targets = g.cand[w].targets
  BY <1>1, <1>4 DEF Candidate
<1>6. \A v \in Works : Known(Renotify(g, w, seq), v) <=> Known(g, v)
  BY <1>2, <1>4 DEF Known
<1>7. Notified(Renotify(g, w, seq), w) = seq
  BY <1>4, <1>5, <1>6 DEF Notified
<1>8. \A v \in Works \ {w} : Notified(Renotify(g, w, seq), v) = Notified(g, v)
  BY <1>4, <1>6 DEF Notified
<1> QED
  BY <1>2, <1>3, <1>4, <1>6, <1>7, <1>8, <1>9

\* What a notice becomes that is closed, or that is told of another head.
LEMMA NoticeType ==
  ASSUME NEW seq \in Seq(Notice), NEW i \in DOMAIN seq, NEW h \in Heads
  PROVE  /\ [seq EXCEPT ![i].open = FALSE] \in Seq(Notice)
         /\ [seq EXCEPT ![i].head = h] \in Seq(Notice)
<1>1. seq[i] \in Notice
  OBVIOUS
<1>2. [seq[i] EXCEPT !.open = FALSE] \in Notice /\ [seq[i] EXCEPT !.head = h] \in Notice
  BY <1>1 DEF Notice
<1>3. ASSUME NEW n \in Notice PROVE [seq EXCEPT ![i] = n] \in Seq(Notice)
  OBVIOUS
<1> QED
  BY <1>2, <1>3

\* The same for an issue.
LEMMA IssueType ==
  ASSUME NEW seq \in Seq(Issue), NEW i, NEW h \in Heads
  PROVE  /\ [seq EXCEPT ![i].open = FALSE] \in Seq(Issue)
         /\ [seq EXCEPT ![i].told = h] \in Seq(Issue)
<1>1. CASE i \in DOMAIN seq
  <2>1. seq[i] \in Issue
    BY <1>1
  <2>2. [seq[i] EXCEPT !.open = FALSE] \in Issue /\ [seq[i] EXCEPT !.told = h] \in Issue
    BY <2>1 DEF Issue
  <2>3. ASSUME NEW n \in Issue PROVE [seq EXCEPT ![i] = n] \in Seq(Issue)
    BY <1>1
  <2> QED
    BY <2>2, <2>3
<1>2. CASE i \notin DOMAIN seq
  <2>1. [seq EXCEPT ![i].open = FALSE] = seq /\ [seq EXCEPT ![i].told = h] = seq
    BY <1>2
  <2> QED
    BY <2>1
<1> QED
  BY <1>1, <1>2

\* A set of numbers has a smallest one.
LEMMA Smallest ==
  ASSUME NEW S \in SUBSET Nat, S # {}
  PROVE  \E i \in S : \A j \in S : i <= j
<1> DEFINE R == OpToRel(<, Nat)
<1>1. IsWellFoundedOn(R, Nat)
  BY NatLessThanWellFounded
<1>2. \A i, j \in Nat : i < j => <<i, j>> \in R
  BY DEF OpToRel
<1> HIDE DEF R
<1>3. PICK i \in S : \A j \in S : ~(<<j, i>> \in R)
  BY <1>1, WFMin
<1>4. \A j \in S : i \in Nat /\ j \in Nat /\ ~(j < i)
  BY <1>2, <1>3
<1>5. \A j \in S : i <= j
  BY <1>4
<1> QED
  BY <1>5

\* The first open notice of a target, if there is one.
LEMMA PriorType ==
  ASSUME NEW seq \in Seq(Notice), NEW target
  PROVE  /\ Prior(seq, target) # 0 =>
               /\ Prior(seq, target) \in DOMAIN seq
               /\ seq[Prior(seq, target)].target = target /\ seq[Prior(seq, target)].open
         /\ Prior(seq, target) = 0 => \A i \in DOMAIN seq : ~(seq[i].target = target /\ seq[i].open)
<1> DEFINE S == {i \in DOMAIN seq : seq[i].target = target /\ seq[i].open}
<1>1. CASE S = {}
  BY <1>1 DEF Prior
<1>2. CASE S # {}
  <2>1. S \subseteq Nat /\ 0 \notin S
    OBVIOUS
  <2>2. \E i \in S : \A j \in S : i <= j
    BY <1>2, <2>1, Smallest
  <2>3. (CHOOSE i \in S : \A j \in S : i <= j) \in S
    BY <2>2
  <2> QED
    BY <1>2, <2>1, <2>3 DEF Prior
<1> QED
  BY <1>1, <1>2

\* The steps of an operation before the candidate is judged.
LEMMA EvaluateType ==
  ASSUME TypeOK, NEW t \in Threads,
         Track(t) \/ Record(t) \/ Evaluate(t) \/ Match(t) \/ Stamp(t) \/ Assess(t) \/ Label(t)
  PROVE  TypeOK'
<1>t. /\ loc[t] \in Local /\ Ready(loc[t]) /\ disk \in Graph /\ loc[t].work \in Works
      /\ pushed \in [Works -> Heads]
  BY DEF TypeOK, Local
<1>p. {"evaluate", "next", "match", "stamp", "assess", "label", "confirm", "reconcile"} \subseteq Plain
  BY DEF Plain, Stages
<1>1. CASE Track(t)
  <2>1. [loc[t] EXCEPT !.fast = FALSE] \in Local
    BY <1>t DEF Local
  <2>2. [disk EXCEPT !.branches = @ \cup {loc[t].work}] \in Graph
    BY <1>t DEF Graph
  <2> QED
    BY <1>1, <1>p, <2>1, <2>2, GoOnType, LetType DEF Track
<1>2. CASE Record(t)
  <2> DEFINE c == IF Known(disk, loc[t].work) THEN disk.cand[loc[t].work] ELSE New
             d == [c EXCEPT !.head = pushed[loc[t].work], !.pending = TRUE, !.quiet = FALSE,
                            !.status = IF @ \in {"STABLE", "CONFIRMED"} THEN "POTENTIAL" ELSE @]
             g == [With(disk, loc[t].work, d) EXCEPT !.branches = @ \cup {loc[t].work}]
  <2>1. c \in Candidate
    BY <1>t, KnownType, Constants
  <2>2. d \in Candidate
    <3>1. pushed[loc[t].work] \in Heads
      BY <1>t
    <3> HIDE DEF c
    <3> QED
      BY <2>1, <3>1 DEF Candidate, Statuses
  <2>3. g \in Graph
    <3> HIDE DEF d
    <3>1. With(disk, loc[t].work, d) \in Graph
      BY <1>t, <2>2, WithType
    <3> QED
      BY <1>t, <3>1 DEF Graph
  <2>4. Let(t, Idle) \/ Let(t, Save(loc[t], g, "evaluate"))
    BY <1>2 DEF Record, Raise
  <2> HIDE DEF g
  <2> QED
    BY <1>2, <1>t, <1>p, <2>3, <2>4, GoOnType, IdleType, LetType DEF Record
<1>3. CASE Evaluate(t)
  <2>1. CASE Let(t, GoOn(loc[t], AfterEvaluation(loc[t], "none")))
    BY <1>3, <1>t, <2>1, AfterTypes, GoOnType, LetType DEF Evaluate
  <2>2. CASE Known(disk, loc[t].work)
             /\ Let(t, [loc[t] EXCEPT !.at = "match", !.head = disk.cand[loc[t].work].head,
                                      !.aged = loc[t].op = "sweep" /\ loc[t].aged])
    <3>1. disk.cand[loc[t].work].head \in Heads
      BY <1>t, <2>2, KnownType DEF Candidate
    <3> DEFINE l == [loc[t] EXCEPT !.at = "match", !.head = disk.cand[loc[t].work].head,
                                   !.aged = loc[t].op = "sweep" /\ loc[t].aged]
    <3>2. l \in Local /\ Ready(l)
      BY <1>t, <3>1 DEF Local, Ready, Stages
    <3> QED
      BY <1>3, <2>2, <3>2, LetType DEF Evaluate
  <2> QED
    BY <1>3, <2>1, <2>2 DEF Evaluate
<1>4. CASE Match(t)
  <2>1. PICK S \in Plausible(loc[t].work) : Let(t, [loc[t] EXCEPT !.at = "stamp", !.found = S])
    BY <1>4 DEF Match
  <2>2. S \in SUBSET Works
    BY <1>t DEF Plausible, Graph
  <2>3. [loc[t] EXCEPT !.at = "stamp", !.found = S] \in Local
        /\ Ready([loc[t] EXCEPT !.at = "stamp", !.found = S])
    BY <1>t, <2>2 DEF Local, Ready, Stages
  <2> QED
    BY <1>4, <2>1, <2>3, LetType DEF Match
<1>5. CASE Stamp(t)
  <2>1. CASE Known(disk, loc[t].work)
    <3> DEFINE c == [disk.cand[loc[t].work] EXCEPT !.pending = FALSE, !.recent = ~loc[t].aged]
    <3>1. disk.cand[loc[t].work] \in Candidate
      BY <1>t, <2>1, KnownType
    <3>2. c \in Candidate
      BY <3>1 DEF Candidate
    <3>3. Let(t, Save(loc[t], With(disk, loc[t].work, c), "assess"))
      BY <1>5, <2>1 DEF Stamp
    <3> HIDE DEF c
    <3> QED
      BY <1>5, <1>t, <1>p, <3>2, <3>3, WithType, GoOnType, LetType DEF Stamp
  <2>2. CASE ~Known(disk, loc[t].work)
    BY <1>5, <1>t, <1>p, <2>2, GoOnType, Constants, LetType DEF Stamp
  <2> QED
    BY <2>1, <2>2
<1>6. CASE Assess(t)
  <2>1. PICK S \in SUBSET loc[t].found, high \in BOOLEAN :
           LET l == [loc[t] EXCEPT !.found = S, !.fast = high] IN
           \/ Let(t, SetStatus(l, "OBSERVED", AfterEvaluation(l, "OBSERVED")))
           \/ Let(t, SetStatus(l, "POTENTIAL", "label"))
    BY <1>6 DEF Assess
  <2>2. [loc[t] EXCEPT !.found = S, !.fast = high] \in Local
    BY <1>t DEF Local
  <2> QED
    BY <1>6, <1>t, <1>p, <2>1, <2>2, SetStatusType, AfterTypes, LetType DEF Assess, Statuses
<1>7. CASE Label(t)
  <2>1. CASE Known(disk, loc[t].work)
    <3> DEFINE c == [disk.cand[loc[t].work] EXCEPT !.targets = loc[t].found]
    <3>1. disk.cand[loc[t].work] \in Candidate /\ loc[t].found \in SUBSET Works
      BY <1>t, <2>1, KnownType DEF Local
    <3>2. c \in Candidate
      BY <3>1 DEF Candidate
    <3>3. Let(t, Save(loc[t], With(disk, loc[t].work, c), AfterEvaluation(loc[t], "POTENTIAL")))
      BY <1>7, <2>1 DEF Label
    <3> HIDE DEF c
    <3> QED
      BY <1>7, <1>t, <3>2, <3>3, WithType, AfterTypes, GoOnType, LetType DEF Label
  <2>2. CASE ~Known(disk, loc[t].work)
    BY <1>7, <2>2, IdleType, LetType DEF Label, Raise
  <2> QED
    BY <2>1, <2>2
<1> QED
  BY <1>1, <1>2, <1>3, <1>4, <1>5, <1>6, <1>7

\* A graph copy in an operation whose notices are replaced.
LEMMA CopyType ==
  ASSUME NEW l \in Local, Known(l.copy, l.work), NEW seq \in Seq(Notice),
         NEW todo \in SUBSET (Works \cup Nat)
  PROVE  /\ [l EXCEPT !.todo = todo, !.copy = Renotify(l.copy, l.work, seq)] \in Local
         /\ Known(Renotify(l.copy, l.work, seq), l.work)
         /\ Notified(Renotify(l.copy, l.work, seq), l.work) = seq
         /\ Renotify(l.copy, l.work, seq) \in Graph
<1>1. l.copy \in Graph /\ l.work \in Works
  BY DEF Local
<1>2. ASSUME NEW g \in Graph, NEW w \in Works, Known(g, w)
      PROVE  /\ Renotify(g, w, seq) \in Graph
             /\ Known(Renotify(g, w, seq), w)
             /\ Notified(Renotify(g, w, seq), w) = seq
  BY <1>2, RenotifyType
<1>3. /\ Renotify(l.copy, l.work, seq) \in Graph
      /\ Known(Renotify(l.copy, l.work, seq), l.work)
      /\ Notified(Renotify(l.copy, l.work, seq), l.work) = seq
  BY <1>1, <1>2
<1> QED
  BY <1>3 DEF Local

\* The retraction of what was notified.
LEMMA RetractType ==
  ASSUME TypeOK, NEW t \in Threads, Reconcile(t) \/ Retract(t) \/ Close(t)
  PROVE  TypeOK'
<1>t. /\ loc[t] \in Local /\ Ready(loc[t]) /\ disk \in Graph /\ loc[t].work \in Works
      /\ issues \in Seq(Issue)
  BY DEF TypeOK, Local
<1>1. CASE Reconcile(t)
  <2>1. "retract" \in Plain
    BY DEF Plain, Stages
  <2> QED
    BY <1>1, <1>t, <2>1, AfterTypes, GoOnType, LetType, Constants DEF Reconcile
<1>2. CASE Retract(t)
  <2>1. CASE Let(t, GoOn(loc[t], AfterReconciliation(loc[t])))
    BY <1>2, <1>t, <2>1, AfterTypes, GoOnType, LetType, Constants DEF Retract
  <2>2. CASE Let(t, [loc[t] EXCEPT !.at = "close", !.copy = disk,
                                   !.todo = Retractable(disk, loc[t].work)])
    <3> DEFINE l == [loc[t] EXCEPT !.at = "close", !.copy = disk,
                                   !.todo = Retractable(disk, loc[t].work)]
    <3>1. Retractable(disk, loc[t].work) \subseteq DOMAIN Notified(disk, loc[t].work)
      BY DEF Retractable
    <3>2. DOMAIN Notified(disk, loc[t].work) \subseteq Nat
      BY <1>t, KnownType
    <3>3. l \in Local
      BY <1>t, <3>1, <3>2 DEF Local, Stages
    <3>4. loc[t].saving = "no"
      BY <1>2 DEF Retract, At
    <3>5. Ready(l)
      BY <1>t, <3>1, <3>4 DEF Ready, Local
    <3> QED
      BY <1>2, <2>2, <3>3, <3>5, LetType DEF Retract
  <2> QED
    BY <1>2, <2>1, <2>2 DEF Retract
<1>3. CASE Close(t)
  <2> DEFINE seq == Notified(loc[t].copy, loc[t].work)
  <2>1. PICK i \in loc[t].todo, answer \in Answers :
           LET l == loc[t]
               n == Notified(l.copy, l.work)[i]
               g == [l.copy EXCEPT !.cand[l.work].notified[i].open = FALSE]
           IN  /\ issues' = IF answer = "failed" THEN issues
                            ELSE [issues EXCEPT ![n.number].open = FALSE]
               /\ Let(t, IF l.todo = {i} THEN Save([l EXCEPT !.todo = {}], g, AfterReconciliation(l))
                         ELSE [l EXCEPT !.todo = @ \ {i}, !.copy = g])
    BY <1>3 DEF Close
  <2>2. /\ loc[t].at = "close" /\ loc[t].saving = "no" /\ i \in DOMAIN seq
        /\ loc[t].todo \subseteq DOMAIN seq
    BY <1>3, <1>t DEF Close, At, Ready
  <2>3. /\ Known(loc[t].copy, loc[t].work) /\ seq = loc[t].copy.cand[loc[t].work].notified
        /\ seq \in Seq(Notice)
    BY <1>t, <2>2, KnownType DEF Notified, Local
  <2>4. [seq EXCEPT ![i].open = FALSE] \in Seq(Notice)
    BY <2>2, <2>3, NoticeType, Constants
  <2> DEFINE g == Renotify(loc[t].copy, loc[t].work, [seq EXCEPT ![i].open = FALSE])
  <2>5. g = [loc[t].copy EXCEPT !.cand[loc[t].work].notified[i].open = FALSE]
    BY <2>3 DEF Renotify
  <2>6. issues' \in Seq(Issue)
    BY <1>t, <2>1, IssueType, Constants
  <2>7. /\ loc[t].todo \ {i} \in SUBSET (Works \cup Nat) /\ {} \in SUBSET (Works \cup Nat)
        /\ DOMAIN [seq EXCEPT ![i].open = FALSE] = DOMAIN seq
    BY <1>t DEF Local
  <2>8. /\ g \in Graph /\ Notified(g, loc[t].work) = [seq EXCEPT ![i].open = FALSE]
        /\ [loc[t] EXCEPT !.todo = loc[t].todo \ {i}, !.copy = g] \in Local
    BY <1>t, <2>3, <2>4, <2>7, CopyType
  <2> HIDE DEF g, seq
  <2>9. Ready([loc[t] EXCEPT !.todo = loc[t].todo \ {i}, !.copy = g])
    BY <1>t, <2>2, <2>7, <2>8 DEF Ready, Local
  <2>10. [loc[t] EXCEPT !.todo = {}] \in Local
    BY <1>t, <2>7 DEF Local
  <2>11. PICK l \in Local : Ready(l) /\ loc' = [loc EXCEPT ![t] = l]
    <3>1. CASE loc[t].todo = {i}
      <4>1. Let(t, Save([loc[t] EXCEPT !.todo = {}], g, AfterReconciliation(loc[t])))
        BY <2>1, <2>5, <3>1
      <4> QED
        BY <2>8, <2>10, <4>1, GoOnType, AfterTypes DEF Let
    <3>2. CASE loc[t].todo # {i}
      BY <2>1, <2>5, <2>8, <2>9, <3>2 DEF Let
    <3> QED
      BY <3>1, <3>2
  <2>12. loc' \in [Threads -> Local] /\ \A u \in Threads : Ready(loc[u])'
    BY <2>11, LocalStep
  <2> QED
    BY <1>3, <2>6, <2>12 DEF Close, TypeOK
<1> QED
  BY <1>1, <1>2, <1>3

\* The confirmation, up to the graph that notifying will save.
LEMMA ConfirmType ==
  ASSUME TypeOK, NEW t \in Threads,
         Confirm(t) \/ Recheck(t) \/ Settle(t) \/ Notify(t) \/ Load(t)
  PROVE  TypeOK'
<1>t. loc[t] \in Local /\ Ready(loc[t]) /\ disk \in Graph /\ loc[t].work \in Works
  BY DEF TypeOK, Local
<1>p. {"next", "recheck", "drop", "mark", "notify"} \subseteq Plain
  BY DEF Plain, Stages
<1>1. CASE Confirm(t)
  BY <1>1, <1>t, <1>p, GoOnType, LetType, Constants DEF Confirm
<1>2. CASE Recheck(t)
  BY <1>2, <1>t, <1>p, GoOnType, LetType, Constants DEF Recheck
<1>3. CASE Settle(t)
  BY <1>3, <1>t, <1>p, SetStatusType, LetType DEF Settle, Statuses
<1>4. CASE Notify(t)
  <2>1. CASE Status(disk, loc[t].work) # "CONFIRMED"
    BY <1>4, <1>t, <1>p, <2>1, GoOnType, LetType, Constants DEF Notify
  <2>2. CASE Status(disk, loc[t].work) = "CONFIRMED"
    <3> DEFINE l == [loc[t] EXCEPT !.at = "load", !.head = disk.cand[loc[t].work].head,
                                   !.todo = disk.cand[loc[t].work].targets]
    <3>1. disk.cand[loc[t].work] \in Candidate
      BY <1>t, <2>2, KnownType DEF Status
    <3>2. loc[t].saving = "no"
      BY <1>4 DEF Notify, At
    <3>3. l \in Local /\ Ready(l)
      BY <1>t, <3>1, <3>2 DEF Local, Ready, Stages, Candidate
    <3>4. Let(t, l)
      BY <1>4, <2>2 DEF Notify
    <3> QED
      BY <1>4, <3>3, <3>4, LetType DEF Notify
  <2> QED
    BY <2>1, <2>2
<1>5. CASE Load(t)
  <2> DEFINE g == IF Known(disk, loc[t].work) THEN disk
                  ELSE With(disk, loc[t].work, [New EXCEPT !.hollow = TRUE])
             l == [loc[t] EXCEPT !.at = "file", !.copy = g]
  <2>1. g \in Graph /\ Known(g, loc[t].work)
    <3>1. CASE Known(disk, loc[t].work)
      BY <1>t, <3>1
    <3>2. CASE ~Known(disk, loc[t].work)
      <4> DEFINE c == [New EXCEPT !.hollow = TRUE]
      <4>0. g = With(disk, loc[t].work, c) /\ c \in Candidate
        BY <3>2, Constants
      <4> HIDE DEF g, c
      <4>1. g \in Graph /\ g.cand = [disk.cand EXCEPT ![loc[t].work] = c]
        BY <1>t, <4>0, WithType
      <4>2. g.cand[loc[t].work] \in Candidate
        BY <1>t, <4>0, <4>1 DEF Graph
      <4> QED
        BY <4>1, <4>2 DEF Known
    <3> QED
      BY <3>1, <3>2
  <2>2. Let(t, l) /\ loc[t].at = "load" /\ loc[t].saving = "no"
    BY <1>5 DEF Load, At
  <2> HIDE DEF g
  <2>3. l \in Local /\ Ready(l)
    BY <1>t, <2>1, <2>2 DEF Local, Ready, Stages
  <2> QED
    BY <1>5, <2>2, <2>3, LetType DEF Load
<1> QED
  BY <1>1, <1>2, <1>3, <1>4, <1>5

\* Telling the next target keeps the types.
LEMMA FileType ==
  ASSUME TypeOK, NEW t \in Threads, File(t)
  PROVE  TypeOK'
<1>t. /\ loc[t] \in Local /\ Ready(loc[t]) /\ loc[t].work \in Works /\ issues \in Seq(Issue)
      /\ loc[t].todo \in SUBSET (Works \cup Nat) /\ loc[t].head \in Heads
  BY DEF TypeOK, Local
<1>1. PICK target \in loc[t].todo :
         FileNothing(t, target) \/ FileComment(t, target) \/ FileIssue(t, target)
  BY DEF File
<1>2. /\ loc[t].at = "file" /\ loc[t].saving = "no" /\ loc[t].todo \subseteq Works
      /\ target \in Works /\ Known(loc[t].copy, loc[t].work)
  BY <1>t, <1>1 DEF File, At, Ready
<1> DEFINE seq  == Notified(loc[t].copy, loc[t].work)
           todo == loc[t].todo \ {target}
<1>3. seq \in Seq(Notice) /\ seq = loc[t].copy.cand[loc[t].work].notified
  BY <1>t, <1>2, KnownType DEF Notified, Local
<1>4. todo \subseteq Works /\ todo \in SUBSET (Works \cup Nat)
  BY <1>2
<1>5. ASSUME NEW new \in Seq(Notice)
      PROVE  /\ [loc[t] EXCEPT !.todo = todo, !.copy = Renotify(loc[t].copy, loc[t].work, new)] \in Local
             /\ Ready([loc[t] EXCEPT !.todo = todo, !.copy = Renotify(loc[t].copy, loc[t].work, new)])
  <2> DEFINE g == Renotify(loc[t].copy, loc[t].work, new)
  <2>1. [loc[t] EXCEPT !.todo = todo, !.copy = g] \in Local /\ Known(g, loc[t].work)
    BY <1>t, <1>2, <1>4, CopyType
  <2> HIDE DEF g, todo
  <2>2. Ready([loc[t] EXCEPT !.todo = todo, !.copy = g])
    BY <1>t, <1>2, <1>4, <2>1 DEF Ready, Local
  <2> QED
    BY <2>1, <2>2 DEF g
<1>6. CASE FileNothing(t, target)
  <2>1. [loc[t] EXCEPT !.todo = todo] \in Local /\ Ready([loc[t] EXCEPT !.todo = todo])
    BY <1>t, <1>2, <1>4 DEF Ready, Local
  <2> QED
    BY <1>6, <2>1, LetType DEF FileNothing, File
<1>7. CASE FileComment(t, target)
  <2> DEFINE i == Prior(seq, target)
             new == [seq EXCEPT ![i].head = loc[t].head]
  <2>1. i \in DOMAIN seq
    BY <1>3, <1>7, PriorType DEF FileComment
  <2>2. new \in Seq(Notice)
    BY <1>t, <1>3, <2>1, NoticeType
  <2>3. [loc[t].copy EXCEPT !.cand[loc[t].work].notified[i].head = loc[t].head]
           = Renotify(loc[t].copy, loc[t].work, new)
    BY <1>3 DEF Renotify
  <2>4. Let(t, [loc[t] EXCEPT !.todo = todo, !.copy = Renotify(loc[t].copy, loc[t].work, new)])
    BY <1>7, <2>3 DEF FileComment
  <2>5. issues' \in Seq(Issue)
    <3>1. \/ issues' = issues
          \/ issues' = [issues EXCEPT ![seq[i].number].told = loc[t].head]
      BY <1>7 DEF FileComment
    <3>2. ASSUME NEW k, NEW h \in Heads
          PROVE  [issues EXCEPT ![k].told = h] \in Seq(Issue)
      BY <1>t, IssueType
    <3> HIDE DEF seq, i
    <3> QED
      BY <1>t, <3>1, <3>2
  <2> HIDE DEF new, seq, todo
  <2>6. loc' \in [Threads -> Local] /\ \A u \in Threads : Ready(loc[u])'
    BY <1>5, <2>2, <2>4, LocalStep DEF Let
  <2> QED
    BY <2>5, <2>6 DEF File, TypeOK
<1>8. CASE FileIssue(t, target)
  <2>1. PICK answer \in Answers :
              /\ issues' = IF answer = "failed" THEN issues
                           ELSE Append(issues, [source |-> loc[t].work, target |-> target,
                                                open |-> TRUE, told |-> loc[t].head])
              /\ Let(t, [loc[t] EXCEPT !.todo = @ \ {target},
                    !.copy.cand[loc[t].work].notified = Append(@,
                       [target |-> target, head |-> loc[t].head, open |-> TRUE,
                        number |-> IF answer = "ok" THEN Len(issues) + 1 ELSE NoUrl])])
    BY <1>8 DEF FileIssue
  <2> DEFINE n == [target |-> target, head |-> loc[t].head, open |-> TRUE,
                   number |-> IF answer = "ok" THEN Len(issues) + 1 ELSE NoUrl]
             new == Append(seq, n)
  <2>2. n \in Notice
    BY <1>t, <1>2 DEF Notice, NoUrl
  <2>3. new \in Seq(Notice)
    BY <1>3, <2>2
  <2>4. Let(t, [loc[t] EXCEPT !.todo = todo, !.copy = Renotify(loc[t].copy, loc[t].work, new)])
    BY <1>3, <2>1 DEF Renotify
  <2>5. issues' \in Seq(Issue)
    <3>1. [source |-> loc[t].work, target |-> target, open |-> TRUE, told |-> loc[t].head] \in Issue
      BY <1>t, <1>2 DEF Issue
    <3> QED
      BY <1>t, <2>1, <3>1
  <2> HIDE DEF new, seq, todo
  <2>6. loc' \in [Threads -> Local] /\ \A u \in Threads : Ready(loc[u])'
    BY <1>5, <2>3, <2>4, LocalStep DEF Let
  <2> QED
    BY <2>5, <2>6 DEF File, TypeOK
<1> QED
  BY <1>1, <1>6, <1>7, <1>8

\* The candidate becomes notified.
LEMMA ConcludeType ==
  ASSUME TypeOK, NEW t \in Threads, Conclude(t)
  PROVE  TypeOK'
<1> DEFINE l == loc[t]
           g == [l.copy EXCEPT !.cand[l.work].status = "NOTIFIED", !.cand[l.work].quiet = FALSE]
<1>t. l \in Local /\ l.work \in Works /\ l.copy \in Graph /\ Known(l.copy, l.work)
  BY DEF TypeOK, Local, Conclude, At, Ready
<1>1. l.copy.cand[l.work] \in Candidate
  BY <1>t, KnownType
<1>2. [l.copy.cand[l.work] EXCEPT !.status = "NOTIFIED", !.quiet = FALSE] \in Candidate
  BY <1>1 DEF Candidate, Statuses
<1>3. g \in Graph
  <2>1. g = [l.copy EXCEPT !.cand[l.work] =
                [l.copy.cand[l.work] EXCEPT !.status = "NOTIFIED", !.quiet = FALSE]]
    BY <1>t, <1>1 DEF Graph
  <2> QED
    BY <1>t, <1>2, <2>1 DEF Graph
<1>4. Let(t, Save(l, g, "next")) /\ "next" \in Plain
  BY DEF Conclude, Plain, Stages
<1> HIDE DEF g
<1> QED
  BY <1>t, <1>3, <1>4, GoOnType, LetType DEF Conclude

\* So does a quiet window.
LEMMA ElapseType ==
  ASSUME TypeOK, Elapse
  PROVE  TypeOK'
<1>1. ASSUME NEW t \in Threads
      PROVE  loc'[t] \in Local /\ Ready(loc'[t])
  <2>t. loc[t] \in Local /\ Ready(loc[t]) /\ loc[t].copy \in Graph /\ loc[t].work \in Works
    BY DEF TypeOK, Local
  <2> DEFINE g == Aged(loc[t].copy)
  <2>1. /\ g \in Graph /\ (Known(g, loc[t].work) <=> Known(loc[t].copy, loc[t].work))
        /\ Notified(g, loc[t].work) = Notified(loc[t].copy, loc[t].work)
    BY <2>t, AgedType
  <2> HIDE DEF g
  <2>2. [loc[t] EXCEPT !.copy = g, !.aged = TRUE] \in Local
    BY <2>t, <2>1 DEF Local
  <2>3. Ready([loc[t] EXCEPT !.copy = g, !.aged = TRUE])
    BY <2>t, <2>1 DEF Ready, Local
  <2>4. loc'[t] = loc[t] \/ loc'[t] = [loc[t] EXCEPT !.copy = g, !.aged = TRUE]
    BY DEF Elapse, g
  <2> QED
    BY <2>t, <2>2, <2>3, <2>4
<1>2. loc' \in [Threads -> Local]
  BY <1>1 DEF Elapse
<1> QED
  BY <1>1, <1>2, AgedType DEF Elapse, TypeOK

\* Each step keeps the types.
LEMMA TypeStep == TypeOK /\ [Next]_vars => TypeOK'
<1> SUFFICES ASSUME TypeOK, [Next]_vars PROVE TypeOK'
  OBVIOUS
<1>1. ASSUME NEW t \in Threads, Step(t) PROVE TypeOK'
  BY <1>1, FrameType, EvaluateType, RetractType, ConfirmType, FileType, ConcludeType DEF Step
<1>2. CASE UNCHANGED vars
  BY <1>2 DEF vars, TypeOK
<1>3. "watch" \in Threads
  BY DEF Threads
<1> QED
  BY <1>1, <1>2, <1>3, FrameType, ElapseType DEF Next

\* The server begins well typed.
LEMMA TypeInit == Init => TypeOK
<1> SUFFICES ASSUME Init PROVE TypeOK
  OBVIOUS
<1>1. disk \in Graph
  BY Constants DEF Init, Graph
<1>2. loc \in [Threads -> Local] /\ \A t \in Threads : Ready(loc[t])
  BY IdleType DEF Init
<1>3. events \in Heads /\ pushed \in [Works -> Heads] /\ issues \in Seq(Issue)
  BY Constants DEF Init
<1> QED
  BY <1>1, <1>2, <1>3 DEF TypeOK

\* The graph file, the local variables of both threads and the issues keep
\* their types, whatever the threads do to each other's files and whatever
\* GitHub answers: no operation works on a notice or a candidate that is not
\* there.
THEOREM TypeCorrect == Spec => []TypeOK
  BY TypeInit, TypeStep, PTL DEF Spec

-----------------------------------------------------------------------------
(***************************************************************************)
(* The threads take turns, and GitHub refuses nothing.  Then one graph     *)
(* counts at any time: the one an operation holds while it notifies,       *)
(* retracts or saves, and the file otherwise.                              *)
(***************************************************************************)
LatestIn(l, d) == IF l.saving # "no" \/ l.at \in {"close", "file"} THEN l.copy ELSE d

\* A target has an open notice of a head.
Told(seq, v, h) == \E i \in DOMAIN seq : seq[i].target = v /\ seq[i].open /\ seq[i].head = h

\* The k-th issue is what a notice of w says.
Stands(iss, w, n, k) ==
    /\ k \in DOMAIN iss /\ iss[k].source = w /\ iss[k].target = n.target
    /\ iss[k].open = n.open /\ iss[k].told = n.head

\* No answer is lost.
Answered == "lost" \notin Faults

\* A notice without a url is left by a lost answer, and its issue, which nobody can
\* name, stays as it was created.
Orphaned(g, iss, w, n) ==
    /\ ~Answered
    /\ \E k \in DOMAIN iss : /\ Stands(iss, w, n, k)
                            /\ \A j \in DOMAIN Notified(g, w) : Notified(g, w)[j].number # k

\* Every notice stands for an issue of its own; and if no answer is lost, every
\* issue has its notice and no target has two open ones.
FaithfulTo(g, iss) ==
    /\ \A w \in Works : \A i \in DOMAIN Notified(g, w) :
          \/ Stands(iss, w, Notified(g, w)[i], Notified(g, w)[i].number)
          \/ Notified(g, w)[i].number = NoUrl /\ Orphaned(g, iss, w, Notified(g, w)[i])
    /\ \A w \in Works : \A i, j \in DOMAIN Notified(g, w) :
          \/ /\ Notified(g, w)[i].number = Notified(g, w)[j].number
             /\ Notified(g, w)[i].number # NoUrl
          \/ /\ Answered
             /\ Notified(g, w)[i].target = Notified(g, w)[j].target
             /\ Notified(g, w)[i].open /\ Notified(g, w)[j].open
          => i = j
    /\ Answered =>
          \A k \in DOMAIN iss : \E i \in DOMAIN Notified(g, iss[k].source) :
             Notified(g, iss[k].source)[i].number = k

\* A notified candidate with nothing to evaluate has told all its targets.
Fresh(c) == c.status = "NOTIFIED" /\ ~c.pending => \A v \in c.targets : Told(c.notified, v, c.head)

FreshIn(g, w) == Known(g, w) => Fresh(g.cand[w])

\* What an operation at its stage relies on, in the graph that counts.
AccountOf(g, l, iss) ==
    /\ FaithfulTo(g, iss)
    /\ \A w \in Works : (l.at = "assess" /\ w = l.work) \/ FreshIn(g, w)
    /\ l.at \in {"retract", "close"} => Status(g, l.work) = "OBSERVED"
    /\ l.at = "close" => \A i \in l.todo : Notified(g, l.work)[i].number # NoUrl
    /\ l.at = "label" => Status(g, l.work) # "NOTIFIED"
    /\ l.at \in {"load", "file"} =>
          /\ Status(g, l.work) = "CONFIRMED"
          /\ l.head = g.cand[l.work].head
          /\ \A v \in g.cand[l.work].targets \ l.todo : Told(g.cand[l.work].notified, v, l.head)

Account(t) == AccountOf(LatestIn(loc[t], disk), loc[t], issues)

\* The other thread does nothing.
Sole(t) == \A u \in Threads \ {t} : loc[u].at = "idle"

IInv ==
    /\ TypeOK
    /\ \E t \in Threads : Sole(t)
    /\ \A t \in Threads : Sole(t) => Account(t)

\* A graph that is as good as any between two operations.
Calm(g, iss) == FaithfulTo(g, iss) /\ \A w \in Works : FreshIn(g, w)

\* Faithfulness is about the notices only.
LEMMA SameNotices ==
  ASSUME NEW g, NEW h, NEW iss, FaithfulTo(g, iss),
         \A w \in Works : Notified(h, w) = Notified(g, w),
         \A k \in DOMAIN iss : iss[k].source \in Works
  PROVE  FaithfulTo(h, iss)
<1>1. \A w \in Works : \A n : Orphaned(g, iss, w, n) <=> Orphaned(h, iss, w, n)
  BY DEF Orphaned
<1> QED
  BY <1>1 DEF FaithfulTo

\* An issue is about works.
LEMMA IssueSources ==
  ASSUME NEW iss \in Seq(Issue), NEW k \in DOMAIN iss
  PROVE  iss[k].source \in Works /\ iss[k].target \in Works
<1>1. iss[k] \in Issue
  OBVIOUS
<1> QED
  BY <1>1 DEF Issue

\* At most stages an operation needs nothing but a calm graph.
LEMMA CalmAccount ==
  ASSUME NEW g, NEW l, NEW iss, Calm(g, iss),
         l.at \notin {"retract", "close", "label", "load", "file"}
  PROVE  AccountOf(g, l, iss)
  BY DEF Calm, AccountOf

LEMMA AccountCalm ==
  ASSUME NEW g, NEW l, NEW iss, AccountOf(g, l, iss), l.at # "assess"
  PROVE  Calm(g, iss)
  BY DEF Calm, AccountOf

\* The graph that counts after a step that goes on or that saves.
LEMMA LatestAfter ==
  ASSUME NEW l \in Local, NEW g \in Graph, NEW s \in Plain, NEW d, l.saving = "no"
  PROVE  /\ GoOn(l, s).at = s /\ GoOn(l, s).work = l.work /\ LatestIn(GoOn(l, s), d) = d
         /\ Save(l, g, s).at = s /\ Save(l, g, s).work = l.work /\ LatestIn(Save(l, g, s), d) = g
<1>1. GoOn(l, s).at = s /\ GoOn(l, s).work = l.work /\ GoOn(l, s).saving = "no"
  BY DEF GoOn, Local
<1>2. /\ Save(l, g, s).at = s /\ Save(l, g, s).work = l.work
      /\ Save(l, g, s).saving = "open" /\ Save(l, g, s).copy = g
  BY DEF Save, Local
<1> QED
  BY <1>1, <1>2 DEF LatestIn, Plain

\* Filing a candidate with the same notices leaves the others alone.
LEMMA WithNotices ==
  ASSUME NEW g \in Graph, NEW w \in Works, NEW c \in Candidate, c.notified = Notified(g, w)
  PROVE  /\ With(g, w, c) \in Graph
         /\ \A v \in Works : Notified(With(g, w, c), v) = Notified(g, v)
         /\ With(g, w, c).cand[w] = c /\ Known(With(g, w, c), w)
         /\ Status(With(g, w, c), w) = c.status
         /\ \A v \in Works \ {w} : FreshIn(With(g, w, c), v) <=> FreshIn(g, v)
<1>0. With(g, w, c) \in Graph /\ With(g, w, c).cand = [g.cand EXCEPT ![w] = c]
  BY WithType
<1>1. \A v \in Works : With(g, w, c).cand[v] = IF v = w THEN c ELSE g.cand[v]
  BY <1>0 DEF Graph
<1>2. c # NoCandidate
  OBVIOUS
<1> QED
  BY <1>0, <1>1, <1>2 DEF Notified, Known, Status, FreshIn

\* It keeps faith, and a candidate that is not notified is fresh anyway.
LEMMA WithCalm ==
  ASSUME NEW g \in Graph, NEW w \in Works, NEW c \in Candidate, c.notified = Notified(g, w),
         NEW iss \in Seq(Issue), FaithfulTo(g, iss),
         \A v \in Works \ {w} : FreshIn(g, v),
         c.status # "NOTIFIED" \/ c.pending
  PROVE  Calm(With(g, w, c), iss)
<1>1. \A k \in DOMAIN iss : iss[k].source \in Works
  BY IssueSources
<1>2. FaithfulTo(With(g, w, c), iss)
  BY <1>1, WithNotices, SameNotices
<1>3. FreshIn(With(g, w, c), w)
  BY WithNotices DEF FreshIn, Fresh
<1> QED
  BY <1>2, <1>3, WithNotices DEF Calm

\* A quiet window changes nothing that counts.
LEMMA AgedAccount ==
  ASSUME NEW g \in Graph, NEW l \in Local, NEW iss \in Seq(Issue), AccountOf(g, l, iss)
  PROVE  AccountOf(Aged(g), l, iss)
<1>1. \A k \in DOMAIN iss : iss[k].source \in Works
  BY IssueSources
<1>2. FaithfulTo(Aged(g), iss)
  BY <1>1, AgedType, SameNotices DEF AccountOf
<1>3. ASSUME NEW w \in Works, Known(g, w)
      PROVE  /\ Known(Aged(g), w)
             /\ Aged(g).cand[w].status = g.cand[w].status
             /\ Aged(g).cand[w].head = g.cand[w].head
             /\ Aged(g).cand[w].pending = g.cand[w].pending
             /\ Aged(g).cand[w].targets = g.cand[w].targets
             /\ Aged(g).cand[w].notified = g.cand[w].notified
  <2>1. g.cand[w] \in Candidate
    BY <1>3, KnownType
  <2>2. Aged(g).cand[w] = [g.cand[w] EXCEPT !.quiet = TRUE, !.recent = FALSE]
    BY <1>3 DEF Aged, Graph
  <2>3. Known(Aged(g), w)
    BY <1>3, AgedType
  <2> QED
    BY <2>1, <2>2, <2>3 DEF Candidate
<1>4. \A w \in Works : Known(Aged(g), w) <=> Known(g, w)
  BY AgedType
<1>5. \A w \in Works : FreshIn(g, w) => FreshIn(Aged(g), w)
  BY <1>3, <1>4 DEF FreshIn, Fresh
<1>6. \A w \in Works : Status(Aged(g), w) = Status(g, w)
  BY <1>3, <1>4 DEF Status
<1>7. l.work \in Works
  BY DEF Local
<1>8. Status(g, l.work) = "CONFIRMED" => Known(g, l.work)
  BY DEF Status
<1>9. Notified(Aged(g), l.work) = Notified(g, l.work)
  BY <1>3, <1>4, <1>7 DEF Notified
<1> QED
  BY <1>2, <1>3, <1>5, <1>6, <1>7, <1>8, <1>9 DEF AccountOf

-----------------------------------------------------------------------------
\* The thread whose operation goes on is the only one that is in one.
LEMMA Turn ==
  ASSUME IInv, NEW t \in Threads, loc[t].at # "idle"
  PROVE  Sole(t) /\ Account(t)
  BY DEF IInv, Sole

\* Who may begin an operation is alone.
LEMMA FreeTurn ==
  ASSUME IInv, ~Overlap, NEW t \in Threads, Free(t)
  PROVE  Sole(t) /\ Account(t) /\ loc[t].at = "idle" /\ loc[t].saving = "no"
  BY DEF IInv, Sole, Free, At

\* It is enough to give an account of the thread that made the step.
LEMMA StepAccount ==
  ASSUME TypeOK, TypeOK', NEW t \in Threads, Sole(t), NEW l \in Local, Ready(l),
         loc' = [loc EXCEPT ![t] = l],
         AccountOf(LatestIn(l, disk'), l, issues')
  PROVE  IInv'
<1>1. \A u \in Threads : loc'[u] = IF u = t THEN l ELSE loc[u]
  BY DEF TypeOK
<1>2. Sole(t)'
  BY <1>1 DEF Sole
<1>3. Account(t)'
  BY <1>1 DEF Account
<1>4. ASSUME NEW u \in Threads, Sole(u)', u # t
      PROVE  Account(u)'
  <2>1. l.at = "idle" /\ loc'[u] = loc[u] /\ loc[u].at = "idle" /\ loc[u].saving = "no"
    BY <1>1, <1>4 DEF Sole, TypeOK, Ready
  <2>2. LatestIn(l, disk') = disk' /\ LatestIn(loc[u], disk') = disk'
    BY <2>1 DEF LatestIn, Ready
  <2>3. Calm(disk', issues')
    BY <2>1, <2>2, AccountCalm
  <2>4. AccountOf(disk', loc[u], issues')
    BY <2>1, <2>3, CalmAccount
  <2> QED
    BY <2>1, <2>2, <2>4 DEF Account
<1> QED
  BY <1>2, <1>3, <1>4 DEF IInv

\* Between saves, and outside the calls to GitHub, it is the file that counts.
LEMMA CalmDisk ==
  ASSUME IInv, NEW t \in Threads, Sole(t), loc[t].saving = "no",
         loc[t].at \notin {"assess", "close", "file"}
  PROVE  /\ AccountOf(disk, loc[t], issues) /\ Calm(disk, issues)
<1>1. Account(t) /\ LatestIn(loc[t], disk) = disk
  BY DEF IInv, LatestIn
<1> QED
  BY <1>1, AccountCalm DEF Account

\* A step that leaves the graph that counts as it is, and the stage.
LEMMA SameAccount ==
  ASSUME NEW g, NEW l, NEW m, NEW iss, AccountOf(g, l, iss),
         m.at = l.at, m.work = l.work, m.head = l.head, m.todo = l.todo
  PROVE  AccountOf(g, m, iss)
  BY DEF AccountOf

\* A step that moves an operation on from a calm file to a stage that asks for nothing more.
LEMMA CalmStep ==
  ASSUME TypeOK, TypeOK', NEW t \in Threads, Sole(t), NEW l \in Local, Ready(l), Let(t, l),
         Calm(disk, issues), UNCHANGED <<disk, issues>>, l.saving = "no",
         l.at \notin {"retract", "close", "label", "load", "file"}
  PROVE  IInv'
<1>1. LatestIn(l, disk') = disk /\ disk' = disk /\ issues' = issues
  BY DEF LatestIn
<1>2. AccountOf(LatestIn(l, disk'), l, issues')
  BY <1>1, CalmAccount
<1> QED
  BY <1>2, StepAccount DEF Let

\* The same for a step that goes on, and one that saves a calm graph.
LEMMA CalmGoOn ==
  ASSUME TypeOK, TypeOK', NEW t \in Threads, Sole(t), NEW l \in Local, l.saving = "no",
         NEW s \in Plain \ {"retract", "label"}, NEW g \in Graph,
         \/ Let(t, GoOn(l, s)) /\ Calm(disk, issues)
         \/ Let(t, Save(l, g, s)) /\ Calm(g, issues),
         UNCHANGED <<disk, issues>>
  PROVE  IInv'
<1>1. /\ GoOn(l, s) \in Local /\ Ready(GoOn(l, s))
      /\ Save(l, g, s) \in Local /\ Ready(Save(l, g, s))
  BY GoOnType
<1>2. /\ GoOn(l, s).at = s /\ LatestIn(GoOn(l, s), disk) = disk
      /\ Save(l, g, s).at = s /\ LatestIn(Save(l, g, s), disk) = g
  BY LatestAfter
<1>3. s \notin {"retract", "close", "label", "load", "file"}
  BY DEF Plain
<1>4. CASE Let(t, GoOn(l, s)) /\ Calm(disk, issues)
  <2>1. AccountOf(disk, GoOn(l, s), issues)
    BY <1>2, <1>3, <1>4, CalmAccount
  <2> QED
    BY <1>1, <1>2, <1>4, <2>1, StepAccount DEF Let
<1>5. CASE Let(t, Save(l, g, s)) /\ Calm(g, issues)
  <2>1. AccountOf(g, Save(l, g, s), issues)
    BY <1>2, <1>3, <1>5, CalmAccount
  <2> QED
    BY <1>1, <1>2, <1>5, <2>1, StepAccount DEF Let
<1> QED
  BY <1>4, <1>5

\* The steps of save_graph.
LEMMA SaveKeeps ==
  ASSUME IInv, TypeOK', NEW t \in Threads, Truncate(t) \/ Write(t)
  PROVE  IInv'
<1>t. TypeOK /\ loc[t] \in Local /\ Ready(loc[t]) /\ loc[t].saving # "no"
  BY DEF IInv, TypeOK, Truncate, Write
<1>1. loc[t].at \notin {"idle", "close", "file"} /\ LatestIn(loc[t], disk) = loc[t].copy
  BY <1>t DEF Ready, LatestIn
<1>2. Sole(t) /\ AccountOf(loc[t].copy, loc[t], issues)
  BY <1>1, Turn DEF Account
<1>3. CASE Truncate(t)
  <2> DEFINE l == [loc[t] EXCEPT !.saving = "truncated"]
  <2>1. /\ l \in Local /\ l.at = loc[t].at /\ l.work = loc[t].work /\ l.head = loc[t].head
        /\ l.todo = loc[t].todo /\ l.copy = loc[t].copy /\ l.saving = "truncated"
    BY <1>t DEF Local
  <2>2. Ready(l)
    BY <1>t, <1>3, <2>1 DEF Ready, Truncate
  <2>3. loc' = [loc EXCEPT ![t] = l] /\ issues' = issues
    BY <1>3 DEF Truncate
  <2> HIDE DEF l
  <2>4. AccountOf(LatestIn(l, disk'), l, issues')
    BY <1>2, <2>1, <2>3, SameAccount DEF LatestIn
  <2> QED
    BY <1>t, <1>2, <2>1, <2>2, <2>3, <2>4, StepAccount
<1>4. CASE Write(t)
  <2> DEFINE l == [loc[t] EXCEPT !.saving = "no", !.copy = Empty]
  <2>1. /\ l \in Local /\ l.at = loc[t].at /\ l.work = loc[t].work /\ l.head = loc[t].head
        /\ l.todo = loc[t].todo /\ l.saving = "no"
    BY <1>t, Constants DEF Local
  <2>2. Ready(l)
    BY <1>t, <1>1, <2>1 DEF Ready
  <2>3. loc' = [loc EXCEPT ![t] = l] /\ issues' = issues /\ disk' = loc[t].copy
    BY <1>4 DEF Write, IInv, TypeOK
  <2> HIDE DEF l
  <2>4. AccountOf(LatestIn(l, disk'), l, issues')
    BY <1>1, <1>2, <2>1, <2>3, SameAccount DEF LatestIn
  <2> QED
    BY <1>t, <1>2, <2>1, <2>2, <2>3, <2>4, StepAccount
<1> QED
  BY <1>3, <1>4

\* A graph with other branches is as good, and the stage after an evaluation
\* or a reconciliation asks for nothing more.
LEMMA SameCandidates ==
  ASSUME NEW g, NEW h, NEW iss, Calm(g, iss), h.cand = g.cand
  PROVE  Calm(h, iss)
<1>1. \A w : Notified(h, w) = Notified(g, w) /\ (FreshIn(h, w) <=> FreshIn(g, w))
  BY DEF Notified, Known, FreshIn
<1>2. \A w, n : Orphaned(h, iss, w, n) <=> Orphaned(g, iss, w, n)
  BY <1>1 DEF Orphaned
<1> QED
  BY <1>1, <1>2 DEF Calm, FaithfulTo

LEMMA AfterCalm ==
  ASSUME NEW l, NEW result
  PROVE  /\ AfterEvaluation(l, result) \in Plain \ {"retract", "label"}
         /\ AfterReconciliation(l) \in Plain \ {"retract", "label"}
  BY DEF AfterEvaluation, AfterReconciliation, Plain, Stages

\* The beginning and the end of an operation.
LEMMA TurnKeeps ==
  ASSUME IInv, TypeOK', ~Overlap, NEW t \in Threads,
         \/ Proceed(t)
         \/ \E w \in Works : StartPush(w) \/ \E opens \in BOOLEAN : StartPr(w, opens)
  PROVE  IInv'
<1>t. TypeOK /\ loc[t] \in Local
  BY DEF IInv, TypeOK
<1>1. CASE Proceed(t)
  <2>1. loc[t].at = "next" /\ loc[t].saving = "no" /\ Sole(t) /\ Calm(disk, issues)
    BY <1>1, Turn, CalmDisk DEF Proceed, At
  <2>2. CASE Let(t, Idle)
    <3>1. Idle.at = "idle" /\ Idle.saving = "no"
      BY DEF Idle
    <3> QED
      BY <1>t, <1>1, <2>1, <2>2, <3>1, IdleType, CalmStep DEF Proceed
  <2>3. ASSUME NEW w \in loc[t].rest,
               Let(t, [Idle EXCEPT !.at = "evaluate", !.op = "sweep", !.work = w,
                                   !.rest = loc[t].rest \ {w}, !.aged = loc[t].aged])
        PROVE  IInv'
    <3> DEFINE l == [Idle EXCEPT !.at = "evaluate", !.op = "sweep", !.work = w,
                                 !.rest = loc[t].rest \ {w}, !.aged = loc[t].aged]
    <3>1. w \in Works /\ loc[t].rest \ {w} \in SUBSET Works /\ loc[t].aged \in BOOLEAN
      BY <1>t DEF Local
    <3>2. l \in Local /\ Ready(l) /\ l.at = "evaluate"
      BY <3>1, IdleType DEF Local, Ready, Stages
    <3>3. l.saving = "no"
      BY DEF Idle
    <3>4. Let(t, l)
      BY <2>3
    <3> HIDE DEF l
    <3> QED
      BY <1>t, <1>1, <2>1, <3>2, <3>3, <3>4, CalmStep DEF Proceed
  <2> QED
    BY <1>1, <2>2, <2>3 DEF Proceed
<1>w. "webhook" \in Threads
  BY DEF Threads
<1>2. ASSUME NEW w \in Works, StartPush(w)
      PROVE  IInv'
  <2> DEFINE l == [Idle EXCEPT !.at = "record", !.op = "push", !.work = w,
                               !.prior = Status(disk, w) = "NOTIFIED"]
  <2>1. Sole("webhook") /\ Calm(disk, issues)
    BY <1>2, <1>w, FreeTurn, CalmDisk DEF StartPush
  <2>2. l \in Local /\ Ready(l) /\ l.at = "record" /\ l.saving = "no"
    <3>1. (Status(disk, w) = "NOTIFIED") \in BOOLEAN
      OBVIOUS
    <3>2. l \in Local /\ Ready(l) /\ l.at = "record"
      BY <3>1, IdleType DEF Local, Ready, Stages
    <3> QED
      BY <3>2 DEF Idle
  <2>3. Let("webhook", l) /\ UNCHANGED <<disk, issues>>
    BY <1>2 DEF StartPush
  <2> HIDE DEF l
  <2> QED
    BY <1>t, <1>w, <2>1, <2>2, <2>3, CalmStep
<1>3. ASSUME NEW w \in Works, NEW opens \in BOOLEAN, StartPr(w, opens)
      PROVE  IInv'
  <2> DEFINE l == [Idle EXCEPT !.at = "track", !.op = "pr", !.work = w, !.fast = opens]
  <2>1. Sole("webhook") /\ Calm(disk, issues)
    BY <1>3, <1>w, FreeTurn, CalmDisk DEF StartPr
  <2>2. l \in Local /\ Ready(l) /\ l.at = "track" /\ l.saving = "no"
    <3>1. l \in Local /\ Ready(l) /\ l.at = "track"
      BY IdleType DEF Local, Ready, Stages
    <3> QED
      BY <3>1 DEF Idle
  <2>3. Let("webhook", l) /\ UNCHANGED <<disk, issues>>
    BY <1>3 DEF StartPr
  <2> HIDE DEF l
  <2> QED
    BY <1>t, <1>w, <2>1, <2>2, <2>3, CalmStep
<1> QED
  BY <1>1, <1>2, <1>3

\* A sweep moves candidates that were possible, so none that was notified.
LEMMA SweepKeeps ==
  ASSUME IInv, TypeOK', ~Overlap, StartSweep
  PROVE  IInv'
<1> DEFINE moved == {w \in Works : Status(disk, w) = "POTENTIAL" /\ disk.cand[w].quiet}
           g == [disk EXCEPT !.cand = [w \in Works |->
                    IF w \in moved THEN [disk.cand[w] EXCEPT !.status = "STABLE", !.quiet = FALSE]
                    ELSE disk.cand[w]]]
<1>t. TypeOK /\ disk \in Graph /\ issues \in Seq(Issue)
  BY DEF IInv, TypeOK
<1>w. "watch" \in Threads
  BY DEF Threads
<1>1. PICK rest \in SUBSET moved :
         Let("watch", Save([Idle EXCEPT !.op = "sweep", !.rest = rest], g, "next"))
  BY DEF StartSweep
<1>2. Sole("watch") /\ Calm(disk, issues)
  BY <1>w, FreeTurn, CalmDisk DEF StartSweep
<1>3. ASSUME NEW w \in moved
      PROVE  /\ Known(disk, w) /\ disk.cand[w] \in Candidate
             /\ [disk.cand[w] EXCEPT !.status = "STABLE", !.quiet = FALSE] \in Candidate
             /\ [disk.cand[w] EXCEPT !.status = "STABLE", !.quiet = FALSE].status = "STABLE"
             /\ [disk.cand[w] EXCEPT !.status = "STABLE", !.quiet = FALSE].notified
                   = disk.cand[w].notified
  <2>1. Known(disk, w) /\ disk.cand[w] \in Candidate
    BY <1>t, KnownType DEF Status
  <2> QED
    BY <2>1 DEF Candidate, Statuses
<1>4. g \in Graph
  BY <1>t, <1>3 DEF Graph
<1>5. \A w \in Works : g.cand[w] = IF w \in moved
                         THEN [disk.cand[w] EXCEPT !.status = "STABLE", !.quiet = FALSE]
                         ELSE disk.cand[w]
  BY <1>t DEF Graph
<1> HIDE DEF g
<1>6. ASSUME NEW w \in Works
      PROVE  Notified(g, w) = Notified(disk, w) /\ FreshIn(g, w)
  <2>1. CASE w \in moved
    <3>1. g.cand[w] \in Candidate /\ g.cand[w].status = "STABLE"
          /\ g.cand[w].notified = disk.cand[w].notified
      BY <1>3, <1>5, <2>1
    <3>2. Known(g, w) /\ Known(disk, w)
      BY <1>3, <2>1, <3>1 DEF Known
    <3> QED
      BY <3>1, <3>2 DEF Notified, FreshIn, Fresh
  <2>2. CASE w \notin moved
    <3>1. g.cand[w] = disk.cand[w]
      BY <1>5, <2>2
    <3> QED
      BY <1>2, <3>1 DEF Notified, FreshIn, Known, Calm
  <2> QED
    BY <2>1, <2>2
<1>7. Calm(g, issues)
  BY <1>t, <1>2, <1>6, SameNotices, IssueSources DEF Calm
<1>8. [Idle EXCEPT !.op = "sweep", !.rest = rest] \in Local
  BY IdleType DEF Local
<1>9. [Idle EXCEPT !.op = "sweep", !.rest = rest].saving = "no"
  BY DEF Idle
<1>10. "next" \in Plain \ {"retract", "label"}
  BY DEF Plain, Stages
<1>11. UNCHANGED <<disk, issues>>
  BY DEF StartSweep
<1> HIDE DEF moved
<1> QED
  BY <1>t, <1>w, <1>1, <1>2, <1>4, <1>7, <1>8, <1>9, <1>10, <1>11, CalmGoOn

\* Setting any status but NOTIFIED leaves the graph calm, even if what was
\* notified is not what was last assessed.
LEMMA StatusCalm ==
  ASSUME disk \in Graph, issues \in Seq(Issue), NEW l \in Local,
         NEW s \in Statuses \ {"NOTIFIED"}, NEW next \in Plain,
         FaithfulTo(disk, issues), \A w \in Works \ {l.work} : FreshIn(disk, w)
  PROVE  \E g \in Graph : /\ Calm(g, issues) /\ (Known(disk, l.work) => Status(g, l.work) = s)
                          /\ (~Known(disk, l.work) => g = disk)
                          /\ \/ SetStatus(l, s, next) = Save(l, g, next)
                             \/ g = disk /\ SetStatus(l, s, next) = GoOn(l, next)
<1>w. l.work \in Works
  BY DEF Local
<1>1. CASE Known(disk, l.work)
  <2> DEFINE c == [disk.cand[l.work] EXCEPT !.status = s, !.quiet = FALSE]
             g == With(disk, l.work, c)
  <2>1. disk.cand[l.work] \in Candidate
    BY <1>w, <1>1, KnownType
  <2>2. c \in Candidate /\ c.status = s /\ c.notified = disk.cand[l.work].notified
    BY <2>1 DEF Candidate
  <2>3. c.notified = Notified(disk, l.work)
    BY <1>1, <2>2 DEF Notified
  <2>4. SetStatus(l, s, next) = Save(l, g, next)
    BY <1>1 DEF SetStatus
  <2> HIDE DEF c
  <2>5. g \in Graph /\ Calm(g, issues) /\ Status(g, l.work) = s
    BY <1>w, <2>2, <2>3, WithCalm, WithNotices
  <2> HIDE DEF g
  <2> QED
    BY <1>1, <2>4, <2>5
<1>2. CASE ~Known(disk, l.work)
  <2>1. Calm(disk, issues)
    BY <1>w, <1>2 DEF Calm, FreshIn
  <2> QED
    BY <1>2, <2>1 DEF SetStatus
<1> QED
  BY <1>1, <1>2

\* An operation before its candidate is evaluated.
LEMMA RecordKeeps ==
  ASSUME IInv, TypeOK', NEW t \in Threads, Track(t) \/ Record(t)
  PROVE  IInv'
<1> DEFINE l == loc[t]
<1>t. /\ TypeOK /\ l \in Local /\ l.work \in Works /\ disk \in Graph /\ issues \in Seq(Issue)
      /\ pushed[l.work] \in Heads
  BY DEF IInv, TypeOK, Local
<1>s. Sole(t) /\ Calm(disk, issues) /\ l.saving = "no" /\ UNCHANGED <<disk, issues>>
  BY Turn, CalmDisk DEF Track, Record, At
<1>1. CASE Track(t)
  <2> DEFINE g == [disk EXCEPT !.branches = @ \cup {l.work}]
  <2>1. g \in Graph /\ g.cand = disk.cand
    BY <1>t DEF Graph
  <2>2. PICK s \in {"evaluate", "next"} : Let(t, Save([l EXCEPT !.fast = FALSE], g, s))
    BY <1>1 DEF Track
  <2> HIDE DEF g
  <2>3. Calm(g, issues)
    BY <1>s, <2>1, SameCandidates
  <2>4. [l EXCEPT !.fast = FALSE] \in Local /\ [l EXCEPT !.fast = FALSE].saving = "no"
    BY <1>t, <1>s DEF Local
  <2>5. s \in Plain \ {"retract", "label"}
    BY DEF Plain, Stages
  <2> QED
    BY <1>t, <1>s, <2>1, <2>2, <2>3, <2>4, <2>5, CalmGoOn
<1>2. CASE Record(t)
  <2>1. CASE Let(t, Idle)
    <3>1. Idle.at = "idle" /\ Idle.saving = "no"
      BY DEF Idle
    <3> QED
      BY <1>t, <1>s, <2>1, <3>1, IdleType, CalmStep
  <2>2. CASE ~Let(t, Idle)
    <3> DEFINE c == IF Known(disk, l.work) THEN disk.cand[l.work] ELSE New
               d == [c EXCEPT !.head = pushed[l.work], !.pending = TRUE, !.quiet = FALSE,
                              !.status = IF @ \in {"STABLE", "CONFIRMED"} THEN "POTENTIAL" ELSE @]
               h == With(disk, l.work, d)
               g == [h EXCEPT !.branches = @ \cup {l.work}]
    <3>1. Let(t, Save(l, g, "evaluate"))
      BY <1>2, <2>2 DEF Record, Raise
    <3>2. c \in Candidate /\ c.notified = Notified(disk, l.work)
      <4>1. New \in Candidate /\ New.notified = <<>>
        BY Constants DEF New
      <4>2. Known(disk, l.work) => disk.cand[l.work] \in Candidate
        BY <1>t, KnownType
      <4> QED
        BY <4>1, <4>2 DEF Notified
    <3> HIDE DEF c
    <3>3. d \in Candidate /\ d.notified = Notified(disk, l.work) /\ d.pending
      BY <1>t, <3>2 DEF Candidate, Statuses
    <3> HIDE DEF d
    <3>4. h \in Graph /\ Calm(h, issues)
      BY <1>t, <1>s, <3>3, WithCalm, WithNotices DEF Calm
    <3> HIDE DEF h
    <3>5. g \in Graph /\ g.cand = h.cand
      BY <1>t, <3>4 DEF Graph
    <3> HIDE DEF g
    <3>6. Calm(g, issues)
      BY <3>4, <3>5, SameCandidates
    <3>7. "evaluate" \in Plain \ {"retract", "label"}
      BY DEF Plain, Stages
    <3> HIDE DEF l
    <3> QED
      BY <1>t, <1>s, <3>1, <3>5, <3>6, <3>7, CalmGoOn
  <2> QED
    BY <2>1, <2>2
<1> QED
  BY <1>1, <1>2

\* The evaluation, up to the verdicts.
LEMMA EvaluateKeeps ==
  ASSUME IInv, TypeOK', NEW t \in Threads, Evaluate(t) \/ Match(t)
  PROVE  IInv'
<1> DEFINE l == loc[t]
<1>t. /\ TypeOK /\ l \in Local /\ Ready(l) /\ l.work \in Works /\ disk \in Graph
      /\ issues \in Seq(Issue)
  BY DEF IInv, TypeOK, Local
<1>s. Sole(t) /\ Calm(disk, issues) /\ l.saving = "no" /\ UNCHANGED <<disk, issues>>
  BY Turn, CalmDisk DEF Evaluate, Match, At
<1>1. CASE Evaluate(t)
  <2>1. CASE Let(t, GoOn(l, AfterEvaluation(l, "none")))
    BY <1>t, <1>s, <2>1, AfterCalm, CalmGoOn
  <2>2. CASE Known(disk, l.work) /\ Let(t, [l EXCEPT !.at = "match", !.head = disk.cand[l.work].head,
                                                     !.aged = l.op = "sweep" /\ l.aged])
    <3> DEFINE m == [l EXCEPT !.at = "match", !.head = disk.cand[l.work].head,
                              !.aged = l.op = "sweep" /\ l.aged]
    <3>1. disk.cand[l.work].head \in Heads /\ (l.op = "sweep" /\ l.aged) \in BOOLEAN
      BY <1>t, <2>2, KnownType DEF Candidate
    <3>2. m \in Local /\ m.at = "match" /\ m.saving = "no"
      BY <1>t, <1>s, <3>1 DEF Local, Stages
    <3>3. Ready(m)
      BY <3>2 DEF Ready
    <3> HIDE DEF m
    <3>4. m.at \notin {"retract", "close", "label", "load", "file"}
      BY <3>2
    <3>5. Let(t, m)
      BY <2>2 DEF m
    <3> QED
      BY <1>t, <1>s, <3>2, <3>3, <3>4, <3>5, CalmStep
  <2> QED
    BY <1>1, <2>1, <2>2 DEF Evaluate
<1>2. CASE Match(t)
  <2>1. PICK S \in Plausible(l.work) : Let(t, [l EXCEPT !.at = "stamp", !.found = S])
    BY <1>2 DEF Match
  <2> DEFINE m == [l EXCEPT !.at = "stamp", !.found = S]
  <2>2. S \in SUBSET Works
    BY <1>t DEF Plausible, Graph
  <2>3. m \in Local /\ m.at = "stamp" /\ m.saving = "no"
    BY <1>t, <1>s, <2>2 DEF Local, Stages
  <2>4. Ready(m)
    BY <2>3 DEF Ready
  <2>5. Let(t, m)
    BY <2>1
  <2> HIDE DEF m
  <2> QED
    BY <1>t, <1>s, <2>3, <2>4, <2>5, CalmStep
<1> QED
  BY <1>1, <1>2

\* While the verdicts are out the candidate may be stamped and not yet judged.
LEMMA StampKeeps ==
  ASSUME IInv, TypeOK', NEW t \in Threads, Stamp(t)
  PROVE  IInv'
<1> DEFINE l == loc[t]
<1>t. /\ TypeOK /\ l \in Local /\ Ready(l) /\ l.work \in Works /\ disk \in Graph
      /\ issues \in Seq(Issue) /\ "assess" \in Plain \ {"retract", "label"}
  BY DEF IInv, TypeOK, Local, Plain, Stages
<1>s. Sole(t) /\ Calm(disk, issues) /\ l.saving = "no" /\ UNCHANGED <<disk, issues>>
  BY Turn, CalmDisk DEF Stamp, At
<1>1. CASE Known(disk, l.work)
  <2> DEFINE c == [disk.cand[l.work] EXCEPT !.pending = FALSE, !.recent = ~l.aged]
             g == With(disk, l.work, c)
             m == Save(l, g, "assess")
  <2>1. disk.cand[l.work] \in Candidate /\ Notified(disk, l.work) = disk.cand[l.work].notified
    BY <1>t, <1>1, KnownType DEF Notified
  <2>2. c \in Candidate /\ c.notified = Notified(disk, l.work)
    <3>1. (~l.aged) \in BOOLEAN
      OBVIOUS
    <3> QED
      BY <2>1, <3>1 DEF Candidate
  <2>3. Let(t, m)
    BY <1>1 DEF Stamp
  <2> HIDE DEF c
  <2>4. /\ g \in Graph /\ \A v \in Works : Notified(g, v) = Notified(disk, v)
        /\ \A v \in Works \ {l.work} : FreshIn(g, v)
    BY <1>t, <1>s, <2>2, WithNotices DEF Calm
  <2> HIDE DEF g
  <2>5. FaithfulTo(g, issues)
    BY <1>t, <1>s, <2>4, SameNotices, IssueSources DEF Calm
  <2>6. m \in Local /\ Ready(m)
    BY <1>t, <2>4, GoOnType
  <2>7. m.at = "assess" /\ m.work = l.work /\ LatestIn(m, disk') = g
    BY <1>t, <1>s, <2>4, LatestAfter
  <2> HIDE DEF m
  <2>8. AccountOf(LatestIn(m, disk'), m, issues')
    BY <1>s, <2>4, <2>5, <2>7 DEF AccountOf
  <2> QED
    BY <1>t, <1>s, <2>3, <2>6, <2>8, StepAccount DEF Let
<1>2. CASE ~Known(disk, l.work)
  <2>1. Let(t, GoOn(l, "assess"))
    BY <1>2 DEF Stamp
  <2> QED
    BY <1>t, <1>s, <2>1, CalmGoOn, Constants
<1> QED
  BY <1>1, <1>2

\* The verdicts: the candidate is observed only, or possible.
LEMMA AssessKeeps ==
  ASSUME IInv, TypeOK', NEW t \in Threads, Assess(t)
  PROVE  IInv'
<1>t. /\ TypeOK /\ loc[t] \in Local /\ Ready(loc[t]) /\ loc[t].work \in Works /\ disk \in Graph
      /\ issues \in Seq(Issue) /\ "label" \in Plain
  BY DEF IInv, TypeOK, Local, Plain, Stages
<1>s. /\ Sole(t) /\ loc[t].saving = "no" /\ UNCHANGED <<disk, issues>>
      /\ FaithfulTo(disk, issues) /\ \A w \in Works \ {loc[t].work} : FreshIn(disk, w)
  <2>1. loc[t].at = "assess" /\ loc[t].saving = "no" /\ UNCHANGED <<disk, issues>>
    BY DEF Assess, At
  <2>2. Sole(t) /\ AccountOf(disk, loc[t], issues)
    BY <2>1, Turn DEF Account, LatestIn
  <2> QED
    BY <2>1, <2>2 DEF AccountOf
<1>1. PICK S \in SUBSET loc[t].found, high \in BOOLEAN :
         LET l == [loc[t] EXCEPT !.found = S, !.fast = high] IN
         IF S = {} THEN ~high /\ Let(t, SetStatus(l, "OBSERVED", AfterEvaluation(l, "OBSERVED")))
                   ELSE Let(t, SetStatus(l, "POTENTIAL", "label"))
  BY DEF Assess
<1> DEFINE l == [loc[t] EXCEPT !.found = S, !.fast = high]
<1>2. l \in Local /\ l.work = loc[t].work /\ l.saving = "no"
  BY <1>t, <1>s DEF Local
<1>3. \/ Let(t, SetStatus(l, "OBSERVED", AfterEvaluation(l, "OBSERVED")))
      \/ Let(t, SetStatus(l, "POTENTIAL", "label"))
  BY <1>1
<1> HIDE DEF l
<1>4. CASE Let(t, SetStatus(l, "OBSERVED", AfterEvaluation(l, "OBSERVED")))
  <2> DEFINE next == AfterEvaluation(l, "OBSERVED")
  <2>1. next \in Plain \ {"retract", "label"}
    BY AfterCalm
  <2>2. "OBSERVED" \in Statuses \ {"NOTIFIED"} /\ next \in Plain
    BY <2>1 DEF Statuses
  <2> HIDE DEF next
  <2>3. PICK g \in Graph : /\ Calm(g, issues)
                           /\ \/ SetStatus(l, "OBSERVED", next) = Save(l, g, next)
                              \/ g = disk /\ SetStatus(l, "OBSERVED", next) = GoOn(l, next)
    BY <1>t, <1>s, <1>2, <2>2, StatusCalm
  <2>4. Let(t, SetStatus(l, "OBSERVED", next))
    BY <1>4 DEF next
  <2> QED
    BY <1>t, <1>s, <1>2, <2>1, <2>3, <2>4, CalmGoOn
<1>5. CASE Let(t, SetStatus(l, "POTENTIAL", "label"))
  <2>1. "POTENTIAL" \in Statuses \ {"NOTIFIED"}
    BY DEF Statuses
  <2>2. PICK g \in Graph : /\ Calm(g, issues)
                           /\ Known(disk, l.work) => Status(g, l.work) = "POTENTIAL"
                           /\ ~Known(disk, l.work) => g = disk
                           /\ \/ SetStatus(l, "POTENTIAL", "label") = Save(l, g, "label")
                              \/ g = disk /\ SetStatus(l, "POTENTIAL", "label") = GoOn(l, "label")
    BY <1>t, <1>s, <1>2, <2>1, StatusCalm
  <2> DEFINE m == SetStatus(l, "POTENTIAL", "label")
  <2>3. m \in Local /\ Ready(m) /\ Let(t, m)
    BY <1>t, <1>2, <1>5, <2>2, GoOnType
  <2>4. m.at = "label" /\ m.work = l.work /\ LatestIn(m, disk') = g
    BY <1>t, <1>s, <1>2, <2>2, LatestAfter
  <2>5. Status(g, l.work) # "NOTIFIED"
    BY <2>2 DEF Status
  <2> HIDE DEF m
  <2>6. AccountOf(LatestIn(m, disk'), m, issues')
    BY <1>s, <2>2, <2>4, <2>5 DEF AccountOf, Calm
  <2> QED
    BY <1>t, <1>s, <2>3, <2>6, StepAccount DEF Let
<1> QED
  BY <1>3, <1>4, <1>5

\* The targets of a candidate that is not notified.
LEMMA LabelKeeps ==
  ASSUME IInv, TypeOK', NEW t \in Threads, Label(t)
  PROVE  IInv'
<1> DEFINE l == loc[t]
<1>t. /\ TypeOK /\ l \in Local /\ l.work \in Works /\ disk \in Graph /\ issues \in Seq(Issue)
      /\ l.found \in SUBSET Works
  BY DEF IInv, TypeOK, Local
<1>s. /\ Sole(t) /\ Calm(disk, issues) /\ l.saving = "no" /\ UNCHANGED <<disk, issues>>
      /\ Status(disk, l.work) # "NOTIFIED"
  <2>1. l.at = "label" /\ l.saving = "no" /\ UNCHANGED <<disk, issues>>
    BY DEF Label, At
  <2>2. Sole(t) /\ Calm(disk, issues) /\ AccountOf(disk, l, issues)
    BY <2>1, Turn, CalmDisk
  <2> QED
    BY <2>1, <2>2 DEF AccountOf
<1>1. CASE Known(disk, l.work)
  <2> DEFINE c == [disk.cand[l.work] EXCEPT !.targets = l.found]
             g == With(disk, l.work, c)
             next == AfterEvaluation(l, "POTENTIAL")
  <2>1. disk.cand[l.work] \in Candidate /\ disk.cand[l.work].status # "NOTIFIED"
        /\ Notified(disk, l.work) = disk.cand[l.work].notified
    BY <1>t, <1>s, <1>1, KnownType DEF Notified, Status
  <2>2. c \in Candidate /\ c.notified = Notified(disk, l.work) /\ c.status # "NOTIFIED"
    BY <1>t, <2>1 DEF Candidate
  <2>3. Let(t, Save(l, g, next))
    BY <1>1 DEF Label
  <2> HIDE DEF c
  <2>4. g \in Graph /\ Calm(g, issues)
    BY <1>t, <1>s, <2>2, WithCalm, WithNotices DEF Calm
  <2>5. next \in Plain \ {"retract", "label"}
    BY AfterCalm
  <2> HIDE DEF g, next
  <2> QED
    BY <1>t, <1>s, <2>3, <2>4, <2>5, CalmGoOn
<1>2. CASE ~Known(disk, l.work)
  <2>1. Let(t, Idle)
    BY <1>2 DEF Label, Raise
  <2>2. Idle.at = "idle" /\ Idle.saving = "no"
    BY DEF Idle
  <2> QED
    BY <1>t, <1>s, <2>1, <2>2, IdleType, CalmStep
<1> QED
  BY <1>1, <1>2

-----------------------------------------------------------------------------
\* An issue that stays as it is stands for what it stood for.
LEMMA StandsStill ==
  ASSUME NEW iss, NEW jss, NEW w, NEW n, NEW k, Stands(iss, w, n, k),
         k \in DOMAIN jss, jss[k] = iss[k]
  PROVE  Stands(jss, w, n, k)
  BY DEF Stands

\* What faith in a graph gives of one notice, and of two.
LEMMA FaithIn ==
  ASSUME NEW g, NEW iss \in Seq(Issue), FaithfulTo(g, iss), NEW w \in Works,
         NEW i \in DOMAIN Notified(g, w)
  PROVE  LET n == Notified(g, w)[i]
         IN  /\ n.number # NoUrl => Stands(iss, w, n, n.number)
             /\ n.number = NoUrl => Orphaned(g, iss, w, n)
             /\ \A j \in DOMAIN Notified(g, w) :
                   n.number = Notified(g, w)[j].number /\ n.number # NoUrl => i = j
<1>1. NoUrl \notin DOMAIN iss
  BY DEF NoUrl
<1> QED
  BY <1>1 DEF FaithfulTo, Stands

\* A notice and its issue that change together, without becoming open or
\* turning to another target, keep faith.
LEMMA FaithfulAmended ==
  ASSUME NEW g \in Graph, NEW w \in Works, Known(g, w), NEW iss \in Seq(Issue), FaithfulTo(g, iss),
         NEW seq \in Seq(Notice), seq = Notified(g, w),
         NEW i \in DOMAIN seq, NEW m \in Notice, NEW k \in Issue,
         m.target = seq[i].target, m.number = seq[i].number, m.number # NoUrl,
         m.open => seq[i].open,
         k.source = w, k.target = m.target, k.open = m.open, k.told = m.head
  PROVE  FaithfulTo(Renotify(g, w, [seq EXCEPT ![i] = m]), [iss EXCEPT ![m.number] = k])
<1> DEFINE new == [seq EXCEPT ![i] = m]
           h   == Renotify(g, w, new)
           jss == [iss EXCEPT ![m.number] = k]
<1>1. /\ new \in Seq(Notice) /\ DOMAIN new = DOMAIN seq
      /\ \A j \in DOMAIN seq : new[j] = IF j = i THEN m ELSE seq[j]
  OBVIOUS
<1>2. m.number \in DOMAIN iss /\ iss[m.number].source = w
  BY FaithIn DEF Stands
<1>3. DOMAIN jss = DOMAIN iss /\ \A n \in DOMAIN iss : jss[n] = IF n = m.number THEN k ELSE iss[n]
  OBVIOUS
<1> HIDE DEF new
<1>4. Notified(h, w) = new /\ \A v \in Works \ {w} : Notified(h, v) = Notified(g, v)
  BY <1>1, RenotifyType
<1> HIDE DEF h, jss
\* The numbers are those of before, and an issue that no notice of its work names, or
\* of another work, is not the one that changes.
<1>n. \A j \in DOMAIN seq : new[j].number = seq[j].number
  BY <1>1
<1>o. ASSUME NEW v \in Works, NEW n, Orphaned(g, iss, v, n) PROVE Orphaned(h, jss, v, n)
  <2>1. PICK o \in DOMAIN iss : /\ Stands(iss, v, n, o) /\ ~Answered
                               /\ \A j \in DOMAIN Notified(g, v) : Notified(g, v)[j].number # o
    BY <1>o DEF Orphaned
  <2>2. o # m.number
    <3>1. CASE v = w
      BY <2>1, <3>1
    <3>2. CASE v # w
      BY <1>2, <2>1, <3>2 DEF Stands
    <3> QED
      BY <3>1, <3>2
  <2>3. Stands(jss, v, n, o) /\ o \in DOMAIN jss
    BY <1>3, <2>1, <2>2, StandsStill
  <2>4. \A j \in DOMAIN Notified(h, v) : Notified(h, v)[j].number # o
    BY <1>1, <1>4, <1>n, <2>1
  <2> QED
    BY <2>1, <2>3, <2>4 DEF Orphaned
<1>5. ASSUME NEW v \in Works, NEW j \in DOMAIN Notified(h, v)
      PROVE  \/ Stands(jss, v, Notified(h, v)[j], Notified(h, v)[j].number)
             \/ Notified(h, v)[j].number = NoUrl /\ Orphaned(h, jss, v, Notified(h, v)[j])
  <2>1. CASE v = w /\ j = i
    BY <1>1, <1>2, <1>3, <1>4, <2>1 DEF Stands
  <2>2. CASE ~(v = w /\ j = i)
    <3>1. j \in DOMAIN Notified(g, v) /\ Notified(h, v)[j] = Notified(g, v)[j]
      BY <1>1, <1>4, <2>2
    <3> DEFINE n == Notified(g, v)[j]
    <3>2. CASE n.number = NoUrl
      BY <1>o, <3>1, <3>2, FaithIn
    <3>3. CASE n.number # NoUrl
      <4>1. Stands(iss, v, n, n.number)
        BY <3>1, <3>3, FaithIn
      <4>2. n.number # m.number
        <5>1. CASE v = w
          <6>1. j # i /\ j \in DOMAIN seq /\ n = seq[j]
            BY <2>2, <3>1, <5>1
          <6> QED
            BY <5>1, <6>1, FaithIn
        <5>2. CASE v # w
          BY <1>2, <4>1, <5>2 DEF Stands
        <5> QED
          BY <5>1, <5>2
      <4>3. n.number \in DOMAIN jss /\ jss[n.number] = iss[n.number]
        BY <1>3, <4>1, <4>2 DEF Stands
      <4> HIDE DEF n
      <4>4. Stands(jss, v, n, n.number)
        BY <4>1, <4>3, StandsStill
      <4> QED
        BY <3>1, <4>4 DEF n
    <3> QED
      BY <3>2, <3>3
  <2> QED
    BY <2>1, <2>2
<1>6. ASSUME NEW v \in Works, NEW a \in DOMAIN Notified(h, v), NEW b \in DOMAIN Notified(h, v),
             \/ /\ Notified(h, v)[a].number = Notified(h, v)[b].number
                /\ Notified(h, v)[a].number # NoUrl
             \/ /\ Answered
                /\ Notified(h, v)[a].target = Notified(h, v)[b].target
                /\ Notified(h, v)[a].open /\ Notified(h, v)[b].open
      PROVE  a = b
  <2>1. CASE v = w
    <3>1. a \in DOMAIN seq /\ b \in DOMAIN seq
      BY <1>1, <1>4, <2>1
    <3>2. ASSUME NEW j \in DOMAIN seq
          PROVE  /\ new[j].number = seq[j].number /\ new[j].target = seq[j].target
                 /\ new[j].open => seq[j].open
      BY <1>1
    <3>3. \/ seq[a].number = seq[b].number /\ seq[a].number # NoUrl
          \/ Answered /\ seq[a].target = seq[b].target /\ seq[a].open /\ seq[b].open
      BY <1>4, <1>6, <2>1, <3>1, <3>2
    <3> QED
      BY <3>1, <3>3 DEF FaithfulTo
  <2>2. CASE v # w
    <3>1. Notified(h, v) = Notified(g, v)
      BY <1>4, <2>2
    <3> QED
      BY <1>6, <3>1 DEF FaithfulTo
  <2> QED
    BY <2>1, <2>2
<1>7. ASSUME Answered, NEW n \in DOMAIN jss
      PROVE  \E j \in DOMAIN Notified(h, jss[n].source) : Notified(h, jss[n].source)[j].number = n
  <2>1. CASE n = m.number
    <3>1. jss[n].source = w /\ new[i].number = n /\ i \in DOMAIN new
      BY <1>1, <1>2, <1>3, <2>1
    <3> QED
      BY <1>4, <3>1
  <2>2. CASE n # m.number
    <3>1. n \in DOMAIN iss /\ jss[n] = iss[n] /\ iss[n].source \in Works
      BY <1>3, <2>2, IssueSources
    <3>2. PICK j \in DOMAIN Notified(g, iss[n].source) : Notified(g, iss[n].source)[j].number = n
      BY <1>7, <3>1 DEF FaithfulTo
    <3>3. CASE iss[n].source = w
      <4>1. j \in DOMAIN seq /\ seq[j].number = n
        BY <3>2, <3>3
      <4>2. j \in DOMAIN new /\ new[j].number = n
        BY <1>1, <4>1
      <4> QED
        BY <1>4, <3>1, <3>3, <4>2
    <3>4. CASE iss[n].source # w
      BY <1>4, <3>1, <3>2, <3>4
    <3> QED
      BY <3>3, <3>4
  <2> QED
    BY <2>1, <2>2
<1>8. FaithfulTo(h, jss)
  BY <1>5, <1>6, <1>7 DEF FaithfulTo
<1> QED
  BY <1>8 DEF h, new, jss

\* A new notice with its new issue keeps faith; where every answer arrives, if the
\* target had no open one.
LEMMA FaithfulAppended ==
  ASSUME NEW g \in Graph, NEW w \in Works, Known(g, w), NEW iss \in Seq(Issue), FaithfulTo(g, iss),
         NEW seq \in Seq(Notice), seq = Notified(g, w),
         NEW m \in Notice, NEW k \in Issue,
         m.number = Len(iss) + 1 \/ (m.number = NoUrl /\ ~Answered),
         k.source = w, k.target = m.target, k.open = m.open, k.told = m.head,
         Answered => \A j \in DOMAIN seq : ~(seq[j].target = m.target /\ seq[j].open)
  PROVE  FaithfulTo(Renotify(g, w, Append(seq, m)), Append(iss, k))
<1> DEFINE new == Append(seq, m)
           h   == Renotify(g, w, new)
           jss == Append(iss, k)
           top == Len(seq) + 1
           last == Len(iss) + 1
<1>1. /\ new \in Seq(Notice) /\ DOMAIN new = DOMAIN seq \cup {top} /\ top \notin DOMAIN seq
      /\ new[top] = m /\ \A j \in DOMAIN seq : new[j] = seq[j]
  OBVIOUS
<1>3. /\ DOMAIN jss = DOMAIN iss \cup {last} /\ last \notin DOMAIN iss
      /\ jss[last] = k /\ \A n \in DOMAIN iss : jss[n] = iss[n]
  OBVIOUS
<1>z. NoUrl \notin DOMAIN iss /\ NoUrl # last
  BY DEF NoUrl
<1>m. m.number = last \/ (m.number = NoUrl /\ ~Answered)
  OBVIOUS
<1> HIDE DEF new
<1>4. Notified(h, w) = new /\ \A v \in Works \ {w} : Notified(h, v) = Notified(g, v)
  BY <1>1, RenotifyType
<1> HIDE DEF h, jss, top, last
<1>n. ASSUME NEW v \in Works, NEW j \in DOMAIN Notified(g, v)
      PROVE  Notified(g, v)[j].number \in DOMAIN iss \cup {NoUrl}
  BY FaithIn DEF Stands
<1>o. ASSUME NEW v \in Works, NEW n, Orphaned(g, iss, v, n) PROVE Orphaned(h, jss, v, n)
  <2>1. PICK o \in DOMAIN iss : /\ Stands(iss, v, n, o) /\ ~Answered
                               /\ \A j \in DOMAIN Notified(g, v) : Notified(g, v)[j].number # o
    BY <1>o DEF Orphaned
  <2>2. o # m.number
    BY <1>3, <1>z, <1>m
  <2>3. Stands(jss, v, n, o) /\ o \in DOMAIN jss
    BY <1>3, <2>1, StandsStill
  <2>4. ASSUME NEW j \in DOMAIN Notified(h, v) PROVE Notified(h, v)[j].number # o
    <3>1. CASE v # w
      BY <1>4, <2>1, <3>1
    <3>2. CASE v = w
      <4>1. Notified(h, v) = new /\ Notified(g, v) = seq /\ j \in DOMAIN new
        BY <1>4, <3>2
      <4>2. CASE j = top
        BY <1>1, <2>2, <4>1, <4>2
      <4>3. CASE j # top
        BY <1>1, <2>1, <4>1, <4>3
      <4> QED BY <4>2, <4>3
    <3> QED BY <3>1, <3>2
  <2> QED
    BY <2>1, <2>3, <2>4 DEF Orphaned
<1>5. ASSUME NEW v \in Works, NEW j \in DOMAIN Notified(h, v)
      PROVE  \/ Stands(jss, v, Notified(h, v)[j], Notified(h, v)[j].number)
             \/ Notified(h, v)[j].number = NoUrl /\ Orphaned(h, jss, v, Notified(h, v)[j])
  <2>1. CASE v = w /\ j = top
    <3>1. Notified(h, v)[j] = m
      BY <1>1, <1>4, <2>1
    <3>2. Stands(jss, w, m, last) /\ last \in DOMAIN jss
      BY <1>3 DEF Stands
    <3>3. CASE m.number = last
      BY <2>1, <3>1, <3>2, <3>3
    <3>4. CASE m.number = NoUrl /\ ~Answered
      <4>1. \A a \in DOMAIN Notified(h, w) : Notified(h, w)[a].number # last
        BY <1>1, <1>3, <1>4, <1>n, <1>z, <3>4
      <4> QED
        BY <2>1, <3>1, <3>2, <3>4, <4>1 DEF Orphaned
    <3> QED
      BY <1>m, <3>3, <3>4
  <2>2. CASE ~(v = w /\ j = top)
    <3>1. j \in DOMAIN Notified(g, v) /\ Notified(h, v)[j] = Notified(g, v)[j]
      BY <1>1, <1>4, <2>2
    <3> DEFINE n == Notified(g, v)[j]
    <3>2. CASE n.number = NoUrl
      BY <1>o, <3>1, <3>2, FaithIn
    <3>3. CASE n.number # NoUrl
      <4>1. Stands(iss, v, n, n.number)
        BY <3>1, <3>3, FaithIn
      <4>2. n.number \in DOMAIN jss /\ jss[n.number] = iss[n.number]
        BY <1>3, <4>1 DEF Stands
      <4> HIDE DEF n
      <4>3. Stands(jss, v, n, n.number)
        BY <4>1, <4>2, StandsStill
      <4> QED
        BY <3>1, <4>3 DEF n
    <3> QED
      BY <3>2, <3>3
  <2> QED
    BY <2>1, <2>2
<1>6. ASSUME NEW v \in Works, NEW a \in DOMAIN Notified(h, v), NEW b \in DOMAIN Notified(h, v),
             \/ /\ Notified(h, v)[a].number = Notified(h, v)[b].number
                /\ Notified(h, v)[a].number # NoUrl
             \/ /\ Answered
                /\ Notified(h, v)[a].target = Notified(h, v)[b].target
                /\ Notified(h, v)[a].open /\ Notified(h, v)[b].open
      PROVE  a = b
  <2>1. CASE v = w
    <3>1. \A j \in DOMAIN seq : seq[j].number = m.number => m.number = NoUrl
      BY <1>3, <1>n, <1>m
    <3>2. ASSUME a \in DOMAIN seq, b = top PROVE FALSE
      BY <1>1, <1>4, <1>6, <2>1, <3>1, <3>2
    <3>3. ASSUME b \in DOMAIN seq, a = top PROVE FALSE
      BY <1>1, <1>4, <1>6, <2>1, <3>1, <3>3
    <3>4. ASSUME a \in DOMAIN seq, b \in DOMAIN seq PROVE a = b
      <4>1. new[a] = seq[a] /\ new[b] = seq[b]
        BY <1>1, <3>4
      <4> QED
        BY <1>4, <1>6, <2>1, <3>4, <4>1 DEF FaithfulTo
    <3> QED
      BY <1>1, <1>4, <2>1, <3>2, <3>3, <3>4
  <2>2. CASE v # w
    <3>1. Notified(h, v) = Notified(g, v)
      BY <1>4, <2>2
    <3> QED
      BY <1>6, <3>1 DEF FaithfulTo
  <2> QED
    BY <2>1, <2>2
<1>7. ASSUME Answered, NEW n \in DOMAIN jss
      PROVE  \E j \in DOMAIN Notified(h, jss[n].source) : Notified(h, jss[n].source)[j].number = n
  <2>1. CASE n = last
    BY <1>1, <1>3, <1>4, <1>7, <1>m, <2>1
  <2>2. CASE n # last
    <3>1. n \in DOMAIN iss /\ jss[n] = iss[n] /\ iss[n].source \in Works
      BY <1>3, <2>2, IssueSources
    <3>2. PICK j \in DOMAIN Notified(g, iss[n].source) : Notified(g, iss[n].source)[j].number = n
      BY <1>7, <3>1 DEF FaithfulTo
    <3>3. j \in DOMAIN Notified(h, iss[n].source) /\ Notified(h, iss[n].source)[j].number = n
      BY <1>1, <1>4, <3>1, <3>2
    <3> QED
      BY <3>1, <3>3
  <2> QED
    BY <2>1, <2>2
<1>8. FaithfulTo(h, jss)
  BY <1>5, <1>6, <1>7 DEF FaithfulTo
<1> QED
  BY <1>8 DEF h, new, jss

\* Replacing the notices of a candidate that is not notified leaves every
\* candidate as fresh as it was.
LEMMA RenotifyFresh ==
  ASSUME NEW g \in Graph, NEW w \in Works, NEW seq \in Seq(Notice), Known(g, w),
         Status(g, w) # "NOTIFIED", \A v \in Works : FreshIn(g, v)
  PROVE  /\ \A v \in Works : FreshIn(Renotify(g, w, seq), v)
         /\ Status(Renotify(g, w, seq), w) = Status(g, w)
<1> DEFINE h == Renotify(g, w, seq)
<1>1. /\ h.cand[w].status = g.cand[w].status /\ Known(h, w)
      /\ \A v \in Works \ {w} : h.cand[v] = g.cand[v]
  BY RenotifyType
<1> HIDE DEF h
<1>2. Status(h, w) = Status(g, w) /\ h.cand[w].status # "NOTIFIED"
  BY <1>1 DEF Status
<1>3. \A v \in Works : FreshIn(h, v)
  BY <1>1, <1>2 DEF FreshIn, Fresh, Known
<1> QED
  BY <1>2, <1>3 DEF h

\* The retraction begins: the candidate is observed only, and stays so.
LEMMA RetractKeeps ==
  ASSUME IInv, TypeOK', NEW t \in Threads, Reconcile(t) \/ Retract(t)
  PROVE  IInv'
<1> DEFINE l == loc[t]
<1>t. /\ TypeOK /\ l \in Local /\ Ready(l) /\ disk \in Graph /\ l.work \in Works
      /\ "retract" \in Plain
  BY DEF IInv, TypeOK, Local, Plain, Stages
<1>s. /\ Sole(t) /\ Calm(disk, issues) /\ AccountOf(disk, l, issues) /\ l.saving = "no"
      /\ UNCHANGED <<disk, issues>>
  BY Turn, CalmDisk DEF Reconcile, Retract, At
<1>1. CASE Reconcile(t)
  <2>1. CASE Status(disk, l.work) = "OBSERVED"
    <3> DEFINE m == GoOn(l, "retract")
    <3>1. Let(t, m) /\ m \in Local /\ Ready(m)
      BY <1>t, <1>1, <2>1, GoOnType DEF Reconcile
    <3>2. m.at = "retract" /\ m.work = l.work /\ LatestIn(m, disk') = disk
      BY <1>t, <1>s, LatestAfter
    <3> HIDE DEF m
    <3>3. AccountOf(LatestIn(m, disk'), m, issues')
      BY <1>s, <2>1, <3>2 DEF AccountOf, Calm
    <3> QED
      BY <1>t, <1>s, <3>1, <3>3, StepAccount DEF Let
  <2>2. CASE Status(disk, l.work) # "OBSERVED"
    <3>1. Let(t, GoOn(l, AfterReconciliation(l)))
      BY <1>1, <2>2 DEF Reconcile
    <3> QED
      BY <1>t, <1>s, <3>1, AfterCalm, CalmGoOn
  <2> QED
    BY <2>1, <2>2
<1>2. CASE Retract(t)
  <2>1. CASE Let(t, GoOn(l, AfterReconciliation(l)))
    BY <1>t, <1>s, <2>1, AfterCalm, CalmGoOn
  <2>2. CASE Let(t, [l EXCEPT !.at = "close", !.copy = disk, !.todo = Retractable(disk, l.work)])
    <3> DEFINE S == Retractable(disk, l.work)
               m == [l EXCEPT !.at = "close", !.copy = disk, !.todo = S]
    <3>1. S \subseteq DOMAIN Notified(disk, l.work) /\ DOMAIN Notified(disk, l.work) \subseteq Nat
      BY <1>t, KnownType DEF Retractable
    <3>2. Let(t, m)
      BY <2>2
    <3> HIDE DEF S
    <3>3. m \in Local /\ m.at = "close" /\ m.copy = disk /\ m.todo = S /\ m.work = l.work
          /\ m.saving = "no"
      BY <1>t, <1>s, <3>1 DEF Local, Stages
    <3> HIDE DEF m
    <3>4. Ready(m)
      BY <3>1, <3>3 DEF Ready
    <3>5. LatestIn(m, disk') = disk
      BY <3>3 DEF LatestIn
    <3>6. Status(disk, l.work) = "OBSERVED"
      BY <1>s, <1>2 DEF AccountOf, Retract, At
    <3>8. \A i \in m.todo : Notified(disk, l.work)[i].number # NoUrl
      BY <3>3 DEF S, Retractable
    <3>7. AccountOf(LatestIn(m, disk'), m, issues')
      BY <1>s, <3>3, <3>5, <3>6, <3>8 DEF AccountOf, Calm
    <3> QED
      BY <1>t, <1>s, <3>2, <3>3, <3>4, <3>7, StepAccount DEF Let
  <2> QED
    BY <1>2, <2>1, <2>2 DEF Retract
<1> QED
  BY <1>1, <1>2

\* A notice is closed together with its issue.
LEMMA CloseKeeps ==
  ASSUME IInv, TypeOK', "failed" \notin Faults, NEW t \in Threads, Close(t)
  PROVE  IInv'
<1> DEFINE w   == loc[t].work
           seq == Notified(loc[t].copy, w)
<1>t. /\ TypeOK /\ loc[t] \in Local /\ Ready(loc[t]) /\ w \in Works /\ issues \in Seq(Issue)
      /\ loc[t].copy \in Graph /\ loc[t].todo \in SUBSET (Works \cup Nat)
  BY DEF IInv, TypeOK, Local
<1>s. /\ loc[t].at = "close" /\ loc[t].saving = "no" /\ disk' = disk
      /\ loc[t].todo \subseteq DOMAIN seq
  BY <1>t DEF Close, At, Ready
<1>a. Sole(t) /\ AccountOf(loc[t].copy, loc[t], issues)
  BY <1>s, Turn DEF Account, LatestIn
<1>b. /\ FaithfulTo(loc[t].copy, issues) /\ \A v \in Works : FreshIn(loc[t].copy, v)
      /\ Status(loc[t].copy, w) = "OBSERVED" /\ Known(loc[t].copy, w)
      /\ \A j \in loc[t].todo : seq[j].number # NoUrl
  BY <1>s, <1>a DEF AccountOf, Status
<1>c. /\ seq \in Seq(Notice) /\ seq = loc[t].copy.cand[w].notified
      /\ seq = Notified(loc[t].copy, w)
  BY <1>t, <1>b, KnownType DEF Notified
<1>1. PICK i \in loc[t].todo, answer \in Answers :
         LET l == loc[t]
             n == Notified(l.copy, l.work)[i]
             g == [l.copy EXCEPT !.cand[l.work].notified[i].open = FALSE]
         IN  /\ issues' = IF answer = "failed" THEN issues
                          ELSE [issues EXCEPT ![n.number].open = FALSE]
             /\ Let(t, IF l.todo = {i} THEN Save([l EXCEPT !.todo = {}], g, AfterReconciliation(l))
                       ELSE [l EXCEPT !.todo = @ \ {i}, !.copy = g])
  BY DEF Close
<1>2. answer # "failed"
  BY DEF Answers
<1> DEFINE m   == [seq[i] EXCEPT !.open = FALSE]
           k   == [issues[seq[i].number] EXCEPT !.open = FALSE]
           new == [seq EXCEPT ![i] = m]
           g   == Renotify(loc[t].copy, w, new)
<1>3. /\ issues' = [issues EXCEPT ![seq[i].number] = k]
      /\ Let(t, IF loc[t].todo = {i}
                THEN Save([loc[t] EXCEPT !.todo = {}], g, AfterReconciliation(loc[t]))
                ELSE [loc[t] EXCEPT !.todo = loc[t].todo \ {i}, !.copy = g])
  BY <1>1, <1>2, <1>c DEF Renotify
<1> HIDE DEF seq
<1>e. i \in DOMAIN seq /\ seq[i] \in Notice /\ seq[i].number # NoUrl
  BY <1>b, <1>s, <1>c
<1>4. /\ i \in DOMAIN seq /\ seq[i] \in Notice /\ seq[i].number \in DOMAIN issues
      /\ issues[seq[i].number].source = w /\ issues[seq[i].number].target = seq[i].target
      /\ issues[seq[i].number].told = seq[i].head
  BY <1>t, <1>b, <1>c, <1>e, FaithIn DEF Stands
<1>5. issues[seq[i].number] \in Issue
  BY <1>t, <1>4
<1>6. /\ m \in Notice /\ m.target = seq[i].target /\ m.number = seq[i].number /\ ~m.open
      /\ m.head = seq[i].head
  BY <1>4 DEF Notice
<1>7. k \in Issue /\ k.source = w /\ k.target = seq[i].target /\ ~k.open /\ k.told = seq[i].head
  BY <1>4, <1>5 DEF Issue
<1>9. m.open = k.open
  BY <1>4, <1>5 DEF Notice, Issue
<1>d. loc[t].todo \ {i} \in SUBSET (Works \cup Nat) /\ {} \in SUBSET (Works \cup Nat)
  BY <1>t
<1> HIDE DEF m, k
<1>8. /\ new \in Seq(Notice) /\ DOMAIN new = DOMAIN seq
      /\ \A j \in DOMAIN seq : new[j].number = seq[j].number
  BY <1>c, <1>4, <1>6
<1>10. FaithfulTo(g, issues')
  <2>1. /\ m.open => seq[i].open
        /\ k.target = m.target /\ k.told = m.head
    BY <1>6, <1>7
  <2>2. FaithfulTo(Renotify(loc[t].copy, w, [seq EXCEPT ![i] = m]),
                   [issues EXCEPT ![m.number] = k])
    <3> HIDE DEF w
    <3> QED
      BY <1>t, <1>b, <1>c, <1>e, <1>4, <1>6, <1>7, <1>9, <2>1, FaithfulAmended
  <2> QED
    BY <1>3, <1>6, <2>2
<1> HIDE DEF new
<1>11. /\ g \in Graph /\ Notified(g, w) = new
       /\ [loc[t] EXCEPT !.todo = loc[t].todo \ {i}, !.copy = g] \in Local
  BY <1>t, <1>b, <1>8, <1>d, CopyType
<1>12. (\A v \in Works : FreshIn(g, v)) /\ Status(g, w) = "OBSERVED"
  BY <1>t, <1>b, <1>8, RenotifyFresh
<1> HIDE DEF g
<1>13. CASE loc[t].todo = {i}
  <2> DEFINE l == [loc[t] EXCEPT !.todo = {}]
             s == AfterReconciliation(loc[t])
             n == Save(l, g, s)
  <2>1. l \in Local /\ l.saving = "no"
    BY <1>t, <1>s, <1>d DEF Local
  <2>2. s \in Plain \ {"retract", "label"} /\ Let(t, n)
    BY <1>3, <1>13, AfterCalm
  <2> HIDE DEF l, s
  <2>3. n \in Local /\ Ready(n) /\ n.at = s /\ LatestIn(n, disk') = g
    BY <1>11, <2>1, <2>2, GoOnType, LatestAfter
  <2> HIDE DEF n
  <2>4. n.at \notin {"retract", "close", "label", "load", "file"} /\ Calm(g, issues')
    BY <1>10, <1>12, <2>2, <2>3 DEF Plain, Calm
  <2>5. AccountOf(LatestIn(n, disk'), n, issues')
    BY <2>3, <2>4, CalmAccount
  <2> QED
    BY <1>t, <1>a, <2>2, <2>3, <2>5, StepAccount DEF Let
<1>14. CASE loc[t].todo # {i}
  <2> DEFINE n == [loc[t] EXCEPT !.todo = loc[t].todo \ {i}, !.copy = g]
  <2>1. /\ n \in Local /\ n.at = "close" /\ n.saving = "no" /\ n.work = w /\ n.copy = g
        /\ n.todo = loc[t].todo \ {i} /\ Let(t, n)
    BY <1>t, <1>s, <1>3, <1>11, <1>14 DEF Local
  <2> HIDE DEF n
  <2>2. Ready(n)
    BY <1>s, <1>8, <1>11, <2>1 DEF Ready
  <2>3. LatestIn(n, disk') = g
    BY <2>1 DEF LatestIn
  <2>4. \A j \in n.todo : Notified(g, w)[j].number # NoUrl
    BY <1>b, <1>s, <1>8, <1>11, <2>1
  <2>5. AccountOf(LatestIn(n, disk'), n, issues')
    BY <1>10, <1>12, <2>1, <2>3, <2>4 DEF AccountOf
  <2> QED
    BY <1>t, <1>a, <2>1, <2>2, <2>5, StepAccount DEF Let
<1> QED
  BY <1>13, <1>14

-----------------------------------------------------------------------------
\* The confirmation: nothing is notified yet.
LEMMA ConfirmKeeps ==
  ASSUME IInv, TypeOK', NEW t \in Threads,
         Confirm(t) \/ Recheck(t) \/ Settle(t) \/ Notify(t) \/ Load(t)
  PROVE  IInv'
<1> DEFINE l == loc[t]
<1>t. /\ TypeOK /\ l \in Local /\ Ready(l) /\ disk \in Graph /\ l.work \in Works
      /\ issues \in Seq(Issue)
      /\ {"next", "recheck", "drop", "mark", "notify"} \subseteq Plain \ {"retract", "label"}
  BY DEF IInv, TypeOK, Local, Plain, Stages
<1>s. /\ Sole(t) /\ Calm(disk, issues) /\ AccountOf(disk, l, issues) /\ l.saving = "no"
      /\ UNCHANGED <<disk, issues>>
  BY Turn, CalmDisk DEF Confirm, Recheck, Settle, Notify, Load, At
<1>1. CASE Confirm(t)
  <2>1. PICK s \in {"recheck", "next"} : Let(t, GoOn(l, s))
    BY <1>1 DEF Confirm
  <2> QED
    BY <1>t, <1>s, <2>1, CalmGoOn
<1>2. CASE Recheck(t)
  <2>1. PICK s \in {"drop", "mark"} : Let(t, GoOn(l, s))
    BY <1>2 DEF Recheck
  <2> QED
    BY <1>t, <1>s, <2>1, CalmGoOn
<1>3. CASE Settle(t)
  <2>1. PICK s \in {"OBSERVED", "CONFIRMED"}, next \in {"next", "notify"} : Let(t, SetStatus(l, s, next))
    BY <1>3 DEF Settle
  <2>2. s \in Statuses \ {"NOTIFIED"} /\ next \in Plain
    BY <1>t DEF Statuses
  <2>3. PICK g \in Graph : /\ Calm(g, issues)
                           /\ \/ SetStatus(l, s, next) = Save(l, g, next)
                              \/ g = disk /\ SetStatus(l, s, next) = GoOn(l, next)
    BY <1>t, <1>s, <2>2, StatusCalm DEF Calm
  <2> QED
    BY <1>t, <1>s, <2>1, <2>3, CalmGoOn
<1>4. CASE Notify(t)
  <2>1. CASE Status(disk, l.work) # "CONFIRMED"
    <3>1. Let(t, GoOn(l, "next"))
      BY <1>4, <2>1 DEF Notify
    <3> QED
      BY <1>t, <1>s, <3>1, CalmGoOn
  <2>2. CASE Status(disk, l.work) = "CONFIRMED"
    <3> DEFINE m == [l EXCEPT !.at = "load", !.head = disk.cand[l.work].head,
                              !.todo = disk.cand[l.work].targets]
    <3>1. disk.cand[l.work] \in Candidate
      BY <1>t, <2>2, KnownType DEF Status
    <3>2. disk.cand[l.work].head \in Heads /\ disk.cand[l.work].targets \subseteq Works
      BY <3>1 DEF Candidate
    <3>3. /\ m \in Local /\ m.at = "load" /\ m.head = disk.cand[l.work].head /\ m.work = l.work
          /\ m.todo = disk.cand[l.work].targets /\ m.saving = "no"
      BY <1>t, <1>s, <3>2 DEF Local, Stages
    <3>4. Let(t, m)
      BY <1>4, <2>2 DEF Notify
    <3> HIDE DEF m
    <3>5. Ready(m) /\ LatestIn(m, disk') = disk
      BY <1>s, <3>2, <3>3 DEF Ready, LatestIn
    <3>6. AccountOf(LatestIn(m, disk'), m, issues')
      BY <1>s, <2>2, <3>3, <3>5 DEF AccountOf, Calm
    <3> QED
      BY <1>t, <1>s, <3>3, <3>4, <3>5, <3>6, StepAccount DEF Let
  <2> QED
    BY <2>1, <2>2
<1>5. CASE Load(t)
  <2> DEFINE m == [l EXCEPT !.at = "file", !.copy = disk]
  <2>1. l.at = "load" /\ Status(disk, l.work) = "CONFIRMED" /\ Known(disk, l.work)
    BY <1>s, <1>5 DEF Load, At, AccountOf, Status
  <2>2. Let(t, m)
    BY <1>5, <2>1 DEF Load
  <2>3. /\ m \in Local /\ m.at = "file" /\ m.head = l.head /\ m.work = l.work
        /\ m.todo = l.todo /\ m.saving = "no" /\ m.copy = disk
    BY <1>t, <1>s DEF Local, Stages
  <2> HIDE DEF m
  <2>4. Ready(m) /\ LatestIn(m, disk') = disk
    BY <1>t, <2>1, <2>3 DEF Ready, LatestIn
  <2>5. AccountOf(LatestIn(m, disk'), m, issues')
    BY <1>s, <2>1, <2>3, <2>4 DEF AccountOf, Calm
  <2> QED
    BY <1>t, <1>s, <2>2, <2>3, <2>4, <2>5, StepAccount DEF Let
<1> QED
  BY <1>1, <1>2, <1>3, <1>4, <1>5

\* Who was told stays told, when another is told of the same head.
LEMMA ToldStays ==
  ASSUME NEW seq \in Seq(Notice), NEW h \in Heads, NEW v, Told(seq, v, h)
  PROVE  /\ \A i \in DOMAIN seq : Told([seq EXCEPT ![i].head = h], v, h)
         /\ \A m \in Notice : Told(Append(seq, m), v, h)
<1>1. PICK j \in DOMAIN seq : seq[j].target = v /\ seq[j].open /\ seq[j].head = h
  BY DEF Told
<1>2. ASSUME NEW i \in DOMAIN seq
      PROVE  Told([seq EXCEPT ![i].head = h], v, h)
  <2> DEFINE new == [seq EXCEPT ![i].head = h]
  <2>0. seq[j] \in Notice
    OBVIOUS
  <2>1. new[j] = IF j = i THEN [seq[j] EXCEPT !.head = h] ELSE seq[j]
    OBVIOUS
  <2>2. j \in DOMAIN new /\ new[j].target = v /\ new[j].open /\ new[j].head = h
    BY <1>1, <2>0, <2>1 DEF Notice
  <2> HIDE DEF new
  <2>3. Told(new, v, h)
    BY <2>2 DEF Told
  <2> QED
    BY <2>3 DEF new
<1>3. ASSUME NEW m \in Notice
      PROVE  Told(Append(seq, m), v, h)
  <2>1. j \in DOMAIN Append(seq, m) /\ Append(seq, m)[j] = seq[j]
    OBVIOUS
  <2> QED
    BY <1>1, <2>1 DEF Told
<1> QED
  BY <1>2, <1>3

\* What telling one more target must bring.
LEMMA ToldAccount ==
  ASSUME IInv, TypeOK', NEW t \in Threads, loc[t].at = "file", loc[t].saving = "no", disk' = disk,
         NEW target \in loc[t].todo, NEW seq \in Seq(Notice),
         Let(t, [loc[t] EXCEPT !.todo = @ \ {target},
                               !.copy = Renotify(loc[t].copy, loc[t].work, seq)]),
         FaithfulTo(Renotify(loc[t].copy, loc[t].work, seq), issues'),
         Told(seq, target, loc[t].head),
         \A v : Told(Notified(loc[t].copy, loc[t].work), v, loc[t].head) => Told(seq, v, loc[t].head)
  PROVE  IInv'
<1> DEFINE w == loc[t].work
           g == Renotify(loc[t].copy, w, seq)
           m == [loc[t] EXCEPT !.todo = @ \ {target}, !.copy = g]
<1>t. /\ TypeOK /\ loc[t] \in Local /\ Ready(loc[t]) /\ w \in Works /\ loc[t].copy \in Graph
  BY DEF IInv, TypeOK, Local
<1>1. Sole(t) /\ AccountOf(loc[t].copy, loc[t], issues)
  BY Turn DEF Account, LatestIn
<1>2. /\ Known(loc[t].copy, w) /\ loc[t].todo \subseteq Works
      /\ Status(loc[t].copy, w) = "CONFIRMED" /\ loc[t].head = loc[t].copy.cand[w].head
      /\ \A v \in Works : FreshIn(loc[t].copy, v)
      /\ \A v \in loc[t].copy.cand[w].targets \ loc[t].todo :
            Told(loc[t].copy.cand[w].notified, v, loc[t].head)
  BY <1>t, <1>1 DEF AccountOf, Ready
<1>3. Notified(loc[t].copy, w) = loc[t].copy.cand[w].notified
  BY <1>2 DEF Notified
<1>4. /\ (\A v \in Works : FreshIn(g, v)) /\ Status(g, w) = "CONFIRMED"
  BY <1>t, <1>2, RenotifyFresh
<1>5. /\ g.cand[w].head = loc[t].head /\ g.cand[w].targets = loc[t].copy.cand[w].targets
      /\ g \in Graph /\ Known(g, w) /\ Notified(g, w) = seq
  <2>1. ASSUME NEW h \in Graph, NEW x \in Works, Known(h, x)
        PROVE  /\ Renotify(h, x, seq).cand[x].head = h.cand[x].head
               /\ Renotify(h, x, seq).cand[x].targets = h.cand[x].targets
               /\ Renotify(h, x, seq) \in Graph /\ Known(Renotify(h, x, seq), x)
               /\ Notified(Renotify(h, x, seq), x) = seq
    BY <2>1, RenotifyType
  <2> QED
    BY <1>t, <1>2, <2>1
<1>6. g.cand[w].notified = seq
  BY <1>5 DEF Notified
<1>7. loc[t].todo \ {target} \in SUBSET (Works \cup Nat)
  BY <1>2
<1>8. m \in Local
  BY <1>t, <1>2, <1>7, CopyType
<1>9. Let(t, m) /\ FaithfulTo(g, issues')
  OBVIOUS
<1> HIDE DEF g
<1>10. /\ m.at = "file" /\ m.saving = "no" /\ m.work = w /\ m.head = loc[t].head
       /\ m.todo = loc[t].todo \ {target} /\ m.copy = g
  BY <1>t DEF Local
<1> HIDE DEF m
<1>11. Ready(m) /\ LatestIn(m, disk') = g
  BY <1>2, <1>5, <1>10 DEF Ready, LatestIn
<1>12. \A v \in g.cand[w].targets \ m.todo : Told(g.cand[w].notified, v, m.head)
  BY <1>2, <1>3, <1>5, <1>6, <1>10
<1>13. AccountOf(LatestIn(m, disk'), m, issues')
  BY <1>4, <1>5, <1>9, <1>10, <1>11, <1>12 DEF AccountOf
<1> QED
  BY <1>t, <1>1, <1>8, <1>9, <1>11, <1>13, StepAccount DEF Let

\* Each target is told: a notice has a number, so its issue gets a comment; a
\* target without an open notice gets an issue of its own.
LEMMA FileKeeps ==
  ASSUME IInv, TypeOK', "failed" \notin Faults, NEW t \in Threads, File(t)
  PROVE  IInv'
<1> DEFINE w   == loc[t].work
           seq == Notified(loc[t].copy, w)
<1>t. /\ TypeOK /\ loc[t] \in Local /\ Ready(loc[t]) /\ w \in Works /\ issues \in Seq(Issue)
      /\ loc[t].copy \in Graph /\ loc[t].head \in Heads
  BY DEF IInv, TypeOK, Local
<1>1. PICK target \in loc[t].todo :
         FileNothing(t, target) \/ FileComment(t, target) \/ FileIssue(t, target)
  BY DEF File
<1>s. /\ loc[t].at = "file" /\ loc[t].saving = "no" /\ disk' = disk
      /\ Known(loc[t].copy, w) /\ target \in Works
  BY <1>t, <1>1 DEF File, At, Ready
<1>2. FaithfulTo(loc[t].copy, issues)
  BY <1>s, Turn DEF Account, LatestIn, AccountOf
<1>3. /\ seq \in Seq(Notice) /\ seq = loc[t].copy.cand[w].notified
      /\ seq = Notified(loc[t].copy, w)
  BY <1>t, <1>s, KnownType DEF Notified
<1> DEFINE i == Prior(seq, target)
<1>4. /\ i # 0 => /\ i \in DOMAIN seq /\ seq[i].target = target /\ seq[i].open
                  /\ seq[i].number # NoUrl => Stands(issues, w, seq[i], seq[i].number)
                  /\ seq[i].number = NoUrl => ~Answered
      /\ i = 0 => \A j \in DOMAIN seq : ~(seq[j].target = target /\ seq[j].open)
  <2>1. /\ i # 0 => i \in DOMAIN seq /\ seq[i].target = target /\ seq[i].open
        /\ i = 0 => \A j \in DOMAIN seq : ~(seq[j].target = target /\ seq[j].open)
    <3> HIDE DEF seq
    <3> QED
      BY <1>3, PriorType
  <2> HIDE DEF i
  <2> QED
    BY <1>t, <1>2, <2>1, FaithIn DEF Orphaned
<1>5. CASE FileNothing(t, target)
  <2>1. /\ i # 0 /\ seq[i].head = loc[t].head /\ issues' = issues
        /\ Let(t, [loc[t] EXCEPT !.todo = @ \ {target}])
    BY <1>5 DEF FileNothing
  <2>2. Renotify(loc[t].copy, w, seq) = loc[t].copy
    <3>1. loc[t].copy.cand[w] \in Candidate
      BY <1>t, <1>s, KnownType
    <3>2. [loc[t].copy.cand[w] EXCEPT !.notified = loc[t].copy.cand[w].notified] = loc[t].copy.cand[w]
      BY <3>1 DEF Candidate
    <3>3. Renotify(loc[t].copy, w, seq)
            = [loc[t].copy EXCEPT !.cand = [loc[t].copy.cand EXCEPT ![w] =
                 [loc[t].copy.cand[w] EXCEPT !.notified = loc[t].copy.cand[w].notified]]]
      BY <1>3 DEF Renotify
    <3> QED
      BY <1>t, <3>2, <3>3 DEF Graph
  <2>3. [loc[t] EXCEPT !.todo = @ \ {target}]
           = [loc[t] EXCEPT !.todo = @ \ {target}, !.copy = Renotify(loc[t].copy, loc[t].work, seq)]
    <3>1. [loc[t] EXCEPT !.todo = @ \ {target}]
            = [loc[t] EXCEPT !.todo = @ \ {target}, !.copy = loc[t].copy]
      BY <1>t DEF Local
    <3> QED
      BY <2>2, <3>1
  <2>4. Told(seq, target, loc[t].head)
    BY <1>4, <2>1 DEF Told
  <2>5. Let(t, [loc[t] EXCEPT !.todo = @ \ {target},
                              !.copy = Renotify(loc[t].copy, loc[t].work, seq)])
    BY <2>1, <2>3
  <2>6. FaithfulTo(Renotify(loc[t].copy, loc[t].work, seq), issues')
    BY <1>2, <2>1, <2>2
  <2>7. \A v : Told(Notified(loc[t].copy, loc[t].work), v, loc[t].head) => Told(seq, v, loc[t].head)
    OBVIOUS
  <2> HIDE DEF i, seq
  <2> QED
    BY <1>1, <1>s, <1>3, <2>4, <2>5, <2>6, <2>7, ToldAccount
<1>6. CASE FileComment(t, target)
  <2> DEFINE m   == [seq[i] EXCEPT !.head = loc[t].head]
             k   == [issues[seq[i].number] EXCEPT !.told = loc[t].head]
             new == [seq EXCEPT ![i].head = loc[t].head]
  <2>1. /\ i # 0 /\ issues' = [issues EXCEPT ![seq[i].number].told = loc[t].head]
        /\ seq[i].number # NoUrl
        /\ Let(t, [loc[t] EXCEPT !.todo = @ \ {target},
                                 !.copy.cand[loc[t].work].notified[i].head = loc[t].head])
    BY <1>6 DEF FileComment, Answers
  <2>2. Let(t, [loc[t] EXCEPT !.todo = @ \ {target},
                              !.copy = Renotify(loc[t].copy, loc[t].work, new)])
    BY <1>3, <2>1 DEF Renotify
  <2>3. issues' = [issues EXCEPT ![seq[i].number] = k] /\ new = [seq EXCEPT ![i] = m]
    BY <2>1
  <2> HIDE DEF i, seq, w
  <2>4. /\ seq[i] \in Notice /\ issues[seq[i].number] \in Issue
        /\ seq[i].number \in DOMAIN issues /\ issues[seq[i].number].source = w
        /\ issues[seq[i].number].target = target /\ issues[seq[i].number].open = seq[i].open
    <3>1. i \in DOMAIN seq /\ seq[i].target = target /\ Stands(issues, w, seq[i], seq[i].number)
      BY <1>4, <2>1
    <3>2. /\ seq[i].number \in DOMAIN issues /\ issues[seq[i].number].source = w
          /\ issues[seq[i].number].target = target /\ issues[seq[i].number].open = seq[i].open
      BY <3>1 DEF Stands
    <3> QED
      BY <1>t, <1>3, <3>1, <3>2
  <2>5. /\ m \in Notice /\ m.target = target /\ m.number = seq[i].number /\ m.open = seq[i].open
        /\ m.head = loc[t].head
    BY <1>t, <1>4, <2>1, <2>4 DEF Notice
  <2>6. /\ k \in Issue /\ k.source = w /\ k.target = target /\ k.open = seq[i].open
        /\ k.told = loc[t].head
    BY <1>t, <1>4, <2>1, <2>4 DEF Issue
  <2>7. new \in Seq(Notice)
    BY <1>t, <1>3, <1>4, <2>1, NoticeType
  <2>8. Told(new, target, loc[t].head)
    <3>1. i \in DOMAIN new /\ new[i] = m
      BY <1>3, <1>4, <2>1, <2>3
    <3> HIDE DEF new, m
    <3> QED
      BY <1>4, <2>1, <2>5, <3>1 DEF Told
  <2>9. \A v : Told(Notified(loc[t].copy, loc[t].work), v, loc[t].head) => Told(new, v, loc[t].head)
    BY <1>t, <1>3, <1>4, <2>1, ToldStays DEF w
  <2> HIDE DEF m, k
  <2>10. FaithfulTo(Renotify(loc[t].copy, w, [seq EXCEPT ![i] = m]), [issues EXCEPT ![m.number] = k])
    BY <1>t, <1>s, <1>2, <1>3, <1>4, <2>1, <2>5, <2>6, FaithfulAmended
  <2>11. FaithfulTo(Renotify(loc[t].copy, loc[t].work, new), issues')
    BY <2>3, <2>5, <2>10 DEF w
  <2> HIDE DEF new
  <2> QED
    BY <1>1, <1>s, <2>2, <2>7, <2>8, <2>9, <2>11, ToldAccount
<1>7. CASE FileIssue(t, target)
  <2>1. PICK answer \in Answers :
              /\ issues' = IF answer = "failed" THEN issues
                           ELSE Append(issues, [source |-> loc[t].work, target |-> target,
                                                open |-> TRUE, told |-> loc[t].head])
              /\ Let(t, [loc[t] EXCEPT !.todo = @ \ {target},
                    !.copy.cand[loc[t].work].notified = Append(@,
                       [target |-> target, head |-> loc[t].head, open |-> TRUE,
                        number |-> IF answer = "ok" THEN Len(issues) + 1 ELSE NoUrl])])
    BY <1>7 DEF FileIssue
  <2>2. answer # "failed" /\ (answer # "ok" => ~Answered)
    BY DEF Answers, Answered
  <2>3. Answered => i = 0
    <3>1. i # 0 => seq[i].number = NoUrl
      BY <1>7 DEF FileIssue
    <3> HIDE DEF i, seq
    <3> QED
      BY <1>4, <3>1
  <2> DEFINE m   == [target |-> target, head |-> loc[t].head, open |-> TRUE,
                     number |-> IF answer = "ok" THEN Len(issues) + 1 ELSE NoUrl]
             k   == [source |-> w, target |-> target, open |-> TRUE, told |-> loc[t].head]
             new == Append(seq, m)
  <2>4. issues' = Append(issues, k)
    BY <2>1, <2>2
  <2>5. Let(t, [loc[t] EXCEPT !.todo = @ \ {target},
                              !.copy = Renotify(loc[t].copy, loc[t].work, new)])
    BY <1>3, <2>1, <2>2 DEF Renotify
  <2> HIDE DEF i, seq
  <2>6. /\ m \in Notice /\ m.target = target /\ m.open = TRUE /\ m.head = loc[t].head
        /\ m.number = Len(issues) + 1 \/ (m.number = NoUrl /\ ~Answered)
    BY <1>t, <1>s, <2>2 DEF Notice, NoUrl
  <2>7. /\ k \in Issue /\ k.source = w /\ k.target = target /\ k.open = TRUE /\ k.told = loc[t].head
    BY <1>t, <1>s DEF Issue
  <2> HIDE DEF m, k
  <2>8. new \in Seq(Notice)
    BY <1>3, <2>6
  <2>9. Told(new, target, loc[t].head)
    <3>1. Len(seq) + 1 \in DOMAIN new /\ new[Len(seq) + 1] = m
      BY <1>3, <2>6
    <3> HIDE DEF new
    <3> QED
      BY <2>6, <3>1 DEF Told
  <2>10. \A v : Told(Notified(loc[t].copy, loc[t].work), v, loc[t].head) => Told(new, v, loc[t].head)
    BY <1>t, <1>3, <2>6, ToldStays DEF w
  <2> HIDE DEF w
  <2>11. FaithfulTo(Renotify(loc[t].copy, w, Append(seq, m)), Append(issues, k))
    BY <1>t, <1>s, <1>2, <1>3, <1>4, <2>3, <2>6, <2>7, FaithfulAppended
  <2>12. FaithfulTo(Renotify(loc[t].copy, loc[t].work, new), issues')
    BY <2>4, <2>11 DEF w
  <2> HIDE DEF new
  <2> QED
    BY <1>1, <1>s, <2>5, <2>8, <2>9, <2>10, <2>12, ToldAccount
<1> QED
  BY <1>1, <1>5, <1>6, <1>7

\* The candidate becomes notified when every target has been told.
LEMMA ConcludeKeeps ==
  ASSUME IInv, TypeOK', NEW t \in Threads, Conclude(t)
  PROVE  IInv'
<1> DEFINE w == loc[t].work
           c == [loc[t].copy.cand[w] EXCEPT !.status = "NOTIFIED", !.quiet = FALSE]
           g == With(loc[t].copy, w, c)
           m == Save(loc[t], g, "next")
<1>t. /\ TypeOK /\ loc[t] \in Local /\ Ready(loc[t]) /\ w \in Works /\ issues \in Seq(Issue)
      /\ loc[t].copy \in Graph /\ "next" \in Plain \ {"retract", "label"}
  BY DEF IInv, TypeOK, Local, Plain, Stages
<1>s. /\ loc[t].at = "file" /\ loc[t].saving = "no" /\ UNCHANGED <<disk, issues>>
      /\ Known(loc[t].copy, w) /\ loc[t].todo = {}
  BY <1>t DEF Conclude, At, Ready
<1>1. Sole(t) /\ AccountOf(loc[t].copy, loc[t], issues)
  BY <1>s, Turn DEF Account, LatestIn
<1>2. /\ FaithfulTo(loc[t].copy, issues) /\ \A v \in Works : FreshIn(loc[t].copy, v)
      /\ loc[t].head = loc[t].copy.cand[w].head
      /\ \A v \in loc[t].copy.cand[w].targets :
            Told(loc[t].copy.cand[w].notified, v, loc[t].copy.cand[w].head)
  BY <1>s, <1>1 DEF AccountOf
<1>3. loc[t].copy.cand[w] \in Candidate
        /\ Notified(loc[t].copy, w) = loc[t].copy.cand[w].notified
  BY <1>t, <1>s, KnownType DEF Notified
<1>4. /\ c \in Candidate /\ c.notified = loc[t].copy.cand[w].notified
      /\ c.head = loc[t].copy.cand[w].head /\ c.targets = loc[t].copy.cand[w].targets
  BY <1>3 DEF Candidate, Statuses
<1>5. Let(t, m)
  <2>1. [loc[t].copy EXCEPT !.cand[w].status = "NOTIFIED", !.cand[w].quiet = FALSE] = g
    BY <1>t, <1>3 DEF With, Graph
  <2> QED
    BY <2>1 DEF Conclude
<1> HIDE DEF c
<1>6. Fresh(c)
  BY <1>2, <1>4 DEF Fresh
<1>7. /\ g \in Graph /\ g.cand[w] = c
      /\ \A v \in Works : Notified(g, v) = Notified(loc[t].copy, v)
      /\ \A v \in Works \ {w} : FreshIn(g, v)
  <2> HIDE DEF w
  <2> QED
    BY <1>t, <1>2, <1>3, <1>4, WithNotices
<1> HIDE DEF g
<1>8. FaithfulTo(g, issues)
  BY <1>t, <1>2, <1>7, SameNotices, IssueSources
<1>9. Calm(g, issues)
  BY <1>6, <1>7, <1>8 DEF Calm, FreshIn
<1> QED
  BY <1>t, <1>s, <1>1, <1>5, <1>7, <1>9, CalmGoOn

\* A quiet window changes nothing that was told.
LEMMA ElapseKeeps ==
  ASSUME IInv, TypeOK', Elapse
  PROVE  IInv'
<1>t. TypeOK /\ disk \in Graph /\ issues \in Seq(Issue) /\ issues' = issues /\ disk' = Aged(disk)
  BY DEF IInv, TypeOK, Elapse
<1>1. ASSUME NEW t \in Threads
      PROVE  /\ loc[t] \in Local /\ Ready(loc[t])
             /\ loc'[t].at = loc[t].at /\ loc'[t].work = loc[t].work /\ loc'[t].head = loc[t].head
             /\ loc'[t].todo = loc[t].todo /\ loc'[t].saving = loc[t].saving
             /\ loc[t].at # "idle" => loc'[t].copy = Aged(loc[t].copy)
  <2>1. loc[t] \in Local /\ Ready(loc[t])
    BY <1>t DEF TypeOK
  <2>2. loc'[t] = IF loc[t].at = "idle" THEN loc[t]
                  ELSE [loc[t] EXCEPT !.copy = Aged(loc[t].copy), !.aged = TRUE]
    BY DEF Elapse
  <2> QED
    BY <2>1, <2>2 DEF Local
<1>2. \A t \in Threads : Sole(t)' <=> Sole(t)
  BY <1>1 DEF Sole
<1>3. ASSUME NEW t \in Threads, Sole(t)'
      PROVE  Account(t)'
  <2> DEFINE g == LatestIn(loc[t], disk)
  <2>1. AccountOf(g, loc[t], issues)
    BY <1>2, <1>3 DEF IInv, Account
  <2>2. g \in Graph
    BY <1>t, <1>1 DEF LatestIn, Local
  <2>3. LatestIn(loc'[t], disk') = Aged(g)
    BY <1>t, <1>1 DEF LatestIn, Ready
  <2> HIDE DEF g
  <2>4. AccountOf(Aged(g), loc[t], issues)
    BY <1>t, <1>1, <2>1, <2>2, AgedAccount
  <2>5. AccountOf(Aged(g), loc'[t], issues)
    BY <1>1, <2>4, SameAccount
  <2> QED
    BY <1>t, <2>3, <2>5 DEF Account
<1> QED
  BY <1>2, <1>3 DEF IInv

-----------------------------------------------------------------------------
\* Every step of either thread keeps the account.
LEMMA Inductive ==
  ASSUME ~Overlap, "failed" \notin Faults
  PROVE  IInv /\ [Next]_vars => IInv'
<1> SUFFICES ASSUME IInv, [Next]_vars PROVE IInv'
  OBVIOUS
<1>1. TypeOK'
  BY TypeStep DEF IInv
<1>2. ASSUME NEW t \in Threads, Step(t) PROVE IInv'
  BY <1>1, <1>2, SaveKeeps, TurnKeeps, RecordKeeps, EvaluateKeeps, StampKeeps, AssessKeeps,
     LabelKeeps, RetractKeeps, CloseKeeps, ConfirmKeeps, FileKeeps, ConcludeKeeps DEF Step
<1>3. CASE UNCHANGED vars
  BY <1>1, <1>3 DEF vars, IInv, Sole, Account
<1>4. "watch" \in Threads
  BY DEF Threads
<1> QED
  BY <1>1, <1>2, <1>3, <1>4, TurnKeeps, SweepKeeps, ElapseKeeps DEF Next

\* Nothing is notified and nobody works when the server begins.
LEMMA Initially == Init => IInv
<1> SUFFICES ASSUME Init PROVE IInv
  OBVIOUS
<1>1. TypeOK
  BY TypeInit
<1>2. \A t \in Threads : loc[t] = Idle
  BY DEF Init
<1>3. Idle.at = "idle" /\ Idle.saving = "no"
  BY DEF Idle
<1>4. New.status = "OBSERVED" /\ New.notified = <<>> /\ New \in Candidate
  BY Constants DEF New
<1>5. [New EXCEPT !.quiet = TRUE].status = "OBSERVED" /\ [New EXCEPT !.quiet = TRUE].notified = <<>>
  BY <1>4 DEF Candidate
<1>6. \A w \in Works : disk.cand[w] = IF w \in Active THEN [New EXCEPT !.quiet = TRUE] ELSE NoCandidate
  BY DEF Init
<1>7. ASSUME NEW w \in Works
      PROVE  Notified(disk, w) = <<>> /\ FreshIn(disk, w)
  BY <1>5, <1>6 DEF Notified, FreshIn, Known, Fresh
<1>8. issues = <<>>
  BY DEF Init
<1>9. Calm(disk, issues)
  BY <1>7, <1>8 DEF Calm, FaithfulTo
<1>10. ASSUME NEW t \in Threads PROVE Sole(t) /\ Account(t)
  <2>1. LatestIn(loc[t], disk) = disk /\ loc[t].at = "idle"
    BY <1>2, <1>3 DEF LatestIn
  <2>2. AccountOf(disk, loc[t], issues)
    BY <1>9, <2>1, CalmAccount
  <2> QED
    BY <1>2, <1>3, <2>1, <2>2 DEF Sole, Account
<1>11. "watch" \in Threads
  BY DEF Threads
<1> QED
  BY <1>1, <1>10, <1>11 DEF IInv

\* The invariant the two theorems rest on.
LEMMA Invariant ==
  ASSUME ~Overlap, "failed" \notin Faults
  PROVE  Spec => []IInv
<1>1. Init => IInv
  BY Initially
<1>2. IInv /\ [Next]_vars => IInv'
  BY Inductive
<1> QED
  BY <1>1, <1>2, PTL DEF Spec

\* The account makes an open issue the only one of its two works.
LEMMA OneIssue == Answered /\ IInv => OneIssuePerWork
<1> SUFFICES ASSUME Answered, IInv, NEW w \in Works, NEW v \in Works
             PROVE  Cardinality(IssuesOf(w, v)) <= 1
  BY DEF OneIssuePerWork
<1>1. PICK g : FaithfulTo(g, issues)
  BY DEF IInv, Account, AccountOf
<1>2. ASSUME NEW a \in IssuesOf(w, v), NEW b \in IssuesOf(w, v) PROVE a = b
  <2>1. /\ a \in DOMAIN issues /\ issues[a].source = w /\ issues[a].target = v /\ issues[a].open
        /\ b \in DOMAIN issues /\ issues[b].source = w /\ issues[b].target = v /\ issues[b].open
    BY DEF IssuesOf
  <2>2. PICK i \in DOMAIN Notified(g, w) : Notified(g, w)[i].number = a
    BY <1>1, <2>1 DEF FaithfulTo
  <2>3. PICK j \in DOMAIN Notified(g, w) : Notified(g, w)[j].number = b
    BY <1>1, <2>1 DEF FaithfulTo
  <2>4. /\ Notified(g, w)[i].target = v /\ Notified(g, w)[i].open
        /\ Notified(g, w)[j].target = v /\ Notified(g, w)[j].open
    BY <1>1, <2>1, <2>2, <2>3 DEF FaithfulTo, Stands, Orphaned
  <2>5. i = j
    BY <1>1, <2>4 DEF FaithfulTo
  <2> QED
    BY <2>2, <2>3, <2>5
<1>3. CASE IssuesOf(w, v) = {}
  <2>1. Cardinality({}) = 0
    BY FS_EmptySet
  <2> QED
    BY <1>3, <2>1
<1>4. CASE IssuesOf(w, v) # {}
  <2>1. PICK a : IssuesOf(w, v) = {a}
    BY <1>2, <1>4
  <2>2. Cardinality({a}) = 1
    BY FS_Singleton
  <2> QED
    BY <2>1, <2>2
<1> QED
  BY <1>3, <1>4

\* At rest the account is about the file.
LEMMA Current == IInv => NotifiedIsCurrent
<1> SUFFICES ASSUME IInv, Resting, NEW w \in Works,
                    Status(disk, w) = "NOTIFIED", ~disk.cand[w].pending,
                    NEW v \in disk.cand[w].targets
             PROVE  \E i \in IssuesOf(w, v) : issues[i].told = disk.cand[w].head
  BY DEF NotifiedIsCurrent
<1>1. PICK t \in Threads : Account(t)
  BY DEF IInv
<1>2. loc[t].at = "idle" /\ loc[t].saving = "no"
  BY DEF Resting, IInv, TypeOK, Ready
<1>3. FaithfulTo(disk, issues) /\ FreshIn(disk, w)
  BY <1>1, <1>2 DEF Account, AccountOf, LatestIn
<1>4. Known(disk, w) /\ disk.cand[w].status = "NOTIFIED"
  BY DEF Status
<1>5. Told(disk.cand[w].notified, v, disk.cand[w].head)
  BY <1>3, <1>4 DEF FreshIn, Fresh
<1>6. PICK i \in DOMAIN Notified(disk, w) :
         /\ Notified(disk, w)[i].target = v /\ Notified(disk, w)[i].open
         /\ Notified(disk, w)[i].head = disk.cand[w].head
  BY <1>4, <1>5 DEF Told, Notified
<1>7. \E k : Stands(issues, w, Notified(disk, w)[i], k)
  BY <1>3, <1>6 DEF FaithfulTo, Orphaned
<1>8. PICK k : Stands(issues, w, Notified(disk, w)[i], k)
  BY <1>7
<1>9. k \in IssuesOf(w, v) /\ issues[k].told = disk.cand[w].head
  BY <1>6, <1>8 DEF Stands, IssuesOf
<1> QED
  BY <1>9

\* However many events there are, whatever the works and their consumers, and
\* whatever the scan finds: as long as the server and the watch loop take
\* turns and GitHub does what it is asked, confirming a candidate again updates the
\* issue of an affected work and never opens a second one.
THEOREM OneIssueEach ==
  ASSUME ~Overlap, Faults \cap {"failed", "lost"} = {}
  PROVE  Spec => []OneIssuePerWork
<1>1. "failed" \notin Faults /\ Answered
  BY DEF Answered
<1>2. Spec => []IInv
  BY <1>1, Invariant
<1>3. IInv => OneIssuePerWork
  BY <1>1, OneIssue
<1> QED
  BY <1>2, <1>3, PTL

\* When the threads take turns and GitHub refuses nothing, even if its answers are lost,
\* a candidate that rests as notified, with nothing left to evaluate,
\* has an open issue on every work its last evaluation named, and that issue
\* was told of the candidate's head.
THEOREM NoticesAreCurrent ==
  ASSUME ~Overlap, "failed" \notin Faults
  PROVE  Spec => []NotifiedIsCurrent
  BY Invariant, Current, PTL
=============================================================================
