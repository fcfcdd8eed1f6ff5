-------------------------- MODULE ContainerProofs ---------------------------
(***************************************************************************)
(* What boxes, enforcers and rollback give the containers of one process,  *)
(* for any number of containers, compartments and threads, any kernel, and *)
(* any code a compartment runs: files change only within the boxes; the    *)
(* policies checked are those of the compartments that run, unless runs go *)
(* side by side; what a failed compartment did is undone, where nothing    *)
(* stands in the way; and what completed compartments send to later ones   *)
(* arrives.                                                                *)
(***************************************************************************)
EXTENDS Container, FiniteFolds, SequenceTheorems

USE ContainerAssumption

-----------------------------------------------------------------------------
(* Types.  What the queues, the outbox and the records of messages hold is *)
(* left open here: it is said below, where messages matter.                *)

RunStages == {"setup", "entered", "between", "inside", "hook", "over", "raised"}
Boxes == [state    : {"created", "ready", "running", "destroyed"},
          applied  : BOOLEAN,
          snapshot : Contents \cup {NoTree, Damaged}]
Runs == [at : RunStages, next : Nat \ {0}]
Runtimes(Queues, Logs, Edges) ==
    [order   : Seq(Compartments),
     edges   : Edges,
     queue   : [Compartments -> Queues],
     outbox  : Logs,
     sent    : Logs,
     got     : [Compartments -> Queues],
     before  : Contents \cup {NoTree},
     outcome : [Compartments -> {"none", "running", "done", "failed",
                                 "interrupted"}]]

RuntimesTyped ==
    \E Queues, Logs, Edges : runtime \in [Containers -> Runtimes(Queues, Logs, Edges)]

Typed ==
    /\ setup \in Setups
    /\ files \in [Watched -> Contents]
    /\ layers = [t \in Threads |-> layers[t]]
    /\ calls \in [Threads -> Seq(Containers)]
    /\ originals = [k \in Containers |-> originals[k]]
    /\ box \in [Containers -> Boxes]
    /\ run \in [Containers -> Runs]
    /\ RuntimesTyped

\* A runtime may be replaced by any record of the same shape.
LEMMA ReplaceRuntime ==
    ASSUME RuntimesTyped, NEW k \in Containers, NEW Queues, NEW Logs, NEW Edges,
           NEW r \in Runtimes(Queues, Logs, Edges),
           runtime' = [runtime EXCEPT ![k] = r]
    PROVE  RuntimesTyped'
<1>1. PICK Q, L, E : runtime \in [Containers -> Runtimes(Q, L, E)]
  BY DEF RuntimesTyped
<1>2. /\ Runtimes(Q, L, E) \subseteq Runtimes(Q \cup Queues, L \cup Logs, E \cup Edges)
      /\ r \in Runtimes(Q \cup Queues, L \cup Logs, E \cup Edges)
  BY DEF Runtimes
<1>3. runtime' \in [Containers -> Runtimes(Q \cup Queues, L \cup Logs, E \cup Edges)]
  BY <1>1, <1>2
<1> QED BY <1>3 DEF RuntimesTyped

LEMMA InitTyped == Init => Typed
<1> SUFFICES ASSUME Init PROVE Typed
  OBVIOUS
<1>1. NewRuntime \in Runtimes({<<>>}, {<<>>}, {{}})
  BY DEF NewRuntime, Runtimes
<1>2. runtime \in [Containers -> Runtimes({<<>>}, {<<>>}, {{}})]
  BY <1>1 DEF Init
<1>3. <<>> \in Seq(Containers)
  OBVIOUS
<1> QED BY <1>2, <1>3 DEF Init, Typed, RuntimesTyped, Boxes, Runs, RunStages

\* What a compartment's start, return, failure and messages do to a runtime:
\* it keeps its shape and its order, and other runtimes are left alone.
LEMMA RuntimeSteps ==
    ASSUME Typed, NEW k \in Containers,
           \/ \E c \in Compartments : Add(k, c)
           \/ \E from, to \in Compartments : Edge(k, from, to)
           \/ (StartCompartment(k) \/ SnapshotRaises(k)) /\ Current(k) \in Compartments
           \/ \E to \in Compartments : Send(k, to)
           \/ Return(k) /\ Current(k) \in Compartments
           \/ (Raise(k) \/ Interrupt(k)) /\ Current(k) \in Compartments
    PROVE  /\ RuntimesTyped'
           /\ \A j \in Containers \ {k} : runtime'[j] = runtime[j]
           /\ run[k].at # "setup" => runtime'[k].order = runtime[k].order
           /\ run[k].at = "inside" => runtime'[k].before = runtime[k].before
<1>1. PICK Q, L, E : runtime \in [Containers -> Runtimes(Q, L, E)]
  BY DEF Typed, RuntimesTyped
<1>2. runtime[k] \in Runtimes(Q, L, E)
  BY <1>1
<1>3. CASE \E c \in Compartments : Add(k, c)
  <2>1. PICK c \in Compartments : Add(k, c)
    BY <1>3
  <2> DEFINE o == Append(runtime[k].order, c)
             r == [runtime[k] EXCEPT !.order = o]
  <2>a. runtime[k].order \in Seq(Compartments)
    BY <1>2 DEF Runtimes
  <2>b. o \in Seq(Compartments)
    BY <2>a
  <2>2. r \in Runtimes(Q, L, E)
    <3> HIDE DEF o
    <3> QED BY <1>2, <2>b DEF Runtimes
  <2>3. runtime' = [runtime EXCEPT ![k] = r] /\ run[k].at = "setup"
    BY <2>1 DEF Add
  <2> HIDE DEF r
  <2> QED BY <1>1, <2>2, <2>3, ReplaceRuntime DEF Typed
<1>4. CASE \E from, to \in Compartments : Edge(k, from, to)
  <2>1. PICK from \in Compartments, to \in Compartments : Edge(k, from, to)
    BY <1>4
  <2> DEFINE r == [runtime[k] EXCEPT !.edges = runtime[k].edges \cup {<<from, to>>}]
  <2>2. r \in Runtimes(Q, L, {runtime[k].edges \cup {<<from, to>>}})
    BY <1>2 DEF Runtimes
  <2>3. runtime' = [runtime EXCEPT ![k] = r] /\ run[k].at = "setup"
    BY <2>1 DEF Edge
  <2> HIDE DEF r
  <2> QED BY <1>1, <2>2, <2>3, ReplaceRuntime DEF Typed
<1>5. CASE \E to \in Compartments : Send(k, to)
  <2>1. PICK to \in Compartments : Send(k, to)
    BY <1>5
  <2> DEFINE m == [from |-> Current(k), to |-> to, nr |-> Len(runtime[k].sent) + 1]
             o == Append(runtime[k].outbox, m)
             s == Append(runtime[k].sent, m)
             r == [runtime[k] EXCEPT !.outbox = o, !.sent = s]
  <2>2. runtime' = [runtime EXCEPT ![k].outbox = o, ![k].sent = s]
        /\ run[k].at = "inside"
    BY <2>1 DEF Send
  <2> HIDE DEF o, s
  <2>3. /\ r \in Runtimes(Q, L \cup {o, s}, E)
        /\ r.order = runtime[k].order /\ r.before = runtime[k].before
    BY <1>2 DEF Runtimes
  <2>4. runtime' = [runtime EXCEPT ![k] = r]
    BY <1>1, <2>2 DEF Runtimes
  <2> HIDE DEF r
  <2> QED BY <1>1, <2>2, <2>3, <2>4, ReplaceRuntime DEF Typed
<1>6. CASE StartCompartment(k) /\ Current(k) \in Compartments
  <2> DEFINE c == Current(k)
             q == runtime[k].queue[c]
             b == files[Workdir[k]]
             r == [runtime[k] EXCEPT !.got[c] = q, !.queue[c] = <<>>,
                                     !.before = b, !.outcome[c] = "running"]
  <2>1. b \in Contents /\ c \in Compartments
    BY <1>6 DEF Typed
  <2>2. runtime' = [runtime EXCEPT ![k].got[c] = q, ![k].queue[c] = <<>>,
                                   ![k].before = b, ![k].outcome[c] = "running"]
        /\ run[k].at = "between"
    BY <1>6 DEF StartCompartment
  <2> HIDE DEF c, q, b
  <2>3. /\ r \in Runtimes(Q \cup {q, <<>>}, L, E)
        /\ r.order = runtime[k].order
    BY <1>2, <2>1 DEF Runtimes
  <2>4. runtime' = [runtime EXCEPT ![k] = r]
    <3>1. runtime'[k] = r
      BY <1>1, <2>2 DEF Runtimes
    <3>2. DOMAIN runtime = Containers /\ DOMAIN runtime' = Containers
          /\ \A j \in Containers \ {k} : runtime'[j] = runtime[j]
      BY <1>1, <2>2
    <3>3. runtime' = [j \in Containers |-> runtime'[j]]
      BY <1>1, <2>2
    <3> HIDE DEF r
    <3> QED BY <3>1, <3>2, <3>3
  <2> HIDE DEF r
  <2> QED BY <1>1, <2>2, <2>3, <2>4, ReplaceRuntime DEF Typed
<1>7. CASE Return(k) /\ Current(k) \in Compartments
  <2> DEFINE c == Current(k)
             q == [d \in Compartments |-> Routed(k, d)]
             r == [runtime[k] EXCEPT !.queue = q, !.outbox = <<>>,
                                     !.outcome[c] = "done"]
  <2>1. c \in Compartments /\ q \in [Compartments -> {Routed(k, d) : d \in Compartments}]
    BY <1>7
  <2>2. runtime' = [runtime EXCEPT ![k].queue = q, ![k].outbox = <<>>,
                                   ![k].outcome[c] = "done"]
    BY <1>7 DEF Return
  <2> HIDE DEF c, q
  <2>3. /\ r \in Runtimes(Q \cup {Routed(k, d) : d \in Compartments}, L \cup {<<>>}, E)
        /\ r.order = runtime[k].order /\ r.before = runtime[k].before
    BY <1>2, <2>1 DEF Runtimes
  <2>4. runtime' = [runtime EXCEPT ![k] = r]
    BY <1>1, <2>2 DEF Runtimes
  <2> HIDE DEF r
  <2> QED BY <1>1, <2>3, <2>4, ReplaceRuntime DEF Typed
<1>8. CASE (Raise(k) \/ Interrupt(k)) /\ Current(k) \in Compartments
  <2> DEFINE c == Current(k)
  <2>1. PICK o \in {"failed", "interrupted"} :
          runtime' = [runtime EXCEPT ![k].outcome[c] = o]
    BY <1>8 DEF Raise, Interrupt
  <2>2. c \in Compartments
    BY <1>8
  <2> HIDE DEF c
  <2> DEFINE r == [runtime[k] EXCEPT !.outcome[c] = o]
  <2>3. /\ r \in Runtimes(Q, L, E)
        /\ r.order = runtime[k].order /\ r.before = runtime[k].before
    BY <1>2, <2>2 DEF Runtimes
  <2>4. runtime' = [runtime EXCEPT ![k] = r]
    BY <1>1, <2>1 DEF Runtimes
  <2> HIDE DEF r
  <2> QED BY <1>1, <2>3, <2>4, ReplaceRuntime DEF Typed
<1>9. CASE SnapshotRaises(k) /\ Current(k) \in Compartments
  <2> DEFINE c == Current(k)
             r == [runtime[k] EXCEPT !.queue[c] = <<>>]
  <2>1. runtime' = [runtime EXCEPT ![k].queue[c] = <<>>] /\ run[k].at = "between"
    BY <1>9 DEF SnapshotRaises
  <2>2. c \in Compartments
    BY <1>9
  <2> HIDE DEF c
  <2>3. r \in Runtimes(Q \cup {<<>>}, L, E) /\ r.order = runtime[k].order
    BY <1>2, <2>2 DEF Runtimes
  <2>4. runtime' = [runtime EXCEPT ![k] = r]
    BY <1>1, <2>1 DEF Runtimes
  <2> HIDE DEF r
  <2> QED BY <1>1, <2>1, <2>3, <2>4, ReplaceRuntime DEF Typed
<1> QED BY <1>3, <1>4, <1>5, <1>6, <1>7, <1>8, <1>9

\* A compartment that runs, or has just run, is one of the order's.
InOrder == \A k \in Containers :
    run[k].at \in {"inside", "hook"} => run[k].next \in DOMAIN runtime[k].order

LEMMA CurrentIsCompartment ==
    ASSUME Typed, NEW k \in Containers, run[k].next \in DOMAIN runtime[k].order
    PROVE  Current(k) \in Compartments
<1>1. runtime[k].order \in Seq(Compartments)
  BY DEF Typed, RuntimesTyped, Runtimes
<1> QED BY <1>1 DEF Current

LEMMA NextIsInOrder ==
    ASSUME Typed, NEW k \in Containers, run[k].next <= Len(runtime[k].order)
    PROVE  run[k].next \in DOMAIN runtime[k].order
<1>1. runtime[k].order \in Seq(Compartments)
  BY DEF Typed, RuntimesTyped, Runtimes
<1>2. run[k].next \in Nat \ {0}
  BY DEF Typed, Runs
<1> QED BY <1>1, <1>2

\* A step of a run that is under way, and of the container k.
RunStep(k) ==
    \/ \E entry \in Compartments \cup {NoEntry} : RunOrder(k, entry)
    \/ StartCompartment(k) \/ SnapshotRaises(k)
    \/ InCompartment(k)
    \/ Hook(k)
    \/ Exit(k)
Move(k) ==
    \/ \E c \in Compartments : Add(k, c)
    \/ \E from, to \in Compartments : Edge(k, from, to)
    \/ Enter(k)
    \/ Innermost(k) /\ RunStep(k)

\* What a compartment does to files and snapshots.
Change(k) ==
    \/ \E place \in Watched, content \in Contents, right \in WriteRights :
          ChangeFile(k, place, content, right)
    \/ \E of \in Containers : ChangeSnapshot(k, of)

\* The stages a container goes through, and what no other container sees of it.
LEMMA RunSteps ==
    ASSUME Typed, InOrder, NEW k \in Containers, Move(k)
    PROVE  /\ run' \in [Containers -> Runs]
           /\ \A j \in Containers \ {k} : run'[j] = run[j]
<1>0. run \in [Containers -> Runs] /\ run[k] \in Runs
  BY DEF Typed
<1>1. ASSUME NEW at \in RunStages, Goto(k, at) \/ Leave(k, at)
      PROVE  run' \in [Containers -> Runs] /\ run'[k].at = at
             /\ \A j \in Containers \ {k} : run'[j] = run[j]
  BY <1>0, <1>1 DEF Goto, Leave, Runs
<1>2. CASE \/ \E c \in Compartments : Add(k, c)
           \/ \E from, to \in Compartments : Edge(k, from, to)
           \/ \E to \in Compartments : Send(k, to)
           \/ Change(k)
  BY <1>0, <1>2 DEF Add, Edge, Send, Change, ChangeFile, ChangeSnapshot
<1>3. CASE Enter(k)
  <2>1. \E at \in {"entered", "raised"} : Goto(k, at)
    BY <1>3 DEF Enter
  <2> QED BY <1>1, <2>1 DEF RunStages
<1>4. CASE \E entry \in Compartments \cup {NoEntry} : RunOrder(k, entry)
  <2>1. PICK entry \in Compartments \cup {NoEntry} : RunOrder(k, entry)
    BY <1>4
  <2>2. CASE Leave(k, "raised")
    BY <1>1, <2>2 DEF RunStages
  <2>3. CASE ~(runtime[k].order = <<>> \/ entry \notin Registered(k) \cup {NoEntry})
    <3> DEFINE n == IF entry = NoEntry THEN 1
                    ELSE CHOOSE i \in DOMAIN runtime[k].order : runtime[k].order[i] = entry
    <3>1. runtime[k].order \in Seq(Compartments)
      BY DEF Typed, RuntimesTyped, Runtimes
    <3>2. n \in Nat \ {0}
      <4>1. CASE entry = NoEntry
        BY <4>1
      <4>2. CASE entry # NoEntry
        <5>1. \E i \in DOMAIN runtime[k].order : runtime[k].order[i] = entry
          BY <2>3, <4>2 DEF Registered, Range
        <5>2. n \in DOMAIN runtime[k].order
          BY <4>2, <5>1
        <5>3. DOMAIN runtime[k].order \subseteq Nat \ {0}
          BY <3>1
        <5> QED BY <5>2, <5>3
      <4> QED BY <4>1, <4>2
    <3>3. run' = [run EXCEPT ![k] = [at |-> "between", next |-> n]]
      BY <2>1, <2>3 DEF RunOrder
    <3> HIDE DEF n
    <3>4. [at |-> "between", next |-> n] \in Runs
      BY <3>2 DEF Runs, RunStages
    <3> QED BY <1>0, <3>3, <3>4
  <2> QED BY <2>1, <2>2, <2>3 DEF RunOrder
<1>5. CASE StartCompartment(k)
  <2>1. Goto(k, "inside") /\ run[k].at = "between"
    BY <1>5 DEF StartCompartment
  <2> QED BY <1>1, <2>1 DEF RunStages
<1>6. CASE \/ Return(k) \/ Raise(k) \/ Interrupt(k) \/ Exit(k)
           \/ SnapshotRaises(k) \/ HookRaises(k)
  <2>1. \E at \in {"hook", "raised", "over"} : Goto(k, at) \/ Leave(k, at)
    BY <1>6 DEF Return, Raise, Interrupt, Exit, SnapshotRaises, HookRaises
  <2> QED BY <1>1, <2>1 DEF RunStages
<1>7. CASE CompartmentHook(k)
  <2>1. run' = [run EXCEPT ![k] = [at |-> "between", next |-> run[k].next + 1]]
    BY <1>7 DEF CompartmentHook
  <2>2. [at |-> "between", next |-> run[k].next + 1] \in Runs
    BY <1>0 DEF Runs, RunStages
  <2> QED BY <1>0, <2>1, <2>2
<1> QED BY <1>2, <1>3, <1>4, <1>5, <1>6, <1>7 DEF Move, RunStep, InCompartment, Change, Hook

\* What a step does to the calls, the policies and the stage of a run.
Entering(k) ==
    /\ run[k].at = "setup" /\ run'[k].at = "entered"
    /\ setup.overlap \/ \A j \in Containers : ~Running(j)
    /\ calls[Thread(k)] # <<>> => run[Last(calls[Thread(k)])].at = "inside"
    /\ calls' = [calls EXCEPT ![Thread(k)] = Append(@, k)]
    /\ UNCHANGED <<patched, originals>>
Idle(k) ==
    /\ run[k].at = "setup" /\ run'[k].at \in {"setup", "raised"}
    /\ UNCHANGED <<calls, patched, originals>>
Going(k) ==
    /\ Innermost(k)
    /\ \/ run[k].at \in {"entered", "hook"} /\ run'[k].at = "between"
       \/ run[k].at = "inside" /\ run' = run
    /\ UNCHANGED <<calls, patched, originals>>
Beginning(k) ==
    /\ Innermost(k) /\ StartCompartment(k)
    /\ run[k].at = "between" /\ run'[k].at = "inside" /\ run'[k].next = run[k].next
    /\ Patch(k) /\ UNCHANGED calls
Ending(k) ==
    /\ Innermost(k)
    /\ run[k].at = "inside" /\ Unpatch(k)
    /\ \/ run'[k].at = "hook" /\ UNCHANGED calls
       \/ run'[k].at = "raised" /\ calls' = [calls EXCEPT ![Thread(k)] = Front(@)]
Leaving(k) ==
    /\ Innermost(k)
    /\ run[k].at \in {"entered", "between", "hook"} /\ run'[k].at \in {"raised", "over"}
    /\ calls' = [calls EXCEPT ![Thread(k)] = Front(@)]
    /\ UNCHANGED <<patched, originals>>

LEMMA StageSteps ==
    ASSUME Typed, NEW k \in Containers, Move(k)
    PROVE  \/ Entering(k) \/ Idle(k) \/ Going(k) \/ Beginning(k) \/ Ending(k) \/ Leaving(k)
<1>0. run \in [Containers -> Runs]
  BY DEF Typed
<1>1. CASE \/ \E c \in Compartments : Add(k, c)
           \/ \E from, to \in Compartments : Edge(k, from, to)
  BY <1>1 DEF Add, Edge, Idle
<1>2. CASE Enter(k)
  BY <1>0, <1>2 DEF Enter, Goto, Runs, Entering, Idle
<1>3. CASE Innermost(k) /\ \E entry \in Compartments \cup {NoEntry} : RunOrder(k, entry)
  <2>1. PICK entry : RunOrder(k, entry)
    BY <1>3
  <2>2. CASE Leave(k, "raised")
    BY <1>0, <1>3, <2>1, <2>2 DEF RunOrder, Leave, Goto, Runs, Leaving
  <2>3. ASSUME NEW n, run' = [run EXCEPT ![k] = [at |-> "between", next |-> n]], UNCHANGED calls
        PROVE  Going(k)
    BY <1>0, <1>3, <2>1, <2>3 DEF RunOrder, Going
  <2> QED BY <2>1, <2>2, <2>3 DEF RunOrder
<1>4. CASE Innermost(k) /\ StartCompartment(k)
  BY <1>0, <1>4 DEF StartCompartment, Goto, Runs, Beginning
<1>5. CASE Innermost(k) /\ (Change(k) \/ \E to \in Compartments : Send(k, to))
  BY <1>5 DEF Change, ChangeFile, ChangeSnapshot, Send, Going
<1>6. CASE Innermost(k) /\ (Return(k) \/ Raise(k) \/ Interrupt(k))
  BY <1>0, <1>6 DEF Return, Raise, Interrupt, Leave, Goto, Runs, Ending
<1>7. CASE Innermost(k) /\ CompartmentHook(k)
  BY <1>0, <1>7 DEF CompartmentHook, Going
<1>8. CASE Innermost(k) /\ (SnapshotRaises(k) \/ HookRaises(k) \/ Exit(k))
  BY <1>0, <1>8 DEF SnapshotRaises, HookRaises, Exit, Leave, Goto, Runs, Leaving
<1> QED BY <1>1, <1>2, <1>3, <1>4, <1>5, <1>6, <1>7, <1>8
        DEF Move, RunStep, InCompartment, Change, Hook

\* The calls stay sequences of containers, and the variables functions.
LEMMA CallsTyped ==
    ASSUME Typed, NEW k \in Containers, Move(k)
    PROVE  /\ Thread(k) \in Threads /\ setup' \in Setups
           /\ calls' \in [Threads -> Seq(Containers)]
           /\ layers' = [t \in Threads |-> layers'[t]]
           /\ originals' = [j \in Containers |-> originals'[j]]
<1>0. Thread(k) \in Threads /\ setup' = setup
  BY ContainerAssumption DEF Typed, Thread, Move, RunStep, InCompartment, Hook, Add, Edge, Enter,
     RunOrder, StartCompartment, SnapshotRaises, ChangeFile, ChangeSnapshot, Send, Return, Raise,
     Interrupt, CompartmentHook, HookRaises, Exit
<1>1. calls' \in [Threads -> Seq(Containers)]
  <2> DEFINE s == calls[Thread(k)]
  <2>0. calls \in [Threads -> Seq(Containers)] /\ s \in Seq(Containers)
    BY <1>0 DEF Typed
  <2>1. CASE calls' = calls
    BY <2>0, <2>1
  <2>2. CASE calls' = [calls EXCEPT ![Thread(k)] = Append(s, k)]
    <3>1. Append(s, k) \in Seq(Containers)
      BY <2>0
    <3> HIDE DEF s
    <3> QED BY <2>0, <2>2, <3>1
  <2>3. CASE calls' = [calls EXCEPT ![Thread(k)] = Front(s)] /\ s # <<>>
    <3>1. Front(s) \in Seq(Containers)
      BY <2>0, <2>3 DEF Front
    <3> HIDE DEF s
    <3> QED BY <2>0, <2>3, <3>1
  <2> QED BY <2>1, <2>2, <2>3, StageSteps DEF Entering, Idle, Going, Beginning, Ending, Leaving,
             Innermost
<1>2. layers' = [t \in Threads |-> layers'[t]]
  <2>1. CASE layers' = layers
    BY <2>1 DEF Typed
  <2>2. ASSUME NEW answer, Confine(k, answer)
        PROVE  layers' = [t \in Threads |-> layers'[t]]
    BY <2>2 DEF Confine
  <2> QED BY <2>1, <2>2 DEF Move, RunStep, InCompartment, Hook, Add, Edge, Enter, RunOrder,
             StartCompartment, SnapshotRaises, ChangeFile, ChangeSnapshot, Send, Return, Raise,
             Interrupt, CompartmentHook, HookRaises, Exit
<1>3. originals' = [j \in Containers |-> originals'[j]]
  <2>1. originals' = originals \/ \E o : originals' = [originals EXCEPT ![k] = o]
    BY StageSteps DEF Entering, Idle, Going, Beginning, Ending, Leaving, Patch, Unpatch
  <2>2. DOMAIN originals = Containers
    BY DEF Typed
  <2>3. ASSUME NEW o, originals' = [originals EXCEPT ![k] = o]
        PROVE  originals' = [j \in Containers |-> originals'[j]]
    <3>1. originals' = [j \in Containers |-> IF j = k THEN o ELSE originals[j]]
      BY <2>2, <2>3
    <3> QED BY <3>1
  <2>4. CASE originals' = originals
    BY <2>4 DEF Typed
  <2> QED BY <2>1, <2>3, <2>4
<1>4. setup' \in Setups
  BY <1>0 DEF Typed
<1> QED BY <1>0, <1>1, <1>2, <1>3, <1>4

\* What a hook makes of the files: where writing is forbidden nothing, and where the
\* snapshot is whole and restores are not hindered, what the snapshot holds.
LEMMA HookFiles ==
    ASSUME Typed, NEW k \in Containers, Hook(k)
    PROVE  \/ files' = files
           \/ /\ Reaches(k, "write", Workdir[k]) /\ RollsBack(k)
              /\ \E c \in Contents : files' = [files EXCEPT ![Workdir[k]] = c]
<1>0. files \in [Watched -> Contents] /\ box[k] \in Boxes /\ Workdir[k] \in Watched
  BY ContainerAssumption DEF Typed
<1>1. CASE files' = [files EXCEPT ![Workdir[k]] = files[Workdir[k]]]
  BY <1>0, <1>1
<1>2. ASSUME NEW content \in Restored(k), RollsBack(k), files' = [files EXCEPT ![Workdir[k]] = content]
      PROVE  \/ files' = files
             \/ /\ Reaches(k, "write", Workdir[k]) /\ RollsBack(k)
                /\ \E c \in Contents : files' = [files EXCEPT ![Workdir[k]] = c]
  <2>1. CASE ~Reaches(k, "write", Workdir[k])
    BY <1>0, <1>2, <2>1 DEF Restored
  <2>2. CASE Reaches(k, "write", Workdir[k])
    <3>1. content \in Contents \cup {box[k].snapshot} /\ (~Whole(k) => content \in Contents)
      BY <1>2, <2>2 DEF Restored
    <3>2. Whole(k) => box[k].snapshot \in Contents
      BY <1>0, <1>2 DEF Whole, RollsBack, Boxes
    <3>3. content \in Contents
      BY <3>1, <3>2
    <3> QED BY <1>2, <2>2, <3>3
  <2> QED BY <2>1, <2>2
<1>3. CASE files' = files
  BY <1>3
<1> QED BY <1>1, <1>2, <1>3 DEF Hook, CompartmentHook, HookRaises

\* Every step keeps the types and the order.
LEMMA StepTyped ==
    ASSUME Typed, InOrder, NEW k \in Containers, Move(k)
    PROVE  /\ Typed' /\ InOrder'
           /\ \A j \in Containers \ {k} :
                /\ runtime'[j] = runtime[j] /\ box'[j].applied = box[j].applied
                /\ "tampering" \notin setup.faults => box'[j] = box[j]
           /\ run[k].at # "setup" => runtime'[k].order = runtime[k].order
           /\ run[k].at = "inside" => runtime'[k].before = runtime[k].before
<1>0. /\ files \in [Watched -> Contents] /\ box \in [Containers -> Boxes]
      /\ run \in [Containers -> Runs] /\ RuntimesTyped
  BY DEF Typed
<1>1. /\ run' \in [Containers -> Runs]
      /\ \A j \in Containers \ {k} : run'[j] = run[j]
  BY RunSteps
<1>2. run[k].at = "inside" => Current(k) \in Compartments
  BY CurrentIsCompartment DEF InOrder
<1>3. StartCompartment(k) \/ SnapshotRaises(k) => run[k].next \in DOMAIN runtime[k].order
  BY NextIsInOrder DEF StartCompartment, SnapshotRaises
<1>4. /\ RuntimesTyped'
      /\ \A j \in Containers \ {k} : runtime'[j] = runtime[j]
      /\ run[k].at # "setup" => runtime'[k].order = runtime[k].order
      /\ run[k].at = "inside" => runtime'[k].before = runtime[k].before
  <2>1. CASE UNCHANGED runtime
    BY <1>0, <2>1 DEF RuntimesTyped
  <2>2. CASE StartCompartment(k) \/ SnapshotRaises(k)
    <3>1. Current(k) \in Compartments
      BY <1>3, <2>2, CurrentIsCompartment
    <3> QED BY <2>2, <3>1, RuntimeSteps
  <2>3. CASE Return(k) \/ Raise(k) \/ Interrupt(k)
    <3>1. Current(k) \in Compartments
      BY <1>2, <2>3 DEF Return, Raise, Interrupt
    <3> QED BY <2>3, <3>1, RuntimeSteps
  <2>4. CASE \/ \E c \in Compartments : Add(k, c)
             \/ \E from, to \in Compartments : Edge(k, from, to)
             \/ \E to \in Compartments : Send(k, to)
    BY <2>4, RuntimeSteps
  <2> QED BY <2>1, <2>2, <2>3, <2>4 DEF Move, RunStep, Hook, InCompartment, ChangeFile,
             ChangeSnapshot, Enter, RunOrder, CompartmentHook, HookRaises, Exit
<1>5. /\ files' \in [Watched -> Contents] /\ box' \in [Containers -> Boxes]
      /\ \A j \in Containers \ {k} :
            /\ box'[j].applied = box[j].applied
            /\ "tampering" \notin setup.faults => box'[j] = box[j]
  <2>0. box[k] \in Boxes
    BY <1>0
  <2>1. CASE UNCHANGED <<files, box>>
    BY <1>0, <2>1
  <2>2. CASE Change(k)
    <3>1. CASE \E of \in Containers : ChangeSnapshot(k, of)
      BY <1>0, <3>1 DEF ChangeSnapshot, Boxes
    <3>2. CASE \E place \in Watched, content \in Contents, right \in WriteRights :
                  ChangeFile(k, place, content, right)
      BY <1>0, <3>2 DEF ChangeFile
    <3> QED BY <2>2, <3>1, <3>2 DEF Change
  <2>3. CASE Enter(k)
    <3>1. PICK st \in {"ready", "running"}, ap \in BOOLEAN :
            box' = [box EXCEPT ![k].state = st, ![k].applied = ap]
      <4>1. CASE box' = [box EXCEPT ![k].state = "ready"]
        <5>1. box' = [box EXCEPT ![k].state = "ready", ![k].applied = box[k].applied]
          BY <1>0, <4>1 DEF Boxes
        <5>2. box[k].applied \in BOOLEAN
          BY <2>0 DEF Boxes
        <5> QED BY <5>1, <5>2
      <4>2. ASSUME NEW answer, Confine(k, answer)
            PROVE  \E st \in {"ready", "running"}, ap \in BOOLEAN :
                     box' = [box EXCEPT ![k].state = st, ![k].applied = ap]
        BY <4>2 DEF Confine
      <4> QED BY <2>3, <4>1, <4>2 DEF Enter
    <3>2. box' \in [Containers -> Boxes]
      BY <1>0, <3>1 DEF Boxes
    <3> QED BY <1>0, <2>3, <3>1, <3>2 DEF Enter
  <2>4. CASE StartCompartment(k)
    <3>1. PICK b \in Snapshots(k) : box' = [box EXCEPT ![k].snapshot = b] /\ files' = files
      BY <2>4 DEF StartCompartment
    <3>2. b \in Contents \cup {NoTree, Damaged}
      BY <1>0, ContainerAssumption DEF Snapshots
    <3> QED BY <1>0, <3>1, <3>2 DEF Boxes
  <2>5. CASE Hook(k)
    <3>1. \/ box' = box
          \/ box' = [box EXCEPT ![k].snapshot = NoTree]
      BY <2>5 DEF Hook, CompartmentHook, HookRaises
    <3>2. box' \in [Containers -> Boxes]
      <4>1. CASE box' = [box EXCEPT ![k].snapshot = NoTree]
        BY <1>0, <2>0, <4>1 DEF Boxes
      <4> QED BY <1>0, <3>1, <4>1
    <3>3. files' \in [Watched -> Contents]
      BY <1>0, <2>5, HookFiles
    <3> QED BY <1>0, <3>1, <3>2, <3>3
  <2>6. CASE Exit(k)
    <3>1. PICK st \in {box[k].state, "destroyed"} :
            box' = [box EXCEPT ![k].state = st] /\ files' = files
      BY <2>6 DEF Exit
    <3>2. st \in {"created", "ready", "running", "destroyed"}
      BY <2>0, <3>1 DEF Boxes
    <3> QED BY <1>0, <3>1, <3>2 DEF Boxes
  <2> QED BY <2>1, <2>2, <2>3, <2>4, <2>5, <2>6 DEF Move, RunStep, InCompartment, Change, Add, Edge,
             RunOrder, SnapshotRaises, Send, Return, Raise, Interrupt
<1>6. InOrder'
  <2> SUFFICES ASSUME NEW j \in Containers, run'[j].at \in {"inside", "hook"}
               PROVE  run'[j].next \in DOMAIN runtime'[j].order
    BY DEF InOrder
  <2>1. CASE j # k
    BY <1>1, <1>4, <2>1 DEF InOrder
  <2>2. CASE j = k
    <3>1. /\ run[k].at # "setup" /\ run'[k].next = run[k].next
          /\ run[k].at \in {"inside", "hook"} \/ StartCompartment(k)
      <4>1. CASE Return(k) \/ Raise(k)
        <5>1. run[k].at = "inside" /\ run' = [run EXCEPT ![k].at = "hook"]
          BY <4>1 DEF Return, Raise, Goto
        <5> QED BY <1>0, <5>1 DEF Runs
      <4>2. CASE ~(Return(k) \/ Raise(k)) /\ Ending(k)
        <5>1. ~Interrupt(k)
          BY <1>0, <2>2 DEF Interrupt, Leave, Goto, Runs
        <5>2. CASE InCompartment(k)
          BY <4>2, <5>1, <5>2 DEF InCompartment, ChangeFile, ChangeSnapshot, Send
        <5>3. CASE ~InCompartment(k)
          BY <4>2, <5>3 DEF Ending, Move, RunStep, Hook, Add, Edge, Enter, RunOrder,
             StartCompartment, SnapshotRaises, CompartmentHook, HookRaises, Exit
        <5> QED BY <5>2, <5>3
      <4> QED BY <2>2, <4>1, <4>2, StageSteps DEF Entering, Idle, Going, Beginning, Leaving
    <3> QED BY <1>3, <1>4, <2>2, <3>1 DEF InOrder
  <2> QED BY <2>1, <2>2
<1>7. /\ setup' \in Setups /\ calls' \in [Threads -> Seq(Containers)]
      /\ layers' = [t \in Threads |-> layers'[t]]
      /\ originals' = [j \in Containers |-> originals'[j]]
  BY CallsTyped
<1> QED BY <1>1, <1>4, <1>5, <1>6, <1>7 DEF Typed

-----------------------------------------------------------------------------
(* The invariant.                                                          *)

\* The calls of a thread are of runs that are under way, each called by a compartment
\* of the one before it.
Nested ==
    /\ \A t \in Threads : \A i \in DOMAIN calls[t] : Thread(calls[t][i]) = t /\ Running(calls[t][i])
    /\ \A t \in Threads : \A i, j \in DOMAIN calls[t] : calls[t][i] = calls[t][j] => i = j
    /\ \A k \in Containers : Running(k) =>
          \E i \in DOMAIN calls[Thread(k)] : calls[Thread(k)][i] = k
    /\ \A t \in Threads : \A i \in DOMAIN calls[t] :
          i # Len(calls[t]) => run[calls[t][i]].at = "inside"

\* Where runs do not go side by side, one thread is in calls; where they do not
\* overlap, one container runs.
Sole == Sequential => \A s, t \in Threads : calls[s] # <<>> /\ calls[t] # <<>> => s = t
OneAtATime == ~setup.overlap => \A j, k \in Containers : Running(j) /\ Running(k) => j = k

\* The layer that applying the sandbox of a box adds.
BoxLayer(k) ==
    IF setup.kernel.platform = "linux"
    THEN LandlockLayer(setup.kernel.abi, Workdir[k], BlockNetwork)
    ELSE SeatbeltLayer(Workdir[k], BlockNetwork)

\* A layer that lets a directory be made lets the files there be written.
WritesWhereItMakes(l) ==
    /\ "make" \in l.handled
    /\ \A p \in Watched : <<"make", p>> \in l.granted => <<"write", p>> \in l.granted

\* A box that reports a sandbox has its layer, no layer is ever lifted, and, where runs
\* do not overlap, a container whose box could be entered can be rolled back.
Confined ==
    /\ AllThreads(setup.kernel) => \A s, t \in Threads : layers[s] = layers[t]
    /\ \A t \in Threads : \A l \in layers[t] : WritesWhereItMakes(l)
    /\ \A k \in Containers : box[k].applied => BoxLayer(k) \in layers[Thread(k)]
    /\ ~setup.overlap => \A k \in Containers : Running(k) => Reaches(k, "write", Workdir[k])

\* The functions check what the compartments that run may do, and each enforcer has
\* saved those that check what its callers may do.
Inside == {k \in Containers : run[k].at = "inside"}
Policies(t, n) == {Current(calls[t][i]) : i \in 1..n}
Enforced == Sequential =>
    /\ patched = {Current(k) : k \in Inside}
    /\ \A t \in Threads : \A i \in DOMAIN calls[t] :
          run[calls[t][i]].at = "inside" => originals[calls[t][i]] = Policies(t, i - 1)

\* Where nothing hinders snapshots, what a failure restores is what the compartment found.
Saved == setup.faults = {} =>
    \A k \in Containers :
        run[k].at \in {"inside", "hook"} /\ setup.of[k].auto_modules =>
            /\ box[k].snapshot = runtime[k].before
            /\ runtime[k].before \in Contents

Inv == Typed /\ InOrder /\ Nested /\ Sole /\ OneAtATime /\ Confined /\ Enforced /\ Saved

LEMMA InitInv == Init => Inv
<1> SUFFICES ASSUME Init PROVE Inv
  OBVIOUS
<1>1. \A k \in Containers : run[k].at = "setup" /\ box[k].applied = FALSE
  BY DEF Init
<1>2. /\ layers = [t \in Threads |-> {}] /\ patched = {} /\ calls = [t \in Threads |-> <<>>]
      /\ \A t \in Threads : layers[t] = {} /\ calls[t] = <<>> /\ DOMAIN calls[t] = {}
  BY DEF Init
<1>3. Typed
  BY InitTyped
<1>4. InOrder /\ Nested /\ Sole /\ OneAtATime
  BY <1>1, <1>2 DEF InOrder, Nested, Sole, OneAtATime, Running
<1>5. Confined
  BY <1>1, <1>2 DEF Confined, Running
<1>6. Enforced
  <2>1. Inside = {}
    BY <1>1 DEF Inside
  <2> QED BY <1>2, <2>1 DEF Enforced
<1> QED BY <1>1, <1>3, <1>4, <1>5, <1>6 DEF Inv, Saved

\* Whom a step leaves alone.
LEMMA OthersStay ==
    ASSUME Typed, InOrder, NEW k \in Containers, Move(k)
    PROVE  /\ setup' = setup /\ \A j \in Containers : Thread(j)' = Thread(j)
           /\ \A j \in Containers \ {k} : run'[j] = run[j] /\ Current(j)' = Current(j)
           /\ run[k].at = "inside" /\ run' = run => Current(k)' = Current(k)
<1>1. setup' = setup
  BY DEF Move, RunStep, InCompartment, Hook, Add, Edge, Enter, RunOrder, StartCompartment,
     SnapshotRaises, ChangeFile, ChangeSnapshot, Send, Return, Raise, Interrupt, CompartmentHook,
     HookRaises, Exit
<1>2. \A j \in Containers \ {k} : run'[j] = run[j] /\ runtime'[j] = runtime[j]
  BY RunSteps, StepTyped
<1>3. run[k].at # "setup" => runtime'[k].order = runtime[k].order
  BY StepTyped
<1> QED BY <1>1, <1>2, <1>3 DEF Thread, Current

\* The innermost run of a thread is at the end of its calls and nowhere else; without
\* it, the calls of the thread are those before.
LEMMA InnermostFacts ==
    ASSUME Typed, Nested, NEW k \in Containers, Innermost(k)
    PROVE  LET s == calls[Thread(k)] n == Len(s) IN
           /\ Thread(k) \in Threads /\ n \in Nat \ {0} /\ s[n] = k /\ DOMAIN s = 1..n
           /\ Running(k)
           /\ \A t \in Threads : \A i \in DOMAIN calls[t] : calls[t][i] = k => t = Thread(k) /\ i = n
           /\ Len(Front(s)) = n - 1 /\ DOMAIN Front(s) = 1..(n - 1)
           /\ \A i \in 1..(n - 1) : Front(s)[i] = s[i]
<1> DEFINE s == calls[Thread(k)] 
           n == Len(s)
<1>1. Thread(k) \in Threads /\ s \in Seq(Containers) /\ s # <<>>
  BY ContainerAssumption DEF Typed, Innermost, Thread
<1>2. n \in Nat \ {0} /\ DOMAIN s = 1..n
  BY <1>1
<1>3. s[n] = k
  BY <1>1 DEF Innermost, Last
<1>4. Running(k)
  BY <1>1, <1>2, <1>3 DEF Nested
<1>5. \A t \in Threads : \A i \in DOMAIN calls[t] : calls[t][i] = k => t = Thread(k) /\ i = n
  BY <1>1, <1>2, <1>3 DEF Nested
<1>6. /\ Len(Front(s)) = n - 1 /\ DOMAIN Front(s) = 1..(n - 1)
      /\ \A i \in 1..(n - 1) : Front(s)[i] = s[i]
  <2> HIDE DEF s
  <2> QED BY <1>1, <1>2 DEF Front
<1> QED BY <1>1, <1>2, <1>3, <1>4, <1>5, <1>6

\* What a step does to the calls: a container that is called comes last, one that
\* leaves was last.
CallStep(k, t, old, new) ==
    /\ \A i \in DOMAIN new : new[i] = k \/ (i \in DOMAIN old /\ new[i] = old[i])
    /\ \A i \in DOMAIN old : old[i] = k \/ (i \in DOMAIN new /\ new[i] = old[i])
    /\ \A i \in DOMAIN new : new[i] = k => t = Thread(k) /\ i = Len(new) /\ Running(k)'
    /\ \A i \in DOMAIN new : i # Len(new) => new[i] # k /\ run[new[i]].at = "inside"
    /\ new = <<>> \/ old # <<>> \/ (t = Thread(k) /\ Entering(k))
    /\ t = Thread(k) /\ Running(k)' => \E i \in DOMAIN new : new[i] = k
    /\ new \in Seq(Containers) /\ old \in Seq(Containers)

LEMMA CallSteps ==
    ASSUME Typed, InOrder, Nested, NEW k \in Containers, Move(k), NEW t \in Threads
    PROVE  CallStep(k, t, calls[t], calls'[t])
<1> DEFINE old == calls[t] 
           new == calls'[t]
           n == Len(old)
<1>0. /\ old \in Seq(Containers) /\ new \in Seq(Containers) /\ calls \in [Threads -> Seq(Containers)]
      /\ n \in Nat /\ DOMAIN old = 1..n
  BY CallsTyped DEF Typed
<1>1. /\ \A i \in DOMAIN old : Thread(old[i]) = t /\ Running(old[i])
      /\ \A i, j \in DOMAIN old : old[i] = old[j] => i = j
      /\ \A i \in DOMAIN old : i # n => run[old[i]].at = "inside"
      /\ Running(k) /\ t = Thread(k) => \E i \in DOMAIN old : old[i] = k
  BY DEF Nested
<1> SUFFICES CallStep(k, t, old, new)
  OBVIOUS
<1>2. CASE calls' = calls /\ ~Running(k) /\ ~Running(k)'
  BY <1>0, <1>1, <1>2 DEF CallStep
<1>3. CASE calls' = calls /\ Innermost(k) /\ Running(k)'
  <2>1. \A i \in DOMAIN old : old[i] = k => t = Thread(k) /\ i = n
    BY <1>3, InnermostFacts
  <2>2. t = Thread(k) => n \in DOMAIN old /\ old[n] = k
    BY <1>3, InnermostFacts
  <2> QED BY <1>0, <1>1, <1>3, <2>1, <2>2 DEF CallStep
<1>4. CASE Entering(k)
  <2>1. ~Running(k) /\ Running(k)' /\ Thread(k) \in Threads
    BY <1>4, CallsTyped DEF Entering, Running
  <2>2. CASE t # Thread(k)
    <3>1. new = old
      BY <1>0, <1>4, <2>2 DEF Entering
    <3>2. \A i \in DOMAIN old : old[i] # k
      BY <1>1, <2>1, <2>2
    <3> HIDE DEF old, new
    <3> QED BY <1>0, <1>1, <2>1, <2>2, <3>1, <3>2 DEF CallStep
  <2>3. CASE t = Thread(k)
    <3>1. new = Append(old, k)
      BY <1>0, <1>4, <2>3 DEF Entering
    <3>2. /\ Len(new) = n + 1 /\ DOMAIN new = 1..(n + 1) /\ new[n + 1] = k
          /\ \A i \in DOMAIN old : i \in DOMAIN new /\ new[i] = old[i]
          /\ \A i \in DOMAIN new : i = n + 1 \/ i \in DOMAIN old
      <4> HIDE DEF old, new
      <4> QED BY <1>0, <3>1
    <3>3. \A i \in DOMAIN old : old[i] # k
      BY <1>1, <2>1
    <3>4. n \in DOMAIN old => run[old[n]].at = "inside"
      <4>1. n \in DOMAIN old => old # <<>> /\ Last(old) = old[n]
        BY <1>0 DEF Last
      <4> QED BY <1>4, <2>3, <4>1 DEF Entering
    <3>5. \A i \in DOMAIN old : run[old[i]].at = "inside"
      BY <1>1, <3>4
    <3>6. n + 1 \in DOMAIN new /\ n + 1 = Len(new) /\ \A i \in DOMAIN old : i # n + 1
      BY <1>0, <3>2
    <3> HIDE DEF old, new, n
    <3> QED BY <1>0, <1>4, <2>1, <2>3, <3>2, <3>3, <3>5, <3>6 DEF CallStep
  <2> QED BY <2>2, <2>3
<1>5. CASE Innermost(k) /\ calls' = [calls EXCEPT ![Thread(k)] = Front(@)] /\ ~Running(k)'
  <2>1. \A i \in DOMAIN old : old[i] = k => t = Thread(k) /\ i = n
    BY <1>5, InnermostFacts
  <2>2. CASE t # Thread(k)
    <3>1. new = old
      BY <1>0, <1>5, <2>2
    <3> HIDE DEF old, new
    <3> QED BY <1>0, <1>1, <1>5, <2>1, <2>2, <3>1 DEF CallStep
  <2>3. CASE t = Thread(k)
    <3>1. new = Front(old)
      BY <1>0, <1>5, <2>3
    <3>2. /\ n \in Nat \ {0} /\ Len(new) = n - 1 /\ DOMAIN new = 1..(n - 1)
          /\ \A i \in 1..(n - 1) : new[i] = old[i]
      BY <1>5, <2>3, <3>1, InnermostFacts
    <3>3. \A i \in DOMAIN new : i \in DOMAIN old /\ i # n
      <4> HIDE DEF old, new, n
      <4> QED BY <1>0, <3>2
    <3>4. n \in DOMAIN old /\ old[n] = k /\ old # <<>>
      BY <1>0, <1>5, <2>3, <3>2, InnermostFacts DEF Innermost
    <3>5. \A i \in DOMAIN old : i = n \/ i \in DOMAIN new
      <4> HIDE DEF old, new, n
      <4> QED BY <1>0, <3>2
    <3>6. \A i \in DOMAIN new : new[i] = old[i] /\ old[i] # k /\ run[old[i]].at = "inside"
      BY <1>1, <2>1, <3>2, <3>3
    <3> HIDE DEF old, new, n
    <3> QED BY <1>0, <1>5, <2>1, <2>3, <3>3, <3>4, <3>5, <3>6 DEF CallStep
  <2> QED BY <2>2, <2>3
<1>6. \/ calls' = calls /\ ~Running(k) /\ ~Running(k)'
      \/ calls' = calls /\ Innermost(k) /\ Running(k)'
      \/ Entering(k)
      \/ Innermost(k) /\ calls' = [calls EXCEPT ![Thread(k)] = Front(@)] /\ ~Running(k)'
  <2>1. CASE Idle(k)
    BY <2>1 DEF Idle, Running
  <2>2. CASE Going(k)
    BY <2>2 DEF Going, Running
  <2>3. CASE Beginning(k)
    BY <2>3 DEF Beginning, Running
  <2>4. CASE Ending(k)
    BY <2>4 DEF Ending, Running
  <2>5. CASE Leaving(k)
    BY <2>5 DEF Leaving, Running
  <2> QED BY <2>1, <2>2, <2>3, <2>4, <2>5, StageSteps
<1> QED BY <1>2, <1>3, <1>4, <1>5, <1>6

LEMMA StepNested ==
    ASSUME Inv, NEW k \in Containers, Move(k)
    PROVE  Nested' /\ Sole' /\ OneAtATime'
<1>0. Typed /\ InOrder /\ Nested /\ Sole /\ OneAtATime
  BY DEF Inv
<1>1. /\ setup' = setup /\ \A j \in Containers : Thread(j)' = Thread(j) /\ Thread(j) \in Threads
      /\ \A j \in Containers \ {k} : run'[j] = run[j] /\ Running(j)' = Running(j)
  BY <1>0, OthersStay, ContainerAssumption DEF Running, Typed, Thread
<1>2. \A t \in Threads : /\ calls'[t] \in Seq(Containers)
                         /\ \A i \in DOMAIN calls'[t] : calls'[t][i] \in Containers
  BY <1>0, CallSteps DEF CallStep
<1>3. Nested'
  <2>1. ASSUME NEW t \in Threads, NEW i \in DOMAIN calls'[t]
        PROVE  \A c \in Containers : c = calls'[t][i] => Thread(c)' = t /\ Running(c)'
    <3>1. CASE calls'[t][i] = k
      BY <1>0, <1>1, <2>1, <3>1, CallSteps DEF CallStep
    <3>2. CASE calls'[t][i] # k
      <4>1. i \in DOMAIN calls[t] /\ calls'[t][i] = calls[t][i]
        BY <1>0, <2>1, <3>2, CallSteps DEF CallStep
      <4> QED BY <1>0, <1>1, <1>2, <2>1, <3>2, <4>1 DEF Nested, Running
    <3> QED BY <3>1, <3>2
  <2>2. ASSUME NEW t \in Threads, NEW i \in DOMAIN calls'[t], NEW j \in DOMAIN calls'[t],
               calls'[t][i] = calls'[t][j]
        PROVE  i = j
    <3>0. \A n \in DOMAIN calls'[t] : calls'[t][n] = k => n = Len(calls'[t])
      BY <1>0, CallSteps DEF CallStep
    <3>1. CASE calls'[t][i] = k
      BY <2>2, <3>0, <3>1
    <3>2. CASE calls'[t][i] # k
      <4>1. /\ i \in DOMAIN calls[t] /\ calls'[t][i] = calls[t][i]
            /\ j \in DOMAIN calls[t] /\ calls'[t][j] = calls[t][j]
        BY <1>0, <2>2, <3>2, CallSteps DEF CallStep
      <4> QED BY <1>0, <2>2, <4>1 DEF Nested
    <3> QED BY <3>1, <3>2
  <2>3. ASSUME NEW j \in Containers, Running(j)'
        PROVE  \E i \in DOMAIN calls'[Thread(j)'] : calls'[Thread(j)'][i] = j
    <3>1. CASE j = k
      BY <1>0, <1>1, <2>3, <3>1, CallSteps DEF CallStep
    <3>2. CASE j # k
      <4>1. PICK i \in DOMAIN calls[Thread(j)] : calls[Thread(j)][i] = j
        BY <1>0, <1>1, <2>3, <3>2 DEF Nested
      <4>2. i \in DOMAIN calls'[Thread(j)] /\ calls'[Thread(j)][i] = j
        BY <1>0, <1>1, <3>2, <4>1, CallSteps DEF CallStep
      <4> QED BY <1>1, <4>2
    <3> QED BY <3>1, <3>2
  <2>4. ASSUME NEW t \in Threads, NEW i \in DOMAIN calls'[t], i # Len(calls'[t])
        PROVE  run'[calls'[t][i]].at = "inside"
    <3>1. calls'[t][i] # k /\ run[calls'[t][i]].at = "inside"
      BY <1>0, <2>4, CallSteps DEF CallStep
    <3> QED BY <1>1, <1>2, <2>4, <3>1
  <2> QED BY <1>2, <2>1, <2>2, <2>3, <2>4 DEF Nested
<1>4. Sole'
  <2> SUFFICES ASSUME Sequential, NEW s \in Threads, NEW t \in Threads,
                      calls'[s] # <<>>, calls'[t] # <<>>
               PROVE  s = t
    BY <1>1 DEF Sole, Sequential
  <2>1. CASE calls[s] # <<>> /\ calls[t] # <<>>
    BY <1>0, <2>1 DEF Sole
  <2>2. ASSUME NEW u \in Threads, calls[u] # <<>>, Entering(k) PROVE u = Thread(k)
    <3>1. 1 \in DOMAIN calls[u] /\ calls[u][1] \in Containers
      BY <1>0, <2>2 DEF Typed
    <3>2. Thread(calls[u][1]) = u /\ Running(calls[u][1])
      BY <1>0, <3>1 DEF Nested
    <3> QED BY <2>2, <3>1, <3>2 DEF Entering, Sequential
  <2>3. \A u \in {s, t} : calls[u] # <<>> \/ (u = Thread(k) /\ Entering(k))
    BY <1>0, CallSteps DEF CallStep
  <2> QED BY <2>1, <2>2, <2>3
<1>5. OneAtATime'
  <2>1. CASE Entering(k)
    BY <1>1, <2>1 DEF OneAtATime, Entering
  <2>2. CASE ~Entering(k)
    <3>1. Running(k)' => Running(k)
      BY <1>0, <2>2, StageSteps, InnermostFacts DEF Idle, Going, Beginning, Ending, Leaving, Running
    <3> QED BY <1>0, <1>1, <3>1 DEF OneAtATime
  <2> QED BY <2>1, <2>2
<1> QED BY <1>3, <1>4, <1>5

\* Where runs do not go side by side, the compartments that run are the callers of the
\* innermost run, and its own.
LEMMA InsideIsCalls ==
    ASSUME Typed, Nested, Sole, Sequential, NEW k \in Containers, Innermost(k)
    PROVE  {Current(j) : j \in Inside \ {k}} = Policies(Thread(k), Len(calls[Thread(k)]) - 1)
<1> DEFINE t == Thread(k) 
           s == calls[t]
           n == Len(s)
<1>1. /\ t \in Threads /\ n \in Nat \ {0} /\ s[n] = k /\ DOMAIN s = 1..n
      /\ \A i \in DOMAIN s : s[i] = k => i = n
      /\ \A i \in DOMAIN s : s[i] \in Containers
  BY InnermostFacts DEF Typed
<1>2. ASSUME NEW i \in 1..(n - 1) PROVE s[i] \in Inside \ {k}
  <2>1. i \in DOMAIN s /\ i # n
    BY <1>1
  <2> QED BY <1>1, <2>1 DEF Nested, Inside
<1>3. ASSUME NEW j \in Inside \ {k} PROVE \E i \in 1..(n - 1) : s[i] = j
  <2>1. j \in Containers /\ Running(j)
    BY DEF Inside, Running
  <2>2. PICK i \in DOMAIN calls[Thread(j)] : calls[Thread(j)][i] = j
    BY <2>1 DEF Nested
  <2>3. Thread(j) \in Threads
    BY <2>1, ContainerAssumption DEF Typed, Thread
  <2>4. calls[Thread(j)] # <<>> /\ calls[t] # <<>>
    BY <1>1, <2>2
  <2>5. Thread(j) = t
    BY <1>1, <2>3, <2>4 DEF Sole
  <2>6. i \in 1..n /\ i # n /\ s[i] = j
    BY <1>1, <2>2, <2>5
  <2> QED BY <1>1, <2>6
<1> QED BY <1>2, <1>3 DEF Policies

LEMMA StepEnforced ==
    ASSUME Inv, NEW k \in Containers, Move(k)
    PROVE  Enforced'
<1>0. Typed /\ InOrder /\ Nested /\ Sole /\ Enforced
  BY DEF Inv
<1>1. /\ setup' = setup /\ \A j \in Containers : Thread(j)' = Thread(j)
      /\ \A j \in Containers \ {k} : run'[j] = run[j] /\ Current(j)' = Current(j)
      /\ run[k].at = "inside" /\ run' = run => Current(k)' = Current(k)
  BY <1>0, OthersStay
<1> SUFFICES ASSUME Sequential PROVE
       /\ patched' = {Current(j)' : j \in Inside'}
       /\ \A t \in Threads : \A i \in DOMAIN calls'[t] :
             run'[calls'[t][i]].at = "inside" => originals'[calls'[t][i]] = Policies(t, i - 1)'
  BY <1>1 DEF Enforced, Sequential
<1>2. /\ patched = {Current(j) : j \in Inside}
      /\ \A t \in Threads : \A i \in DOMAIN calls[t] :
            run[calls[t][i]].at = "inside" => originals[calls[t][i]] = Policies(t, i - 1)
  BY <1>0 DEF Enforced
<1>3. \A t \in Threads : /\ calls'[t] \in Seq(Containers) /\ calls[t] \in Seq(Containers)
                         /\ DOMAIN calls'[t] = 1..Len(calls'[t]) /\ Len(calls'[t]) \in Nat
  BY <1>0, CallSteps DEF CallStep
\* What an enforcer saved is what its callers' policies are, unless the callers change.
<1>4. ASSUME NEW t \in Threads, NEW i \in DOMAIN calls'[t]
      PROVE  Policies(t, i - 1)' = Policies(t, i - 1)
  <2>1. ASSUME NEW m \in 1..(i - 1)
        PROVE  \E c : c = calls'[t][m] /\ c = calls[t][m] /\ Current(c)' = Current(c)
    <3>1. m \in DOMAIN calls'[t] /\ m # Len(calls'[t])
      BY <1>3, <1>4
    <3>2. calls'[t][m] # k /\ calls'[t][m] \in Containers
      BY <1>0, <1>3, <3>1, CallSteps DEF CallStep
    <3>3. calls'[t][m] = calls[t][m]
      BY <1>0, <3>1, <3>2, CallSteps DEF CallStep
    <3> QED BY <1>1, <3>2, <3>3
  <2>2. ASSUME NEW m \in 1..(i - 1)
        PROVE  runtime'[calls'[t][m]].order[run'[calls'[t][m]].next] = Current(calls[t][m])
    BY <2>1, <2>2 DEF Current
  <2>3. {runtime'[calls'[t][m]].order[run'[calls'[t][m]].next] : m \in 1..(i - 1)}
        = {Current(calls[t][m]) : m \in 1..(i - 1)}
    BY <2>2
  <2> QED BY <2>3 DEF Policies, Current
\* That of another container is kept.
<1>5. ASSUME NEW t \in Threads, NEW i \in DOMAIN calls'[t], calls'[t][i] # k,
             run'[calls'[t][i]].at = "inside"
      PROVE  originals'[calls'[t][i]] = Policies(t, i - 1)'
  <2>1. calls'[t][i] \in Containers /\ i \in DOMAIN calls[t] /\ calls'[t][i] = calls[t][i]
    BY <1>0, <1>3, <1>5, CallSteps DEF CallStep
  <2>2. originals'[calls[t][i]] = originals[calls[t][i]]
    <3>1. originals' = originals \/ \E o : originals' = [originals EXCEPT ![k] = o]
      BY <1>0, StageSteps DEF Entering, Idle, Going, Beginning, Ending, Leaving, Patch, Unpatch
    <3> QED BY <1>0, <1>5, <2>1, <3>1 DEF Typed
  <2>3. run[calls[t][i]].at = "inside"
    BY <1>1, <1>5, <2>1
  <2> QED BY <1>2, <1>4, <1>5, <2>1, <2>2, <2>3
<1>6. CASE Entering(k) \/ Idle(k) \/ Leaving(k) \/ (Going(k) /\ run[k].at # "inside")
  <2>1. patched' = patched /\ k \notin Inside /\ k \notin Inside'
    BY <1>6 DEF Entering, Idle, Leaving, Going, Inside
  <2>2. Inside' = Inside
    BY <1>1, <2>1 DEF Inside
  <2>3. \A t \in Threads : \A i \in DOMAIN calls'[t] : run'[calls'[t][i]].at = "inside" => calls'[t][i] # k
    BY <2>1 DEF Inside
  <2>4. \A j \in Inside : Current(j)' = Current(j)
    BY <1>1, <2>1 DEF Inside
  <2>5. {Current(j)' : j \in Inside'} = {Current(j) : j \in Inside}
    BY <2>2, <2>4
  <2> QED BY <1>2, <1>5, <2>1, <2>3, <2>5
<1>7. CASE Going(k) /\ run[k].at = "inside"
  <2>1. run' = run /\ UNCHANGED <<calls, patched, originals>>
    BY <1>7 DEF Going
  <2>2. Inside' = Inside /\ \A j \in Containers : Current(j)' = Current(j)
    BY <1>1, <1>7, <2>1 DEF Inside
  <2>3. {Current(j)' : j \in Inside'} = {Current(j) : j \in Inside}
    BY <2>2 DEF Inside
  <2> QED BY <1>2, <1>4, <2>1, <2>3
<1>8. CASE Beginning(k)
  <2>1. /\ Innermost(k) /\ calls' = calls /\ run[k].at = "between" /\ run'[k].at = "inside"
        /\ patched' = patched \cup {Current(k)}
        /\ originals' = [originals EXCEPT ![k] = patched]
    BY <1>8 DEF Beginning, Patch
  <2>2. Current(k)' = Current(k)
    <3>1. runtime'[k].order = runtime[k].order /\ run'[k].next = run[k].next
      BY <1>0, <1>8, StepTyped DEF Beginning
    <3> QED BY <3>1 DEF Current
  <2>3. Inside' = Inside \cup {k} /\ k \notin Inside
    BY <1>1, <2>1 DEF Inside
  <2>4. \A j \in Inside' : Current(j)' = Current(j)
    BY <1>1, <2>2, <2>3 DEF Inside
  <2>5. patched' = {Current(j)' : j \in Inside'}
    BY <1>2, <2>1, <2>3, <2>4
  <2>6. ASSUME NEW t \in Threads, NEW i \in DOMAIN calls'[t], calls'[t][i] = k
        PROVE  originals'[k] = Policies(t, i - 1)'
    <3>1. t = Thread(k) /\ i = Len(calls[t])
      BY <1>0, <2>1, <2>6, InnermostFacts
    <3>2. {Current(j) : j \in Inside \ {k}} = Policies(t, i - 1)
      BY <1>0, <2>1, <3>1, InsideIsCalls
    <3>3. originals'[k] = patched /\ Inside \ {k} = Inside
      BY <1>0, <2>1, <2>3 DEF Typed
    <3> QED BY <1>2, <1>4, <2>6, <3>2, <3>3
  <2> QED BY <1>5, <2>5, <2>6
<1>9. CASE Ending(k)
  <2>1. /\ Innermost(k) /\ run[k].at = "inside" /\ run'[k].at # "inside"
        /\ patched' = originals[k]
    BY <1>9 DEF Ending, Unpatch
  <2>2. Inside' = Inside \ {k}
    BY <1>1, <2>1 DEF Inside
  <2>3. \A j \in Inside' : Current(j)' = Current(j)
    BY <1>1, <2>2 DEF Inside
  <2>4. originals[k] = Policies(Thread(k), Len(calls[Thread(k)]) - 1)
    <3> DEFINE t == Thread(k) 
               n == Len(calls[t])
    <3>1. t \in Threads /\ n \in DOMAIN calls[t] /\ calls[t][n] = k
      BY <1>0, <2>1, InnermostFacts
    <3> HIDE DEF t, n
    <3>2. originals[k] = Policies(t, n - 1)
      BY <1>2, <2>1, <3>1
    <3> QED BY <3>2 DEF t, n
  <2>5. patched' = {Current(j) : j \in Inside \ {k}}
    BY <1>0, <2>1, <2>4, InsideIsCalls
  <2>6. patched' = {Current(j)' : j \in Inside'}
    BY <2>2, <2>3, <2>5
  <2>7. \A t \in Threads : \A i \in DOMAIN calls'[t] : run'[calls'[t][i]].at = "inside" => calls'[t][i] # k
    BY <2>1
  <2> QED BY <1>5, <2>6, <2>7
<1> QED BY <1>0, <1>6, <1>7, <1>8, <1>9, StageSteps

\* What Box.enter comes to: an exception, a box without a sandbox, or one more
\* layer, the box's own.
LEMMA EnterLayers ==
    ASSUME Typed, NEW k \in Containers, Enter(k)
    PROVE  /\ run[k].at = "setup" /\ setup' = setup
           /\ \/ /\ run'[k].at = "raised" /\ layers' = layers
                 /\ box'[k].applied = box[k].applied
              \/ /\ run'[k].at = "entered" /\ Reaches(k, "make", Workdir[k])
                 /\ setup.overlap \/ \A j \in Containers : ~Running(j)
                 /\ \/ layers' = layers /\ box'[k].applied = FALSE
                    \/ layers' = [t \in Threads |->
                          IF t = Thread(k) \/ AllThreads(setup.kernel)
                          THEN layers[Thread(k)] \cup {BoxLayer(k)} ELSE layers[t]]
<1>0. run \in [Containers -> Runs] /\ box \in [Containers -> Boxes] /\ run[k].at = "setup"
      /\ setup' = setup
  BY DEF Typed, Enter
<1>2. CASE ~(CheckPermission({"fs_write"}) /\ Reaches(k, "make", Workdir[k]))
  <2>1. /\ box' = [box EXCEPT ![k].state = "ready"]
        /\ run' = [run EXCEPT ![k].at = "raised"] /\ layers' = layers
    BY <1>2 DEF Enter, Goto
  <2>2. run'[k].at = "raised" /\ box'[k].applied = box[k].applied
    BY <1>0, <2>1 DEF Runs, Boxes
  <2> QED BY <1>0, <2>1, <2>2
<1>3. CASE CheckPermission({"fs_write"}) /\ Reaches(k, "make", Workdir[k])
  <2>1. PICK answer \in {<<>>} \cup Apply(setup.kernel, layers[Thread(k)], Workdir[k], BlockNetwork) :
          Confine(k, answer)
    BY <1>3 DEF Enter
  <2>2. run'[k].at = "entered" /\ (setup.overlap \/ \A j \in Containers : ~Running(j))
    BY <1>0, <1>3 DEF Enter, Goto, Runs
  <2>3. CASE answer = <<>>
    <3>1. layers' = [t \in Threads |-> layers[t]] /\ box'[k].applied = FALSE
      BY <1>0, <2>1, <2>3 DEF Confine, Boxes
    <3>2. layers' = layers
      BY <3>1 DEF Typed
    <3> QED BY <1>0, <1>3, <2>2, <3>1, <3>2
  <2>4. CASE answer # <<>>
    <3> DEFINE mine == layers[Thread(k)]
    <3>1. \/ answer = <<mine \cup {BoxLayer(k)}>>
          \/ mine = {} /\ answer = <<{BoxLayer(k)}>>
      <4> DEFINE linux == setup.kernel.platform = "linux" /\ setup.kernel.abi > 0
                 macos == setup.kernel.platform = "macos" /\ mine = {}
      <4>1. CASE linux
        <5>1. answer = <<mine \cup {LandlockLayer(setup.kernel.abi, Workdir[k], BlockNetwork)}>>
          BY <2>1, <2>4, <4>1 DEF Apply
        <5> QED BY <4>1, <5>1 DEF BoxLayer
      <4>2. CASE ~linux /\ macos
        <5>1. answer = <<{SeatbeltLayer(Workdir[k], BlockNetwork)}>>
          BY <2>1, <2>4, <4>2 DEF Apply
        <5> QED BY <4>2, <5>1 DEF BoxLayer
      <4>3. CASE ~linux /\ ~macos
        BY <2>1, <2>4, <4>3 DEF Apply
      <4> QED BY <4>1, <4>2, <4>3
    <3>2. layers' = [t \in Threads |-> IF t = Thread(k) \/ AllThreads(setup.kernel)
                                       THEN answer[1] ELSE layers[t]]
      BY <2>1, <2>4 DEF Confine
    <3>3. answer[1] = mine \cup {BoxLayer(k)}
      BY <3>1
    <3> QED BY <1>0, <1>3, <2>2, <3>2, <3>3
  <2> QED BY <2>3, <2>4
<1> QED BY <1>2, <1>3

\* Both kinds of layer let the box's own directory be made and written.
LEMMA BoxLayerSound ==
    ASSUME NEW k \in Containers
    PROVE  /\ WritesWhereItMakes(BoxLayer(k))
           /\ <<"write", Workdir[k]>> \in BoxLayer(k).granted
<1>1. CASE setup.kernel.platform = "linux"
  <2> DEFINE l == LandlockLayer(setup.kernel.abi, Workdir[k], BlockNetwork)
  <2>1. "make" \in l.handled
    BY DEF LandlockLayer, HandledFs
  <2>2. <<"write", Workdir[k]>> \in l.granted
    BY DEF LandlockLayer, Everywhere, ReadRights, WriteRights
  <2>3. \A p \in Watched : <<"make", p>> \in l.granted => <<"write", p>> \in l.granted
    BY DEF LandlockLayer, Everywhere, ReadRights, WriteRights
  <2> HIDE DEF l
  <2>4. BoxLayer(k) = l
    BY <1>1 DEF BoxLayer, l
  <2> QED BY <2>1, <2>2, <2>3, <2>4 DEF WritesWhereItMakes
<1>2. CASE setup.kernel.platform # "linux"
  <2> DEFINE l == SeatbeltLayer(Workdir[k], BlockNetwork)
  <2>1. "make" \in l.handled
    BY DEF SeatbeltLayer, ReadRights, WriteRights
  <2>2. <<"write", Workdir[k]>> \in l.granted
    BY DEF SeatbeltLayer, Everywhere, ReadRights, WriteRights
  <2>3. \A p \in Watched : <<"make", p>> \in l.granted => <<"write", p>> \in l.granted
    BY DEF SeatbeltLayer, Everywhere, ReadRights, WriteRights
  <2> HIDE DEF l
  <2>4. BoxLayer(k) = l
    BY <1>2 DEF BoxLayer, l
  <2> QED BY <2>1, <2>2, <2>3, <2>4 DEF WritesWhereItMakes
<1> QED BY <1>1, <1>2

LEMMA StepConfined ==
    ASSUME Inv, NEW k \in Containers, Move(k)
    PROVE  Confined'
<1>0. /\ Typed /\ InOrder /\ Nested /\ Confined /\ run \in [Containers -> Runs]
      /\ \A j \in Containers : Thread(j) \in Threads
  BY ContainerAssumption DEF Inv, Typed, Thread
<1>1. /\ setup' = setup
      /\ \A j \in Containers : Thread(j)' = Thread(j) /\ BoxLayer(j)' = BoxLayer(j)
      /\ \A j \in Containers \ {k} : box'[j].applied = box[j].applied /\ Running(j)' = Running(j)
  BY <1>0, OthersStay, StepTyped DEF BoxLayer, Running
<1>2. CASE layers' = layers /\ (box'[k].applied => box[k].applied) /\ (Running(k)' => Running(k))
  <2>1. \A j \in Containers : \A right, p : Reaches(j, right, p)' <=> Reaches(j, right, p)
    BY <1>1, <1>2 DEF Reaches
  <2>2. \A j \in Containers : /\ box'[j].applied => box[j].applied
                              /\ Running(j)' => Running(j)
    BY <1>1, <1>2
  <2> QED BY <1>0, <1>1, <1>2, <2>1, <2>2 DEF Confined
<1>3. CASE Enter(k)
  <2>1. CASE run'[k].at = "raised" /\ layers' = layers /\ box'[k].applied = box[k].applied
    BY <1>2, <2>1 DEF Running
  <2>2. CASE /\ run'[k].at = "entered" /\ Reaches(k, "make", Workdir[k])
             /\ setup.overlap \/ \A j \in Containers : ~Running(j)
             /\ \/ layers' = layers /\ box'[k].applied = FALSE
                \/ layers' = [t \in Threads |->
                      IF t = Thread(k) \/ AllThreads(setup.kernel)
                      THEN layers[Thread(k)] \cup {BoxLayer(k)} ELSE layers[t]]
    <3>1. \A t \in Threads : \/ layers'[t] = layers[t] /\ (t = Thread(k) => box'[k].applied = FALSE)
                             \/ layers'[t] = layers[Thread(k)] \cup {BoxLayer(k)}
      BY <1>0, <2>2
    <3>2. AllThreads(setup.kernel) => \A s, t \in Threads : layers'[s] = layers'[t]
      BY <1>0, <2>2 DEF Confined
    <3>3. \A t \in Threads : \A l \in layers'[t] : WritesWhereItMakes(l)
      BY <1>0, <3>1, BoxLayerSound DEF Confined
    <3>4. \A j \in Containers : box'[j].applied => BoxLayer(j) \in layers'[Thread(j)]
      <4> SUFFICES ASSUME NEW j \in Containers, box'[j].applied
                   PROVE  BoxLayer(j) \in layers'[Thread(j)]
        OBVIOUS
      <4>1. CASE j # k
        <5>1. BoxLayer(j) \in layers[Thread(j)] /\ Thread(j) \in Threads
          BY <1>0, <1>1, <4>1 DEF Confined
        <5>2. layers'[Thread(j)] = layers[Thread(j)]
              \/ layers'[Thread(j)] = layers[Thread(j)] \cup {BoxLayer(k)}
          BY <1>0, <2>2, <5>1 DEF Confined
        <5> QED BY <5>1, <5>2
      <4>2. CASE j = k
        BY <1>0, <3>1, <4>2
      <4> QED BY <4>1, <4>2
    <3>5. ASSUME ~setup.overlap, NEW j \in Containers, Running(j)'
          PROVE  Reaches(j, "write", Workdir[j])'
      <4>1. j = k
        BY <1>1, <2>2, <3>5
      <4>2. ASSUME NEW l \in layers'[Thread(k)], "write" \in l.handled
            PROVE  <<"write", Workdir[k]>> \in l.granted
        <5>1. CASE l \in layers[Thread(k)]
          <6>1. WritesWhereItMakes(l) /\ <<"make", Workdir[k]>> \in l.granted
            BY <1>0, <2>2, <5>1 DEF Confined, Reaches, Keeps, WritesWhereItMakes
          <6> QED BY <6>1, ContainerAssumption DEF WritesWhereItMakes
        <5>2. CASE l = BoxLayer(k)
          BY <5>2, BoxLayerSound
        <5> QED BY <1>0, <3>1, <4>2, <5>1, <5>2
      <4> QED BY <1>1, <4>1, <4>2 DEF Reaches, Keeps
    <3> QED BY <1>1, <3>2, <3>3, <3>4, <3>5 DEF Confined
  <2> QED BY <1>0, <1>3, <2>1, <2>2, EnterLayers
<1>4. CASE ~Enter(k)
  <2>1. layers' = layers
    BY <1>4 DEF Move, RunStep, InCompartment, Hook, Add, Edge, RunOrder, StartCompartment,
       SnapshotRaises, ChangeFile, ChangeSnapshot, Send, Return, Raise, Interrupt, CompartmentHook,
       HookRaises, Exit
  <2>2. \/ UNCHANGED box
        \/ \E j \in Containers : \E t : box' = [box EXCEPT ![j].snapshot = t]
        \/ \E st : box' = [box EXCEPT ![k].state = st]
    BY <1>4 DEF Move, RunStep, InCompartment, Hook, Add, Edge, RunOrder, StartCompartment,
       SnapshotRaises, ChangeFile, ChangeSnapshot, Send, Return, Raise, Interrupt, CompartmentHook,
       HookRaises, Exit
  <2>3. box'[k].applied = box[k].applied
    <3>0. box \in [Containers -> Boxes] /\ box[k] \in Boxes
      BY <1>0 DEF Typed
    <3>1. ASSUME NEW st, box' = [box EXCEPT ![k].state = st]
          PROVE  box'[k].applied = box[k].applied
      BY <3>0, <3>1 DEF Boxes
    <3>2. ASSUME NEW j \in Containers, NEW t, box' = [box EXCEPT ![j].snapshot = t]
          PROVE  box'[k].applied = box[k].applied
      <4>1. box[j] \in Boxes
        BY <3>0
      <4>2. CASE j = k
        BY <3>0, <3>2, <4>2 DEF Boxes
      <4>3. CASE j # k
        BY <3>0, <3>2, <4>3
      <4> QED BY <4>2, <4>3
    <3> QED BY <2>2, <3>1, <3>2
  <2>4. Running(k)' => Running(k)
    <3>1. CASE Innermost(k)
      BY <1>0, <3>1, InnermostFacts
    <3>2. CASE ~Innermost(k)
      BY <1>4, <3>2 DEF Move, Add, Edge, Running
    <3> QED BY <3>1, <3>2
  <2> QED BY <1>2, <2>1, <2>3, <2>4
<1> QED BY <1>3, <1>4

LEMMA StepSaved ==
    ASSUME Inv, NEW k \in Containers, Move(k)
    PROVE  Saved'
<1>0. /\ Typed /\ InOrder /\ Nested /\ Saved /\ run \in [Containers -> Runs]
      /\ box \in [Containers -> Boxes] /\ files \in [Watched -> Contents]
  BY DEF Inv, Typed
<1>1. setup' = setup
  BY <1>0, OthersStay
<1> SUFFICES ASSUME setup.faults = {}, NEW j \in Containers, run'[j].at \in {"inside", "hook"},
                    setup.of[j].auto_modules
             PROVE  /\ box'[j].snapshot = runtime'[j].before
                    /\ runtime'[j].before \in Contents
  BY <1>1 DEF Saved
<1>2. CASE j # k
  <2>1. run'[j] = run[j] /\ runtime'[j] = runtime[j] /\ box'[j] = box[j]
    BY <1>0, <1>2, RunSteps, StepTyped
  <2> QED BY <1>0, <2>1 DEF Saved
<1>3. CASE j = k /\ Beginning(k)
  <2>0. StartCompartment(k)
    BY <1>3 DEF Beginning
  <2>1. PICK Q, L, E : runtime \in [Containers -> Runtimes(Q, L, E)]
    BY <1>0 DEF Typed, RuntimesTyped
  <2>2. runtime'[k].before = files[Workdir[k]]
    <3> DEFINE c == Current(k)
               q == runtime[k].queue[c]
               b == files[Workdir[k]]
    <3>1. runtime' = [runtime EXCEPT ![k].got[c] = q, ![k].queue[c] = <<>>,
                                     ![k].before = b, ![k].outcome[c] = "running"]
      BY <2>0 DEF StartCompartment
    <3> HIDE DEF c, q, b
    <3>2. runtime'[k].before = b
      BY <2>1, <3>1 DEF Runtimes
    <3> QED BY <3>2 DEF b
  <2>3. box'[k].snapshot = files[Workdir[k]]
    <3>1. PICK tree \in Snapshots(k) : box' = [box EXCEPT ![k].snapshot = tree]
      BY <2>0 DEF StartCompartment
    <3>2. tree = files[Workdir[k]]
      BY <1>3, <3>1 DEF Snapshots
    <3> QED BY <1>0, <3>1, <3>2 DEF Boxes
  <2>4. files[Workdir[k]] \in Contents
    BY <1>0, ContainerAssumption
  <2> QED BY <1>3, <2>2, <2>3, <2>4
<1>4. CASE j = k /\ (Going(k) \/ Ending(k))
  <2>1. run[k].at = "inside"
    BY <1>4 DEF Going, Ending
  <2>2. runtime'[k].before = runtime[k].before
    BY <1>0, <2>1, StepTyped
  <2>3. box' = box
    <3>1. Innermost(k) /\ ~Enter(k)
      BY <1>4, <2>1 DEF Going, Ending, Enter
    <3> QED BY <2>1, <3>1 DEF Move, RunStep, InCompartment, Hook, Add, Edge, RunOrder,
               StartCompartment, SnapshotRaises, ChangeFile, ChangeSnapshot, Send, Return, Raise,
               Interrupt, CompartmentHook, HookRaises, Exit
  <2> QED BY <1>0, <1>4, <2>1, <2>2, <2>3 DEF Saved
<1>5. CASE j = k /\ (Entering(k) \/ Idle(k) \/ Leaving(k))
  BY <1>5 DEF Entering, Idle, Leaving
<1> QED BY <1>0, <1>2, <1>3, <1>4, <1>5, StageSteps

LEMMA StepInv == Inv /\ [Next]_vars => Inv'
<1> SUFFICES ASSUME Inv, [Next]_vars PROVE Inv'
  OBVIOUS
<1>1. ASSUME NEW k \in Containers, Move(k) PROVE Inv'
  <2>1. Typed' /\ InOrder'
    BY <1>1, StepTyped DEF Inv
  <2> QED BY <1>1, <2>1, StepNested, StepConfined, StepEnforced, StepSaved DEF Inv
<1>2. CASE UNCHANGED vars
  <2>1. Typed' /\ InOrder' /\ Saved'
    BY <1>2 DEF vars, Inv, Typed, RuntimesTyped, InOrder, Saved
  <2>2. Nested' /\ Sole' /\ OneAtATime'
    BY <1>2 DEF vars, Inv, Nested, Sole, Sequential, OneAtATime, Running, Thread
  <2>3. Confined'
    BY <1>2 DEF vars, Inv, Confined, BoxLayer, Reaches, Running, Thread
  <2>4. Enforced'
    <3>1. (Sequential' <=> Sequential) /\ Inside' = Inside
      BY <1>2 DEF vars, Sequential, Inside, Thread
    <3>2. \A c : Current(c)' = Current(c)
      BY <1>2 DEF vars, Current
    <3>3. \A t, n : Policies(t, n)' = Policies(t, n)
      BY <1>2 DEF vars, Current, Policies
    <3>4. {Current(c) : c \in Inside}' = {Current(c) : c \in Inside}
      BY <3>1, <3>2
    <3> QED BY <1>2, <3>1, <3>3, <3>4 DEF vars, Inv, Enforced
  <2> QED BY <2>1, <2>2, <2>3, <2>4 DEF Inv
<1> QED BY <1>1, <1>2 DEF Next, Move, RunStep

LEMMA AlwaysInv == Spec => []Inv
  BY InitInv, StepInv, PTL DEF Spec

-----------------------------------------------------------------------------
(* What follows.                                                           *)

\* A compartment, or the hook after it, changes a place only by a right that the
\* confinement of its thread leaves it there.
LEMMA FileSteps ==
    ASSUME Typed, NEW k \in Containers, InCompartment(k) \/ Hook(k),
           NEW p \in Watched, files'[p] # files[p]
    PROVE  \E right \in WriteRights : Reaches(k, right, p)
<1>0. files \in [Watched -> Contents]
  BY DEF Typed
<1>1. CASE Hook(k)
  <2>1. p = Workdir[k] /\ Reaches(k, "write", Workdir[k])
    BY <1>0, <1>1, HookFiles
  <2> QED BY <2>1 DEF WriteRights
<1>2. CASE \E place \in Watched, content \in Contents, right \in WriteRights :
              ChangeFile(k, place, content, right)
  <2>1. PICK place \in Watched, content \in Contents, right \in WriteRights :
          ChangeFile(k, place, content, right)
    BY <1>2
  <2>2. files' = [files EXCEPT ![place] = content] /\ Reaches(k, right, place)
    BY <2>1 DEF ChangeFile
  <2>3. p = place
    BY <1>0, <2>2
  <2> QED BY <2>2, <2>3
<1> QED BY <1>1, <1>2 DEF InCompartment, ChangeSnapshot, Send, Return, Raise, Interrupt

\* The layer of a box leaves writing, making and truncating to its own directory, the
\* temporary directories and the devices.
LEMMA BoxLayerConfines ==
    ASSUME NEW k \in Containers, NEW right \in WriteRights, NEW p, NEW L,
           setup.kernel.platform = "linux" => setup.kernel.abi >= 3,
           BoxLayer(k) \in L, Keeps(L, right, p)
    PROVE  p \in {Workdir[k], "tmp", "dev"}
<1>1. right \in BoxLayer(k).handled => <<right, p>> \in BoxLayer(k).granted
  BY DEF Keeps
<1>2. CASE setup.kernel.platform = "linux"
  <2>1. right \in LandlockLayer(setup.kernel.abi, Workdir[k], BlockNetwork).handled
    BY <1>2 DEF LandlockLayer, HandledFs, WriteRights
  <2>2. <<right, p>> \in LandlockLayer(setup.kernel.abi, Workdir[k], BlockNetwork).granted
    BY <1>1, <1>2, <2>1 DEF BoxLayer
  <2> QED BY <2>2 DEF LandlockLayer, Everywhere, ReadRights, WriteRights
<1>3. CASE setup.kernel.platform # "linux"
  <2>1. right \in SeatbeltLayer(Workdir[k], BlockNetwork).handled
    BY DEF SeatbeltLayer, ReadRights, WriteRights
  <2>2. <<right, p>> \in SeatbeltLayer(Workdir[k], BlockNetwork).granted
    BY <1>1, <1>3, <2>1 DEF BoxLayer
  <2> QED BY <2>2 DEF SeatbeltLayer, Everywhere, ReadRights, WriteRights
<1> QED BY <1>2, <1>3

\* Once a box says that its sandbox is applied, no compartment that runs on its thread,
\* nor on any where the kernel confines them all, and no rollback after it, changes a
\* file outside the box: whatever functions the compartment uses, and whichever
\* containers ran there before or run within.
THEOREM BoxesAlwaysConfine == Spec => BoxesConfine
<1>1. ASSUME Inv
      PROVE  [\A j, k \in Containers, p \in Watched :
                /\ box[k].applied
                /\ files'[p] # files[p]
                /\ Thread(j) = Thread(k) \/ AllThreads(setup.kernel)
                /\ setup.kernel.platform = "linux" => setup.kernel.abi >= 3
                /\ InCompartment(j) \/ Hook(j)
                => p \in {Workdir[k], "tmp", "dev"}]_vars
  <2> SUFFICES ASSUME NEW j \in Containers, NEW k \in Containers, NEW p \in Watched,
                      box[k].applied, files'[p] # files[p],
                      Thread(j) = Thread(k) \/ AllThreads(setup.kernel),
                      setup.kernel.platform = "linux" => setup.kernel.abi >= 3,
                      InCompartment(j) \/ Hook(j)
               PROVE  p \in {Workdir[k], "tmp", "dev"}
    OBVIOUS
  <2>1. PICK right \in WriteRights : Keeps(layers[Thread(j)], right, p)
    BY <1>1, FileSteps DEF Inv, Reaches
  <2>2. Thread(j) \in Threads /\ Thread(k) \in Threads
    BY <1>1, ContainerAssumption DEF Inv, Typed, Thread
  <2>3. BoxLayer(k) \in layers[Thread(k)] /\ layers[Thread(j)] = layers[Thread(k)]
    BY <1>1, <2>2 DEF Inv, Confined
  <2> QED BY <2>1, <2>3, BoxLayerConfines
<1> QED BY <1>1, AlwaysInv, PTL DEF Spec, BoxesConfine

\* While runs do not go side by side, the wrapped functions check the policies of the
\* compartments that run and of no other, however deep containers call each other and
\* however their compartments and runs end.
THEOREM PoliciesAlwaysInForce == Spec => []PoliciesInForce
<1>1. Inv => PoliciesInForce
  BY DEF Inv, Enforced, Inside, PoliciesInForce
<1> QED BY <1>1, AlwaysInv, PTL

\* Where runs do not overlap, all can be read and written, and the snapshot is left
\* alone, the rollback of a failed compartment succeeds: its functions are no longer
\* patched, its box could not have been entered on a directory it may not write, and
\* nothing else ran since the snapshot.
THEOREM FailuresAreUndone == Spec => FailureIsRolledBack
<1>1. ASSUME Inv, [Next]_vars
      PROVE  [\A k \in Containers :
                /\ ~setup.overlap /\ setup.faults = {}
                /\ run[k].at = "hook" /\ run'[k].at # "hook"
                /\ setup.of[k].auto_modules
                /\ runtime[k].outcome[Current(k)] = "failed"
                => files'[Workdir[k]] = runtime[k].before]_vars
  <2> SUFFICES ASSUME NEW k \in Containers, ~setup.overlap, setup.faults = {},
                      run[k].at = "hook", run'[k].at # "hook",
                      setup.of[k].auto_modules,
                      runtime[k].outcome[Current(k)] = "failed"
               PROVE  files'[Workdir[k]] = runtime[k].before
    OBVIOUS
  <2>0. /\ Typed /\ InOrder /\ OneAtATime /\ Confined /\ Enforced /\ Saved
        /\ files \in [Watched -> Contents] /\ Workdir[k] \in Watched
    BY <1>1, ContainerAssumption DEF Inv, Typed
  <2>1. PICK j \in Containers : Move(j)
    BY <1>1 DEF Next, Move, RunStep, vars
  <2>2. j = k
    BY <2>0, <2>1, RunSteps
  <2>3. Hook(k)
    BY <2>1, <2>2 DEF Move, RunStep, InCompartment, Add, Edge, Enter, RunOrder,
       StartCompartment, SnapshotRaises, ChangeFile, ChangeSnapshot, Send, Return, Raise,
       Interrupt, Exit
  <2>4. CheckPermission(HookNeeds(k))
    <3>1. Inside = {}
      BY <2>0 DEF OneAtATime, Running, Inside
    <3>2. Sequential
      BY DEF Sequential
    <3>3. patched = {}
      BY <2>0, <3>1, <3>2 DEF Enforced
    <3> QED BY <3>3 DEF CheckPermission
  <2>5. box[k].snapshot = runtime[k].before /\ box[k].snapshot \in Contents
    BY <2>0 DEF Saved
  <2>6. RollsBack(k) /\ Whole(k) /\ Reaches(k, "write", Workdir[k])
    BY <2>0, <2>5, ContainerAssumption DEF RollsBack, Whole, Confined, Running
  <2>7. Restored(k) = {box[k].snapshot}
    BY <2>6 DEF Restored
  <2>8. CompartmentHook(k)
    BY <2>3, <2>4, <2>6 DEF Hook, HookRaises
  <2>9. files' = [files EXCEPT ![Workdir[k]] = box[k].snapshot]
    BY <2>6, <2>7, <2>8 DEF CompartmentHook
  <2> QED BY <2>0, <2>5, <2>9
<1> QED BY <1>1, AlwaysInv, PTL DEF Spec, FailureIsRolledBack

-----------------------------------------------------------------------------
(* What is chosen of a sequence, and in which order.                       *)

HIDE ContainerAssumption

\* Claims about sequences, as the set of those that fulfil them.
LEMMA Growth ==
  ASSUME NEW S, NEW T \in SUBSET Seq(S), <<>> \in T,
         \A s \in T, e \in S : Append(s, e) \in T
  PROVE  T = Seq(S)
<1> SUFFICES ASSUME Seq(S) \ T # {} PROVE FALSE
  OBVIOUS
<1> DEFINE Lengths == {Len(s) : s \in Seq(S) \ T}
<1>1. \A s \in Seq(S) : Len(s) \in Nat
  OBVIOUS
<1>2. PICK n \in Lengths : \A m \in Lengths : n <= m
  <2>1. Lengths \in SUBSET Nat /\ Lengths # {}
    BY <1>1
  <2> HIDE DEF Lengths
  <2> QED BY <2>1, Least
<1>3. PICK s \in Seq(S) \ T : Len(s) = n
  OBVIOUS
<1>4. PICK t \in Seq(S), e \in S : s = Append(t, e)
  BY <1>3, SequenceEmptyOrAppend
<1>5. Len(s) = Len(t) + 1 /\ Len(t) \in Nat
  BY <1>4
<1>6. Len(t) \notin Lengths
  <2> HIDE DEF Lengths
  <2> QED BY <1>2, <1>3, <1>5
<1> QED BY <1>3, <1>4, <1>6

\* A sequence that grows by what it did not hold stays without repetitions.
LEMMA Unrepeated ==
  ASSUME NEW S, NEW s \in Seq(S), NEW e \in S
  PROVE  IsInjective(Append(s, e)) <=> IsInjective(s) /\ e \notin Range(s)
<1> DEFINE n == Len(s)
           t == Append(s, e)
<1>1. /\ n \in Nat /\ DOMAIN s = 1..n /\ DOMAIN t = 1..(n + 1) /\ t[n + 1] = e
      /\ \A m \in 1..n : t[m] = s[m]
  OBVIOUS
<1>2. \A m : m \in 1..(n + 1) <=> m \in 1..n \/ m = n + 1
  BY <1>1
<1>3. n + 1 \notin 1..n
  BY <1>1
<1> HIDE DEF t, n
<1> QED BY <1>1, <1>2, <1>3 DEF IsInjective, Range, t

\* What two sequences consist of together.
LEMMA Together ==
  ASSUME NEW S, NEW s \in Seq(S), NEW t \in Seq(S)
  PROVE  s \o t \in Seq(S) /\ Range(s \o t) = Range(s) \cup Range(t)
<1> DEFINE u == s \o t
           l == Len(s)
           n == Len(t)
<1>1. /\ u \in Seq(S) /\ Len(u) = l + n
      /\ \A i \in 1..l + n : u[i] = IF i <= l THEN s[i] ELSE t[i - l]
  BY ConcatProperties
<1>2. /\ l \in Nat /\ n \in Nat /\ DOMAIN u = 1..(l + n) /\ DOMAIN s = 1..l /\ DOMAIN t = 1..n
  <2>1. l \in Nat /\ n \in Nat /\ DOMAIN s = 1..l /\ DOMAIN t = 1..n
    OBVIOUS
  <2>2. DOMAIN u = 1..Len(u)
    <3> HIDE DEF u
    <3> QED BY <1>1
  <2>3. Len(u) = l + n
    BY <1>1
  <2> HIDE DEF u, l, n
  <2>4. DOMAIN u = 1..(l + n)
    BY ONLY <2>2, <2>3
  <2> QED BY <2>1, <2>4
<1> HIDE DEF u, l, n
<1>3. \A i \in 1..l : i \in 1..(l + n) /\ u[i] = s[i]
  BY <1>1, <1>2
<1>4. \A i \in 1..n : l + i \in 1..(l + n) /\ u[l + i] = t[i]
  <2> TAKE i \in 1..n
  <2>1. l + i \in 1..(l + n) /\ ~(l + i <= l) /\ (l + i) - l = i
    BY <1>2
  <2> QED BY <1>1, <2>1
<1>5. \A i \in 1..(l + n) : i \in 1..l \/ (i - l \in 1..n /\ i = l + (i - l))
  BY <1>2
<1>6. Range(u) = Range(s) \cup Range(t)
  <2>1. \A i \in DOMAIN u : u[i] \in Range(s) \cup Range(t)
    <3> TAKE i \in DOMAIN u
    <3>1. CASE i \in 1..l
      BY <1>2, <1>3, <3>1 DEF Range
    <3>2. CASE i - l \in 1..n /\ i = l + (i - l)
      <4>1. u[i] = t[i - l]
        BY <1>4, <3>2
      <4> QED BY <1>2, <3>2, <4>1 DEF Range
    <3> QED BY <1>2, <1>5, <3>1, <3>2
  <2>2. \A i \in DOMAIN s : s[i] \in Range(u)
    BY <1>2, <1>3 DEF Range
  <2>3. \A i \in DOMAIN t : t[i] \in Range(u)
    BY <1>2, <1>4 DEF Range
  <2> QED BY <2>1, <2>2, <2>3 DEF Range
<1> QED BY <1>1, <1>6 DEF u

\* Appending to the second of two sequences.
LEMMA JoinedAppended ==
  ASSUME NEW S, NEW u \in Seq(S), NEW v \in Seq(S), NEW e \in S
  PROVE  u \o Append(v, e) = Append(u \o v, e)
<1>1. /\ Append(v, e) = v \o <<e>> /\ u \o v \in Seq(S) /\ <<e>> \in Seq(S)
      /\ Append(u \o v, e) = (u \o v) \o <<e>>
  BY AppendIsConcat, ConcatProperties
<1> QED BY <1>1, ConcatAssociative

\* One step of Only.
OnlyStep(only, m, M) == IF m \in M THEN Append(only, m) ELSE only

\* A run of Only over a sequence.
OnlyRun(f, s, n, M, S) ==
    /\ f \in [0..n -> Seq(S)]
    /\ f[0] = <<>> /\ f[n] = Only(s, M)
    /\ \A m \in 1..n : f[m] = OnlyStep(f[m - 1], s[m], M)

LEMMA OnlyRuns ==
  ASSUME NEW S, NEW M, NEW s \in Seq(S)
  PROVE  \E f : OnlyRun(f, s, Len(s), M, S)
<1> DEFINE n == Len(s)
           A == Seq(S)
           step == [p \in A \X (1..n) |-> OnlyStep(p[1], s[p[2]], M)]
           iter == CHOOSE iter : iter = [t \in SUBSET (1..n) |->
                      IF t = {} THEN <<>> ELSE OnlyStep(iter[t \ {Max(t)}], s[Max(t)], M)]
<1>1. n \in Nat /\ DOMAIN s = 1..n /\ <<>> \in A /\ \A m \in 1..n : s[m] \in S
  OBVIOUS
<1>2. Only(s, M) = iter[1..n]
  BY <1>1 DEF Only, FoldLeft, MapThenFoldSet, OnlyStep
<1>3. step \in [A \X (1..n) -> A]
  <2>1. \A a \in A, m \in 1..n : OnlyStep(a, s[m], M) \in A
    BY <1>1 DEF OnlyStep
  <2> QED BY <2>1
<1>4. \A a \in A : \A m \in 1..n : step[<<a, m>>] = OnlyStep(a, s[m], M)
  OBVIOUS
<1>5. \A t \in SUBSET (1..n) : t # {} => Max(t) \in 1..n
  BY <1>1, MaxIn
<1> HIDE DEF A, n, step
<1>6. iter = [t \in SUBSET (1..n) |->
                 IF t = {} THEN <<>> ELSE OnlyStep(iter[t \ {Max(t)}], s[Max(t)], M)]
  <2>1. PICK g \in [SUBSET (1..n) -> A] : Solves(g, <<>>, step, n)
    BY <1>1, <1>3, FoldExists
  <2>2. g = [t \in SUBSET (1..n) |->
               IF t = {} THEN <<>> ELSE OnlyStep(g[t \ {Max(t)}], s[Max(t)], M)]
    BY <1>4, <1>5, <2>1 DEF Solves
  <2> QED BY <2>2
<1> HIDE DEF iter
<1>7. IsFold(iter, <<>>, step, n, A)
  <2>1. iter[{}] = <<>> /\ \A t \in SUBSET (1..n) :
          t # {} /\ iter[t \ {Max(t)}] \in A => iter[t] = step[<<iter[t \ {Max(t)}], Max(t)>>]
    BY <1>4, <1>5, <1>6
  <2> QED BY <1>1, <1>3, <2>1 DEF IsFold
<1>8. PICK f \in [0..n -> A] : /\ f[0] = <<>> /\ f[n] = iter[1..n]
                               /\ \A m \in 1..n : f[m] = step[<<f[m - 1], m>>]
  BY <1>7, FoldRuns
<1>9. \A m \in 1..n : f[m] = OnlyStep(f[m - 1], s[m], M)
  <2> TAKE m \in 1..n
  <2>1. m - 1 \in 0..n
    BY <1>1
  <2> QED BY <1>4, <1>8, <2>1
<1>10. OnlyRun(f, s, n, M, S)
  BY <1>2, <1>8, <1>9 DEF A, OnlyRun
<1> QED BY <1>10 DEF n

\* Only, one message after the other.
LEMMA OnlyGrows ==
  ASSUME NEW S, NEW M
  PROVE  /\ Only(<<>>, M) = <<>>
         /\ \A s \in Seq(S) : Only(s, M) \in Seq(S)
         /\ \A s \in Seq(S), e \in S : Only(Append(s, e), M) = OnlyStep(Only(s, M), e, M)
<1>1. Only(<<>>, M) = <<>>
  <2>1. <<>> \in Seq(S) /\ Len(<<>>) = 0
    OBVIOUS
  <2>2. PICK f : OnlyRun(f, <<>>, 0, M, S)
    BY <2>1, OnlyRuns
  <2> QED BY <2>2 DEF OnlyRun
<1>2. \A s \in Seq(S) : Only(s, M) \in Seq(S)
  <2> TAKE s \in Seq(S)
  <2>1. Len(s) \in 0..Len(s)
    OBVIOUS
  <2>2. PICK f : OnlyRun(f, s, Len(s), M, S)
    BY OnlyRuns
  <2> QED BY <2>1, <2>2 DEF OnlyRun
<1>3. ASSUME NEW s \in Seq(S), NEW e \in S
      PROVE  Only(Append(s, e), M) = OnlyStep(Only(s, M), e, M)
  <2> DEFINE n == Len(s)
             t == Append(s, e)
  <2>1. /\ n \in Nat /\ t \in Seq(S) /\ Len(t) = n + 1
        /\ t[n + 1] = e /\ \A m \in 1..n : t[m] = s[m]
    OBVIOUS
  <2>2. PICK f : OnlyRun(f, s, n, M, S)
    BY OnlyRuns
  <2> HIDE DEF t, n
  <2>3. PICK g : OnlyRun(g, t, n + 1, M, S)
    BY <2>1, OnlyRuns
  <2> USE DEF OnlyRun
  <2> DEFINE T == {m \in 0..n : f[m] = g[m]}
  <2>4. T = 0..n
    <3>1. 0 \in T
      BY <2>1, <2>2, <2>3
    <3>2. \A m \in 1..n : m - 1 \in T => m \in T
      BY <2>1, <2>2, <2>3
    <3> HIDE DEF T
    <3>3. T \in SUBSET (0..n)
      BY DEF T
    <3> QED BY <2>1, <3>1, <3>2, <3>3, Climb
  <2>5. g[n + 1] = OnlyStep(g[n], e, M) /\ g[n] = f[n]
    <3>1. n \in 0..n /\ n + 1 \in 1..(n + 1) /\ (n + 1) - 1 = n
      BY <2>1
    <3> QED BY <2>1, <2>3, <2>4, <3>1
  <2> QED BY <2>2, <2>3, <2>5 DEF t
<1> QED BY <1>1, <1>2, <1>3

\* What a sequence consists of.
LEMMA SequencesAppended ==
  ASSUME NEW S
  PROVE  /\ Range(<<>>) = {}
         /\ \A s \in Seq(S), e \in S : Range(Append(s, e)) = Range(s) \cup {e}
<1>1. Range(<<>>) = {}
  BY DEF Range
<1>2. ASSUME NEW s \in Seq(S), NEW e \in S
      PROVE  Range(Append(s, e)) = Range(s) \cup {e}
  <2> DEFINE n == Len(s)
             t == Append(s, e)
  <2>1. /\ n \in Nat /\ DOMAIN s = 1..n /\ DOMAIN t = 1..(n + 1) /\ t[n + 1] = e
        /\ \A m \in 1..n : t[m] = s[m]
    OBVIOUS
  <2>2. \A m : m \in 1..(n + 1) <=> m \in 1..n \/ m = n + 1
    BY <2>1
  <2> HIDE DEF t, n
  <2> QED BY <2>1, <2>2 DEF Range, t
<1> QED BY <1>1, <1>2

\* What is chosen of a sequence.
LEMMA OnlyHolds ==
  ASSUME NEW S, NEW M
  PROVE  \A s \in Seq(S) : Range(Only(s, M)) = Range(s) \cap M
<1> DEFINE T == {s \in Seq(S) : Range(Only(s, M)) = Range(s) \cap M}
<1>1. Range(<<>>) = {} /\ \A s \in Seq(S), e \in S : Range(Append(s, e)) = Range(s) \cup {e}
  BY SequencesAppended
<1>2. <<>> \in T
  BY <1>1, OnlyGrows
<1>3. ASSUME NEW s \in T, NEW e \in S
      PROVE  Append(s, e) \in T
  <2>0. s \in Seq(S) /\ Append(s, e) \in Seq(S)
    OBVIOUS
  <2>1. Only(Append(s, e), M) = OnlyStep(Only(s, M), e, M) /\ Only(s, M) \in Seq(S)
    <3> HIDE DEF T
    <3> QED BY <2>0, OnlyGrows
  <2>2. Range(Append(s, e)) = Range(s) \cup {e}
        /\ Range(Append(Only(s, M), e)) = Range(Only(s, M)) \cup {e}
    BY <1>1, <2>0, <2>1
  <2> QED BY <2>0, <2>1, <2>2 DEF OnlyStep
<1>4. T \in SUBSET Seq(S)
  OBVIOUS
<1> HIDE DEF T
<1>5. T = Seq(S)
  BY <1>2, <1>3, <1>4, Growth
<1> QED BY <1>5 DEF T

\* Choosing twice.
LEMMA OnlyTwice ==
  ASSUME NEW S, NEW M, NEW N
  PROVE  \A s \in Seq(S) : Only(Only(s, M), N) = Only(s, M \cap N)
<1> DEFINE T == {s \in Seq(S) : Only(Only(s, M), N) = Only(s, M \cap N)}
<1>2. <<>> \in T
  BY OnlyGrows
<1>3. ASSUME NEW s \in T, NEW e \in S
      PROVE  Append(s, e) \in T
  <2>0. s \in Seq(S) /\ Append(s, e) \in Seq(S)
    OBVIOUS
  <2>1. /\ Only(Append(s, e), M) = OnlyStep(Only(s, M), e, M)
        /\ Only(Append(s, e), M \cap N) = OnlyStep(Only(s, M \cap N), e, M \cap N)
        /\ Only(s, M) \in Seq(S)
    <3> DEFINE K == M \cap N
    <3> HIDE DEF T, K
    <3>1. Only(Append(s, e), M) = OnlyStep(Only(s, M), e, M) /\ Only(s, M) \in Seq(S)
      BY <2>0, OnlyGrows
    <3>2. Only(Append(s, e), K) = OnlyStep(Only(s, K), e, K)
      BY <2>0, OnlyGrows
    <3> QED BY <3>1, <3>2 DEF K
  <2>2. Only(Append(Only(s, M), e), N) = OnlyStep(Only(Only(s, M), N), e, N)
    <3> DEFINE r == Only(s, M)
    <3>1. r \in Seq(S)
      BY <2>1
    <3> HIDE DEF T, r
    <3>2. Only(Append(r, e), N) = OnlyStep(Only(r, N), e, N)
      BY <3>1, OnlyGrows
    <3> QED BY <3>2 DEF r
  <2>3. Only(Only(s, M), N) = Only(s, M \cap N)
    OBVIOUS
  <2>4. Only(Only(Append(s, e), M), N) = Only(Append(s, e), M \cap N)
    <3> DEFINE K == M \cap N
               a == Append(s, e)
               p == Only(s, M)
    <3>1. e \in K <=> e \in M /\ e \in N
      OBVIOUS
    <3>2. /\ Only(a, M) = OnlyStep(p, e, M) /\ Only(a, K) = OnlyStep(Only(s, K), e, K)
          /\ Only(Append(p, e), N) = OnlyStep(Only(p, N), e, N) /\ Only(p, N) = Only(s, K)
      BY <2>1, <2>2, <2>3
    <3> HIDE DEF T, K, a, p
    <3>3. Only(Only(a, M), N) = Only(a, K)
      BY <3>1, <3>2 DEF OnlyStep
    <3> QED BY <3>3 DEF a, K
  <2> QED BY <2>0, <2>4
<1>4. T \in SUBSET Seq(S)
  OBVIOUS
<1> HIDE DEF T
<1>5. T = Seq(S)
  BY <1>2, <1>3, <1>4, Growth
<1> QED BY <1>5 DEF T

\* Which of the messages that are there are chosen is all that matters.
LEMMA OnlySame ==
  ASSUME NEW S, NEW M, NEW N, NEW R \in Seq(S), \A m \in Range(R) : m \in M <=> m \in N
  PROVE  Only(R, M) = Only(R, N)
<1> DEFINE X == {m \in S : m \in M <=> m \in N}
           T == {s \in Seq(X) : Only(s, M) = Only(s, N)}
<1>2. <<>> \in T
  BY OnlyGrows
<1>3. ASSUME NEW s \in T, NEW e \in X
      PROVE  Append(s, e) \in T
  <2>0. s \in Seq(X) /\ e \in X
    OBVIOUS
  <2>1. /\ Only(Append(s, e), M) = OnlyStep(Only(s, M), e, M)
        /\ Only(Append(s, e), N) = OnlyStep(Only(s, N), e, N)
    <3> HIDE DEF X, T
    <3> QED BY <2>0, OnlyGrows
  <2> QED BY <2>1 DEF OnlyStep
<1>4. T \in SUBSET Seq(X)
  OBVIOUS
<1>6. R \in Seq(X)
  <2>1. \A i \in 1..Len(R) : R[i] \in X
    BY DEF Range
  <2> QED BY <2>1
<1> HIDE DEF T, X
<1>5. T = Seq(X)
  BY <1>2, <1>3, <1>4, Growth
<1> QED BY <1>5, <1>6 DEF T

\* Of messages none of which is chosen nothing is.
LEMMA OnlyNone ==
  ASSUME NEW S, NEW M, NEW s \in Seq(S), Range(s) \cap M = {}
  PROVE  Only(s, M) = <<>>
<1>1. Only(s, M) \in Seq(S) /\ Range(Only(s, M)) = {}
  BY OnlyGrows, OnlyHolds
<1> QED BY <1>1 DEF Range

\* Choosing from two sequences one after the other.
LEMMA OnlyJoined ==
  ASSUME NEW S, NEW M, NEW s \in Seq(S)
  PROVE  \A t \in Seq(S) : Only(s \o t, M) = Only(s, M) \o Only(t, M)
<1> DEFINE T == {t \in Seq(S) : Only(s \o t, M) = Only(s, M) \o Only(t, M)}
<1>1. Only(s, M) \in Seq(S) /\ \A t \in Seq(S) : Only(t, M) \in Seq(S)
  BY OnlyGrows
<1>2. <<>> \in T
  <2>1. s \o <<>> = s /\ Only(s, M) \o <<>> = Only(s, M) /\ <<>> \in Seq(S)
    BY <1>1, ConcatEmptySeq
  <2> QED BY <2>1, OnlyGrows
<1>3. ASSUME NEW t \in T, NEW e \in S
      PROVE  Append(t, e) \in T
  <2>1. /\ Only(Append(t, e), M) = OnlyStep(Only(t, M), e, M)
        /\ Only(Append(s \o t, e), M) = OnlyStep(Only(s \o t, M), e, M)
    <3>1. s \o t \in Seq(S)
      BY ConcatProperties
    <3> QED BY <3>1, OnlyGrows
  <2>2. \A u \in Seq(S), v \in Seq(S) : u \o Append(v, e) = Append(u \o v, e)
    BY JoinedAppended
  <2>3. s \o Append(t, e) = Append(s \o t, e)
        /\ Only(s, M) \o Append(Only(t, M), e) = Append(Only(s, M) \o Only(t, M), e)
    BY <1>1, <2>2
  <2>4. Append(t, e) \in Seq(S)
    OBVIOUS
  <2> QED BY <2>1, <2>3, <2>4 DEF OnlyStep
<1>4. T \in SUBSET Seq(S)
  OBVIOUS
<1> HIDE DEF T
<1>5. T = Seq(S)
  BY <1>2, <1>3, <1>4, Growth
<1> QED BY <1>5 DEF T

\* Nothing is chosen twice that was there once.
LEMMA OnlyInjective ==
  ASSUME NEW S, NEW M
  PROVE  \A s \in Seq(S) : IsInjective(s) => IsInjective(Only(s, M))
<1> DEFINE T == {s \in Seq(S) : IsInjective(s) => IsInjective(Only(s, M))}
<1>1. IsInjective(<<>>)
  BY DEF IsInjective
<1>6. \A s \in Seq(S), e \in S : IsInjective(Append(s, e)) <=> IsInjective(s) /\ e \notin Range(s)
  BY Unrepeated
<1>2. <<>> \in T
  BY <1>1, OnlyGrows
<1>3. ASSUME NEW s \in T, NEW e \in S
      PROVE  Append(s, e) \in T
  <2>0. s \in Seq(S) /\ Append(s, e) \in Seq(S)
    OBVIOUS
  <2>1. Only(Append(s, e), M) = OnlyStep(Only(s, M), e, M) /\ Only(s, M) \in Seq(S)
    <3> HIDE DEF T
    <3> QED BY <2>0, OnlyGrows
  <2>2. Range(Only(s, M)) = Range(s) \cap M
    BY OnlyHolds
  <2> QED BY <1>6, <2>0, <2>1, <2>2 DEF OnlyStep
<1>4. T \in SUBSET Seq(S)
  OBVIOUS
<1> HIDE DEF T
<1>5. T = Seq(S)
  BY <1>2, <1>3, <1>4, Growth
<1> QED BY <1>5 DEF T

-----------------------------------------------------------------------------
(* The messages of a runtime.                                              *)

Outcomes == {"none", "running", "done", "failed", "interrupted"}
Messages == [from : Compartments, to : Compartments, nr : Nat]
Kept == Runtimes(Seq(Messages), Seq(Messages), SUBSET (Compartments \X Compartments))

\* Who sent the messages of s; the compartments before a place of the order, and those
\* from it on.
Senders(s) == {m.from : m \in Range(s)}
Ahead(rt, i) == {rt.order[j] : j \in 1..(i - 1)}
Behind(rt, i) == {rt.order[j] : j \in i..Len(rt.order)}
Begun(rt, c) == rt.outcome[c] # "none"

Fresh(rt) ==
    /\ rt.sent = <<>> /\ rt.outbox = <<>>
    /\ \A c \in Compartments : ~Begun(rt, c) /\ rt.queue[c] = <<>>

\* A compartment that has not begun has in its queue what was delivered to it, D.
Waits(rt, D) ==
    /\ D \in Seq(Messages) /\ IsInjective(D)
    /\ rt.sent = D \o rt.outbox
    /\ \A c \in Range(rt.order) : ~Begun(rt, c) => rt.queue[c] = Only(D, To(c, D))

\* One that has begun was given, of what was sent, its part of what was delivered then,
\* G; O was in the outbox of compartments that had failed, and R is sent later.
Given(rt, i, G, O, R) ==
    /\ G \in Seq(Messages) /\ O \in Seq(Messages) /\ R \in Seq(Messages)
    /\ IsInjective(G)
    /\ rt.sent = (G \o O) \o R
    /\ rt.got[rt.order[i]] = Only(G, To(rt.order[i], G))
    /\ Senders(G) \subseteq Ahead(rt, i) /\ Senders(O) \subseteq Ahead(rt, i)
    /\ \A d \in Senders(O) : rt.outcome[d] \in {"failed", "interrupted"}
    /\ Senders(R) \subseteq Behind(rt, i)

\* What of a runtime the flow of its messages rests on, at a stage of its run.
Sent(rt) ==
    /\ IsInjective(rt.sent)
    /\ \A m \in Range(rt.sent) : m.nr <= Len(rt.sent)
    /\ \A d \in Senders(rt.sent) : d \in Range(rt.order) /\ Begun(rt, d)
    /\ \A d \in Senders(rt.outbox) : rt.outcome[d] # "done"
Staged(rt, n, at) ==
    /\ at \in {"setup", "entered"} => Fresh(rt)
    /\ \A i \in DOMAIN rt.order : Begun(rt, rt.order[i]) =>
          i < n \/ (i = n /\ at \in {"inside", "hook", "raised"})
    /\ \A i \in DOMAIN rt.order : rt.outcome[rt.order[i]] = "running" => i = n /\ at = "inside"
    /\ at = "inside" => n \in DOMAIN rt.order /\ rt.outcome[rt.order[n]] = "running"
Flow(rt, n, at) ==
    /\ rt \in Kept /\ IsInjective(rt.order)
    /\ Staged(rt, n, at)
    /\ Sent(rt)
    /\ at # "raised" => \E D : Waits(rt, D)
    /\ \A i \in DOMAIN rt.order : Begun(rt, rt.order[i]) => \E G, O, R : Given(rt, i, G, O, R)

\* A runtime that nothing has begun in.
LEMMA FreshFlows ==
  ASSUME NEW rt, NEW n, NEW at, rt \in Kept, IsInjective(rt.order), Fresh(rt), at # "inside"
  PROVE  Flow(rt, n, at)
<1>0. rt.order \in Seq(Compartments)
  BY DEF Kept, Runtimes
<1>1. \A c \in Range(rt.order) : c \in Compartments
  BY <1>0 DEF Range
<1>2. \A i \in DOMAIN rt.order : rt.order[i] \in Range(rt.order)
  BY DEF Range
<1>3. Range(rt.sent) = {} /\ Range(rt.outbox) = {} /\ IsInjective(rt.sent)
  BY DEF Fresh, Range, IsInjective
<1>4. \A c \in Range(rt.order) : ~Begun(rt, c)
  BY <1>1 DEF Fresh
<1>5. Staged(rt, n, at)
  BY <1>2, <1>4 DEF Staged, Begun
<1>6. Sent(rt)
  BY <1>3 DEF Sent, Senders
<1>7. Waits(rt, <<>>)
  <2>1. Range(<<>>) = {} /\ <<>> \o <<>> = <<>>
    BY DEF Range
  <2>2. \A c \in Range(rt.order) : rt.queue[c] = <<>>
    BY <1>1 DEF Fresh
  <2>3. \A c : Only(<<>>, To(c, <<>>)) = <<>>
    <3> TAKE c
    <3> DEFINE M == To(c, <<>>)
    <3> HIDE DEF M
    <3>1. Only(<<>>, M) = <<>>
      BY OnlyGrows
    <3> QED BY <3>1 DEF M
  <2> QED BY <1>3, <2>1, <2>2, <2>3 DEF Waits, Fresh
<1> QED BY <1>2, <1>4, <1>5, <1>6, <1>7 DEF Flow

\* What a runtime's fields are.
LEMMA KeptFields ==
  ASSUME NEW rt \in Kept
  PROVE  /\ rt.order \in Seq(Compartments)
         /\ rt.queue \in [Compartments -> Seq(Messages)]
         /\ rt.got \in [Compartments -> Seq(Messages)]
         /\ rt.outbox \in Seq(Messages) /\ rt.sent \in Seq(Messages)
         /\ rt.outcome \in [Compartments -> {"none", "running", "done", "failed", "interrupted"}]
         /\ DOMAIN rt.order = 1..Len(rt.order) /\ Len(rt.order) \in Nat
         /\ \A i \in DOMAIN rt.order : rt.order[i] \in Compartments
         /\ \A c \in Range(rt.order) : c \in Compartments
<1>1. rt.order \in Seq(Compartments)
  BY DEF Kept, Runtimes
<1> QED BY <1>1 DEF Kept, Runtimes, Range

\* Messages are sent by compartments.
LEMMA SendersKnown ==
  ASSUME NEW s \in Seq(Messages)
  PROVE  \A d \in Senders(s) : d \in Compartments
<1>1. \A m \in Range(s) : m \in Messages
  BY DEF Range
<1> QED BY <1>1 DEF Senders, Messages

\* Between two compartments nothing changes in the runtime.
LEMMA StagesFlow ==
  ASSUME NEW rt, NEW n \in Nat \ {0}, NEW at, NEW next \in Nat \ {0}, NEW stage, Flow(rt, n, at),
         \/ at = "hook" /\ stage = "between" /\ next = n + 1
         \/ at = "between" /\ stage = "over" /\ next = n
         \/ at = "hook" /\ stage = "raised" /\ next = n
         \/ at = "inside" /\ stage = "inside" /\ next = n
  PROVE  Flow(rt, next, stage)
<1>1. rt \in Kept /\ DOMAIN rt.order \subseteq Nat
  BY KeptFields DEF Flow
<1>2. Staged(rt, next, stage)
  BY <1>1 DEF Flow, Staged
<1> QED BY <1>2 DEF Flow

\* A queue is emptied, and the run given up.
LEMMA DroppedFlows ==
  ASSUME NEW rt, NEW n \in Nat \ {0}, Flow(rt, n, "between"), NEW r \in Kept,
         r.order = rt.order, r.got = rt.got, r.outcome = rt.outcome,
         r.outbox = rt.outbox, r.sent = rt.sent
  PROVE  Flow(r, n, "raised")
<1>1. rt \in Kept /\ IsInjective(r.order) /\ Staged(r, n, "raised") /\ Sent(r)
  BY DEF Flow, Staged, Sent, Begun
<1>2. ASSUME NEW i \in DOMAIN r.order, Begun(r, r.order[i])
      PROVE  \E G, O, R : Given(r, i, G, O, R)
  <2>1. PICK G, O, R : Given(rt, i, G, O, R)
    BY <1>2 DEF Flow, Begun
  <2>2. Given(r, i, G, O, R)
    BY <2>1 DEF Given, Ahead, Behind
  <2> QED BY <2>2
<1> QED BY <1>1, <1>2 DEF Flow

\* A compartment sends a message.
LEMMA SendFlows ==
  ASSUME NEW rt, NEW n \in Nat \ {0}, Flow(rt, n, "inside"), NEW r \in Kept, NEW m \in Messages,
         m.from = rt.order[n], m.nr = Len(rt.sent) + 1,
         r.order = rt.order, r.queue = rt.queue, r.got = rt.got, r.outcome = rt.outcome,
         r.outbox = Append(rt.outbox, m), r.sent = Append(rt.sent, m)
  PROVE  Flow(r, n, "inside")
<1>1. /\ rt \in Kept /\ IsInjective(rt.order) /\ Staged(rt, n, "inside") /\ Sent(rt)
      /\ n \in DOMAIN rt.order /\ rt.outcome[rt.order[n]] = "running"
  BY DEF Flow, Staged
<1>2. Staged(r, n, "inside")
  BY <1>1 DEF Staged, Begun
<1>3. Range(r.sent) = Range(rt.sent) \cup {m} /\ Range(r.outbox) = Range(rt.outbox) \cup {m}
  BY <1>1, KeptFields, SequencesAppended
<1>4. rt.order[n] \in Range(rt.order)
  BY <1>1 DEF Range
<1>5. Sent(r)
  <2>1. Len(rt.sent) \in Nat /\ Len(r.sent) = Len(rt.sent) + 1
    BY <1>1, KeptFields
  <2>2. \A e \in Range(rt.sent) : e.nr \in Nat /\ e.nr <= Len(rt.sent)
    <3>1. \A e \in Range(rt.sent) : e \in Messages
      BY <1>1, KeptFields DEF Range
    <3> QED BY <1>1, <3>1 DEF Sent, Messages
  <2>3. m \notin Range(rt.sent)
    BY <2>1, <2>2
  <2>4. IsInjective(r.sent)
    BY <1>1, <2>3, Unrepeated, KeptFields DEF Sent
  <2>5. \A e \in Range(r.sent) : e.nr <= Len(r.sent)
    BY <1>3, <2>1, <2>2
  <2>6. \A d \in Senders(r.sent) : d \in Range(r.order) /\ Begun(r, d)
    <3> TAKE d \in Senders(r.sent)
    <3>1. PICK e \in Range(r.sent) : d = e.from
      BY DEF Senders
    <3>2. CASE e = m
      BY <1>1, <1>4, <3>1, <3>2 DEF Begun
    <3>3. CASE e \in Range(rt.sent)
      BY <1>1, <3>1, <3>3 DEF Sent, Senders, Begun
    <3> QED BY <1>3, <3>1, <3>2, <3>3
  <2>7. \A d \in Senders(r.outbox) : r.outcome[d] # "done"
    BY <1>1, <1>3 DEF Sent, Senders
  <2> QED BY <2>4, <2>5, <2>6, <2>7 DEF Sent
<1>6. \E D : Waits(r, D)
  <2>1. PICK D : Waits(rt, D)
    BY DEF Flow
  <2>2. r.sent = D \o r.outbox
    <3>1. D \in Seq(Messages) /\ rt.outbox \in Seq(Messages) /\ rt.sent = D \o rt.outbox
      BY <1>1, <2>1, KeptFields DEF Waits
    <3>2. D \o Append(rt.outbox, m) = Append(D \o rt.outbox, m)
      BY <3>1, JoinedAppended
    <3> DEFINE J == D \o rt.outbox
               A == Append(rt.outbox, m)
    <3>3. r.outbox = A /\ rt.sent = J /\ D \o A = Append(J, m)
      BY <3>1, <3>2
    <3>4. r.sent = D \o A
      <4>1. rt.sent = J
        BY <3>3
      <4> HIDE DEF J, A
      <4>2. Append(rt.sent, m) = Append(J, m)
        BY <4>1, Zenon
      <4> QED BY <3>3, <4>2, Zenon
    <3> HIDE DEF J, A
    <3> QED BY <3>3, <3>4, Zenon
  <2>3. Waits(r, D)
    BY <2>1, <2>2 DEF Waits, Begun
  <2> QED BY <2>3
<1>7. ASSUME NEW i \in DOMAIN r.order, Begun(r, r.order[i])
      PROVE  \E G, O, R : Given(r, i, G, O, R)
  <2>1. PICK G, O, R : Given(rt, i, G, O, R)
    BY <1>7 DEF Flow, Begun
  <2>2. i \in 1..n /\ n \in i..Len(rt.order)
    <3>1. i \in 1..Len(rt.order) /\ n \in 1..Len(rt.order) /\ Len(rt.order) \in Nat
      BY <1>1, <1>7, KeptFields
    <3>2. i < n \/ i = n
      BY <1>1, <1>7 DEF Staged, Begun
    <3> QED BY <3>1, <3>2
  <2>3. Senders(Append(R, m)) \subseteq Behind(r, i)
    <3>1. Range(Append(R, m)) = Range(R) \cup {m}
      BY <2>1, SequencesAppended DEF Given
    <3> QED BY <2>1, <2>2, <3>1 DEF Given, Senders, Behind
  <2>4. r.sent = (G \o O) \o Append(R, m) /\ Append(R, m) \in Seq(Messages)
    <3>1. G \o O \in Seq(Messages) /\ R \in Seq(Messages) /\ rt.sent = (G \o O) \o R
      BY <2>1, Together DEF Given
    <3> DEFINE B == G \o O
    <3> HIDE DEF B
    <3>2. B \in Seq(Messages) /\ R \in Seq(Messages) /\ rt.sent = B \o R
      BY <3>1 DEF B
    <3>3. B \o Append(R, m) = Append(B \o R, m)
      BY <3>2, JoinedAppended
    <3>4. B \o Append(R, m) = Append(rt.sent, m)
      BY <3>2, <3>3, Zenon
    <3>5. r.sent = B \o Append(R, m)
      BY <3>4, Zenon
    <3>6. Append(R, m) \in Seq(Messages)
      BY <3>1
    <3> QED BY <3>5, <3>6 DEF B
  <2>5. Given(r, i, G, O, Append(R, m))
    BY <2>1, <2>3, <2>4 DEF Given, Ahead, Behind
  <2> QED BY <2>5
<1> QED BY <1>1, <1>2, <1>5, <1>6, <1>7 DEF Flow

\* It raises, or is interrupted.
LEMMA EndFlows ==
  ASSUME NEW rt, NEW n \in Nat \ {0}, Flow(rt, n, "inside"), NEW r \in Kept,
         NEW o, o \in {"failed", "interrupted"}, NEW at, at \in {"hook", "raised"},
         r.order = rt.order, r.queue = rt.queue, r.got = rt.got,
         r.outbox = rt.outbox, r.sent = rt.sent,
         r.outcome = [rt.outcome EXCEPT ![rt.order[n]] = o]
  PROVE  Flow(r, n, at)
<1>1. /\ rt \in Kept /\ IsInjective(rt.order) /\ Staged(rt, n, "inside") /\ Sent(rt)
      /\ n \in DOMAIN rt.order /\ rt.outcome[rt.order[n]] = "running"
  BY DEF Flow, Staged
<1>2. \A c \in Compartments : r.outcome[c] = IF c = rt.order[n] THEN o ELSE rt.outcome[c]
  BY <1>1, KeptFields
<1>3. \A c \in Compartments : Begun(r, c) <=> Begun(rt, c)
  BY <1>1, <1>2 DEF Begun
<1>4. \A i \in DOMAIN rt.order : rt.order[i] \in Compartments
  BY <1>1, KeptFields
<1>5. \A d \in Range(rt.order) : d \in Compartments
  BY <1>1, KeptFields
<1>6. Staged(r, n, at)
  <2>1. \A i \in DOMAIN r.order : Begun(r, r.order[i]) => i < n \/ i = n
    BY <1>1, <1>3, <1>4 DEF Staged
  <2>2. \A i \in DOMAIN r.order : r.outcome[r.order[i]] # "running"
    BY <1>1, <1>2, <1>4 DEF Staged
  <2>3. at \notin {"setup", "entered", "inside"} /\ at \in {"inside", "hook", "raised"}
    OBVIOUS
  <2>4. \A i \in DOMAIN r.order : Begun(r, r.order[i]) =>
           i < n \/ (i = n /\ at \in {"inside", "hook", "raised"})
    BY <2>1, <2>3
  <2> QED BY <2>2, <2>3, <2>4, Zenon DEF Staged
<1>7. \A s \in Seq(Messages) : \A d \in Senders(s) : d \in Compartments
  BY SendersKnown
<1>8. Sent(r)
  BY <1>1, <1>2, <1>3, <1>7, KeptFields DEF Sent
<1>9. \E D : Waits(r, D)
  <2>1. PICK D : Waits(rt, D)
    BY DEF Flow
  <2>2. Waits(r, D)
    BY <1>3, <1>5, <2>1 DEF Waits
  <2> QED BY <2>2
<1>10. ASSUME NEW i \in DOMAIN r.order, Begun(r, r.order[i])
       PROVE  \E G, O, R : Given(r, i, G, O, R)
  <2>1. PICK G, O, R : Given(rt, i, G, O, R)
    BY <1>3, <1>4, <1>10 DEF Flow
  <2>2. \A d \in Senders(O) : r.outcome[d] \in {"failed", "interrupted"}
    BY <1>2, <1>7, <2>1 DEF Given
  <2>3. Given(r, i, G, O, R)
    BY <2>1, <2>2 DEF Given, Ahead, Behind
  <2> QED BY <2>3
<1> QED BY <1>1, <1>6, <1>8, <1>9, <1>10 DEF Flow

\* A compartment begins, and is given its queue.
LEMMA StartFlows ==
  ASSUME NEW rt, NEW n \in Nat \ {0}, Flow(rt, n, "between"), n \in DOMAIN rt.order, NEW r \in Kept,
         r.order = rt.order, r.outbox = rt.outbox, r.sent = rt.sent,
         r.got = [rt.got EXCEPT ![rt.order[n]] = rt.queue[rt.order[n]]],
         r.queue = [rt.queue EXCEPT ![rt.order[n]] = <<>>],
         r.outcome = [rt.outcome EXCEPT ![rt.order[n]] = "running"]
  PROVE  Flow(r, n, "inside")
<1> DEFINE c == rt.order[n]
<1>1. /\ rt \in Kept /\ IsInjective(rt.order) /\ Staged(rt, n, "between") /\ Sent(rt)
  BY DEF Flow
<1>2. c \in Compartments /\ \A i \in DOMAIN rt.order : rt.order[i] \in Compartments /\ i \in Nat
  <2>1. \A i \in DOMAIN rt.order : rt.order[i] \in Compartments
    BY <1>1, KeptFields
  <2>2. DOMAIN rt.order = 1..Len(rt.order)
    BY <1>1, KeptFields
  <2> QED BY <2>1, <2>2
<1>3. \A d \in Compartments :
        /\ r.outcome[d] = (IF d = c THEN "running" ELSE rt.outcome[d])
        /\ r.got[d] = (IF d = c THEN rt.queue[d] ELSE rt.got[d])
        /\ d # c => r.queue[d] = rt.queue[d]
  <2>1. /\ DOMAIN rt.outcome = Compartments /\ DOMAIN rt.got = Compartments
        /\ DOMAIN rt.queue = Compartments
    BY <1>1, KeptFields
  <2>2. \A d \in Compartments : r.outcome[d] = IF d = c THEN "running" ELSE rt.outcome[d]
    BY <2>1
  <2>3. \A d \in Compartments : r.got[d] = IF d = c THEN rt.queue[d] ELSE rt.got[d]
    BY <2>1
  <2>4. \A d \in Compartments : d # c => r.queue[d] = rt.queue[d]
    BY <2>1
  <2> QED BY <2>2, <2>3, <2>4
<1>4. \A i \in DOMAIN rt.order : rt.order[i] = c => i = n
  BY <1>1 DEF IsInjective
<1>5. /\ \A i \in DOMAIN rt.order : Begun(rt, rt.order[i]) => i < n
      /\ \A i \in DOMAIN rt.order : rt.outcome[rt.order[i]] # "running"
  <2>1. \A i \in DOMAIN rt.order : Begun(rt, rt.order[i]) => i < n
    BY <1>1 DEF Staged
  <2>2. \A i \in DOMAIN rt.order : rt.outcome[rt.order[i]] # "running"
    BY <1>1 DEF Staged
  <2> QED BY <2>1, <2>2
<1>6. ~Begun(rt, c)
  BY <1>2, <1>5
<1> HIDE DEF c
<1>7. Begun(r, c) /\ \A d \in Compartments : d # c => (Begun(r, d) <=> Begun(rt, d))
  BY <1>2, <1>3 DEF Begun
<1>8. Staged(r, n, "inside")
  <2>1. \A i \in DOMAIN r.order : Begun(r, r.order[i]) => i < n \/ i = n
    BY <1>2, <1>4, <1>5, <1>7
  <2>2. \A i \in DOMAIN r.order : r.outcome[r.order[i]] = "running" => i = n
    BY <1>2, <1>3, <1>4, <1>5
  <2>3. r.outcome[r.order[n]] = "running"
    BY <1>2, <1>3 DEF c
  <2> QED BY <2>1, <2>2, <2>3 DEF Staged
<1>9. \A d \in Senders(rt.sent) : d \in Compartments /\ d \in Range(rt.order) /\ Begun(rt, d)
  BY <1>1, KeptFields DEF Sent
<1>10. Range(rt.outbox) \subseteq Range(rt.sent)
  <2>1. PICK D : Waits(rt, D)
    BY DEF Flow
  <2>2. D \in Seq(Messages) /\ rt.outbox \in Seq(Messages)
    BY <1>1, <2>1, KeptFields DEF Waits
  <2>3. Range(D \o rt.outbox) = Range(D) \cup Range(rt.outbox)
    BY <2>2, Together
  <2> QED BY <2>1, <2>3 DEF Waits
<1>11. \A d \in Senders(rt.outbox) : d \in Senders(rt.sent)
  BY <1>10 DEF Senders
<1>12. Sent(r)
  <2>1. \A d \in Senders(r.sent) : d \in Range(r.order) /\ Begun(r, d)
    BY <1>7, <1>9
  <2>2. \A d \in Senders(r.outbox) : r.outcome[d] # "done"
    BY <1>1, <1>3, <1>9, <1>11 DEF Sent
  <2> QED BY <1>1, <2>1, <2>2 DEF Sent
<1>13. \E D : Waits(r, D)
  <2>1. PICK D : Waits(rt, D)
    BY DEF Flow
  <2>2. \A d \in Range(r.order) : d \in Compartments
    BY KeptFields
  <2>3. Waits(r, D)
    BY <1>3, <1>7, <2>1, <2>2 DEF Waits
  <2> QED BY <2>3
<1>14. ASSUME NEW i \in DOMAIN r.order, Begun(r, r.order[i])
       PROVE  \E G, O, R : Given(r, i, G, O, R)
  <2>1. CASE i = n
    <3>1. PICK D : Waits(rt, D)
      BY DEF Flow
    <3>2. /\ D \in Seq(Messages) /\ rt.outbox \in Seq(Messages) /\ <<>> \in Seq(Messages)
          /\ IsInjective(D)
      BY <1>1, <3>1, KeptFields DEF Waits
    <3>3. rt.sent = (D \o rt.outbox) \o <<>>
      <4>1. D \o rt.outbox = rt.sent /\ rt.sent \in Seq(Messages)
        BY <1>1, <3>1, KeptFields DEF Waits
      <4>2. rt.sent \o <<>> = rt.sent
        BY <4>1, ConcatEmptySeq
      <4> QED BY <4>1, <4>2, Zenon
    <3>4. c \in Range(rt.order)
      BY DEF Range, c
    <3>5. r.got[c] = Only(D, To(c, D))
      BY <1>2, <1>3, <1>6, <3>1, <3>4 DEF Waits
    <3>6. \A d \in Senders(rt.sent) : d \in Ahead(rt, n)
      <4> TAKE d \in Senders(rt.sent)
      <4>1. PICK j \in DOMAIN rt.order : d = rt.order[j]
        BY <1>9 DEF Range
      <4>2. j < n /\ j \in 1..Len(rt.order) /\ n \in 1..Len(rt.order) /\ Len(rt.order) \in Nat
        BY <1>1, <1>5, <1>9, <4>1, KeptFields
      <4>3. j \in 1..(n - 1)
        BY <4>2
      <4> QED BY <4>1, <4>3 DEF Ahead
    <3>7. \A d \in Senders(D) : d \in Senders(rt.sent)
      <4>1. Range(D \o rt.outbox) = Range(D) \cup Range(rt.outbox)
        BY <3>2, Together
      <4> QED BY <3>1, <4>1 DEF Waits, Senders
    <3>8. \A d \in Senders(rt.outbox) : r.outcome[d] \in {"failed", "interrupted"}
      <4> TAKE d \in Senders(rt.outbox)
      <4>1. /\ d \in Compartments /\ d \in Range(rt.order) /\ Begun(rt, d) /\ rt.outcome[d] # "done"
        BY <1>1, <1>9, <1>11 DEF Sent
      <4>2. d # c /\ rt.outcome[d] # "running"
        BY <1>5, <1>6, <4>1 DEF Range
      <4>3. rt.outcome[d] \in {"none", "running", "done", "failed", "interrupted"}
        BY <1>1, <4>1, KeptFields
      <4> QED BY <1>3, <4>1, <4>2, <4>3 DEF Begun
    <3>9. Senders(<<>>) = {}
      BY DEF Senders, Range
    <3>10. Given(r, n, D, rt.outbox, <<>>)
      <4>1. Ahead(r, n) = Ahead(rt, n)
        BY DEF Ahead
      <4>2. Senders(D) \subseteq Ahead(rt, n) /\ Senders(rt.outbox) \subseteq Ahead(rt, n)
        BY <1>11, <3>6, <3>7
      <4>3. r.got[r.order[n]] = Only(D, To(r.order[n], D))
        BY <3>5 DEF c
      <4>4. r.sent = (D \o rt.outbox) \o <<>>
        BY <3>3
      <4>5. Senders(<<>>) \subseteq Behind(r, n)
        BY <3>9
      <4> QED BY <3>2, <3>8, <4>1, <4>2, <4>3, <4>4, <4>5 DEF Given
    <3> QED BY <2>1, <3>10
  <2>2. CASE i # n
    <3>1. rt.order[i] # c /\ rt.order[i] \in Compartments
      BY <1>2, <1>4, <2>2
    <3>2. PICK G, O, R : Given(rt, i, G, O, R)
      BY <1>7, <1>14, <3>1 DEF Flow
    <3>3. \A d \in Senders(O) : d \in Compartments /\ d # c
      <4>1. rt.outcome[c] = "none"
        BY <1>6 DEF Begun
      <4> QED BY <3>2, <4>1, SendersKnown DEF Given
    <3>4. \A d \in Senders(O) : r.outcome[d] \in {"failed", "interrupted"}
      <4>1. \A d \in Senders(O) : rt.outcome[d] \in {"failed", "interrupted"}
        BY <3>2 DEF Given
      <4> QED BY <1>3, <3>3, <4>1
    <3>5. r.got[r.order[i]] = rt.got[rt.order[i]]
      BY <1>3, <3>1
    <3>6. Given(r, i, G, O, R)
      <4>1. Ahead(r, i) = Ahead(rt, i) /\ Behind(r, i) = Behind(rt, i)
        BY DEF Ahead, Behind
      <4>2. r.got[r.order[i]] = Only(G, To(r.order[i], G))
        BY <3>2, <3>5 DEF Given
      <4> QED BY <3>2, <3>4, <4>1, <4>2 DEF Given
    <3> QED BY <3>6
  <2> QED BY <2>1, <2>2
<1> QED BY <1>1, <1>8, <1>12, <1>13, <1>14 DEF Flow

\* Delivering in two parts delivers the whole.
LEMMA DeliveredInParts ==
  ASSUME NEW D \in Seq(Messages), NEW O \in Seq(Messages), NEW c
  PROVE  Only(D, To(c, D)) \o Only(O, To(c, O)) = Only(D \o O, To(c, D \o O))
<1> DEFINE U == D \o O
           M == To(c, U)
<1>1. Range(U) = Range(D) \cup Range(O)
  BY Together
<1>2. /\ \A m \in Range(D) : m \in To(c, D) <=> m \in M
      /\ \A m \in Range(O) : m \in To(c, O) <=> m \in M
  BY <1>1 DEF To
<1> HIDE DEF M
<1>3. Only(D, To(c, D)) = Only(D, M)
  <2> DEFINE N == To(c, D)
  <2>1. \A m \in Range(D) : m \in N <=> m \in M
    BY <1>2
  <2> HIDE DEF N
  <2>2. Only(D, N) = Only(D, M)
    BY <2>1, OnlySame
  <2> QED BY <2>2 DEF N
<1>4. Only(O, To(c, O)) = Only(O, M)
  <2> DEFINE N == To(c, O)
  <2>1. \A m \in Range(O) : m \in N <=> m \in M
    BY <1>2
  <2> HIDE DEF N
  <2>2. Only(O, N) = Only(O, M)
    BY <2>1, OnlySame
  <2> QED BY <2>2 DEF N
<1>5. Only(D \o O, M) = Only(D, M) \o Only(O, M)
  BY OnlyJoined
<1> QED BY <1>3, <1>4, <1>5, Zenon DEF M

\* A compartment returns, and what is in the outbox is delivered.
LEMMA ReturnFlows ==
  ASSUME NEW rt, NEW n \in Nat \ {0}, Flow(rt, n, "inside"), NEW r \in Kept,
         r.order = rt.order, r.got = rt.got, r.sent = rt.sent, r.outbox = <<>>,
         \A c \in Range(rt.order) : r.queue[c] = rt.queue[c] \o Only(rt.outbox, To(c, rt.outbox)),
         r.outcome = [rt.outcome EXCEPT ![rt.order[n]] = "done"]
  PROVE  Flow(r, n, "hook")
<1>1. /\ rt \in Kept /\ IsInjective(rt.order) /\ Staged(rt, n, "inside") /\ Sent(rt)
      /\ n \in DOMAIN rt.order /\ rt.outcome[rt.order[n]] = "running"
  BY DEF Flow, Staged
<1>2. \A c \in Compartments : r.outcome[c] = IF c = rt.order[n] THEN "done" ELSE rt.outcome[c]
  BY <1>1, KeptFields
<1>3. \A c \in Compartments : Begun(r, c) <=> Begun(rt, c)
  BY <1>1, <1>2 DEF Begun
<1>4. \A i \in DOMAIN rt.order : rt.order[i] \in Compartments
  BY <1>1, KeptFields
<1>5. \A d \in Range(rt.order) : d \in Compartments
  BY <1>1, KeptFields
<1>6. Staged(r, n, "hook")
  <2>1. \A i \in DOMAIN r.order : Begun(r, r.order[i]) => i < n \/ i = n
    BY <1>1, <1>3, <1>4 DEF Staged
  <2>2. \A i \in DOMAIN r.order : r.outcome[r.order[i]] # "running"
    BY <1>1, <1>2, <1>4 DEF Staged
  <2> QED BY <2>1, <2>2 DEF Staged
<1>7. Sent(r)
  <2>1. Range(r.outbox) = {}
    BY DEF Range
  <2> QED BY <1>1, <1>3, <1>5, <2>1 DEF Sent, Senders
<1>8. Waits(r, rt.sent)
  <2>1. PICK D : Waits(rt, D)
    BY DEF Flow
  <2>2. D \in Seq(Messages) /\ rt.outbox \in Seq(Messages) /\ rt.sent \in Seq(Messages)
    BY <1>1, <2>1, KeptFields DEF Waits
  <2>3. rt.sent = D \o rt.outbox
    BY <2>1 DEF Waits
  <2>4. ASSUME NEW c \in Range(r.order), ~Begun(r, c)
        PROVE  r.queue[c] = Only(rt.sent, To(c, rt.sent))
    <3>1. rt.queue[c] = Only(D, To(c, D))
      BY <1>3, <1>5, <2>1, <2>4 DEF Waits
    <3>2. r.queue[c] = rt.queue[c] \o Only(rt.outbox, To(c, rt.outbox))
      BY <2>4
    <3>3. Only(D, To(c, D)) \o Only(rt.outbox, To(c, rt.outbox))
             = Only(D \o rt.outbox, To(c, D \o rt.outbox))
      BY <2>2, DeliveredInParts
    <3> QED BY <2>3, <3>1, <3>2, <3>3, Zenon
  <2>5. r.sent = rt.sent \o r.outbox
    <3>1. rt.sent \o <<>> = rt.sent
      BY <2>2, ConcatEmptySeq
    <3> QED BY <3>1, Zenon
  <2> QED BY <1>1, <2>2, <2>4, <2>5 DEF Waits, Sent
<1>9. ASSUME NEW i \in DOMAIN r.order, Begun(r, r.order[i])
      PROVE  \E G, O, R : Given(r, i, G, O, R)
  <2>1. PICK G, O, R : Given(rt, i, G, O, R)
    BY <1>3, <1>4, <1>9 DEF Flow
  <2>2. \A d \in Senders(O) : r.outcome[d] \in {"failed", "interrupted"}
    <3>1. \A d \in Senders(O) : d \in Compartments /\ rt.outcome[d] \in {"failed", "interrupted"}
      BY <2>1, SendersKnown DEF Given
    <3>2. \A d \in Senders(O) : d # rt.order[n]
      BY <1>1, <3>1
    <3> QED BY <1>2, <3>1, <3>2
  <2>3. Given(r, i, G, O, R)
    <3>1. Ahead(r, i) = Ahead(rt, i) /\ Behind(r, i) = Behind(rt, i)
      BY DEF Ahead, Behind
    <3> QED BY <2>1, <2>2, <3>1 DEF Given
  <2> QED BY <2>3
<1> QED BY <1>1, <1>6, <1>7, <1>8, <1>9 DEF Flow

\* The messages due to the compartment at place i, and those of completed compartments
\* among what it was given.
Wanted(rt, i, G, O, R, due, done) ==
    /\ \A m \in Range(rt.got[rt.order[i]]) : m \in done <=> rt.outcome[m.from] = "done"
    /\ \A m \in Range(G) : m \in due <=> m.to = rt.order[i] /\ rt.outcome[m.from] = "done"
    /\ Range(O) \cap due = {} /\ Range(R) \cap due = {}

\* What one was given of completed compartments is what they had sent it.
LEMMA GivenWhatWasSent ==
  ASSUME NEW rt \in Kept, NEW i \in DOMAIN rt.order, NEW G, NEW O, NEW R, Given(rt, i, G, O, R),
         NEW due, NEW done, Wanted(rt, i, G, O, R, due, done)
  PROVE  /\ Only(rt.got[rt.order[i]], done) = Only(rt.sent, due)
         /\ Range(rt.got[rt.order[i]]) \subseteq To(rt.order[i], rt.sent)
         /\ IsInjective(rt.got[rt.order[i]])
<1> DEFINE c == rt.order[i]
           M == To(c, G)
           B == G \o O
<1>1. /\ G \in Seq(Messages) /\ O \in Seq(Messages) /\ R \in Seq(Messages)
      /\ IsInjective(G) /\ rt.got[c] = Only(G, M) /\ rt.sent = B \o R
  BY DEF Given
<1>2. B \in Seq(Messages) /\ Range(B) = Range(G) \cup Range(O)
  BY <1>1, Together
<1>3. \A m : m \in M <=> m \in Range(G) /\ m.to = c
  BY DEF To
<1>4. /\ \A m \in Range(G) : m \in due <=> m.to = c /\ rt.outcome[m.from] = "done"
      /\ Range(O) \cap due = {} /\ Range(R) \cap due = {}
  BY DEF Wanted
<1>5. \A m \in Range(rt.got[c]) : m \in done <=> rt.outcome[m.from] = "done"
  BY DEF Wanted
<1> HIDE DEF c, M, B
<1>6. Range(Only(G, M)) = Range(G) \cap M /\ IsInjective(Only(G, M))
  BY <1>1, OnlyHolds, OnlyInjective
<1>7. Only(rt.sent, due) = Only(G, due)
  <2>1. Only(B \o R, due) = Only(B, due) \o Only(R, due)
    <3>1. B \in Seq(Messages) /\ R \in Seq(Messages)
      BY <1>1, <1>2
    <3> QED BY <3>1, OnlyJoined
  <2>2. Only(G \o O, due) = Only(G, due) \o Only(O, due)
    BY <1>1, OnlyJoined
  <2>3. Only(O, due) = <<>> /\ Only(R, due) = <<>> /\ Only(G, due) \in Seq(Messages)
    BY <1>1, <1>4, OnlyNone, OnlyGrows
  <2>4. Only(G, due) \o <<>> = Only(G, due)
    BY <2>3, ConcatEmptySeq
  <2> QED BY <1>1, <2>1, <2>2, <2>3, <2>4, Zenon DEF B
<1>8. Only(Only(G, M), done) = Only(G, due)
  <2> DEFINE K == M \cap done
  <2>1. Only(Only(G, M), done) = Only(G, K)
    BY <1>1, OnlyTwice
  <2>2. \A m \in Range(G) : m \in K <=> m \in due
    BY <1>1, <1>3, <1>4, <1>5, <1>6
  <2> HIDE DEF K
  <2>3. Only(G, K) = Only(G, due)
    BY <1>1, <2>2, OnlySame
  <2> QED BY <2>1, <2>3
<1>9. Range(rt.got[c]) \subseteq To(c, rt.sent)
  <2>1. Range(B \o R) = Range(B) \cup Range(R)
    BY <1>1, <1>2, Together
  <2> QED BY <1>1, <1>2, <1>3, <1>6, <2>1 DEF To
<1> QED BY <1>1, <1>6, <1>7, <1>8, <1>9 DEF c

-----------------------------------------------------------------------------
(* The steps of a container, and the messages it passes.                   *)

Flows == \A k \in Containers : Flow(runtime[k], run[k].next, run[k].at)

\* The containers other than the one that takes a step.
LEMMA OthersFlow ==
  ASSUME Flows, NEW k \in Containers,
         \A j \in Containers \ {k} : runtime'[j] = runtime[j] /\ run'[j] = run[j],
         Flow(runtime[k], run[k].next, run[k].at)'
  PROVE  Flows'
  BY DEF Flows

LEMMA AddFlows ==
  ASSUME Typed, Flows, NEW k \in Containers, NEW c \in Compartments, Add(k, c)
  PROVE  Flow(runtime[k], run[k].next, run[k].at)'
<1> DEFINE rt == runtime[k]
           o == Append(rt.order, c)
           r == [rt EXCEPT !.order = o]
<1>1. rt \in Kept /\ IsInjective(rt.order) /\ Staged(rt, run[k].next, "setup")
  BY DEF Flows, Flow, Add
<1>2. Fresh(rt)
  BY <1>1 DEF Staged
<1>3. rt.order \in Seq(Compartments) /\ o \in Seq(Compartments)
  BY <1>1, KeptFields
<1>4. IsInjective(o)
  BY <1>1, <1>3, Unrepeated DEF Add, Registered
<1>5. runtime'[k] = r
  BY DEF Add, Typed, RuntimesTyped
<1> HIDE DEF rt, o
<1>6. r \in Kept
  BY <1>1, <1>3 DEF Kept, Runtimes, r
<1>7. r.order = o /\ r.sent = rt.sent /\ r.outbox = rt.outbox /\ r.outcome = rt.outcome
      /\ r.queue = rt.queue
  BY <1>1 DEF Kept, Runtimes
<1>8. Fresh(r)
  BY <1>2, <1>7 DEF Fresh, Begun
<1>9. run' = run /\ run[k].at = "setup"
  BY DEF Add
<1> HIDE DEF r
<1>10. Flow(r, run[k].next, "setup")
  BY <1>4, <1>6, <1>7, <1>8, FreshFlows
<1> QED BY <1>5, <1>9, <1>10

LEMMA SendStepFlows ==
  ASSUME Typed, Flows, NEW k \in Containers, NEW to \in Compartments, Send(k, to)
  PROVE  Flow(runtime[k], run[k].next, run[k].at)'
<1> DEFINE rt == runtime[k]
           n == run[k].next
           m == [from |-> Current(k), to |-> to, nr |-> Len(rt.sent) + 1]
           x == Append(rt.outbox, m)
           s == Append(rt.sent, m)
           r == [rt EXCEPT !.outbox = x, !.sent = s]
<1>1. /\ run[k].at = "inside" /\ run' = run /\ n \in Nat \ {0} /\ Flow(rt, n, "inside")
  BY DEF Send, Flows, Typed, Runs
<1>2. rt \in Kept /\ n \in DOMAIN rt.order
  BY <1>1 DEF Flow, Staged
<1>3. m \in Messages /\ m.from = rt.order[n] /\ m.nr = Len(rt.sent) + 1
  <2>1. Current(k) \in Compartments /\ Len(rt.sent) \in Nat
    BY <1>2, KeptFields DEF Current
  <2> QED BY <2>1 DEF Messages, Current
<1>4. runtime'[k] = r
  BY DEF Send, Typed, RuntimesTyped
<1> HIDE DEF rt, m, n
<1>5. x \in Seq(Messages) /\ s \in Seq(Messages)
  BY <1>2, <1>3, KeptFields
<1> HIDE DEF x, s
<1>6. /\ r \in Kept /\ r.order = rt.order /\ r.queue = rt.queue /\ r.got = rt.got
      /\ r.outcome = rt.outcome /\ r.outbox = x /\ r.sent = s
  BY <1>2, <1>5 DEF Kept, Runtimes
<1> HIDE DEF r
<1>7. Flow(r, n, "inside")
  BY <1>1, <1>3, <1>6, SendFlows DEF x, s
<1> QED BY <1>1, <1>4, <1>7 DEF n

LEMMA StartStepFlows ==
  ASSUME Typed, Flows, NEW k \in Containers, StartCompartment(k)
  PROVE  Flow(runtime[k], run[k].next, run[k].at)'
<1> DEFINE rt == runtime[k]
           n == run[k].next
           c == rt.order[n]
           g == [rt.got EXCEPT ![c] = rt.queue[c]]
           q == [rt.queue EXCEPT ![c] = <<>>]
           b == files[Workdir[k]]
           o == [rt.outcome EXCEPT ![c] = "running"]
           r == [rt EXCEPT !.got = g, !.queue = q, !.before = b, !.outcome = o]
<1>1. /\ run[k].at = "between" /\ run'[k].at = "inside" /\ run'[k].next = n
      /\ n \in Nat \ {0} /\ Flow(rt, n, "between")
  BY DEF StartCompartment, Goto, Flows, Typed, Runs
<1>2. rt \in Kept /\ n \in DOMAIN rt.order
  <2>1. n \in DOMAIN rt.order
    <3>1. run[k].next <= Len(runtime[k].order)
      BY DEF StartCompartment
    <3> QED BY <3>1, NextIsInOrder
  <2> QED BY <1>1, <2>1 DEF Flow
<1>3. c \in Compartments /\ b \in Contents
  <2>1. b \in Contents
    BY ContainerAssumption DEF Typed
  <2> QED BY <1>2, <2>1, KeptFields
<1>4. runtime'[k] = r
  BY DEF StartCompartment, Current, Typed, RuntimesTyped
<1> HIDE DEF rt, n, c, b
<1>5. /\ g \in [Compartments -> Seq(Messages)] /\ q \in [Compartments -> Seq(Messages)]
      /\ o \in [Compartments -> Outcomes]
  <2>1. rt.got \in [Compartments -> Seq(Messages)] /\ rt.queue \in [Compartments -> Seq(Messages)]
        /\ rt.outcome \in [Compartments -> Outcomes] /\ <<>> \in Seq(Messages)
    BY <1>2, KeptFields DEF Outcomes
  <2> QED BY <1>3, <2>1 DEF Outcomes
<1> HIDE DEF g, q, o
<1>6. /\ r \in Kept /\ r.order = rt.order /\ r.queue = q /\ r.got = g
      /\ r.outcome = o /\ r.outbox = rt.outbox /\ r.sent = rt.sent
  BY <1>2, <1>3, <1>5 DEF Kept, Runtimes, Outcomes
<1> HIDE DEF r
<1>7. Flow(r, n, "inside")
  BY <1>1, <1>2, <1>6, StartFlows DEF g, q, o, c
<1> QED BY <1>1, <1>4, <1>7

LEMMA ReturnStepFlows ==
  ASSUME Typed, Flows, NEW k \in Containers, Return(k)
  PROVE  Flow(runtime[k], run[k].next, run[k].at)'
<1> DEFINE rt == runtime[k]
           n == run[k].next
           c == rt.order[n]
           q == [d \in Compartments |-> Routed(k, d)]
           o == [rt.outcome EXCEPT ![c] = "done"]
           r == [rt EXCEPT !.queue = q, !.outbox = <<>>, !.outcome = o]
<1>1. /\ run[k].at = "inside" /\ run'[k].at = "hook" /\ run'[k].next = n
      /\ n \in Nat \ {0} /\ Flow(rt, n, "inside")
  BY DEF Return, Goto, Flows, Typed, Runs
<1>2. rt \in Kept /\ n \in DOMAIN rt.order
  BY <1>1 DEF Flow, Staged
<1>3. c \in Compartments
  BY <1>2, KeptFields
<1>4. runtime'[k] = r
  BY DEF Return, Current, Typed, RuntimesTyped
<1>5. /\ q \in [Compartments -> Seq(Messages)]
      /\ \A d \in Range(rt.order) : q[d] = rt.queue[d] \o Only(rt.outbox, To(d, rt.outbox))
  <2>1. ASSUME NEW d \in Compartments
        PROVE  /\ d \in Range(rt.order) =>
                    Routed(k, d) = rt.queue[d] \o Only(rt.outbox, To(d, rt.outbox))
               /\ Routed(k, d) \in Seq(Messages)
    <3> DEFINE M == To(d, rt.outbox)
               s == Only(rt.outbox, M)
               p == rt.queue[d]
    <3>1. Routed(k, d) = IF d \in Range(rt.order) THEN p \o s ELSE <<>>
      BY DEF Routed, Registered
    <3>2. rt.outbox \in Seq(Messages) /\ p \in Seq(Messages) /\ <<>> \in Seq(Messages)
      BY <1>2, KeptFields
    <3> HIDE DEF M, p
    <3>3. s \in Seq(Messages)
      BY <3>2, OnlyGrows
    <3> HIDE DEF s
    <3>4. p \o s \in Seq(Messages)
      BY <3>2, <3>3, Together
    <3> DEFINE u == p \o s
    <3>5. u \in Seq(Messages) /\ Routed(k, d) = IF d \in Range(rt.order) THEN u ELSE <<>>
      BY <3>1, <3>4
    <3> HIDE DEF u
    <3>6. (d \in Range(rt.order) => Routed(k, d) = u) /\ Routed(k, d) \in Seq(Messages)
      BY <3>2, <3>5
    <3> QED BY <3>6 DEF u, p, s, M
  <2>2. \A d \in Range(rt.order) : d \in Compartments
    BY <1>2, KeptFields
  <2> QED BY <2>1, <2>2
<1> HIDE DEF rt, n, c, q
<1>6. o \in [Compartments -> Outcomes]
  <2>1. rt.outcome \in [Compartments -> Outcomes]
    BY <1>2, KeptFields DEF Outcomes
  <2> QED BY <1>3, <2>1 DEF Outcomes
<1> HIDE DEF o
<1>7. /\ r \in Kept /\ r.order = rt.order /\ r.queue = q /\ r.got = rt.got
      /\ r.outcome = o /\ r.outbox = <<>> /\ r.sent = rt.sent
  <2>1. <<>> \in Seq(Messages)
    OBVIOUS
  <2> QED BY <1>2, <1>5, <1>6, <2>1 DEF Kept, Runtimes, Outcomes
<1> HIDE DEF r
<1>8. Flow(r, n, "hook")
  BY <1>1, <1>5, <1>7, ReturnFlows DEF o, c
<1> QED BY <1>1, <1>4, <1>8

LEMMA EndStepFlows ==
  ASSUME Typed, Flows, NEW k \in Containers, Raise(k) \/ Interrupt(k)
  PROVE  Flow(runtime[k], run[k].next, run[k].at)'
<1> DEFINE rt == runtime[k]
           n == run[k].next
           c == rt.order[n]
<1>0. PICK x \in {"failed", "interrupted"}, at \in {"hook", "raised"} :
         /\ run[k].at = "inside" /\ Goto(k, at)
         /\ runtime' = [runtime EXCEPT ![k].outcome[Current(k)] = x]
  BY DEF Raise, Interrupt, Leave
<1> DEFINE o == [rt.outcome EXCEPT ![c] = x]
           r == [rt EXCEPT !.outcome = o]
<1>1. /\ run'[k].at = at /\ run'[k].next = n /\ n \in Nat \ {0} /\ Flow(rt, n, "inside")
  <2>1. run[k] \in Runs
    BY DEF Typed
  <2>2. run'[k].at = at /\ run'[k].next = n
    <3>1. run \in [Containers -> Runs] /\ run' = [run EXCEPT ![k].at = at]
      BY <1>0 DEF Goto, Typed
    <3> QED BY <3>1 DEF Runs
  <2>3. Flow(rt, n, "inside")
    BY <1>0 DEF Flows
  <2> QED BY <2>1, <2>2, <2>3 DEF Runs
<1>2. rt \in Kept /\ n \in DOMAIN rt.order
  BY <1>1 DEF Flow, Staged
<1>3. c \in Compartments
  BY <1>2, KeptFields
<1>4. runtime'[k] = r
  BY <1>0 DEF Current, Typed, RuntimesTyped
<1> HIDE DEF rt, n, c
<1>5. o \in [Compartments -> Outcomes]
  <2>1. rt.outcome \in [Compartments -> Outcomes]
    BY <1>2, KeptFields DEF Outcomes
  <2> QED BY <1>3, <2>1 DEF Outcomes
<1> HIDE DEF o
<1>6. /\ r \in Kept /\ r.order = rt.order /\ r.queue = rt.queue /\ r.got = rt.got
      /\ r.outcome = o /\ r.outbox = rt.outbox /\ r.sent = rt.sent
  BY <1>2, <1>5 DEF Kept, Runtimes, Outcomes
<1> HIDE DEF r
<1>7. Flow(r, n, at)
  <2>1. r.outcome = [rt.outcome EXCEPT ![rt.order[n]] = x]
    BY <1>6 DEF o, c
  <2>2. x \in {"failed", "interrupted"} /\ at \in {"hook", "raised"}
    BY <1>0
  <2> QED BY <1>1, <1>6, <2>1, <2>2, EndFlows
<1> QED BY <1>1, <1>4, <1>7

LEMMA SnapshotStepFlows ==
  ASSUME Typed, Flows, NEW k \in Containers, SnapshotRaises(k)
  PROVE  Flow(runtime[k], run[k].next, run[k].at)'
<1> DEFINE rt == runtime[k]
           n == run[k].next
           c == rt.order[n]
           q == [rt.queue EXCEPT ![c] = <<>>]
           r == [rt EXCEPT !.queue = q]
<1>1. /\ run[k].at = "between" /\ run'[k].at = "raised" /\ run'[k].next = n
      /\ n \in Nat \ {0} /\ Flow(rt, n, "between")
  BY DEF SnapshotRaises, Leave, Goto, Flows, Typed, Runs
<1>2. rt \in Kept
  BY <1>1 DEF Flow
<1>3. runtime'[k] = r
  BY DEF SnapshotRaises, Current, Typed, RuntimesTyped
<1> HIDE DEF rt, n, c
<1>4. q \in [Compartments -> Seq(Messages)]
  <2>1. rt.queue \in [Compartments -> Seq(Messages)] /\ <<>> \in Seq(Messages)
    BY <1>2, KeptFields
  <2> QED BY <2>1
<1> HIDE DEF q
<1>5. /\ r \in Kept /\ r.order = rt.order /\ r.got = rt.got
      /\ r.outcome = rt.outcome /\ r.outbox = rt.outbox /\ r.sent = rt.sent
  BY <1>2, <1>4 DEF Kept, Runtimes
<1> HIDE DEF r
<1>6. Flow(r, n, "raised")
  BY <1>1, <1>5, DroppedFlows
<1> QED BY <1>1, <1>3, <1>6

\* No message has been sent while a container is set up, entered and begun.
LEMMA FreshStepFlows ==
  ASSUME Typed, Flows, NEW k \in Containers,
         \/ \E from, to \in Compartments : Edge(k, from, to)
         \/ Enter(k)
         \/ \E entry \in Compartments \cup {NoEntry} : RunOrder(k, entry),
         run' \in [Containers -> Runs]
  PROVE  Flow(runtime[k], run[k].next, run[k].at)'
<1> DEFINE rt == runtime[k]
<1>1. run[k].at \in {"setup", "entered"} /\ run[k] \in Runs
  BY DEF Edge, Enter, RunOrder, Typed
<1>2. rt \in Kept /\ IsInjective(rt.order) /\ Fresh(rt)
  <2>1. Flow(rt, run[k].next, run[k].at)
    BY DEF Flows
  <2> QED BY <1>1, <2>1 DEF Flow, Staged
<1>3. run'[k].at # "inside"
  <2>1. \A at : Goto(k, at) => run'[k].at = at
    BY DEF Goto, Typed, Runs
  <2>2. CASE \E from, to \in Compartments : Edge(k, from, to)
    BY <2>2 DEF Edge
  <2>3. CASE Enter(k)
    BY <2>1, <2>3 DEF Enter
  <2>4. CASE \E entry \in Compartments \cup {NoEntry} : RunOrder(k, entry)
    <3>1. PICK entry \in Compartments \cup {NoEntry} : RunOrder(k, entry)
      BY <2>4
    <3>2. \A n : run' = [run EXCEPT ![k] = [at |-> "between", next |-> n]] => run'[k].at = "between"
      BY DEF Typed
    <3> QED BY <2>1, <3>1, <3>2 DEF RunOrder, Leave
  <2> QED BY <2>2, <2>3, <2>4
<1>4. /\ runtime'[k] \in Kept /\ runtime'[k].order = rt.order
      /\ Fresh(runtime'[k])
  <2>1. CASE \E from, to \in Compartments : Edge(k, from, to)
    <3>1. PICK from \in Compartments, to \in Compartments : Edge(k, from, to)
      BY <2>1
    <3> DEFINE e == rt.edges \cup {<<from, to>>}
               r == [rt EXCEPT !.edges = e]
    <3>2. runtime'[k] = r
      BY <3>1 DEF Edge, Typed, RuntimesTyped
    <3>3. rt.edges \in SUBSET (Compartments \X Compartments)
      BY <1>2 DEF Kept, Runtimes
    <3>4. e \in SUBSET (Compartments \X Compartments)
      BY <3>3
    <3> HIDE DEF rt, e
    <3>5. /\ r \in Kept /\ r.order = rt.order /\ r.sent = rt.sent /\ r.outbox = rt.outbox
          /\ r.outcome = rt.outcome /\ r.queue = rt.queue
      BY <1>2, <3>4 DEF Kept, Runtimes
    <3> HIDE DEF r
    <3> QED BY <1>2, <3>2, <3>5 DEF Fresh, Begun
  <2>2. CASE UNCHANGED runtime
    BY <1>2, <2>2
  <2> QED BY <2>1, <2>2 DEF Enter, RunOrder
<1>5. Flow(runtime'[k], run'[k].next, run'[k].at)
  BY <1>2, <1>3, <1>4, FreshFlows
<1> QED BY <1>5

LEMMA InitFlow == Init => Flows
<1> SUFFICES ASSUME Init, NEW k \in Containers PROVE Flow(runtime[k], run[k].next, run[k].at)
  BY DEF Flows
<1>1. runtime[k] = NewRuntime /\ run[k].at = "setup"
  BY DEF Init
<1>2. NewRuntime \in Kept
  <2>1. <<>> \in Seq(Messages) /\ <<>> \in Seq(Compartments)
    OBVIOUS
  <2> QED BY <2>1 DEF NewRuntime, Kept, Runtimes
<1>3. IsInjective(NewRuntime.order) /\ Fresh(NewRuntime)
  BY DEF NewRuntime, IsInjective, Fresh, Begun
<1> QED BY <1>1, <1>2, <1>3, FreshFlows

LEMMA StepFlow ==
  ASSUME Inv, Flows, NEW k \in Containers, Move(k)
  PROVE  Flows'
<1>1. Typed /\ InOrder
  BY DEF Inv
<1>2. /\ run' \in [Containers -> Runs]
      /\ \A j \in Containers \ {k} : runtime'[j] = runtime[j] /\ run'[j] = run[j]
  BY <1>1, RunSteps, StepTyped
<1>3. Flow(runtime[k], run[k].next, run[k].at)'
  <2>0. /\ Flow(runtime[k], run[k].next, run[k].at)
        /\ run[k] \in Runs /\ run[k].next \in Nat \ {0}
    BY <1>1 DEF Flows, Typed, Runs
  <2>1. CASE \E c \in Compartments : Add(k, c)
    BY <1>1, <2>1, AddFlows
  <2>2. CASE \/ \E from, to \in Compartments : Edge(k, from, to)
             \/ Enter(k)
             \/ \E entry \in Compartments \cup {NoEntry} : RunOrder(k, entry)
    BY <1>1, <1>2, <2>2, FreshStepFlows
  <2>3. CASE StartCompartment(k)
    BY <1>1, <2>3, StartStepFlows
  <2>4. CASE \E to \in Compartments : Send(k, to)
    BY <1>1, <2>4, SendStepFlows
  <2>5. CASE Return(k)
    BY <1>1, <2>5, ReturnStepFlows
  <2>6. CASE Raise(k) \/ Interrupt(k)
    BY <1>1, <2>6, EndStepFlows
  <2>7. CASE Change(k)
    BY <2>0, <2>7 DEF Change, ChangeFile, ChangeSnapshot
  <2>8. CASE CompartmentHook(k)
    <3>1. /\ run[k].at = "hook" /\ runtime' = runtime
          /\ run'[k].at = "between" /\ run'[k].next = run[k].next + 1
      BY <1>1, <2>8 DEF CompartmentHook, Typed
    <3>2. run[k].next + 1 \in Nat \ {0}
      BY <2>0
    <3> QED BY <2>0, <3>1, <3>2, StagesFlow
  <2>9. CASE Exit(k)
    <3>1. /\ run[k].at = "between" /\ runtime' = runtime
          /\ run'[k].at = "over" /\ run'[k].next = run[k].next
      BY <1>1, <2>9 DEF Exit, Leave, Goto, Typed, Runs
    <3> QED BY <2>0, <3>1, StagesFlow
  <2>10. CASE SnapshotRaises(k)
    BY <1>1, <2>10, SnapshotStepFlows
  <2>11. CASE HookRaises(k)
    <3>1. /\ run[k].at = "hook" /\ runtime' = runtime
          /\ run'[k].at = "raised" /\ run'[k].next = run[k].next
      BY <1>1, <2>11 DEF HookRaises, Leave, Goto, Typed, Runs
    <3> QED BY <2>0, <3>1, StagesFlow
  <2> QED BY <2>1, <2>2, <2>3, <2>4, <2>5, <2>6, <2>7, <2>8, <2>9, <2>10, <2>11
          DEF Move, RunStep, Hook, InCompartment, Change
<1> QED BY <1>2, <1>3, OthersFlow

LEMMA AlwaysFlows == Spec => [](Inv /\ Flows)
<1>1. Init => Inv /\ Flows
  BY InitInv, InitFlow
<1>2. Inv /\ Flows /\ [Next]_vars => (Inv /\ Flows)'
  <2> SUFFICES ASSUME Inv, Flows, [Next]_vars PROVE (Inv /\ Flows)'
    OBVIOUS
  <2>1. Inv'
    BY StepInv
  <2>2. Flows'
    <3>1. CASE UNCHANGED vars
      BY <3>1 DEF vars, Flows
    <3>2. CASE \E k \in Containers : Move(k)
      BY <3>2, StepFlow
    <3> QED BY <3>1, <3>2 DEF Next, Move, RunStep
  <2> QED BY <2>1, <2>2
<1> QED BY <1>1, <1>2, PTL DEF Spec

\* Messages arrive (_enqueue, run_order): a compartment is given exactly what completed
\* ones before it sent it, once and in order, however many compartments there are.
THEOREM MessagesAlwaysArrive == Spec => []MessagesArrive
<1>1. Flows => MessagesArrive
  <2> SUFFICES ASSUME Flows, NEW k \in Containers, NEW c \in Registered(k),
                      runtime[k].outcome[c] # "none"
               PROVE  LET rt == runtime[k]
                          due == {m \in To(c, rt.sent) :
                                    Completed(k, m.from) /\ Position(k, m.from) < Position(k, c)}
                      IN  /\ Only(rt.got[c], {m \in Range(rt.got[c]) : Completed(k, m.from)})
                               = Only(rt.sent, due)
                          /\ Range(rt.got[c]) \subseteq To(c, rt.sent)
                          /\ IsInjective(rt.got[c])
    BY DEF MessagesArrive
  <2> DEFINE rt == runtime[k]
             due == {m \in To(c, rt.sent) :
                       Completed(k, m.from) /\ Position(k, m.from) < Position(k, c)}
             done == {m \in Range(rt.got[c]) : Completed(k, m.from)}
  <2>1. Flow(rt, run[k].next, run[k].at) /\ rt \in Kept /\ IsInjective(rt.order)
    BY DEF Flows, Flow
  <2>2. PICK i \in DOMAIN rt.order : rt.order[i] = c
    BY DEF Registered, Range
  <2>3. PICK G, O, R : Given(rt, i, G, O, R)
    BY <2>1, <2>2 DEF Flow, Begun
  <2>4. \A j \in DOMAIN rt.order : Position(k, rt.order[j]) = j
    BY <2>1 DEF Position, IsInjective
  <2>5. Position(k, c) = i
    BY <2>2, <2>4
  <2>6. i \in 1..Len(rt.order) /\ Len(rt.order) \in Nat /\ DOMAIN rt.order = 1..Len(rt.order)
    BY <2>1, KeptFields
  <2>7. \A d \in Ahead(rt, i) : Position(k, d) < i
    <3>1. \A j \in 1..(i - 1) : j \in DOMAIN rt.order /\ j < i
      BY <2>6
    <3> QED BY <2>4, <3>1 DEF Ahead
  <2>8. \A d \in Behind(rt, i) : ~(Position(k, d) < i)
    <3>1. \A j \in i..Len(rt.order) : j \in DOMAIN rt.order /\ ~(j < i)
      BY <2>6
    <3> QED BY <2>4, <3>1 DEF Behind
  <2>9. Range(rt.sent) = Range(G) \cup Range(O) \cup Range(R)
    <3> DEFINE B == G \o O
    <3>1. B \in Seq(Messages) /\ Range(B) = Range(G) \cup Range(O)
      BY <2>3, Together DEF Given
    <3>2. rt.sent = B \o R /\ R \in Seq(Messages)
      BY <2>3 DEF Given
    <3> HIDE DEF B
    <3>3. Range(B \o R) = Range(B) \cup Range(R)
      BY <3>1, <3>2, Together
    <3> QED BY <3>1, <3>2, <3>3
  <2>10. \A m \in Range(G) : m \in due <=> m.to = rt.order[i] /\ rt.outcome[m.from] = "done"
    <3>1. \A m \in Range(G) : m.from \in Ahead(rt, i) /\ m \in Range(rt.sent)
      BY <2>3, <2>9 DEF Given, Senders
    <3> QED BY <2>2, <2>5, <2>7, <3>1 DEF To, Completed
  <2>11. Range(O) \cap due = {}
    <3>1. \A m \in Range(O) : rt.outcome[m.from] \in {"failed", "interrupted"}
      BY <2>3 DEF Given, Senders
    <3> QED BY <3>1 DEF Completed
  <2>12. Range(R) \cap due = {}
    <3>1. \A m \in Range(R) : m.from \in Behind(rt, i)
      BY <2>3 DEF Given, Senders
    <3>2. \A m \in due : Position(k, m.from) < i
      BY <2>5
    <3> QED BY <2>8, <3>1, <3>2
  <2>13. \A m \in Range(rt.got[rt.order[i]]) : m \in done <=> rt.outcome[m.from] = "done"
    BY <2>2 DEF Completed
  <2> HIDE DEF rt, due, done
  <2>14. /\ Only(rt.got[rt.order[i]], done) = Only(rt.sent, due)
         /\ Range(rt.got[rt.order[i]]) \subseteq To(rt.order[i], rt.sent)
         /\ IsInjective(rt.got[rt.order[i]])
    <3>1. Wanted(rt, i, G, O, R, due, done)
      BY <2>10, <2>11, <2>12, <2>13 DEF Wanted
    <3> QED BY <2>1, <2>2, <2>3, <3>1, GivenWhatWasSent
  <2>15. /\ Only(rt.got[c], done) = Only(rt.sent, due)
         /\ Range(rt.got[c]) \subseteq To(c, rt.sent)
         /\ IsInjective(rt.got[c])
    BY <2>2, <2>14
  <2> QED BY <2>15 DEF rt, due, done
<1> QED BY <1>1, AlwaysFlows, PTL
=============================================================================
