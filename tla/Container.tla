----------------------------- MODULE Container ------------------------------
(***************************************************************************)
(* Containers (src/python/koyote/koyote.py): a Koyote holds a box          *)
(* (sandbox/box.py) and a runtime of compartments (compartments/runtime.py *)
(* and, rule for rule, src/src/runtime/compartments/mod.rs).  Its run      *)
(* enters the box, runs the compartments in the order they were added,     *)
(* each behind an enforcer of its permissions (sandbox/enforcer.py,        *)
(* src/src/runtime/enforcer.rs), and destroys the box.                     *)
(*                                                                         *)
(* The containers of one process share its files and the functions the     *)
(* enforcer patches, and those of one thread its confinement.  Nothing     *)
(* keeps a run from beginning while another is under way, on another       *)
(* thread or called by a compartment.  A place is one content, which       *)
(* excluded names are not part of.  What a compartment does when it runs   *)
(* is its user's code.                                                     *)
(***************************************************************************)
EXTENDS Confinement, Sequences, SequencesExt

CONSTANTS
    Containers, Compartments, Threads,
    Workdir,       \* container -> its working directory
    Permissions,   \* compartment -> a subset of fs_read, fs_write, fs_exec
    Inbound,       \* compartment -> allow_inbound_from; ["*"] is all of them
    Outbound,      \* compartment -> allow_outbound_to
    BlockNetwork,
    Watched,       \* bound: the places whose files are followed
    Setups,        \* what users set up: a set of [kernel, thread : container -> the
                   \* thread its run is called on, overlap : may a run begin while
                   \* another is under way, faults \subseteq Faults,
                   \* of : container -> [sandbox, auto_modules (as in KoyoteConfig),
                   \* roster, sends]], where a roster is what may be added, and sends
                   \* bounds the messages
    Contents, Original,   \* what a place may hold, and holds at first
    MaxEdges,      \* bound: edges of one runtime
    NoTree, Damaged, NoEntry

ASSUME ContainerAssumption ==
    /\ Workdir \in [Containers -> Watched]
    /\ \A s \in Setups : s.thread \in [Containers -> Threads]
    /\ NoEntry \notin Compartments
    /\ Original \in Contents
    /\ NoTree \notin Contents /\ Damaged \notin Contents \cup {NoTree}

VARIABLES
    setup,     \* the kernel the process is on, and the containers as configured
    files,     \* watched place -> content
    layers,    \* thread -> its confinement
    calls,     \* thread -> the containers whose run it is in, the innermost last
    patched,   \* the compartments whose policies the patched functions check: each
               \* wrapper checks its own and calls the function it replaced
    originals, \* container -> what its enforcer replaced (SandboxEnforcer._originals)
    box,       \* container -> the Box; its snapshot is a content, NoTree, or Damaged:
               \* a manager whose directory does not hold the tree as it was
    runtime,   \* container -> the CompartmentRuntime
    run        \* container -> [at, next]: the run's stage and its place in the order

vars == <<setup, files, layers, calls, patched, originals, box, runtime, run>>

\* Files snapshot() cannot read and skips, or that restore() cannot write back; and
\* compartments that change what is under the .koyote of a working directory.
Faults == {"snapshot", "restore", "tampering"}

\* A message is [from, to, nr]; nr numbers the messages of a runtime. sent, got,
\* before and outcome record what happened: all that was sent, what each compartment
\* was given, what its working directory held when it began, and how it ended.
NewRuntime == [order |-> <<>>, edges |-> {}, queue |-> [c \in Compartments |-> <<>>],
               outbox |-> <<>>, sent |-> <<>>, got |-> [c \in Compartments |-> <<>>],
               before |-> NoTree, outcome |-> [c \in Compartments |-> "none"]]

Init ==
    /\ setup \in Setups
    /\ files = [p \in Watched |-> Original]
    /\ layers = [t \in Threads |-> {}]
    /\ calls = [t \in Threads |-> <<>>]
    /\ patched = {}
    /\ originals = [k \in Containers |-> {}]
    /\ box = [k \in Containers |-> [state |-> "created", applied |-> FALSE, snapshot |-> NoTree]]
    /\ runtime = [k \in Containers |-> NewRuntime]
    /\ run = [k \in Containers |-> [at |-> "setup", next |-> 1]]

Thread(k) == setup.thread[k]
Running(k) == run[k].at \notin {"setup", "over", "raised"}
Goto(k, at) == run' = [run EXCEPT ![k].at = at]

\* Koyote.run returns to its caller, or raises out of it.
Leave(k, at) ==
    /\ Goto(k, at)
    /\ calls' = [calls EXCEPT ![Thread(k)] = Front(@)]
Innermost(k) == calls[Thread(k)] # <<>> /\ Last(calls[Thread(k)]) = k
Reaches(k, right, place) == Keeps(layers[Thread(k)], right, place)

Registered(k) == Range(runtime[k].order)
Current(k) == runtime[k].order[run[k].next]

\* _check in the wrappers a call goes through, of what the function needs.
CheckPermission(needs) == \A c \in patched : needs \subseteq Permissions[c]

-----------------------------------------------------------------------------
\* Runtime::add; a name added twice is an Err.
Add(k, c) ==
    /\ run[k].at = "setup"
    /\ c \in setup.of[k].roster \ Registered(k)
    /\ runtime' = [runtime EXCEPT ![k].order = Append(@, c)]
    /\ UNCHANGED <<setup, files, layers, calls, patched, originals, box, run>>

\* Runtime::can_route, and the condition of Runtime::edge.
CanRoute(k, from, to) ==
    /\ {from, to} \subseteq Registered(k)
    /\ from \in Inbound[to]
    /\ to \in Outbound[from]

Edge(k, from, to) ==
    /\ run[k].at = "setup"
    /\ Cardinality(runtime[k].edges) < MaxEdges
    /\ CanRoute(k, from, to)
    /\ runtime' = [runtime EXCEPT ![k].edges = @ \cup {<<from, to>>}]
    /\ UNCHANGED <<setup, files, layers, calls, patched, originals, box, run>>

-----------------------------------------------------------------------------
\* Mutant of Confine: an error is taken for an applied sandbox.
ConfineAnyway(k, answer) ==
    /\ layers' = IF answer = <<>> THEN layers ELSE [layers EXCEPT ![Thread(k)] = answer[1]]
    /\ box' = [box EXCEPT ![k].state = "running", ![k].applied = setup.of[k].sandbox]

\* What Box.enter makes of sandbox_apply: without support, and on any error, the box
\* runs without a sandbox.
Confine(k, answer) ==
    /\ layers' = [t \in Threads |->
                     IF answer # <<>> /\ (t = Thread(k) \/ AllThreads(setup.kernel))
                     THEN answer[1] ELSE layers[t]]
    /\ box' = [box EXCEPT ![k].state = "running", ![k].applied = answer # <<>>]

\* Koyote.run up to the runtime: Box.enter, which first makes the box's directory
\* in the working directory, and insulate.  On a thread that is in a run already, a
\* compartment makes the call.
Enter(k) ==
    /\ run[k].at = "setup"
    /\ setup.overlap \/ \A other \in Containers : ~Running(other)
    /\ calls[Thread(k)] # <<>> => run[Last(calls[Thread(k)])].at = "inside"
    /\ UNCHANGED <<setup, files, patched, originals, runtime>>
    /\ IF CheckPermission({"fs_write"}) /\ Reaches(k, "make", Workdir[k])
       THEN /\ \E answer \in IF setup.of[k].sandbox /\ Supported(setup.kernel)
                             THEN Apply(setup.kernel, layers[Thread(k)], Workdir[k], BlockNetwork)
                             ELSE {<<>>} : Confine(k, answer)
            /\ Goto(k, "entered")
            /\ calls' = [calls EXCEPT ![Thread(k)] = Append(@, k)]
       ELSE /\ box' = [box EXCEPT ![k].state = "ready"]
            /\ Goto(k, "raised")
            /\ UNCHANGED <<layers, calls>>

\* Runtime::run_order. An unknown entry, or nothing registered, is an exception
\* that Koyote.run does not catch.
RunOrder(k, entry) ==
    /\ run[k].at = "entered"
    /\ IF runtime[k].order = <<>> \/ entry \notin Registered(k) \cup {NoEntry}
       THEN Leave(k, "raised")
       ELSE /\ run' = [run EXCEPT ![k] =
                [at |-> "between",
                 next |-> IF entry = NoEntry THEN 1
                          ELSE CHOOSE i \in DOMAIN runtime[k].order : runtime[k].order[i] = entry]]
            /\ UNCHANGED calls
    /\ UNCHANGED <<setup, files, layers, patched, originals, box, runtime>>

-----------------------------------------------------------------------------
\* Box.apply_policy and SandboxEnforcer.__enter__, which saves what it replaces.
Patch(k) ==
    /\ originals' = [originals EXCEPT ![k] = patched]
    /\ patched' = patched \cup {Current(k)}

\* Mutant of Unpatch: the genuine functions are put back.
UnpatchAll(k) ==
    /\ patched' = {}
    /\ originals' = [originals EXCEPT ![k] = {}]

\* SandboxEnforcer.__exit__ puts back what was saved, whatever is patched by now.
Unpatch(k) ==
    /\ patched' = originals[k]
    /\ originals' = [originals EXCEPT ![k] = {}]

\* What SnapshotManager.snapshot may make, by functions another enforcer may have
\* patched; where it can make nothing it raises.
Snapshots(k) ==
    IF ~setup.of[k].auto_modules THEN {NoTree}
    ELSE {tree \in {files[Workdir[k]], Damaged} :
             /\ CheckPermission({"fs_read", "fs_write"})
             /\ Reaches(k, "make", Workdir[k])
             /\ tree = Damaged => "snapshot" \in setup.faults}

\* A compartment's turn: its queue becomes its messages, its policy is recorded, the
\* snapshot taken (compartment_started), then the enforcer entered.
StartCompartment(k) ==
    /\ run[k].at = "between"
    /\ run[k].next <= Len(runtime[k].order)
    /\ LET c == Current(k) IN
       runtime' = [runtime EXCEPT ![k].got[c] = runtime[k].queue[c],
                                  ![k].queue[c] = <<>>,
                                  ![k].before = files[Workdir[k]],
                                  ![k].outcome[c] = "running"]
    /\ \E tree \in Snapshots(k) : box' = [box EXCEPT ![k].snapshot = tree]
    /\ Patch(k)
    /\ Goto(k, "inside")
    /\ UNCHANGED <<setup, files, layers, calls>>

\* The same, when the snapshot raises: out of the run, before the compartment is.
SnapshotRaises(k) ==
    /\ run[k].at = "between"
    /\ run[k].next <= Len(runtime[k].order)
    /\ setup.of[k].auto_modules
    /\ Snapshots(k) = {} \/ "snapshot" \in setup.faults
    /\ runtime' = [runtime EXCEPT ![k].queue[Current(k)] = <<>>]
    /\ Leave(k, "raised")
    /\ UNCHANGED <<setup, files, layers, patched, originals, box>>

\* The compartment changes a file, itself or by a command it executes.  Its policy is
\* no guard of this: the enforcer wraps the functions _patch lists, and io.open,
\* os.truncate, os.link, os.exec* and references taken before go past it.
ChangeFile(k, place, content, right) ==
    /\ run[k].at = "inside"
    /\ Reaches(k, right, place)
    /\ files' = [files EXCEPT ![place] = content]
    /\ UNCHANGED <<setup, layers, calls, patched, originals, box, runtime, run>>

\* It changes or removes a snapshot, which lies in the working directory.
ChangeSnapshot(k, of) ==
    /\ "tampering" \in setup.faults
    /\ run[k].at = "inside"
    /\ box[of].snapshot # NoTree
    /\ Reaches(k, "write", Workdir[of])
    /\ box' = [box EXCEPT ![of].snapshot = Damaged]
    /\ UNCHANGED <<setup, files, layers, calls, patched, originals, runtime, run>>

\* CompartmentContext.send: to any name, into the outbox of the run.
Send(k, to) ==
    /\ run[k].at = "inside"
    /\ Len(runtime[k].sent) < setup.of[k].sends
    /\ LET m == [from |-> Current(k), to |-> to, nr |-> Len(runtime[k].sent) + 1] IN
       runtime' = [runtime EXCEPT ![k].outbox = Append(@, m), ![k].sent = Append(@, m)]
    /\ UNCHANGED <<setup, files, layers, calls, patched, originals, box, run>>

\* The messages of s that are in M, in their order. (SelectSeq, as a fold.)
Only(s, M) == FoldLeft(LAMBDA only, m : IF m \in M THEN Append(only, m) ELSE only, <<>>, s)
To(c, s) == {m \in Range(s) : m.to = c}

\* Mutant of Routed: a queue holds what was sent last.
RoutedLast(k, c) ==
    LET new == Only(runtime[k].outbox, To(c, runtime[k].outbox))
    IN  IF new = <<>> THEN runtime[k].queue[c] ELSE new

\* _enqueue of the whole outbox; what is sent to an unknown name is dropped.
Routed(k, c) ==
    IF c \in Registered(k)
    THEN runtime[k].queue[c] \o Only(runtime[k].outbox, To(c, runtime[k].outbox))
    ELSE <<>>

\* The compartment returns.
Return(k) ==
    /\ run[k].at = "inside"
    /\ runtime' = [runtime EXCEPT ![k].queue = [c \in Compartments |-> Routed(k, c)],
                                  ![k].outbox = <<>>,
                                  ![k].outcome[Current(k)] = "done"]
    /\ Unpatch(k)
    /\ Goto(k, "hook")
    /\ UNCHANGED <<setup, files, layers, calls, box>>

\* Mutant of Raise: the enforcer is left only after a result.
RaisePatched(k) ==
    /\ run[k].at = "inside"
    /\ runtime' = [runtime EXCEPT ![k].outcome[Current(k)] = "failed"]
    /\ Goto(k, "hook")
    /\ UNCHANGED <<setup, files, layers, calls, patched, originals, box>>

\* It raises an Exception; what it sent stays in the outbox.
Raise(k) ==
    /\ run[k].at = "inside"
    /\ runtime' = [runtime EXCEPT ![k].outcome[Current(k)] = "failed"]
    /\ Unpatch(k)
    /\ Goto(k, "hook")
    /\ UNCHANGED <<setup, files, layers, calls, box>>

\* It is interrupted: no Exception, so only the finally clause runs, and no rollback.
Interrupt(k) ==
    /\ run[k].at = "inside"
    /\ runtime' = [runtime EXCEPT ![k].outcome[Current(k)] = "interrupted"]
    /\ Unpatch(k)
    /\ Leave(k, "raised")
    /\ UNCHANGED <<setup, files, layers, box>>

\* A failed compartment that has a snapshot is rolled back, any other snapshot removed.
RollsBack(k) == runtime[k].outcome[Current(k)] = "failed" /\ box[k].snapshot # NoTree
HookNeeds(k) ==
    (IF box[k].snapshot # NoTree THEN {"fs_write"} ELSE {})
    \cup (IF RollsBack(k) THEN {"fs_read"} ELSE {})

\* Can restore put back the tree? Files the manifest does not have it removes, and an
\* error of copying or removing one it only logs.
Whole(k) == box[k].snapshot # Damaged /\ "restore" \notin setup.faults
Restored(k) ==
    CASE ~Reaches(k, "write", Workdir[k]) -> {files[Workdir[k]]}
      [] Reaches(k, "write", Workdir[k]) /\ ~Whole(k) -> Contents
      [] OTHER -> {box[k].snapshot}

\* compartment_finished, or compartment_failed with its restore, by functions this
\* compartment's enforcer no longer patches.
CompartmentHook(k) ==
    /\ run[k].at = "hook"
    /\ CheckPermission(HookNeeds(k))
    /\ \E content \in IF RollsBack(k) THEN Restored(k) ELSE {files[Workdir[k]]} :
          files' = [files EXCEPT ![Workdir[k]] = content]
    /\ box' = [box EXCEPT ![k].snapshot = NoTree]
    /\ run' = [run EXCEPT ![k] = [at |-> "between", next |-> run[k].next + 1]]
    /\ UNCHANGED <<setup, layers, calls, patched, originals, runtime>>

\* The hook raises, out of the run: a wrapper forbids what it needs, or restore cannot
\* make a directory or read its manifest.
HookRaises(k) ==
    /\ run[k].at = "hook"
    /\ \/ ~CheckPermission(HookNeeds(k)) /\ files' = files
       \/ /\ CheckPermission(HookNeeds(k)) /\ RollsBack(k)
          /\ ~(Reaches(k, "write", Workdir[k]) /\ Whole(k))
          /\ \E content \in Restored(k) : files' = [files EXCEPT ![Workdir[k]] = content]
    /\ Leave(k, "raised")
    /\ UNCHANGED <<setup, layers, patched, originals, box, runtime>>

\* The runtime is through: release and Box.exit, whose exceptions are dropped.
Exit(k) ==
    /\ run[k].at = "between"
    /\ run[k].next > Len(runtime[k].order)
    /\ box' = [box EXCEPT ![k].state = IF CheckPermission({"fs_write"}) THEN "destroyed" ELSE @]
    /\ Leave(k, "over")
    /\ UNCHANGED <<setup, files, layers, patched, originals, runtime>>

InCompartment(k) ==
    \/ \E place \in Watched, content \in Contents, right \in WriteRights :
          ChangeFile(k, place, content, right)
    \/ \E of \in Containers : ChangeSnapshot(k, of)
    \/ \E to \in Compartments : Send(k, to)
    \/ Return(k) \/ Raise(k) \/ Interrupt(k)

Hook(k) == CompartmentHook(k) \/ HookRaises(k)

Next ==
    \E k \in Containers :
        \/ \E c \in Compartments : Add(k, c)
        \/ \E from, to \in Compartments : Edge(k, from, to)
        \/ Enter(k)
        \/ /\ Innermost(k)
           /\ \/ \E entry \in Compartments \cup {NoEntry} : RunOrder(k, entry)
              \/ StartCompartment(k) \/ SnapshotRaises(k)
              \/ InCompartment(k)
              \/ Hook(k)
              \/ Exit(k)

Spec == Init /\ [][Next]_vars
-----------------------------------------------------------------------------
\* A box that reports its sandbox applied confines its thread for good, and where
\* the kernel can its whole process: whatever container runs there later or within,
\* it changes no file outside the box's working directory, the temporary directories
\* and the devices.  Before Landlock 3 truncation is not confined (HandledFs),
\* whatever the box reports.
BoxesConfine ==
    [][\A j, k \in Containers, p \in Watched :
          /\ box[k].applied
          /\ files'[p] # files[p]
          /\ Thread(j) = Thread(k) \/ AllThreads(setup.kernel)
          /\ setup.kernel.platform = "linux" => setup.kernel.abi >= 3
          /\ InCompartment(j) \/ Hook(j)
          => p \in {Workdir[k], "tmp", "dev"}]_vars

\* Where runs do not overlap, all can be read and written, and the snapshot is left
\* alone, whatever a compartment that failed did to the working directory is undone
\* before anything else happens, even where the compartment itself could not write.
FailureIsRolledBack ==
    [][\A k \in Containers :
          /\ ~setup.overlap /\ setup.faults = {}
          /\ run[k].at = "hook" /\ run'[k].at # "hook"
          /\ setup.of[k].auto_modules
          /\ runtime[k].outcome[Current(k)] = "failed"
          => files'[Workdir[k]] = runtime[k].before]_vars

Sequential == ~setup.overlap \/ \A j, k \in Containers : Thread(j) = Thread(k)

\* Where runs follow or call each other, and never run side by side, the wrapped
\* functions check the policies of the compartments that are running, of all of them,
\* and of no other: however they end, none is left behind and none is lifted early.
PoliciesInForce ==
    Sequential => patched = {Current(k) : k \in {j \in Containers : run[j].at = "inside"}}

\* Two instances running simultaneously (tests/test_hostile_concurrency.py): the
\* wrapped functions let a compartment write when its own policy does, and only then.
OwnPolicyDecides ==
    \A k \in Containers : run[k].at = "inside" =>
        (CheckPermission({"fs_write"}) <=> "fs_write" \in Permissions[Current(k)])

Position(k, c) == CHOOSE i \in DOMAIN runtime[k].order : runtime[k].order[i] = c
Completed(k, c) == runtime[k].outcome[c] = "done"

\* What a completed compartment sent to a later one, that one was given, once and in
\* the order it was sent; and it was given nothing that was not sent to it.
MessagesArrive ==
    \A k \in Containers : \A c \in Registered(k) :
        runtime[k].outcome[c] # "none" =>
            LET rt == runtime[k]
                due == {m \in To(c, rt.sent) :
                           Completed(k, m.from) /\ Position(k, m.from) < Position(k, c)}
            IN  /\ Only(rt.got[c], {m \in Range(rt.got[c]) : Completed(k, m.from)})
                       = Only(rt.sent, due)
                /\ Range(rt.got[c]) \subseteq To(c, rt.sent)
                /\ IsInjective(rt.got[c])
=============================================================================
