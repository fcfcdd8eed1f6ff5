------------------------------ MODULE Workflow ------------------------------
(***************************************************************************)
(* Workflow definitions (src/src/engines/autopatch/workflow.rs). A         *)
(* workflow is a sequence of steps [name, depends_on (a sequence of        *)
(* names)]; names are numbers, compared as the code compares strings.      *)
(***************************************************************************)
EXTENDS Integers, Sequences, FiniteSets, FiniteSetsExt, SequencesExt

Names(workflow) == {workflow[s].name : s \in DOMAIN workflow}

\* validate_workflow: the kinds of its errors, with the name each is about.
ValidateWorkflow(workflow) ==
    (IF workflow = <<>> THEN {<<"empty", 0>>} ELSE {})
    \cup {<<"duplicate", workflow[s].name>> :
             s \in {s \in DOMAIN workflow : \E t \in 1..(s - 1) : workflow[t].name = workflow[s].name}}
    \cup UNION {{<<"unknown", d>> : d \in Range(workflow[s].depends_on) \ Names(workflow)} :
                   s \in DOMAIN workflow}
    \cup {<<"itself", workflow[s].name>> :
             s \in {s \in DOMAIN workflow : workflow[s].name \in Range(workflow[s].depends_on)}}

\* How often steps of this name ask for a step named d.
Asks(workflow, name, d) ==
    MapThenSumSet(LAMBDA s : Cardinality({p \in DOMAIN workflow[s].depends_on :
                                            workflow[s].depends_on[p] = d}),
                  {s \in DOMAIN workflow : workflow[s].name = name})

InDegree(workflow, name) ==
    MapThenSumSet(LAMBDA s : Len(workflow[s].depends_on),
                  {s \in DOMAIN workflow : workflow[s].name = name})

\* Mutant of Ready: one dependency that is done is enough.
ReadyAfterAny(workflow, done) ==
    {n \in Names(workflow) \ done :
        InDegree(workflow, n) = 0 \/ \E d \in done : Asks(workflow, n, d) > 0}

\* The queue: the names all of whose dependencies were taken from it before.
Ready(workflow, done) ==
    {n \in Names(workflow) \ done :
        InDegree(workflow, n) = MapThenSumSet(LAMBDA d : Asks(workflow, n, d), done)}

\* execution_order: the queue is sorted before each step is taken from it; a
\* name that never gets into it makes the order too short, which is the error.
ExecutionOrder(workflow) ==
    LET order[k \in 0..Len(workflow)] ==
            IF k = 0 THEN <<>>
            ELSE LET ready == Ready(workflow, Range(order[k - 1]))
                 IN  IF ready = {} THEN order[k - 1] ELSE Append(order[k - 1], Min(ready))
    IN  IF Len(order[Len(workflow)]) = Len(workflow) THEN <<order[Len(workflow)]>> ELSE <<>>
=============================================================================
