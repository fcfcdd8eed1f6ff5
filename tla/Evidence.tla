------------------------------ MODULE Evidence ------------------------------
(***************************************************************************)
(* Replay evidence (src/src/engines/autopatch/evidence.rs): the commands   *)
(* of a replay are executed and recorded, the patch is compared with the   *)
(* one people wrote, and the replay is classified from the records.        *)
(***************************************************************************)
EXTENDS Integers, Sequences

Slots == {"baseline", "drift", "post_patch", "t1"}
\* How a command can end: status 0, another status, by a signal, or not started.
Outcomes == {"green", "red", "killed", "unstarted"}

\* execute_and_record_command; the log's own failures are ignored, so it may be absent.
ExitCode(outcome) == CASE outcome = "green" -> 0
                       [] outcome \in {"red", "killed"} -> 1
                       [] outcome = "unstarted" -> -1

\* compare_diffs_semantically: the added lines of both diffs, the first's share of
\* lines that some line of the second resembles, as [matched, added]; full where
\* either adds nothing.
SemanticScore(koyote_added, human_added, Resembles(_, _)) ==
    IF koyote_added = <<>> \/ human_added = <<>> THEN [matched |-> 1, added |-> 1]
    ELSE [matched |-> Len(SelectSeq(koyote_added,
                          LAMBDA l : \E h \in DOMAIN human_added : Resembles(l, human_added[h]))),
          added |-> Len(koyote_added)]

\* Mutant of ClassifyReplay: what ran after the upgrade by people is not looked at.
ClassifyWithoutT1(e) ==
    LET Ran(s) == e.executions[s] # <<>>
        Green(s) == e.executions[s][1].exit_code = 0
    IN  CASE e.placeholder \/ \E s \in Slots \ {"t1"} : ~Ran(s) -> "Inconclusive"
          [] OTHER -> IF ~Green("baseline") THEN "Inconclusive"
                      ELSE IF Green("drift") THEN "NonReproducible"
                      ELSE IF ~Green("post_patch") \/ ~e.blast_radius_verified
                              \/ e.unintended_files_modified > 0 THEN "Unsafe"
                      ELSE "Reproducible"

\* classify_replay: of evidence [executions : slot -> <<>> or <<[exit_code, logged]>>,
\* placeholder, blast_radius_verified, unintended_files_modified, files_modified, score].
ClassifyReplay(e) ==
    LET Ran(s) == e.executions[s] # <<>>
        Green(s) == e.executions[s][1].exit_code = 0
        Logged(s) == e.executions[s][1].logged
    IN  IF e.placeholder \/ \E s \in Slots \ {"t1"} : ~Ran(s) THEN "Inconclusive"
        ELSE IF ~Green("baseline") THEN "Inconclusive"
        ELSE IF Green("drift") THEN "NonReproducible"
        ELSE IF ~Green("post_patch") \/ ~e.blast_radius_verified
                \/ e.unintended_files_modified > 0 THEN "Unsafe"
        ELSE IF Ran("t1") /\ ~Green("t1") THEN "Inconclusive"
        ELSE IF \E s \in Slots \ {"t1"} : ~Logged(s) THEN "Inconclusive"
        ELSE "Reproducible"

MergeablePr(e) == /\ ClassifyReplay(e) = "Reproducible"
                  /\ 2 * e.score.matched >= e.score.added
                  /\ e.files_modified > 0
=============================================================================
