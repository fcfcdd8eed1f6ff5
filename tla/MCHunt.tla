------------------------------- MODULE MCHunt -------------------------------
(***************************************************************************)
(* Instances of Hunt for TLC: the finding every hunt repairs, the first    *)
(* tree and the paths that end in one another.                             *)
(***************************************************************************)
EXTENDS HuntProperties, TLC

CONSTANTS h1, h2, f1, f2, base, x, y, k1, k2

\* Hunts of two findings, a single run.
TwoFindings == h1 :> k1 @@ h2 :> k2
OneFinding  == h1 :> k1

\* Two tracked files, or one of them and one name that does not exist yet.
AllPresent == f1 :> base @@ f2 :> base
OneMissing == f1 :> base @@ f2 :> Absent
OnlyF1 == f1 :> base

F2EndsF1 == {<<f1, f2>>}
=============================================================================
