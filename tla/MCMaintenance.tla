--------------------------- MODULE MCMaintenance ----------------------------
(* A target, another source file, and a file only builds write; x is under *)
(* an excluded name.                                                       *)
EXTENDS Maintenance
AllContents == {Original, Patched, Output}
=============================================================================
