------------------------------ MODULE MCFrontEnd ------------------------------
(* FrontEnd with two GUI windows for up to three windows in two workspaces:  *)
(* enough for one too many, one too few, and one shown twice.  Identifiers   *)
(* are ordered and reconcile_workspace goes by that order: no symmetry.      *)
EXTENDS FrontEnd
=============================================================================
