------------------------------- MODULE MCRpc -------------------------------
(* Rpc with calls as model values.  The patient calls are interchangeable, *)
(* but liveness is checked too, so no symmetry is declared.                *)
EXTENDS Rpc
=============================================================================
