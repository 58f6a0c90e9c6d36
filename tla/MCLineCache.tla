---------------------------- MODULE MCLineCache ----------------------------
(* LineCache with tags as model values.  Now chooses among them, and       *)
(* liveness is checked, so no symmetry is declared.                        *)
EXTENDS LineCache
=============================================================================
