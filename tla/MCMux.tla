------------------------------- MODULE MCMux -------------------------------
(* Mux with panes and requests interchangeable: no definition chooses one *)
(* of either, so permuting them is sound for invariants (Remote = {}).    *)
EXTENDS Mux, TLC

MuxSymmetry == Permutations(Op) \cup Permutations(Pane)
=============================================================================
