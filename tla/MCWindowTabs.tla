---------------------------- MODULE MCWindowTabs ----------------------------
(***************************************************************************)
(* WindowTabs for TLC.  With four tabs a removal can lie before, on and    *)
(* after both the active and the last active tab, with one tab to spare;   *)
(* tabs are interchangeable, and only safety is checked, so symmetry is    *)
(* sound.                                                                  *)
(***************************************************************************)
EXTENDS WindowTabs, TLC

TabSymmetry == Permutations(Tab)
=============================================================================
