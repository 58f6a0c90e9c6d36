---------------------------- MODULE MCClientMirror ----------------------------
(* What TLC needs to check ClientMirror.                                   *)
EXTENDS ClientMirror
=============================================================================
