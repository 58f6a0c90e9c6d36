----------------------------- MODULE MCPaneTree -----------------------------
(* PaneTree with three panes, of which the first and the third are of one   *)
(* domain: enough for each of the ways a walk goes on after an unsplit.     *)
EXTENDS PaneTree
=============================================================================
