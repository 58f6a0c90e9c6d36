------------------------------ MODULE PaneTree ------------------------------
(***************************************************************************)
(* The panes of one tab: TabInner of mux/src/tab.rs over the zipper of     *)
(* bintree/src/lib.rs.  The code keeps a binary tree with the panes at its *)
(* leaves, the active pane as the preorder index of a leaf, and the zoomed *)
(* pane by itself.  A leaf that goes takes its parent with it: the other   *)
(* child moves up, and the walk over the tree goes on from there.          *)
(*                                                                         *)
(* The tree is here its leaves in preorder and, for each inner node, the   *)
(* span of the leaves under it.  Sizes and recency are left out; the tab   *)
(* runs its operations on the main thread, one at a time, but a walk reads *)
(* whether a pane is dead when it comes to it, and panes die at any time.  *)
(***************************************************************************)
EXTENDS Naturals, FiniteSets, SequencesExt

CONSTANTS
  MaxPanes,  \* bound: panes are numbered from 1 as PANE_ID does, up to this
  NoPane,    \* Option::<Arc<dyn Pane>>::None
  Remote,    \* the panes whose domain can be detached
  Rezoomed   \* may the tab be zoomed again while PaneSelect shows its labels?

ASSUME PanesAssumption == MaxPanes \in Nat \ {0}
ASSUME NoPaneAssumption == NoPane \notin Nat
ASSUME RemoteAssumption == Remote \subseteq 1..MaxPanes
ASSUME RezoomedAssumption == Rezoomed \in BOOLEAN

VARIABLES
  leaves,     \* the panes of the tree, in preorder
  spans,      \* <<i, j>> for every node: it stands over the leaves i to j
  active,     \* TabInner::active: counts from 0, the positions of leaves from 1
  zoomed,     \* TabInner::zoomed
  born,       \* panes 1 to born have been spawned
  gone,       \* those that are dead, or that Mux::panes does not know any more
  toRemove,   \* those with a task on the main thread to call Mux::remove_pane
  pruneDue,   \* is a prune_dead_windows on its way?
  walk,       \* the remove_pane_if under way
  request     \* the Domain::split_pane under way

tree == <<leaves, spans>>
panes == <<born, gone>>
vars == <<leaves, spans, active, zoomed, born, gone, toRemove, pruneDue, walk,
          request>>

Pane == 1..MaxPanes

-----------------------------------------------------------------------------
(* The tree.                                                               *)

Listed == ToSet(leaves)
Position(p) == CHOOSE i \in DOMAIN leaves : leaves[i] = p

\* The nth leaf, counted from 0 (Cursor::go_to_nth_leaf)
LeafAt(n) == IF n + 1 \in DOMAIN leaves THEN leaves[n + 1] ELSE NoPane

\* get_active_pane
ActivePane == IF zoomed # NoPane THEN zoomed ELSE LeafAt(active)

Under(i, s) == s[1] <= i /\ i <= s[2]

\* The node right above leaf i
Parent(i) == CHOOSE s \in spans :
               Under(i, s) /\ \A t \in spans : Under(i, t) => t[1] <= s[1] /\ s[2] <= t[2]

\* A node's span when leaf i goes, and when it becomes the leaves i and i + 1
Closed(s, i) == <<IF i < s[1] THEN s[1] - 1 ELSE s[1], IF i <= s[2] THEN s[2] - 1 ELSE s[2]>>
Opened(s, i) == <<IF i < s[1] THEN s[1] + 1 ELSE s[1], IF i <= s[2] THEN s[2] + 1 ELSE s[2]>>

\* Mutant of SpansWithout: the parent stays
SpansParentStays(i) == {Closed(s, i) : s \in spans}

\* Cursor::unsplit_leaf
SpansWithout(i) == {Closed(s, i) : s \in spans \ {Parent(i)}}

\* Cursor::split_leaf_and_insert_right, on a leaf that already holds the first
SpansSplit(i) == {Opened(s, i) : s \in spans} \cup {<<i, i + 1>>}

\* Cursor::preorder_next after unsplit_leaf: the cursor is on the other child.
\* A node is entered, from its first leaf on; a leaf is left behind, unvisited
NextAfter(i) ==
  LET first == Parent(i)[1]
      last == Parent(i)[2]
  IN CASE first = i /\ last = i + 1     -> i + 1
       [] first = i /\ last # i + 1     -> i
       [] first # i /\ first = i - 1    -> i
       [] first # i /\ first # i - 1    -> first

-----------------------------------------------------------------------------
(* Walks of remove_pane_if.  focus is the active leaf when the walk began: *)
(* the code has no such thing, the properties need it.                     *)

Idle == [busy |-> FALSE, prune |-> FALSE, asked |-> {}, kill |-> FALSE,
         at |-> 1, index |-> 0, removed |-> {}, taken |-> {}, focus |-> NoPane]

Walk(prune, asked, kill) ==
  [Idle EXCEPT !.busy = TRUE, !.prune = prune, !.asked = asked, !.kill = kill,
               !.focus = LeafAt(active)]

PruneWalk == Walk(TRUE, {}, TRUE)

NoRequest == [phase |-> "none", target |-> NoPane, second |-> FALSE,
              top |-> FALSE, moved |-> NoPane]

Init ==
  /\ leaves = <<1>>
  /\ spans = {}
  /\ active = 0
  /\ zoomed = NoPane
  /\ born = 1
  /\ gone = {}
  /\ toRemove = {}
  /\ pruneDue = FALSE
  /\ walk = Idle
  /\ request = NoRequest

\* The main thread may start another operation on the tab
Free == ~walk.busy /\ request.phase # "moving"

\* Does the walk take p?  The closures of prune_dead_panes and of the others
Matches(p) == IF walk.prune THEN p \in gone ELSE p \in walk.asked

\* Visit a leaf that stays
Keep ==
  /\ walk.busy
  /\ walk.at <= Len(leaves)
  /\ ~Matches(leaves[walk.at])
  /\ walk' = [walk EXCEPT !.at = @ + 1, !.index = @ + 1]
  /\ UNCHANGED <<tree, active, zoomed, panes, toRemove, pruneDue, request>>

\* Mutant of Unzoomed: the zoomed pane may be gone
ZoomKept(p) == zoomed

Unzoomed(p) == IF zoomed = p THEN NoPane ELSE zoomed

Taken(p, next) ==
  [walk EXCEPT !.at = next, !.removed = @ \cup {walk.index},
               !.index = @ + 1, !.taken = @ \cup {p}]

\* Visit a leaf that goes.  Without a parent to unsplit the tree is empty
Take ==
  /\ walk.busy
  /\ walk.at <= Len(leaves)
  /\ Matches(leaves[walk.at])
  /\ zoomed' = Unzoomed(leaves[walk.at])
  /\ leaves' = RemoveAt(leaves, walk.at)
  /\ IF Len(leaves) = 1
     THEN /\ spans' = {}
          /\ walk' = Taken(leaves[walk.at], 1)
     ELSE /\ spans' = SpansWithout(walk.at)
          /\ walk' = Taken(leaves[walk.at], NextAfter(walk.at))
  /\ UNCHANGED <<active, panes, toRemove, pruneDue, request>>

\* Mutants of ShiftedDown: the subtraction does not saturate; there is none
ShiftedBelow == active - Cardinality({i \in walk.removed : i <= active})
NotShifted == active

\* saturating_sub
ShiftedDown ==
  LET earlier == Cardinality({i \in walk.removed : i <= active})
  IN IF earlier <= active THEN active - earlier ELSE 0

\* Mutant of ToKill: the panes taken are not removed from the mux
ForgetToKill == toRemove

ToKill == IF walk.kill THEN toRemove \cup walk.taken ELSE toRemove

\* The walk is over: repair the active index, post the removal of the panes
EndWalk ==
  /\ walk.busy
  /\ walk.at > Len(leaves)
  /\ active' = ShiftedDown
  /\ toRemove' = ToKill
  /\ walk' = Idle
  /\ UNCHANGED <<tree, zoomed, panes, pruneDue, request>>

Begin(w) == Free /\ walk' = w

\* The user confirms closing a pane (overlay/confirm_close_pane.rs)
KillPane(p) ==
  /\ p \in Listed
  /\ Begin(Walk(FALSE, {p}, TRUE))
  /\ UNCHANGED <<tree, active, zoomed, panes, toRemove, pruneDue, request>>

\* Mux::move_pane_to_new_tab takes the pane out alive
MovePaneOut(p) ==
  /\ p \in Listed
  /\ Begin(Walk(FALSE, {p}, FALSE))
  /\ UNCHANGED <<tree, active, zoomed, panes, toRemove, pruneDue, request>>

\* Mux::domain_was_detached: kill_panes_in_domain, then the panes are removed
\* from the mux, which the walk does not look at, and a prune follows
DomainWasDetached ==
  /\ Remote \cap 1..born # {}
  /\ Begin(Walk(FALSE, Remote \cap 1..born, TRUE))
  /\ gone' = gone \cup (Remote \cap 1..born)
  /\ pruneDue' = TRUE
  /\ UNCHANGED <<tree, active, zoomed, born, toRemove, request>>

\* prune_dead_windows, from its task
PruneDeadPanes ==
  /\ pruneDue
  /\ Begin(PruneWalk)
  /\ pruneDue' = FALSE
  /\ UNCHANGED <<tree, active, zoomed, panes, toRemove, request>>

\* The task that calls Mux::remove_pane, which prunes before it returns
RemovePane(p) ==
  /\ p \in toRemove
  /\ Begin(PruneWalk)
  /\ toRemove' = toRemove \ {p}
  /\ gone' = gone \cup {p}
  /\ UNCHANGED <<tree, active, zoomed, born, pruneDue, request>>

\* The program of a pane ends, at any time.  The reader of its pty posts a
\* prune, or with exit_behavior "Close" the removal of the pane
Die(p) ==
  /\ p \in Listed \ gone
  /\ gone' = gone \cup {p}
  /\ \/ pruneDue' = TRUE /\ UNCHANGED toRemove
     \/ toRemove' = toRemove \cup {p} /\ UNCHANGED pruneDue
  /\ UNCHANGED <<tree, active, zoomed, born, walk, request>>

-----------------------------------------------------------------------------
(* Splitting: Domain::split_pane finds the target, un-zooms for the size of *)
(* the split, waits for the new pane and finds the target again.           *)

Ask(phase, target, second, top, moved) ==
  /\ Free
  /\ request.phase = "none"
  /\ target \in Listed
  /\ request' = [phase |-> phase, target |-> target, second |-> second,
                 top |-> top, moved |-> moved]
  /\ zoomed' = IF top THEN zoomed ELSE NoPane

AskSplit(target, second, top) ==
  /\ born < MaxPanes
  /\ Ask("spawning", target, second, top, NoPane)
  /\ UNCHANGED <<tree, active, panes, toRemove, pruneDue, walk>>

\* SplitSource::MovePane, of a pane of this tab: no await until it is inserted
AskMove(target, second, top, p) ==
  /\ p \in Listed
  /\ Ask("moving", target, second, top, p)
  /\ walk' = Walk(FALSE, {p}, FALSE)
  /\ UNCHANGED <<tree, active, panes, toRemove, pruneDue>>

\* Mutant of Site: beside the active pane
SiteActive == IF active < Len(leaves) THEN active + 1 ELSE 1

\* final_pane_index, where the target is still there
Site == Position(request.target)

\* The whole tree becomes one side of a new root
InsertAtTop(p) ==
  /\ spans' = (IF request.second THEN spans
               ELSE {<<s[1] + 1, s[2] + 1>> : s \in spans}) \cup {<<1, Len(leaves) + 1>>}
  /\ leaves' = IF request.second THEN Append(leaves, p) ELSE <<p>> \o leaves
  /\ active' = IF request.second THEN Len(leaves) ELSE 0

InsertAtLeaf(p, i) ==
  /\ leaves' = InsertAt(leaves, IF request.second THEN i + 1 ELSE i, p)
  /\ spans' = SpansSplit(i)
  /\ active' = IF request.second THEN i ELSE active

\* There may be no room for the split, whatever the state
NoSplit == UNCHANGED <<tree, active>>

Split(p) ==
  /\ zoomed = NoPane
  /\ request.target \in Listed
  /\ IF request.top /\ Len(leaves) > 1 THEN InsertAtTop(p) ELSE InsertAtLeaf(p, Site)

\* spawn_pane answers: the pane is registered, and inserted if it can be
PaneSpawned ==
  /\ Free
  /\ request.phase = "spawning"
  /\ born' = born + 1
  /\ Split(born + 1) \/ NoSplit
  /\ request' = NoRequest
  /\ UNCHANGED <<zoomed, gone, toRemove, pruneDue, walk>>

SpawnFails ==
  /\ Free
  /\ request.phase = "spawning"
  /\ request' = NoRequest
  /\ UNCHANGED <<tree, active, zoomed, panes, toRemove, pruneDue, walk>>

InsertMoved ==
  /\ ~walk.busy
  /\ request.phase = "moving"
  /\ Split(request.moved) \/ NoSplit
  /\ request' = NoRequest
  /\ UNCHANGED <<zoomed, panes, toRemove, pruneDue, walk>>

-----------------------------------------------------------------------------
(* Focus, zoom and the order of the panes.                                 *)

\* set_active_pane.  unzoom is the setting unzoom_on_switch_pane
SetActivePane(p, unzoom) ==
  /\ Free
  /\ p \in Listed \ {ActivePane}
  /\ zoomed # NoPane => unzoom
  /\ zoomed' = NoPane
  /\ active' = Position(p) - 1
  /\ UNCHANGED <<tree, panes, toRemove, pruneDue, walk, request>>

\* activate_pane_direction, whatever the layout answers
ActivatePaneDirection(i, unzoom) ==
  /\ Free
  /\ i \in DOMAIN leaves
  /\ zoomed # NoPane => unzoom
  /\ zoomed' = NoPane
  /\ active' = i - 1
  /\ UNCHANGED <<tree, panes, toRemove, pruneDue, walk, request>>

\* set_active_idx from a click or ActivatePaneByIndex, at an index iter_panes
\* gives: a zoomed pane hides the others and has index 0, wherever it stands
SetActiveIdx(i) ==
  /\ Free
  /\ i \in DOMAIN leaves
  /\ zoomed # NoPane => i = 1
  /\ active' = i - 1
  /\ UNCHANGED <<tree, zoomed, panes, toRemove, pruneDue, walk, request>>

ToggleZoom ==
  /\ Free
  /\ zoomed' = IF zoomed # NoPane THEN NoPane ELSE LeafAt(active)
  /\ UNCHANGED <<tree, active, panes, toRemove, pruneDue, walk, request>>

\* SetPaneZoomed with zoomed set, of the session handler
SetPaneZoomed(p) ==
  /\ Free
  /\ p \in Listed \ {zoomed}
  /\ zoomed' = p
  /\ active' = IF LeafAt(active) = p THEN active ELSE Position(p) - 1
  /\ UNCHANGED <<tree, panes, toRemove, pruneDue, walk, request>>

Rotated(clockwise) ==
  [i \in DOMAIN leaves |->
     IF clockwise THEN leaves[IF i = 1 THEN Len(leaves) ELSE i - 1]
                  ELSE leaves[IF i = Len(leaves) THEN 1 ELSE i + 1]]

\* rotate_counter_clockwise and rotate_clockwise
Rotate(clockwise) ==
  /\ Free
  /\ leaves' = Rotated(clockwise)
  /\ UNCHANGED <<spans, active, zoomed, panes, toRemove, pruneDue, walk, request>>

\* swap_active_with_index puts the active pane at the index, and what was there
\* at the active index.  PaneSelect, which calls it, un-zooms when it opens
SwapActiveWithIndex(i, keepFocus) ==
  /\ Free
  /\ Rezoomed \/ zoomed = NoPane
  /\ ActivePane # NoPane
  /\ i \in DOMAIN leaves
  /\ IF active < Len(leaves)
     THEN /\ leaves' = [leaves EXCEPT ![i] = ActivePane, ![active + 1] = leaves[i]]
          /\ active' = IF keepFocus THEN i - 1 ELSE active
     ELSE /\ leaves' = [leaves EXCEPT ![i] = ActivePane]
          /\ UNCHANGED active
  /\ UNCHANGED <<spans, zoomed, panes, toRemove, pruneDue, walk, request>>

-----------------------------------------------------------------------------
Removing ==
  \/ Keep \/ Take \/ EndWalk \/ PruneDeadPanes
  \/ \E p \in Pane : KillPane(p) \/ MovePaneOut(p) \/ RemovePane(p)
  \/ DomainWasDetached

Splitting ==
  \/ \E target \in Pane, second, top \in BOOLEAN :
       \/ AskSplit(target, second, top)
       \/ \E p \in Pane : AskMove(target, second, top, p)
  \/ PaneSpawned \/ SpawnFails \/ InsertMoved

Focusing ==
  \/ ToggleZoom
  \/ \E p \in Pane, unzoom \in BOOLEAN : SetActivePane(p, unzoom)
  \/ \E p \in Pane : SetPaneZoomed(p)
  \/ \E i \in Pane : SetActiveIdx(i)
  \/ \E i \in Pane, unzoom \in BOOLEAN : ActivatePaneDirection(i, unzoom)
  \/ \E clockwise \in BOOLEAN : Rotate(clockwise)
  \/ \E i \in Pane, keepFocus \in BOOLEAN : SwapActiveWithIndex(i, keepFocus)

Next == Removing \/ Splitting \/ Focusing \/ \E p \in Pane : Die(p)

Spec == Init /\ [][Next]_vars

-----------------------------------------------------------------------------
(* Properties.                                                             *)

\* Every variable has its type: panes are those spawned, the active index and
\* the indices a walk counts are numbers, a walk not under way has no state.
TypeOK ==
  /\ leaves \in Seq(1..born)
  /\ spans \subseteq Nat \X Nat
  /\ active \in Nat
  /\ zoomed \in Pane \cup {NoPane}
  /\ born \in Pane
  /\ gone \subseteq 1..born
  /\ toRemove \subseteq 1..born
  /\ pruneDue \in BOOLEAN
  /\ walk \in [busy : BOOLEAN, prune : BOOLEAN, asked : SUBSET (1..born),
               kill : BOOLEAN, at : Nat \ {0}, index : Nat, removed : SUBSET Nat,
               taken : SUBSET (1..born), focus : Pane \cup {NoPane}]
  /\ request \in [phase : {"none", "spawning", "moving"},
                  target : Pane \cup {NoPane}, second : BOOLEAN, top : BOOLEAN,
                  moved : Pane \cup {NoPane}]

\* No pane stands at two leaves of the tree.
NoPaneTwice == \A i, j \in DOMAIN leaves : leaves[i] = leaves[j] => i = j

Child(i, j) == i = j \/ <<i, j>> \in spans

\* However leaves are unsplit, split, rotated and swapped, the tree stays a proper
\* binary tree of distinct panes, as preorder_next relies on: every node has two
\* children that share its leaves, and the root stands over them all.
ProperTree ==
  /\ NoPaneTwice
  /\ \A s \in spans : \E k \in s[1]..(s[2] - 1) : Child(s[1], k) /\ Child(k + 1, s[2])
  /\ leaves # <<>> => Child(1, Len(leaves))
  /\ Cardinality(spans) = (IF leaves = <<>> THEN 0 ELSE Len(leaves) - 1)

\* The zoomed pane, which is drawn alone and takes all input, is in the tree:
\* no prune, split or move leaves a pane that is gone on the screen.
ZoomedListed == zoomed # NoPane => zoomed \in Listed

FocusStays == walk.focus \in Listed => LeafAt(active)' = walk.focus

\* Closing one pane leaves the focus where it was, and on a pane there is when
\* it was the one that had it (the active index of remove_pane_if).
FocusKept ==
  [][walk.busy /\ ~walk'.busy /\ Cardinality(walk.taken) <= 1
       => /\ FocusStays
          /\ walk.focus \in walk.taken /\ leaves # <<>> => active' < Len(leaves)]_vars

\* A pane that joins the tree stands on the side asked for of the pane the split
\* was asked for, though leaves came and went meanwhile, or on that side of the
\* whole tree, and has the focus as the second (split_pane, split_and_insert).
SplitLands ==
  [][\A p \in Listed' \ Listed :
       LET i == CHOOSE j \in DOMAIN leaves' : leaves'[j] = p
           top == request.top /\ Len(leaves) > 1
       IN /\ IF request.second
             THEN /\ IF top THEN i = Len(leaves') ELSE leaves'[i - 1] = request.target
                  /\ active' = i - 1
             ELSE IF top THEN i = 1 ELSE leaves'[i + 1] = request.target]_vars

\* A pane of the tree that died, or that the mux no longer knows, has a removal
\* coming: a prune, the task of a pane removed before, which prunes too, or the
\* walk of a prune that has not come to it, or whose removals will bring another.
NoneForgotten ==
  \A i \in DOMAIN leaves :
    leaves[i] \in gone =>
      \/ pruneDue
      \/ toRemove # {}
      \/ walk.busy /\ walk.prune /\ (walk.at <= i \/ walk.taken # {})

\* As tab.rs says of closed panes earlier than the active one, the active index
\* is shifted so that the pane that had the focus keeps it, if it is still there.
ActiveSurvives == [][walk.busy /\ ~walk'.busy => FocusStays]_vars
=============================================================================
