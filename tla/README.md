# Verification of the multiplexer core of arcterm

arcterm is a terminal emulator in Rust, a fork of WezTerm: a multiplexer of panes, tabs and windows, a GUI that
shows it, a server and a client that carry it over a network, and additions of its own (an AI pane, WASM plugins).
This directory holds TLA+ modules translated from the source, TLC runs that check them on small instances, and
TLAPS proofs of what matters most for every size. `PROJECT.json` maps each definition to its lines of code.

    tlc -workers 2 -config Mux.cfg MCMux.tla      # one run; the table below has them all
    tlapm Mux_proofs.tla                          # the proofs of one component

## The system

The main thread owns everything that is shown. It runs tasks from one FIFO queue; tasks are futures that give way
at each `.await`. Other threads (pty readers, child watchers, the client's network thread) only post tasks.

| Component | Code | State | Operations | Interacts with | Correct when |
|---|---|---|---|---|---|
| window tab strip | `mux/src/window.rs` | Vec of tabs, active index, last active tab | push, insert, activate, move, remove, prune | the registry, under its window lock | the shown tab is listed, and followed when others come and go |
| registry | `mux/src/lib.rs`, `domain.rs`, `activity.rs` | maps of panes, tabs, windows; live activities | spawn, split, move, close, detach, prune | pane threads post prunes; activities put prunes off | no pane twice or forgotten, no dead pane stays, no live one goes |
| tab pane tree | `mux/src/tab.rs`, `bintree` | binary tree of panes and split sizes, active index, zoom | split, remove, resize, swap, rotate | the registry | leaves tile the tab, active and zoomed panes are leaves |
| local pane | `mux/src/localpane.rs` | child process, exit behaviour | kill, is_dead, resize | its reader and watcher threads | dies once, closes as configured |
| client rpc | `wezterm-client/src/client.rs` | channel, serials, promises, connection | send_pdu, reconnect, detach | callers on the main thread; the server | every caller gets its own result, once |
| server | `wezterm-mux-server-impl` | per-client session, queue of messages to write | process_one, pushes | the server's registry through tasks | each request is answered once |
| client mirror | `wezterm-client/src/domain.rs`, `clientpane.rs` | maps of remote to local ids | attach, resync, detach | the local registry and rpc | mirrors the server's windows after each resync |
| line cache | `wezterm-client/src/pane/renderable.rs`, `compute_changes` of the server's session | rows: line, stale, fetching; what the session has sent | get_lines, apply changes, poll | rpc | a row taken for fresh is, or its change is on its way; the viewport comes to be the server's |
| promise, executor | `promise`, `window/src/spawn.rs` | task queues, wakers | spawn, spawn_into_new_thread | all | no wakeup is lost |
| front end | `wezterm-gui/src/frontend.rs`, `spawn.rs` | which mux window each GUI window shows; claims; whether a switch is on | reconcile, switch workspace, open, close, quit | notifications of the registry; GUI windows | the windows of the active workspace are shown, once each, and no others; quits when, and only when, nothing is left |
| AI pane, agent, overlays | `arcterm-ai`, `wezterm-gui/src/ai_pane.rs` | chat history; agent session | ask, execute, skip, retry, abort | an HTTP backend | steps run in order, once; history stays paired |
| WASM plugins | `arcterm-wasm-plugin` | plugin states, capabilities | load, dispatch, shut down | wasm engine | a plugin does what it was granted |
| the rest | `ratelim`, `rangeset`, `lfucache`, `wezterm-blob-leases`, `codec`, `tmux*.rs`, `ssh*`, `config`, `term`, `vtparse` | | | | see `PROJECT.json` |

The hard behaviours: requests that hold a tab, a window or a pane across an await while the user closes it; prunes
that are put off; a closed pane that is in no tree but still registered; answers out of order, late, or lost with
the connection; connections that come back with the same serials; a cache fed by pushes and by answers that nothing
orders; lists overtaken by messages about what they list; windows opened one await after the other while the set of
those wanted changes. `PROJECT.json` lists them under `hazards`, at
their lines, with the properties that cover them.

## Modules

| Module | Models | Composed of |
|---|---|---|
| `WindowTabs` | one window's tab strip | |
| `Mux` | the registry with its requests, queue, activities and pane threads | panes of a tab and tabs of a window as sets: their order is `WindowTabs`' subject, the tree `PaneTree`'s |
| `PaneTree` | one tab: tree, active index, zoom, a prune's walk, a split under way | the part of `Mux` that one tab sees |
| `RpcCalls` | what `send_pdu` promises its callers (abstract) | |
| `Rpc` | the client thread, the stream and the server's sessions (detailed) | `INSTANCE RpcCalls` as `ServesCalls` |
| `LineCache` | a remote pane's rows at the client, with the session that feeds them | server, two message channels and client in one module |
| `ClientMirror` | a client's windows, tabs and panes against a server's | server, channel, the client's domain and its mux |
| `FrontEnd` | GUI windows and the mux windows they show, workspaces | the mux's windows, its main thread, the user |
| `..._proofs`, for each module but `RpcCalls` | theorems | extend their module |
| `SequenceLemmas` | what the operators on queues and lists return | used by `PaneTree_proofs`, `ClientMirror_proofs`, `FrontEnd_proofs` |
| `MC...` | what TLC needs: symmetry, and what the instance is enough for | extend their module |

Each module defines a few operators no action uses, each above the one it is a mutation of (`FixupNoClamp`,
`ReturnSilently`, `ExecuteForLatest`, ...): a plausible mistake. Every property of a passing run is known to fail
when one of them takes the place of the code's behaviour (`mutants` in `PROJECT.json`).

### WindowTabs

`win` is the struct `Window` (`tabs`, `active`, `last_active`), positions counted from 1. `DoRemoveIdx` is
`do_remove_idx` with `fixup_active_tab_after_removal`. Pruning is the one operation with several steps, because it
removes one collected id after the other; `doomed` and `pass` are its local variables, and no other operation is
possible then, for the window lock is held. Which tabs are dead or unknown to the registry is any subset.

### Mux

`mux` holds the registry's maps, `proc` what `Pane::is_dead` will say of each pane (`held` is a pane kept open
after its child's exit), `queue` the tasks of the main thread that matter (prune, remove panes, check whether to
quit). A request is an `Op`: it starts before its await, keeping the window, or the tab and target pane, and
finishes after it, whatever has become of them. Every action that calls `prune_dead_windows` contains the prune,
with the set it sweeps chosen among those `remove_pane_if` can take: it may skip the sibling of a pane it removes
(`tab.rs:1604-1710`), so a sweep takes some of the panes it should, but never none. `RemoveTask` removes several
panes and then prunes once; the code prunes after each, and the last of these can take all that the earlier could.
A remote pane is spawned by the same action as a local one: what differs is that it has no reader, is never held
open, and goes when its domain is detached. `PaneThread` is the two threads of a pane, which post in either order.

### Rpc

A call goes from `unmade` through `waiting` to `answered`, `failed` or `abandoned` (its timeout dropped it). The
client thread serves a connection, reconnects, is leaving (its promises failed, its receiver not dropped yet), or
has ended. `smol::future::or` polls the channel first, so reading needs an empty channel. A stream that ended
(`eof`) has its answers read and is not replaced; a `broken` one may lose them, and is replaced if the kind of domain
allows it (TLS). A request read over a lost connection may still run; its answer goes to that session, which is
nowhere. Requests and answers under way are sets, not queues: the server answers in any order anyway.
That dropping the last receiver of an `async_channel` (2.5) closes the channel but leaves queued messages in it is
taken from that library, which is not in the repository.

### PaneTree

The tree is the sequence of its leaves and, for each inner node, the span of leaves under it (`spans`): the preorder
walk and a leaf's index, which is what `active` is, come out as arithmetic, and a shape that is no binary tree can be
written down, which `ProperTree` then excludes. A leaf that goes widens no span and removes its parent's
(`SpansWithout`). `walk` is the loop of `remove_pane_if`, one step per leaf, for panes die while it runs and it asks
each one when it comes to it. The rest of the tab's operations hold its lock throughout and are one step each.
`request` is a `split_pane` across its await; whether there is room for the split is a choice, as sizes are left out.
`NoneForgotten` is what justifies `Mux` in letting a sweep take only some of the dead panes: those it leaves have
another prune coming.

### LineCache

`screen` is the pane, `session` what `PerPane` remembers to have sent, `task` a `compute_changes` on the server: one
step per reading of the pane, since the reader thread may write between two of them. `pushes` are in order,
`fetches` a set, for each is a request of its own whose answer overtakes whatever it likes. A row's text is the
seqno at which it was written. `client.lines` has the four kinds of a `LineEntry`, or none; the `Instant` of a fetch
is its tag. The rate limiter's verdict is a choice. `Drop` loses everything under way and starts a session that
knows of nothing. `Images = TRUE` lets `hydrate_lines` put off a push (`clientpane.rs:143`): `NothingLost` then
fails, for a later push without images is applied first; run and proof have `FALSE`.

### ClientMirror

Server and client name panes, tabs and windows each on their own; a local name is here a pair of the remote one and
a number, as a client may come to make a second one. `local` is the client's mux together with the maps of
`ClientInner`. `inbox` is what the server has sent and what the client's main thread has queued, in one sequence: a
prefix of what was sent has arrived, so a task posted now (`posted`) comes after any such prefix, and after those
posted before. A message about a pane makes two hops (`client.rs:107-192`). `process_pane_list` is one step
(`Synced`): it has no await. Requests for lists and kills are served in order, spawns and splits may be overtaken.
The client also attaches, while its user may close what is there already.

The server's mux and its trees are apart, as in the code. `KillPane` and the end of a program with
`ExitBehavior::Close` call `remove_pane`, which takes the pane from the registry (`told`: that is when `PaneRemoved`
is sent) and then prunes the trees; the prune does nothing while an `Activity` lives, that is while a window is being
opened (`opening`), by a request of this client or by others. Until a later prune (`ServePrune`), `ListPanes` reads
the tree and names a pane that `told` has (`revived` remembers which). A tab that closes a pane, or whose prune finds
it dead, lets it go from the tree first (`PaneExits`, `RemovePane`). The client polls the panes it paints and takes
one for dead if the server's mux has it no more (`Polled`); it counts as an act of the user, since a pane that is
not painted is not polled, and no fairness is assumed of it. Left out are that others move a pane which the mux has
removed while a tree still holds it (`move_pane_to_new_tab` would register it again), and moves made by this client.
At most one window of others is being opened at a time: one is enough to put prunes off.

Where the code panics, the model stops (`crashed`). `NoRoom = TRUE` lets a split made by the server fail to fit here;
the runs have `FALSE`. A remote pane has at most `Copies` local names at a time; `NamesLeft` says that one is left
where a handler may need it, and never holds back a state of the run.

### FrontEnd

`known`, `spawned` and `switching` are the three fields of `GuiFrontEnd`, `shows` the `mux_window_id` of each
`TermWindow`. `tasks` is the main thread's queue as far as it matters; a future that waits is in `opening` or
`starting`, and its continuation runs only behind what is queued (`MayAct`). `ReconcileWorkspace` is the synchronous
part of `reconcile_workspace`, `Open` the task it ends with. Two reconciling tasks in a row stand as one: the second
finds nothing to do. A GUI window cannot be used before `record_known_window`. New GUI windows take identifiers in
any order: known ones are sorted by theirs. A mux window has panes or none; `counted` is `num_panes_by_workspace`,
kept as stale as the code keeps it. The default workspace is an ordinary one, and the process outlives its windows.

## Runs

| Run | Module, cfg | Instance | Shows |
|---|---|---|---|
| `window_tabs` | `MCWindowTabs`, `WindowTabs.cfg` | 4 tabs, both settings; 1 008 states | `TypeOK`; `NoTabTwice`; `ActiveIsListed`: a window with tabs shows one; `ActiveTabFollowed`; `OrderKept` |
| `mux` | `MCMux`, `Mux.cfg` | 3 panes, 2 tabs, 2 windows, 3 requests, users wait for an empty queue; 336 251 states | `TypeOK`; `PaneInOneTab`; `ListedTabsKnown`; `PruneNotLost`: garbage has a prune coming |
| `mux_detach` | `MCMux`, `MuxDetach.cfg` | 2 panes, one of a detachable domain, resizes may fail, queue up to 2, fairness; 30 829 states | `PruneSparesLiving`; `DeadPanesLeave` |
| `rpc` | `MCRpc`, `Rpc.cfg` | 3 calls, one with a timeout, 2 connections, fairness; 68 996 states | `TypeOK`; `NoStrayAnswer`; `CallsServed`: `Rpc` implements `RpcCalls`; `SentCallsReturn` |
| `line_cache` | `MCLineCache`, `LineCache.cfg` | 2 rows, viewport of 1, 2 fetches, 2 pieces of output, 1 lost connection, fairness; 187 646 states | `TypeOK`; `NothingLost`; `NeverWaitsInVain`; `EventuallyShown` |
| `pane_tree` | `MCPaneTree`, `PaneTree.cfg` | 3 panes, two of a detachable domain; 524 439 states | `TypeOK`; `ProperTree`: a binary tree of distinct panes; `ZoomedListed`; `NoneForgotten`: a dead pane has a removal coming; `FocusKept`; `SplitLands`: where it was asked for |
| `client_mirror` | `MCClientMirror`, `ClientMirror.cfg` | 2 panes, tabs and windows, 3 events, fairness; 288 963 states | `TypeOK`; `OnePanePerRemote`; `KillsOnlyAsked`; `EachShown`; `GoneLeaves` |
| `front_end` | `MCFrontEnd`, `FrontEnd.cfg` | 3 windows, 2 GUI windows at a time, 2 workspaces, 4 events, fairness; 582 829 states | `TypeOK`; `ActiveShown`, `OthersHidden`: at rest the GUI shows the active workspace; `NotLeftEmpty`; `SwitchPending`; `ComesToRest` |
| `window_last` | `MCWindowTabs`, `WindowTabsLast.cfg` | 4 tabs | violated: `PreviousTabActivated` |
| `mux_quit` | `MCMux`, `MuxQuit.cfg` | 2 panes, 2 requests | violated: `QuitOnlyWhenEmpty` |
| `mux_stays` | `MCMux`, `MuxStays.cfg` | 2 panes, 1 window, fairness | violated: `QuitWhenWindowsClosed` |
| `rpc_hang` | `MCRpc`, `RpcHang.cfg` | 2 calls, no reconnection, fairness | violated: `EveryCallReturns` |

Bounds. Four tabs are enough for a removed tab, the shown one, the last active one and one that moves, with
neighbours on both sides of each. Two windows and tabs and three panes let a pane move, split, die and be closed
while the other tab does something else; what two requests can do to each other needs two, the third is for one
that holds an activity meanwhile. `MaxQueue` bounds how full the queue may be when a user or a thread acts; tasks a
task posts come on top. Identifiers and requests are used once, so histories are finite; systems that have used
all stop, hence `CHECK_DEADLOCK FALSE`. Two connections are the first point where a serial returns; three calls
give an abandoned one, one of the old connection and one of the new.

Three panes make every shape in which `remove_pane_if` goes on after an unsplit: the sibling a leaf, or a node, on
either side. Two rows let the viewport scroll past one, and two fetches let one answer for a row that the other asked
for; a seqno is a version, so two tell old from new. Two panes and tabs let a split, a move and a spawn fall together,
and `GoneLeaves` without its exclusion fails with two events; the safety properties of `ClientMirror` were also
checked with four events (7 047 574 states). Two GUI windows and three windows in two workspaces give one too many and
one too few on each side of a switch; `FrontEnd` was also checked with three GUI windows, with the same bounds
otherwise (1 035 538 states). `MaxEvents` bounds users, other clients and programs together; what goes on by itself is
not bounded. `MaxQueued` and `Copies` bound how far behind a thread may be.

Symmetry is declared where invariants only are checked, or action properties on interchangeable tabs, and nothing
chooses among the permuted values.

Fairness. `Mux`: the main loop runs its tasks (`SpawnQueue` is served in order), a program that is being spawned
starts or fails, and the reader of a pane ends once the child is gone. A child need not exit, and nobody need close
anything. `Rpc`: the client thread runs, the server runs what it has read, and an answer is not overtaken for ever by
messages nobody asked for, since a stream is in order. No fairness is assumed of callers, timeouts or the stream's
failures. A server that stops answering without closing the stream is thereby excluded: all calls but
`GetCodecVersion` have no timeout and would wait for it. `DeadPanesLeave` holds for finitely many requests: an endless
series of overlapping activities would put pruning off for ever. `LineCache`: both main threads run what is queued for
them in turn, hence strong fairness where a step waits for its turn behind others; the client polls, and paints the
viewport when told of output or of a fetch's end; every fetch is answered or fails, output and lost connections are
finite. `ClientMirror`: the client's main thread runs its queue (weak fairness of `RunHead`, with its `ENABLED`
written out as `CanRun`), the server serves what it was sent and runs its prunes, a window being opened is opened or
given up, and a live pane nobody shows writes something sooner or later, as the prompt of a new shell does: without
that, nothing would tell a client of a split. `FrontEnd`: the main thread runs its queue, openings and spawns end, and
windows without panes are pruned; users do nothing for sure.

## What the violated runs show

* `window_last`: with `switch_to_last_active_tab_when_closing_tab`, closing the active tab activates the tab that
  shifts into the last active tab's old index when that one stands to the right. The same document says that
  otherwise "the tab to the left of the active tab will be activated"; the code shows the right neighbour, if any.
* `mux_quit`: the task posted when the mux became empty ends the program though a window was opened meanwhile.
* `mux_stays`: a window closed while its program is being spawned leaves the program's pane registered and shown
  nowhere; the mux is never empty and the process does not end while that child lives.
* `rpc_hang`: a request queued while the client thread leaves is neither answered nor failed.

Some things one would like to state do not hold, and have no run of their own:

* `ClientMirror!WindowThere`, the `expect("no such window!?")` of `process_pane_list` (`domain.rs:624`). A client is
  attached; another one opens a tab, so that this one asks for the list again; its user closes the window, which
  takes it from the mux but not from the map that the pending list will look in; the list comes, names the window,
  and the client panics. Detaching the domain, closing the last tab or pane, or a prune does the same. The second
  `expect` (641), of the primary window, goes the same way while attaching.
* `ClientMirror!GoneLeaves` without `revived`: a pane that the server has removed is not shown for ever. While
  another client opens a window, the pane's program ends: it is removed and `PaneRemoved` is sent, but the prune is
  put off (`mux/src/lib.rs:898`). The message comes to a client that does not know the pane yet, say while attaching,
  and changes nothing there. The client's list is served next: it names the pane, for the tree still has it. The
  prune that comes with the window then takes it from the tree and tells nobody, and the client makes a pane for it.
  Only a poll while it is painted finds it dead, and only a later prune of the client's takes it away. `GoneLeaves`
  leaves out panes that a list names after they were told.
* `PaneTree!ActiveSurvives`, that a walk leaves the focus on the pane that had it if that is still there. Three
  panes as ((2, 3), 1), the focus on 3 and 1 dead; 2 dies after the walk has come to it, and the active index ends up
  past the last leaf: `get_active_pane` is `None`. With four panes no race is needed: in (2, ((3, 4), 1)) with 4
  active, detaching the domain of 1 and 3 moves the focus to 2.
* `PaneTree!ProperTree` with `Rezoomed = TRUE`: if the tab is zoomed again under PaneSelect's labels and rotated, the
  swap writes the zoomed pane at the active index (`tab.rs:1815`) and another pane is in the tree no more.
* Without `Stranded`, `FrontEnd!ActiveShown`: "present a GUI window for each MuxWindow that is present in that
  workspace" (`docs/recipes/workspaces.md:12-13`). Workspace A has window 1. Switch to B, whose window 2 takes over
  the GUI window; close that. Window 2 is killed, A is active again, but window 1 is still in `spawned_mux_window`,
  for the claim released was the one on window 2: A stays invisible. Or: A has 0 and 1, B has 2 and 3, each pair in
  two GUI windows; in B one exits; back in A only one of 0 and 1 is shown.
* Without `~mux.moved`, `FrontEnd!NotLeftEmpty`: `set_workspace` moves the last window out of the active workspace.
  The panes are not counted again, so the workspace counts as full, its GUI window is closed, and none is left.
* The converse of `SwitchPending`: while a switch is pending the flag is on. A reconciling task posted before the
  switch clears `switching_workspaces` when it ends; a notification handled before the spawn then finds the new
  workspace empty, goes back, and the new window lands in the old workspace.

Two smaller things seen on the way: `rotate_clockwise` of the Lua tab object calls `rotate_counter_clockwise`
(`lua-api-crates/mux/src/tab.rs:120-123`), and a client's `split_pane` sends the local id of the pane to be moved
as `move_pane_id`, which the server takes for one of its own.

## Proofs

TLAPS checks these for all sets of tabs, panes, windows, workspaces, rows, requests and calls, any bound on queues
and events, and any number of connections. Assumptions on constants are the named `ASSUME`s of the modules; TLC
evaluates them too.

* `WindowTabs_proofs`: `ShownTabAlways`, `ShownTabFollowed`. The invariant `GoodStrip` adds to `ActiveIsListed`
  that the index of an empty strip is the first, where the next tab will land, and holds of every value the helper
  operators return, so each operation is a lemma about an operator.
* `Mux_proofs`: `RegistryAlwaysGood` (`TypeOK`, `PaneInOneTab`, `ListedTabsKnown`), `LivingSpared`
  (`PruneSparesLiving`) and `NoPruneLost` (`PruneNotLost`, if a resize never fails: with `ResizeMayFail` a move can
  leave an empty tab and no prune coming, as `move_pane_to_new_tab` does). A first part says
  what each operator does to the registry's fields, a second what it preserves; what the proof adds is where a
  pane can be: in the tree of one tab, in a task that removes it, or kept by a request.
* `Rpc_proofs`: `StrayNever` (`NoStrayAnswer`) and `CallsAlwaysServed` (`CallsServed`, the refinement). The
  invariant says that a serial of the current connection is, beside its promise, in one request or in one answer,
  for the same call, and that a request not yet run is in one place.
* `LineCache_proofs`: `TypesHold` (`TypeOK`), `NoneWaitsInVain` (`NeverWaitsInVain`) and `NeverLost` (`NothingLost`,
  without images), for any rows, fetches, output and lost connections. The types rest on what exists: nobody speaks
  of a row below the end of the screen (`Base`). A row's tag finds its fetch because tags are distinct (`Asked`).
  Nothing is lost because all that may yet become a row's text (in the task, a push, an answer, or under a fetch
  that fails) is the present text or a change is on its way (`Told`).
* `PaneTree_proofs`: `PaneTreeTyped` (`TypeOK`), `TreeAlwaysProper` (`ProperTree`), `ZoomedAlwaysListed`
  (`ZoomedListed`), `NeverForgotten` (`NoneForgotten`), `FocusAlwaysKept` (`FocusKept`) and `SplitAlwaysLands`
  (`SplitLands`). The invariant is in layers. `Typed` says that spans are nested, which is in no property: it is why
  a leaf has one node right above it and stands at an end of that node's span, so that the node goes with the leaf
  and every other one keeps two children. `Standing` says that no pane is at two leaves and that the pane being moved
  is at none; `Remembered` that a removal is coming for every pane that is gone, in the tree or on its way back into
  it; `FocusKnown` what a walk that has taken one pane knows of the focus. All but `Typed` are proved for
  `~Rezoomed`: swapping a zoomed pane does put it into the tree twice, so without the hypothesis they are false.
* `ClientMirror_proofs`: `NoSecondCopy` (`OnePanePerRemote`), `KillsAreTheUsers` (`KillsOnlyAsked`) and `MirrorTyped`
  (`TypeOK`). `Justified` says that every message, request and task says what is so of the server's panes, whatever
  overtook it, and that the answer to a spawn or split is not behind a list with the same pane: that is what keeps
  anyone from making a second pane. `Kept` adds the words of the messages, the shape of the client's mux and a count:
  each activity held for a request (`busy`) is one request at the server or one answer in the inbox. `Registered`
  is what the types of `told`, `revived` and `opening` need: a request to kill names a pane (`Justified`), and only
  requests with the server open windows.
* `FrontEnd_proofs`: `SwitchAlwaysPending` (`SwitchPending`), `OthersAlwaysHidden` (`OthersHidden`),
  `ActiveAlwaysShown` (`ActiveShown`), `NeverLeftEmpty` (`NotLeftEmpty`) and `FrontEndTyped` (`TypeOK`). What the GUI
  shows is claimed of the state at rest, so the invariant says what leads there. `SwitchesKept`: a task that spawns
  for a switch knows where to switch to, and nothing takes a switch from the queue unmade. `Agree`: what a GUI window
  shows is what `known_windows` says once it has been told all that is queued for it. `Rested`: unless a reconcile is
  coming, known windows are of the active workspace and distinct (`Settled`), all of that workspace are known, claimed
  or about to be opened (`Covered`), and it is not empty while another lives (`Inhabited`).
* `WindowTabs_proofs` also: `OrderAlwaysKept` (`OrderKept`). Removing or inserting keeps the order of what stays, and
  a move is one of each, with the active tab.
* The type invariants of the other proved modules: `TabsTyped`, with `NeverListedTwice` (`NoTabTwice`), in
  `WindowTabs_proofs`; `RegistryTyped`, with `ListedAlwaysKnown` (`ListedTabsKnown`), in `Mux_proofs`; `RpcTyped` in
  `Rpc_proofs`.

So each safety invariant and each action property of the passing runs is the subject of a theorem. Of the sets only
`ClientMirror`'s panes are assumed finite, as a list that the server sends is.

Only model-checked: the properties under fairness (`DeadPanesLeave`, `SentCallsReturn`, `EventuallyShown`,
`EachShown`, `GoneLeaves`, `ComesToRest`): their proofs need `ENABLED`, which the prover does not do.

## Plan

In order, most important first; the modules are written to be proved about as well as checked.

1. Done: `WindowTabs`, `Mux`, `RpcCalls`, `Rpc`, `LineCache`, `PaneTree`, `ClientMirror`, `FrontEnd`.
2. Done: their safety properties, proved. Next, where two modules say the same of one thing: that `PaneTree`
   implements the part of `Mux` that one tab sees (a sweep of `Mux` is a walk of `PaneTree`), so that the order and
   the shape left out of `Mux` are shown to be nothing it depends on.
3. `Identity`: `with_identity` held across awaits, sessions after a reconnect.
4. `SpawnThread`: the result channel and waker of `spawn_into_new_thread`; liveness (expected not to hold).
5. tmux control mode: the queue of commands, matching answers, and lock order.
6. `AgentSession`, the pty reader's holding and coalescing, rate limiter and range sets as operators.

Not modelled, and not planned: rendering, fonts, input, Lua, configuration reloading, escape-sequence parsing and
terminal emulation (data, tested by examples), ssh and tls connections, the wasm engine, HTTP backends, codec
layout, packaging.
