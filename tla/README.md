# yny, verified

A verification project for *yeet-and-yoink* (`yny`): TLA+ models of the parts of the
program whose behaviour depends on the order in which several actors do things, TLC
configurations that check them on small instances, and TLAPS proofs of what holds for all
instances. Paths are relative to the repository (`src/src/engine/...` is the crate's
`src/engine`, `src/plugins/...` its zellij plugin).

## 1. The system

`yny <focus|move|resize> <direction>` is one short-lived process per key press. It asks
the *window manager* which window is focused, resolves the *chain of app adapters* behind
that window (an editor inside a multiplexer inside a terminal), and asks them, innermost
first, whether they handle the direction. If none does, a *transfer* into the neighbouring
window is tried, and at last the window manager acts on the whole window. Nothing is
locked: the user, the applications, the compositor and other `yny` processes act between any
two calls, and every call may fail. Some adapters keep state between processes: a file, a
long-running host process, a plugin.

| part | state | operations | talks to | what is hard | what makes it right |
|---|---|---|---|---|---|
| move session (`engine/actions/{orchestrator,context,movement,merge,probe,tearout}.rs`) | only within a request: source window, layer, captured content, ids before a tear-out | `execute_move_session` and what it calls | window manager, adapters | probes move the focus and must move it back; calls fail after they took effect; the new window appears late or never | one effect per request; the window placed or moved is the right one; no pane is lost; it ends |
| transfer pipeline (`engine/transfer/`) | table of domains, converters | `transfer_between`, `transfer_within` | adapters as domains | adapters resolved for one window are asked about another; one adapter's capture is handed to another | what moves is what the source showed, within one kind of application |
| focus and resize sessions, chain, policy, configuration (`orchestrator.rs`, `focus.rs`, `resize.rs`, `engine/resolution/`, `config.rs`) | the loaded configuration | one pass over the chain of layers, each bound to its section's policy, then the window manager | process tree, terminals | tabs are told apart by what their shells run, read at another moment than the foreground process | the chain is that of the tab looked at; no layer does what its section forbids |
| topology and contracts (`engine/topology.rs`, `engine/contracts/`) | none | pure decisions over rectangles and neighbours | | edges, overlaps, the line between panes | what is decided can be carried out |
| window-manager layer (`engine/wm/`) and niri, i3, paneru, yabai | none | focus, move, resize, spawn, windows; capability plans | compositor IPC | differing capabilities; a tile index that is stale when used | a plan never needs a primitive that is missing; a torn-out window ends beside its source |
| summon (`niri.rs` 408-620) | `summon-state.json` | `focus-or-cycle`, `--summon` | niri | a file read, changed and written by several processes, a death in between, workspaces that vanish | a window goes back to where it first came from |
| VS Code (`adapters/apps/vscode.rs`) | `vscode-state.json` | focus, move, tear out, merge | remote-control socket, clipboard | the active group cannot be asked for; commands have no answer; what a group holds is learnt through the clipboard | the belief contains the truth; a group arrives whole; the clipboard is given back |
| browser bridge (`adapters/apps/librewolf.rs`, `native_bridge`) | pending table, numbers, threads; the socket's file | calls over a socket, native messages | browser extension | threads, four timeouts, restarts, two hosts and one path | answers reach the caller they are for; a path leads to the host that serves |
| browser tabs (`librewolf.rs`, `chromium.rs`) | none | focus, move, tear out, merge of a tab | the bridge | pinned tabs; a strip that changes between question and command | a tab goes one step or leaves |
| zellij (`terminal_multiplexers/zellij.rs`, `plugins/zellij-bridge`) | the plugin's tabs, clients and pending restore | focus, move, break a pane out, take the source terminal back, merge | zellij's command line and events | events late and out of order, a command killed but carried out; panes counted in a dump that leaves some out | the source gets its tab back, the new terminal shows the pane, probing leaves the focus |
| tmux (`tmux.rs`) | a 100 ms cache of clients | focus, swap, tear out, merge | tmux | the cache outlives the change it does not see; sessions of a group share windows | commands act on the pane meant; killing a session takes no pane along |
| kitty and wezterm as multiplexers (`kitty.rs`, `wezterm.rs`, `engine/contracts/mux.rs`) | wezterm: `merge.cmd` | focus, move, tear out, merge | the emulator's command line | the emulator learns of the compositor's focus late; kitty is asked for neighbours by focusing them | what leaves is the pane looked at; what is merged comes into what the target shows |
| nvim (`nvim.rs`) | none | focus, tear out, merge | msgpack over a socket, the terminal's multiplexer | one instance is quit before another has opened the buffer; waits that give up | the buffer is open somewhere; the file is opened when its owner is gone |
| Emacs (`emacs.rs`) | none | focus, move, tear out, merge | `emacsclient --eval` | Emacs' idea of the focus lags | no buffer goes from the screen |
| process runtime (`engine/runtime/`) | macOS: a table kept for a while | the tree of processes, their sockets and terminals | `/proc`; `ps`, `lsof` | children die while they are read; what `ps` shows has lost its bounds | the first process that answers is the nearest |
| alacritty, foot, ghostty; CLI, logging | none | launch prefixes; output | | | |

`PROJECT.json` names every part with its status, and under `hazards` the lines at which
something can go wrong that a test would hardly reach.

## 2. Modules

| module | models | spec |
|---|---|---|
| `MoveContract` | what one `yny move` promises, whatever keeps the promise | abstract |
| `MoveSession` | the move session, step by step | refines `MoveContract` |
| `MoveSession_proofs` | `TypeCorrect`, `MovesOnce`, `RefinesContract`, `ClosesOnlyEmpty`, `NothingIsStranded`, `FocusAlwaysComesBack`, `AlwaysPlacesTornOut`, `ProbeIsUndone` | proofs |
| `RemoteCalls` | what a bridge for remote commands promises | abstract |
| `BrowserBridge` | callers, host threads, pipes, extension | refines `RemoteCalls` |
| `BrowserBridge_proofs` | `CallersGetTheirOwnAnswers`, `HostCarriesCalls`, `EntriesAlwaysOwed`, `NeverOvertaken`; `HostSocket`'s `PathLeadsToHost`; `BrowserTabs`' `TabsGoOneStep` | proofs |
| `HostSocket` | hosts that start, and the socket's path | |
| `BrowserTabs` | operations on the tabs of a browser | |
| `NativeMessages` | the framing of messages between browser and host | functions |
| `ZellijTearOut` | zellij's tear-out: adapter, plugin, server, user | |
| `ZellijTearOut_proofs` | `SpawnsForDetachedPane`, `TornOutPaneIsShown` | proofs |
| `ZellijPanes`, over `ProcessTree` | zellij's other operations | |
| `NvimTransfer` | tear-out and merge of a buffer | |
| `NvimServers`, over `ProcessTree` | the server behind a terminal, what is decided from its windows, quoting | functions |
| `MacProcesses`, over `ProcessTree` | processes as macOS shows them | functions |
| `TmuxPanes` | tmux's operations over the cache | |
| `MuxPanes`, over `SplitLayouts` | kitty and wezterm as multiplexers | |
| `EmacsFrames`, over `SplitLayouts` | Emacs | |
| `PaneGeometry` | neighbours among rectangles, decisions, text as keys | functions |
| `VscodeFocus` | focus and move calls, their file, VS Code | |
| `VscodeFocus_proofs` | `BeliefHoldsActive`, `PressesReachEdge` | proofs |
| `VscodeMerge` | merges through the clipboard, and ports | |
| `Buffers_proofs`, over `NvimTransfer`, `TmuxPanes` and `VscodeMerge` | `NoCheckedEditIsLost`, `SomeNvimHoldsTheBuffer`, `SourceEndsBeforeTargetOpens`; `MergesEndNoPane`, `ActsOnRecentPane`; `MergeGivesClipboardBack`, `MergedGroupIsWhole` | proofs |
| `AppChain`, over `AppConfig` | focus, move and resize within a window | |
| `TransferRouting` | the transfer between two windows | |
| `Commands_proofs`, over `AppChain`, `TransferRouting` and `NiriSummon` | `ActsOnTabShown`, `SectionsAreHonoured`, `ResolvesFocusedStack`, `OnlyTheSourceMovesAlways`; `OriginsAlwaysKept`, `AlwaysComesHome` | proofs |
| `WmBackends` | what window managers declare; placing a torn-out window | |
| `Layouts_proofs`, over `WmBackends` and `EmacsFrames` | `TornOutLandsBeside`; `CallsKeepBuffers` | proofs |
| `WindowLists` | windows as the window managers report them | functions |
| `WindowCycle` | which window `focus-or-cycle` goes to | functions |
| `NiriSummon` | summon calls, their file, the compositor | |
| `MC_*` | layouts, sets and symmetries for TLC; facts about functions | |

Small components that never call each other share a run: `MC_Buffers`, `MC_Commands` and
`MC_BrowserBridge` choose in the initial state which `part` runs, and the others stay in one of
their first states. A `TypeOK` that no run lists is for a reader. Functions are checked where
they are used, by `ASSUME`s of the `MC_*` modules that TLC evaluates over all small inputs
(section 3).

The `map` of `PROJECT.json` gives the lines each definition stands for.

### MoveSession

State: the compositor (`windows`, `used` ids, `focus`), the content (`at[p]`: the window that
shows pane `p`; `expected`: panes whose window will open), the request (`pc`, `s`, `probe`,
`offset`, `pre`, `polls`), the history `h` the properties speak of, and three counters.
Each call of the code to the window manager or an adapter is one step:

| actions | code |
|---|---|
| `Begin`, `BeginFails`, `LayerDecides`, `LayerFails`, `ChainExhausted`, `Unmerged` | `with_focused_app_session`, `attempt_focused_app_move`, `handle_move_decision` |
| `ProbeFocus`, `ProbeRead`, `ProbeRestore`, `ProbeMatch`, `Refocus` | `DirectionalWindowProbe`, in its two focus modes |
| `PrepareMerge`, `InPlace*`, `MergeInPlace*`, `Merge`, `MergeFails`, `CleanupFocus`, `CleanupClose` | `attempt_passthrough_merge`, `probe_in_place_target_for_adapter`, `cleanup_merged_source_window` |
| `Snapshot`, `MoveOut`, `Spawn`, `Poll`, `PollsDone`, `FocusNew`, `Place*` | `execute_app_tear_out`, `wait_for_tearout_window_id`, `place_tearout_window` |
| `RouteRead`, `Transfer`, `WmMove` | the rest of `execute_move_session` |
| `UserFocuses`, `UserCloses`, `StrangerAppears`, `WindowAppears`, `EmptyVanishes` | the world |

Abstractions. The screen has no geometry: focusing in a direction lands on any window, or
nowhere. An adapter is its profile (`AdapterProfile`): what `capabilities()`, the policy and
`merge_execution_mode` say, and whether its panes are all its window shows; within that it
decides as it likes. The transfer pipeline is one step that applies, refuses or fails before
or after its effect. A window without a process has an empty chain. A restored pane focus is
an offset per layer, since nobody asks the layers where they are.

### BrowserBridge

Callers (`client`, `source`), one handler thread per accepted call (`handler`, `ids`, `chan`), the
shared `HostState` (`nextId`, `pending`, `running`), the reader thread, the accept loop, the two pipes
(`requests` in order; `replies` in any order, since the browser's commands are asynchronous) and the
extension (`up`, `garbled`, `gone`). A write may fail while the extension is still there; `lost` is
history, the commands of which or of whose answer nothing will come any more. A handler's life is numbered,
entered, written, waiting, withdrawn or answered, each a step, as the lock is released between them.
`MaxStarts` bounds the host processes started one after another. A timeout may fire as soon as its clock
runs, so that all orders of the 2 s in the caller and the 2 s in the host happen. Hosts alive at once
are `HostSocket`'s.

### HostSocket and BrowserTabs

`HostSocket`: a starting host looks for the path, asks who is behind it, removes it and binds
its own, in four steps; a host that ends leaves the path behind. `raced` is history: two hosts
were starting at once, and then one may remove what the other has just bound.

`BrowserTabs`: windows as strips (tabs, how many of the first are pinned, the active one from
0), the window the browser takes for focused and the one the compositor has focused, and one
operation: `BeginTabs`, `AskDecision`, `AskAgain`, `PrepareTab`, `SendCommand`, `TabGoes`,
`TabEnds`. Every operation asks for the tabs again before its command; a call that fails may
have its command carried out later (`late`), as `RemoteCalls` has it. `chromium.rs` is the same
with other names. The extension is not in the repository: that it carries a command out on the
window it takes for focused, and refuses to mix pinned tabs with others, is assumed.

### ZellijTearOut

The adapter's `move_out` reads pane, tab and client count, sends the break, looks whether it happened
(`MaxChecks` stands for 4 looks) and has a terminal spawned. The plugin carries out the break (sent up
to three times), and then, at every answer to `list_clients` and every timer, looks whether a client
more than the baseline is there, whether the source is still in the new tab, and takes it back
(`MaxAttempts` stands for 20). The plugin sees the server only through `TabUpdate` and `ListClients`. A
session starts with any tabs and panes (`Homes`), any of them shown. `Begin` is a tear-out from several
panes, or a move that a lone pane passes through; zellij may refuse a break (`Refused`). The user
switches tabs and opens new ones (`UserSwitches`, `UserOpens`); other clients come and go. No pane is
closed, or moved by the user. The looks count the panes of the tab that is shown, which need not be the
source's (`zellij.rs:1100`): `h.strayed` notes that a tear-out began in a tab of one pane, or that
another tab came to be shown before its pane was alone. Tabs are numbered as they are opened
(`h.opened`), so that there may be any number of them. Assumed: `switch_tab_to` and `TabInfo.position`
count alike up to the code's `+ 1`.

### ZellijPanes and ProcessTree

Finding the session and the plugin, asking for neighbours, focus, `move-pane`, writing to a
pane, the merge with the plugin's part of it. Each step is a zellij command of its own, answered
for whichever of two clients zellij picks. A pane's number is its line in a layout dump, which
leaves out the panes whose line opens a block (`blocks`); zellij and the plugin count from 0.
`ProcessTree` has what is read of other processes as functions of a table: the tree below a
process, the first that answers, the socket it has open, who is in front on a terminal.

### NvimTransfer

Instances (`ed`: what is open, edited, current; `torn` if a tear-out started it; `dying` after a quit;
`mute` if its socket does not answer), panes of the terminal and a split that shows late, and one call:
a tear-out (`mux`, `split`, `pane`, `ready`, `cleanup`) or a merge (the snapshot, then `pane_read`,
`swap_read`, `target`, `close`, `exit`, `swap`, `open`, `pane_exit`), a step for each command, so that
the user may go elsewhere between the snapshot and the read of the pane that is told to exit later
(`hist.elsewhere`). That `exit` was typed at an editor is recorded (`hist.mistyped`); what the editor
makes of it is not modelled. The waits give up after `MaxLooks` (20 and 40 in the code). The user edits,
changes buffers or focuses another pane; a launched nvim starts late or never, and its shell reads what
else was typed into the pane meanwhile. A focus or a move between nvim's own windows is one evaluation,
which nvim carries out.

### NvimServers, MacProcesses, WindowCycle, NativeMessages

Functions. `NvimServers`: the sockets tried for a terminal, in order, and the first that answers;
what focus and move decide from the windows an instance shows; a path quoted for a shell, for Vim and
for Lua, read back by readers of each. `MacProcesses`: what `ps` and `lsof` print of the same tables of
processes `ProcessTree` reads, with the table kept between calls. `WindowCycle`: which windows match,
in which order, and whether to focus, summon or start a program. `NativeMessages`: four bytes of length
and the body, with `Width` bytes of `Base` values for the four of 256.

### TmuxPanes

The server: windows held by groups of sessions, active panes, clients. The process: the cache of
clients, read again after `Ttl` ticks, and one operation (`focus`, swap, `move_out`, merge), a
step for each command of tmux. A tear-out makes a session of the source's group, which a merge
kills again. `gone` counts how long ago each pane was last focused, which tells a pane that was
read from one that was remembered.

### MuxPanes, EmacsFrames, SplitLayouts, PaneGeometry

`SplitLayouts`: a window as a row of groups of panes; with at most three panes that is every
layout splits can make. `MuxPanes` has the defaults all multiplexers share (`decision_for`, the
order in which sides are asked, tear-out, rearrangement, merge) over kitty, which finds a neighbour by
focusing it and going back, and wezterm, which is asked for it; the emulator learns of the window
the compositor shows by `CatchUp`. wezterm's bridge hands merges to the emulator (`queued`).
`EmacsFrames`: frames as layouts of windows that show a buffer each; every expression works in
the frame Emacs takes for focused (`known`). Emacs' frames have no place on the screen: a merge
that looks for the frame ahead may find any. `PaneGeometry`: rectangles, the closest one on a
side, what tmux decides from it.

### AppChain and AppConfig

`AppConfig` answers from a parsed file: the profile of a section by the aliases of an adapter,
the backends, what each operation may do. Profiles are in an order fixed once the file is read,
any order, as a hash map is. `AppChain` resolves the chain behind a terminal's window with
several tabs: the shells, the one the focused terminal device belongs to or else the one whose
hint fits, tmux or nvim below it; binds each layer to its policy and asks them innermost
first; the window manager gets what is left. The user switches tabs between the reads.

### TransferRouting

What `execute_move_session` does when no layer took the move: the table of domains was built for
the window focused at the start (`Seed`), the windows of the move are read later (`Route`);
`TearOff` captures, `HandedOn` converts the capture to a type the target takes, `MergeIn` lets the
target's adapter merge, which first looks whether the capture is its own; nvim then ends a torn-out
instance unless it is the one that opens the buffer (`EndsSource`, `nvim.rs:450`), and loses the buffer if
that fails to open it. Windows stand in a row, of terminals, nvim, Emacs, VS Code or a browser, and
show one content each; a chain is that of `AppChain` with all sections enabled. `MoveSession`
has the same as one step, `Transfer`, which applies, refuses or fails.

### WmBackends and WindowLists

`WmBackends`: capabilities as declared, `validate`, `connect_backend`, plans; and the placement of
a torn-out window. Only niri composes commands, so only niri's layout is modelled, a strip of
columns of tiles: consuming into the source's column and moving up, or a column to the
left. In between windows close, the user moves the focus and another call moves windows
(`disturbed` says that it mattered). `WindowLists`: i3's tree of containers as windows and the
focused one, and the lists of the others; a field that is absent is an empty set.

### NiriSummon

A call reads workspaces and windows, then the file, moves the window to the workspace and
the monitor, writes the file and focuses the window: each a step. `fs::write` is two
(`Open` empties the file, `Write` fills it; writes that overlap may leave `Torn`, a file that
does not parse). A call may end at any step. `harmed` is history, the windows whose record may be
spoilt: those of calls that overlap; that of a call that dies between the move and the file, or whose
window the user moves meanwhile; all, if two
calls are in `fs::write` at once or one dies in it. Assumed: `move_window_to_monitor` has no effect on a window
that is on that output. Which windows match is any set. Windows that niri reports without a
`workspace_id`, for which the code takes the workspace in front for the origin, are left out.

### VscodeFocus

VS Code has a layout (columns of stacked groups), an active group, a surface that has the focus, and a
queue of commands it was sent. The file has, for the layout it was written for, the groups that may be
active, the surface and a pending pair that replaces both when the time to settle is over (`Wake`). The
geometry (`Rect`, `Neighbor`) is computed as the code does, with equal sizes and two levels; a layout is
any sequence of columns whose numbers divide `Size`. Groups count from 1, in the code from 0. Assumed:
VS Code carries out commands in the order sent and finds the neighbour the code's geometry finds; what
becomes of an editor moved where there is no group is left open. `GroupsClose` says whether it closes a
group whose last editor leaves. Not modelled: the tear-off scope `workspace` (an error), a settling time
of 0, other windows' entries. `trust` is history: false once something has happened of which the code
cannot know - a click, an overlapping call, a death between the command and the file, a layout that was
left and is back while a belief for it is kept, a move planned for a layout about to change. `older` is
history too: true once a command was planned from another belief than the latest, which the code allows
within the time to settle, until the code reads a belief that knows nothing.

### VscodeMerge

The source's group is learnt by having VS Code open one tab after the other and copy its path; the
paths are opened in a group split off in the target. Commands go to a port, without an answer;
they are carried out some time later, and a wait may be too short (`MaxLags`). Both windows belong to
one process and commands act on the one VS Code takes for active. Which ports are tried, and in
which order, is `Nets`' affair: what is set, cached, in the environment, and listening. A group whose
active tab has no path is merged as a terminal where `manage_terminal` is set: one command, and nothing is
asked of the target. The restoration of a workspace is one command and not modelled.

## 3. Runs

Every run says `CHECK_DEADLOCK FALSE`: requests, failures and acts are bounded, and when
they are spent nothing is left to do. What must not stop early is a liveness property.

| run | instance | shows |
|---|---|---|
| `move_windows` | a multiplexer's window with two panes and a terminal's with one, room for two more windows, 2 requests, 1 failing call, 2 acts of others, 2 polls | `TypeOK`; `FocusComesBack`: what is moved by the fallback is the window the request began with; `PlacesTornOutWindow`; `NothingStranded`; `ClosesOnlyEmptyWindows`; `KeepsContract`: every step is one of `MoveContract` |
| `move_nested` | an editor in a terminal, 3 failures, 2 acts of others, 1 request | `NoDoubleMove`, `InPlaceProbeIsUndone`, `RequestEnds` |
| `bridge` | two calls in turn, the host may be started again; or one operation on up to three tabs in up to three windows, with two failures or acts of the user; or two hosts, each started twice | `AnswersMatch`, `PendingIsOwed`, `CarriesCalls` (refinement of `RemoteCalls`), `LateNeverOvertaken`, `HandlersEnd`; `TabsMoveOneStep`; `SocketLeadsToHost` |
| `zellij_tear_out` | three panes in one tab, in two, or one of them yet to be opened; one tear-out with an act of others or a failing command, or two that may overlap | `SpawnMeansDetached`, `NewTerminalShowsPane`, `WatchSettles` |
| `vscode` | up to three groups in five layouts, two processes, three calls, deaths or acts of the user | `ActiveIsPossible`, `EdgeIsReached` |
| `buffers` | six parts: two nvim calls on two instances, panes and files; two processes on a tmux server of three panes; one call on three panes of kitty, wezterm or zellij, or three buffers of Emacs; one merge of VS Code windows; each with failures and acts of the user | `CheckedEditsKept`, `BufferHeld`, `SourceGoneFirst`, `EveryCallReturns` (nvim); `PanesSurvive` (tmux); `ActsOnShownPane` (tmux, kitty, wezterm); `AskingLeavesFocus`, `MergesWhereShown` (kitty, wezterm, zellij); `TextReachesPane` (zellij); `FramesKeepBuffers` (Emacs); `GroupArrivesWhole`, `ClipboardGivenBack` (VS Code) |
| `commands` | four parts: seven configuration files and two terminals with two tabs; three windows in a row of every kind, VS Code among them; two windows on three workspaces and two outputs with three calls and one death; a fourth window placed beside one of three | `ChainIsFocusedStack`, `ActsWhereShown`, `PolicyHonoured`; `OnlyTheSourceMoves`; `OriginsKept`, `ComesHome`; `LandsBeside` |

Five runs show where code and documentation part:

| run | what happens |
|---|---|
| `move_closes_shared_window` | a nested editor merges into another window; the source window is closed although it shows another pane (`merge.rs:219`; "empty window closed", `ARCHITECTURE.md:250`) |
| `vscode_shift` | a move that empties its group: the belief keeps the number the target had before the groups were renumbered (`vscode.rs:1470`), and excludes the active group |
| `vscode_quick` | presses within the time to settle: where the latest belief does not suit, an older one does, and what is active is excluded for good (`vscode.rs:1411`; "narrow the set of possible active editor leaves", `vscode.rs:55`) |
| `nvim_quit` | a merge asks for the current buffer to be saved and then quits a torn-out source with `qa!`: unsaved edits of its other buffers are gone (`nvim.rs:425`; "requires a saved buffer; please save first", `nvim.rs:323`) |
| `wezterm_merge_hint` | the window to merge into is named by the compositor's number and looked for among wezterm's (`wezterm.rs:158`; "explicit window filtering", `apps/wezterm.rs:105`): where the two numberings overlap, the pane ends in another window |

A sixth one was met and is not run: an adapter's error ends the request (`movement.rs:48`)
instead of degrading to the window manager ("Graceful degradation", `ARCHITECTURE.md:286`).

**Facts about functions**, evaluated over all small inputs with the runs:

| where | fact |
|---|---|
| `MC_Buffers` (`buffers`) | `ClosestIsAcrossTheLine`: over 141 ways to tile a tmux window, the neighbour found is one across the dividing line and none faces more; `DecisionsCanBeCarriedOut`: what is torn out has no pane on that side and leaves others; `TextArrives`: text is typed as it is, but that a newline at its end comes twice |
| `MC_Zellij` (`buffers`) | `PluginIsNewest` |
| `MC_Processes` (`buffers`) | `TreeIsWhole`, `SocketIsOwn`, `ForegroundIsInFront`: what is read of a table of processes; `MacVariableIsOwn`, `MacForegroundAgrees`, `MacSocketIsOwn`: macOS's reading agrees with it, but where it says; `AddressIsInTree`, `TearsOutOfSeveral`: an nvim's server and decisions; `PathArrives`: a path is the same after every quoting |
| `MC_Wm` (`commands`) | `WhatConnects`, `ResizesUndone`: the adapters' declarations and resizes; `FocusedIsListed`, `BlankIsAbsent`, `NoWindowInItsPlace`: windows as they are reported; `RoundGoesToAll`, `StampedFocusAlternates`, `GoesToMatch`: repeated `focus-or-cycle` |
| `MC_Commands` (`commands`) | `PickedTypeConverts`: a payload is handed on exactly when one of the target's types can be reached |
| `MC_BrowserBridge` (`bridge`) | `IndicesInStrip`: the tab next to the active one; `MessagesArrive`, `LongIsRefused`: messages one after the other are read as they were written, and one whose length does not fit is refused, with two bits for the 32 of the length |

**What the properties except.** Each exception is a state of affairs the code cannot see, or where
it is known to do otherwise:

* `ActiveIsPossible`: nothing happened that the code cannot know of (`trust`), and no command was planned
  from an older belief (`older`; `vscode_quick` is that case, at four acts, in one column).
* `ChainIsFocusedStack` speaks of requests for which the reads can tell the tabs (`Sighted`), and
  not of an nvim outside tmux beside a tmux that shows another (`RivalInTmux`).
* `PolicyHonoured`: where several profiles bear names of one application, one of them permits.
* `OnlyTheSourceMoves`: that what moves is what the source shows, if the focus stays during the call and
  the source is no browser, whose extension takes its own focused window. That nothing is lost, and that
  nothing leaves its kind of windows, is said without exception.
* `PendingIsOwed`: an entry whose answer was lost with the extension stays until the host stops.
* `OriginsKept`: the windows in `harmed` (section 2).
* `LandsBeside`: no focus change and no change of the source's own column during the steps. Toward the
  east only the column is claimed: there niri puts the window at the bottom of the column that follows.
* `begun.clean`, `zbegun.clean`, `bbegun.clean`: nothing failed and no user acted during the call; for
  zellij also one tab shown by all clients and no pane that the dump leaves out.
* `MergesIntoShown`: the compositor's window numbers are not other windows' numbers in the
  emulator (`wezterm_merge_hint` is that case).
* `FramesKeepBuffers`: Emacs does not change its mind on the focus between two expressions of a
  merge; then it merges the target into the source.
* `GroupArrivesWhole`, `ClipboardGivenBack`: no wait was too short, the user kept off; a clipboard
  program that writes; and a VS Code that leaves an emptied group open. When the last `openIndex` of a
  group cannot be sent, which the code ignores (`vscode.rs:1610`), the last tab is left in front instead
  of the one the source showed (`LeftInFront`).
* `BufferHeld`: the target did not fail after the source had been quit (`hist.stranded`);
  `SourceGoneFirst`: nor did the code give up waiting; that no editor is told to exit, if the user had not
  left the source's pane when it was read (`nvim.rs:648`).
* `SocketLeadsToHost`: no two hosts were starting at once.
* `SpawnMeansDetached`: tear-outs from several panes during which no other tab came to be shown before
  the pane was alone (`h.strayed`), by the user or for an earlier tear-out: else another tab may be counted.
* `NewTerminalShowsPane`: no user and no other client acted, no break was refused and every tear-out began
  among several panes (`h.quiet`), and the terminal comes before the plugin's last look.

**Why the bounds are enough.** A request of `MoveSession` uses one source, one target and at most one
new window; a second request and a stranger are what can be confused with them, so four windows and two
requests give every confusion of ids. Polls only count: two tell "found at once", "found later" and
"never" apart. In-place probes differ only in whether an outer layer moved, so two layers do (with
several focusing outer layers `restore_in_place_target_focus` may restore another one than moved;
`InPlaceProbeIsUndone` is therefore about one). The bridge's threads interact through one table; two
calls show each pairing, and one restart shows numbers used again. The plugin's restore compares counts
and positions: three panes in one tab or two, and up to two tabs more, give every comparison both
outcomes; one attempt before, at and after the join needs three. An act and a failure in one tear-out
are left to the theorems, which allow any number. Two summoned windows are what a shared file can mix
up. Three groups are the smallest layout in which a group has a neighbour on both sides or two on one;
so are three panes, windows or tabs elsewhere. A second nvim call, tmux process or summon call is what
finds the traces of the first. `buffers` asks for one side per application (`Asked`, `ZAsked`,
`EmacsAsked`), since the layouts come in every orientation.

**Fairness.** `MoveSession`: `WF(Request)`, since every call the code makes has a timeout or
returns; nothing of the user or of windows to appear. `BrowserBridge`: weak fairness of each
handler thread, of the reader and of `stop`, which the operating system's scheduler gives; nothing
of the callers or the extension. `ZellijTearOut`: zellij answers `list_clients`, fires timers
and delivers pipe messages; nothing of the terminal that is to come. `NvimTransfer`: weak fairness of
the adapter's own steps, each of which has a bounded number of looks; nothing of the user, the
panes that appear or the servers that end.

**Mutants.** Each property has a definition next to the one it guards that a plausible
slip would have produced (a swapped condition, a missing removal, `any` for `all`); with it
in place TLC finds the property violated.

## 4. Proofs

TLAPS checks these for every value of the constants that meets the modules' assumptions.

* `MoveSession_proofs`: `TypeCorrect` (`Spec => []TypeOK`) and `MovesOnce`
  (`Spec => []NoDoubleMove`), from `ConstantsAssumption` only (any number of windows, panes,
  layers, requests, failures). `NoDoubleMove` is not inductive: nothing in it says that a request
  which has already moved something cannot come back to a layer. The invariant
  `IInv == TypeOK /\ SessionOK /\ OneEffect` adds it: `OneEffect` says for every `pc` whether
  the effect of the request may have taken place yet (nothing but calls that then reported failure
  before it, one more after it); `SessionOK`, that the adapter behind a probe or a merge is a layer
  of the source window's chain, without which the steps would not be well-typed. Lemmas say what
  each building block does to the history and the state; then one step per action.
* `MoveSession_proofs`, contract: `RefinesContract` (`Spec => KeepsContract`, the refinement of
  `MoveContract`) and `ClosesOnlyEmpty` (`Spec => ClosesOnlyEmptyWindows`), under the hypothesis
  `MergesLastPane`: there are finitely many panes, and an adapter that merges counts all the panes of
  its window, and tears one out when there are several, the policy allowing it. Without it both are
  false, as the run `move_closes_shared_window` shows: `decision_for` then yields a pane that is not the
  window's last, and the window is closed with the others. `CInv` adds to `IInv`: the history counts
  each effect exactly once (`Balanced`), panes are shown by windows there are (`Places`), a pane torn
  out waits for its terminal to be asked for (`Torn`), and from the decision to merge on the source
  shows at most the pane that is merged (`Cargo`). `NothingIsStranded` (`Spec => []NothingStranded`),
  `FocusAlwaysComesBack` (`Spec => FocusComesBack`) and `AlwaysPlacesTornOut` (`Spec =>
  PlacesTornOutWindow`) rest on `ConstantsAssumption` only. `AInv` adds: a pane without a window is
  awaited as soon as its terminal has been asked for (`NoneStranded`); a probe leaves the focus on its
  target only for a merge that wants it there (`KeepRight`); undisturbed, the source stands where the
  request began, and has the focus wherever a step may end in the fallback or an error (`FocusRight`);
  and after a snapshot that succeeded, the windows not in it show the pane just torn out (`TearRight`),
  of which `select_tearout_window_id` then takes one. `ProbeIsUndone` (`Spec => []InPlaceProbeIsUndone`)
  has the hypothesis `OneOuterFocuses`: at most one layer outside the innermost one moves the focus
  among its panes. Without it TLC finds the property violated on a chain with two such layers: when the
  first has nothing ahead the second is probed, and `restore_in_place_target_focus` moves the first one
  if that has something on the opposite side. `Upright` adds to `AInv`: undisturbed, between the probe's
  focus and its restoration that layer is one step off, and at every other point all layers stand where
  they stood.
* `BrowserBridge_proofs`: `CallersGetTheirOwnAnswers` (`Spec => []AnswersMatch`) and `HostCarriesCalls`
  (`Spec => CarriesCalls`, the refinement). Strengthening: numbers belong to one call each, and entries,
  requests and answers bear the number of their call (`Numbers`); nothing is left of a process that is
  gone (`Clean`); what a channel or an answer says is said to its caller, and is true (`Truths`); a
  command is written and run once (`Once`). The last three are what the refinement needs beyond the
  first. `EntriesAlwaysOwed` (`Spec => []PendingIsOwed`) and `NeverOvertaken` (`Spec =>
  LateNeverOvertaken`) rest on `OInv`, which adds: an entry is owed at every step of its handler, by the
  handler itself until its request is written and after a write that failed, then by the pipes or the
  extension's loss, so that neither a failed write nor an answer leaves an entry behind; a caller goes
  on only when its call has ended; who was given an answer has a handler that is done; and the commands
  of one caller stand in the pipe in the order of its calls. `PathLeadsToHost` (`SocketSpec =>
  []SocketLeadsToHost`) is about `HostSocket`, for any number of hosts and starts. The property speaks
  of the path and the hosts that run; `SInv` adds what it rests on: the host the path leads to serves;
  as long as no two hosts started at once, one at a time is between looking and binding, and it removes
  or binds only a path that leads to nobody. `TabsGoOneStep` (`TabsSpec => []TabsMoveOneStep`) is about
  `BrowserTabs`, for any windows, tabs, directions and disturbances, from `TabsAssumption`: at first a
  tab is in one place, pinned and active ones are among those there are, and a window may still open.
  The property speaks of an operation that is over; `TabsInv` adds that while nothing disturbs one the
  strips are as it found them (`Unchanged`), and what it will send is what was decided of them
  (`Begun`): a tear-out or a merge only if the tab has no place to go in its strip, and a merge only
  into another window than the tab's. What removing a tab leaves (`LeftBehind`) and what changing places
  does (`ChangesPlaces`) are facts about sequences of any length.
* `Commands_proofs`, summon: `OriginsAlwaysKept` (`SummonSpec => []OriginsKept`), for any windows,
  workspaces, outputs, processes and calls, however they overlap and die. `OriginsKept` says the file is
  right for the windows not harmed when no call is at work; `SInv` says for each of these windows what
  holds in between: no other call is at work while one is at work on it (`Owned`), one call at most is
  in `fs::write` (`OneWrites`), the file is right unless it is being written (`FileRight`), and what
  each call holds and will write of the window is right (`CallRight`). The assumption `SummonAssumption`
  also says that the mark of a torn file is no map of origins, nor that of no output an output.
  `AlwaysComesHome` (`SummonSpec => ComesHome`), under the same assumption: `SummonInv` adds to `SInv`:
  every window is on a workspace there is, and every output shows one of its own; the window of a call
  is there unless it was harmed; the output noted with an origin is that of the origin's workspace; and
  what a call that takes a window back has chosen is that origin, reached by the first of its two moves
  unless the workspace has vanished.
* `Commands_proofs`: `ActsOnTabShown` (`ChainSpec => ActsWhereShown`) and `SectionsAreHonoured`
  (`ChainSpec => PolicyHonoured`), for any terminals, tabs, files and switches of tabs, from
  `ChainAssumption`: profiles are a map, so that keys spelled alike are one (`DistinctKeys`), and tabs
  are numbered from 1. `ChainInv` says what the reads before the layers are asked leave: the tab that
  was searched was shown since the call began, and once the focused device was known, every layer that
  is asked is the window itself or one of that tab (`Searched`). For the second, `EntryFound` says which
  profile `profile_entry_by_aliases` finds: one with one of the names, and the application's own if
  there is one; it rests on every set of naturals having a least element, by the library's well-founded
  order. `ResolvesFocusedStack` (`ChainSpec => []ChainIsFocusedStack`) is for the same. `StackInv` adds
  what the reads gave as long as none failed and the tab shown is still the one that was: the hint is
  what runs in it or what its tmux shows (`HintRead`), and the shell searched is its own, if it has one
  (`SearchRead`). `ResolvedRight` then says that every chain that can come of these is the stack of that
  tab. `OnlyTheSourceMovesAlways` (`RoutingSpec => OnlyTheSourceMoves`) has no assumption. `RInv`: each
  adapter of the table is of its domain; nothing was moved before the merge; the payload was captured by
  the source domain's adapter from a window of its own kind, whatever the focus did meanwhile; and while
  the user kept the focus, the source is the focused window. nvim ends an instance only for another one:
  with the same adapter on both sides nothing is ended, and so nothing lost.
* `Buffers_proofs`, nvim: `NoCheckedEditIsLost` (`NvimSpec => []CheckedEditsKept`),
  `SomeNvimHoldsTheBuffer` (`NvimSpec => []BufferHeld`) and `SourceEndsBeforeTargetOpens`
  (`NvimSpec => []SourceGoneFirst`), for any instances, panes, files, calls and failures, from
  `NvimAssumption`. None of the three is inductive; `NInv` adds where the call's buffer is at each of
  its steps (`Held`: with the source until it is dropped, with the target from its look or its opening
  on), that an edit after the look is a race (`Kept`), who may be in which pane (`Apart`: no two
  instances in one, none where a launch was typed), and that no other instance runs or starts in the pane
  read as the source's, unless the user had gone elsewhere when it was read (`GoneFirst`), without which
  `exit` could be typed into a stranger.
* `Buffers_proofs`, tmux: `MergesEndNoPane` (`TmuxSpec => []PanesSurvive`) and `ActsOnRecentPane`
  (`TmuxSpec => []PaneReadIsRecent`, the part of `ActsOnShownPane` that is tmux's), for any panes,
  windows, detached sessions, commands and `Ttl`, from `TmuxAssumption`. The server's own rules
  (`Settle`) are one lemma; each command is then what it hands to it. `TInv` adds: a window with panes
  is held by a session that lives (`WindowsHeld`); until a user ends a session, the one a group is named
  after is one of it (`Led`), so that ending a session made for a tear-out leaves the group
  one; and the cache is one reading, of what was in front at most its age ago (`CacheCounted`).
* `VscodeFocus_proofs`: `BeliefHoldsActive` (`Spec => []ActiveIsPossible`) and `PressesReachEdge`
  (`Spec => []EdgeIsReached`), for any layouts, processes, calls, deaths and acts of the user, from
  `VscodeAssumption`. The first has the hypothesis `~GroupsClose`, without which it is false, as
  `vscode_shift` shows. `ActiveIsPossible` speaks of states in which nothing is on its way.
  `TrustInv` says what holds in between: one call at a time changes the belief, and the commands VS
  Code has not carried out lead from its active group, set by set, into what is believed or what that
  call has read, sent or will write (`Leads`, `FollowsAt`); for a move the layout must not change under
  it (`Surely`). `StreakInv` is geometry: a neighbour lies further on in its direction (`Further`), so
  after n moves each group believed to be active is at the edge or has n others behind it
  (`OneMoreBehind`). What folds over columns amount to is proved by a least column at which it would
  fail (`UptoAddsUp`, `OneLessFrom`, `ClosedHasOneLess`). The attempt found the first property false as
  it stood: it takes four acts and the run has three. That is `vscode_quick`, and `older` excepts it.
* `Buffers_proofs`, VS Code: `MergeGivesClipboardBack` (`MergeSpec => []ClipboardGivenBack`), for any
  groups, ports, waits and failures. `ClipInv` adds: until the paths are read the copied text is kept in
  the call; undisturbed, nothing is on its way where the call goes on reading; and no command that
  copies is sent after the reading, whatever the number of tabs (`MergeCopiesNothing`). The proof showed
  that the property needs less than it once assumed: neither that the port reaches VS Code nor that all
  that was sent is carried out. `MergedGroupIsWhole` (`MergeSpec => []GroupArrivesWhole`) is for the
  same, from `MergeAssumption` (a tab is in a group once, and its path is none of the markers) and
  `NetsAssumption` (what a port is). `GroupInv` follows the undisturbed call: `CaptureInv` says for each
  place of the reading what was sent, which tab is in front and what the clipboard holds, so that a path
  read is that of the tab asked for and a path read twice is that of the last tab (`LookInv`, `WalkInv`,
  `BackInv`); `PlaceInv` says of the target that of the commands a prefix was carried out, a stretch is
  under way and the rest is to be sent (`Between`), and what the group split off holds after each prefix
  (`PlacedBuffer`, `PlacedGroup`): a tab opened and not yet kept is the last one. `GivesUpLast` says
  that only the last command can be given up without ending the call, and `GivenUpKeeps` what is then
  left in front. `StillReaches` is why a call that reaches VS Code once always does: the port that took
  a command is asked first. Emptied groups that close are left out, as in the property.
* `Layouts_proofs`, strips: `TornOutLandsBeside` (`WmSpec => []LandsBeside`), for any strip, windows, events
  and adapters, from `WmAssumption`, `StripsAssumption` (at first a window other than the new one is in one
  tile, and no column is empty) and `AdaptersAssumption` (an adapter declares what one of the four
  declares; its primitives and its composer are free). `WInv` says for each `pc` where the window and its
  source are as long as nobody disturbs them (`PlacedSo`): alone in the column right of the source, then
  below it in its column, `moves` tiles below where it is to be, and past the source exactly when it
  takes its tile. What others do is told apart by the source's row: whoever closes or moves in it changes
  it (`RowTells`, `MovedRowTells`), and what happens elsewhere moves both columns alike (`ClosesRight`).
* `Layouts_proofs`, Emacs: `CallsKeepBuffers` (`EmacsSpec => FramesKeepBuffers`), for any number of
  frames, calls, failures and acts of the user, from `EmacsAssumption` (at most three buffers, so that
  rows of groups are all the layouts there are, and frames enough for each buffer to have one). `EInv`
  has two parts. `FrameInv`: every frame is a layout, and its selected window is one of those it shows.
  `EditInv`: as long as the user keeps off, the buffers shown when the call began are still shown,
  Emacs' focus is the compositor's until the merge is prepared, the frame that gets the identifier shows
  no buffer but its selected window's, and the frame that is merged ahead is that one. So deleting it
  with its frame (`TakesKeep`) loses nothing, and neither does a move (`ActsKeep`). Both rest on what
  the operators of `SplitLayouts` do to any layout: `WithoutKeeps` (all panes but the one taken out),
  `SplitKeeps` (the new one beside all others), `SwapKeeps` (the same panes) and `SplitsAreLayouts`.
* `ZellijTearOut_proofs`: `SpawnsForDetachedPane` (`Spec => []SpawnMeansDetached`) and
  `TornOutPaneIsShown` (`Spec => NewTerminalShowsPane`), for any finite set of panes and any number of
  tear-outs, attempts, checks, failures and acts of others, from `ZellijAssumption`. `ZInv` adds: the
  plugin watches one thing at most, and each look costs it an attempt (`Watched`); undisturbed, the new
  tab stays in front until its terminal has come or the attempts are spent (`Awaited`); and unless it
  has strayed, the pane of a tear-out is alone in its tab, or the tab shown has others, so that no look
  can pass (`Left`). `HomesAssumption` says that tabs are numbered by position at first.

Every invariant was first given to TLC as an invariant of the runs that check these properties. Proofs
changed nine models: a launch read by a shell takes along whatever else was typed there
(`NvimTransfer`); zellij's tabs are numbered by opening; `AppConfig` says that the keys of a map are
distinct, and `BrowserTabs` that a tab is in one place at first; `WmBackends` says what strips and
adapters may be, and takes a window out at its tile; `VscodeMerge` says what tabs and ports may be,
opens all paths by index and takes the first port that accepts, both without a fold; `EmacsFrames` opens
the lowest closed frame, and `SplitLayouts` takes a pane out at its place and lists layouts by rows,
both without a filter over pairs; `VscodeFocus` finds neighbours in sets instead of sequences, says what
layouts may be, and has `older`; `AppChain` orders the roots of a search by a relation instead of
sorting them, and takes tabs to be numbered from 1.

Only model-checked, with the reason:

* liveness (`RequestEnds`, `HandlersEnd`, `WatchSettles`, `EveryCallReturns`): it rests on fairness,
  which the prover does not reach;
* `TextReachesPane`, `AskingLeavesFocus`, `MergesWhereShown`: their modules compute with folds and
  selections over sequences, whose value for every input is an induction over data;
* what lies behind `ProcessTree` (`MacProcesses`, `NvimServers`, `ZellijPanes`) and `WindowLists`:
  recursive operators.

## 5. Observations

Met while modelling, none of them in contradiction to a doc or a test:

* niri: a window torn out toward the east, where a column follows, is stacked at the bottom of that column
  instead of getting one of its own, since placing it there is one more move in that direction
  (`niri.rs:304`). "grow" toward west or north shrinks the window (`ResizesUndone`). i3: with the focus on an
  empty workspace or a container, the first window of the tree is taken for the focused one, and the
  second look (`focused_leaf`) never finds what the first did not (`FocusedIsListed`). paneru: a
  window's id is a process's number, and no windows are listed.
* tmux: a text that ends with a newline gets Enter twice (`TextArrives`); a pane one cell wide that
  faces the end of a dividing line has no neighbour there although the move was decided internal
  (`ClosestIsAcrossTheLine`).
* wezterm: a rearrangement with three panes or more goes back and forth between two layouts;
  `merge.cmd` is overwritten by a second merge before the first is carried out.
* VS Code: where emptied groups close, a merged group lands in the target's own group; a merge copies
  tabs, it does not move them.
* zellij: whether the break happened is read off the tab that is shown; a user who goes to a tab of one
  pane meanwhile has a terminal spawned for a pane that is still among others. Counts of panes leave out
  those whose line opens a block, so that probing may leave the focus elsewhere; pane 0 is taken for
  none; `ZELLIJ_PANE_ID` and `ZELLIJ_SESSION_NAME` are inherited by a terminal started inside zellij;
  the code looks for `plugins/zellij-break`, the repository has `plugins/zellij-bridge`; a merge whose
  pipe times out is reported done.
* `focus-or-cycle`: as soon as the compositor has noted the last focus, the latest two windows change
  places and a third is never reached; without the note the round goes to all (`RoundGoesToAll`,
  `StampedFocusAlternates`).
* Processes are taken in the order of their numbers, which start again some day.
* nvim: the pane that will be told to exit is read after the snapshot, as the one with the focus; if the
  user leaves the source in between, `exit` may be typed into another editor (`nvim.rs:648`, `474`). An
  instance inside another's terminal inherits `NVIM`, which names the outer one's server
  (`AddressIsInTree`).
* macOS: a login shell that `ps` shows as `-zsh` is not taken for a shell; a variable's value is cut at a
  blank, and an argument that looks like one is taken for it (`MacVariableIsOwn`).
* VS Code: a merge of a group whose active tab has no path moves a terminal and reports success; so does a
  merge whose last command, to show the tab that was in front, could not be sent.
* Browser: a merge goes to the window the browser takes for focused, which may still be the source.
* Transfers: no converter is registered, so the pipeline hands over a payload as it is or not at all.

## 6. Plan

1. Done: all modules above; the first theorems.
2. Theorems next: what else of the modules over sequences can do without folds;
   type correctness of the others.
3. Composition of `TransferRouting` with `MoveSession`'s `Transfer`.

## 7. Not modelled

Launch prefixes of alacritty, foot and ghostty; the command line, logging and profiling: pure I/O,
and one command is one call of the engine. The layouts of i3, yabai and paneru: each of their operations
is one command of the window manager. The TOML and JSON formats: serde's.
The browser extension and the VS Code extension are not in the repository; what the code relies on
is in the environment actions of their modules. zellij's, tmux's, kitty's, wezterm's and Emacs' own
behaviour is modelled as far as the adapters use it, and marked external.
