---- MODULE MuxPanes ----
(***************************************************************************)
(* kitty and wezterm as multiplexers of their own windows                  *)
(* (adapters/terminal_multiplexers/{kitty,wezterm}.rs) over the defaults   *)
(* that all multiplexers share (engine/contracts/{mux,topology}.rs): each  *)
(* call is a process that asks the emulator, one remote command after      *)
(* another, and then moves a pane.                                         *)
(*                                                                         *)
(* One instance has all windows; a window has one tab.  The compositor     *)
(* shows a window; the emulator learns of it later (CatchUp).              *)
(* MaxMuxOps bounds the calls, MaxMuxTrouble the commands that fail and    *)
(* what the user focuses meanwhile, together.                              *)
(***************************************************************************)
EXTENDS SplitLayouts

CONSTANTS Emulators,    \* records: kind, "kitty" or "wezterm"; clients, what
                        \* list-clients answers; bridge, the setting; wmIds, the
                        \* compositor's numbers of the windows
          Asked,        \* the sides that are asked for
          MuxPane,      \* a set of positive numbers, at most three
          MuxWindow,    \* a set of positive numbers, the emulator's own
          MaxMuxOps, MaxMuxTrouble

ASSUME MuxAssumption ==
  /\ MuxPane \cup MuxWindow \subseteq Nat \ {0}
  /\ Asked \subseteq Sides
  /\ Cardinality(MuxPane) <= 3 /\ Cardinality(MuxWindow) >= Cardinality(MuxPane)

VARIABLES
  mux,      \* kind, wmIds, clients, bridge: the emulator and how it is set up
  lay,      \* [MuxWindow -> layout]
  active,   \* [MuxWindow -> the active pane, 0 if the window is closed]
  onScreen, \* the window the compositor focuses
  seen,     \* the window the emulator takes for focused, 0 if it knows of none
  job,      \* the call that runs
  queued,   \* merge.cmd, for the emulator to carry out: {} or {pane}
  begun,    \* history: the pane looked at when the call began, and whether nobody interfered
  muxCount  \* counters: ops, trouble

muxVars == <<mux, lay, active, onScreen, seen, job, queued, begun, muxCount>>

NoJob == [pc |-> "idle", op |-> "none", dir |-> "west", asks |-> <<>>, pane |-> 0, orig |-> 0, list |-> {},
          what |-> "none", target |-> 0, hint |-> 0, tries |-> 0, outcome |-> "none"]

-----------------------------------------------------------------------------
MuxLayouts == Layouts(MuxPane)
OpenWindows == {w \in MuxWindow : lay[w] # Closed}
WindowOf(p) == CHOOSE w \in MuxWindow : p \in PanesOf(lay[w])
Near(p, d) == NextTo(lay[WindowOf(p)], p, d)
Lowest(S) == CHOOSE x \in S : \A y \in S : x <= y

(* The screen after layouts and active panes changed. *)
Display(layouts, actives, screen, known) ==
  LET open == {w \in MuxWindow : layouts[w] # Closed}
  IN  /\ lay' = layouts
      /\ active' = [w \in MuxWindow |->
                      IF w \notin open THEN 0
                      ELSE IF actives[w] \in PanesOf(layouts[w]) THEN actives[w]
                      ELSE Lowest(PanesOf(layouts[w]))]
      /\ onScreen' \in IF screen \in open \cup {0} THEN {screen} ELSE open
      /\ seen' = IF known \in open \cup {0} THEN known ELSE onScreen'
Screen == <<lay, active, onScreen, seen>>

(* p leaves its window for the layout l of w and is active there. *)
Moves(p, w, l, screen) ==
  Display([[lay EXCEPT ![WindowOf(p)] = Without(@, p)] EXCEPT ![w] = l], [active EXCEPT ![w] = p], screen, seen)

-----------------------------------------------------------------------------
(* What the emulator says *)

(* kitty's focused window, or else its first one. *)
ActiveWindow == IF seen # 0 THEN seen ELSE Lowest(OpenWindows)

(* Mutant: any client. *)
AnyClientPane(accepted) ==
  IF "other" \in mux.clients THEN {active[Lowest(OpenWindows)]} \cap accepted
  ELSE {active[ActiveWindow]} \cap accepted

(* select_client_focused_pane: our own client first, then any other; the other *)
(* one looks at the first window.                                          *)
ClientPane(accepted) ==
  LET ours  == IF "ours" \in mux.clients THEN {active[ActiveWindow]} \cap accepted ELSE {}
      other == IF "other" \in mux.clients THEN {active[Lowest(OpenWindows)]} \cap accepted ELSE {}
  IN  IF ours # {} THEN ours ELSE other

(* TerminalPaneSnapshot::active_or_first. *)
ActiveOrFirst(panes) ==
  LET act == {p \in panes : active[WindowOf(p)] = p} IN Lowest(IF act # {} THEN act ELSE panes)

FocusedPane ==
  IF mux.kind = "kitty" THEN active[ActiveWindow]
  ELSE IF ClientPane(MuxPane) # {} THEN Lowest(ClientPane(MuxPane)) ELSE ActiveOrFirst(MuxPane)

ListedPanes == IF mux.kind = "kitty" THEN PanesOf(lay[ActiveWindow]) ELSE MuxPane

(* The window of a merge's hint: the hint is the compositor's number, and *)
(* is compared with the emulator's own.                                    *)
HintedPanes(hint) == IF hint \in MuxWindow THEN PanesOf(lay[hint]) ELSE {}

(* Mutant: the first other pane. *)
AnyOtherPane(src, hint) == {Lowest(MuxPane \ {src})}

(* merge_target_pane_id: {} if it is ambiguous. *)
MergeTargets(src, hint) ==
  LET others  == MuxPane \ {src}
      foreign == MuxPane \ PanesOf(lay[WindowOf(src)])
      shownOf == {p \in foreign : active[WindowOf(p)] = p}
      sole(S) == IF Cardinality(S) = 1 THEN S ELSE {}
  IN  CASE HintedPanes(hint) \ {src} # {} -> {ActiveOrFirst(HintedPanes(hint) \ {src})}
        [] HintedPanes(hint) \ {src} = {} /\ ClientPane(others) # {} -> ClientPane(others)
        [] OTHER -> IF sole(foreign) # {} THEN foreign
                    ELSE IF shownOf # {} THEN sole(shownOf) ELSE sole(others)

-----------------------------------------------------------------------------
(* One call *)

MuxWorks == UNCHANGED muxCount
Step(j) == job' = j
Concludes(outcome) == job' = [NoJob EXCEPT !.op = job.op, !.outcome = outcome]

(* can_focus, can_resize, move_decision, or prepare_merge of a transfer. *)
BeginMux ==
  /\ job.pc = "idle" /\ muxCount.ops < MaxMuxOps
  /\ onScreen # 0
  /\ \E op \in {"focus", "resize", "move", "merge"}, d \in Asked :
       LET first == CASE op = "focus" -> "pane" [] op = "merge" -> "capture"
                      [] op = "resize" /\ mux.kind = "wezterm" -> "arg" [] OTHER -> "list"
           asks == CASE op = "focus" -> <<d>>
                     [] op = "move" -> IF mux.kind = "kitty" THEN <<d>> ELSE <<d>> \o Perpendicular(d)
                     [] OTHER -> AxisDirections(d)
       IN  job' = [NoJob EXCEPT !.pc = first, !.op = op, !.dir = d, !.asks = asks, !.what = op]
  /\ begun' = [pane |-> active[onScreen], active |-> active,
               clean |-> seen = onScreen /\ (mux.kind = "wezterm" => "ours" \in mux.clients)]
  /\ muxCount' = [muxCount EXCEPT !.ops = @ + 1]
  /\ UNCHANGED <<mux, Screen, queued>>

(* active_scope_pane_count_for_pid: list the panes, then ask for the focused one. *)
ReadList ==
  /\ job.pc = "list" /\ Step([job EXCEPT !.pc = "count", !.list = ListedPanes])
  /\ UNCHANGED <<mux, Screen, queued, begun>> /\ MuxWorks

CountPanes ==
  /\ job.pc = "count"
  /\ IF FocusedPane \notin job.list THEN Concludes("error")
     ELSE IF Cardinality(job.list \cap PanesOf(lay[WindowOf(FocusedPane)])) > 1 THEN Step([job EXCEPT !.pc = "pane"])
     ELSE IF job.op = "move" THEN Step([job EXCEPT !.pc = "capture"])
     ELSE Concludes("passed")
  /\ UNCHANGED <<mux, Screen, queued, begun>> /\ MuxWorks

ReadPane ==
  /\ job.pc = "pane" /\ Step([job EXCEPT !.pc = "ask", !.pane = FocusedPane])
  /\ UNCHANGED <<mux, Screen, queued, begun>> /\ MuxWorks

(* What a lookup's answer leads to; move_decision makes a neighbour on the     *)
(* side an internal move, one across a rearrangement, none a tear-out.     *)
Decided(found) ==
  IF found
    THEN Step([job EXCEPT !.pc = IF job.op = "focus" /\ mux.kind = "kitty" THEN "focus" ELSE "arg",
                          !.what = IF job.op # "move" THEN job.op
                                   ELSE IF Head(job.asks) = job.dir THEN "internal" ELSE "rearrange"])
  ELSE IF Len(job.asks) > 1 THEN Step([job EXCEPT !.pc = "ask", !.asks = Tail(@)])
  ELSE IF job.op = "move" THEN Step([job EXCEPT !.pc = "arg", !.what = "out"])
  ELSE Concludes("passed")

(* wezterm cli get-pane-direction. *)
AskDirection ==
  /\ job.pc = "ask" /\ mux.kind = "wezterm"
  /\ Decided(Near(job.pane, Head(job.asks)) # {})
  /\ UNCHANGED <<mux, Screen, queued, begun>> /\ MuxWorks

(* kitty has no such question: its pane_in_direction focuses the neighbour, *)
(* looks who has the focus, and gives it back.                             *)
ReadOriginal ==
  /\ job.pc = "ask" /\ mux.kind = "kitty"
  /\ \/ /\ Step([job EXCEPT !.pc = IF FocusedPane = job.pane THEN "hop" ELSE "go", !.orig = FocusedPane])
        /\ UNCHANGED begun /\ MuxWorks
     \/ /\ muxCount.trouble < MaxMuxTrouble /\ muxCount' = [muxCount EXCEPT !.trouble = @ + 1]
        /\ Step([job EXCEPT !.pc = "go", !.orig = 0])
        /\ begun' = [begun EXCEPT !.clean = FALSE]
  /\ UNCHANGED <<mux, Screen, queued>>

(* focus_pane_by_id; the compositor may follow the focus to another window. *)
FocusPane(p) ==
  LET w == WindowOf(p)
  IN  \E screen \in {onScreen, w} : Display(lay, [active EXCEPT ![w] = p], screen, w)

GoToPane ==
  /\ job.pc = "go" /\ FocusPane(job.pane)
  /\ Step([job EXCEPT !.pc = "hop"])
  /\ UNCHANGED <<mux, queued, begun>> /\ MuxWorks

(* try_focus_neighbor: one of the neighbours of kitty's active pane. *)
FocusNeighbor(d) ==
  \E n \in Near(FocusedPane, d) : Display(lay, [active EXCEPT ![ActiveWindow] = n], onScreen, seen)

HopToNeighbor ==
  /\ job.pc = "hop"
  /\ \/ FocusNeighbor(Head(job.asks)) /\ Step([job EXCEPT !.pc = "look"])
     \/ /\ Near(FocusedPane, Head(job.asks)) = {} /\ UNCHANGED Screen
        /\ Step([job EXCEPT !.pc = "restore", !.outcome = "none"])
  /\ UNCHANGED <<mux, queued, begun>> /\ MuxWorks

LookAround ==
  /\ job.pc = "look"
  /\ Step([job EXCEPT !.pc = "restore", !.outcome = IF FocusedPane # job.pane THEN "found" ELSE "none"])
  /\ UNCHANGED <<mux, Screen, queued, begun>> /\ MuxWorks

AfterLookup ==
  IF job.outcome = "error" THEN Concludes("error") ELSE Decided(job.outcome = "found")

(* Mutant: the focus stays at the neighbour. *)
KeepsNeighbor(p) == UNCHANGED Screen
GivesFocusBack(p) == IF p = 0 THEN UNCHANGED Screen ELSE FocusPane(p)

RestoreFocus ==
  /\ job.pc = "restore"
  /\ GivesFocusBack(job.orig)
  /\ AfterLookup
  /\ UNCHANGED <<mux, queued, begun>> /\ MuxWorks

-----------------------------------------------------------------------------
(* What the call does *)

(* kitty focuses a neighbour of whatever has the focus, wezterm one of the pane. *)
Focuses ==
  /\ job.pc = "focus"
  /\ LET p == IF mux.kind = "kitty" THEN FocusedPane ELSE job.pane
     IN  \/ \E n \in Near(p, job.dir) :
              Display(lay, [active EXCEPT ![WindowOf(p)] = n], onScreen, seen) /\ Concludes("done")
         \/ /\ Near(p, job.dir) = {} /\ UNCHANGED Screen
            /\ Concludes(IF mux.kind = "kitty" THEN "error" ELSE "done")
  /\ UNCHANGED <<mux, queued, begun>> /\ MuxWorks

(* Each operation asks for the focused pane again. *)
ReadArgument ==
  /\ job.pc = "arg"
  /\ LET p == FocusedPane
         across == UNION {Near(p, d) : d \in ToSet(Perpendicular(job.dir))}
         first == Near(p, Perpendicular(job.dir)[1])
         peers == PanesOf(lay[WindowOf(p)]) \ {p}
         anchors == IF job.what = "internal" THEN Near(p, job.dir)
                    ELSE IF across # {} THEN IF first # {} THEN first ELSE across
                    ELSE IF peers = {} THEN {} ELSE {Lowest(peers)}
     IN  IF mux.kind = "wezterm" /\ job.what \in {"internal", "rearrange"}
           THEN \/ \E n \in anchors : Step([job EXCEPT !.pc = "split", !.pane = p, !.target = n])
                \/ anchors = {} /\ Concludes("error")
           ELSE Step([job EXCEPT !.pc = job.what, !.pane = p])
  /\ UNCHANGED <<mux, Screen, queued, begun>> /\ MuxWorks

Resizes ==
  /\ job.pc = "resize" /\ Concludes("done")
  /\ UNCHANGED <<mux, Screen, queued, begun>> /\ MuxWorks

(* kitty's move_window, of an internal move, or of a merge that could not be *)
(* placed at the edge.                                                     *)
MovesWindow ==
  /\ job.pc \in {"internal", "aside"} /\ Concludes("done")
  /\ LET w == WindowOf(job.pane)
         near == Near(job.pane, IF job.pc = "internal" THEN job.dir ELSE Opposite(job.dir))
     IN  IF near = {} THEN UNCHANGED Screen
         ELSE \E n \in near : Display([lay EXCEPT ![w] = Swapped(@, job.pane, n)], active, onScreen, seen)
  /\ UNCHANGED <<mux, queued, begun>> /\ MuxWorks

(* split-pane --move-pane-id, of an internal move (at the far side of the    *)
(* neighbour), a rearrangement or a merge (at the side it came from).      *)
Splits ==
  /\ job.pc = "split" /\ Concludes("done")
  /\ LET w == WindowOf(job.target)
         side == IF job.what = "merge" THEN Opposite(job.dir) ELSE job.dir
     IN  Moves(job.pane, w, SplitAt(Without(lay[w], job.pane), job.target, side, job.pane), onScreen)
  /\ UNCHANGED <<mux, queued, begun>> /\ MuxWorks

(* detach-window, move-pane-to-new-tab --new-window: the compositor shows the *)
(* new window.                                                             *)
MovesOut ==
  /\ job.pc = "out" /\ Concludes("done")
  /\ LET w == Lowest({x \in MuxWindow : lay[x] = Closed} \cup {WindowOf(job.pane)})
         new == IF lay[w] = Closed THEN w ELSE Lowest({x \in MuxWindow : lay[x] = Closed})
     IN  Moves(job.pane, new, Line("horizontal", <<job.pane>>), new)
  /\ UNCHANGED <<mux, queued, begun>> /\ MuxWorks

-----------------------------------------------------------------------------
(* A merge: the source's pane is captured, the session focuses the target's *)
(* window (MoveSession has how it finds it), the adapter merges into it.   *)

Capture ==
  /\ job.pc = "capture" /\ Step([job EXCEPT !.pc = "show", !.pane = FocusedPane, !.what = "merge"])
  /\ UNCHANGED <<mux, Screen, queued, begun>> /\ MuxWorks

(* augment_merge_preparation_for_target: the hint is the compositor's number. *)
ShowTarget ==
  /\ job.pc = "show"
  /\ \/ \E w \in OpenWindows \ {onScreen} :
          /\ Display(lay, active, w, seen)
          /\ \E hint \in {0, mux.wmIds[w]} : Step([job EXCEPT !.pc = "aim", !.target = w, !.hint = hint])
     \/ OpenWindows = {onScreen} /\ UNCHANGED Screen /\ Concludes("passed")
  /\ UNCHANGED <<mux, queued, begun>> /\ MuxWorks

Into(panes) ==
  IF panes = {} \/ panes = {job.pane} THEN Concludes("error")
  ELSE Step([job EXCEPT !.pc = "split", !.target = Lowest(panes)])

(* Without a hint the merge is left to the emulator's own configuration, by a *)
(* file, if the bridge is on; otherwise three looks wait for the focus to  *)
(* arrive elsewhere.                                                       *)
AimWezterm ==
  /\ job.pc = "aim" /\ mux.kind = "wezterm"
  /\ LET reported == ClientPane(MuxPane) \ {job.pane}
     IN  CASE job.hint = 0 /\ mux.bridge -> queued' = {job.pane} /\ Concludes("queued")
           [] job.hint # 0 -> Into(MergeTargets(job.pane, job.hint)) /\ UNCHANGED queued
           [] job.hint = 0 /\ ~mux.bridge /\ reported # {} -> Into(reported) /\ UNCHANGED queued
           [] OTHER -> /\ UNCHANGED queued
                       /\ IF job.tries < 2 THEN Step([job EXCEPT !.tries = @ + 1])
                          ELSE Into(MergeTargets(job.pane, 0))
  /\ UNCHANGED <<mux, Screen, begun>> /\ MuxWorks

AimKitty ==
  /\ job.pc = "aim" /\ mux.kind = "kitty"
  /\ IF FocusedPane = job.pane THEN Concludes("error") ELSE Step([job EXCEPT !.pc = "tab"])
  /\ UNCHANGED <<mux, Screen, queued, begun>> /\ MuxWorks

(* active_tab_id_for_pid, after the layout of a lone pane's tab is set. *)
ReadTab ==
  /\ job.pc = "tab" /\ Step([job EXCEPT !.pc = "join", !.target = ActiveWindow])
  /\ UNCHANGED <<mux, Screen, queued, begun>> /\ MuxWorks

(* detach-window --target-tab, then move_to_screen_edge. *)
JoinTab ==
  /\ job.pc = "join"
  /\ IF lay[job.target] = Closed THEN UNCHANGED Screen /\ Concludes("error")
     ELSE /\ IF job.pane \in PanesOf(lay[job.target]) THEN UNCHANGED Screen
             ELSE Moves(job.pane, job.target,
                        SplitAt(lay[job.target], Lowest(PanesOf(lay[job.target])), "east", job.pane), onScreen)
          /\ Step([job EXCEPT !.pc = "edge"])
  /\ UNCHANGED <<mux, queued, begun>> /\ MuxWorks

MoveToEdge ==
  /\ job.pc = "edge" /\ Concludes("done")
  /\ LET w == WindowOf(job.pane)
     IN  Display([lay EXCEPT ![w] = AtScreenEdge(Without(@, job.pane), Opposite(job.dir), job.pane)],
                active, onScreen, seen)
  /\ UNCHANGED <<mux, queued, begun>> /\ MuxWorks

-----------------------------------------------------------------------------
(* Failures, the user and the emulator *)

(* A command fails.  A lookup of kitty still gives the focus back if it got as *)
(* far as to take it, a restore that fails is ignored, a placement that    *)
(* failed leaves the pane where the merge put it; wezterm's question after *)
(* a neighbour that fails counts as a no.                                  *)
CommandFails ==
  /\ job.pc # "idle" /\ muxCount.trouble < MaxMuxTrouble
  /\ ~(job.pc = "ask" /\ mux.kind = "kitty")
  /\ muxCount' = [muxCount EXCEPT !.trouble = @ + 1]
  /\ CASE job.pc \in {"hop", "look"} -> Step([job EXCEPT !.pc = "restore", !.outcome = "error"])
       [] job.pc = "restore" -> AfterLookup
       [] job.pc = "ask" -> Decided(FALSE)
       [] job.pc = "edge" -> Step([job EXCEPT !.pc = "aside"])
       [] job.pc = "aside" -> Concludes("done")
       [] OTHER -> Concludes("error")
  /\ begun' = [begun EXCEPT !.clean = @ /\ job.pc \notin {"restore", "ask"}]
  /\ UNCHANGED <<mux, Screen, queued>>

(* list-clients that fails counts as no client. *)
ClientsUnheard ==
  /\ job.pc # "idle" /\ mux.clients # {} /\ muxCount.trouble < MaxMuxTrouble
  /\ muxCount' = [muxCount EXCEPT !.trouble = @ + 1]
  /\ mux' = [mux EXCEPT !.clients = {}] /\ begun' = [begun EXCEPT !.clean = FALSE]
  /\ UNCHANGED <<Screen, job, queued>>

UserFocusesPane ==
  /\ muxCount.trouble < MaxMuxTrouble /\ muxCount' = [muxCount EXCEPT !.trouble = @ + 1]
  /\ \/ \E w \in (OpenWindows \cup {0}) \ {onScreen} : Display(lay, active, w, seen)
     \/ /\ onScreen # 0
        /\ \E p \in PanesOf(lay[onScreen]) \ {active[onScreen]} :
             Display(lay, [active EXCEPT ![onScreen] = p], onScreen, seen)
  /\ begun' = [begun EXCEPT !.clean = FALSE]
  /\ UNCHANGED <<mux, job, queued>>

(* kitty notices that none of its windows has the focus, a client of wezterm *)
(* keeps the last one.                                                     *)
CatchUp ==
  /\ seen # onScreen /\ (onScreen = 0 => mux.kind = "kitty")
  /\ seen' = onScreen
  /\ UNCHANGED <<mux, lay, active, onScreen, job, queued, begun, muxCount>>

(* The configuration of the emulator carries the merge out (it is not in the *)
(* repository: into which pane is not known here).                         *)
TakesQueued ==
  /\ queued # {} /\ queued' = {}
  /\ UNCHANGED <<mux, Screen, job, begun, muxCount>>

MuxNext ==
  \/ BeginMux \/ ReadList \/ CountPanes \/ ReadPane \/ AskDirection
  \/ ReadOriginal \/ GoToPane \/ HopToNeighbor \/ LookAround \/ RestoreFocus
  \/ Focuses \/ ReadArgument \/ Resizes \/ MovesWindow \/ Splits \/ MovesOut
  \/ Capture \/ ShowTarget \/ AimWezterm \/ AimKitty \/ ReadTab \/ JoinTab \/ MoveToEdge
  \/ CommandFails \/ ClientsUnheard \/ UserFocusesPane \/ CatchUp \/ TakesQueued

(* The windows are numbered by their oldest panes. *)
MuxInit ==
  /\ lay \in {l \in [MuxWindow -> MuxLayouts] :
              /\ UNION {PanesOf(l[w]) : w \in MuxWindow} = MuxPane
              /\ \A v, w \in MuxWindow : v # w => PanesOf(l[v]) \cap PanesOf(l[w]) = {}
              /\ \A w \in MuxWindow : l[w].groups = <<>> => l[w] = Closed
              /\ \A v, w \in MuxWindow : v < w /\ l[w] # Closed =>
                   l[v] # Closed /\ Lowest(PanesOf(l[v])) < Lowest(PanesOf(l[w]))}
  /\ active \in {a \in [MuxWindow -> MuxPane \cup {0}] :
                 \A w \in MuxWindow : IF lay[w] = Closed THEN a[w] = 0 ELSE a[w] \in PanesOf(lay[w])}
  /\ onScreen \in OpenWindows /\ seen = onScreen
  /\ mux \in Emulators
  /\ job = NoJob /\ queued = {}
  /\ begun = [pane |-> 0, active |-> active, clean |-> FALSE]
  /\ muxCount = [ops |-> 0, trouble |-> 0]

MuxSpec == MuxInit /\ [][MuxNext]_muxVars

MuxTypeOK ==
  /\ \A w \in MuxWindow : lay[w] \in MuxLayouts /\ (active[w] = 0 <=> lay[w] = Closed)
  /\ UNION {PanesOf(lay[w]) : w \in MuxWindow} = MuxPane
  /\ onScreen \in OpenWindows \cup {0} /\ seen \in OpenWindows \cup {0}

-----------------------------------------------------------------------------
(* What kitty is asked leaves the focus as it was (kitty.rs:270): unless the *)
(* user came in between, or the focus could not be read or given back, no  *)
(* pane has become active when the call has decided what to do, or has     *)
(* found nothing to do.                                                    *)
LookupsLeaveFocus ==
  begun.clean /\ (job.pc \in {"arg", "focus", "capture"} \/ (job.pc = "idle" /\ job.outcome = "passed"))
    => active = begun.active

(* Undisturbed, a move takes out of its window, or merges, the pane the user *)
(* looked at and none else; it is torn out only if nothing lies in the way *)
(* and it leaves other panes behind (mux.rs:127, kitty.rs:447, wezterm.rs:639). *)
OnlyShownPaneLeaves ==
  [][begun.clean /\ job.pc # "idle" => \A p \in MuxPane :
       (\E w \in MuxWindow : p \in PanesOf(lay[w]) /\ p \notin PanesOf(lay'[w])) =>
         /\ p = begun.pane
         /\ job.pc = "out" => Near(p, job.dir) = {} /\ PanesOf(lay[WindowOf(p)]) # {p}]_muxVars

(* A merge puts the pane into the window that the session has focused        *)
(* (wezterm.rs:105: \"explicit window filtering\"), unless the compositor's     *)
(* numbers are those of other windows of the emulator.                     *)
MergesIntoShown ==
  [][begun.clean /\ job.pc \in {"split", "join"} /\ job.what = "merge" /\ lay' # lay
       /\ (\A w \in MuxWindow : mux.wmIds[w] \notin MuxWindow) => active'[onScreen] = job.pane]_muxVars

(* The same without that exception: the hint names the window to merge into. *)
MergesIntoHintedWindow ==
  [][begun.clean /\ job.pc = "split" /\ job.what = "merge" /\ job.hint # 0 /\ lay' # lay
       => active'[onScreen] = job.pane]_muxVars
====
