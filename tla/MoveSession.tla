---------------------------- MODULE MoveSession ----------------------------
(***************************************************************************)
(* One `yny move <dir>' request: the app-adapter chain of the focused      *)
(* window is asked first (innermost layer first), then a cross-window      *)
(* transfer is tried, then the window manager moves the window.            *)
(*                                                                         *)
(* The control is engine/actions/{orchestrator,context,movement,merge,     *)
(* probe,tearout}.rs.  Every call to the window manager or to an adapter   *)
(* is one step, so that the user, the applications and other `yny'         *)
(* processes act in between, and every call may fail.  The window layout   *)
(* is not kept: focusing in a direction may land on any window.            *)
(***************************************************************************)
EXTENDS Integers, Sequences, FiniteSets

CONSTANTS
  Window,        \* native window ids; numbers, since the code orders by id
  Pane,          \* units of content the adapters move between windows
  Adapter,       \* adapter names
  NoAdapter,     \* a probe that accepts any window
  Chain,         \* Chain[w]: adapters resolve_app_chain finds for w
  Profile,       \* Profile[a]: what adapter a can do once policy is applied
  Pid, AppId,    \* attributes of windows used to recognise a torn-out one
  Transferable,  \* <<v, w>>: a registered domain converts content of v for w
  CanPlace,      \* plan_tear_out is not Unsupported on this window manager
  InitPlace,     \* InitPlace[p]: window pane p starts in
  MaxLayers,     \* length of the longest chain
  MaxPolls,      \* tear-out polls (ATTEMPTS in the code)
  MaxFail,       \* bound: failing calls in a behaviour
  MaxEnv,        \* bound: acts of the user and of other programs
  MaxRequests    \* bound: requests in a behaviour

NoWindow == 0        \* no window; ids are positive
Detached == -1       \* place of a pane broken out of its window, shown nowhere
Gone     == -2       \* place of a pane whose window was closed over it

Layer == 1..MaxLayers

AdapterProfile ==
  [terminal : BOOLEAN,       \* AppKind::Terminal
   merge : BOOLEAN, focus : BOOLEAN, tearOut : BOOLEAN,  \* capabilities()
   moveAllowed : BOOLEAN,    \* policy.move_allowed(dir)
   targetFocused : BOOLEAN,  \* merge_execution_mode()
   spawns : BOOLEAN,         \* move_out returns a spawn_command
   wholeWindow : BOOLEAN]    \* its panes are all the window shows

ASSUME ConstantsAssumption ==
  /\ Window \subseteq Nat \ {0} /\ IsFiniteSet(Window)
  /\ MaxLayers \in Nat /\ MaxPolls \in Nat
  /\ MaxFail \in Nat /\ MaxEnv \in Nat /\ MaxRequests \in Nat
  /\ Chain \in [Window -> Seq(Adapter)]
  /\ \A w \in Window : Len(Chain[w]) <= MaxLayers
  /\ Profile \in [Adapter -> AdapterProfile]
  /\ Transferable \subseteq Window \X Window
  /\ CanPlace \in BOOLEAN
  /\ InitPlace \in [Pane -> Window]

VARIABLES
  windows,   \* windows the compositor shows
  used,      \* ids handed out so far (ids are never reused)
  focus,     \* focused window, or NoWindow
  at,        \* at[p]: the window showing pane p, Detached or Gone
  expected,  \* panes whose new window has been requested and will appear
  pc,        \* next step of the request
  s,         \* session: source window, layer, outer layer, cargo and target
  probe,     \* directional probe in progress: focus mode, adapter, caller
  offset,    \* offset[k]: net pane-focus displacement layer k was left with
  pre,       \* window ids before the tear-out
  polls,     \* polls done
  h,         \* what the request did so far (history)
  fails, envs, requests   \* counters for the bounds

wmVars   == <<windows, used, focus, at, expected>>
envVars  == <<fails, envs, requests>>
vars == <<windows, used, focus, at, expected, pc, s, probe, offset, pre,
          polls, h, fails, envs, requests>>

PcValues ==
  {"idle", "layer", "prepare", "probe", "probeRead", "probeRestore",
   "probeMatch", "inPlace", "inPlaceRead", "mergeInPlace", "merge",
   "refocus", "cleanupFocus", "cleanupClose", "unmerged", "snapshot",
   "moveOut", "spawn", "poll", "focusNew", "placeFocus", "placeRead",
   "place", "route", "transfer", "wmMove"}

\* origin: window focused when the request began; relocations: panes moved by
\* adapters; late: calls that failed after taking effect; shifted/by: window the
\* window manager moved and why; disturbed: a restoring call failed or others
\* moved the focus; snapOk: the pre-tear-out snapshot was read; stray: an adapter
\* acted while an outer layer's pane focus was displaced; result: how the request
\* ended.
Fresh(w) ==
  [origin |-> w, relocations |-> 0, late |-> 0, shifted |-> NoWindow,
   by |-> "none", disturbed |-> FALSE, snapOk |-> TRUE, stray |-> FALSE, result |-> "none"]

History ==
  [origin : Window \cup {NoWindow}, relocations : Nat, late : Nat,
   shifted : Window \cup {NoWindow}, by : {"none", "fallback", "placement"},
   disturbed : BOOLEAN, snapOk : BOOLEAN, stray : BOOLEAN,
   result : {"none", "ok", "appErr", "wmErr"}]

Session ==
  [source : Window \cup {NoWindow}, layer : Nat, outer : Nat,
   cargo : SUBSET Pane, target : Window \cup {NoWindow}]

NoSession ==
  [source |-> NoWindow, layer |-> 1, outer |-> 1, cargo |-> {}, target |-> NoWindow]

NoProbe == [keep |-> FALSE, adapter |-> NoAdapter, caller |-> "route"]

Init ==
  /\ windows = {InitPlace[p] : p \in Pane}
  /\ used = windows
  /\ focus \in windows
  /\ at = InitPlace
  /\ expected = {}
  /\ pc = "idle"
  /\ s = NoSession
  /\ probe = NoProbe
  /\ offset = [k \in Layer |-> 0]
  /\ pre = {} /\ polls = 0
  /\ h = Fresh(NoWindow)
  /\ fails = 0 /\ envs = 0 /\ requests = 0

----------------------------------------------------------------------------
(* Reading the state                                                       *)

PanesIn(w) == {p \in Pane : at[p] = w}

LayersOf(w) == 1..Len(Chain[w])

\* The adapter consulted now.
App == Chain[s.source][s.layer]

\* resolve_adapter_for_window finds adapter a behind window w.
Resolves(a, w) == \E k \in LayersOf(w) : Chain[w][k] = a

\* What PolicyBoundApp lets adapter a answer.  An adapter whose panes are all
\* its window shows counts them (MoveSurface::decision_for); another one may
\* answer anything for the part of the window it knows.
Decisions(a, w) ==
  LET single == ~Profile[a].wholeWindow \/ Cardinality(PanesIn(w)) <= 1
      several == ~Profile[a].wholeWindow \/ Cardinality(PanesIn(w)) > 1
  IN  IF ~Profile[a].moveAllowed THEN {"Passthrough"}
      ELSE {d \in {"Passthrough", "Internal", "Rearrange", "TearOut"} :
              /\ d = "Passthrough" => single \/ (several /\ ~Profile[a].tearOut)
              /\ d \in {"Internal", "Rearrange"} => several
              /\ d = "TearOut" => several /\ Profile[a].tearOut}

Displaced == \E k \in Layer : offset[k] # 0

----------------------------------------------------------------------------
(* select_tearout_window_id: new windows win over the focused one; among    *)
(* them process and application decide, and then the smallest id.           *)

MinOf(S) == CHOOSE w \in S : \A v \in S : w <= v

SelectTearOutUnfiltered(before, now, focused, source) ==
  IF now = {} THEN NoWindow ELSE MinOf(now)

SelectTearOut(before, now, focused, source) ==
  LET new == now \ before
      samePid == {w \in new : Pid[w] = Pid[source]}
      sameApp == {w \in new : AppId[w] = AppId[source]}
      best == IF samePid \cap sameApp # {} THEN samePid \cap sameApp
              ELSE IF samePid # {} THEN samePid
              ELSE IF sameApp # {} THEN sameApp
              ELSE IF focused \in new THEN {focused}
              ELSE new
  IN  IF new # {} THEN MinOf(best)
      ELSE IF focused \in now \ {source} THEN focused
      ELSE NoWindow

----------------------------------------------------------------------------
(* Building blocks of the steps                                            *)

\* A call fails (and the behaviour has failures left).
Failing == fails < MaxFail /\ fails' = fails + 1
Working == UNCHANGED fails

Goto(label) == pc' = label /\ UNCHANGED h

\* The request ends and reports r: an error is propagated with `?'.
Finish(hist, r) == pc' = "idle" /\ h' = [hist EXCEPT !.result = r]

\* What the request reports after an error that is only logged.
LoggedErrorPropagated == "wmErr"
LoggedError == "ok"

\* focus_window_by_id(w) returning Ok or an error; a compositor may accept an
\* id it no longer knows.
FocusCall(w, ok) ==
  \/ ok /\ w \in windows /\ focus' = w /\ Working
  \/ w \notin windows /\ UNCHANGED focus /\ Working
  \/ ~ok /\ w \in windows /\ UNCHANGED focus /\ Failing

\* Window w goes, with all it shows; the compositor focuses what it likes.
Removed(w) ==
  /\ windows' = windows \ {w}
  /\ at' = [p \in Pane |-> IF at[p] = w THEN Gone ELSE at[p]]
  /\ IF focus # w THEN UNCHANGED focus
     ELSE IF windows \ {w} = {} THEN focus' = NoWindow
     ELSE focus' \in windows \ {w}

MovePanes(ps, place) == at' = [p \in Pane |-> IF p \in ps THEN place ELSE at[p]]

\* An adapter took effect on content: by a call that succeeded, or (late) by
\* one that then reported failure.
Counted(late) ==
  [h EXCEPT !.relocations = @ + 1, !.late = IF late THEN @ + 1 ELSE @]
Relocated(late) == [Counted(late) EXCEPT !.stray = @ \/ Displaced]

Disturbed(hist, b) == [hist EXCEPT !.disturbed = @ \/ b]
Shifted(why) == [h EXCEPT !.shifted = focus, !.by = why]

\* Where a layer's refusal leads: the next layer of the chain.
NextLayerStuck == UNCHANGED s /\ Goto("layer")
NextLayer == s' = [s EXCEPT !.layer = @ + 1] /\ Goto("layer")

\* The pair of focus modes: RestoreSource and KeepTarget.
RestoresSourceSwapped(keep) == keep
RestoresSource(keep) == ~keep

StartProbe(keep, adapter, caller) ==
  probe' = [keep |-> keep, adapter |-> adapter, caller |-> caller] /\ Goto("probe")

\* The probe found no (matching) window.
ProbeNone ==
  CASE probe.caller = "merge" -> "unmerged"
    [] probe.caller = "tearCheck" -> "snapshot"
    [] probe.caller = "route" -> "wmMove"

----------------------------------------------------------------------------
(* The request and its chain of adapters: with_focused_app_session,         *)
(* MoveExecution::run and handle_move_decision                              *)

Begin ==
  /\ pc = "idle" /\ requests < MaxRequests /\ requests' = requests + 1
  /\ focus # NoWindow
  /\ s' = [NoSession EXCEPT !.source = focus]
  /\ pc' = "layer" /\ h' = Fresh(focus)
  /\ offset' = [k \in Layer |-> 0]
  /\ pre' = {} /\ polls' = 0
  /\ UNCHANGED <<wmVars, probe, fails, envs>>

\* The focused window cannot be read.
BeginFails ==
  /\ pc = "idle" /\ requests < MaxRequests /\ requests' = requests + 1
  /\ Failing \/ (Working /\ focus = NoWindow)
  /\ h' = [Fresh(focus) EXCEPT !.result = "wmErr"]
  /\ UNCHANGED <<wmVars, pc, s, probe, offset, pre, polls, envs>>

ChainExhausted ==
  /\ pc = "layer" /\ s.layer \notin LayersOf(s.source)
  /\ Goto("route")
  /\ UNCHANGED <<wmVars, s, probe, offset, pre, polls, envVars>>

LayerDecides ==
  /\ pc = "layer" /\ s.layer \in LayersOf(s.source)
  /\ \E d \in Decisions(App, s.source) :
       \/ d = "Passthrough" /\ Goto(IF Profile[App].merge THEN "prepare" ELSE "unmerged")
       \/ d = "TearOut" /\ Goto("snapshot")
       \/ d \in {"Internal", "Rearrange"} /\ Finish(Relocated(FALSE), "ok")
  /\ UNCHANGED <<wmVars, s, probe, offset, pre, polls, envVars>>

\* move_decision, move_internal or rearrange returns an error, the last two
\* possibly after having moved the pane.
LayerFails ==
  /\ pc = "layer" /\ s.layer \in LayersOf(s.source)
  /\ Profile[App].moveAllowed /\ Failing
  /\ \/ Finish(h, "appErr")
     \/ /\ Decisions(App, s.source) \cap {"Internal", "Rearrange"} # {}
        /\ Finish(Relocated(TRUE), "appErr")
  /\ UNCHANGED <<wmVars, s, probe, offset, pre, polls, envs, requests>>

\* A terminal whose pane could not be merged is torn out unless a window of the
\* same adapter lies in that direction; any other adapter yields to the next.
Unmerged ==
  /\ pc = "unmerged"
  /\ IF Profile[App].terminal /\ Profile[App].tearOut
     THEN StartProbe(FALSE, App, "tearCheck") /\ UNCHANGED s
     ELSE NextLayer /\ UNCHANGED probe
  /\ UNCHANGED <<wmVars, offset, pre, polls, envVars>>

----------------------------------------------------------------------------
(* DirectionalWindowProbe                                                  *)

ProbeFocus ==
  /\ pc = "probe"
  /\ \/ Working /\ focus' \in windows \cup {focus} /\ Goto("probeRead")
     \/ Failing /\ UNCHANGED focus /\ Goto(ProbeNone)
  /\ UNCHANGED <<windows, used, at, expected, s, probe, offset, pre, polls,
                 envs, requests>>

ProbeRead ==
  /\ pc = "probeRead" /\ focus # NoWindow
  /\ \/ focus = s.source /\ Goto(ProbeNone) /\ UNCHANGED s
     \/ /\ focus # s.source
        /\ s' = [s EXCEPT !.target = focus]
        /\ Goto(IF RestoresSource(probe.keep) THEN "probeRestore" ELSE "probeMatch")
  /\ UNCHANGED <<wmVars, probe, offset, pre, polls, envVars>>

\* The target cannot be read: restore the source, whatever that returns.
ProbeReadFails ==
  /\ pc = "probeRead"
  /\ \/ focus = NoWindow /\ Working /\ UNCHANGED focus
     \/ Failing /\ s.source \in windows /\ focus' = s.source
     \/ Failing /\ UNCHANGED focus
  /\ Finish(Disturbed(h, focus' # s.source), "wmErr")
  /\ UNCHANGED <<windows, used, at, expected, s, probe, offset, pre, polls,
                 envs, requests>>

ProbeRestore ==
  /\ pc = "probeRestore"
  /\ \/ FocusCall(s.source, TRUE) /\ Goto("probeMatch")
     \/ /\ FocusCall(s.source, FALSE)
        /\ Finish(Disturbed(h, TRUE), "wmErr")
  /\ UNCHANGED <<windows, used, at, expected, s, probe, offset, pre, polls,
                 envs, requests>>

\* window_matching_adapter hands the target to its caller, or drops it.
ProbeMatch ==
  /\ pc = "probeMatch"
  /\ IF probe.adapter = NoAdapter \/ Resolves(probe.adapter, s.target)
     THEN CASE probe.caller = "merge" -> Goto("merge") /\ UNCHANGED s
            [] probe.caller = "tearCheck" -> NextLayer
            [] probe.caller = "route" -> Goto("transfer") /\ UNCHANGED s
     ELSE Goto(IF probe.keep THEN "refocus" ELSE ProbeNone) /\ UNCHANGED s
  /\ UNCHANGED <<wmVars, probe, offset, pre, polls, envVars>>

\* `let _ = focus_window_by_id(source)' after a target-focused merge did not
\* happen: a failure is ignored.
Refocus ==
  /\ pc = "refocus" /\ pc' = "unmerged"
  /\ \E ok \in BOOLEAN : FocusCall(s.source, ok)
  /\ h' = Disturbed(h, focus' # s.source)
  /\ UNCHANGED <<windows, used, at, expected, s, probe, offset, pre, polls,
                 envs, requests>>

----------------------------------------------------------------------------
(* attempt_passthrough_merge                                               *)

PrepareMerge ==
  /\ pc = "prepare"
  /\ \/ /\ Working
        /\ \E p \in PanesIn(s.source) :
             s' = [s EXCEPT !.cargo = {p}, !.outer = s.layer + 1]
        /\ IF Profile[App].targetFocused THEN Goto("inPlace") /\ UNCHANGED probe
           ELSE StartProbe(FALSE, App, "merge")
     \/ /\ Failing \/ (Working /\ PanesIn(s.source) = {})
        /\ Goto("unmerged") /\ UNCHANGED <<s, probe>>
  /\ UNCHANGED <<wmVars, offset, pre, polls, envs, requests>>

\* Layer k focuses in the direction of the move, or in the opposite one.
FocusAlong(k) == [offset EXCEPT ![k] = @ + 1]
FocusBack(k) == [offset EXCEPT ![k] = @ - 1]

\* Outer layers that may move the pane focus inside the source window.
FocusingOuter == {k \in LayersOf(s.source) : k > s.layer /\ Profile[Chain[s.source][k]].focus}

\* probe_in_place_target_for_adapter: the next outer layer that can focus in
\* the direction does so; without one the window manager is probed.
InPlaceFocus ==
  /\ pc = "inPlace"
  /\ \/ /\ s.outer \notin LayersOf(s.source)
        /\ StartProbe(TRUE, App, "merge") /\ UNCHANGED <<s, offset>>
     \/ /\ s.outer \in LayersOf(s.source)    \* no capability, or can_focus is false
        /\ s' = [s EXCEPT !.outer = @ + 1] /\ Goto("inPlace")
        /\ UNCHANGED <<probe, offset>>
     \/ /\ s.outer \in FocusingOuter
        /\ offset' = FocusAlong(s.outer) /\ Goto("inPlaceRead")
        /\ UNCHANGED <<s, probe>>
  /\ UNCHANGED <<wmVars, pre, polls, envVars>>

InPlaceFocusFails ==
  /\ pc = "inPlace" /\ s.outer \in FocusingOuter
  /\ Failing /\ Finish(h, "appErr")
  /\ UNCHANGED <<wmVars, s, probe, offset, pre, polls, envs, requests>>

\* The pane now focused must still be in the source window and run the adapter;
\* if it does not run it the outer layer focuses back, errors ignored.
InPlaceRead ==
  /\ pc = "inPlaceRead" /\ focus = s.source
  /\ \/ Goto("mergeInPlace") /\ Working /\ UNCHANGED <<s, offset>>
     \/ /\ s' = [s EXCEPT !.outer = @ + 1] /\ pc' = "inPlace"
        /\ \/ Working /\ offset' = FocusBack(s.outer) /\ UNCHANGED h
           \/ Failing /\ UNCHANGED offset /\ h' = Disturbed(h, TRUE)
  /\ UNCHANGED <<wmVars, probe, pre, polls, envs, requests>>

InPlaceLeftWindow ==
  /\ pc = "inPlaceRead" /\ focus \notin {s.source, NoWindow}
  /\ \E ok \in BOOLEAN : FocusCall(s.source, ok)
  /\ s' = [s EXCEPT !.outer = @ + 1] /\ pc' = "inPlace"
  /\ h' = Disturbed(h, focus' # s.source)
  /\ UNCHANGED <<windows, used, at, expected, probe, offset, pre, polls, envs, requests>>

InPlaceReadFails ==
  /\ pc = "inPlaceRead"
  /\ Failing \/ (Working /\ focus = NoWindow)
  /\ Finish(h, "wmErr")
  /\ UNCHANGED <<wmVars, s, probe, offset, pre, polls, envs, requests>>

MergeInPlaceUnreported ==
  /\ pc = "mergeInPlace" /\ Working /\ pc' = "unmerged"
  /\ h' = Counted(FALSE)
  /\ UNCHANGED <<wmVars, s, probe, offset, pre, polls, envs, requests>>

\* The content joins the neighbouring pane of the same window.
MergeInPlace ==
  /\ pc = "mergeInPlace" /\ Working
  /\ Finish(Counted(FALSE), "ok")
  /\ UNCHANGED <<wmVars, s, probe, offset, pre, polls, envs, requests>>

\* The merge fails, perhaps after taking effect, and restore_in_place_target_focus
\* lets the first outer layer that can focus in the opposite direction do so,
\* whichever layer had moved; its own failure is ignored.
MergeInPlaceFails ==
  /\ pc = "mergeInPlace" /\ pc' = "unmerged"
  /\ \E hist \in {h, Counted(TRUE)}, restored \in BOOLEAN :
       /\ h' = Disturbed(hist, ~restored)
       /\ fails' = fails + (IF restored THEN 1 ELSE 2) /\ fails' <= MaxFail
       /\ IF ~restored THEN UNCHANGED offset
          ELSE \E k \in FocusingOuter :
                 /\ \A j \in FocusingOuter : j < k => offset[j] <= 0
                 /\ offset' = FocusBack(k)
  /\ UNCHANGED <<wmVars, s, probe, pre, polls, envs, requests>>

MergePossible == s.target \in windows /\ \A p \in s.cargo : at[p] = s.source

Merge ==
  /\ pc = "merge" /\ MergePossible
  /\ MovePanes(s.cargo, s.target)
  /\ pc' = "cleanupFocus"
  /\ h' = Relocated(FALSE)
  /\ UNCHANGED <<windows, used, focus, expected, s, probe, offset, pre, polls, envVars>>

\* merge_into_target fails, before or after taking effect, or the adapter is no
\* longer found behind the target.
MergeFails ==
  /\ pc = "merge"
  /\ pc' = IF Profile[App].targetFocused THEN "refocus" ELSE "unmerged"
  /\ \/ Failing /\ UNCHANGED <<at, h>>
     \/ Working /\ ~MergePossible /\ UNCHANGED <<at, h>>
     \/ /\ Failing /\ MergePossible
        /\ MovePanes(s.cargo, s.target) /\ h' = Relocated(TRUE)
  /\ UNCHANGED <<windows, used, focus, expected, s, probe, offset, pre, polls,
                 envs, requests>>

\* The window closed once the merge is done.
ClosedAfterMergeSwapped == s.target
ClosedAfterMerge == s.source

\* cleanup_merged_source_window: focus the target, close the source; neither
\* failure is reported, and the second call is made whatever the first returns.
\* The application may also keep its window, as when it asks its user first.
CleanupFocus ==
  /\ pc = "cleanupFocus" /\ Goto("cleanupClose")
  /\ \E ok \in BOOLEAN : FocusCall(s.target, ok)
  /\ UNCHANGED <<windows, used, at, expected, s, probe, offset, pre, polls, envs, requests>>

CleanupClose ==
  /\ pc = "cleanupClose"
  /\ \/ /\ s.source \in windows /\ s.source # s.target
        /\ Removed(ClosedAfterMerge) /\ Working
        /\ Finish(h, "ok")
     \/ /\ s.source \notin windows \/ s.source = s.target
        /\ UNCHANGED <<windows, focus, at>> /\ Working /\ Finish(h, "ok")
     \/ /\ s.source \in windows /\ s.source # s.target
        /\ UNCHANGED <<windows, focus, at>>
        /\ (Working /\ Finish(h, "ok")) \/ (Failing /\ Finish(h, LoggedError))
  /\ UNCHANGED <<used, expected, s, probe, offset, pre, polls, envs, requests>>

----------------------------------------------------------------------------
(* execute_app_tear_out                                                    *)

Snapshot ==
  /\ pc = "snapshot" /\ pc' = "moveOut"
  /\ \/ Working /\ pre' = windows /\ UNCHANGED h
     \/ Failing /\ pre' = {} /\ h' = [h EXCEPT !.snapOk = FALSE]
  /\ UNCHANGED <<wmVars, s, probe, offset, polls, envs, requests>>

\* The pane leaves its window: for a window the adapter has opened itself, or
\* for one the window manager is about to be asked to spawn.
MoveOut ==
  /\ pc = "moveOut" /\ Profile[App].moveAllowed
  /\ \E p \in PanesIn(s.source) :
       /\ MovePanes({p}, Detached) /\ s' = [s EXCEPT !.cargo = {p}]
       /\ expected' = IF Profile[App].spawns THEN expected ELSE expected \cup {p}
  /\ pc' = IF Profile[App].spawns THEN "spawn" ELSE "poll"
  /\ h' = Relocated(FALSE)
  /\ UNCHANGED <<windows, used, focus, probe, offset, pre, polls, envVars>>

\* move_out is refused by the policy, or fails, before or after the pane left.
MoveOutFails ==
  /\ pc = "moveOut"
  /\ \/ /\ Failing \/ (Working /\ (~Profile[App].moveAllowed \/ PanesIn(s.source) = {}))
        /\ Finish(h, "appErr") /\ UNCHANGED <<at, s>>
     \/ /\ Failing /\ Profile[App].moveAllowed
        /\ \E p \in PanesIn(s.source) :
             MovePanes({p}, Detached) /\ s' = [s EXCEPT !.cargo = {p}]
        /\ Finish(Relocated(TRUE), "appErr")
  /\ UNCHANGED <<windows, used, focus, expected, probe, offset, pre, polls, envs, requests>>

SpawnErrorSwallowed ==
  /\ pc = "spawn"
  /\ \/ Working /\ expected' = expected \cup s.cargo /\ Goto("poll")
     \/ Failing /\ UNCHANGED expected /\ Finish(h, "ok")
  /\ UNCHANGED <<windows, used, focus, at, s, probe, offset, pre, polls, envs, requests>>

Spawn ==
  /\ pc = "spawn"
  /\ \/ Working /\ expected' = expected \cup s.cargo /\ Goto("poll")
     \/ Failing /\ UNCHANGED expected /\ Finish(h, "wmErr")
  /\ UNCHANGED <<windows, used, focus, at, s, probe, offset, pre, polls, envs, requests>>

PollsLeftOffByOne == polls <= MaxPolls
PollsLeft == polls < MaxPolls

\* One round of wait_for_tearout_window_id; a failing snapshot is a round too.
Poll ==
  /\ pc = "poll" /\ PollsLeft
  /\ LET found == SelectTearOut(pre, windows, focus, s.source)
     IN  \/ /\ Working /\ found \in windows \ {s.source}
            /\ s' = [s EXCEPT !.target = found] /\ Goto("focusNew")
            /\ UNCHANGED polls
         \/ /\ IF found \in windows \ {s.source} THEN Failing ELSE Working
            /\ polls' = polls + 1
            /\ UNCHANGED <<s, pc, h>>
  /\ UNCHANGED <<wmVars, probe, offset, pre, envs, requests>>

PollsDone ==
  /\ pc = "poll" /\ ~PollsLeft
  /\ s' = [s EXCEPT !.target = NoWindow] /\ Goto("placeRead")
  /\ UNCHANGED <<wmVars, probe, offset, pre, polls, envVars>>

\* focus_tearout_window: when the new window cannot be focused it is forgotten.
FocusNew ==
  /\ pc = "focusNew"
  /\ \/ FocusCall(s.target, TRUE) /\ Goto("placeFocus")
     \/ FocusCall(s.target, FALSE) /\ Goto("placeRead")
  /\ UNCHANGED <<windows, used, at, expected, s, probe, offset, pre, polls, envs, requests>>

\* place_tearout_window: none of its failures is reported.
PlaceFocus ==
  /\ pc = "placeFocus"
  /\ \/ FocusCall(s.target, TRUE) /\ Goto("placeRead")
     \/ FocusCall(s.target, FALSE) /\ Finish(h, LoggedError)
  /\ UNCHANGED <<windows, used, at, expected, s, probe, offset, pre, polls, envs, requests>>

PlaceRead ==
  /\ pc = "placeRead"
  /\ \/ Working /\ focus \notin {s.source, NoWindow} /\ CanPlace /\ Goto("place")
     \/ Working /\ (focus \in {s.source, NoWindow} \/ ~CanPlace) /\ Finish(h, "ok")
     \/ Failing /\ Finish(h, LoggedError)
  /\ UNCHANGED <<wmVars, s, probe, offset, pre, polls, envs, requests>>

\* The window manager moves whatever is focused by now.
Place ==
  /\ pc = "place"
  /\ \/ Working /\ Finish(Shifted("placement"), "ok")
     \/ Failing /\ Finish(h, LoggedError)
  /\ UNCHANGED <<wmVars, s, probe, offset, pre, polls, envs, requests>>

----------------------------------------------------------------------------
(* execute_move_session once no adapter has handled the move               *)

RouteRead ==
  /\ pc = "route"
  /\ \/ /\ Working /\ focus # NoWindow
        /\ s' = [s EXCEPT !.source = focus] /\ StartProbe(FALSE, NoAdapter, "route")
     \/ /\ Failing \/ (Working /\ focus = NoWindow)
        /\ Finish(h, "wmErr") /\ UNCHANGED <<s, probe>>
  /\ UNCHANGED <<wmVars, offset, pre, polls, envs, requests>>

\* TransferOutcome::Applied ends the request.
TransferDoneAndMoved == pc' = "wmMove" /\ h' = Relocated(FALSE)
TransferDone == Finish(Relocated(FALSE), "ok")

\* attempt_same_domain_transfer, attempt_cross_domain_transfer: an error is
\* the same as a refusal, even one after the content has arrived.
Transfer ==
  /\ pc = "transfer"
  /\ \/ /\ <<s.source, s.target>> \in Transferable /\ s.target \in windows
        /\ \E p \in PanesIn(s.source) : MovePanes({p}, s.target)
        /\ \/ Working /\ TransferDone
           \/ Failing /\ pc' = "wmMove" /\ h' = Relocated(TRUE)
     \/ /\ IF /\ <<s.source, s.target>> \in Transferable
              /\ s.target \in windows /\ PanesIn(s.source) # {}
           THEN Failing ELSE Working
        /\ Goto("wmMove") /\ UNCHANGED at
  /\ UNCHANGED <<windows, used, focus, expected, s, probe, offset, pre, polls,
                 envs, requests>>

WmMove ==
  /\ pc = "wmMove"
  /\ \/ Working /\ Finish(Shifted("fallback"), "ok")
     \/ Failing /\ Finish(h, "wmErr")
  /\ UNCHANGED <<wmVars, s, probe, offset, pre, polls, envs, requests>>

----------------------------------------------------------------------------
(* The user, the applications and the compositor, between any two steps    *)

\* Others moved the focus, or changed what the request is looking at.
Disturb == h' = IF pc = "idle" THEN h ELSE Disturbed(h, TRUE)

Acts == envs < MaxEnv /\ envs' = envs + 1

UserFocuses ==
  /\ Acts /\ Disturb
  /\ focus' \in windows \ {focus}
  /\ UNCHANGED <<windows, used, at, expected, pc, s, probe, offset, pre, polls,
                 fails, requests>>

UserCloses ==
  /\ Acts /\ Disturb
  /\ \E w \in windows : Removed(w)
  /\ UNCHANGED <<used, expected, pc, s, probe, offset, pre, polls, fails, requests>>

\* A window that has nothing to do with the request opens.
StrangerAppears ==
  /\ Acts /\ Disturb
  /\ \E w \in Window \ used :
       windows' = windows \cup {w} /\ used' = used \cup {w} /\ focus' \in {focus, w}
  /\ UNCHANGED <<at, expected, pc, s, probe, offset, pre, polls, fails, requests>>

\* The window for a torn-out pane opens, at any time after it was asked for.
WindowAppears ==
  /\ \E p \in expected, w \in Window \ used :
       /\ windows' = windows \cup {w} /\ used' = used \cup {w}
       /\ focus' \in {focus, w}
       /\ at' = [at EXCEPT ![p] = w] /\ expected' = expected \ {p}
       /\ IF p \in s.cargo THEN UNCHANGED h ELSE Disturb
  /\ UNCHANGED <<pc, s, probe, offset, pre, polls, envVars>>

\* A window with nothing left to show closes itself.
EmptyVanishes ==
  /\ \E w \in windows :
       /\ PanesIn(w) = {} /\ Removed(w)
       /\ IF w \in {focus, s.source, s.target} THEN Disturb ELSE UNCHANGED h
  /\ UNCHANGED <<used, expected, pc, s, probe, offset, pre, polls, envVars>>

Environment ==
  UserFocuses \/ UserCloses \/ StrangerAppears \/ WindowAppears \/ EmptyVanishes

Request ==
  \/ ChainExhausted \/ LayerDecides \/ LayerFails \/ Unmerged
  \/ ProbeFocus \/ ProbeRead \/ ProbeReadFails \/ ProbeRestore \/ ProbeMatch \/ Refocus
  \/ PrepareMerge \/ InPlaceFocus \/ InPlaceFocusFails \/ InPlaceRead
  \/ InPlaceLeftWindow \/ InPlaceReadFails \/ MergeInPlace \/ MergeInPlaceFails
  \/ Merge \/ MergeFails \/ CleanupFocus \/ CleanupClose
  \/ Snapshot \/ MoveOut \/ MoveOutFails \/ Spawn \/ Poll \/ PollsDone
  \/ FocusNew \/ PlaceFocus \/ PlaceRead \/ Place
  \/ RouteRead \/ Transfer \/ WmMove

Next == Begin \/ BeginFails \/ Request \/ Environment

Spec == Init /\ [][Next]_vars

\* The process runs its next step: no call it makes blocks for ever.
FairSpec == Spec /\ WF_vars(Request)

----------------------------------------------------------------------------
(* Properties                                                              *)

ScreenOK ==
  /\ windows \subseteq used /\ used \subseteq Window
  /\ focus \in Window \cup {NoWindow}
  /\ at \in [Pane -> Window \cup {Detached, Gone}]
  /\ expected \subseteq Pane

ControlOK ==
  /\ pc \in PcValues
  /\ s \in Session
  /\ probe \in [keep : BOOLEAN, adapter : Adapter \cup {NoAdapter},
                caller : {"merge", "tearCheck", "route"}]
  /\ offset \in [Layer -> Int]
  /\ pre \subseteq Window /\ polls \in 0..MaxPolls

BoundsOK ==
  fails \in 0..MaxFail /\ envs \in 0..MaxEnv /\ requests \in 0..MaxRequests

TypeOK == ScreenOK /\ ControlOK /\ h \in History /\ BoundsOK

\* A request moves something once: content moved by an adapter or a transfer is
\* not moved again by a later layer or by the window manager's fallback, except
\* for a call that reported failure after it had taken effect (the error path of
\* merge_into_target and of a transfer goes on as if nothing had happened).
NoDoubleMove ==
  h.relocations + (IF h.by = "fallback" THEN 1 ELSE 0) <= h.late + 1

\* DirectionalWindowProbe and the ignored refocus calls put the focus back: if
\* nothing disturbs it, a request that ends in the fallback or in an error ends
\* with the focus it began with, and the fallback moves that very window.
FocusComesBack ==
  [][pc # "idle" /\ pc' = "idle" /\ ~h'.disturbed
       /\ (h'.by = "fallback" \/ h'.result \in {"appErr", "wmErr"}) =>
     focus' = h.origin /\ h'.shifted \in {NoWindow, h.origin}]_vars

\* place_tearout_window moves whatever has the focus; undisturbed, that is the
\* window which shows the pane just torn out and never an older one.
PlacesTornOutWindow ==
  [][h'.by = "placement" /\ h.by # "placement" /\ h'.snapOk /\ ~h'.disturbed =>
       h'.shifted \notin pre /\ \A p \in s.cargo : at[p] = h'.shifted]_vars

\* cleanup_merged_source_window closes the source after its pane has been merged
\* into the target ("Pane merged back, empty window closed", ARCHITECTURE.md):
\* no step of a request takes a pane with it.
ClosesOnlyEmptyWindows ==
  [][pc = "cleanupClose" /\ pc' = "idle" => \A p \in Pane : at'[p] = Gone => at[p] = Gone]_vars

\* No adapter changes the layout while an outer layer's pane focus is displaced
\* by probe_in_place_target_for_adapter (except the merge the probe was for).
InPlaceProbeIsUndone == h.stray => h.disturbed

\* A request that reports success leaves no pane without a window to come.
NothingStranded ==
  pc = "idle" /\ h.result = "ok" =>
    \A p \in s.cargo : at[p] = Detached => p \in expected

\* What the request has come to, as its caller could tell.
Stage ==
  IF pc = "idle" THEN "idle"
  ELSE IF h.relocations > h.late THEN "acted" ELSE "pending"

Contract == INSTANCE MoveContract WITH
  open <- windows, place <- at, stage <- Stage, outcome <- h.result

\* Every step of a request is a step of the contract: one effect, then the
\* report, and no window is closed while it shows something.
KeepsContract == Contract!Spec

\* Every request ends.
RequestEnds == (pc # "idle") ~> (pc = "idle")

============================================================================
