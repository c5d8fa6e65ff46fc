---- MODULE NiriSummon ----
(***************************************************************************)
(* `yny focus-or-cycle' on niri, with --summon: the next matching window   *)
(* is brought to the current workspace, and a second call on it takes it   *)
(* back (src/src/adapters/window_managers/niri.rs, focus_or_cycle,         *)
(* summon_or_return).  The origins are kept in a file that every call      *)
(* reads, changes and writes as a whole.                                   *)
(*                                                                         *)
(* Each call is a process; its requests to the compositor and its accesses *)
(* to the file are steps, between which the user, the compositor and other *)
(* calls act and at which it may end, by an error or killed.  fs::write is *)
(* two steps: the file is emptied, then written.                           *)
(***************************************************************************)
EXTENDS Naturals, FiniteSets

CONSTANTS Window, Space, Output, OutputOf, Proc,
          NoWindow, NoSpace, NoOutput, Torn,
          MaxCalls, MaxEnv, MaxDeaths

\* Functions on a subset of the windows: the code's HashMap.
Origin == [space : Space, output : Output \union {NoOutput}]
Origins == UNION {[S -> Origin] : S \in SUBSET Window}

ASSUME SummonAssumption == /\ OutputOf \in [Space -> Output]
                           /\ NoWindow \notin Window /\ NoSpace \notin Space /\ NoOutput \notin Output
                           /\ \A S \in SUBSET Window : Torn \notin [S -> Origin]

VARIABLES
  placeOf,   \* workspace of each window, NoSpace once closed
  spaces,    \* workspaces there are
  shownSpace, \* the workspace each output shows
  view,      \* the focused workspace
  focus,     \* the focused window
  stateFile, \* summon-state.json: origins by window; Torn: does not parse
  pc, read,  \* per process: its next step, what it has read and chosen
  home,      \* history: where a summoned window came from
  harmed,    \* history: windows whose record a death or an overlap may have spoilt, or a touch amid a call
  calls, envs, deaths

screen == <<placeOf, spaces, shownSpace, view, focus>>
bounds == <<calls, envs, deaths>>
summonVars == <<placeOf, spaces, shownSpace, view, focus, stateFile, pc, read, home, harmed, calls, envs, deaths>>

Live == {w \in Window : placeOf[w] # NoSpace}
NoCallRuns == \A p \in Proc : pc[p] = "idle"
\* Calls that have yet to read or to write the file.
AtWork(p) == pc[p] \notin {"idle", "focus"}

Keep(f, S) == [w \in DOMAIN f \intersect S |-> f[w]]
WithOrigin(f, w, o) == [v \in DOMAIN f \union {w} |-> IF v = w THEN o ELSE f[v]]

NoRead == [target |-> NoWindow, place |-> [w \in Window |-> NoSpace],
           focus |-> NoWindow, view |-> NoSpace, state |-> <<>>, dirty |-> FALSE,
           origin |-> NoSpace, output |-> NoOutput, back |-> FALSE]

SummonInit == /\ placeOf \in [Window -> Space]
              /\ spaces = Space
              /\ shownSpace \in [Output -> Space] /\ \A o \in Output : OutputOf[shownSpace[o]] = o
              /\ view \in {shownSpace[o] : o \in Output}
              /\ focus \in {w \in Window : placeOf[w] = view} \union {NoWindow}
              /\ stateFile = <<>>
              /\ pc = [p \in Proc |-> "idle"]
              /\ read = [p \in Proc |-> NoRead]
              /\ home = [w \in Window |-> NoSpace]
              /\ harmed = {}
              /\ calls = 0 /\ envs = 0 /\ deaths = 0

Set(p, step, rec) == pc' = [pc EXCEPT ![p] = step] /\ read' = [read EXCEPT ![p] = rec]
Step(p, step) == pc' = [pc EXCEPT ![p] = step] /\ UNCHANGED read

-----------------------------------------------------------------------------
(* A call *)

\* The matches are ordered by when they had the focus: the window after the
\* focused one comes next, or the first if the focused one does not match.
TargetsUnwrapped(want) == IF focus \in want THEN (want \ {focus}) \union {NoWindow} ELSE want
Targets(want) == IF focus \in want /\ want # {focus} THEN want \ {focus}
                 ELSE IF focus \in want THEN {focus} ELSE want

\* The windows of calls that overlap: what one notes of its own, another may overwrite with
\* what it read before.
Overlapping(t) == LET others == {read[q].target : q \in {r \in Proc : AtWork(r)}}
                  IN  IF others = {} THEN {} ELSE {t} \union others

\* The windows are read; a call without matches spawns, and ends.
BeginSummon(p) ==
  /\ pc[p] = "idle" /\ calls < MaxCalls
  /\ \E want \in SUBSET Live, summon \in BOOLEAN : \E t \in Targets(want) :
       IF summon
       THEN /\ Set(p, "spaces", [NoRead EXCEPT !.target = t, !.place = placeOf, !.focus = focus])
            /\ harmed' = harmed \union Overlapping(t)
       ELSE Set(p, "focus", [NoRead EXCEPT !.target = t]) /\ UNCHANGED harmed
  /\ calls' = calls + 1
  /\ UNCHANGED <<screen, stateFile, home, envs, deaths>>

ReadSpaces(p) ==
  /\ pc[p] = "spaces"
  /\ LET from == read[p].place[read[p].target]
     IN  Set(p, "load", [read[p] EXCEPT !.view = view,
                         !.output = IF from \in spaces THEN OutputOf[from] ELSE NoOutput])
  /\ UNCHANGED <<screen, stateFile, home, harmed, bounds>>

\* retain_live_summon_windows
PrunedToTarget(p) == Keep(stateFile, {read[p].target})
Pruned(p) == Keep(stateFile, {w \in Window : read[p].place[w] # NoSpace})

\* Where a window is from is where it was when it was read.
HereByView(p) == [space |-> read[p].view, output |-> OutputOf[read[p].view]]
Here(p) == [space |-> read[p].place[read[p].target], output |-> read[p].output]

\* The entry of a window that is away already stays.
FirstOrigin(state, w, o) == IF w \in DOMAIN state THEN state ELSE WithOrigin(state, w, o)

\* The focused window with a known origin goes back; any other comes here.
Returns(p) == read[p].target = read[p].focus /\ read[p].target \in DOMAIN Pruned(p)
Comes(p) == ~Returns(p) /\ read[p].place[read[p].target] # read[p].view

\* What has been read is not looked at again.
LoadFile(p) ==
  /\ pc[p] = "load" /\ stateFile # Torn
  /\ LET t == read[p].target
         state == Pruned(p)
         Chosen(st) == [NoRead EXCEPT !.target = t, !.state = st, !.dirty = st # stateFile]
     IN  \/ /\ Returns(p)
            /\ Set(p, "move", [Chosen(Keep(state, Window \ {t})) EXCEPT
                               !.origin = state[t].space, !.output = state[t].output,
                               !.back = TRUE])
         \/ /\ Comes(p)
            /\ Set(p, "move", [Chosen(FirstOrigin(state, t, Here(p))) EXCEPT
                               !.origin = read[p].view, !.output = OutputOf[read[p].view]])
         \/ /\ ~Returns(p) /\ ~Comes(p)
            /\ Set(p, IF state # stateFile THEN "open" ELSE "focus", Chosen(state))
  /\ UNCHANGED <<screen, stateFile, home, harmed, bounds>>

\* A file that does not parse ends the call.
LoadFails(p) == /\ pc[p] = "load" /\ stateFile = Torn
                /\ Set(p, "idle", NoRead)
                /\ UNCHANGED <<screen, stateFile, home, harmed, bounds>>

\* The compositor has moved window w to workspace s, if both exist; a focused
\* window that leaves the view leaves the focus to another.
WindowMoved(w, s) ==
  IF w \in Live /\ s \in spaces
  THEN /\ placeOf' = [placeOf EXCEPT ![w] = s]
       /\ IF w = focus /\ s # view
          THEN focus' \in {v \in Window \ {w} : placeOf[v] = view} \union {NoWindow}
          ELSE UNCHANGED focus
  ELSE UNCHANGED <<placeOf, focus>>

\* The origin comes with the first summons, and is history once back.
AwayFrom(p) == IF read[p].back THEN home
               ELSE [home EXCEPT ![read[p].target] = IF @ = NoSpace THEN placeOf[read[p].target] ELSE @]

\* move_window_to_workspace
MoveWindow(p) == /\ pc[p] = "move"
                 /\ WindowMoved(read[p].target, read[p].origin)
                 /\ home' = AwayFrom(p)
                 /\ Step(p, "monitor")
                 /\ UNCHANGED <<spaces, shownSpace, view, stateFile, harmed, bounds>>

Unsaved(p) == "focus"
Saved(p) == IF read[p].dirty THEN "open" ELSE "focus"

\* move_window_to_monitor: to the workspace the output shows, unless the window
\* is on that output already.
Monitor(p) ==
  /\ pc[p] = "monitor"
  /\ LET w == read[p].target IN
     /\ IF read[p].output # NoOutput /\ w \in Live /\ OutputOf[placeOf[w]] # read[p].output
        THEN WindowMoved(w, shownSpace[read[p].output])
        ELSE UNCHANGED <<placeOf, focus>>
     /\ home' = IF read[p].back THEN [home EXCEPT ![w] = NoSpace] ELSE home
  /\ Step(p, Saved(p))
  /\ UNCHANGED <<spaces, shownSpace, view, stateFile, harmed, bounds>>

\* save_summon_state: fs::write empties the file before it writes.
OpenFile(p) == /\ pc[p] = "open"
               /\ stateFile' = Torn
               /\ Step(p, "write")
               /\ harmed' = IF \E q \in Proc : pc[q] = "write" THEN Window ELSE harmed
               /\ UNCHANGED <<screen, home, bounds>>

\* Over what another call has written since, a shorter text leaves a rest that
\* does not parse.  A window taken back is not given the focus.
WriteFile(p) == /\ pc[p] = "write"
                /\ stateFile' \in {read[p].state} \union (IF stateFile = Torn THEN {} ELSE {Torn})
                /\ IF read[p].back THEN Set(p, "idle", NoRead) ELSE Step(p, "focus")
                /\ UNCHANGED <<screen, home, harmed, bounds>>

\* focus_window_by_id shows the workspace of the window.
FocusTarget(p) ==
  /\ pc[p] = "focus"
  /\ LET w == read[p].target IN
     IF w \in Live
     THEN /\ focus' = w /\ view' = placeOf[w]
          /\ shownSpace' = [shownSpace EXCEPT ![OutputOf[placeOf[w]]] = placeOf[w]]
     ELSE UNCHANGED <<focus, view, shownSpace>>
  /\ Set(p, "idle", NoRead)
  /\ UNCHANGED <<placeOf, spaces, stateFile, home, harmed, bounds>>

\* An error of the compositor or of the file system, or a kill.  It leaves a record spoilt
\* only between a move and what it saves of that, and the file only in the middle of fs::write.
Dies(p) == /\ pc[p] # "idle" /\ deaths < MaxDeaths
           /\ Set(p, "idle", NoRead)
           /\ harmed' = harmed \union (CASE pc[p] = "write" -> Window
                                       [] pc[p] \in {"monitor", "open"} -> {read[p].target}
                                       [] OTHER -> {})
           /\ deaths' = deaths + 1
           /\ UNCHANGED <<screen, stateFile, home, calls, envs>>

-----------------------------------------------------------------------------
(* The user and the compositor *)

Acts == envs < MaxEnv /\ envs' = envs + 1
Touches(w) == harmed' = IF \E p \in Proc : read[p].target = w THEN harmed \union {w} ELSE harmed

UserViews == /\ Acts
             /\ \E s \in spaces \ {view} :
                  /\ view' = s
                  /\ shownSpace' = [shownSpace EXCEPT ![OutputOf[s]] = s]
                  /\ focus' \in {w \in Window : placeOf[w] = s} \union {NoWindow}
             /\ UNCHANGED <<placeOf, spaces, stateFile, pc, read, home, harmed, calls, deaths>>

UserFocuses == /\ Acts
               /\ focus' \in {w \in Window : placeOf[w] = view} \ {focus}
               /\ UNCHANGED <<placeOf, spaces, shownSpace, view, stateFile, pc, read, home, harmed, calls, deaths>>

\* The focus and the view go along.
UserMoves == /\ Acts
             /\ focus # NoWindow
             /\ \E s \in spaces \ {view} :
                  /\ placeOf' = [placeOf EXCEPT ![focus] = s]
                  /\ view' = s
                  /\ shownSpace' = [shownSpace EXCEPT ![OutputOf[s]] = s]
             /\ Touches(focus)
             /\ UNCHANGED <<spaces, focus, stateFile, pc, read, home, calls, deaths>>

WindowCloses == /\ Acts
                /\ \E w \in Live :
                     /\ placeOf' = [placeOf EXCEPT ![w] = NoSpace]
                     /\ home' = [home EXCEPT ![w] = NoSpace]
                     /\ Touches(w)
                     /\ IF w # focus THEN UNCHANGED focus
                        ELSE focus' \in {v \in Live \ {w} : placeOf[v] = view} \union {NoWindow}
                /\ UNCHANGED <<spaces, shownSpace, view, stateFile, pc, read, calls, deaths>>

\* A workspace nothing is on and no output shows ceases to exist.
SpaceVanishes == /\ Acts
                 /\ \E s \in spaces :
                      /\ \A w \in Window : placeOf[w] # s
                      /\ \A o \in Output : shownSpace[o] # s
                      /\ spaces' = spaces \ {s}
                 /\ UNCHANGED <<placeOf, shownSpace, view, focus, stateFile, pc, read, home, harmed, calls, deaths>>

-----------------------------------------------------------------------------
Call(p) == \/ BeginSummon(p) \/ ReadSpaces(p) \/ LoadFile(p) \/ LoadFails(p) \/ MoveWindow(p) \/ Monitor(p)
           \/ OpenFile(p) \/ WriteFile(p) \/ FocusTarget(p) \/ Dies(p)

SummonNext == \/ \E p \in Proc : Call(p)
              \/ UserViews \/ UserFocuses \/ UserMoves \/ WindowCloses \/ SpaceVanishes

SummonSpec == SummonInit /\ [][SummonNext]_summonVars

-----------------------------------------------------------------------------
Reading == [target : Window \union {NoWindow}, place : [Window -> Space \union {NoSpace}], focus : Window \union {NoWindow},
            view : Space \union {NoSpace}, state : Origins, dirty : BOOLEAN,
            origin : Space \union {NoSpace}, output : Output \union {NoOutput}, back : BOOLEAN]

SummonTypeOK ==
  /\ placeOf \in [Window -> spaces \union {NoSpace}]
  /\ spaces \subseteq Space
  /\ shownSpace \in [Output -> spaces] /\ \A o \in Output : OutputOf[shownSpace[o]] = o
  /\ view \in spaces
  /\ focus \in {w \in Window : placeOf[w] = view} \union {NoWindow}
  /\ stateFile \in Origins \union {Torn}
  /\ pc \in [Proc -> {"idle", "spaces", "load", "move", "monitor", "open", "write", "focus"}]
  /\ read \in [Proc -> Reading] /\ \A p \in Proc : pc[p] = "idle" <=> read[p].target = NoWindow
  /\ home \in [Window -> Space \union {NoSpace}]
  /\ harmed \subseteq Window
  /\ {calls, envs, deaths} \subseteq Nat

\* Between calls the file knows which windows are away and where each came from when it was
\* first summoned, however they, the workspaces and the view changed since
\* (retain_live_summon_windows, the vacant entry, the removal on the way back, state_dirty).
\* A call reads and writes the whole file, and yet what goes wrong with it stays with its own
\* window: if it dies between the move and the file, that window's record is lost, and of
\* calls that overlap those of their windows; every other one is as it was.  Excepted are two
\* calls in fs::write at a time and one that dies in it: no call reads what they leave.
OriginsKept ==
  NoCallRuns =>
    \A w \in Live \ harmed : /\ stateFile # Torn
                             /\ w \in DOMAIN stateFile <=> home[w] # NoSpace
                             /\ w \in DOMAIN stateFile => stateFile[w].space = home[w]

\* A window that is taken back reaches the workspace it was first summoned from
\* or, when that has vanished, at least an output: the one the origin was on.
ComesHome ==
  [][\A p \in Proc :
       LET w == read[p].target IN
       pc[p] = "monitor" /\ pc'[p] = "open" /\ read[p].back /\ w \notin harmed' =>
         \/ placeOf'[w] = home[w]
         \/ home[w] \notin spaces /\ OutputOf[placeOf'[w]] = OutputOf[home[w]]]_summonVars
====
