---- MODULE WmBackends ----
(***************************************************************************)
(* The window managers behind one session: what each adapter declares,     *)
(* when it may be connected, what it says of the focused window, and how a *)
(* torn-out window is brought beside its source                            *)
(* (src/src/engine/wm, src/src/adapters/window_managers).                  *)
(*                                                                         *)
(* Of the layouts only niri's is modelled, a strip of columns: no other    *)
(* adapter composes commands.  Between the program's commands the user     *)
(* moves the focus, windows close, and a second call moves windows.        *)
(***************************************************************************)
EXTENDS Integers, SequencesExt

CONSTANTS WmWindow, NoWmWindow,
          NewWindow,      \* the one that is torn out, not on the screen at first
          Strips,         \* how the others may lie: sequences of columns
          Adapters,       \* what may be configured
          MaxWmEvents

ASSUME WmAssumption == NewWindow \in WmWindow /\ NoWmWindow \notin WmWindow

\* A strip has no empty column, and a window is on it once.
Tidy(st) == /\ \A c \in DOMAIN st : st[c] # <<>>
            /\ \A c, d \in DOMAIN st : \A t \in DOMAIN st[c], u \in DOMAIN st[d] :
                 st[c][t] = st[d][u] => c = d /\ t = u
ASSUME StripsAssumption == /\ Strips \subseteq Seq(Seq(WmWindow \ {NewWindow}))
                           /\ \A st \in Strips : Tidy(st)

VARIABLES
  wm,        \* the connected adapter
  strip,     \* niri's columns, each from top to bottom; elsewhere, the windows
  keyWindow, \* the window with the focus
  ofSource,  \* does the torn-out window belong to its source's process?
  placing,     \* the tear-out under way
  wmEvents

wmVars == <<wm, strip, keyWindow, ofSource, placing, wmEvents>>

WmSides == {"west", "east", "north", "south"}
Uniform(support) == [d \in WmSides |-> support]

-----------------------------------------------------------------------------
(* What the adapters declare *)

Niri == [name |-> "niri", os |-> "linux",
         primitives |-> {"tear_out_right", "move_column", "consume_into_column_and_move",
                         "set_window_width", "set_window_height"},
         tearOut |-> [Uniform("composed") EXCEPT !["east"] = "native"],
         resize |-> Uniform("native"), composer |-> TRUE]
I3 == [name |-> "i3", os |-> "linux",
       primitives |-> {"set_window_width", "set_window_height"},
       tearOut |-> Uniform("unsupported"), resize |-> Uniform("native"), composer |-> FALSE]
Yabai == [I3 EXCEPT !.name = "yabai", !.os = "macos"]
Paneru == [name |-> "paneru", os |-> "macos", primitives |-> {"set_window_width"},
           tearOut |-> [d \in WmSides |-> IF d \in {"north", "south"} THEN "native" ELSE "unsupported"],
           resize |-> [d \in WmSides |-> IF d \in {"west", "east"} THEN "native" ELSE "unsupported"],
           composer |-> FALSE]

\* One may be built without its composer or some primitive, but declares the same.
Declares(a, declared) == a = [declared EXCEPT !.primitives = a.primitives, !.composer = a.composer]
ASSUME AdaptersAssumption == \A a \in Adapters : \E declared \in {Niri, I3, Yabai, Paneru} : Declares(a, declared)

ComposesTearOut(a, d) ==
  /\ "tear_out_right" \in a.primitives
  /\ (IF d \in {"east", "west"} THEN "move_column" ELSE "consume_into_column_and_move") \in a.primitives
ComposesResize(a, d) ==
  (IF d \in {"west", "east"} THEN "set_window_width" ELSE "set_window_height") \in a.primitives

Validates(a) == \A d \in WmSides : /\ a.tearOut[d] = "composed" => ComposesTearOut(a, d)
                                   /\ a.resize[d] = "composed" => ComposesResize(a, d)

PlanTearOut(a, d) ==
  IF a.tearOut[d] = "composed" /\ ~ComposesTearOut(a, d) THEN "unsupported" ELSE a.tearOut[d]

\* try_new: an adapter that would compose must bring its composer.
Accepts(a) == /\ Validates(a)
              /\ a.composer \/ \A d \in WmSides : PlanTearOut(a, d) # "composed"

\* Elsewhere the backend has a specification that refuses to connect.
Supported(a, os) == a.os = os
Connects(a, os) == Supported(a, os) /\ Accepts(a)

-----------------------------------------------------------------------------
(* niri's strip *)

OnStrip == UNION {ToSet(strip[c]) : c \in DOMAIN strip}
ColumnOf(st, w) == CHOOSE c \in DOMAIN st : w \in ToSet(st[c])
TileOf(st, w) == CHOOSE t \in DOMAIN st[ColumnOf(st, w)] : st[ColumnOf(st, w)][t] = w
\* A column is gone with its last window.
TakenOut(st, w) ==
  LET c == ColumnOf(st, w)
  IN  IF Len(st[c]) = 1 THEN RemoveAt(st, c) ELSE [st EXCEPT ![c] = RemoveAt(@, TileOf(st, w))]
Next1(c, side) == IF side = "west" THEN c - 1 ELSE c + 1

MoveColumn(st, w, side) ==
  LET c == ColumnOf(st, w)  n == Next1(c, side)
  IN  IF n \in DOMAIN st THEN [st EXCEPT ![c] = st[n], ![n] = st[c]] ELSE st

\* A window alone in its column joins the bottom of the next one, which is then at
\* its own place or west of it; from a column it shares it leaves into one of its own.
ConsumeOrExpel(st, w, side) ==
  LET c == ColumnOf(st, w)  out == TakenOut(st, w)
  IN  IF Len(st[c]) > 1 THEN InsertAt(out, IF side = "west" THEN c ELSE c + 1, <<w>>)
      ELSE IF Next1(c, side) \in DOMAIN st
           THEN [out EXCEPT ![IF side = "west" THEN c - 1 ELSE c] = Append(@, w)]
           ELSE st

MoveTile(st, w, side) ==
  LET c == ColumnOf(st, w)  t == TileOf(st, w)  u == IF side = "north" THEN t - 1 ELSE t + 1
  IN  IF u \in DOMAIN st[c] THEN [st EXCEPT ![c][t] = st[c][u], ![c][u] = w] ELSE st

MoveDirection(st, w, side) ==
  IF side \in {"west", "east"} THEN ConsumeOrExpel(st, w, side) ELSE MoveTile(st, w, side)

Beside(st, w, v, side) ==
  CASE side = "west" -> ColumnOf(st, v) = ColumnOf(st, w) - 1
    [] side = "east" -> ColumnOf(st, v) = ColumnOf(st, w) + 1
    [] side = "north" -> ColumnOf(st, v) = ColumnOf(st, w) /\ TileOf(st, v) = TileOf(st, w) - 1
    [] side = "south" -> ColumnOf(st, v) = ColumnOf(st, w) /\ TileOf(st, v) = TileOf(st, w) + 1

-----------------------------------------------------------------------------
(* Resizing: by how many steps the focused window grows along the side's axis *)

Outward(d) == IF d \in {"east", "south"} THEN 1 ELSE -1
Sense(grows) == IF grows THEN 1 ELSE -1
\* niri's width and height have no side, and the delta toward west and north is
\* negated all the same.
ResizeNiri(d, grows) == Outward(d) * Sense(grows)
ResizeI3(d, grows) == Sense(grows)
\* yabai moves the edge on that side: outward it is the window that gains.
EdgeShift(d, grows) == Outward(d) * Sense(grows)
ResizeYabai(d, grows) == Outward(d) * EdgeShift(d, grows)
\* paneru steps through its widths, and has no heights.
ResizePaneru(d, grows) == IF d \in {"west", "east"} THEN Sense(grows) ELSE 0
ResizeBy(a, d, grows) == CASE a.name = "niri" -> ResizeNiri(d, grows)
                           [] a.name = "i3" -> ResizeI3(d, grows)
                           [] a.name = "yabai" -> ResizeYabai(d, grows)
                           [] a.name = "paneru" -> ResizePaneru(d, grows)

-----------------------------------------------------------------------------
(* A window is torn out and placed *)

NoPlace == [pc |-> "idle", side |-> "east", source |-> NoWmWindow, tile |-> 1, moves |-> 0,
            disturbed |-> FALSE]
Settled == placing.pc \in {"idle", "ended"}

WmInit == /\ wm \in {a \in Adapters : Connects(a, a.os)}
          /\ strip \in Strips /\ keyWindow \in OnStrip \union {NoWmWindow}
          /\ ofSource \in BOOLEAN
          /\ placing = NoPlace /\ wmEvents = 0

\* lsappinfo names the application in front: paneru's windows go by its process.
IdOf(w) == IF wm.name = "paneru" /\ w = NewWindow /\ ofSource THEN placing.source ELSE w
\* i3 without a focused window (an empty workspace) answers with the first in its tree.
FocusedRecord == IF keyWindow = NoWmWindow /\ wm.name = "i3" THEN strip[1][1] ELSE IdOf(keyWindow)
TileFromZero(w) == IF wm.name = "niri" THEN TileOf(strip, w) - 1 ELSE 1
TileIndex(w) == IF wm.name = "niri" THEN TileOf(strip, w) ELSE 1

SourceRow(st) == IF placing.source \in UNION {ToSet(st[c]) : c \in DOMAIN st}
                 THEN st[ColumnOf(st, placing.source)] ELSE <<>>
Act(st, w, pc) == /\ strip' = st /\ keyWindow' = w /\ placing' = [placing EXCEPT !.pc = pc]
                  /\ UNCHANGED <<wm, ofSource, wmEvents>>

BeginTearOut(d) ==
  /\ placing.pc = "idle" /\ FocusedRecord # NoWmWindow
  /\ placing' = [NoPlace EXCEPT !.pc = "opening", !.side = d, !.source = FocusedRecord,
                              !.tile = TileIndex(FocusedRecord)]
  /\ UNCHANGED <<wm, strip, keyWindow, ofSource, wmEvents>>

\* The compositor opens a window right of the focused column, and focuses it.
OpensWindow ==
  /\ placing.pc = "opening"
  /\ Act(IF keyWindow = NoWmWindow THEN Append(strip, <<NewWindow>>)
         ELSE InsertAt(strip, ColumnOf(strip, keyWindow) + 1, <<NewWindow>>), NewWindow, "focus")

\* paneru lists no windows: nothing is found to focus.
FocusTornOut ==
  /\ placing.pc = "focus"
  /\ \/ wm.name # "paneru" /\ Act(strip, NewWindow, "check")
     \/ Act(strip, keyWindow, "check")

CheckFocused ==
  /\ placing.pc = "check"
  /\ LET plan == PlanTearOut(wm, placing.side)
     IN  Act(strip, keyWindow,
             IF FocusedRecord \in {NoWmWindow, placing.source} \/ plan = "unsupported" THEN "ended"
             ELSE IF plan = "native" THEN "native"
             ELSE IF ~wm.composer THEN "missing"
             ELSE IF placing.side \in {"west", "east"} THEN "column" ELSE "consume")

PlaceNatively ==
  /\ placing.pc = "native"
  /\ Act(IF wm.name = "niri" /\ keyWindow # NoWmWindow THEN MoveDirection(strip, keyWindow, placing.side)
         ELSE strip, keyWindow, "ended")
PlaceColumn ==
  /\ placing.pc = "column"
  /\ Act(IF keyWindow = NoWmWindow THEN strip ELSE MoveColumn(strip, keyWindow, placing.side),
         keyWindow, "ended")
ConsumeIntoColumn ==
  /\ placing.pc = "consume"
  /\ Act(IF keyWindow = NoWmWindow THEN strip ELSE ConsumeOrExpel(strip, keyWindow, "west"),
         keyWindow, "tile")

\* It went to the bottom: up from there to below the source, or to its place.
TargetTile == IF placing.side = "south" THEN placing.tile + 1 ELSE placing.tile
Ups(now) == IF now > TargetTile THEN now - TargetTile ELSE 0
ReadTile ==
  /\ placing.pc = "tile"
  /\ IF keyWindow = NoWmWindow THEN Act(strip, keyWindow, "failed")
     ELSE /\ placing' = [placing EXCEPT !.pc = "up", !.moves = Ups(TileOf(strip, keyWindow))]
          /\ UNCHANGED <<wm, strip, keyWindow, ofSource, wmEvents>>
MoveUp ==
  /\ placing.pc = "up"
  /\ IF placing.moves = 0 THEN Act(strip, keyWindow, "ended")
     ELSE /\ strip' = IF keyWindow = NoWmWindow THEN strip ELSE MoveTile(strip, keyWindow, "north")
          /\ placing' = [placing EXCEPT !.moves = @ - 1]
          /\ UNCHANGED <<wm, keyWindow, ofSource, wmEvents>>

\* The socket fails a request: the error is logged, and nothing more is placed.
RequestFails == ~Settled /\ placing.pc # "opening" /\ wmEvents < MaxWmEvents
                /\ placing' = [placing EXCEPT !.pc = "failed"] /\ wmEvents' = wmEvents + 1
                /\ UNCHANGED <<wm, strip, keyWindow, ofSource>>

-----------------------------------------------------------------------------
(* The user, the applications, and another call *)

Others(st, w) ==
  /\ placing.pc # "idle" /\ ~Settled /\ wmEvents < MaxWmEvents
  /\ strip' = st /\ keyWindow' = w /\ wmEvents' = wmEvents + 1
  /\ placing' = [placing EXCEPT !.disturbed = @ \/ w # keyWindow \/ SourceRow(st) # SourceRow(strip)]
  /\ UNCHANGED <<wm, ofSource>>

UserFocusesOnStrip == \E w \in OnStrip : Others(strip, w)
ClosesOnStrip == \E w \in OnStrip \ {NewWindow} :
  Others(TakenOut(strip, w), IF w = keyWindow THEN NoWmWindow ELSE keyWindow)
OtherCallMoves == \E w \in OnStrip, d \in WmSides :
  wm.name = "niri" /\ w # NewWindow /\ Others(MoveDirection(strip, w, d), w)

WmNext ==
  \/ \E d \in WmSides : BeginTearOut(d)
  \/ OpensWindow \/ FocusTornOut \/ CheckFocused \/ PlaceNatively \/ PlaceColumn
  \/ ConsumeIntoColumn \/ ReadTile \/ MoveUp \/ RequestFails
  \/ UserFocusesOnStrip \/ ClosesOnStrip \/ OtherCallMoves

WmSpec == WmInit /\ [][WmNext]_wmVars

WmTypeOK == /\ OnStrip \subseteq WmWindow /\ keyWindow \in OnStrip \union {NoWmWindow}
            /\ placing.tile \in 0..3 /\ placing.moves \in 0..3 /\ wmEvents \in Nat

\* A window torn out on niri ends next to its source on the side asked for - the
\* tile above or below it, or the column west or east of its own - whatever else
\* opened, closed or moved, unless meanwhile the focus moved or the source's own
\* column changed: consumed to the bottom, it is moved up by as many tiles as lie
\* between (niri.rs, compose_tear_out, consume_into_column_and_move).  Toward the
\* east no more than the column is claimed: move_direction consumes a window that
\* is alone into the column ahead (niri.rs:304), so where there is one the new
\* window ends at its bottom.  No adapter that connected lacks the composer that
\* its plans need (configured.rs, try_new).
LandsBeside ==
  /\ placing.pc # "missing"
  /\ placing.pc = "ended" /\ wm.name = "niri" /\ ~placing.disturbed
     => Beside(strip, placing.source, NewWindow, placing.side)
====
