---- MODULE EmacsFrames ----
(***************************************************************************)
(* Emacs (adapters/apps/emacs.rs): focus, moves, tear-out and merge of the *)
(* buffers its frames show, each step one expression that emacsclient      *)
(* evaluates.                                                              *)
(*                                                                         *)
(* A frame is a layout of windows with one of them selected; every window  *)
(* shows a buffer of its own, so that buffers stand for windows here.      *)
(* Every expression works in the frame that Emacs believes has the focus,  *)
(* which may lag behind the compositor.  Where the frames lie is not told  *)
(* apart: a merge that has to look for the frame ahead may find any.       *)
(* MaxEmacsCalls bounds the calls, MaxEmacsUser what the user does in      *)
(* between, MaxEmacsFail the expressions that fail.                        *)
(***************************************************************************)
EXTENDS SplitLayouts

CONSTANTS Buffer,       \* a set of positive numbers, at most three
          Frame,        \* a set of positive numbers
          EmacsAsked,   \* the sides that are asked for
          MaxEmacsCalls, MaxEmacsUser, MaxEmacsFail

ASSUME EmacsAssumption ==
  /\ Buffer \cup Frame \subseteq Nat \ {0} /\ IsFiniteSet(Buffer) /\ Cardinality(Buffer) \in 1..3
  /\ Cardinality(Frame) >= Cardinality(Buffer) /\ EmacsAsked \subseteq Sides

VARIABLES
  frames,   \* [Frame -> layout]
  selected, \* [Frame -> the buffer of the selected window, 0 if the frame is closed]
  focused,  \* the frame the compositor focuses, 0 for another application
  known,    \* the frame Emacs gives the focus to, 0 if none
  tag,      \* the frame that bears the identifier of the call's prepare_merge
  edit,     \* the call that runs: pc, op, dir, what
  watch,    \* history: the buffers shown when the call began, whether the user has done
            \* anything since then (touched), and whether Emacs has changed its mind
            \* about the focus since the call looked at it (moved)
  emacsCount

emacsVars == <<frames, selected, focused, known, tag, edit, watch, emacsCount>>

EmacsLayouts == Layouts(Buffer)
LiveFrames == {f \in Frame : frames[f] # Closed}
ShownBuffers == UNION {PanesOf(frames[f]) : f \in Frame}
Resting == [pc |-> "idle", op |-> "none", dir |-> "west", what |-> "none"]

(* The frames after a change; a frame without a window is gone, and with it  *)
(* the focus goes to another one.                                          *)
Redisplay(f, sel, foc) ==
  LET live == {x \in Frame : f[x] # Closed}
  IN  /\ frames' = f
      /\ selected' = [x \in Frame |-> IF x \notin live THEN 0
                                      ELSE IF sel[x] \in PanesOf(f[x]) THEN sel[x]
                                      ELSE CHOOSE b \in PanesOf(f[x]) : TRUE]
      /\ focused' \in IF foc \in live \cup {0} THEN {foc} ELSE live \cup {0}
      /\ known' = IF known \in live \cup {0} THEN known ELSE focused'
Same == <<frames, selected, focused, known>>

EmacsInit ==
  /\ frames \in {l \in [Frame -> EmacsLayouts] :
                 /\ \A f, g \in Frame : f # g => PanesOf(l[f]) \cap PanesOf(l[g]) = {}
                 /\ \A f \in Frame : l[f].groups = <<>> => l[f] = Closed
                 /\ \A f, g \in Frame : f < g /\ l[f] = Closed => l[g] = Closed}
  /\ selected \in {s \in [Frame -> Buffer \cup {0}] :
                   \A f \in Frame : IF frames[f] = Closed THEN s[f] = 0 ELSE s[f] \in PanesOf(frames[f])}
  /\ focused \in LiveFrames /\ known = focused
  /\ tag = 0 /\ edit = Resting
  /\ watch = [shown |-> {}, touched |-> TRUE, moved |-> FALSE]
  /\ emacsCount = [calls |-> 0, user |-> 0, fail |-> 0]

EmacsWorks == UNCHANGED emacsCount
Returns == edit' = Resting
Goes(pc) == edit' = [edit EXCEPT !.pc = pc]

(* eval_in_frame fails if no frame has the focus. *)
HasFocus == known # 0
SelectedBuffer == selected[known]
AtSide(d) == NextTo(frames[known], SelectedBuffer, d) = {}
WindowCount == Cardinality(PanesOf(frames[known]))

BeginEdit ==
  /\ edit.pc = "idle" /\ emacsCount.calls < MaxEmacsCalls /\ focused # 0
  /\ \E op \in {"focus", "resize", "move"}, d \in EmacsAsked :
       edit' = [pc |-> CASE op = "focus" -> "side" [] op = "resize" -> "act" [] OTHER -> "count",
                op |-> op, dir |-> d, what |-> op]
  /\ watch' = [shown |-> ShownBuffers, touched |-> known # focused, moved |-> FALSE]
  /\ emacsCount' = [emacsCount EXCEPT !.calls = @ + 1]
  /\ UNCHANGED <<Same, tag>>

(* Mutant: two windows are few enough to merge the frame. *)
FewWindows == WindowCount <= 2
LoneWindow == WindowCount <= 1

(* move_decision *)
CountWindows ==
  /\ edit.pc = "count" /\ HasFocus
  /\ Goes(IF LoneWindow THEN "prepare" ELSE "side")
  /\ UNCHANGED <<Same, tag, watch>> /\ EmacsWorks

LookAtSide ==
  /\ edit.pc = "side" /\ HasFocus
  /\ CASE ~AtSide(edit.dir) -> edit' = [edit EXCEPT !.pc = "act", !.what = IF edit.op = "move" THEN "swap" ELSE "focus"]
       [] AtSide(edit.dir) /\ edit.op = "focus" -> Returns
       [] OTHER -> Goes("across")
  /\ UNCHANGED <<Same, tag, watch>> /\ EmacsWorks

LookAcross ==
  /\ edit.pc = "across" /\ HasFocus
  /\ edit' = [edit EXCEPT !.pc = "act",
                          !.what = IF \E d \in ToSet(Perpendicular(edit.dir)) : ~AtSide(d) THEN "rearrange" ELSE "out"]
  /\ UNCHANGED <<Same, tag, watch>> /\ EmacsWorks

(* eval_in_frame_mut focuses the frame; then windmove, windmove-swap-states, *)
(* window-resize, a split at one side of the window selected once one's own *)
(* is deleted, or a frame of its own.  A window that is alone cannot be    *)
(* deleted, and without a window on that side windmove fails.              *)
Acts ==
  /\ edit.pc = "act" /\ HasFocus
  /\ LET l == frames[known]
         b == SelectedBuffer
         near == NextTo(l, b, edit.dir)
         rest == Without(l, b)
     IN  CASE edit.what = "focus" /\ near # {} ->
                \E n \in near : Redisplay(frames, [selected EXCEPT ![known] = n], known)
           [] edit.what = "swap" /\ near # {} ->
                \E n \in near : Redisplay([frames EXCEPT ![known] = Swapped(l, b, n)], selected, known)
           [] edit.what = "rearrange" /\ WindowCount > 1 ->
                \E w \in PanesOf(rest) : Redisplay([frames EXCEPT ![known] = SplitAt(rest, w, edit.dir, b)], selected, known)
           [] edit.what = "out" /\ WindowCount > 1 ->
                \E new \in Frame \ LiveFrames :
                  /\ \A f \in Frame \ LiveFrames : new <= f
                  /\ Redisplay([[frames EXCEPT ![known] = rest] EXCEPT ![new] = Line("horizontal", <<b>>)],
                               [selected EXCEPT ![new] = b], new)
           [] OTHER -> Redisplay(frames, selected, known)
  /\ Returns /\ UNCHANGED <<tag, watch>> /\ EmacsWorks

(* prepare_merge gives the focused frame an identifier. *)
TagFrame ==
  /\ edit.pc = "prepare" /\ HasFocus
  /\ tag' = known /\ Goes("show") /\ Redisplay(frames, selected, known)
  /\ UNCHANGED watch /\ EmacsWorks

(* The session focuses the target's frame (MoveSession). *)
ShowTargetFrame ==
  /\ edit.pc = "show"
  /\ \/ \E f \in LiveFrames \ {focused} : Redisplay(frames, selected, f) /\ Goes("check")
     \/ LiveFrames \subseteq {focused} /\ UNCHANGED Same /\ Returns
  /\ UNCHANGED <<tag, watch>> /\ EmacsWorks

CheckFocus ==
  /\ edit.pc = "check" /\ HasFocus
  /\ Goes(IF known = tag THEN "ahead" ELSE "into")
  /\ watch' = [watch EXCEPT !.moved = FALSE]
  /\ UNCHANGED <<Same, tag>> /\ EmacsWorks

(* split-window in the frame `to', and delete-frame of `from'. *)
TakesBuffer(from, to) ==
  LET b == selected[from]
  IN  \E w \in PanesOf(frames[to]) :
        /\ w = selected[to]
        /\ Redisplay([frames EXCEPT ![to] = SplitAt(@, w, Opposite(edit.dir), b), ![from] = Closed],
                     [selected EXCEPT ![to] = b], focused)

TaggedFrame == IF tag \in LiveFrames \ {known} THEN tag ELSE 0

(* merge_into: the frame that has the focus goes into one ahead of it, or     *)
(* else into the first other one.                                          *)
MergeAhead ==
  /\ edit.pc = "ahead" /\ HasFocus
  /\ IF LiveFrames = {known} THEN Redisplay(frames, selected, known)
     ELSE \E f \in LiveFrames \ {known} : TakesBuffer(known, f)
  /\ Returns /\ UNCHANGED <<tag, watch>> /\ EmacsWorks

(* merge_into_target otherwise: the frame with the identifier goes into the   *)
(* one that has the focus.                                                 *)
MergeTagged ==
  /\ edit.pc = "into" /\ HasFocus
  /\ IF TaggedFrame = 0 THEN Redisplay(frames, selected, known)
     ELSE TakesBuffer(TaggedFrame, known)
  /\ Returns /\ UNCHANGED <<tag, watch>> /\ EmacsWorks

EvalFails ==
  /\ edit.pc # "idle" /\ Returns
  /\ \/ ~HasFocus /\ edit.pc # "show" /\ EmacsWorks
     \/ emacsCount.fail < MaxEmacsFail /\ emacsCount' = [emacsCount EXCEPT !.fail = @ + 1]
  /\ UNCHANGED <<Same, tag, watch>>

UserOfEmacs ==
  /\ emacsCount.user < MaxEmacsUser /\ emacsCount' = [emacsCount EXCEPT !.user = @ + 1]
  /\ \/ \E f \in (LiveFrames \cup {0}) \ {focused} :
          Redisplay(frames, selected, f)
     \/ \E b \in (IF focused = 0 THEN {} ELSE PanesOf(frames[focused]) \ {selected[focused]}) :
          Redisplay(frames, [selected EXCEPT ![focused] = b], focused)
     \/ \E b \in Buffer \ ShownBuffers :
          /\ focused # 0
          /\ \E d \in Sides : Redisplay([frames EXCEPT ![focused] = SplitAt(@, selected[focused], d, b)],
                                        selected, focused)
  /\ watch' = [watch EXCEPT !.touched = TRUE]
  /\ UNCHANGED <<tag, edit>>

EmacsCatchesUp ==
  /\ known # focused /\ known' = focused
  /\ watch' = [watch EXCEPT !.moved = @ \/ edit.pc \in {"ahead", "into"}]
  /\ UNCHANGED <<frames, selected, focused, tag, edit, emacsCount>>

EmacsNext ==
  \/ BeginEdit \/ CountWindows \/ LookAtSide \/ LookAcross \/ Acts
  \/ TagFrame \/ ShowTargetFrame \/ CheckFocus \/ MergeAhead \/ MergeTagged
  \/ EvalFails \/ UserOfEmacs \/ EmacsCatchesUp

EmacsSpec == EmacsInit /\ [][EmacsNext]_emacsVars

EmacsTypeOK ==
  /\ \A f \in Frame : frames[f] \in EmacsLayouts /\ (selected[f] = 0 <=> frames[f] = Closed)
  /\ \A f, g \in Frame : f # g => PanesOf(frames[f]) \cap PanesOf(frames[g]) = {}
  /\ {focused, known, tag} \subseteq Frame \cup {0}

(* A call that the user leaves alone keeps every buffer on the screen,       *)
(* although a merge deletes the source's frame with all its windows        *)
(* (emacs.rs:258, 324), and a merge takes the frame that was prepared away, *)
(* unless Emacs changed its mind about the focus between the expression    *)
(* that asks whether that frame has it (emacs.rs:297) and the one that     *)
(* merges: then the target is merged into its source.                      *)
FramesKeepBuffers ==
  [][edit.pc \in {"act", "ahead", "into"} /\ edit' # edit /\ frames' # frames /\ ~watch.moved =>
       /\ watch.touched \/ watch.shown \subseteq ShownBuffers'
       /\ edit.pc = "act" \/ (tag # 0 /\ frames'[tag] = Closed)]_emacsVars
====
