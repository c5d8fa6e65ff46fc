---- MODULE PaneGeometry ----
(***************************************************************************)
(* Panes as rectangles: the closest one on a side (engine/topology.rs,     *)
(* select_closest_in_direction), and what tmux's adapter makes of it.      *)
(* tmux leaves one cell between two panes for the line that divides them.  *)
(***************************************************************************)
EXTENDS SplitLayouts

Rect(x, y, w, h) == [x |-> x, y |-> y, w |-> w, h |-> h]
DirectedRect(id, rect) == [id |-> id, rect |-> rect]

\* Where a rectangle begins and ends along an axis.
Low(r, axis) == IF axis = "horizontal" THEN r.x ELSE r.y
High(r, axis) == IF axis = "horizontal" THEN r.x + r.w ELSE r.y + r.h

\* How much two rectangles face each other, looking toward d; how far the candidate
\* lies on that side, if it does.
PerpOverlapLen(r, s, d) ==
  LET across == OtherAxis(Axis(d))
      low == IF Low(r, across) > Low(s, across) THEN Low(r, across) ELSE Low(s, across)
      high == IF High(r, across) < High(s, across) THEN High(r, across) ELSE High(s, across)
  IN  IF high > low THEN high - low ELSE 0
Gap(r, s, d) == IF Sign(d) < 0 THEN Low(r, Axis(d)) - High(s, Axis(d)) ELSE Low(s, Axis(d)) - High(r, Axis(d))

\* The one before stays unless the candidate is nearer, or as near and faces more.
Closer(best, c) ==
  \/ best = {}
  \/ \E b \in best : c.gap < b.gap \/ (c.gap = b.gap /\ c.overlap > b.overlap)
SelectClosest(rects, source, d) ==
  LET from == rects[SelectInSeq(rects, LAMBDA q : q.id = source)].rect
      seen(q) == [id |-> q.id, gap |-> Gap(from, q.rect, d), overlap |-> PerpOverlapLen(from, q.rect, d)]
      take(best, q) == IF q.id # source /\ seen(q).gap >= 0 /\ seen(q).overlap > 0 /\ Closer(best, seen(q))
                         THEN {seen(q)} ELSE best
  IN  {b.id : b \in FoldLeft(take, {}, rects)}

-----------------------------------------------------------------------------
(* What a move does, from the sides on which there are panes *)

\* directional_neighbors: pane_at_left and its like.
DirectionalNeighbors(rects, pane, size) ==
  LET r == rects[SelectInSeq(rects, LAMBDA q : q.id = pane)].rect
  IN  {d \in Sides : IF Sign(d) < 0 THEN Low(r, Axis(d)) > 0 ELSE High(r, Axis(d)) < size}

\* move_surface, decision_for.
DecisionFor(count, neighbors, rearranges, d) ==
  IF count <= 1 THEN "passthrough"
  ELSE IF d \in neighbors THEN "internal"
  ELSE IF rearranges /\ ToSet(Perpendicular(d)) \cap neighbors # {} THEN "rearrange"
  ELSE "tearOut"
TmuxDecision(rects, pane, size, d) == DecisionFor(Len(rects), DirectionalNeighbors(rects, pane, size), FALSE, d)

-----------------------------------------------------------------------------
(* Text as lines; it ends with a newline if the last of several is empty. *)
EndsWithNewline(lines) == Len(lines) > 1 /\ lines[Len(lines)] = ""
SendKeys(lines) ==
  FlattenSeq([i \in DOMAIN lines |->
    (IF lines[i] = "" THEN <<>> ELSE <<lines[i]>>)
      \o (IF i < Len(lines) \/ EndsWithNewline(lines) THEN <<"Enter">> ELSE <<>>)])
====
