---- MODULE SplitLayouts ----
(***************************************************************************)
(* How splits share a window: a row of groups along an axis, a group being *)
(* a row of panes across it.  With at most three panes that is every       *)
(* layout that splits can make.                                            *)
(***************************************************************************)
EXTENDS Integers, FiniteSets, Sequences, SequencesExt

Sides == {"west", "east", "north", "south"}
Opposite(d) == CASE d = "west" -> "east" [] d = "east" -> "west" [] d = "north" -> "south" [] OTHER -> "north"
Axis(d) == IF d \in {"west", "east"} THEN "horizontal" ELSE "vertical"
Sign(d) == IF d \in {"west", "north"} THEN -1 ELSE 1
AxisDirections(d) == IF Axis(d) = "horizontal" THEN <<"west", "east">> ELSE <<"north", "south">>
Perpendicular(d) == IF Axis(d) = "horizontal" THEN <<"north", "south">> ELSE <<"west", "east">>

Line(axis, panes) == [axis |-> axis, groups |-> [i \in DOMAIN panes |-> <<panes[i]>>]]
Closed == Line("horizontal", <<>>)
PanesOf(l) == UNION {ToSet(l.groups[i]) : i \in DOMAIN l.groups}
OtherAxis(axis) == IF axis = "horizontal" THEN "vertical" ELSE "horizontal"

(* One group of several panes is a line across; one pane has no axis. *)
Upright(l) == IF Len(l.groups) # 1 THEN l
              ELSE Line(IF Len(l.groups[1]) = 1 THEN "horizontal" ELSE OtherAxis(l.axis), l.groups[1])

GroupOfPane(l, p) == CHOOSE i \in DOMAIN l.groups : p \in ToSet(l.groups[i])
PlaceIn(g, p) == CHOOSE j \in DOMAIN g : g[j] = p

Without(l, p) ==
  LET i == GroupOfPane(l, p)
      rest == RemoveAt(l.groups[i], PlaceIn(l.groups[i], p))
  IN  IF p \notin PanesOf(l) THEN l
      ELSE Upright([l EXCEPT !.groups = IF rest = <<>> THEN RemoveAt(@, i) ELSE [@ EXCEPT ![i] = rest]])

(* A split of t that puts p at one side of it; l is a line. *)
SplitAt(l, t, side, p) ==
  LET i == GroupOfPane(l, t)
      at(k) == IF Sign(side) < 0 THEN k ELSE k + 1
  IN  IF Axis(side) = l.axis \/ Len(l.groups) = 1
        THEN [axis |-> Axis(side), groups |-> InsertAt(l.groups, at(i), <<p>>)]
        ELSE [l EXCEPT !.groups[i] = InsertAt(@, at(1), p)]

(* kitty's move_to_screen_edge. *)
AtScreenEdge(l, side, p) ==
  LET all == FlattenSeq(l.groups)
  IN  IF all = <<>> THEN Line("horizontal", <<p>>)
      ELSE IF Axis(side) = l.axis \/ Len(all) = 1
        THEN Line(Axis(side), IF Sign(side) < 0 THEN <<p>> \o all ELSE Append(all, p))
        ELSE [axis |-> Axis(side), groups |-> IF Sign(side) < 0 THEN <<<<p>>, all>> ELSE <<all, <<p>>>>]

(* The panes that touch p on one side. *)
NextTo(l, p, d) ==
  LET i == GroupOfPane(l, p)
      g == l.groups[i]
      j == PlaceIn(g, p)
  IN  IF Axis(d) = l.axis
        THEN IF i + Sign(d) \in DOMAIN l.groups THEN ToSet(l.groups[i + Sign(d)]) ELSE {}
        ELSE IF j + Sign(d) \in DOMAIN g THEN {g[j + Sign(d)]} ELSE {}

Swapped(l, p, q) ==
  [l EXCEPT !.groups = [i \in DOMAIN @ |-> [j \in DOMAIN @[i] |->
     IF @[i][j] = p THEN q ELSE IF @[i][j] = q THEN p ELSE @[i][j]]]]

(* All layouts of some of three panes. *)
Layouts(all) ==
  LET orders == UNION {SetToSeqs(S) : S \in SUBSET all}
      threes == {s \in orders : Len(s) = 3}
      rows == {Line("horizontal", s).groups : s \in orders}
                \cup {<<<<s[1]>>, <<s[2], s[3]>>>> : s \in threes} \cup {<<<<s[1], s[2]>>, <<s[3]>>>> : s \in threes}
  IN  UNION {{Upright([axis |-> a, groups |-> g]) : g \in rows} : a \in {"horizontal", "vertical"}}

====
