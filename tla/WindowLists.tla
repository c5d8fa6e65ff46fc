---- MODULE WindowLists ----
(***************************************************************************)
(* What the window managers' adapters say of the windows: the focused one  *)
(* and the list (focused_window and windows of niri.rs, i3.rs, yabai.rs    *)
(* and paneru.rs).  i3 answers with a tree of containers, as a table from  *)
(* nodes to what they hold; the others with a list.  An absent field is    *)
(* {}, a present one a set of one; "" stands for a blank text.             *)
(***************************************************************************)
EXTENDS Integers, FiniteSets, Sequences, SequencesExt

OrElse(first, second) == IF first # {} THEN first ELSE second
NonEmpty(text) == text \ {""}
\* No process has the number 0; niri's numbers are signed.
ProcessIds(pid) == {p \in pid : p > 0}

Record(id, app, title, pid, focused, tile) ==
  [id |-> id, app |-> app, title |-> title, pid |-> pid, focused |-> focused, tile |-> tile]
Ids(records) == {records[i].id : i \in DOMAIN records}
FirstOf(records) == IF records = <<>> THEN {} ELSE {records[1]}
FocusedIn(records) == FirstOf(SelectSeq(records, LAMBDA r : r.focused))

-----------------------------------------------------------------------------
(* i3 and sway *)

IsWindowLeaf(node) ==
  /\ node.nodes = <<>> /\ node.floating = <<>>
  /\ node.window \/ node.app # {} \/ node.properties # {} \/ node.pid # {}

\* sway names the application, i3 the class.
FromNode(id, node) ==
  LET class == UNION {p.class : p \in node.properties}  shown == UNION {p.title : p \in node.properties}
  IN  Record(id, NonEmpty(OrElse(node.app, class)), NonEmpty(OrElse(node.name, shown)),
             ProcessIds(node.pid), node.focused, 1)

Children(node) == node.nodes \o node.floating
RECURSIVE CollectWindows(_, _), FocusedLeaves(_, _)
CollectWindows(tree, id) ==
  IF IsWindowLeaf(tree[id]) THEN <<FromNode(id, tree[id])>>
  ELSE FlattenSeq([i \in DOMAIN Children(tree[id]) |-> CollectWindows(tree, Children(tree[id])[i])])
FocusedLeaves(tree, id) ==
  IF IsWindowLeaf(tree[id]) /\ tree[id].focused THEN <<FromNode(id, tree[id])>>
  ELSE FlattenSeq([i \in DOMAIN Children(tree[id]) |-> FocusedLeaves(tree, Children(tree[id])[i])])

Root == 1
WindowsOfI3(tree) == CollectWindows(tree, Root)
\* The focused window; else a focused leaf; else whichever window comes first.
FocusedOfI3(tree) ==
  OrElse(FocusedIn(WindowsOfI3(tree)), OrElse(FirstOf(FocusedLeaves(tree, Root)), FirstOf(WindowsOfI3(tree))))

-----------------------------------------------------------------------------
(* yabai, niri and paneru *)

FromYabai(w) == Record(w.id, NonEmpty({w.app}), NonEmpty({w.title}), ProcessIds({w.pid}), w.focused, 1)
WindowsOfYabai(answer) == [i \in DOMAIN answer |-> FromYabai(answer[i])]
FocusedOfYabai(answer) == FocusedIn(WindowsOfYabai(answer))

\* A floating window has no tile; it counts as the first of a column.
FromNiri(w) == Record(w.id, w.app, w.title, ProcessIds(w.pid), w.focused, CHOOSE t \in OrElse(w.tile, {1}) : TRUE)
WindowsOfNiri(answer) == [i \in DOMAIN answer |-> FromNiri(answer[i])]
\* niri itself says which one is focused.
FocusedOfNiri(answer) == FocusedIn(WindowsOfNiri(answer))

\* The application in front stands for its window, by the number of its process;
\* no windows are listed.
FocusedOfPaneru(front) ==
  {Record(p, OrElse(front.bundle, front.name), {}, {p}, TRUE, 1) : p \in ProcessIds(front.pid)}
WindowsOfPaneru == <<>>
====
