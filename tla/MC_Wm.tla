---- MODULE MC_Wm ----
(***************************************************************************)
(* Values for WmBackends, and what its tables and WindowLists must satisfy.*)
(***************************************************************************)
EXTENDS WmBackends, WindowLists, WindowCycle

TheStrips == {<<<<1, 2, 3>>>>, <<<<1>>, <<2, 3>>>>, <<<<1, 2>>, <<3>>>>, <<<<1>>, <<2>>, <<3>>>>}
Declared == {Niri, I3, Yabai, Paneru}
\* The four adapters, and niri's built without its composer or a primitive.
TheAdapters == Declared \union {[Niri EXCEPT !.composer = FALSE],
                                [Niri EXCEPT !.primitives = @ \ {"move_column"}]}

\* Each declared adapter connects, on its system alone; the two others never.
ASSUME WhatConnects == \A a \in TheAdapters, os \in {"linux", "macos", "windows"} :
                          Connects(a, os) <=> a \in Declared /\ os = a.os

\* Growing toward a side and shrinking toward it undo each other; growing makes
\* no window smaller, but toward west and north on niri.
ASSUME ResizesUndone ==
  \A a \in Declared, d \in WmSides :
    /\ ResizeBy(a, d, TRUE) = -ResizeBy(a, d, FALSE)
    /\ ResizeBy(a, d, TRUE) < 0 <=> a.name = "niri" /\ d \in {"west", "north"}

-----------------------------------------------------------------------------
(* Windows as i3 and sway report them *)

\* Nodes without children: an X11 window, two of Wayland, a process with no name, an empty workspace.
LeafKinds ==
  {[window |-> TRUE, app |-> {}, name |-> {"shell"}, pid |-> {}, properties |-> {[class |-> {"XTerm"}, title |-> {"xterm"}]}],
   [window |-> FALSE, app |-> {"foot"}, name |-> {}, pid |-> {7}, properties |-> {[class |-> {}, title |-> {"sh"}]}],
   [window |-> TRUE, app |-> {""}, name |-> {""}, pid |-> {0}, properties |-> {[class |-> {"XTerm"}, title |-> {"xterm"}]}],
   [window |-> FALSE, app |-> {}, name |-> {}, pid |-> {7}, properties |-> {}],
   [window |-> FALSE, app |-> {}, name |-> {"2"}, pid |-> {}, properties |-> {}]}
\* What nodes hold: tiled ones, then floating ones.
Shapes == {<<<<<<2, 3>>, <<>>>>, <<<<>>, <<>>>>, <<<<4>>, <<>>>>, <<<<>>, <<>>>>>>,
           <<<<<<2>>, <<3>>>>, <<<<>>, <<4>>>>, <<<<>>, <<>>>>, <<<<>>, <<>>>>>>,
           <<<<<<2, 3, 4>>, <<>>>>, <<<<>>, <<>>>>, <<<<>>, <<>>>>, <<<<>>, <<>>>>>>}
\* At most one node is focused: a window, a container or an empty workspace.
Trees ==
  {[n \in DOMAIN s |-> k[n] @@ [nodes |-> s[n][1], floating |-> s[n][2], focused |-> n = f]] :
      s \in Shapes, k \in [1..4 -> LeafKinds], f \in 0..4}
LeavesOf(tree) == {n \in DOMAIN tree : Children(tree[n]) = <<>>}
Bare(node) == ~node.window /\ node.app = {} /\ node.properties = {} /\ node.pid = {}

\* The windows are the leaves that belong to an application, each listed once, tiled ones
\* before floating ones; the focused one is listed, and focused unless no window is:
\* with the focus on a container or an empty workspace it is the first of the list.
\* The second look at the tree never finds what the first did not.
ASSUME FocusedIsListed ==
  \A tree \in Trees :
    LET listed == WindowsOfI3(tree)  leaves == {n \in LeavesOf(tree) : ~Bare(tree[n])}
        aimed == {n \in leaves : tree[n].focused}
    IN  /\ Ids(listed) = leaves /\ Len(listed) = Cardinality(leaves)
        /\ FocusedIn(listed) = FirstOf(FocusedLeaves(tree, Root))
        /\ {r.id : r \in FocusedOfI3(tree)} = IF aimed # {} THEN aimed ELSE {r.id : r \in FirstOf(listed)}

\* An application's blank name hides its class; a blank title or a process 0 is none at all.
ASSUME BlankIsAbsent ==
  \A tree \in Trees : \A i \in DOMAIN WindowsOfI3(tree) :
    LET r == WindowsOfI3(tree)[i]  node == tree[r.id]
    IN  /\ "" \notin r.app \union r.title /\ 0 \notin r.pid
        /\ node.app = {""} => r.app = {}
        /\ node.app = {} /\ node.properties # {} => r.app = {"XTerm"}

-----------------------------------------------------------------------------
(* The others *)

Answers(window) == UNION {[1..n -> window] : n \in 0..2}
YabaiAnswers == {a \in Answers([id : {1, 2}, app : {"", "Safari"}, title : {""}, pid : {0, 7}, focused : BOOLEAN]) :
                   \A i, j \in DOMAIN a : i # j => a[i].id # a[j].id /\ ~(a[i].focused /\ a[j].focused)}
NiriAnswers == {a \in Answers([id : {1, 2}, app : {{}, {"foot"}}, title : {{}}, pid : {{}, {-1}, {7}}, focused : BOOLEAN, tile : {{}, {2}}]) :
                  \A i, j \in DOMAIN a : i # j => a[i].id # a[j].id /\ ~(a[i].focused /\ a[j].focused)}
Fronts == [pid : {{}, {0}, {7}}, bundle : {{}, {"com.apple.Safari"}}, name : {{}, {"Safari"}}]

\* yabai and niri take no window for the focused one unless it is; paneru's is on no list,
\* so that nothing which looks for it among the windows finds it.
ASSUME NoWindowInItsPlace ==
  /\ \A a \in YabaiAnswers : FocusedOfYabai(a) = {} <=> \A i \in DOMAIN a : ~a[i].focused
  /\ \A a \in NiriAnswers : FocusedOfNiri(a) = {} <=> \A i \in DOMAIN a : ~a[i].focused
  /\ \A a \in NiriAnswers : \A i \in DOMAIN a : WindowsOfNiri(a)[i].tile = IF a[i].tile = {} THEN 1 ELSE 2
  /\ \A f \in Fronts : \A r \in FocusedOfPaneru(f) : r.id \notin Ids(WindowsOfPaneru) /\ r.pid = {r.id}

-----------------------------------------------------------------------------
(* Windows to go to *)

Listed(id, time, title) == [id |-> id, app |-> {"foot"}, title |-> title, time |-> time, focused |-> FALSE]
AnyFoot == [app |-> {"foot"}, title |-> {}, new |-> FALSE, spawn |-> FALSE, summon |-> FALSE]
Stamps == {{}} \cup {{<<t, 0>>} : t \in 1..3}
FocusOn(windows, id) == [i \in DOMAIN windows |-> [windows[i] EXCEPT !.focused = windows[i].id = id]]
Visits(windows, n) ==
  LET at[k \in 0..n] == IF k = 0 THEN windows ELSE FocusOn(windows, FocusOrCycle(at[k - 1], AnyFoot).target)
  IN  [k \in 1..n |-> FocusOrCycle(at[k - 1], AnyFoot).target]

\* Calls in a row, faster than niri stamps a focus, go round all the matches; the
\* first of them goes to the match that had the focus last.
ASSUME RoundGoesToAll ==
  \A stamps \in [1..3 -> Stamps] :
    LET windows == [i \in 1..3 |-> Listed(i, stamps[i], {})]
        visits == Visits(windows, 3)
        time(i) == IF stamps[i] = {} THEN 0 ELSE (CHOOSE t \in stamps[i] : TRUE)[1]
    IN  ToSet(visits) = 1..3 /\ \A i \in 1..3 : time(i) <= time(visits[1])

\* Once the focus is stamped, calls go between the two windows used last.
ASSUME StampedFocusAlternates ==
  \A times \in {f \in [1..3 -> 1..3] : IsInjective(f)} :
    LET windows == [i \in 1..3 |-> Listed(i, {<<times[i], 0>>}, {})]
        last == CHOOSE i \in 1..3 : times[i] = 3
        next == FocusOrCycle(FocusOn(windows, last), AnyFoot).target
        after == FocusOn([windows EXCEPT ![next].time = {<<4, 0>>}], next)
    IN  times[next] = 2 /\ FocusOrCycle(after, AnyFoot).target = last

\* What is done is an error just when nothing is looked for, or nothing found and
\* nothing to spawn; what is gone to matches all that was asked.
ASSUME GoesToMatch ==
  \A titles \in [1..2 -> SUBSET {"log", "man"}], app \in {{}, {"foot"}, {"kitty"}}, title \in {{}, {"log"}},
     spawn, new \in BOOLEAN :
    LET windows == [i \in 1..2 |-> Listed(i, {}, titles[i])]
        request == [app |-> app, title |-> title, new |-> new, spawn |-> spawn, summon |-> FALSE]
        fit == {i \in 1..2 : app # {"kitty"} /\ title \subseteq titles[i]}
        outcome == FocusOrCycle(windows, request)
    IN  /\ outcome.does = "error" <=> (app = {} /\ title = {}) \/ (~spawn /\ (new \/ fit = {}))
        /\ outcome.does = "focus" => outcome.target \in fit
====
