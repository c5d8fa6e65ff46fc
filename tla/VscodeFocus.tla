---- MODULE VscodeFocus ----
(***************************************************************************)
(* Focus and moves inside a VS Code window (src/src/adapters/apps/         *)
(* vscode.rs).  VS Code tells its editor layout but not which group is     *)
(* active, so every command reads from a file what has been believed of it *)
(* so far, reads the layout, sends VS Code a command it gets no answer to, *)
(* and writes to the file what may be active then.  For the time VS Code   *)
(* is given to act, the belief before the command is kept beside the one   *)
(* after it.                                                               *)
(*                                                                         *)
(* A call is a process; what it reads, sends and writes are steps, between *)
(* which VS Code, the user and other calls act.  A layout is a sequence of *)
(* columns, each given by how many groups it stacks; groups are numbered   *)
(* in the order of LayoutSnapshot's leaves, from 1.                        *)
(***************************************************************************)
EXTENDS Integers, Sequences, FiniteSets, SequencesExt

CONSTANTS Layouts, Proc, NoState,
          Size,             \* the window is Size x Size; divisible by all numbers of groups
          ManageTerminal,   \* editor_manage_terminal_for
          GroupsClose,      \* VS Code closes a group whose last editor leaves
          MaxActs           \* bounds calls, deaths and acts of the user together

VARIABLES
  layout, active, surface,  \* VS Code: its layout, active group, what has the focus
  queue,                    \* commands sent to VS Code and not carried out
  file,                     \* vscode-state.json, this window's entry
  pc, r,                    \* per process: next step; what it asks for and has read
  trust,                    \* history: nothing has happened that the belief cannot know of
  older,                    \* history: a command was planned from the belief before the latest
  streak,                   \* history: calls in a row that moved the focus in one direction
  acts

vscode == <<layout, active, surface, queue>>
vars == <<layout, active, surface, queue, file, pc, r, trust, older, streak, acts>>

Direction == {"west", "east", "north", "south"}
Surface == {"editors", "sidebar", "terminal"}

-----------------------------------------------------------------------------
(* The layout *)

\* The groups of the columns up to one.
Upto(l) == LET n[c \in 0..Len(l)] == IF c = 0 THEN 0 ELSE n[c - 1] + l[c] IN n
All(l) == 1..Upto(l)[Len(l)]
ColumnOf(l, g) == CHOOSE c \in 1..Len(l) : Upto(l)[c - 1] < g /\ g <= Upto(l)[c]

\* collect_leaf_rects
Rect(l, g) ==
  LET c == ColumnOf(l, g)
      w == Size \div Len(l)
      h == Size \div l[c]
  IN  [x |-> (c - 1) * w, y |-> (g - Upto(l)[c - 1] - 1) * h, w |-> w, h |-> h]

Shared(a, alen, b, blen) ==
  LET end   == IF a + alen < b + blen THEN a + alen ELSE b + blen
      start == IF a > b THEN a ELSE b
  IN  IF end > start THEN end - start ELSE 0

Distance(s, c, dir) == CASE dir = "west"  -> s.x - (c.x + c.w)
                         [] dir = "east"  -> c.x - (s.x + s.w)
                         [] dir = "north" -> s.y - (c.y + c.h)
                         [] dir = "south" -> c.y - (s.y + s.h)
Overlap(s, c, dir) == IF dir \in {"west", "east"} THEN Shared(s.y, s.h, c.y, c.h)
                      ELSE Shared(s.x, s.w, c.x, c.w)

\* Nearest, then the longest common border, then the first; 0 is none.
Neighbor(l, from, dir) ==
  LET Far(to) == Distance(Rect(l, from), Rect(l, to), dir)
      Wide(to) == Overlap(Rect(l, from), Rect(l, to), dir)
      side == {to \in All(l) \ {from} : Wide(to) > 0 /\ Far(to) >= 0}
      nearest == {to \in side : \A other \in side : Far(to) <= Far(other)}
      widest == {to \in nearest : \A other \in nearest : Wide(to) >= Wide(other)}
  IN  IF side = {} THEN 0 ELSE CHOOSE to \in widest : \A other \in widest : to <= other

\* neighbor_for_leaf, as a table.
neighbor == [l \in Layouts |-> [from \in All(l) |-> [dir \in Direction |-> Neighbor(l, from, dir)]]]

AnyNeighbor(l, groups, dir) == \E g \in groups : neighbor[l][g][dir] # 0
AllNeighborsAny(l, groups, dir) == AnyNeighbor(l, groups, dir)
AllNeighbors(l, groups, dir) == groups # {} /\ \A g \in groups : neighbor[l][g][dir] # 0

\* apply_focus_transition
AfterStayed(l, groups, dir) == groups
After(l, groups, dir) ==
  {IF neighbor[l][g][dir] = 0 THEN g ELSE neighbor[l][g][dir] : g \in groups}

\* The layout without a group: its column has one less, or is gone.
Closed(l, g) == LET c == ColumnOf(l, g)
                IN  IF l[c] = 1 THEN RemoveAt(l, c) ELSE [l EXCEPT ![c] = @ - 1]

\* VscodeWindowState, as it may be in the file.
States == [sig : Layouts, groups : SUBSET Nat, surface : Surface,
           pending : Seq([groups : SUBSET Nat, surface : Surface, by : Proc, due : BOOLEAN])]

ASSUME VscodeAssumption ==
  LET Parts == {n \in 1..Size : Size % n = 0}
  IN  /\ Size \in Nat /\ Layouts \subseteq Seq(Parts) /\ \A l \in Layouts : Len(l) \in Parts
      /\ \A l \in Layouts : \A g \in All(l) : Cardinality(All(l)) > 1 => Closed(l, g) \in Layouts
      /\ {ManageTerminal, GroupsClose} \subseteq BOOLEAN /\ NoState \notin States

-----------------------------------------------------------------------------
(* What is believed *)

\* VscodeWindowState; pending is the belief once VS Code has had its time,
\* <<>> or one record.  A group number beyond the layout cannot be active.
Default(l) == [sig |-> l, groups |-> All(l), surface |-> "editors", pending |-> <<>>]
Within(l, groups) == IF groups \intersect All(l) = {} THEN All(l) ELSE groups \intersect All(l)

\* normalize_window_state
Normal(st, l) ==
  IF st = NoState \/ st.sig # l THEN Default(l)
  ELSE IF st.pending # <<>> /\ st.pending[1].due
  THEN [sig |-> l, groups |-> Within(l, st.pending[1].groups),
        surface |-> st.pending[1].surface, pending |-> <<>>]
  ELSE [st EXCEPT !.groups = Within(l, @)]

\* active_models, the latest last.
Models(st) ==
  LET now   == [groups |-> st.groups, surface |-> st.surface]
      later == [groups |-> st.pending[1].groups, surface |-> st.pending[1].surface]
  IN  IF st.pending = <<>> \/ later = now THEN <<now>> ELSE <<now, later>>

Latest(st) == Last(Models(st))
\* The latest of the models that are so.
Newest(st, so) == IF Latest(st) \in so THEN Latest(st) ELSE CHOOSE m \in so : TRUE

\* workbench_surface_for_direction
Beyond(dir) == CASE dir = "west" -> {"sidebar"} [] dir = "south" -> {"terminal"} [] OTHER -> {}

Returns(m, dir) == \/ m.surface = "sidebar" /\ dir = "east"
                   \/ m.surface = "terminal" /\ dir = "north"
AmongTerminals(m, dir) == m.surface = "terminal" /\ dir \in {"west", "east"}
Near(l, m, dir) == m.surface = "editors" /\ AnyNeighbor(l, m.groups, dir)
AtEdge(l, m, dir) == m.surface = "editors" /\ ~AnyNeighbor(l, m.groups, dir) /\ Beyond(dir) # {}

\* can_focus
CanFocus(l, st, dir) ==
  \E m \in ToSet(Models(st)) :
    \/ Returns(m, dir) \/ Near(l, m, dir) \/ AtEdge(l, m, dir)
    \/ ManageTerminal /\ AmongTerminals(m, dir)

\* focus: the command, the groups it is planned from and the belief after it;
\* <<>> is the bail.
FocusPlan(l, st, dir) ==
  LET Plan(cmd, arg, m, groups, to) == <<[cmd |-> cmd, arg |-> arg, from |-> m.groups,
                                          next |-> [groups |-> groups, surface |-> to]]>>
      Surf(arg, m) == Plan("surface", arg, m, m.groups, arg)
      back == {m \in ToSet(Models(st)) : Returns(m, dir)}
      terminals == {m \in ToSet(Models(st)) : AmongTerminals(m, dir)}
      editors == {m \in ToSet(Models(st)) : m.surface = "editors"}
      edge == {m \in ToSet(Models(st)) : AtEdge(l, m, dir)}
  IN  IF back # {} THEN Surf("editors", Newest(st, back))
      ELSE IF terminals # {} THEN Surf("terminal", Newest(st, terminals))
      ELSE IF \E m \in editors : Near(l, m, dir)
      THEN LET m == Newest(st, editors)
           IN  Plan("focus", dir, m, After(l, m.groups, dir), "editors")
      ELSE IF edge # {} THEN Surf(CHOOSE s \in Beyond(dir) : TRUE, Newest(st, edge))
      ELSE <<>>

InTerminal(st) == ManageTerminal /\ \E m \in ToSet(Models(st)) : m.surface = "terminal"

MoveDecision(l, st, dir) ==
  IF InTerminal(st) THEN "tearOut"
  ELSE IF Cardinality(All(l)) = 1 \/ \E m \in ToSet(Models(st)) : m.surface # "editors"
  THEN "passthrough"
  ELSE IF AnyNeighbor(l, Latest(st).groups, dir) THEN "internal" ELSE "tearOut"

-----------------------------------------------------------------------------
NoRead == [dir |-> "none", snap |-> <<>>, state |-> NoState, asked |-> NoState, plan |-> <<>>]

Init == /\ layout \in Layouts /\ active \in All(layout) /\ surface = "editors"
        /\ queue = <<>>
        /\ file = NoState
        /\ pc = [p \in Proc |-> "idle"] /\ r = [p \in Proc |-> NoRead]
        /\ trust = TRUE /\ older = FALSE
        /\ streak = [dir |-> "none", n |-> 0]
        /\ acts = 0

Steps == {"idle", "canFocus", "focusLook", "focus", "focusSend", "focusStore", "sleep",
          "decide", "moveLook", "move", "moveSend", "settle", "save",
          "outLook", "out", "outSettle", "outSave"}
\* Steps of a call that has read the belief it will replace.
Changing == {"focusSend", "focusStore", "moveSend", "settle", "save", "outSettle", "outSave"}

Set(p, step, rec) == pc' = [pc EXCEPT ![p] = step] /\ r' = [r EXCEPT ![p] = rec]
Step(p, step) == pc' = [pc EXCEPT ![p] = step] /\ UNCHANGED r
Ends(p) == Set(p, "idle", NoRead)
Send(cmd, arg) == queue' = Append(queue, [cmd |-> cmd, arg |-> arg])
Alone(p) == \A q \in Proc \ {p} : pc[q] = "idle"
NoStreak == [dir |-> "none", n |-> 0]

Overlaps(p) == \E q \in Proc \ {p} : pc[q] \in Changing

\* A belief read while another call is changing it is out of date; one that
\* knows nothing is right again.  `from' is the belief a command is planned from.
Reads(p, st, from) ==
  LET fresh == queue = <<>> /\ st = Default(layout)
  IN  /\ trust' = (r[p].snap = layout /\ ~Overlaps(p) /\ (trust \/ fresh))
      /\ older' = ((older /\ ~fresh) \/ from # Latest(st).groups)

\* The first thing every handler asks VS Code for is its layout.
Begin(p) ==
  /\ pc[p] = "idle" /\ acts < MaxActs
  /\ \E dir \in Direction, first \in {"canFocus", "decide"} :
       Set(p, first, [NoRead EXCEPT !.dir = dir, !.snap = layout])
  /\ acts' = acts + 1
  /\ UNCHANGED <<vscode, file, trust, older, streak>>

Look(p) ==
  LET next == [focusLook |-> "focus", moveLook |-> "move", outLook |-> "out",
               settle |-> "save", outSettle |-> "outSave"]
  IN  /\ pc[p] \in DOMAIN next
      /\ Set(p, next[pc[p]], [r[p] EXCEPT !.snap = layout])
      /\ UNCHANGED <<vscode, file, trust, older, streak, acts>>

-----------------------------------------------------------------------------
(* yny focus *)

\* A direction VS Code cannot focus in is left to the window manager.
AskFocus(p) ==
  /\ pc[p] = "canFocus"
  /\ LET st == Normal(file, r[p].snap) IN
     IF CanFocus(r[p].snap, st, r[p].dir)
     THEN Set(p, "focusLook", [r[p] EXCEPT !.asked = st]) /\ UNCHANGED streak
     ELSE Ends(p) /\ streak' = NoStreak
  /\ UNCHANGED <<vscode, file, trust, older, acts>>

Focus(p) ==
  /\ pc[p] = "focus"
  /\ LET st   == Normal(file, r[p].snap)
         plan == FocusPlan(r[p].snap, st, r[p].dir)
     IN  IF plan = <<>> THEN Ends(p) /\ UNCHANGED <<trust, older>>
         ELSE /\ Set(p, "focusSend", [NoRead EXCEPT !.state = st, !.plan = plan])
              /\ Reads(p, st, plan[1].from)
  /\ UNCHANGED <<vscode, file, streak, acts>>

FocusSend(p) ==
  /\ pc[p] = "focusSend"
  /\ Send(r[p].plan[1].cmd, r[p].plan[1].arg)
  /\ Step(p, "focusStore")
  /\ UNCHANGED <<layout, active, surface, file, trust, older, streak, acts>>

\* stage_focus_model, store_window_state
Later(st, belief, p, due) ==
  [st EXCEPT !.pending = <<[groups |-> belief.groups, surface |-> belief.surface, by |-> p, due |-> due]>>]
Staged(p) == Later(r[p].state, r[p].plan[1].next, p, FALSE)
FocusStore(p) ==
  /\ pc[p] = "focusStore"
  /\ file' = Staged(p)
  /\ LET plan == r[p].plan[1] IN
     streak' = IF /\ plan.cmd = "focus" /\ trust /\ Alone(p)
                  /\ r[p].state.pending = <<>> /\ r[p].state.sig = layout
               THEN [dir |-> plan.arg, n |-> IF streak.dir = plan.arg THEN streak.n + 1 ELSE 1]
               ELSE NoStreak
  /\ Set(p, "sleep", NoRead)
  /\ UNCHANGED <<vscode, trust, older, acts>>

\* wait_for_focus_settle ends when settle_until_ms has come.
Wake(p) ==
  /\ pc[p] = "sleep"
  /\ file' = IF file # NoState /\ file.pending # <<>> /\ file.pending[1].by = p
             THEN Later(file, file.pending[1], p, TRUE) ELSE file
  /\ Ends(p)
  /\ UNCHANGED <<vscode, trust, older, streak, acts>>

-----------------------------------------------------------------------------
(* yny move *)

Decide(p) ==
  /\ pc[p] = "decide"
  /\ LET st == Normal(file, r[p].snap)
         decision == MoveDecision(r[p].snap, st, r[p].dir)
     IN  /\ IF decision = "passthrough" THEN Ends(p)
            ELSE Set(p, IF decision = "internal" THEN "moveLook" ELSE "outLook",
                     [r[p] EXCEPT !.asked = st])
         /\ streak' = NoStreak
  /\ UNCHANGED <<vscode, file, trust, older, acts>>

\* move_internal bails out where it finds what its decision did not allow.
Move(p) ==
  /\ pc[p] = "move"
  /\ LET st == Normal(file, r[p].snap) IN
     IF \/ \E m \in ToSet(Models(st)) : m.surface # "editors"
        \/ ~AnyNeighbor(r[p].snap, Latest(st).groups, r[p].dir)
     THEN Ends(p) /\ UNCHANGED <<trust, older>>
     ELSE /\ Set(p, "moveSend", [r[p] EXCEPT !.state = st, !.asked = NoState])
          /\ Reads(p, st, Latest(st).groups)
  /\ UNCHANGED <<vscode, file, streak, acts>>

\* A move planned for a layout that is about to change goes where it was not to go.
\* The belief goes along with the editor if all groups it may be in have a neighbour.
MoveSend(p) ==
  /\ pc[p] = "moveSend"
  /\ LET groups == Latest(r[p].state).groups IN
     /\ Send("move", r[p].dir)
     /\ Set(p, "settle", [NoRead EXCEPT !.plan =
              IF AllNeighbors(r[p].snap, groups, r[p].dir)
              THEN <<[cmd |-> "move", arg |-> r[p].dir,
                      next |-> [groups |-> After(r[p].snap, groups, r[p].dir),
                                surface |-> "editors"]]>>
              ELSE <<>>])
  /\ trust' = (trust /\ layout = r[p].state.sig
                    /\ \A i \in DOMAIN queue : queue[i].cmd \notin {"move", "tearOut"})
  /\ UNCHANGED <<layout, active, surface, file, older, streak, acts>>

Followed(p) ==
  IF r[p].plan = <<>> THEN Default(r[p].snap)
  ELSE [Default(r[p].snap) EXCEPT !.groups = Within(r[p].snap, r[p].plan[1].next.groups)]
Save(p) ==
  /\ pc[p] = "save"
  /\ file' = Followed(p)
  /\ Ends(p)
  /\ UNCHANGED <<vscode, trust, older, streak, acts>>

\* move_out; the belief is read for the terminal only.
MoveOut(p) ==
  /\ pc[p] = "out"
  /\ LET st == Normal(file, r[p].snap) IN
     Send("tearOut", IF InTerminal(st) THEN "terminal" ELSE "editors")
  /\ Set(p, "outSettle", NoRead)
  /\ trust' = (trust /\ ~Overlaps(p))
  /\ UNCHANGED <<layout, active, surface, file, older, streak, acts>>

\* refresh_window_state; without the layout it forgets the window.
Refresh(p) ==
  /\ \/ pc[p] = "outSave" /\ file' = Default(r[p].snap)
     \/ pc[p] = "outSettle" /\ file' = NoState
  /\ Ends(p)
  /\ UNCHANGED <<vscode, trust, older, streak, acts>>

\* Without an answer to the layout, or killed, a call leaves the file alone
\* (but see Refresh).
\* After it has written, nothing is left to do.
Dies(p) ==
  /\ pc[p] \notin {"idle", "sleep"} /\ acts < MaxActs
  /\ Ends(p)
  /\ trust' = (trust /\ pc[p] \notin Changing \ {"focusSend", "moveSend"})
  /\ acts' = acts + 1
  /\ UNCHANGED <<vscode, file, older, streak>>

-----------------------------------------------------------------------------
(* VS Code and the user *)

\* Whatever happened meanwhile, a belief for this layout counts again when it is back.
Remembered(l) == \/ file # NoState /\ file.sig = l
                 \/ \E p \in Proc : \/ r[p].snap = l
                                    \/ r[p].state # NoState /\ r[p].state.sig = l

\* Without a group on that side the focus goes nowhere; what becomes of an editor
\* that is to move there is not known.
Executes ==
  /\ queue # <<>> /\ queue' = Tail(queue)
  /\ LET c  == Head(queue)
         to == IF c.arg \in Direction THEN neighbor[layout][active][c.arg] ELSE 0
     IN  \/ /\ c.cmd = "surface"
            /\ surface' = c.arg /\ UNCHANGED <<layout, active>>
         \/ /\ c.cmd = "focus" /\ to = 0
            /\ UNCHANGED <<layout, active, surface>>
         \/ /\ c.cmd = "move" /\ to = 0
            /\ layout' \in Layouts /\ active' \in All(layout') /\ surface' = "editors"
         \/ /\ c.cmd \in {"focus", "move"} /\ to # 0
            /\ surface' = "editors"
            /\ \E closes \in {FALSE, GroupsClose /\ c.cmd = "move"} :
                 /\ layout' = IF closes THEN Closed(layout, active) ELSE layout
                 /\ active' = IF closes /\ to > active THEN to - 1 ELSE to
         \/ /\ c.cmd = "tearOut"
            /\ surface' \in IF c.arg = "terminal" THEN Surface ELSE {"editors"}
            /\ UNCHANGED <<layout, active>>
         \/ /\ c.cmd = "tearOut" /\ c.arg = "editors" /\ Cardinality(All(layout)) > 1
            /\ layout' = Closed(layout, active)
            /\ active' \in All(layout')
            /\ surface' = "editors"
  /\ streak' = IF layout' = layout THEN streak ELSE NoStreak
  /\ trust' = (trust /\ (layout' = layout \/ ~Remembered(layout')))
  /\ UNCHANGED <<file, pc, r, older, acts>>

Acts == acts < MaxActs /\ acts' = acts + 1 /\ streak' = NoStreak

UserClicks ==
  /\ Acts
  /\ active' \in All(layout) /\ surface' \in Surface
  /\ <<active', surface'>> # <<active, surface>>
  /\ trust' = FALSE
  /\ UNCHANGED <<layout, queue, file, pc, r, older>>

UserSplits ==
  /\ Acts
  /\ layout' \in Layouts \ {layout} /\ active' \in All(layout') /\ surface' = "editors"
  /\ trust' = (queue = <<>> /\ (\A p \in Proc : pc[p] = "idle") /\ ~Remembered(layout'))
  /\ UNCHANGED <<queue, file, pc, r, older>>

-----------------------------------------------------------------------------
Call(p) == \/ Begin(p) \/ Look(p)
           \/ AskFocus(p) \/ Focus(p) \/ FocusSend(p) \/ FocusStore(p) \/ Wake(p)
           \/ Decide(p) \/ Move(p) \/ MoveSend(p) \/ Save(p) \/ MoveOut(p) \/ Refresh(p)
           \/ Dies(p)

Next == (\E p \in Proc : Call(p)) \/ Executes \/ UserClicks \/ UserSplits

Spec == Init /\ [][Next]_vars

-----------------------------------------------------------------------------
Belief(l) == [groups : (SUBSET All(l)) \ {{}}, surface : Surface]

\* The state is well-typed; a belief speaks of groups of its own layout.
TypeOK ==
  /\ layout \in Layouts /\ active \in All(layout) /\ surface \in Surface
  /\ \A i \in DOMAIN queue : queue[i].cmd \in {"surface", "focus", "move", "tearOut"}
  /\ file # NoState =>
       /\ file.sig \in Layouts
       /\ \A i \in DOMAIN Models(file) : Models(file)[i] \in Belief(file.sig)
  /\ pc \in [Proc -> Steps]
  /\ \A p \in Proc : pc[p] = "idle" => r[p] = NoRead
  /\ {trust, older} \subseteq BOOLEAN
  /\ {acts, streak.n} \subseteq Nat

Settled == queue = <<>> /\ \A p \in Proc : pc[p] \notin Changing

\* "narrow the set of possible active editor leaves" (vscode.rs:57): once VS
\* Code has carried out what it was sent, the active group is among those the
\* latest belief allows, unless something happened that the code cannot know of:
\* a click, a call that read the belief while another changed it, a death
\* between the command and the file; or a command was planned from the belief
\* before the latest (BeliefSurvivesQuickPresses).
ActiveIsPossible ==
  trust /\ ~older /\ Settled => active \in Latest(Normal(file, layout)).groups

\* The same for presses so quick that the latest belief is not due yet
\* (vscode.rs:55-57).
BeliefSurvivesQuickPresses ==
  trust /\ Settled => active \in Latest(Normal(file, layout)).groups

\* Pressing one direction again and again reaches the edge: the focus moves
\* inside the window fewer times in a row than there are groups.
EdgeIsReached == streak.n < Cardinality(All(layout)) \/ streak.n = 0

====
