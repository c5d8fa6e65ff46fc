---- MODULE BrowserTabs ----
(***************************************************************************)
(* The tabs of a browser (adapters/apps/librewolf.rs; chromium.rs is the   *)
(* same with other names): what is decided from an answer of the           *)
(* extension, and the commands that follow.  Every operation asks again    *)
(* before its command, which the extension carries out on the window the   *)
(* browser takes for focused; it may hear of the compositor's focus later. *)
(* A call that fails may have its command carried out later                *)
(* (RemoteCalls).                                                          *)
(***************************************************************************)
EXTENDS Integers, FiniteSets, Sequences, SequencesExt

CONSTANTS BWindow,    \* the windows that there may be
          Strips0,    \* what they may show at first: [BWindow -> strips]
          BAsked,     \* directions
          MaxBTrouble \* failures and acts of the user

NoTab == 0
\* A strip: its tabs, of which the first are pinned; the active one by index from 0.
Strip == [tabs : Seq(Nat \ {NoTab}), pinned : Nat, at : Nat]
EmptyStrip == [tabs |-> <<>>, pinned |-> 0, at |-> 0]

\* A tab is in one place; a window may still open.
Tidy(ss) ==
  /\ \A w \in BWindow : ss[w].pinned <= Len(ss[w].tabs) /\ (ss[w].tabs # <<>> => ss[w].at < Len(ss[w].tabs))
  /\ \A v, w \in BWindow : \A i \in DOMAIN ss[v].tabs, j \in DOMAIN ss[w].tabs :
       ss[v].tabs[i] = ss[w].tabs[j] => v = w /\ i = j
ASSUME TabsAssumption ==
  \A ss \in Strips0 : /\ ss \in [BWindow -> Strip] /\ Tidy(ss)
                      /\ \E w \in BWindow : ss[w].tabs = <<>>

VARIABLES
  strips,   \* [BWindow -> strip]; a window without tabs is not there
  bfocus,   \* the window the browser takes for focused
  onTop,    \* the window the compositor has focused
  bcall,    \* the operation that runs
  late,     \* commands of calls that failed, on their way
  bbegun,   \* history: the strips and the window when the operation began
  btrouble  \* failures and acts so far

tabVars == <<strips, bfocus, onTop, bcall, late, bbegun, btrouble>>

NoBCall == [pc |-> "idle", op |-> "none", dir |-> "west", tab |-> NoTab, outcome |-> "none"]

-----------------------------------------------------------------------------
(* What is decided: s is a strip as the extension reports it *)

TabCount(s) == Len(s.tabs)
ActivePinned(s) == s.at < s.pinned

FocusTargetIndex(s, d) ==
  CASE d = "west" -> IF s.at > 0 THEN {s.at - 1} ELSE {}
    [] d = "east" -> IF s.at + 1 < TabCount(s) THEN {s.at + 1} ELSE {}
    [] OTHER -> {}
CanFocusTab(s, d) == FocusTargetIndex(s, d) # {}

MoveTargetPastPins(s, d) == FocusTargetIndex(s, d)
MoveTargetIndex(s, d) ==
  LET lowest == IF ActivePinned(s) THEN 0 ELSE s.pinned
      bound == IF ActivePinned(s) THEN s.pinned ELSE TabCount(s)
  IN  CASE d = "west" -> IF s.at > lowest THEN {s.at - 1} ELSE {}
        [] d = "east" -> IF s.at + 1 < bound THEN {s.at + 1} ELSE {}
        [] OTHER -> {}

TabDecision(s, d) ==
  IF TabCount(s) <= 1 THEN "passthrough"
  ELSE IF MoveTargetIndex(s, d) # {} THEN "internal" ELSE "tearOut"

-----------------------------------------------------------------------------
(* What the browser does *)

Reported == strips[bfocus]
ShownTab(s) == s.tabs[s.at + 1]
BrowserWindows == {w \in BWindow : strips[w].tabs # <<>>}
TabsIn(w) == ToSet(strips[w].tabs)
WindowOfTab(t) == {w \in BWindow : t \in TabsIn(w)}

PlaceOf(s, t) == (CHOOSE i \in 1..TabCount(s) : s.tabs[i] = t) - 1
WithoutTab(s, t) ==
  LET i == PlaceOf(s, t)  rest == RemoveAt(s.tabs, i + 1)
      at == IF i < s.at \/ s.at = Len(rest) THEN s.at - 1 ELSE s.at
  IN  IF rest = <<>> THEN EmptyStrip
      ELSE [tabs |-> rest, pinned |-> IF i < s.pinned THEN s.pinned - 1 ELSE s.pinned, at |-> at]
WithTab(s, t) == [tabs |-> Append(s.tabs, t), pinned |-> s.pinned, at |-> Len(s.tabs)]
LoneTab(t) == [tabs |-> <<t>>, pinned |-> 0, at |-> 0]

(* A pinned tab stays among the pinned. *)
SameSide(s, i) == i >= 0 /\ i < TabCount(s) /\ (i < s.pinned <=> ActivePinned(s))
MovedBy(s, step) ==
  LET i == s.at + step
  IN  IF SameSide(s, i)
      THEN [s EXCEPT !.tabs = [@ EXCEPT ![s.at + 1] = s.tabs[i + 1], ![i + 1] = s.tabs[s.at + 1]], !.at = i]
      ELSE s
StepTo(d) == CASE d = "west" -> -1 [] d = "east" -> 1 [] OTHER -> 0

(* A command, on the window the browser takes for focused. *)
BrowserRuns(c) ==
  CASE c.op = "focus" -> LET i == Reported.at + StepTo(c.dir) IN
         /\ strips' = IF i \in 0..TabCount(Reported) - 1 THEN [strips EXCEPT ![bfocus].at = i] ELSE strips
         /\ UNCHANGED <<bfocus, onTop>>
    [] c.op = "internal" -> strips' = [strips EXCEPT ![bfocus] = MovedBy(@, StepTo(c.dir))] /\ UNCHANGED <<bfocus, onTop>>
    [] c.op = "tearOut" ->
         LET t == ShownTab(Reported) free == BWindow \ BrowserWindows IN
         IF free = {} \/ TabCount(Reported) = 1 THEN UNCHANGED <<strips, bfocus, onTop>>
         ELSE \E w \in free : /\ strips' = [strips EXCEPT ![bfocus] = WithoutTab(@, t), ![w] = LoneTab(t)]
                              /\ bfocus' = w /\ onTop' = w
    [] c.op = "merge" ->
         IF WindowOfTab(c.tab) \subseteq {bfocus} THEN UNCHANGED <<strips, bfocus, onTop>>
         ELSE /\ strips' = [w \in BWindow |-> IF w = bfocus THEN WithTab(strips[w], c.tab)
                                              ELSE IF c.tab \in TabsIn(w) THEN WithoutTab(strips[w], c.tab) ELSE strips[w]]
              /\ onTop' = IF TabsIn(onTop) = {c.tab} THEN bfocus ELSE onTop
              /\ UNCHANGED bfocus

-----------------------------------------------------------------------------
(* An operation *)

BWorks == UNCHANGED btrouble
BTrouble == btrouble < MaxBTrouble /\ btrouble' = btrouble + 1
TabGoes(c) == bcall' = c
TabEnds(outcome) == bcall' = [bcall EXCEPT !.pc = "idle", !.outcome = outcome]
TabsAsIs == UNCHANGED <<strips, bfocus, onTop, late, bbegun>> /\ BWorks
StaysClean == bbegun' = bbegun
Spoilt == bbegun' = [bbegun EXCEPT !.clean = FALSE]

BeginTabs ==
  /\ bcall.pc = "idle" /\ bcall.outcome = "none"
  /\ \E op \in {"focus", "move"}, d \in BAsked : TabGoes([NoBCall EXCEPT !.pc = "ask", !.op = op, !.dir = d])
  /\ bbegun' = [strips |-> strips, window |-> onTop, clean |-> bfocus = onTop]
  /\ UNCHANGED <<strips, bfocus, onTop, late, btrouble>>

\* can_focus; move_decision.
AskCanFocus == /\ bcall.pc = "ask" /\ bcall.op = "focus"
               /\ IF CanFocusTab(Reported, bcall.dir) THEN TabGoes([bcall EXCEPT !.pc = "again"]) ELSE TabEnds("atEdge")
               /\ TabsAsIs
AskDecision ==
  /\ bcall.pc = "ask" /\ bcall.op = "move"
  /\ CASE TabDecision(Reported, bcall.dir) = "passthrough" -> TabEnds("passthrough")
       [] TabDecision(Reported, bcall.dir) = "internal" -> TabGoes([bcall EXCEPT !.pc = "again"])
       [] OTHER -> \/ TabGoes([bcall EXCEPT !.pc = "send", !.op = "tearOut"])
                   \/ BrowserWindows # {onTop} /\ TabGoes([bcall EXCEPT !.pc = "prepare"])
  /\ TabsAsIs
\* focus and move_internal ask again.
AskAgain ==
  /\ bcall.pc = "again"
  /\ LET target == IF bcall.op = "focus" THEN FocusTargetIndex(Reported, bcall.dir) ELSE MoveTargetIndex(Reported, bcall.dir)
     IN  IF target = {} THEN TabEnds("error")
         ELSE TabGoes([bcall EXCEPT !.pc = "send", !.op = IF @ = "focus" THEN @ ELSE "internal"])
  /\ TabsAsIs
\* prepare_merge; then the move session focuses the window to merge into.
PrepareTab == /\ bcall.pc = "prepare" /\ TabGoes([bcall EXCEPT !.pc = "target", !.op = "merge", !.tab = ShownTab(Reported)]) /\ TabsAsIs
FocusTarget == /\ bcall.pc = "target" /\ TabGoes([bcall EXCEPT !.pc = "send"])
               /\ \E w \in BrowserWindows \ {onTop} : onTop' = w
               /\ UNCHANGED <<strips, bfocus, late, bbegun>> /\ BWorks

TabCommand == [op |-> bcall.op, dir |-> bcall.dir, tab |-> bcall.tab]
SendCommand ==
  /\ bcall.pc = "send" /\ BrowserRuns(TabCommand) /\ TabEnds("done")
  /\ IF bfocus = onTop THEN StaysClean ELSE Spoilt
  /\ UNCHANGED late /\ BWorks
\* The call fails, whether its command is lost, has run, or is still to run.
CallFails ==
  /\ bcall.pc \notin {"idle", "target"} /\ TabEnds("error") /\ Spoilt /\ BTrouble
  /\ IF bcall.pc = "send" THEN late' = {TabCommand} ELSE UNCHANGED late
  /\ UNCHANGED <<strips, bfocus, onTop>>
LateCommand == /\ \E c \in late : BrowserRuns(c)
               /\ late' = {} /\ UNCHANGED <<bcall, bbegun>> /\ BWorks
BrowserHears == /\ bfocus # onTop /\ bfocus' = onTop
                /\ UNCHANGED <<strips, onTop, bcall, late, bbegun>> /\ BWorks
UserOfTabs ==
  /\ BTrouble /\ Spoilt /\ bcall.pc # "idle"
  /\ \/ \E w \in BrowserWindows : onTop' = w /\ w # onTop /\ UNCHANGED strips
     \/ \E i \in 0..TabCount(strips[onTop]) - 1 : strips' = [strips EXCEPT ![onTop].at = i] /\ UNCHANGED onTop
     \/ TabCount(strips[onTop]) > 1 /\ strips' = [strips EXCEPT ![onTop] = WithoutTab(@, ShownTab(@))] /\ UNCHANGED onTop
  /\ UNCHANGED <<bfocus, bcall, late>>

-----------------------------------------------------------------------------
TabsInit ==
  /\ strips \in Strips0
  /\ onTop \in BrowserWindows /\ bfocus = onTop
  /\ bcall = NoBCall /\ late = {} /\ btrouble = 0
  /\ bbegun = [strips |-> strips, window |-> onTop, clean |-> FALSE]

TabsNext ==
  \/ BeginTabs \/ AskCanFocus \/ AskDecision \/ AskAgain \/ PrepareTab \/ FocusTarget \/ SendCommand
  \/ CallFails \/ LateCommand \/ BrowserHears \/ UserOfTabs

TabsSpec == TabsInit /\ [][TabsNext]_tabVars

TabsTypeOK ==
  /\ \A w \in BWindow : strips[w].pinned \in 0..TabCount(strips[w]) /\ (w \in BrowserWindows => strips[w].at \in 0..TabCount(strips[w]) - 1)
  /\ bfocus \in BWindow /\ onTop \in BrowserWindows

(* Undisturbed, a tab that is moved goes one place along its strip, among  *)
(* those that are pinned as it is; only if it is the last there does it    *)
(* leave its window, for a new one or the one that was focused to take it  *)
(* (move_decision).  Nothing else moves.                                   *)
TabsMoveOneStep ==
  bbegun.clean /\ bcall.outcome = "done" /\ bcall.op # "focus" /\ late = {} =>
    LET w == bbegun.window  before == bbegun.strips[w]  t == ShownTab(before)
        beyond == before.at + StepTo(bcall.dir)
    IN  IF StepTo(bcall.dir) # 0 /\ SameSide(before, beyond)
        THEN strips[w].tabs[beyond + 1] = t /\ ToSet(before.tabs) = TabsIn(w)
        ELSE TabsIn(w) = ToSet(before.tabs) \ {t}
====
