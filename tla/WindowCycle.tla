---- MODULE WindowCycle ----
(***************************************************************************)
(* Which window `yny focus-or-cycle' goes to                               *)
(* (src/src/commands/focus_or_cycle.rs, and focus_or_cycle of              *)
(* src/src/adapters/window_managers/niri.rs).  NiriSummon says what then   *)
(* becomes of the window.  A request is what is given on the command line, *)
(* {} what is not; a window's title is the set of the texts found in it.   *)
(***************************************************************************)
EXTENDS Naturals, Sequences, FiniteSets, SequencesExt

NoTime == <<0, 0>>
Outcome(does, target) == [does |-> does, target |-> target]
Error == Outcome("error", 0)

\* Something to look for, and something to spawn where a new window is asked for.
Valid(request) == /\ request.app # {} \/ request.title # {}
                  /\ request.new => request.spawn

Matches(w, request) == /\ request.app # {} => w.app = request.app
                       /\ request.title \subseteq w.title

\* By when they had the focus, the latest first; a window that never had it comes
\* after those that had.
FocusKey(w) == (IF w.time = {} THEN NoTime ELSE CHOOSE t \in w.time : TRUE) \o <<w.id>>
Later(v, w) == LET a == FocusKey(v)  b == FocusKey(w)
               IN  \E i \in DOMAIN a : a[i] > b[i] /\ \A j \in 1..(i - 1) : a[j] = b[j]
FocusOrder(windows, request) ==
  SetToSortSeq({windows[i] : i \in {j \in DOMAIN windows : Matches(windows[j], request)}}, Later)

\* The match after the focused one, around; the first if that is none of them.
NextOf(order, windows) ==
  LET at == SelectInSeq(order, LAMBDA w : w.focused)
  IN  order[(at % Len(order)) + 1]

FocusOrCycle(windows, request) ==
  LET order == FocusOrder(windows, request)
  IN  CASE ~Valid(request) -> Error
        [] Valid(request) /\ request.new -> Outcome("spawn", 0)
        [] Valid(request) /\ ~request.new /\ order = <<>> -> IF request.spawn THEN Outcome("spawn", 0) ELSE Error
        [] OTHER -> Outcome(IF request.summon THEN "summon" ELSE "focus", NextOf(order, windows).id)
====
