-------------------------- MODULE MC_MoveSession --------------------------
(***************************************************************************)
(* Layouts for model-checking MoveSession.  Windows 1 and 2 exist at the   *)
(* start, 3 (and 4) can open.  Each layout gives the adapter chains of the *)
(* windows, the profile of each adapter and the place of each pane.        *)
(***************************************************************************)
EXTENDS MoveSession

CONSTANTS a, b, c, host, inner, mux

\* A terminal with its own panes (wezterm, kitty).
Host ==
  [terminal |-> TRUE, merge |-> TRUE, focus |-> TRUE, tearOut |-> TRUE,
   moveAllowed |-> TRUE, targetFocused |-> TRUE, spawns |-> FALSE,
   wholeWindow |-> TRUE]

\* A terminal multiplexer that needs a new terminal for a torn-out pane
\* (tmux, zellij); it merges from the source side.
Spawner == [Host EXCEPT !.spawns = TRUE, !.targetFocused = FALSE]

\* An editor inside a terminal (nvim without its user interface plugin).
Editor ==
  [terminal |-> FALSE, merge |-> TRUE, focus |-> TRUE, tearOut |-> FALSE,
   moveAllowed |-> TRUE, targetFocused |-> TRUE, spawns |-> FALSE,
   wholeWindow |-> FALSE]

SamePid == [w \in Window |-> IF w = 4 THEN 2 ELSE 1]
SameApp == [w \in Window |-> "term"]
AllPairs == {<<v, w>> \in Window \X Window : v # w}
NoPairs == {}

\* Window 1 shows panes a and b, window 2 pane c.
TwoAndOne == [p \in Pane |-> IF p = c THEN 2 ELSE 1]

\* Layout "mixed": the panes of window 1 are a multiplexer's.
MixedChain == [w \in Window |-> IF w = 1 THEN <<mux>> ELSE <<host>>]
MixedProfile == [n \in Adapter |-> IF n = mux THEN Spawner ELSE Host]

\* Layout "nested": an editor in a pane of a host; window 2 is not a terminal.
NestedChain == [w \in Window |-> IF w = 2 THEN <<host>> ELSE <<inner, host>>]
NestedProfile == [n \in Adapter |-> IF n = inner THEN Editor ELSE Host]
EditorsChain == [w \in Window |-> <<inner, host>>]

============================================================================
