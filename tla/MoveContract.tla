---------------------------- MODULE MoveContract ----------------------------
(***************************************************************************)
(* What one `yny move' request promises, whatever adapters, transfers and  *)
(* the window manager do to keep it: it takes effect at most once, says    *)
(* `ok' only if it did, and closes no window that still shows something.   *)
(* A call that takes effect and then reports failure (Misreport) is the    *)
(* one way in which a request can have a second effect.                    *)
(***************************************************************************)
EXTENDS FiniteSets

CONSTANTS Window, Pane, Detached, Gone

VARIABLES
  open,     \* windows on the screen
  place,    \* place[p]: window that shows pane p, Detached or Gone
  stage,    \* "idle", "pending": nothing done yet, "acted"
  outcome   \* report of the last request: "none", "ok", "appErr", "wmErr"

vars == <<open, place, stage, outcome>>

Error == {"appErr", "wmErr"}

Init ==
  /\ open \subseteq Window /\ place \in [Pane -> open]
  /\ stage = "idle" /\ outcome = "none"

Ends(r) == stage' = "idle" /\ outcome' = r

Start ==
  /\ stage = "idle" /\ UNCHANGED <<open, place>>
  /\ \/ stage' = "pending" /\ outcome' = "none"
     \/ \E r \in Error : Ends(r)

\* One pane leaves its window, for another one or for a window to come.
OnePaneMoves ==
  /\ UNCHANGED open
  /\ \E p \in Pane, w \in open \cup {Detached} :
       place[p] \in open /\ place' = [place EXCEPT ![p] = w]

\* The effect: content moves between windows ...
Relocate ==
  /\ stage = "pending" /\ OnePaneMoves
  /\ \/ stage' = "acted" /\ UNCHANGED outcome
     \/ Ends("ok")

\* ... or inside its window, or the window itself is moved.
Rearrange == stage = "pending" /\ UNCHANGED <<open, place>> /\ Ends("ok")

Misreport ==
  /\ stage = "pending" /\ (OnePaneMoves \/ UNCHANGED <<open, place>>)
  /\ \/ UNCHANGED <<stage, outcome>>
     \/ \E r \in Error : Ends(r)

\* After the effect: a source window left empty may go, and success is reported;
\* an error only if a pane is left without a window.
Report ==
  /\ stage = "acted" /\ UNCHANGED place
  /\ \/ /\ Ends("ok")
        /\ \/ UNCHANGED open
           \/ \E w \in open : open' = open \ {w} /\ \A p \in Pane : place[p] # w
     \/ /\ \E r \in Error : Ends(r)
        /\ \E p \in Pane : place[p] = Detached
        /\ UNCHANGED open

\* Others open windows, for a detached pane or not, and close them.
World ==
  /\ UNCHANGED <<stage, outcome>>
  /\ \/ \E w \in Window \ open :
          /\ open' = open \cup {w}
          /\ \/ UNCHANGED place
             \/ \E p \in Pane : place[p] = Detached /\ place' = [place EXCEPT ![p] = w]
     \/ \E w \in open :
          /\ open' = open \ {w}
          /\ place' = [p \in Pane |-> IF place[p] = w THEN Gone ELSE place[p]]

Next == Start \/ Relocate \/ Rearrange \/ Misreport \/ Report \/ World

Spec == Init /\ [][Next]_vars

=============================================================================
