---- MODULE MC_ZellijTearOut ----
(***************************************************************************)
(* Three panes; the constants of the code are 20 looks and 4 checks.       *)
(***************************************************************************)
EXTENDS ZellijTearOut

CONSTANTS p1, p2, p3

\* One tab, or two, or one and a pane that the user may open; up to the names of the panes.
Layouts == {[p1 |-> 1, p2 |-> 1, p3 |-> 1], [p1 |-> 2, p2 |-> 2, p3 |-> 1],
            [p1 |-> 1, p2 |-> 1, p3 |-> 0]}
TheHomes == {[p \in Pane |-> IF p = p1 THEN f.p1 ELSE IF p = p2 THEN f.p2 ELSE f.p3] : f \in Layouts}

\* One tear-out and an act of others or a failure, or two tear-outs that may overlap.
OneOrTwo == {[tears |-> 1, envs |-> 1, fails |-> 0],
             [tears |-> 1, envs |-> 0, fails |-> 1],
             [tears |-> 2, envs |-> 0, fails |-> 0]}
====
