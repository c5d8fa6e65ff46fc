---- MODULE ZellijTearOut ----
(***************************************************************************)
(* Tearing a pane out of zellij: the adapter's move_out                    *)
(* (src/src/adapters/terminal_multiplexers/zellij.rs) asks the plugin      *)
(* (src/plugins/zellij-bridge/src/main.rs) to break the pane into a tab of *)
(* its own, checks that it did and has a terminal attached to the session. *)
(* The break takes the source terminal to the new tab too; the plugin      *)
(* takes it back once the new terminal has come, or after MaxAttempts      *)
(* looks (TAB_RESTORE_MAX_ATTEMPTS).                                       *)
(*                                                                         *)
(* Plugin, adapter, server and user interleave.  The plugin knows tabs and *)
(* clients only from events, which may come late; a timer may fire at any  *)
(* time after it is set.  MaxChecks stands for the adapter's 4 checks;     *)
(* each of Bounds is a number of requests, of acts of others and of        *)
(* commands of the adapter that fail, to be met together.                  *)
(***************************************************************************)
EXTENDS Naturals, Sequences, FiniteSets

CONSTANTS Pane, MaxAttempts, MaxChecks, Bounds, NoPane,
          Homes \* the tabs the panes may be in at first, 0 for those not open yet

ASSUME ZellijAssumption == /\ MaxAttempts \in Nat \ {0}
                           /\ MaxChecks \in Nat \ {0}
                           /\ IsFiniteSet(Pane) /\ NoPane \notin Pane

TabsAt(f) == {f[p] : p \in Pane} \ {0}

ASSUME HomesAssumption ==
  \A f \in Homes : f \in [Pane -> Nat] /\ TabsAt(f) # {} /\ TabsAt(f) = 1..Cardinality(TabsAt(f))

VARIABLES
  tabs,     \* the session's tabs, by position
  home,     \* the tab each pane is in, 0 if it is not open
  active,   \* the tab the source terminal shows
  attached, \* clients of the session
  coming,   \* terminals spawned and not attached yet
  seen,     \* YeetAndYoinkZellijBreakPlugin.tabs: position of the active tab, 0 unknown
  clients,  \* its clients: how many
  pending,  \* its pending_tab_restore: {} or one record
  timers,   \* timeouts set and not fired
  asks,     \* list_clients without an answer
  pipe,     \* messages on their way to the plugin
  pc, req,  \* the adapter's move_out and what it has read
  h,        \* history: what the properties compare with
  tears, envs, fails

server  == <<tabs, home, active, attached>>
plugin  == <<seen, clients, pending, timers, asks>>
adapter == <<pc, req, tears, fails>>
vars    == <<tabs, home, active, attached, coming, seen, clients, pending, timers, asks,
             pipe, pc, req, h, tears, envs, fails>>

Pos(t) == CHOOSE i \in 1..Len(tabs) : tabs[i] = t
Open(t) == \E i \in 1..Len(tabs) : tabs[i] = t
PanesOf(t) == {p \in Pane : home[p] = t}
OpenPanes == {p \in Pane : home[p] # 0}
Detached == req.pane # NoPane /\ PanesOf(home[req.pane]) = {req.pane}
NewTab == h.opened + 1

NoReq == [pane |-> NoPane, index |-> 0, base |-> 0, sent |-> 0, checks |-> 0]

\* Some tabs, each with a pane or more, one of them shown by the only client: the
\* source terminal.
Init == /\ home \in Homes
        /\ tabs = [i \in 1..Cardinality(TabsAt(home)) |-> i]
        /\ active \in TabsAt(home)
        /\ attached = 1
        /\ coming = 0
        /\ seen = active
        /\ clients = 1
        /\ pending = {}
        /\ timers = 0
        /\ asks = 0
        /\ pipe = <<>>
        /\ pc = "idle"
        /\ req = NoReq
        /\ h = [opened |-> Len(tabs), torn |-> 0, looks |-> 0, joined |-> FALSE,
                quiet |-> TRUE, strayed |-> FALSE]
        /\ tears = 0
        /\ envs = 0
        /\ fails = 0

Within(t, e, f) == \E b \in Bounds : t <= b.tears /\ e <= b.envs /\ f <= b.fails

Failing == Within(tears, envs, fails + 1) /\ fails' = fails + 1
Working == UNCHANGED fails

-----------------------------------------------------------------------------
(* The adapter: move_out *)

Several == Cardinality(PanesOf(active)) > 1

\* The move is decided to be a tear-out, or passed through from a lone pane.
Begin == /\ pc = "idle" /\ Within(tears + 1, envs, fails)
         /\ pc' = "pane"
         /\ req' = NoReq
         /\ tears' = tears + 1
         /\ h' = [h EXCEPT !.strayed = ~Several, !.quiet = @ /\ Several]
         /\ UNCHANGED <<server, coming, plugin, pipe, envs, fails>>

\* focused_pane_id_for_pid: the pane the plugin last heard a client to focus,
\* which may be any, or none: the plugin then asks for the clients.
ReadPane == /\ pc = "pane"
            /\ \/ Working /\ UNCHANGED asks /\ \E p \in OpenPanes : req' = [NoReq EXCEPT !.pane = p]
               \/ Failing /\ asks' \in {asks, asks + 1} /\ req' = NoReq
            /\ pc' = "tab"
            /\ UNCHANGED <<server, coming, seen, clients, pending, timers, pipe, h, tears, envs>>

ReadTab == /\ pc = "tab"
           /\ \/ Working /\ req' = [req EXCEPT !.index = Pos(active)]
              \/ Failing /\ UNCHANGED req
           /\ pc' = "count"
           /\ UNCHANGED <<server, coming, plugin, pipe, h, tears, envs>>

ReadCount == /\ pc = "count"
             /\ \/ Working /\ req' = [req EXCEPT !.base = attached]
                \/ Failing /\ UNCHANGED req
             /\ pc' = "break"
             /\ UNCHANGED <<server, coming, plugin, pipe, h, tears, envs>>

SendBreak == /\ pc = "break"
             /\ pipe' = Append(pipe, [pane |-> req.pane, index |-> req.index, base |-> req.base])
             /\ req' = [req EXCEPT !.sent = @ + 1]
             /\ pc' = "piped"
             /\ UNCHANGED <<server, coming, plugin, h, tears, envs, fails>>

\* The pipe command ends, or is killed after its timeout, or fails and with it
\* the move_out.  A break of an unnamed pane is sent three times.
AfterBreak == /\ pc = "piped"
              /\ \/ Working /\ pc' = IF req.pane = NoPane /\ req.sent < 3 THEN "break" ELSE "check"
                 \/ Failing /\ pc' = "idle"
              /\ UNCHANGED <<server, coming, plugin, pipe, req, h, tears, envs>>

\* After a check: bail once the checks are used up.
AfterCheck(detached) == IF detached THEN "spawn"
                        ELSE IF req.checks + 1 < MaxChecks THEN "check" ELSE "bailed"

UncountedAsZero == TRUE
\* unwrap_or(u32::MAX)
Uncounted == FALSE

\* window_count counts the panes of the active tab, or fails.
Check == /\ pc = "check"
         /\ req' = [req EXCEPT !.checks = @ + 1]
         /\ \/ Working /\ pc' = AfterCheck(Cardinality(PanesOf(active)) <= 1)
            \/ Failing /\ pc' = AfterCheck(Uncounted)
         /\ UNCHANGED <<server, coming, plugin, pipe, h, tears, envs>>

\* The engine spawns the terminal that attaches; the spawn may fail.
SpawnTerminal == /\ pc = "spawn"
                 /\ pc' = "idle"
                 /\ \/ Working /\ coming' = coming + 1
                    \/ Failing /\ UNCHANGED coming
                 /\ UNCHANGED <<server, plugin, pipe, req, h, tears, envs>>

Report == /\ pc = "bailed"
          /\ pc' = "idle"
          /\ UNCHANGED <<server, coming, plugin, pipe, req, h, tears, envs, fails>>

-----------------------------------------------------------------------------
(* The plugin *)

\* The session after pane p has been broken out: a tab that shows nothing is
\* closed, and the positions behind it move up.
Broken(p) == LET left == IF PanesOf(home[p]) = {p}
                         THEN SelectSeq(tabs, LAMBDA t : t # home[p]) ELSE tabs
             IN  Append(left, NewTab)

\* The client count to wait beyond: the message's, what was last seen, or 1.
Baseline(m) == IF m.base > 0 THEN m.base ELSE IF clients > 0 THEN clients ELSE 1

SourceIndex(m) == IF m.index > 0 THEN m.index ELSE seen

Watch(m) ==
  IF SourceIndex(m) > 0
  THEN {[index |-> SourceIndex(m), base |-> Baseline(m), left |-> MaxAttempts,
         seen |-> FALSE]}
  ELSE pending

StartsWatch(m) == /\ pending' = Watch(m)
                  /\ timers' = timers + (IF SourceIndex(m) > 0 THEN 1 ELSE 0)
                  /\ asks' = asks + (IF SourceIndex(m) > 0 THEN 1 ELSE 0)

\* pipe: break the named pane, or the one focused as far as the plugin knows.
Break ==
  /\ pipe # <<>>
  /\ pipe' = Tail(pipe)
  /\ LET m == Head(pipe) IN
     \/ \E p \in IF m.pane # NoPane THEN {m.pane} ELSE OpenPanes :
          /\ tabs' = Broken(p)
          /\ home' = [home EXCEPT ![p] = NewTab]
          /\ active' = NewTab
          /\ StartsWatch(m)
          /\ h' = [h EXCEPT !.opened = NewTab, !.torn = NewTab,
                            !.looks = 0, !.joined = attached > Baseline(m),
                            !.strayed = @ \/ (p # req.pane /\ ~Detached),
                            !.quiet = @ /\ SourceIndex(m) = Pos(active)
                                        /\ Baseline(m) = attached
                                        /\ PanesOf(home[p]) # {p}
                                        /\ pending = {} /\ coming = 0]
     \/ /\ m.pane = NoPane
        /\ asks' = asks + 1
        /\ UNCHANGED <<tabs, home, active, pending, timers, h>>
  /\ UNCHANGED <<attached, coming, seen, clients, adapter, envs>>

Disturb == h' = [h EXCEPT !.quiet = FALSE]

\* The plugin has no leave to change the session: it watches for what did not happen.
Refused ==
  /\ pipe # <<>> /\ Within(tears, envs + 1, fails)
  /\ pipe' = Tail(pipe)
  /\ envs' = envs + 1
  /\ StartsWatch(Head(pipe))
  /\ Disturb
  /\ UNCHANGED <<server, coming, seen, clients, adapter>>

SwitchTo(i) == IF i <= Len(tabs) THEN tabs[i] ELSE active

\* Looks are counted as far as they matter.
Look(w) == [h EXCEPT !.looks = IF @ < MaxAttempts THEN @ + 1 ELSE @]

\* maybe_restore_source_tab with a restore pending; n clients are known, and
\* ts timeouts and as questions are left besides the one just answered.
Returned(w, ts, as) ==
  /\ seen = w.index
  /\ pending' = {}
  /\ h' = Look(w)
  /\ timers' = ts /\ asks' = as
  /\ UNCHANGED active

SeesJoin(w, n) == ~w.seen /\ n >= w.base + 1

Joined(w, n, ts, as) ==
  /\ seen # w.index
  /\ SeesJoin(w, n)
  /\ pending' = {[w EXCEPT !.seen = TRUE]}
  /\ timers' = ts + 1 /\ asks' = as
  /\ h' = Look(w)
  /\ UNCHANGED active

\* After the join one more timer, whichever fires; without it the last look.
DueAtTimer(w, fromTimer) == fromTimer
Due(w, fromTimer) == IF w.seen THEN fromTimer ELSE w.left <= 1

Strayed(k) == [k EXCEPT !.strayed = @ \/ ~Detached]

Restore(w, n, fromTimer, ts, as) ==
  /\ seen # w.index /\ ~SeesJoin(w, n)
  /\ Due(w, fromTimer)
  /\ active' = SwitchTo(w.index)
  /\ pending' = {}
  /\ timers' = ts /\ asks' = as
  /\ h' = Strayed(Look(w))

NoRearm == 0
Rearm == 1

Wait(w, n, fromTimer, ts, as) ==
  /\ seen # w.index /\ ~SeesJoin(w, n)
  /\ ~Due(w, fromTimer)
  /\ IF w.seen
     THEN pending' = {w} /\ timers' = ts /\ asks' = as
     ELSE /\ pending' = {[w EXCEPT !.left = @ - 1]}
          /\ timers' = ts + Rearm /\ asks' = as + Rearm
  /\ h' = Look(w)
  /\ UNCHANGED active

MaybeRestore(n, fromTimer, ts, as) ==
  \/ /\ pending = {}
     /\ timers' = ts /\ asks' = as
     /\ UNCHANGED <<active, pending, h>>
  \/ \E w \in pending :
       \/ Returned(w, ts, as) \/ Joined(w, n, ts, as)
       \/ Restore(w, n, fromTimer, ts, as) \/ Wait(w, n, fromTimer, ts, as)

\* Event::ListClients: the answer counts the clients there are.
ListClients == /\ asks > 0
               /\ clients' = attached
               /\ MaybeRestore(attached, FALSE, timers, asks - 1)
               /\ UNCHANGED <<tabs, home, attached, coming, seen, pipe, adapter, envs>>

\* Event::Timer
Timer == /\ timers > 0
         /\ MaybeRestore(clients, TRUE, timers - 1, asks)
         /\ UNCHANGED <<tabs, home, attached, coming, seen, clients, pipe, adapter, envs>>

\* Event::TabUpdate
TabUpdate == /\ seen # Pos(active)
             /\ seen' = Pos(active)
             /\ UNCHANGED <<server, coming, clients, pending, timers, asks, pipe, adapter, h, envs>>

-----------------------------------------------------------------------------
(* The session's clients and its user *)

\* A new client shows the tab the source shows.
Attach == /\ coming > 0
          /\ coming' = coming - 1
          /\ attached' = attached + 1
          /\ h' = [h EXCEPT !.joined = TRUE]
          /\ UNCHANGED <<tabs, home, active, plugin, pipe, adapter, envs>>

UserSwitches == /\ Within(tears, envs + 1, fails)
                /\ \E i \in 1..Len(tabs) : tabs[i] # active /\ active' = tabs[i]
                /\ h' = Strayed([h EXCEPT !.quiet = FALSE])
                /\ envs' = envs + 1
                /\ UNCHANGED <<tabs, home, attached, coming, plugin, pipe, adapter>>

\* A new tab comes with a pane of its own and is shown.
UserOpens == /\ Within(tears, envs + 1, fails)
             /\ \E p \in Pane \ OpenPanes : home' = [home EXCEPT ![p] = NewTab]
             /\ tabs' = Append(tabs, NewTab)
             /\ active' = NewTab
             /\ h' = Strayed([h EXCEPT !.quiet = FALSE, !.opened = NewTab])
             /\ envs' = envs + 1
             /\ UNCHANGED <<attached, coming, plugin, pipe, adapter>>

\* Another terminal leaves or joins the session.
OthersChange == /\ Within(tears, envs + 1, fails)
                /\ \/ attached' = attached + 1
                   \/ attached > 1 /\ attached' = attached - 1
                /\ Disturb
                /\ envs' = envs + 1
                /\ UNCHANGED <<tabs, home, active, coming, plugin, pipe, adapter>>

-----------------------------------------------------------------------------
MoveOut == \/ Begin \/ ReadPane \/ ReadTab \/ ReadCount \/ SendBreak \/ AfterBreak
           \/ Check \/ SpawnTerminal \/ Report

Events == Break \/ Refused \/ ListClients \/ Timer \/ TabUpdate

Next == MoveOut \/ Events \/ Attach \/ UserSwitches \/ UserOpens \/ OthersChange

Spec == Init /\ [][Next]_vars

\* Questions are answered, timers fire and messages arrive.
FairSpec == Spec /\ WF_vars(ListClients) /\ WF_vars(Timer) /\ WF_vars(Break)

-----------------------------------------------------------------------------
TypeOK ==
  /\ tabs \in Seq(1..h.opened) /\ Len(tabs) > 0
  /\ home \in [Pane -> 0..h.opened]
  /\ active \in 1..h.opened
  /\ {attached, coming, clients, timers, asks, tears, envs, fails} \subseteq Nat
  /\ seen \in Nat
  /\ pending \subseteq [index : Nat, base : Nat \ {0}, left : 1..MaxAttempts, seen : BOOLEAN]
  /\ Cardinality(pending) <= 1
  /\ pc \in {"idle", "pane", "tab", "count", "break", "piped", "check", "spawn", "bailed"}
  /\ req \in [pane : Pane \union {NoPane}, index : Nat, base : Nat, sent : 0..3,
              checks : 0..MaxChecks]
  /\ Open(active)
  /\ \A p \in OpenPanes : Open(home[p])
  /\ \A i, j \in 1..Len(tabs) : tabs[i] = tabs[j] => i = j

\* The plugin stops watching, with or without a switch.
WatchEnds == pending # {} /\ pending' = {}

\* The terminal spawned for the torn-out pane shows its tab, if it comes
\* before the last look.
NewTerminalShowsPane ==
  [][coming' < coming /\ h.quiet /\ h.looks < MaxAttempts => active = h.torn]_vars

\* A terminal is only spawned for a pane that is alone in its tab: no failed count, no
\* break that is late or refused, and no restore is taken for a detachment.  But the
\* checks count the panes of the tab that is shown, whichever it is: a tear-out from a
\* tab of one pane, or one during which another tab came to be shown before the pane
\* was alone, by the user or for an earlier tear-out (strayed), may pass them early.
SpawnMeansDetached ==
  pc = "spawn" /\ req.pane # NoPane /\ ~h.strayed => PanesOf(home[req.pane]) = {req.pane}

\* The plugin does not watch for ever, though the new terminal may never come
\* and timers and answers overlap.
WatchSettles == pending # {} ~> pending = {}
====
