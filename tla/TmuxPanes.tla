---- MODULE TmuxPanes ----
(***************************************************************************)
(* tmux as a multiplexer (src/src/adapters/terminal_multiplexers/tmux.rs): *)
(* focus, swap, tear-out and merge of panes, as one command process after  *)
(* another does them over a server with several clients.                   *)
(*                                                                         *)
(* A tear-out breaks the pane into a window of its own, makes a session in *)
(* the group of the source's for a second terminal to attach to, and       *)
(* answers with that attach command.  A merge joins the pane to the target *)
(* client's focused pane and kills the session a tear-out had made.  The   *)
(* sessions of a group share their windows: a session goes with the last   *)
(* window of its group, and a window with the last session of its group.   *)
(* The focused pane comes from a cache of all clients that lives as long   *)
(* as the process and is read again after Ttl ticks (TMUX_CACHE_TTL);      *)
(* MaxTicks bounds how long one process lives, MaxCmds the processes and   *)
(* MaxMux what users and failing commands do.                              *)
(***************************************************************************)
EXTENDS Naturals, FiniteSets

CONSTANTS TPane, OtherPane, NoTPane, Window, MainWindow, OtherWindow, NoWindow,
          Session, MainSession, OtherSession, DetachedSession, NoSession,
          Ttl, MaxTicks, MaxCmds, MaxMux

ASSUME TmuxAssumption ==
  /\ OtherPane \in TPane /\ TPane # {OtherPane} /\ NoTPane \notin TPane
  /\ {MainWindow, OtherWindow} \subseteq Window /\ NoWindow \notin Window
  /\ Session = {MainSession, OtherSession} \cup DetachedSession
  /\ {MainSession, OtherSession} \cap DetachedSession = {}
  /\ NoSession \notin Session
  /\ Ttl \in Nat

VARIABLES
  win,     \* the window each pane is in
  group,   \* the group of sessions that holds each window
  act,     \* the active pane of each window
  sess,    \* the sessions: group, current window, and whether a client shows it
  cache,   \* TMUX_CACHE: {} or one record of the panes of the clients
  doing, cmd, \* where the process is in which operation
  gone,    \* ticks since a client last had each pane focused
  past,    \* history: what the properties compare with
  ticks, cmds, muxes

server   == <<win, group, act, sess, gone>>
tmuxVars == <<win, group, act, sess, gone, cache, doing, cmd, past, ticks, cmds, muxes>>

NoSess == [live |-> FALSE, group |-> NoSession, cur |-> NoWindow, client |-> FALSE]
NoCmd  == [op |-> "none", src |-> NoSession, tgt |-> NoSession, pane |-> NoTPane,
           new |-> NoWindow, meta |-> NoSession]
NoPast == [stale |-> FALSE, closed |-> FALSE, ended |-> {}]

Shown(s) == sess[s].live /\ sess[s].client
Focused(s) == IF Shown(s) THEN act[sess[s].cur] ELSE NoTPane

\* Two terminals, each with a session and a window; only OtherPane is in the second.
TmuxInit ==
  /\ win = [p \in TPane |-> IF p = OtherPane THEN OtherWindow ELSE MainWindow]
  /\ group = [w \in Window |-> IF w = MainWindow THEN MainSession
                               ELSE IF w = OtherWindow THEN OtherSession ELSE NoSession]
  /\ act = [w \in Window |-> IF w = OtherWindow THEN OtherPane
                             ELSE IF w = MainWindow THEN CHOOSE p \in TPane \ {OtherPane} : TRUE
                             ELSE NoTPane]
  /\ sess = [s \in Session |->
               IF s = MainSession THEN [live |-> TRUE, group |-> s, cur |-> MainWindow, client |-> TRUE]
               ELSE IF s = OtherSession
                    THEN [live |-> TRUE, group |-> s, cur |-> OtherWindow, client |-> TRUE]
                    ELSE NoSess]
  /\ gone = [s \in Session |-> [p \in TPane |-> IF p = Focused(s) THEN 0 ELSE Ttl + 1]]
  /\ cache = {}
  /\ doing = "idle"
  /\ cmd = NoCmd
  /\ past = NoPast
  /\ ticks = 0 /\ cmds = 0 /\ muxes = 0

-----------------------------------------------------------------------------
(* The tmux server *)

PanesIn(w) == {p \in TPane : win[p] = w}
GroupOf(w) == IF w = NoWindow THEN NoSession ELSE group[w]
Holders(g, ss) == {s \in Session : ss[s].live /\ ss[s].group = g}

\* The server after panes moved (w), windows were grouped (g), panes selected (a)
\* and sessions changed (ss): what nothing holds any more is gone.
Settle(w, g, a, ss, tick) ==
  LET kept  == [p \in TPane |-> IF w[p] # NoWindow /\ Holders(g[w[p]], ss) # {} THEN w[p] ELSE NoWindow]
      inw(x) == {p \in TPane : kept[p] = x}
      held(s) == {x \in Window : g[x] = ss[s].group /\ inw(x) # {}}
  IN /\ win' = kept
     /\ group' = [x \in Window |-> IF inw(x) = {} THEN NoSession ELSE g[x]]
     /\ act' = [x \in Window |-> IF a[x] \in inw(x) THEN a[x]
                                 ELSE IF inw(x) = {} THEN NoTPane ELSE CHOOSE p \in inw(x) : TRUE]
     /\ sess' = [s \in Session |->
                   IF ~ss[s].live \/ held(s) = {} THEN NoSess
                   ELSE [ss[s] EXCEPT !.cur = IF @ \in held(s) THEN @ ELSE CHOOSE x \in held(s) : TRUE]]
     /\ gone' = [s \in Session |-> [p \in TPane |->
                   IF p = Focused(s)' THEN 0
                   ELSE IF tick /\ gone[s][p] <= Ttl THEN gone[s][p] + 1 ELSE gone[s][p]]]

TmuxFails == muxes < MaxMux /\ muxes' = muxes + 1
TmuxWorks == UNCHANGED muxes
FailsIf(cond) == TmuxFails \/ (cond /\ TmuxWorks)
Ends == doing' = "idle"

Tick == /\ doing # "idle" /\ ticks < MaxTicks
        /\ ticks' = ticks + 1
        /\ cache' = {[c EXCEPT !.age = @ + 1] : c \in cache}
        /\ Settle(win, group, act, sess, TRUE)
        /\ UNCHANGED <<doing, cmd, past, cmds, muxes>>

UserActs == TmuxFails /\ UNCHANGED <<cache, doing, cmd, ticks, cmds>>

UserSelects == \E s \in Session :
  /\ Shown(s)
  /\ UserActs
  /\ \/ \E p \in PanesIn(sess[s].cur) \ {Focused(s)} :
          Settle(win, group, [act EXCEPT ![sess[s].cur] = p], sess, FALSE)
     \/ \E x \in Window : /\ group[x] = sess[s].group /\ x # sess[s].cur
                          /\ Settle(win, group, act, [sess EXCEPT ![s].cur = x], FALSE)
  /\ UNCHANGED past

UserKillsSession == \E s \in Session :
  /\ sess[s].live
  /\ UserActs
  /\ Settle(win, group, act, [sess EXCEPT ![s] = NoSess], FALSE)
  /\ past' = [past EXCEPT !.closed = TRUE]

-----------------------------------------------------------------------------
(* The cache *)

ReadForever(c) == TRUE
Fresh(c) == c.age <= Ttl

\* The caches after a read: what is there if it is fresh, else what list-clients
\* says; a list-clients that fails leaves an empty cache that counts as fresh.
CacheRead(s) ==
  \/ \E c \in cache : Fresh(c) /\ UNCHANGED cache /\ TmuxWorks
  \/ /\ \A c \in cache : ~Fresh(c)
     /\ \/ cache' = {[age |-> 0, of |-> [t \in Session |-> Focused(t)]]} /\ TmuxWorks
        \/ cache' = {[age |-> 0, of |-> [t \in Session |-> NoTPane]]} /\ TmuxFails
PaneRead(s) == (CHOOSE c \in cache' : TRUE).of[s]
ReadIsStale(s) == PaneRead(s) # NoTPane /\ gone[s][PaneRead(s)] > Ttl

-----------------------------------------------------------------------------
(* One command process: its operation on the client of a terminal *)

\* TMUX_CACHE is a variable of the process.
CacheAtStart == {}

Begin == \E s \in Session, op \in {"focus", "swap", "tear", "merge"} :
  /\ doing = "idle" /\ cmds < MaxCmds /\ cmds' = cmds + 1
  /\ Shown(s)
  /\ cmd' = [NoCmd EXCEPT !.op = op, !.src = s]
  /\ cache' = CacheAtStart
  /\ doing' = "read"
  /\ ticks' = 0
  /\ past' = [NoPast EXCEPT !.closed = past.closed, !.ended = past.ended]
  /\ UNCHANGED <<server, muxes>>

\* from_client_pid and focused_pane_id_for_client.
ReadSource == /\ doing = "read"
              /\ CacheRead(cmd.src)
              /\ cmd' = [cmd EXCEPT !.pane = PaneRead(cmd.src)]
              /\ past' = [past EXCEPT !.stale = ReadIsStale(cmd.src)]
              /\ doing' = IF PaneRead(cmd.src) = NoTPane THEN "idle" ELSE cmd.op
              /\ UNCHANGED <<server, ticks, cmds>>

Neighbors == {p \in PanesIn(win[cmd.pane]) \ {cmd.pane} : win[p] # NoWindow}

SelectPane == /\ doing = "focus"
              /\ \/ /\ TmuxWorks
                    /\ \E p \in Neighbors : Settle(win, group, [act EXCEPT ![win[p]] = p], sess, FALSE)
                 \/ FailsIf(Neighbors = {}) /\ UNCHANGED server
              /\ Ends
              /\ UNCHANGED <<cache, cmd, past, ticks, cmds>>

\* move_internal: swap with the neighbour, then select the moved pane again.
SwapPane == /\ doing = "swap"
            /\ \/ \E p \in Neighbors :
                    /\ TmuxWorks
                    /\ Settle(win, group, [act EXCEPT ![win[p]] = p], sess, FALSE)
                    /\ doing' = "reselect"
               \/ FailsIf(Neighbors = {}) /\ UNCHANGED server /\ Ends
            /\ UNCHANGED <<cache, cmd, past, ticks, cmds>>

Reselect == /\ doing = "reselect"
            /\ \/ /\ win[cmd.pane] # NoWindow
                  /\ TmuxWorks
                  /\ Settle(win, group, [act EXCEPT ![win[cmd.pane]] = cmd.pane], sess, FALSE)
               \/ FailsIf(win[cmd.pane] = NoWindow) /\ UNCHANGED server
            /\ Ends
            /\ UNCHANGED <<cache, cmd, past, ticks, cmds>>

\* move_out: break-pane fails on a lone pane.
BreakPane ==
  /\ doing = "tear"
  /\ \/ \E x \in Window :
          /\ Neighbors # {} /\ PanesIn(x) = {} /\ win[cmd.pane] # NoWindow
          /\ TmuxWorks
          /\ Settle([win EXCEPT ![cmd.pane] = x], [group EXCEPT ![x] = group[win[cmd.pane]]],
                    [act EXCEPT ![x] = cmd.pane], sess, FALSE)
          /\ cmd' = [cmd EXCEPT !.new = x]
          /\ doing' = "session"
     \/ FailsIf(Neighbors = {}) /\ UNCHANGED <<server, cmd>> /\ Ends
  /\ UNCHANGED <<cache, past, ticks, cmds>>

\* detach_target_for_new_client: a session of a new name in the group.
NewSession ==
  /\ doing = "session"
  /\ \/ \E d \in DetachedSession, s \in Holders(group[cmd.new], sess) :
          /\ ~sess[d].live
          /\ TmuxWorks
          /\ Settle(win, group, act,
                    [sess EXCEPT ![d] = [live |-> TRUE, group |-> group[cmd.new],
                                         cur |-> sess[s].cur, client |-> FALSE]], FALSE)
          /\ cmd' = [cmd EXCEPT !.tgt = d]
          /\ doing' = "attach"
     \/ /\ FailsIf(group[cmd.new] = NoSession \/ \A d \in DetachedSession : sess[d].live)
        /\ UNCHANGED <<server, cmd>>
        /\ Ends
  /\ UNCHANGED <<cache, past, ticks, cmds>>

\* The attach target names the session and the window.
Attached(s, w) == [s EXCEPT !.client = TRUE, !.cur = w]

\* The engine spawns the terminal that attaches.
AttachClient ==
  /\ doing = "attach"
  /\ \/ \E d \in {cmd.tgt} :
          /\ sess[d].live /\ TmuxWorks
          /\ Settle(win, group, act, [sess EXCEPT ![d] = Attached(@, cmd.new)], FALSE)
     \/ FailsIf(~sess[cmd.tgt].live) /\ UNCHANGED server
  /\ Ends
  /\ UNCHANGED <<cache, cmd, past, ticks, cmds>>

\* prepare_merge: the session display-message names for the pane is one of its
\* group, not always the client's own.
PrepareSource ==
  /\ doing = "merge"
  /\ \/ \E s \in Holders(GroupOf(win[cmd.pane]), sess), t \in Session :
          /\ win[cmd.pane] # NoWindow
          /\ Shown(t)
          /\ TmuxWorks
          /\ cmd' = [cmd EXCEPT !.meta = s, !.tgt = t]
          /\ doing' = "target"
     \/ FailsIf(win[cmd.pane] = NoWindow) /\ UNCHANGED cmd /\ Ends
  /\ UNCHANGED <<server, cache, past, ticks, cmds>>

Joinable(p) == IF p \in {NoTPane, cmd.pane} THEN FALSE ELSE NoWindow \notin {win[p], win[cmd.pane]}

\* merge_into_target: the target's focused pane, maybe from the cache.
JoinPane ==
  /\ doing = "target"
  /\ \E c \in {cmd.tgt} :
       /\ CacheRead(c)
       /\ past' = [past EXCEPT !.stale = @ \/ ReadIsStale(c)]
       /\ LET p == PaneRead(c)
          IN IF Joinable(p)
             THEN /\ Settle([win EXCEPT ![cmd.pane] = win[p]], group, [act EXCEPT ![win[p]] = cmd.pane],
                            [sess EXCEPT ![c].cur = IF group[win[p]] = sess[c].group THEN win[p] ELSE @],
                            FALSE)
                  /\ doing' = "kill"
             ELSE UNCHANGED server /\ Ends
  /\ UNCHANGED <<cmd, ticks, cmds>>

KillsAny == cmd.meta # cmd.tgt
KillsDetached == cmd.meta \in DetachedSession /\ cmd.meta # cmd.tgt

\* The session of a tear-out goes; if it has gone already the merge reports an error.
KillSession ==
  /\ doing = "kill"
  /\ \/ /\ KillsDetached /\ sess[cmd.meta].live /\ TmuxWorks
        /\ Settle(win, group, act, [sess EXCEPT ![cmd.meta] = NoSess], FALSE)
        /\ past' = [past EXCEPT !.ended = @ \cup {p \in TPane : win[p] # NoWindow /\ win'[p] = NoWindow}]
     \/ (~KillsDetached \/ ~sess[cmd.meta].live) /\ TmuxWorks /\ UNCHANGED <<server, past>>
     \/ KillsDetached /\ TmuxFails /\ UNCHANGED <<server, past>>
  /\ Ends
  /\ UNCHANGED <<cache, cmd, ticks, cmds>>

-----------------------------------------------------------------------------

CommandStep == ReadSource \/ SelectPane \/ SwapPane \/ Reselect \/ BreakPane \/ NewSession
               \/ AttachClient \/ PrepareSource \/ JoinPane \/ KillSession

TmuxNext == Begin \/ CommandStep \/ Tick \/ UserSelects \/ UserKillsSession

TmuxSpec == TmuxInit /\ [][TmuxNext]_tmuxVars

-----------------------------------------------------------------------------

TmuxTypeOK ==
  /\ \A p \in TPane : win[p] = NoWindow \/ group[win[p]] \in Session
  /\ \A w \in Window : act[w] \in PanesIn(w) \cup {NoTPane}
  /\ \A s \in Session : sess[s].live => group[sess[s].cur] = sess[s].group
  /\ \A c \in cache : c.age \in 0..ticks /\ c.of \in [Session -> TPane \cup {NoTPane}]
  /\ cmd.pane \in TPane \cup {NoTPane} /\ cmd.new \in Window \cup {NoWindow}

\* Whatever pane an operation acts on was its client's focused pane at most Ttl
\* before: the cache is neither kept longer nor carried to the next process.
PaneReadIsRecent == ~past.stale

\* The session a merge kills takes no pane with it, unless a user has ended one of
\* the sessions that shared its windows.
PanesSurvive == past.ended # {} => past.closed

====
