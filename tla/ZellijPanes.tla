---- MODULE ZellijPanes ----
(***************************************************************************)
(* The other operations of the zellij adapter                              *)
(* (adapters/terminal_multiplexers/zellij.rs): finding the session and the *)
(* plugin, asking where there are panes, focusing and moving one, writing  *)
(* to one, and the merge, with the plugin's part of it                     *)
(* (src/plugins/zellij-bridge/src/main.rs).  Each step is a zellij command *)
(* of its own, answered for one of the session's clients (for which is     *)
(* zellij's affair); users act in between.                                 *)
(*                                                                         *)
(* The adapter numbers panes by the lines of a layout dump, which leaves   *)
(* out the panes whose line opens a block (a command with arguments);      *)
(* zellij and the plugin number them from 0 and take 0 for none.           *)
(* MaxZCalls bounds the calls, MaxZTrouble the failures and acts of users. *)
(***************************************************************************)
EXTENDS SplitLayouts, ProcessTree

CONSTANTS Tabs1,         \* the first tabs: sequences of [lay, focus]
          Blocks,        \* sets of panes whose line opens a block
          TemplateLines, \* pane lines in the dump's templates
          Hosts,         \* [table, unix, ss, sessions, terms, setting, files, granted]
          ZAsked, MaxZCalls, MaxZTrouble

Client == {1, 2}

VARIABLES
  ztabs,    \* the session's tabs by position: layout and focused pane
  shownBy,  \* [Client -> the position of the tab it shows, 0 if not attached]
  recent,   \* panes, the last focused first
  blocks,   \* the panes that the dump's counts leave out
  host,     \* processes, files of the plugin, its permissions
  heard,    \* the plugin's last events: active tab, panes its clients focus
  zcall,    \* the call that runs
  zpipe,    \* {} or the merge on its way to the plugin
  zbegun,   \* history: focus when the call began, whether nobody interfered
  zcount    \* calls, trouble

zellijVars == <<ztabs, shownBy, recent, blocks, host, heard, zcall, zpipe, zbegun, zcount>>
zserver == <<ztabs, shownBy, recent>>

NoZCall == [at |-> "idle", op |-> "none", dir |-> "west", pane |-> 0, before |-> 0, size |-> 0, found |-> 0,
            dirs |-> <<>>, from |-> 1, to |-> 1, id |-> NoAnswer, index |-> 0, want |-> 0, outcome |-> "none"]

ZAttached == {c \in Client : shownBy[c] # 0}
ShownTabs == {shownBy[c] : c \in ZAttached}
FocusIn(t) == ztabs[t].focus
TabOf(p) == CHOOSE t \in DOMAIN ztabs : p \in PanesOf(ztabs[t].lay)

-----------------------------------------------------------------------------
(* Which session, which plugin *)

\* --session NAME, --session=NAME, --server PATH, attach NAME; an argument is <<word>>
\* or <<option, value>>.
Named(args, i) ==
  LET next == IF i < Len(args) THEN args[i + 1][1] ELSE NoAnswer
  IN  IF Len(args[i]) = 2 /\ args[i][1] \in {"--session", "--server"} THEN args[i][2]
      ELSE IF args[i] \in {<<"--session">>, <<"--server">>} THEN next
      ELSE IF args[i] = <<"attach">> /\ next # "-option" THEN next ELSE NoAnswer
SessionFromArgs(table, p) ==
  LET args == table[p].args
      i == SelectInSeq([k \in DOMAIN args |-> k], LAMBDA k : Named(args, k) # NoAnswer)
  IN  IF i = 0 THEN NoAnswer ELSE Named(args, i)

\* A zellij whose panes were started by this kitty.
SessionByKitty(table, pid) ==
  LET below(z) == ToSet(ProcessTreePids(table, z))
      startedBy == {q \in DOMAIN table : Environ(table, q, "KITTY_PID") = pid /\ Environ(table, q, "ZELLIJ_SESSION_NAME") # NoAnswer}
      zellijs == SelectSeq(Ascending(DOMAIN table), LAMBDA z : Comm(table, z) = "zellij" /\ below(z) \cap startedBy # {})
  IN  IF zellijs = <<>> THEN NoAnswer
      ELSE Environ(table, Head(Ascending(below(zellijs[1]) \cap startedBy)), "ZELLIJ_SESSION_NAME")

\* The socket's file has the session's name.
SessionName(h, pid) ==
  LET zellijs == FindByComm(h.table, pid, "zellij")
  IN  FirstAnswer(<<EnvVar(h.table, pid, "ZELLIJ_SESSION_NAME")>>
        \o [i \in DOMAIN zellijs |-> SessionFromArgs(h.table, zellijs[i])]
        \o [i \in DOMAIN zellijs |-> SocketPath(h.table, h.unix, zellijs[i], h.sessions)]
        \o [i \in DOMAIN zellijs |-> SocketPath(h.table, h.ss, zellijs[i], h.sessions)]
        \o <<SessionByKitty(h.table, ToString(pid))>>)

\* A file of the plugin: whether it is there, is older than its source, its ctime.
FileUrl(f) == f.exists /\ ~f.stale
PluginFile(h) ==
  LET ranked == SortSeq(SelectSeq(h.files, LAMBDA f : f.exists), LAMBDA f, g : f.ctime > g.ctime)
      usable == SelectSeq(h.setting \o ranked, FileUrl)
  IN  IF usable = <<>> THEN {} ELSE {Head(usable)}

Permissions == {"ChangeApplicationState", "ReadApplicationState", "ReadCliPipes"}
Granted(h) == Permissions \subseteq h.granted
EnsurePermissions == host' = IF Granted(host) THEN host ELSE [host EXCEPT !.granted = Permissions]

-----------------------------------------------------------------------------
(* Reading the layout *)

Listed(t) == SelectSeq(FlattenSeq(ztabs[t].lay.groups), LAMBDA p : p \notin blocks)
OrdinalIn(lines, focused) == LET i == SelectInSeq(lines, LAMBDA p : p \in focused) IN IF i = 0 THEN 1 ELSE i
\* When the focused tab has no line to count, those of the whole dump are counted.
Dump(c) ==
  LET own == Listed(shownBy[c])
      all == FlattenSeq([t \in DOMAIN ztabs |-> Listed(t)])
      lines == IF own # <<>> THEN own ELSE all
      extra == IF own # <<>> THEN 0 ELSE TemplateLines
  IN  [count |-> IF Len(lines) + extra = 0 THEN 1 ELSE Len(lines) + extra,
       focused |-> OrdinalIn(lines, {FocusIn(t) : t \in DOMAIN ztabs})]

ZFocused(t, p) == /\ ztabs' = [ztabs EXCEPT ![t].focus = p]
                 /\ recent' = <<p>> \o SelectSeq(recent, LAMBDA q : q # p)
MostRecent(S) == CHOOSE p \in S : \A q \in S : SelectInSeq(recent, LAMBDA r : r = p) <= SelectInSeq(recent, LAMBDA r : r = q)
\* move-focus, for a client: to the neighbour focused last; there may be none.
MoveFocus(c, d) ==
  LET t == shownBy[c]  near == NextTo(ztabs[t].lay, FocusIn(t), d)
  IN  IF near = {} THEN UNCHANGED <<ztabs, recent>> ELSE ZFocused(t, MostRecent(near))

-----------------------------------------------------------------------------
(* Asking, focusing, moving, writing *)

ZWorks == UNCHANGED zcount
ZTrouble == zcount.trouble < MaxZTrouble /\ zcount' = [zcount EXCEPT !.trouble = @ + 1]
ZGoes(j) == zcall' = j
ZEnds(outcome) == zcall' = [NoZCall EXCEPT !.op = zcall.op, !.outcome = outcome]
Still == UNCHANGED <<zserver, blocks, host, heard, zpipe, zbegun>> /\ ZWorks

BeginZellij ==
  /\ zcall.at = "idle" /\ zcount.calls < MaxZCalls
  /\ \E op \in {"focus", "move", "text", "merge"}, d \in ZAsked, from, to \in ZAttached, c \in ZAttached :
       \E k \in IF op = "text" THEN 1..Dump(c).count ELSE {1} :
         /\ op # "merge" => from = to
         /\ LET listed == Listed(shownBy[c])
            IN  ZGoes([NoZCall EXCEPT !.op = op, !.dir = d, !.from = from, !.to = to,
                       !.at = CASE op = "move" -> "count" [] op = "text" -> "textPane" [] op = "merge" -> "id" [] OTHER -> "pane",
                       !.pane = IF op = "text" THEN k ELSE 0,
                       !.want = IF op = "text" /\ k \in DOMAIN listed THEN listed[k] ELSE 0])
  /\ zbegun' = [focus |-> [t \in DOMAIN ztabs |-> FocusIn(t)],
                clean |-> Cardinality(ShownTabs) = 1 /\ blocks = {} /\ zpipe = {} /\ SessionName(host, host.terms[1]) # NoAnswer]
  /\ zcount' = [zcount EXCEPT !.calls = @ + 1]
  /\ UNCHANGED <<zserver, blocks, host, heard, zpipe>>

\* active_scope_pane_count_for_pid: two dumps.
CountLines ==
  /\ \/ zcall.at = "count" /\ \E c \in ZAttached : ZGoes([zcall EXCEPT !.at = "counted", !.size = Dump(c).count])
     \/ /\ zcall.at = "counted"
        /\ \E c \in ZAttached : IF Dump(c).focused > zcall.size THEN ZEnds("error")
                               ELSE IF zcall.size <= 1 THEN ZEnds("passthrough") ELSE ZGoes([zcall EXCEPT !.at = "pane"])
  /\ Still
ReadOrdinal ==
  /\ zcall.at = "pane" /\ \E c \in ZAttached : ZGoes([zcall EXCEPT !.at = "check", !.pane = Dump(c).focused])
  /\ Still

Decide(found) ==
  CASE zcall.op = "text" -> IF found = zcall.pane THEN ZGoes([zcall EXCEPT !.at = "turn", !.found = found])
                            ELSE IF Len(zcall.dirs) > 1 THEN ZGoes([zcall EXCEPT !.at = "before", !.dirs = Tail(@)])
                            ELSE ZEnds("error")
    [] zcall.op # "text" /\ found # 0 -> ZGoes([zcall EXCEPT !.at = IF zcall.op = "focus" THEN "turn" ELSE "movePane"])
    [] OTHER -> ZEnds(IF zcall.op = "focus" THEN "atEdge" ELSE "tearOut")
Side == IF zcall.op = "text" THEN Head(zcall.dirs) ELSE zcall.dir

ZCheckFocus ==
  /\ zcall.at = "check"
  /\ \E c \in ZAttached : IF Dump(c).focused # zcall.pane THEN Decide(0) ELSE ZGoes([zcall EXCEPT !.at = "before"])
  /\ Still
\* probe_neighbor
LookBefore ==
  /\ zcall.at = "before" /\ \E c \in ZAttached : ZGoes([zcall EXCEPT !.at = "hop", !.before = Dump(c).focused])
  /\ Still
\* zellij may succeed or complain where there is no pane.
Hop ==
  /\ zcall.at = "hop"
  /\ \E c \in ZAttached :
       \/ MoveFocus(c, Side) /\ ZGoes([zcall EXCEPT !.at = "after"])
       \/ /\ NextTo(ztabs[shownBy[c]].lay, FocusIn(shownBy[c]), Side) = {}
          /\ Decide(0) /\ UNCHANGED <<ztabs, recent>>
  /\ UNCHANGED <<shownBy, blocks, host, heard, zpipe, zbegun>> /\ ZWorks
LookAfter ==
  /\ zcall.at = "after"
  /\ \E c \in ZAttached :
       LET after == Dump(c).focused
       IN  IF after # zcall.before THEN ZGoes([zcall EXCEPT !.at = "back", !.found = after]) ELSE Decide(0)
  /\ Still
StaysThere(c) == UNCHANGED <<ztabs, recent>>
HopsBack(c) == MoveFocus(c, Opposite(Side))
GoBack ==
  /\ zcall.at = "back" /\ \E c \in ZAttached : HopsBack(c)
  /\ Decide(zcall.found)
  /\ UNCHANGED <<shownBy, blocks, host, heard, zpipe, zbegun>> /\ ZWorks

Turn ==
  /\ zcall.at = "turn" /\ \E c \in ZAttached : MoveFocus(c, Side)
  /\ IF zcall.op = "text" THEN ZGoes([zcall EXCEPT !.at = "write"]) ELSE ZEnds("done")
  /\ UNCHANGED <<shownBy, blocks, host, heard, zpipe, zbegun>> /\ ZWorks
MovePane ==
  /\ zcall.at = "movePane" /\ ZEnds("done")
  /\ \E c \in ZAttached :
       LET t == shownBy[c]  near == NextTo(ztabs[t].lay, FocusIn(t), zcall.dir)
       IN  IF near = {} THEN UNCHANGED ztabs
           ELSE \E n \in near : ztabs' = [ztabs EXCEPT ![t].lay = Swapped(@, FocusIn(t), n)]
  /\ UNCHANGED <<shownBy, recent, blocks, host, heard, zpipe, zbegun>> /\ ZWorks

\* send_text_to_pane: a pane that is not in focus is looked for on each side.
WritesAtOnce(ordinal) == ZGoes([zcall EXCEPT !.at = "write"])
LooksFor(ordinal) == IF ordinal = zcall.pane THEN ZGoes([zcall EXCEPT !.at = "write"])
                     ELSE ZGoes([zcall EXCEPT !.at = "before", !.dirs = <<"west", "east", "north", "south">>])
FindTextPane == zcall.at = "textPane" /\ (\E c \in ZAttached : LooksFor(Dump(c).focused)) /\ Still
Write ==
  /\ zcall.at = "write"
  /\ \E c \in ZAttached : zcall' = [NoZCall EXCEPT !.op = "text", !.outcome = "done", !.want = zcall.want,
                                                  !.found = FocusIn(shownBy[c])]
  /\ Still

-----------------------------------------------------------------------------
(* Merging *)

ServerId(p) == <<"terminal_0", "terminal_1", "terminal_2">>[p]
PaneWith(id) == CHOOSE p \in 1..3 : ServerId(p) = id
NormalId(id) == IF id = "terminal_0" THEN NoAnswer ELSE id
PaneOfEnviron(pid) ==
  LET pids == ProcessTreePids(host.table, pid)
  IN  FirstAnswer([i \in DOMAIN pids |-> NormalId(Environ(host.table, pids[i], "ZELLIJ_PANE_ID"))])
\* The plugin's first client that shows a pane, or the manifest's focused pane.
PaneHeard == FirstAnswer([i \in DOMAIN heard.panes |-> NormalId(ServerId(heard.panes[i]))])
ClientPanes == LET cs == SetToSeq(ZAttached) IN [i \in DOMAIN cs |-> NormalId(ServerId(FocusIn(shownBy[cs[i]])))]
PaneIdFor(pid) == FirstAnswer(<<PaneOfEnviron(pid), IF PluginFile(host) # {} THEN PaneHeard ELSE NoAnswer>> \o ClientPanes)

ReadSourceId ==
  /\ zcall.at = "id"
  /\ LET id == PaneIdFor(host.terms[zcall.from])
     IN  IF id = NoAnswer THEN ZEnds("error") ELSE ZGoes([zcall EXCEPT !.at = "sessions", !.id = id])
  /\ Still

SamePane == zcall.from = zcall.to /\ PaneIdFor(host.terms[zcall.to]) = zcall.id
PreparePlugin ==
  /\ zcall.at = "sessions"
  /\ LET names == {SessionName(host, host.terms[t]) : t \in {zcall.from, zcall.to}}
     IN  IF NoAnswer \in names \/ Cardinality(names) # 1 \/ PluginFile(host) = {}
         THEN ZEnds("error") /\ UNCHANGED host
         ELSE /\ EnsurePermissions \/ UNCHANGED host
              /\ IF SamePane THEN ZEnds("error") ELSE ZGoes([zcall EXCEPT !.at = "index"])
  /\ UNCHANGED <<zserver, blocks, heard, zpipe, zbegun>> /\ ZWorks
ReadIndex ==
  /\ zcall.at = "index"
  /\ \/ (\E c \in ZAttached : ZGoes([zcall EXCEPT !.at = "send", !.index = shownBy[c]])) /\ ZWorks /\ UNCHANGED zbegun
     \/ ZGoes([zcall EXCEPT !.at = "send"]) /\ ZTrouble /\ zbegun' = [zbegun EXCEPT !.clean = FALSE]
  /\ UNCHANGED <<zserver, blocks, host, heard, zpipe>>
SendMerge ==
  /\ zcall.at = "send" /\ ZGoes([zcall EXCEPT !.at = "sent"])
  /\ zpipe' = {[id |-> zcall.id, index |-> zcall.index]}
  /\ UNCHANGED <<zserver, blocks, host, heard, zbegun>> /\ ZWorks
\* The pipe command returns, or is killed after three seconds: done, in both cases.
MergeSent ==
  /\ zcall.at = "sent" /\ ZEnds("done") /\ Still

\* The plugin's own idea of the active tab serves if the message has none.
TargetHeard(m) == heard.tab
TargetIndex(m) == IF m.index # 0 THEN m.index ELSE heard.tab
\* break_panes_to_tab_with_index: a tab that is left empty closes.
ZInto(p, t) ==
  LET s == TabOf(p)
      left == Without(ztabs[s].lay, p)
      after == [[ztabs EXCEPT ![s] = [lay |-> left, focus |-> IF FocusIn(s) = p /\ PanesOf(left) # {} THEN CHOOSE q \in PanesOf(left) : TRUE
                                                             ELSE FocusIn(s)]]
                EXCEPT ![t] = [lay |-> AtScreenEdge(Without(@.lay, p), "east", p), focus |-> p]]
  IN  IF s # t /\ PanesOf(left) = {}
      THEN /\ ztabs' = RemoveAt(after, s)
           /\ shownBy' = [c \in Client |-> IF shownBy[c] = s THEN (IF t > s THEN t - 1 ELSE t)
                                           ELSE IF shownBy[c] > s THEN shownBy[c] - 1 ELSE shownBy[c]]
      ELSE ztabs' = after /\ UNCHANGED shownBy
PluginMerges ==
  /\ zpipe # {} /\ zpipe' = {}
  /\ \E m \in zpipe :
       IF Granted(host) /\ TargetIndex(m) \in DOMAIN ztabs
       THEN ZInto(PaneWith(m.id), TargetIndex(m))
       ELSE UNCHANGED <<ztabs, shownBy>>
  /\ UNCHANGED <<recent, blocks, host, heard, zcall, zbegun>> /\ ZWorks
PluginHears ==
  /\ zcall.op = "merge" \* no other call reads what it heard
  /\ \E c \in ZAttached : heard' = [tab |-> shownBy[c], panes |-> <<FocusIn(shownBy[c])>>]
  /\ heard' # heard
  /\ UNCHANGED <<zserver, blocks, host, zcall, zpipe, zbegun, zcount>>

-----------------------------------------------------------------------------
(* What fails, and who else acts *)

\* A command that fails ends the call, save for the look after a hop and the way back.
ZCommandFails ==
  /\ zcall.at \in {"count", "counted", "pane", "check", "before", "hop", "after", "back", "turn", "movePane", "textPane", "write", "id", "sent"}
  /\ ZTrouble
  /\ CASE zcall.at = "after" -> Decide(0) [] zcall.at = "back" -> Decide(zcall.found) [] OTHER -> ZEnds("error")
  /\ zbegun' = [zbegun EXCEPT !.clean = FALSE]
  /\ UNCHANGED <<zserver, blocks, host, heard, zpipe>>
ZUserActs ==
  /\ ZTrouble /\ zbegun' = [zbegun EXCEPT !.clean = FALSE]
  /\ \/ \E t \in ShownTabs : \E p \in PanesOf(ztabs[t].lay) \ {FocusIn(t)} : ZFocused(t, p) /\ UNCHANGED <<shownBy, blocks>>
     \/ \E c \in Client, t \in DOMAIN ztabs : t # shownBy[c] /\ shownBy' = [shownBy EXCEPT ![c] = t] /\ UNCHANGED <<ztabs, recent, blocks>>
     \/ \E p \in UNION {PanesOf(ztabs[t].lay) : t \in DOMAIN ztabs} :
          blocks' = (blocks \cup {p}) \ (blocks \cap {p}) /\ UNCHANGED zserver
  /\ UNCHANGED <<host, heard, zcall, zpipe>>

ZellijInit ==
  /\ ztabs \in Tabs1
  /\ shownBy \in {s \in [Client -> 0..2] : s[1] \in DOMAIN ztabs /\ s[2] \in {0} \cup DOMAIN ztabs}
  /\ LET focused == {FocusIn(t) : t \in DOMAIN ztabs}
         others == UNION {PanesOf(ztabs[t].lay) : t \in DOMAIN ztabs} \ focused
     IN  recent = SetToSeq(focused) \o SetToSeq(others)
  /\ blocks \in Blocks /\ host \in Hosts
  /\ heard = [tab |-> 1, panes |-> <<FocusIn(1)>>]
  /\ zcall = NoZCall /\ zpipe = {} /\ zcount = [calls |-> 0, trouble |-> 0]
  /\ zbegun = [focus |-> <<>>, clean |-> FALSE]

ZellijPanesNext ==
  \/ BeginZellij \/ CountLines \/ ReadOrdinal \/ ZCheckFocus \/ LookBefore \/ Hop \/ LookAfter \/ GoBack
  \/ Turn \/ MovePane \/ FindTextPane \/ Write
  \/ ReadSourceId \/ PreparePlugin \/ ReadIndex \/ SendMerge \/ MergeSent \/ PluginMerges \/ PluginHears
  \/ ZCommandFails \/ ZUserActs

ZellijPanesTypeOK ==
  /\ \A t \in DOMAIN ztabs : FocusIn(t) \in PanesOf(ztabs[t].lay)
  /\ \A c \in Client : shownBy[c] \in 0..Len(ztabs)
  /\ Cardinality(zpipe) <= 1 /\ zbegun.clean \in BOOLEAN

\* What is asked of zellij leaves the focus where it was (probe_neighbor hops and
\* hops back): when the call has decided, or ends with nothing to do, unless users
\* or failures interfere or a pane has no number of its own.
ZellijLookupsLeaveFocus ==
  zbegun.clean /\ (zcall.at \in {"turn", "movePane"} \/ zcall.outcome \in {"atEdge", "tearOut", "passthrough"})
    => \A t \in DOMAIN zbegun.focus : FocusIn(t) = zbegun.focus[t]

\* Text is written to the pane it is meant for, or not at all.
TextReachesPane ==
  zbegun.clean /\ zcall.op = "text" /\ zcall.outcome = "done" => zcall.found = zcall.want

\* The plugin puts the pane into the tab that the session's clients show when nothing
\* fails, though the plugin itself may have heard last of another.
ZellijMergesIntoShown ==
  [][zbegun.clean /\ zpipe # {} /\ zpipe' = {} /\ ztabs' # ztabs =>
       \A m \in zpipe : \E t \in {shownBy'[c] : c \in ZAttached} : PaneWith(m.id) \in PanesOf(ztabs'[t].lay)]_zellijVars
====
