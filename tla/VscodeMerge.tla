---- MODULE VscodeMerge ----
(***************************************************************************)
(* Merging a VS Code window into another (src/src/adapters/apps/vscode.rs, *)
(* prepare_merge, merge_into_target).  What is in the source is learnt     *)
(* through the clipboard: VS Code is told to open one tab after the other  *)
(* and to copy its path; the paths are opened again in a group split off   *)
(* in the target.                                                          *)
(*                                                                         *)
(* Both windows belong to one process: a command goes to a port of that    *)
(* process, without an answer, and acts on the window VS Code takes for    *)
(* active.  It is carried out some time later; the program waits a while   *)
(* (settle) and cannot know.  The user may copy or change tabs.            *)
(***************************************************************************)
EXTENDS Integers, Sequences, SequencesExt

CONSTANTS Tabs0,          \* groups there may be in the source
          Pathless,       \* tabs that have no path
          TargetTab,      \* the tab of the target
          Nets,           \* settings and ports: [manages, setting, cached, env, default:
                          \* sequences, kind, sockets: [port, state, mine], as the
                          \* kernel lists them]
          MaxTabs,        \* MAX_CAPTURED_GROUP_TABS
          MaxLags, MaxMeddling, MaxSendFails

Probe == "probe"
Text == "text"            \* what the user had copied
Image == "image"          \* not readable as text
Late == "late"            \* what the user copies meanwhile
NoPath == "nothing"
NoPort == 0

\* A tab is in a group once, and its path is no marker.
ASSUME MergeAssumption ==
  /\ \A tabs \in Tabs0 : /\ tabs \in Seq(STRING \ {Probe, Text, Image, Late, NoPath})
                         /\ \A i, j \in DOMAIN tabs : tabs[i] = tabs[j] => i = j
  /\ MaxTabs \in Nat \ {0}

NetOver(ports) ==
  [manages : BOOLEAN, setting : Seq(ports), cached : Seq(ports), env : Seq(ports), default : Seq(ports),
   sockets : Seq([port : ports, state : STRING, mine : BOOLEAN]), kind : [ports -> {"vscode", "foreign", "deaf"}]]
ASSUME NetsAssumption == \A n \in Nets : NoPort \notin DOMAIN n.kind /\ n \in NetOver(DOMAIN n.kind)

VARIABLES
  groups,    \* source, target, and the group split off the target
  current,   \* the active group of the window VS Code takes for active
  sent,      \* commands sent and not yet carried out
  clip, writable, \* the clipboard, and whether a program that writes it is found
  closesEmpty,    \* VS Code's setting: a group without tabs closes
  net,
  merging,       \* the call
  meddled,   \* history: a wait was too short, or the user acted
  trouble    \* lags, acts of the user and failures so far

mergeVars == <<groups, current, sent, clip, writable, closesEmpty, net, merging, meddled, trouble>>

Source == 1
Target == 2
SplitOff == 3
NoGroup == [tabs |-> <<>>, active |-> 0, preview |-> 0]
Group(tabs, active) == [tabs |-> tabs, active |-> active, preview |-> 0]

-----------------------------------------------------------------------------
(* Ports *)

\* Sockets that wait for connections and that a process of the tree has open; the
\* others are passed over.
Listening(socket) == socket.state = "listen" /\ socket.mine
ListenerPorts == [i \in DOMAIN net.sockets |-> IF Listening(net.sockets[i]) THEN net.sockets[i].port ELSE NoPort]
\* The port that took the last command is asked before all others; that none is
\* asked twice changes nothing.
CandidatePorts == IF net.setting # <<>> THEN net.setting
                  ELSE net.cached \o net.env \o ListenerPorts \o net.default
Accepting(port) == port # NoPort /\ net.kind[port] # "deaf"
FirstAccepting == {i \in DOMAIN CandidatePorts :
                     Accepting(CandidatePorts[i]) /\ \A j \in 1..i - 1 : ~Accepting(CandidatePorts[j])}
Reaches == \E i \in FirstAccepting : net.kind[CandidatePorts[i]] = "vscode"
Command(verb, arg) == [verb |-> verb, arg |-> arg]

\* The first port that takes a websocket has the command; nothing says whether it
\* is VS Code's.
Send(c) == \E i \in FirstAccepting :
             /\ sent' = IF net.kind[CandidatePorts[i]] = "vscode" THEN Append(sent, c) ELSE sent
             /\ net' = [net EXCEPT !.cached = <<CandidatePorts[i]>>]

-----------------------------------------------------------------------------
(* VS Code carries out a command *)

ActiveTab(g) == IF g.tabs = <<>> THEN NoPath ELSE g.tabs[g.active]
PathOf(tab) == IF tab \in Pathless THEN NoPath ELSE tab
Opened(g, path) ==
  IF Contains(g.tabs, path) THEN [g EXCEPT !.active = CHOOSE i \in DOMAIN g.tabs : g.tabs[i] = path]
  ELSE IF g.preview # 0 THEN [g EXCEPT !.tabs[g.preview] = path, !.active = g.preview]
  ELSE [tabs |-> InsertAt(g.tabs, g.active + 1, path), active |-> g.active + 1, preview |-> g.active + 1]
AtIndex(g, i) == IF i \in DOMAIN g.tabs THEN [g EXCEPT !.active = i] ELSE g

CarriesOut ==
  /\ sent # <<>> /\ sent' = Tail(sent)
  /\ LET c == Head(sent)  g == groups[current]
     IN  /\ clip' = IF c.verb = "copyPath" /\ PathOf(ActiveTab(g)) # NoPath THEN PathOf(ActiveTab(g)) ELSE clip
         /\ current' = CASE c.verb = "show" -> Target
                         [] c.verb = "split" -> SplitOff
                         [] c.verb = "closeActive" /\ Len(g.tabs) = 1 /\ closesEmpty -> Target
                         [] OTHER -> current
         /\ groups' = CASE c.verb = "split" -> [groups EXCEPT ![SplitOff] = Group(<<ActiveTab(g)>>, 1)]
                        [] c.verb = "openIndex" -> [groups EXCEPT ![current] = AtIndex(g, c.arg)]
                        [] c.verb = "openPath" -> [groups EXCEPT ![current] = Opened(g, c.arg)]
                        [] c.verb = "keep" -> [groups EXCEPT ![current].preview = 0]
                        [] c.verb = "closeOthers" -> [groups EXCEPT ![current] = Group(<<ActiveTab(g)>>, 1)]
                        [] c.verb = "closeActive" -> [groups EXCEPT ![current] =
                              Group(RemoveAt(g.tabs, g.active), IF Len(g.tabs) = 1 THEN 0 ELSE 1)]
                        [] OTHER -> groups
  /\ UNCHANGED <<writable, closesEmpty, net, merging, meddled, trouble>>

-----------------------------------------------------------------------------
(* The source's paths *)

NoMerging == [at |-> "idle", scope |-> "buffer", next |-> "", previous |-> NoPath, index |-> 1, original |-> NoPath,
          last |-> NoPath, captured |-> <<>>, active |-> 1, todo |-> <<>>, unshown |-> FALSE, had |-> NoGroup, clip0 |-> NoPath]
MergeInit ==
  /\ \E tabs \in Tabs0 : \E i \in DOMAIN tabs :
       groups = <<Group(tabs, i), Group(<<TargetTab>>, 1), NoGroup>>
  /\ current = Source /\ sent = <<>>
  /\ clip \in {Text, Image} /\ writable \in BOOLEAN /\ closesEmpty \in BOOLEAN
  /\ net \in Nets /\ merging = NoMerging /\ meddled = FALSE /\ trouble = 0

IsText(c) == c # Image
ToClip(text) == IF writable THEN text ELSE clip
Merging(j) == merging' = j /\ UNCHANGED <<groups, current, sent, clip, writable, closesEmpty, net, meddled, trouble>>

\* With manage_terminal (net.manages) the call may believe a terminal to be
\* active; then there is nothing to capture.
BeginsMerge(scope) ==
  /\ merging.at = "idle"
  /\ scope = "terminal" => net.manages
  /\ Merging([NoMerging EXCEPT !.at = IF scope = "terminal" THEN "prepared" ELSE "probe",
                       !.scope = scope, !.next = "original", !.had = groups[Source],
                       !.previous = IF IsText(clip) THEN clip ELSE NoPath, !.clip0 = clip])

\* A marker goes into the clipboard, so that a copy that never happens is seen.
CopiesPath ==
  /\ merging.at = "probe" /\ Send(Command("copyPath", 0)) /\ clip' = ToClip(Probe)
  /\ merging' = [merging EXCEPT !.at = "settle"]
  /\ UNCHANGED <<groups, current, writable, closesEmpty, meddled, trouble>>

Settles(from, to) ==
  /\ merging.at = from /\ merging' = [merging EXCEPT !.at = to]
  /\ \/ sent = <<>> /\ UNCHANGED <<meddled, trouble>>
     \/ sent # <<>> /\ trouble < MaxLags /\ meddled' = TRUE /\ trouble' = trouble + 1
  /\ UNCHANGED <<groups, current, sent, clip, writable, closesEmpty, net>>
ClipboardSettles == Settles("settle", "read")

\* should_prepare_terminal_merge: what has no path is taken for a terminal.
TakenForTerminal == net.manages /\ clip = Probe
Captured(path) ==
  IF path = merging.last THEN [merging EXCEPT !.at = "back"]
  ELSE [merging EXCEPT !.captured = Append(@, path), !.last = path, !.index = @ + 1,
                   !.at = IF merging.index < MaxTabs THEN "openTab" ELSE "back"]
ReadsPath ==
  /\ merging.at = "read"
  /\ Merging(IF TakenForTerminal THEN [merging EXCEPT !.at = "restore", !.next = "prepared", !.scope = "terminal"]
         ELSE IF ~IsText(clip) \/ clip = Probe THEN [merging EXCEPT !.at = "restore", !.next = "failed"]
         ELSE IF merging.next = "tab" THEN Captured(clip)
         ELSE [merging EXCEPT !.original = clip, !.at = IF merging.scope = "buffer" THEN "restore" ELSE "openTab",
                          !.captured = IF merging.scope = "buffer" THEN <<clip>> ELSE <<>>,
                          !.next = IF merging.scope = "buffer" THEN "prepared" ELSE "tab"])

OpensTab ==
  /\ merging.at = "openTab" /\ Send(Command("openIndex", merging.index)) /\ merging' = [merging EXCEPT !.at = "settleTab"]
  /\ UNCHANGED <<groups, current, clip, writable, closesEmpty, meddled, trouble>>
TabSettles == Settles("settleTab", "probe")

OriginalIndex == IF Contains(merging.captured, merging.original)
                 THEN CHOOSE i \in DOMAIN merging.captured : merging.captured[i] = merging.original ELSE 1
GoesBack ==
  /\ merging.at = "back"
  /\ \/ Send(Command("openIndex", OriginalIndex))
     \/ trouble < MaxSendFails /\ UNCHANGED <<sent, net>>
  /\ merging' = [merging EXCEPT !.at = "settleBack", !.active = OriginalIndex, !.next = "prepared"]
  /\ UNCHANGED <<groups, current, clip, writable, closesEmpty, meddled, trouble>>
BackSettles == Settles("settleBack", "restore")

KeepsCapture == clip
GivesBack == IF merging.previous # NoPath THEN ToClip(merging.previous) ELSE clip
RestoresClipboard ==
  /\ merging.at = "restore" /\ clip' = GivesBack /\ merging' = [merging EXCEPT !.at = merging.next]
  /\ UNCHANGED <<groups, current, sent, writable, closesEmpty, net, meddled, trouble>>

-----------------------------------------------------------------------------
(* The target *)

OpenUnkept(path) == <<Command("openPath", path), Command("nothing", 0)>>
OpenPath(path) == <<Command("openPath", path), Command("keep", 0)>>
\* Each path in turn, two commands for one.
OpenAll(paths) == [k \in 1..2 * Len(paths) |-> OpenPath(paths[(k + 1) \div 2])[2 - (k % 2)]]
MoveTerminal == <<Command("terminalToPanel", 0)>>
MergeCommands ==
  IF merging.scope = "terminal" THEN MoveTerminal ELSE
  <<Command("split", 0)>> \o
  (IF merging.scope = "buffer" THEN OpenPath(merging.captured[1]) \o <<Command("closeOthers", 0)>>
   ELSE <<Command("closeActive", 0)>> \o OpenAll(merging.captured)
        \o <<Command("openIndex", merging.active)>>)

\* The session focuses the target's window; VS Code hears of it like of a command.
ShowsTarget ==
  /\ merging.at = "prepared" /\ sent' = Append(sent, Command("show", 0))
  /\ merging' = [merging EXCEPT !.at = "settleMerge", !.todo = MergeCommands]
  /\ UNCHANGED <<groups, current, clip, writable, closesEmpty, net, meddled, trouble>>
MergeSettles == Settles("settleMerge", "merge")
\* `keep' follows its `open' at once.
MergesNext ==
  /\ merging.at = "merge"
  /\ IF merging.todo = <<>> THEN Merging([merging EXCEPT !.at = "done"])
     ELSE /\ Send(Head(merging.todo))
          /\ merging' = [merging EXCEPT !.todo = Tail(@),
                                !.at = IF Head(merging.todo).verb = "openPath" THEN "merge" ELSE "settleMerge"]
          /\ UNCHANGED <<groups, current, clip, writable, closesEmpty, meddled, trouble>>

\* No port answers: the call fails where it stands; what was sent is not undone.  But
\* that the merged group shows the right tab at last is only tried: the call is Ok.
OnlyShows == merging.at = "merge" /\ Len(merging.todo) = 1 /\ Head(merging.todo).verb = "openIndex"
SendFails ==
  /\ merging.at \in {"probe", "openTab", "merge"} /\ (merging.at = "merge" => merging.todo # <<>>)
  /\ trouble < MaxSendFails /\ trouble' = trouble + 1
  /\ merging' = IF OnlyShows THEN [merging EXCEPT !.at = "settleMerge", !.todo = <<>>, !.unshown = TRUE]
                ELSE [merging EXCEPT !.at = IF @ = "merge" THEN "failed" ELSE "restore", !.next = "failed"]
  /\ UNCHANGED <<groups, current, sent, clip, writable, closesEmpty, net, meddled>>

Underway == merging.at \notin {"idle", "done", "failed"}
UserCopies == /\ Underway /\ trouble < MaxMeddling /\ clip' = Late /\ meddled' = TRUE /\ trouble' = trouble + 1
              /\ UNCHANGED <<groups, current, sent, writable, closesEmpty, net, merging>>
UserChangesTab == /\ Underway /\ trouble < MaxMeddling /\ meddled' = TRUE /\ trouble' = trouble + 1
                  /\ \E i \in DOMAIN groups[current].tabs : groups' = [groups EXCEPT ![current].active = i]
                  /\ UNCHANGED <<current, sent, clip, writable, closesEmpty, net, merging>>

VscodeMergeNext ==
  \/ \E scope \in {"buffer", "group", "terminal"} : BeginsMerge(scope)
  \/ CopiesPath \/ ClipboardSettles \/ ReadsPath \/ OpensTab \/ TabSettles \/ GoesBack \/ BackSettles
  \/ RestoresClipboard \/ ShowsTarget \/ MergeSettles \/ MergesNext \/ SendFails
  \/ CarriesOut \/ UserCopies \/ UserChangesTab

MergeSpec == MergeInit /\ [][VscodeMergeNext]_mergeVars

VscodeMergeTypeOK ==
  /\ \A g \in DOMAIN groups : groups[g].active \in 0..Len(groups[g].tabs)
  /\ current \in DOMAIN groups /\ Len(merging.captured) <= MaxTabs /\ meddled \in BOOLEAN

LeftInFront(tabs, shown) == IF merging.unshown THEN Last(tabs) ELSE shown

\* What ends merged is what the source's group held, tab by tab (no more than
\* MaxTabs), in a group of its own, with the same tab in front, or the last one if the
\* command that shows it could not be sent, and the target's other tabs are as
\* before: unless a wait was too short or the user acted.  It
\* takes a clipboard that can be written to tell a tab without a path from the
\* last tab, and a VS Code that leaves the emptied group open.  What is taken for a
\* terminal leaves all tabs where they are
\* (capture_active_group_paths, merge_into_target).
GroupArrivesWhole ==
  merging.at = "done" /\ ~meddled /\ Reaches /\ (writable \/ ~\E i \in DOMAIN merging.had.tabs : merging.had.tabs[i] \in Pathless)
  /\ ~(closesEmpty /\ merging.scope = "group") =>
    LET shown == merging.had.tabs[merging.had.active]
        whole == IF merging.scope = "buffer" THEN <<shown>> ELSE SubSeq(merging.had.tabs, 1, IF Len(merging.had.tabs) < MaxTabs THEN Len(merging.had.tabs) ELSE MaxTabs)
    IN  IF merging.scope = "terminal" THEN groups = <<[merging.had EXCEPT !.active = groups[Source].active],
                                                      Group(<<TargetTab>>, 1), NoGroup>> ELSE
        /\ groups[SplitOff].tabs = whole
        /\ Contains(whole, shown) => ActiveTab(groups[SplitOff]) = LeftInFront(whole, shown)
        /\ groups[Target] = Group(<<TargetTab>>, 1) /\ groups[Source] = [merging.had EXCEPT !.active = groups[Source].active]

\* Whatever becomes of a merge, a text that the user had copied is in the clipboard
\* again once the paths are read, unless the user copied another meanwhile, a
\* wait was too short, or it cannot be written (capture_active_file_path,
\* capture_active_group_paths).
ClipboardGivenBack ==
  merging.at \in {"prepared", "settleMerge", "merge", "done", "failed"} /\ merging.clip0 = Text /\ writable /\ ~meddled
    => clip = Text
====
