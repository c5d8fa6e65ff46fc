---- MODULE MC_Buffers ----
(***************************************************************************)
(* The adapters that move what runs in one application: buffers between    *)
(* nvim instances, panes between tmux windows and sessions or between the  *)
(* windows of kitty and wezterm or the tabs of zellij, buffers between     *)
(* frames of Emacs, tabs between windows of VS Code.  None calls another,  *)
(* so a behaviour is one of them.                                          *)
(***************************************************************************)
EXTENDS NvimTransfer, TmuxPanes, PaneGeometry, MC_Mux, EmacsFrames, VscodeMerge, MC_Zellij, TLC

VARIABLE part \* which of the six runs in this behaviour

(* What does not run stays in one of its first states. *)
MuxWaits ==
  /\ lay = [w \in MuxWindow |-> IF w = 1 THEN Line("horizontal", SetToSeq(MuxPane)) ELSE Closed]
  /\ active = [w \in MuxWindow |-> IF w = 1 THEN 1 ELSE 0]
  /\ mux = Kitty /\ MuxInit
EmacsWaits ==
  /\ frames = [f \in Frame |-> IF f = 1 THEN Line("horizontal", <<1>>) ELSE Closed]
  /\ selected = [f \in Frame |-> IF f = 1 THEN 1 ELSE 0]
  /\ focused = 1 /\ EmacsInit
VscodeMergeWaits ==
  /\ groups = <<Group(<<"a">>, 1), Group(<<TargetTab>>, 1), NoGroup>>
  /\ clip = Text /\ writable = TRUE /\ closesEmpty = TRUE /\ net = CHOOSE n \in Nets : n.setting # <<>>
  /\ MergeInit
ZellijWaits ==
  /\ ztabs = CHOOSE tabs \in Tabs1 : Len(tabs) = 1 /\ tabs[1].focus = 1
  /\ shownBy = [c \in Client |-> 1] /\ blocks = {}
  /\ host = CHOOSE h \in Hosts : TRUE
  /\ ZellijInit

Init == /\ NvimInit /\ TmuxInit
        /\ \/ part \in {"nvim", "tmux"} /\ MuxWaits /\ EmacsWaits /\ VscodeMergeWaits /\ ZellijWaits
           \/ part = "mux" /\ MuxInit /\ EmacsWaits /\ VscodeMergeWaits /\ ZellijWaits
           \/ part = "emacs" /\ MuxWaits /\ EmacsInit /\ VscodeMergeWaits /\ ZellijWaits
           \/ part = "vscode" /\ MuxWaits /\ EmacsWaits /\ MergeInit /\ ZellijWaits
           \/ part = "zellij" /\ MuxWaits /\ EmacsWaits /\ VscodeMergeWaits /\ ZellijInit

NvimAlone == part = "nvim" /\ NvimNext /\ UNCHANGED <<tmuxVars, muxVars, emacsVars, mergeVars, zellijVars>>
TmuxAlone == part = "tmux" /\ TmuxNext /\ UNCHANGED <<nvimVars, muxVars, emacsVars, mergeVars, zellijVars>>
MuxAlone == part = "mux" /\ MuxNext /\ UNCHANGED <<nvimVars, tmuxVars, emacsVars, mergeVars, zellijVars>>
EmacsAlone == part = "emacs" /\ EmacsNext /\ UNCHANGED <<nvimVars, tmuxVars, muxVars, mergeVars, zellijVars>>
VscodeAlone == part = "vscode" /\ VscodeMergeNext /\ UNCHANGED <<nvimVars, tmuxVars, muxVars, emacsVars, zellijVars>>
ZellijAlone == part = "zellij" /\ ZellijPanesNext /\ UNCHANGED <<nvimVars, tmuxVars, muxVars, emacsVars, mergeVars>>

Next == (NvimAlone \/ TmuxAlone \/ MuxAlone \/ EmacsAlone \/ VscodeAlone \/ ZellijAlone) /\ UNCHANGED part

Spec == Init /\ [][Next]_<<part, nvimVars, tmuxVars, muxVars, emacsVars, mergeVars, zellijVars>>
             /\ WF_nvimVars(TearOutStep \/ MergeStep)

TypeOK == NvimTypeOK /\ TmuxTypeOK /\ MuxTypeOK /\ EmacsTypeOK /\ VscodeMergeTypeOK /\ ZellijPanesTypeOK
\* What is asked of a multiplexer leaves the focus where it was, in tmux, kitty and
\* wezterm as in zellij.
AskingLeavesFocus == LookupsLeaveFocus /\ ZellijLookupsLeaveFocus

\* What is merged comes into what the target shows, of kitty and wezterm as of zellij.
MergesWhereShown == MergesIntoShown /\ ZellijMergesIntoShown

\* A tmux pane to act on is looked at when it may still be shown, and what leaves a
\* window of kitty or wezterm is what it shows.
ActsOnShownPane == [][PaneReadIsRecent']_tmuxVars /\ OnlyShownPaneLeaves

-----------------------------------------------------------------------------
(* VscodeMerge: groups of up to four tabs; ports that VS Code, something else *)
(* that takes websockets, or nobody listens on.                             *)

TheTabs == {<<"a">>, <<"a", "b">>, <<"a", "n">>, <<"a", "b", "c">>, <<"a", "b", "c", "d">>}
Kinds == [p \in 1..3 |-> CASE p = 1 -> "vscode" [] p = 2 -> "foreign" [] p = 3 -> "deaf"]
Socket(port, state, mine) == [port |-> port, state |-> state, mine |-> mine]
Net(setting, env, sockets, default) ==
  [manages |-> setting # <<>> \/ env # <<>>, setting |-> setting, cached |-> <<>>, env |-> env, sockets |-> sockets, default |-> <<default>>, kind |-> Kinds]
Mine == <<Socket(2, "listen", FALSE), Socket(2, "established", TRUE), Socket(1, "listen", TRUE), Socket(1, "listen", TRUE)>>
TheNets == {Net(<<1>>, <<>>, <<>>, 3), Net(<<>>, <<3, 1>>, <<Socket(2, "listen", TRUE)>>, 1),
            Net(<<>>, <<>>, <<Socket(2, "listen", TRUE)>> \o Mine, 3), Net(<<>>, <<>>, Mine, 2), Net(<<>>, <<>>, <<>>, 3)}

-----------------------------------------------------------------------------
(* PaneGeometry: windows of tmux that splits make, and what is found in them. *)

WindowSize == 5
\* Ways to share a length among n panes and the lines between them.
Shares(n) == {s \in [1..n -> 1..WindowSize] : FoldFunction(LAMBDA a, b : a + b, n - 1, s) = WindowSize}
Start(s, i) == FoldFunctionOnSet(LAMBDA a, b : a + b, i - 1, s, 1..i - 1)

\* The rectangles of a layout whose groups have widths t, and whose panes in group i have heights u[i].
Placed(l, t, u) ==
  LET rect(i, j) ==
        IF l.axis = "horizontal" THEN Rect(Start(t, i), Start(u[i], j), t[i], u[i][j])
                                 ELSE Rect(Start(u[i], j), Start(t, i), u[i][j], t[i])
  IN  FlattenSeq([i \in DOMAIN l.groups |-> [j \in DOMAIN l.groups[i] |-> DirectedRect(l.groups[i][j], rect(i, j))]])

Columns == {<<<<1>>>>, <<<<1>>, <<2>>>>, <<<<1, 2>>, <<3>>>>, <<<<1>>, <<2, 3>>>>, <<<<1>>, <<2>>, <<3>>>>,
            <<<<1, 2>>, <<3, 4>>>>, <<<<1, 2>>, <<3, 4, 5>>>>, <<<<1, 2, 3>>, <<4, 5>>>>, <<<<1>>, <<2, 3, 4>>>>}
Tilings ==
  UNION {{Placed([axis |-> a, groups |-> g], t, u) :
            t \in Shares(Len(g)), u \in {v \in [1..Len(g) -> UNION {Shares(n) : n \in 1..3}] :
                                          \A i \in 1..Len(g) : DOMAIN v[i] = 1..Len(g[i])}} :
         a \in {"horizontal", "vertical"}, g \in Columns}

RectOf(rects, p) == rects[SelectInSeq(rects, LAMBDA q : q.id = p)].rect

\* The pane found is one across the line, and none across it faces more; none is found
\* at the window's edge, nor where a pane one cell wide faces the end of a line.
ASSUME ClosestIsAcrossTheLine ==
  \A rects \in Tilings, d \in Sides : \A p \in 1..Len(rects) :
    LET found == SelectClosest(rects, p, d)
        faces(q) == PerpOverlapLen(RectOf(rects, p), RectOf(rects, q), d)
        across == {q \in 1..Len(rects) \ {p} : Gap(RectOf(rects, p), RectOf(rects, q), d) = 1 /\ faces(q) > 0}
    IN  /\ Cardinality(found) <= 1 /\ found \subseteq across
        /\ \A q \in found : \A o \in across : faces(o) <= faces(q)
        /\ found = {} => across = {}
        /\ d \notin DirectionalNeighbors(rects, p, WindowSize) => found = {}
        /\ found = {} /\ d \in DirectionalNeighbors(rects, p, WindowSize) =>
             High(RectOf(rects, p), OtherAxis(Axis(d))) - Low(RectOf(rects, p), OtherAxis(Axis(d))) = 1

\* What move_decision calls internal finds a pane to swap with, but in that case; what
\* it tears out has no pane on that side and leaves others behind.
ASSUME DecisionsCanBeCarriedOut ==
  \A rects \in Tilings, d \in Sides : \A p \in 1..Len(rects) :
    /\ TmuxDecision(rects, p, WindowSize, d) = "tearOut" => SelectClosest(rects, p, d) = {} /\ Len(rects) > 1
    /\ TmuxDecision(rects, p, WindowSize, d) = "passthrough" => Len(rects) = 1

\* Text as it should be typed.
KeysOf(lines) ==
  FlattenSeq([i \in DOMAIN lines |-> (IF lines[i] = "" THEN <<>> ELSE <<lines[i]>>)
                                       \o (IF i < Len(lines) THEN <<"Enter">> ELSE <<>>)])

\* Text arrives as it is, but that a newline at its end comes twice.
ASSUME TextArrives ==
  \A n \in 1..3 : \A lines \in [1..n -> {"", "ls"}] :
    SendKeys(lines) = KeysOf(lines) \o (IF EndsWithNewline(lines) THEN <<"Enter">> ELSE <<>>)
====
