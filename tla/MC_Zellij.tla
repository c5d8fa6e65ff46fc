---- MODULE MC_Zellij ----
(***************************************************************************)
(* Values for ZellijPanes: three panes in one tab or two; two terminals    *)
(* whose zellij can be found by its arguments, its sockets, its kitty or   *)
(* an inherited environment; files of the plugin; the permissions it has.  *)
(***************************************************************************)
EXTENDS ZellijPanes, MC_Processes

Row(panes) == Line("horizontal", panes)
Corner == [axis |-> "horizontal", groups |-> <<<<1>>, <<2, 3>>>>]
Tab(l, p) == [lay |-> l, focus |-> p]
TheTabs1 == {<<Tab(Corner, p)>> : p \in 1..3}
            \cup {<<Tab(Row(<<1, 2>>), p), Tab(Row(<<3>>), 3)>> : p \in {1, 2}}
            \cup {<<Tab(Row(<<1>>), 1), Tab(Line("vertical", <<2, 3>>), 2)>>}

Zellij(parent, args) == Process(parent, "zellij", Nothing, <<<<"zellij">>>> \o args)
InPane(kitty, pane) == ("ZELLIJ_SESSION_NAME" :> "work") @@ ("KITTY_PID" :> kitty) @@ ("ZELLIJ_PANE_ID" :> pane)

\* Terminals 1 and 2 with a client each, the server 5 with a shell of the first's.
Table(args1, args2, env2) ==
  (1 :> Process(0, "kitty", Nothing, <<<<"kitty">>>>)) @@ (2 :> Process(0, "foot", env2, <<<<"foot">>>>))
  @@ (3 :> Zellij(1, args1)) @@ (4 :> [Zellij(2, args2) EXCEPT !.sockets = {7}])
  @@ (5 :> Zellij(0, <<>>)) @@ (6 :> Process(5, "bash", InPane("1", "terminal_0"), <<<<"bash">>>>))
Attach == <<<<"attach">>, <<"work">>>>
PluginAt(exists, stale, ctime) == [exists |-> exists, stale |-> stale, ctime |-> ctime]
Files == <<PluginAt(TRUE, FALSE, 1), PluginAt(TRUE, TRUE, 3), PluginAt(FALSE, FALSE, 4), PluginAt(TRUE, FALSE, 2)>>
Host(table, ss, files, granted) ==
  [table |-> table, unix |-> <<>>, ss |-> ss, sessions |-> {"work", "other"}, terms |-> <<1, 2>>,
   setting |-> <<PluginAt(FALSE, FALSE, 0)>>, files |-> files, granted |-> granted]
TheHosts == {Host(Table(<<>>, <<>>, Nothing), <<[inode |-> 7, owner |-> "work"]>>, Files, {"ReadCliPipes"}),
             Host(Table(Attach, <<<<"--server", "other">>>>, Nothing), <<>>, Files, Permissions),
             Host(Table(Attach, <<>>, InPane("1", "terminal_1")), <<>>, <<>>, {})}

-----------------------------------------------------------------------------
(* Pure operators, against what they should compute *)

\* The newest file of the plugin that is not older than its source; what is set comes first.
ASSUME PluginIsNewest ==
  \A ctimes \in {f \in [1..3 -> 1..3] : IsInjective(f)}, stale \in [1..3 -> BOOLEAN], set \in {<<>>, <<PluginAt(TRUE, FALSE, 0)>>, <<PluginAt(TRUE, TRUE, 9)>>} :
    LET files == [i \in 1..3 |-> PluginAt(TRUE, stale[i], ctimes[i])]
        fresh == {files[i] : i \in {j \in 1..3 : ~stale[j]}}
        chosen == PluginFile([files |-> files, setting |-> set])
    IN  IF set # <<>> /\ FileUrl(set[1]) THEN chosen = ToSet(set)
        ELSE chosen = {f \in fresh : \A g \in fresh : g.ctime <= f.ctime}
====
