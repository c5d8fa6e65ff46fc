---- MODULE MC_AppChain ----
(***************************************************************************)
(* Seven configurations: spellings of a key, sections that are off,        *)
(* backends by default, given and inherited, an editor without a terminal's *)
(* section; files that are absent or do not parse; two terminals.          *)
(***************************************************************************)
EXTENDS AppChain, TLC

all == AllPanes
off == [enabled |-> FALSE, dirs |-> Directions]
west == [enabled |-> TRUE, dirs |-> {"west"}]

Section(name, exact, enabled, moves, tear) ==
    [name |-> name, exact |-> exact, enabled |-> enabled, focus |-> all, move |-> moves, resize |-> off,
     tear |-> tear, mux |-> "none", uiApp |-> "none", uiMux |-> "none"]
WithMux(section, mux) == [section EXCEPT !.mux = mux]
Ui(section, app, mux) == [section EXCEPT !.uiApp = app, !.uiMux = mux]

TheDirections == {"west", "east"}
TheTabs == {1, 2}
Empty == [terminal |-> <<>>, editor |-> <<>>, browser |-> <<>>]
Config(terminal, editor) == [terminal |-> terminal, editor |-> editor, browser |-> <<>>]

nvimOn == Section("neovim", TRUE, TRUE, west, TRUE)
(* Spellings, sections that are off, backends by default, given and inherited. *)
Configs == {
    Config(<<Section("wezterm", TRUE, TRUE, all, TRUE)>>, <<nvimOn>>),
    Config(<<Section("wezterm", TRUE, TRUE, west, FALSE)>>, <<Ui(nvimOn, "wezterm", "tmux")>>),
    Config(<<Section("wezterm", FALSE, TRUE, all, TRUE), Section("terminal", TRUE, FALSE, all, TRUE)>>,
           <<Section("nvim", TRUE, FALSE, all, TRUE), nvimOn>>),
    Config(<<Section("terminal", TRUE, FALSE, off, TRUE), Section("wezterm", TRUE, TRUE, west, TRUE)>>,
           <<Ui(nvimOn, "kitty", "inherit")>>),
    Config(<<WithMux(Section("terminal", FALSE, TRUE, all, FALSE), "tmux")>>, <<Ui(nvimOn, "none", "inherit")>>),
    Config(<<WithMux(Section("wezterm", TRUE, TRUE, all, TRUE), "tmux")>>, <<Ui(nvimOn, "wezterm", "inherit")>>),
    Config(<<>>, <<Ui(nvimOn, "wezterm", "none")>>)}

TheFiles == {[kind |-> "given", cfg |-> c, explicit |-> FALSE] : c \in Configs}
            \cup {[kind |-> k, cfg |-> Empty, explicit |-> e] : k \in {"absent", "broken"}, e \in BOOLEAN}

TheHosts == {[name |-> "wezterm", aliases |-> <<"wezterm", "terminal">>],
             [name |-> "foot", aliases |-> <<"foot", "terminal">>]}
====
