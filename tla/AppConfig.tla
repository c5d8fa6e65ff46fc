---- MODULE AppConfig ----
(***************************************************************************)
(* What the configuration file answers (src/src/config.rs).                *)
(*                                                                         *)
(* A section ("terminal", "editor", "browser") is a sequence of profiles:  *)
(* the order in which the hash map happens to be walked, any order, fixed  *)
(* once the file is read.  A profile has the name of its key in lower case *)
(* and whether the key is spelled so.  A backend or an application that is *)
(* not given is "none".  Names are trimmed.                                *)
(***************************************************************************)
EXTENDS Naturals, Sequences, FiniteSets, SequencesExt, FiniteSetsExt

CONSTANT Directions

Backends == {"tmux", "zellij", "wezterm", "kitty"}
EditorBackends == Backends \cup {"inherit"}

(* InternalPaneDirectionConfig; allowed_directions left out is all of them. *)
PaneRule == [enabled : BOOLEAN, dirs : SUBSET Directions]

(* A key of a section with TerminalAppConfig or EditorAppConfig, as far as   *)
(* something reads it: anchor_app_window, ignore_tabs and all of docking but  *)
(* tear_off.enabled are parsed and never asked for.                        *)
Key(p) == p.name \in STRING /\ p.exact \in BOOLEAN /\ p.enabled \in BOOLEAN /\ p.tear \in BOOLEAN
TerminalProfile(p) ==
    Key(p) /\ {p.focus, p.move, p.resize} \subseteq PaneRule /\ p.mux \in Backends \cup {"none"}
EditorProfile(p) ==
    Key(p) /\ {p.focus, p.move, p.resize} \subseteq PaneRule
    /\ p.uiMux \in EditorBackends \cup {"none"} /\ p.uiApp \in STRING

(* The keys of a map are distinct. *)
DistinctKeys(profiles) ==
    \A i, j \in 1..Len(profiles) :
        profiles[i].exact /\ profiles[j].exact /\ profiles[i].name = profiles[j].name => i = j

(* AppConfig. *)
IsConfig(cfg) ==
    /\ \A section \in {"terminal", "editor"} :
         cfg[section] \in Seq(ToSet(cfg[section])) /\ DistinctKeys(cfg[section])
    /\ \A i \in DOMAIN cfg.terminal : TerminalProfile(cfg.terminal[i])
    /\ \A i \in DOMAIN cfg.editor : EditorProfile(cfg.editor[i])

(* The default of InternalPaneDirectionConfig. *)
AllPanes == [enabled |-> TRUE, dirs |-> Directions]

(* The least index in s that satisfies a test, 0 if none does. *)
FirstIn(S) == IF S = {} THEN 0 ELSE Min(S)

(* profile_entry_by_aliases: a key spelled like an alias, in the order of   *)
(* the aliases; else the first key, in the map's order, that differs from  *)
(* an alias in case only.                                                  *)
ProfileEntry(profiles, aliases) ==
    LET spelled(a) == {i \in DOMAIN profiles : profiles[i].exact /\ profiles[i].name = a}
        hit == FirstIn({k \in DOMAIN aliases : spelled(aliases[k]) # {}})
        loose == {i \in DOMAIN profiles : profiles[i].name \in ToSet(aliases)}
    IN  IF hit # 0 THEN Min(spelled(aliases[hit])) ELSE FirstIn(loose)

(* section_enabled_from, app_enabled_from: no profile, not enabled. *)
AppEnabled(cfg, section, aliases) ==
    LET i == ProfileEntry(cfg[section], aliases)
    IN  i # 0 /\ cfg[section][i].enabled

(* pane_policy_from: what the section allows; without a profile everything  *)
(* but the integration itself.  A browser's profile only enables it.       *)
PanePolicy(cfg, section, aliases) ==
    LET i == ProfileEntry(cfg[section], aliases)
        on == AppEnabled(cfg, section, aliases)
    IN  IF i = 0 \/ section = "browser"
          THEN [on |-> on, focus |-> AllPanes, move |-> AllPanes, resize |-> AllPanes, tear |-> TRUE]
          ELSE LET p == cfg[section][i]
               IN  [on |-> on, focus |-> p.focus, move |-> p.move, resize |-> p.resize, tear |-> p.tear]

(* check_allowed, and the capability and *_allowed methods of PanePolicy. *)
Allowed(rule, dir) == rule.enabled /\ dir \in rule.dirs
PolicyCapable(policy, op) == policy.on /\ (IF op = "tear" THEN policy.tear ELSE policy[op].enabled)
PolicyAllows(policy, op, dir) == policy.on /\ Allowed(policy[op], dir)

(* default_mux_backend_for_aliases. *)
DefaultBackend(aliases) ==
    CASE "kitty" \in ToSet(aliases) -> "kitty"
      [] ToSet(aliases) \cap {"foot", "alacritty", "ghostty", "iterm2", "iterm"} # {}
         /\ "kitty" \notin ToSet(aliases) -> "tmux"
      [] OTHER -> "wezterm"

(* terminal_profile_backend: the default is that of the key. *)
ProfileBackend(p) == IF p.mux # "none" THEN p.mux ELSE DefaultBackend(<<p.name>>)

(* mux_policy_from: the backend of a terminal; the default is that of the   *)
(* terminal's own aliases.  A section that is off still says which.         *)
MuxBackend(cfg, aliases) ==
    LET i == ProfileEntry(cfg.terminal, aliases)
    IN  IF i # 0 /\ cfg.terminal[i].mux # "none" THEN cfg.terminal[i].mux
        ELSE DefaultBackend(aliases)

(* known_terminal_backend_for_aliases: a name nobody knows has none. *)
KnownBackend(name) ==
    CASE name \in {"kitty", "wezterm"} -> name
      [] name \in {"foot", "alacritty", "ghostty", "iterm2", "iterm"} -> "tmux"
      [] OTHER -> "none"

(* terminal_backend_for_aliases_from, of one application. *)
TerminalBackend(cfg, app) ==
    LET i == ProfileEntry(cfg.terminal, <<app>>)
    IN  IF i # 0 THEN ProfileBackend(cfg.terminal[i]) ELSE KnownBackend(app)

(* single_enabled_terminal_backend. *)
SingleEnabledBackend(cfg) ==
    LET on == {i \in DOMAIN cfg.terminal : cfg.terminal[i].enabled}
    IN  IF Cardinality(on) = 1 THEN ProfileBackend(cfg.terminal[Min(on)]) ELSE "none"

(* EditorTerminalMuxBackend::resolve: only "inherit" looks further. *)
ResolveEditorBackend(cfg, backend, app) ==
    IF backend # "inherit" THEN backend
    ELSE LET named == IF app = "none" THEN "none" ELSE TerminalBackend(cfg, app)
         IN  IF named # "none" THEN named ELSE SingleEnabledBackend(cfg)

(* editor_terminal_ui_app_from. *)
EditorTerminalApp(cfg, aliases) ==
    LET i == ProfileEntry(cfg.editor, aliases)
    IN  IF i = 0 THEN "none" ELSE cfg.editor[i].uiApp

(* editor_terminal_mux_backend_from. *)
EditorBackend(cfg, aliases) ==
    LET i == ProfileEntry(cfg.editor, aliases)
        app == EditorTerminalApp(cfg, aliases)
        own == IF i = 0 \/ cfg.editor[i].uiMux = "none" THEN "none"
               ELSE ResolveEditorBackend(cfg, cfg.editor[i].uiMux, app)
    IN  IF own # "none" THEN own
        ELSE IF app # "none" THEN TerminalBackend(cfg, app) ELSE "none"

(* any_enabled_editor_targets_terminal_app_from. *)
EditorTargets(cfg, aliases) ==
    \E i \in DOMAIN cfg.editor : cfg.editor[i].enabled /\ cfg.editor[i].uiApp \in ToSet(aliases)

(* terminal_chain_enabled_from: an editor that names the terminal is enough. *)
TerminalChainEnabled(cfg, aliases) == AppEnabled(cfg, "terminal", aliases) \/ EditorTargets(cfg, aliases)

(* resolve_config_path, load_config_from and prepare_with_path: what becomes *)
(* of the loaded configuration.  The path may be given (explicit); `file` is *)
(* "absent", "broken" or a configuration; an error ends the program.        *)
Prepared(file, explicit, before, defaults) ==
    CASE file.kind = "broken" -> [ok |-> FALSE, cfg |-> before]
      [] file.kind = "absent" -> IF explicit THEN [ok |-> FALSE, cfg |-> before]
                                 ELSE [ok |-> TRUE, cfg |-> defaults]
      [] OTHER -> [ok |-> TRUE, cfg |-> file.cfg]
====
