---- MODULE AppChain ----
(***************************************************************************)
(* Focus, move and resize within the focused window: the chain of adapters *)
(* behind a terminal's window is resolved from what runs in it             *)
(* (engine/resolution/chain.rs), each layer is bound to the policy of its  *)
(* section (policy.rs), the layers are asked innermost first               *)
(* (actions/focus.rs, resize.rs, movement.rs) and the window manager gets  *)
(* what none of them takes (actions/orchestrator.rs).                      *)
(*                                                                         *)
(* The terminal shows one tab; every tab runs a program under a shell, or  *)
(* without one if the terminal was started with a command (`direct`, as    *)
(* the windows of a tear-out are).  The programs are told apart as far as  *)
(* the resolution does.  What runs inside tmux is a child of its server.   *)
(***************************************************************************)
EXTENDS AppConfig

CONSTANTS Tabs,         \* a set of numbers; a lower one is the older child
          Files,        \* what the configuration file may be: records with kind and cfg
          Defaults,     \* the configuration without a file
          Hosts,        \* terminals: records with name and aliases
          MaxRequests, MaxWorld, MaxBlind

Programs == {"idle", "other", "nvim", "tmux"}
Ops == {"focus", "move", "resize"}
NvimAliases == <<"nvim", "neovim">>

ASSUME ChainAssumption ==
    /\ Tabs \subseteq Nat \ {0} /\ IsFiniteSet(Tabs)
    /\ IsConfig(Defaults) /\ \A f \in Files : IsConfig(f.cfg)
    /\ \A h \in Hosts : h.aliases \in Seq(STRING)

VARIABLES
  host,       \* the terminal of the window
  file,       \* the configuration file and whether --config names it
  tabs,       \* [Tabs -> a record: prog, inner (of tmux), direct]
  front,      \* the tab shown
  cfg,        \* the configuration the request runs under
  req,        \* the request: pc, op, dir, hint, roots, search, chain, next
  acted,      \* history: what acted last, a layer with its effect or the window manager
  shown,      \* history: the tabs shown since the request began
  spent       \* counters: requests, world, blind

chainVars == <<host, file, tabs, front, cfg, req, acted, shown, spent>>

Idle == [pc |-> "idle", op |-> "focus", dir |-> CHOOSE d \in Directions : TRUE, hint |-> "",
         shells |-> {}, search |-> 0, tty |-> FALSE, chain |-> <<>>, next |-> 1]
Nothing == [kind |-> "nothing", tab |-> 0, what |-> "nothing"]
(* A tab that is not open. *)
Closed == [prog |-> "none", inner |-> "idle", direct |-> FALSE]

(* A tab's program; its inner program matters in tmux only. *)
Runs == {[prog |-> p, inner |-> "idle", direct |-> d] : p \in Programs \ {"tmux"}, d \in BOOLEAN}
        \cup {[prog |-> "tmux", inner |-> i, direct |-> d] : i \in Programs \ {"tmux"}, d \in BOOLEAN}

IsOpen(t) == tabs[t] # Closed
Open == {t \in Tabs : IsOpen(t)}
HasTmux(t) == IsOpen(t) /\ tabs[t].prog = "tmux"

----------------------------------------------------------------------------
(* The process tree (engine/runtime).                                      *)

(* child_pids of the terminal that are shells. *)
ShellTabs == {t \in Open : ~tabs[t].direct}

(* Mutant: any client, whatever the root. *)
TmuxAnywhere(root) == {t \in Tabs : HasTmux(t)}

(* find_descendants_by_comm, with tmux_candidate_pids: the clients of tmux *)
(* below a root, which is a shell or the terminal itself (0).              *)
TmuxBelow(root) == {t \in Tabs : HasTmux(t) /\ (root = 0 \/ (t = root /\ ~tabs[t].direct))}
NvimBelow(root) == {t \in Open : tabs[t].prog = "nvim" /\ t = root /\ ~tabs[t].direct}

(* active_foreground_process: wezterm and kitty know their focused pane;    *)
(* tmux, asked for a terminal, speaks for any client below it.             *)
Hint(backend) ==
    IF backend # "tmux" THEN {tabs[front].prog}
    ELSE IF TmuxBelow(0) = {} THEN {""} ELSE {tabs[t].inner : t \in TmuxBelow(0)}

(* shell_matches_foreground_tpgid, or a descendant of that name. *)
ShellsRunning(shells, comm) == {t \in shells : IsOpen(t) /\ ~tabs[t].direct /\ tabs[t].prog = comm}

(* Mutant: the first shell. *)
OfFirstShell(backend, shells, blind) == IF backend = "wezterm" /\ ~blind THEN FirstIn(shells) ELSE 0

(* shell_pid_for_host_focused_tty: only wezterm tells a pane's terminal. *)
ShellOfFocusedTty(backend, shells, blind) ==
    IF backend = "wezterm" /\ ~blind /\ front \in shells THEN front ELSE 0

----------------------------------------------------------------------------
(* The layers.                                                             *)
Layer(kind, tab) == [kind |-> kind, tab |-> tab]
HostLayer == Layer("host", 0)

(* push_nvim_for_pid: nothing if the editor's section is not enabled. *)
NvimLayers(tab) ==
    IF AppEnabled(cfg, "editor", NvimAliases) THEN <<Layer("nvim", tab)>> ELSE <<>>

HostBackend == MuxBackend(cfg, host.aliases)
NvimHostAllowed ==
    LET app == EditorTerminalApp(cfg, NvimAliases) IN app = "none" \/ app \in ToSet(host.aliases)
NvimBackend ==
    LET b == EditorBackend(cfg, NvimAliases) IN IF b = "none" THEN HostBackend ELSE b
AllowTmux == HostBackend = "tmux" \/ NvimBackend = "tmux"

(* A tmux client that was found, the nvim of its current pane before it. *)
TmuxLayers(client) ==
    (IF NvimHostAllowed /\ tabs[client].inner = "nvim" THEN NvimLayers(client) ELSE <<>>)
      \o <<Layer("tmux", client)>>

(* The layers of tmux below one root, one of the clients if there are any. *)
TmuxAt(root) ==
    IF TmuxBelow(root) = {} THEN {<<>>} ELSE {TmuxLayers(t) : t \in TmuxBelow(root)}

(* tmux_nvim_pid_for_roots: the first root whose first client shows nvim;   *)
(* 0 if there is none.  Each root speaks for one of its clients.  The shell *)
(* searched comes first, then the terminal (0), then the other shells.     *)
NvimInTmux(shells, search) ==
    LET roots == shells \cup {search, 0}
        before(q, r) == r # search /\ (q = search \/ q < r)
        showsNvim(r) == {t \in TmuxBelow(r) : tabs[t].inner = "nvim"}
        sure(r) == TmuxBelow(r) # {} /\ showsNvim(r) = TmuxBelow(r)
        maybe == {r \in roots : \A q \in roots : before(q, r) => ~sure(q)}
    IN  (UNION {showsNvim(r) : r \in maybe}) \cup (IF \E r \in roots : sure(r) THEN {} ELSE {0})

(* resolve_terminal_chain without a shell to search: any shell, then the    *)
(* terminal, whichever has a client of tmux first.                         *)
ChainsUnsearched(shells) ==
    LET root == FirstIn({shell \in shells : TmuxBelow(shell) # {}})
    IN  {layers \o <<HostLayer>> : layers \in IF AllowTmux THEN TmuxAt(root) ELSE {<<>>}}

(* The hint is nvim: one in tmux first if nvim lives there, wherever below  *)
(* the terminal it is, then one below the shell.                           *)
NvimChains(shells, search) ==
    LET inTmux == IF NvimBackend = "tmux" THEN NvimInTmux(shells, search) ELSE {0}
        plain == IF NvimBelow(search) = {} THEN {<<>>} ELSE {NvimLayers(t) : t \in NvimBelow(search)}
        found(t) == IF t # 0 /\ NvimLayers(t) # <<>> THEN {NvimLayers(t)} ELSE plain
    IN  IF NvimHostAllowed THEN UNION {found(t) : t \in inTmux} ELSE {<<>>}

(* resolve_terminal_chain once a shell is selected: the terminal is last. *)
ChainsBelow(shells, search, hint) ==
    LET layers == IF hint = "nvim" THEN NvimChains(shells, search)
                  ELSE IF AllowTmux THEN TmuxAt(search) ELSE {<<>>}
    IN  {l \o <<HostLayer>> : l \in layers}

----------------------------------------------------------------------------
(* The policy of a layer (engine/resolution/policy.rs).                    *)

(* PolicyBoundApp::new: a layer without aliases of its own has no policy;   *)
(* tmux as a layer has none.                                               *)
HasPolicy(layer) == layer.kind # "tmux"
PolicyOf(layer) ==
    IF layer.kind = "nvim" THEN PanePolicy(cfg, "editor", NvimAliases)
    ELSE PanePolicy(cfg, "terminal", host.aliases)

(* capabilities: what the adapter can is cut down to what the policy lets;   *)
(* a layer is skipped if nothing of the operation is left.                 *)
Capable(layer, op) == HasPolicy(layer) => PolicyCapable(PolicyOf(layer), op)

(* Mutant: what is enabled, in any direction. *)
AnyDirection(layer, op, dir) == Capable(layer, op)

(* can_focus, can_resize and move_decision of the bound adapter; the last   *)
(* takes back a tear-out the policy does not let.                          *)
MayAct(layer, op, dir) == HasPolicy(layer) => PolicyAllows(PolicyOf(layer), op, dir)
MayTear(layer) == HasPolicy(layer) => PolicyCapable(PolicyOf(layer), "tear")

Effects(layer, op, dir) ==
    IF ~(Capable(layer, op) /\ MayAct(layer, op, dir)) THEN {}
    ELSE IF op # "move" THEN {op}
    ELSE {"move"} \cup (IF MayTear(layer) THEN {"tear"} ELSE {})

----------------------------------------------------------------------------
ChainInit ==
    /\ host \in Hosts
    /\ file \in Files
    /\ tabs \in {w \in [Tabs -> Runs \cup {Closed}] : \E t \in Tabs : w[t] # Closed}
    /\ front \in {t \in Tabs : tabs[t] # Closed}
    /\ cfg = Defaults /\ req = Idle /\ acted = Nothing /\ shown = {front}
    /\ spent = [requests |-> 0, world |-> 0, blind |-> 0]

(* A call of the program reads the configuration; if that fails it ends     *)
(* (main.rs, config::prepare_with_path).  Then with_focused_app_session:    *)
(* a terminal nothing is enabled for has no chain.                         *)
Begin ==
    /\ req.pc = "idle" /\ spent.requests < MaxRequests
    /\ LET loaded == Prepared(file, file.explicit, Defaults, Defaults)
       IN  \E op \in Ops, dir \in Directions :
             /\ cfg' = loaded.cfg
             /\ req' = [Idle EXCEPT !.op = op, !.dir = dir,
                          !.pc = IF ~loaded.ok THEN "idle"
                                 ELSE IF TerminalChainEnabled(loaded.cfg, host.aliases) THEN "hint"
                                 ELSE "wm"]
    /\ shown' = {front} /\ acted' = Nothing
    /\ spent' = [spent EXCEPT !.requests = @ + 1]
    /\ UNCHANGED <<host, file, tabs, front>>

(* A read may fail, which is the same as reading nothing. *)
Blind(b) == /\ b => spent.blind < MaxBlind
            /\ spent' = IF b THEN [spent EXCEPT !.blind = @ + 1] ELSE spent

(* active_foreground_process. *)
ReadHint ==
    /\ req.pc = "hint"
    /\ \E b \in BOOLEAN :
         /\ Blind(b)
         /\ \E h \in (IF b THEN {""} ELSE Hint(HostBackend)) :
              req' = [req EXCEPT !.pc = "search", !.hint = h]
    /\ UNCHANGED <<host, file, tabs, front, cfg, acted, shown>>

(* The shells, and which of them to search: that of the focused terminal    *)
(* device, the only one, or the first that runs what the hint says.        *)
Select ==
    /\ req.pc = "search"
    /\ \E b \in BOOLEAN :
         /\ Blind(b)
         /\ LET shells == ShellTabs
                byTty == ShellOfFocusedTty(HostBackend, shells, b)
                search == IF byTty # 0 THEN byTty
                          ELSE IF Cardinality(shells) <= 1 THEN FirstIn(shells)
                          ELSE IF req.hint = "" THEN 0
                          ELSE FirstIn(ShellsRunning(shells, req.hint))
            IN  req' = [req EXCEPT !.pc = "resolve", !.shells = shells, !.search = search,
                                   !.tty = byTty # 0]
    /\ UNCHANGED <<host, file, tabs, front, cfg, acted, shown>>

(* The rest of resolve_terminal_chain. *)
Resolve ==
    /\ req.pc = "resolve"
    /\ \E c \in (IF req.search = 0 THEN ChainsUnsearched(req.shells)
                 ELSE ChainsBelow(req.shells, req.search, req.hint)) :
         req' = [req EXCEPT !.pc = "ask", !.chain = c]
    /\ UNCHANGED <<host, file, tabs, front, cfg, acted, shown, spent>>

(* attempt_focused_app_focus, _resize and _move: the next layer takes the    *)
(* request, leaves it to the next one, or fails, which ends it.            *)
LayerActs ==
    /\ req.pc = "ask"
    /\ \E what \in Effects(req.chain[req.next], req.op, req.dir) :
         acted' = [kind |-> req.chain[req.next].kind, tab |-> req.chain[req.next].tab, what |-> what]
    /\ req' = [req EXCEPT !.pc = "done"]
    /\ UNCHANGED <<host, file, tabs, front, cfg, shown, spent>>

LayerPasses ==
    /\ req.pc = "ask"
    /\ req' = IF req.next = Len(req.chain) THEN [req EXCEPT !.pc = "wm"]
              ELSE [req EXCEPT !.next = @ + 1]
    /\ UNCHANGED <<host, file, tabs, front, cfg, acted, shown, spent>>

LayerErrs ==
    /\ req.pc = "ask" /\ Effects(req.chain[req.next], req.op, req.dir) # {}
    /\ req' = [req EXCEPT !.pc = "done"]
    /\ UNCHANGED <<host, file, tabs, front, cfg, acted, shown, spent>>

(* execute_app_then_wm_fallback; of a move, the whole of MoveSession's rest. *)
WmActs ==
    /\ req.pc = "wm"
    /\ acted' = [kind |-> "wm", tab |-> 0, what |-> req.op]
    /\ req' = [req EXCEPT !.pc = "done"]
    /\ UNCHANGED <<host, file, tabs, front, cfg, shown, spent>>

Done ==
    /\ req.pc = "done"
    /\ req' = Idle
    /\ UNCHANGED <<host, file, tabs, front, cfg, acted, shown, spent>>

(* The user shows another tab while the request runs. *)
SwitchTab ==
    /\ req.pc # "idle" /\ spent.world < MaxWorld
    /\ front' \in Open \ {front}
    /\ shown' = shown \cup {front'}
    /\ spent' = [spent EXCEPT !.world = @ + 1]
    /\ UNCHANGED <<host, file, tabs, cfg, req, acted>>

ChainNext == Begin \/ ReadHint \/ Select \/ Resolve \/ LayerActs \/ LayerPasses \/ LayerErrs
             \/ WmActs \/ Done \/ SwitchTab

ChainSpec == ChainInit /\ [][ChainNext]_chainVars

----------------------------------------------------------------------------
(* Properties.                                                             *)

ChainTypeOK ==
    /\ front \in Open /\ front \in shown
    /\ req.pc \in {"idle", "hint", "search", "resolve", "ask", "wm", "done"}
    /\ req.pc = "ask" => req.next \in DOMAIN req.chain
    /\ req.search \in req.shells \cup {0}

(* What the chain of the tab shown ought to be: its editor, if the section  *)
(* of the editor is enabled and names this terminal or none; tmux, unless   *)
(* no section mentions it or the terminal speaks for it; the terminal.     *)
FocusedStack(spokenFor) ==
    LET run == tabs[front]
        editor == NvimHostAllowed /\ AppEnabled(cfg, "editor", NvimAliases)
                  /\ (run.prog = "nvim" \/ (run.prog = "tmux" /\ run.inner = "nvim" /\ AllowTmux))
    IN  (IF editor THEN <<Layer("nvim", front)>> ELSE <<>>)
          \o (IF run.prog = "tmux" /\ AllowTmux /\ ~spokenFor THEN <<Layer("tmux", front)>> ELSE <<>>)
          \o <<HostLayer>>

(* Where what the adapters read singles out the tab shown: no other tab is  *)
(* open, or wezterm told the device of a tab with a shell.  An nvim that is *)
(* not under a shell is never found; tmux asked by the terminal knows       *)
(* nothing of an nvim outside it; and a terminal whose backend is tmux finds *)
(* an editor whose section says otherwise outside tmux only.               *)
Sighted ==
    /\ spent.blind = 0 /\ shown = {front}
    /\ Open = {front} \/ req.tty
    /\ tabs[front].prog = "nvim" => ~tabs[front].direct /\ HostBackend # "tmux"
    /\ HostBackend = "tmux" => NvimBackend = "tmux"

(* An nvim outside tmux shares its terminal with a tmux that shows nvim. *)
RivalInTmux ==
    /\ NvimBackend = "tmux" /\ tabs[front].prog = "nvim"
    /\ \E t \in Tabs \ {front} : HasTmux(t) /\ tabs[t].inner = "nvim"

(* The chain is that of the tab the user looks at, wherever the reads allow *)
(* to tell (chain.rs:239-362); a terminal whose own backend is tmux may     *)
(* speak for it.                                                           *)
ChainIsFocusedStack ==
    req.pc = "ask" /\ Sighted /\ ~RivalInTmux =>
      req.chain \in {FocusedStack(FALSE)} \cup (IF HostBackend = "tmux" THEN {FocusedStack(TRUE)} ELSE {})

(* No layer of a tab acts that was not shown during the request, where the  *)
(* focused device was told: not even if the user switched in between.      *)
ActsWhereShown ==
    [][acted' # acted /\ acted'.tab # 0 /\ req.tty /\ ~(NvimBackend = "tmux" /\ req.hint = "nvim")
         => acted'.tab \in shown]_chainVars

(* What a section says of an operation, read off the file: the profile named *)
(* as the application itself decides; else one that has one of its names.  *)
Permits(p, what, dir) ==
    /\ p.enabled
    /\ IF what = "tear" THEN p.tear /\ p.move.enabled /\ dir \in p.move.dirs
       ELSE p[what].enabled /\ dir \in p[what].dirs
SectionPermits(section, aliases, what, dir) ==
    LET profiles == ToSet(cfg[section])
        named == {p \in profiles : p.name \in ToSet(aliases)}
        own == {p \in named : p.exact /\ p.name = Head(aliases)}
    IN  /\ \E p \in named : Permits(p, what, dir)
        /\ \A p \in own : Permits(p, what, dir)

(* A layer with a section of its own never does what the section forbids    *)
(* (policy.rs:34-190, config.rs:844-947).                                  *)
PolicyHonoured ==
    [][acted' # acted =>
         CASE acted'.kind = "nvim" -> SectionPermits("editor", NvimAliases, acted'.what, req.dir)
           [] acted'.kind = "host" -> SectionPermits("terminal", host.aliases, acted'.what, req.dir)
           [] OTHER -> TRUE]_chainVars

====
