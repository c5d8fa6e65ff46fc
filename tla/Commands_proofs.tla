---- MODULE Commands_proofs ----
(***************************************************************************)
(* What one request does within the focused window and between two: no     *)
(* layer does what its section forbids, nor acts on a tab that was not     *)
(* shown, and the layers are those of what runs in the tab shown, for any  *)
(* configuration, terminals and tabs; a transfer changes nothing across    *)
(* domains, and moves nothing but what the source window shows, for any    *)
(* number of windows and focus changes.                                    *)
(*                                                                         *)
(* And between requests, focus-or-cycle with --summon: the origins on disk *)
(* are right between calls, and a window that is taken back comes home,    *)
(* for any number of windows, workspaces, outputs, calls, acts of the user *)
(* and deaths.                                                             *)
(***************************************************************************)
EXTENDS AppChain, TransferRouting, NiriSummon, FiniteSetTheorems, WellFoundedInduction, TLAPS

-----------------------------------------------------------------------------
(* Least elements: what FirstIn and ProfileEntry find.                     *)

LEMMA LeastOne ==
  ASSUME NEW S \in SUBSET Nat, S # {}
  PROVE  Min(S) \in S /\ \A y \in S : Min(S) <= y
<1>. DEFINE R == OpToRel(<, Nat)
<1>1. IsWellFoundedOn(R, Nat)
  BY NatLessThanWellFounded
<1>2. \A x, y \in Nat : <<x, y>> \in R <=> x < y
  BY DEF OpToRel
<1>. HIDE DEF R
<1>3. PICK x \in S : \A y \in S : ~ (<<y, x>> \in R)
  BY <1>1, WFMin
<1>4. ASSUME NEW y \in S PROVE x <= y
  <2>1. y \in Nat /\ x \in Nat
    OBVIOUS
  <2>2. ~(y < x)
    BY <1>2, <1>3, <2>1, Zenon
  <2>. QED
    BY <2>1, <2>2
<1>. QED
  BY <1>4 DEF Min

LEMMA FirstFound ==
  ASSUME NEW S \in SUBSET (Nat \ {0})
  PROVE  /\ FirstIn(S) = 0 <=> S = {}
         /\ FirstIn(S) # 0 => FirstIn(S) \in S /\ \A y \in S : FirstIn(S) <= y
BY LeastOne DEF FirstIn

\* The profile found has one of the names; the one whose key is spelled like the
\* application itself comes before every other.
LEMMA EntryFound ==
  ASSUME NEW profiles, profiles \in Seq(ToSet(profiles)), DistinctKeys(profiles),
         NEW Names, NEW aliases \in Seq(Names),
         NEW i, i = ProfileEntry(profiles, aliases), i # 0
  PROVE  /\ i \in DOMAIN profiles /\ profiles[i].name \in ToSet(aliases)
         /\ \A p \in ToSet(profiles) :
              p.exact /\ p.name \in ToSet(aliases) /\ p.name = Head(aliases) => p = profiles[i]
<1>. DEFINE spelled(a) == {j \in DOMAIN profiles : profiles[j].exact /\ profiles[j].name = a}
            K == {k \in DOMAIN aliases : spelled(aliases[k]) # {}}
            loose == {j \in DOMAIN profiles : profiles[j].name \in ToSet(aliases)}
<1>1. i = IF FirstIn(K) # 0 THEN Min(spelled(aliases[FirstIn(K)])) ELSE FirstIn(loose)
  BY DEF ProfileEntry
<1>2. K \in SUBSET (Nat \ {0}) /\ loose \in SUBSET (Nat \ {0}) /\ \A a : spelled(a) \in SUBSET Nat
  OBVIOUS
<1>3. CASE FirstIn(K) # 0
  <2>1. FirstIn(K) \in K /\ \A k \in K : FirstIn(K) <= k
    BY <1>2, <1>3, FirstFound
  <2>2. i \in spelled(aliases[FirstIn(K)])
    <3>1. spelled(aliases[FirstIn(K)]) # {}
      BY <2>1
    <3>2. i = Min(spelled(aliases[FirstIn(K)]))
      BY <1>1, <1>3
    <3>3. spelled(aliases[FirstIn(K)]) \in SUBSET Nat
      BY <1>2
    <3>. HIDE DEF spelled
    <3>. QED
      BY <3>1, <3>2, <3>3, LeastOne
  <2>3. i \in DOMAIN profiles /\ profiles[i].exact /\ profiles[i].name = aliases[FirstIn(K)]
    BY <2>2
  <2>4. profiles[i].name \in ToSet(aliases)
    BY <2>1, <2>3 DEF ToSet
  <2>5. ASSUME NEW p \in ToSet(profiles), p.exact, p.name = Head(aliases), p.name \in ToSet(aliases)
        PROVE  p = profiles[i]
    <3>1. PICK j \in DOMAIN profiles : p = profiles[j]
      BY DEF ToSet
    <3>2. 1 \in DOMAIN aliases /\ Head(aliases) = aliases[1]
      BY <2>1
    <3>3. 1 \in K
      BY <2>5, <3>1, <3>2
    <3>4. FirstIn(K) = 1
      <4>1. FirstIn(K) \in Nat \ {0} /\ FirstIn(K) <= 1
        BY <1>2, <2>1, <3>3
      <4>. QED
        BY <4>1
    <3>. QED
      BY <2>3, <2>5, <3>1, <3>2, <3>4 DEF DistinctKeys
  <2>. QED
    BY <2>3, <2>4, <2>5
<1>4. CASE FirstIn(K) = 0
  <2>1. K = {}
    BY <1>2, <1>4, FirstFound
  <2>2. i \in loose
    <3>1. i = FirstIn(loose)
      BY <1>1, <1>4
    <3>. QED
      BY <1>2, <3>1, FirstFound
  <2>3. ASSUME NEW p \in ToSet(profiles), p.exact, p.name \in ToSet(aliases) PROVE FALSE
    <3>1. PICK j \in DOMAIN profiles : p = profiles[j]
      BY DEF ToSet
    <3>2. PICK k \in DOMAIN aliases : p.name = aliases[k]
      BY <2>3 DEF ToSet
    <3>3. k \in K
      BY <2>3, <3>1, <3>2
    <3>. QED
      BY <2>1, <3>3
  <2>. QED
    BY <2>2, <2>3
<1>. QED
  BY <1>3, <1>4

-----------------------------------------------------------------------------
(* A request.                                                              *)

IsRequest(r) ==
  /\ r = [pc |-> r.pc, op |-> r.op, dir |-> r.dir, hint |-> r.hint, shells |-> r.shells,
          search |-> r.search, tty |-> r.tty, chain |-> r.chain, next |-> r.next]
  /\ r.op \in Ops

\* Layers of one tab, and of the terminal.
InTab(layers, tab) == layers \in Seq({Layer(k, t) : k \in {"nvim", "tmux", "host"}, t \in {0, tab}})

\* Where tmux alone knows which nvim is meant, the chain may be another tab's.
ByTmux == NvimBackend = "tmux" /\ req.hint = "nvim"

\* What is searched is the tab the terminal's device told, which was shown, and the chain
\* is that tab's.
Searched ==
  /\ front \in shown
  /\ req.pc \in {"hint", "search", "resolve"} => req.next = 1
  /\ req.pc \in {"resolve", "ask"} /\ req.tty => req.search # 0 /\ req.search \in shown
  /\ req.pc = "ask" /\ req.tty /\ ~ByTmux => InTab(req.chain, req.search) /\ req.next \in 1..Len(req.chain)

ChainInv == IsRequest(req) /\ IsConfig(cfg) /\ host \in Hosts /\ file \in Files /\ Searched

\* The layers below a shell are that shell's tab's.
LEMMA LayersOfOneTab ==
  ASSUME NEW shells, NEW search, search # 0, NEW hint, ~(NvimBackend = "tmux" /\ hint = "nvim"),
         NEW c \in ChainsBelow(shells, search, hint)
  PROVE  InTab(c, search) /\ 1 \in 1..Len(c)
<1>. DEFINE L == {Layer(k, t) : k \in {"nvim", "tmux", "host"}, t \in {0, search}}
<1>1. HostLayer \in L /\ Layer("nvim", search) \in L /\ Layer("tmux", search) \in L
  BY DEF HostLayer
<1>. HIDE DEF L
<1>0. <<>> \in Seq(L)
  OBVIOUS
<1>2. NvimLayers(search) \in Seq(L)
  BY <1>1 DEF NvimLayers
<1>3. TmuxLayers(search) \in Seq(L)
  BY <1>1, <1>2 DEF TmuxLayers
<1>4. \A l \in TmuxAt(search) : l \in Seq(L)
  <2>1. TmuxBelow(search) \subseteq {search}
    BY DEF TmuxBelow
  <2>2. \A l \in TmuxAt(search) : l = <<>> \/ l = TmuxLayers(search)
    BY <2>1 DEF TmuxAt
  <2>. QED
    BY <1>0, <1>3, <2>2
<1>5. ASSUME hint = "nvim", NEW l \in NvimChains(shells, search) PROVE l \in Seq(L)
  <2>1. NvimBelow(search) \subseteq {search}
    BY DEF NvimBelow
  <2>. DEFINE plain == IF NvimBelow(search) = {} THEN {<<>>} ELSE {NvimLayers(t) : t \in NvimBelow(search)}
  <2>2. l \in plain \/ l = <<>>
    <3>1. NvimBackend # "tmux"
      BY <1>5
    <3>. QED
      BY <1>5, <3>1, Zenon DEF NvimChains
  <2>3. l = <<>> \/ l = NvimLayers(search)
    BY <2>1, <2>2
  <2>. QED
    BY <1>0, <1>2, <2>3
<1>6. PICK l : l \in Seq(L) /\ c = l \o <<HostLayer>>
  <2>1. CASE hint = "nvim"
    BY <1>5, <2>1 DEF ChainsBelow
  <2>2. CASE hint # "nvim"
    BY <1>0, <1>4, <2>2 DEF ChainsBelow
  <2>. QED
    BY <2>1, <2>2
<1>7. c \in Seq(L) /\ Len(c) \in Nat /\ Len(c) > 0
  BY <1>1, <1>6
<1>. QED
  BY <1>7 DEF InTab, L

LEMMA ChainInitEstablishes == ChainInit => ChainInv
<1>. SUFFICES ASSUME ChainInit PROVE ChainInv
  OBVIOUS
<1>1. IsRequest(req) /\ req.pc = "idle"
  BY DEF ChainInit, IsRequest, Idle, Ops
<1>2. IsConfig(cfg) /\ host \in Hosts /\ file \in Files /\ front \in shown
  BY ChainAssumption DEF ChainInit
<1>. QED
  BY <1>1, <1>2 DEF ChainInv, Searched

LEMMA ConfigurationsRead ==
  ASSUME NEW f \in Files, NEW loaded, loaded = Prepared(f, f.explicit, Defaults, Defaults)
  PROVE  IsConfig(loaded.cfg)
BY ChainAssumption DEF Prepared

LEMMA ChainInvariant == ASSUME ChainInv, [ChainNext]_chainVars PROVE ChainInv'
<1>. USE DEF ChainInv
<1>r. req = [pc |-> req.pc, op |-> req.op, dir |-> req.dir, hint |-> req.hint, shells |-> req.shells,
             search |-> req.search, tty |-> req.tty, chain |-> req.chain, next |-> req.next]
  BY DEF IsRequest
<1>1. CASE Begin
  <2>1. PICK op \in Ops, dir \in Directions :
          /\ cfg' = Prepared(file, file.explicit, Defaults, Defaults).cfg
          /\ \E p \in {"idle", "hint", "wm"} : req' = [Idle EXCEPT !.op = op, !.dir = dir, !.pc = p]
    BY <1>1, Zenon DEF Begin
  <2>2. IsConfig(cfg')
    BY <2>1, ConfigurationsRead
  <2>3. IsRequest(req') /\ req'.pc \in {"idle", "hint", "wm"} /\ req'.next = 1
    BY <2>1 DEF IsRequest, Idle
  <2>. QED
    BY <1>1, <2>2, <2>3 DEF Begin, Searched
<1>2. CASE ReadHint
  BY <1>2, <1>r DEF ReadHint, IsRequest, Searched
<1>3. CASE Select
  <2>0. PICK b \in BOOLEAN : \E search :
          LET byTty == ShellOfFocusedTty(HostBackend, ShellTabs, b)
          IN  /\ byTty # 0 => search = byTty
              /\ req' = [req EXCEPT !.pc = "resolve", !.shells = ShellTabs, !.search = search,
                                   !.tty = byTty # 0]
    BY <1>3 DEF Select
  <2>1. PICK search :
          LET byTty == ShellOfFocusedTty(HostBackend, ShellTabs, b)
          IN  /\ byTty # 0 => search = byTty
              /\ req' = [req EXCEPT !.pc = "resolve", !.shells = ShellTabs, !.search = search,
                                   !.tty = byTty # 0]
    BY <2>0
  <2>2. ShellOfFocusedTty(HostBackend, ShellTabs, b) \in {0, front}
    BY DEF ShellOfFocusedTty
  <2>. DEFINE byTty == ShellOfFocusedTty(HostBackend, ShellTabs, b)
  <2>3. (byTty # 0) \in BOOLEAN
    OBVIOUS
  <2>4. /\ byTty # 0 => search = byTty
        /\ req' = [req EXCEPT !.pc = "resolve", !.shells = ShellTabs, !.search = search, !.tty = byTty # 0]
    BY <2>1
  <2>5. byTty \in {0, front}
    BY <2>2
  <2>. HIDE DEF byTty
  <2>6. /\ IsRequest(req') /\ req'.pc = "resolve" /\ (req'.tty => byTty # 0)
        /\ req'.search = search /\ req'.next = req.next
    BY <1>r, <2>4 DEF IsRequest
  <2>7. req.pc = "search" /\ UNCHANGED <<host, file, front, cfg, shown>>
    BY <1>3 DEF Select
  <2>8. front \in shown /\ req.next = 1
    BY <2>7 DEF Searched
  <2>9. front' \in shown' /\ req'.next = 1
    BY <2>6, <2>7, <2>8
  <2>10. req'.tty => req'.search # 0 /\ req'.search \in shown'
    <3>1. SUFFICES ASSUME req'.tty PROVE req'.search # 0 /\ req'.search \in shown'
      OBVIOUS
    <3>2. byTty # 0 /\ req'.search = byTty /\ byTty = front
      BY <2>4, <2>5, <2>6, <3>1
    <3>3. shown' = shown
      BY <2>7
    <3>. QED
      BY <2>8, <3>2, <3>3
  <2>11. Searched'
    BY <2>6, <2>9, <2>10 DEF Searched
  <2>. QED
    BY <2>6, <2>7, <2>11
<1>4. CASE Resolve
  <2>1. PICK c \in (IF req.search = 0 THEN ChainsUnsearched(req.shells)
                    ELSE ChainsBelow(req.shells, req.search, req.hint)) :
          req' = [req EXCEPT !.pc = "ask", !.chain = c]
    BY <1>4 DEF Resolve
  <2>2. req.tty /\ ~ByTmux => InTab(c, req.search) /\ 1 \in 1..Len(c)
    BY <1>4, <2>1, LayersOfOneTab DEF Resolve, Searched, ByTmux
  <2>. QED
    BY <1>4, <1>r, <2>1, <2>2 DEF Resolve, IsRequest, Searched, ByTmux, NvimBackend, HostBackend
<1>5. CASE LayerActs
  BY <1>5, <1>r DEF LayerActs, IsRequest, Searched
<1>6. CASE LayerPasses
  BY <1>6, <1>r DEF LayerPasses, IsRequest, Searched, ByTmux, NvimBackend, HostBackend, InTab
<1>7. CASE LayerErrs
  BY <1>7, <1>r DEF LayerErrs, IsRequest, Searched
<1>8. CASE WmActs
  BY <1>8, <1>r DEF WmActs, IsRequest, Searched
<1>9. CASE Done
  BY <1>9 DEF Done, IsRequest, Idle, Searched, Ops
<1>10. CASE SwitchTab
  BY <1>10 DEF SwitchTab, IsRequest, Searched, ByTmux, NvimBackend, HostBackend
<1>11. CASE UNCHANGED chainVars
  BY <1>11 DEF chainVars, IsRequest, Searched, ByTmux, NvimBackend, HostBackend
<1>. QED
  BY <1>1, <1>2, <1>3, <1>4, <1>5, <1>6, <1>7, <1>8, <1>9, <1>10, <1>11 DEF ChainNext

LEMMA OthersActNowhere ==
  ASSUME Begin \/ WmActs
  PROVE  acted'.tab = 0 /\ acted'.kind \in {"nothing", "wm"}
<1>1. CASE Begin
  <2>1. acted' = Nothing
    BY <1>1, Zenon DEF Begin
  <2>. QED
    BY <2>1 DEF Nothing
<1>2. CASE WmActs
  <2>1. acted' = [kind |-> "wm", tab |-> 0, what |-> req.op]
    BY <1>2, Zenon DEF WmActs
  <2>. QED
    BY <2>1
<1>. QED
  BY <1>1, <1>2

\* What acts on a tab is of the tab that was shown, where the focused device was told.
THEOREM ActsOnTabShown == ChainSpec => ActsWhereShown
<1>1. ASSUME ChainInv, [ChainNext]_chainVars
      PROVE  [acted' # acted /\ acted'.tab # 0 /\ req.tty /\ ~(NvimBackend = "tmux" /\ req.hint = "nvim")
                => acted'.tab \in shown]_chainVars
  <2>. SUFFICES ASSUME acted' # acted, acted'.tab # 0, req.tty, ~ByTmux
                PROVE  acted'.tab \in shown
    BY DEF ByTmux
  <2>1. CASE LayerActs
    <3>1. req.pc = "ask" /\ acted'.tab = req.chain[req.next].tab
      BY <2>1 DEF LayerActs
    <3>2. InTab(req.chain, req.search) /\ req.next \in 1..Len(req.chain) /\ req.search \in shown
      BY <1>1, <3>1 DEF ChainInv, Searched
    <3>3. req.chain[req.next].tab \in {0, req.search}
      BY <3>2 DEF InTab, Layer
    <3>. QED
      BY <3>1, <3>2, <3>3
  <2>2. CASE ~LayerActs
    <3>1. CASE Begin \/ WmActs
      BY <3>1, OthersActNowhere
    <3>2. CASE ~(Begin \/ WmActs)
      BY <1>1, <2>2, <3>2, Zenon DEF ChainNext, ReadHint, Select, Resolve, LayerPasses, LayerErrs, Done,
                                     SwitchTab, chainVars
    <3>. QED
      BY <3>1, <3>2
  <2>. QED
    BY <2>1, <2>2
<1>. QED
  BY <1>1, ChainInitEstablishes, ChainInvariant, PTL DEF ChainSpec, ActsWhereShown

\* What a layer may do is what the profile of its section permits that is the application's.
LEMMA PermittedByProfile ==
  ASSUME IsConfig(cfg), NEW section \in {"terminal", "editor"}, NEW Names, NEW aliases \in Seq(Names),
         NEW op \in Ops, NEW what, NEW dir,
         PolicyCapable(PanePolicy(cfg, section, aliases), op),
         PolicyAllows(PanePolicy(cfg, section, aliases), op, dir),
         IF op = "move" THEN \/ what = "move"
                             \/ what = "tear" /\ PolicyCapable(PanePolicy(cfg, section, aliases), "tear")
                        ELSE what = op
  PROVE  SectionPermits(section, aliases, what, dir)
<1>. DEFINE i == ProfileEntry(cfg[section], aliases)
            p == cfg[section][i]
            policy == PanePolicy(cfg, section, aliases)
<1>1. i # 0 /\ p.enabled
  BY DEF PolicyCapable, PanePolicy, AppEnabled
<1>2. policy.focus = p.focus /\ policy.move = p.move /\ policy.resize = p.resize /\ policy.tear = p.tear
  BY <1>1 DEF PanePolicy
<1>3. cfg[section] \in Seq(ToSet(cfg[section])) /\ DistinctKeys(cfg[section])
  BY DEF IsConfig
<1>4. /\ i \in DOMAIN cfg[section] /\ p.name \in ToSet(aliases)
      /\ \A q \in ToSet(cfg[section]) :
           q.exact /\ q.name \in ToSet(aliases) /\ q.name = Head(aliases) => q = p
  BY <1>1, <1>3, EntryFound
<1>. HIDE DEF i, policy
<1>5. Permits(p, what, dir)
  <2>1. CASE op = "focus"
    BY <1>1, <1>2, <2>1 DEF Permits, PolicyAllows, Allowed, policy
  <2>2. CASE op = "resize"
    BY <1>1, <1>2, <2>2 DEF Permits, PolicyAllows, Allowed, policy
  <2>3. CASE op = "move"
    BY <1>1, <1>2, <2>3 DEF Permits, PolicyAllows, PolicyCapable, Allowed, policy
  <2>. QED
    BY <2>1, <2>2, <2>3 DEF Ops
<1>6. p \in ToSet(cfg[section])
  BY <1>4 DEF ToSet
<1>. QED
  BY <1>4, <1>5, <1>6 DEF SectionPermits

\* No layer does what the section of its application forbids.
THEOREM SectionsAreHonoured == ChainSpec => PolicyHonoured
<1>. DEFINE A == acted' # acted =>
       CASE acted'.kind = "nvim" -> SectionPermits("editor", NvimAliases, acted'.what, req.dir)
         [] acted'.kind = "host" -> SectionPermits("terminal", host.aliases, acted'.what, req.dir)
         [] OTHER -> TRUE
<1>1. ASSUME ChainInv, [ChainNext]_chainVars PROVE [A]_chainVars
  <2>. SUFFICES ASSUME acted' # acted
                PROVE  /\ acted'.kind = "nvim" => SectionPermits("editor", NvimAliases, acted'.what, req.dir)
                       /\ acted'.kind = "host" => SectionPermits("terminal", host.aliases, acted'.what, req.dir)
    OBVIOUS
  <2>1. CASE LayerActs
    <3>. DEFINE layer == req.chain[req.next]
    <3>1. PICK what \in Effects(layer, req.op, req.dir) : acted' = [kind |-> layer.kind, tab |-> layer.tab, what |-> what]
      BY <2>1 DEF LayerActs
    <3>2. Capable(layer, req.op) /\ MayAct(layer, req.op, req.dir)
      BY <3>1 DEF Effects
    <3>3. IF req.op = "move" THEN what = "move" \/ (what = "tear" /\ MayTear(layer)) ELSE what = req.op
      <4>1. CASE req.op # "move"
        BY <3>1, <3>2, <4>1 DEF Effects
      <4>2. CASE req.op = "move"
        BY <3>1, <3>2, <4>2 DEF Effects
      <4>. QED
        BY <4>1, <4>2
    <3>4. req.op \in Ops /\ IsConfig(cfg) /\ host.aliases \in Seq(STRING)
      BY <1>1, ChainAssumption DEF ChainInv, IsRequest
    <3>5. CASE layer.kind = "nvim"
      <4>1. NvimAliases \in Seq({"nvim", "neovim"})
        BY DEF NvimAliases
      <4>2. PolicyOf(layer) = PanePolicy(cfg, "editor", NvimAliases) /\ HasPolicy(layer)
        BY <3>5 DEF PolicyOf, HasPolicy
      <4>3. SectionPermits("editor", NvimAliases, what, req.dir)
        BY <3>2, <3>3, <3>4, <4>1, <4>2, PermittedByProfile DEF Capable, MayAct, MayTear
      <4>. QED
        BY <3>1, <3>5, <4>3
    <3>6. CASE layer.kind = "host"
      <4>2. PolicyOf(layer) = PanePolicy(cfg, "terminal", host.aliases) /\ HasPolicy(layer)
        BY <3>6 DEF PolicyOf, HasPolicy
      <4>3. SectionPermits("terminal", host.aliases, what, req.dir)
        BY <3>2, <3>3, <3>4, <4>2, PermittedByProfile DEF Capable, MayAct, MayTear
      <4>. QED
        BY <3>1, <3>6, <4>3
    <3>. QED
      BY <3>1, <3>5, <3>6
  <2>2. CASE ~LayerActs
    <3>1. CASE Begin \/ WmActs
      BY <3>1, OthersActNowhere
    <3>2. CASE ~(Begin \/ WmActs)
      BY <1>1, <2>2, <3>2, Zenon DEF ChainNext, ReadHint, Select, Resolve, LayerPasses, LayerErrs, Done,
                                     SwitchTab, chainVars
    <3>. QED
      BY <3>1, <3>2
  <2>. QED
    BY <2>1, <2>2
<1>. QED
  BY <1>1, ChainInitEstablishes, ChainInvariant, PTL DEF ChainSpec, PolicyHonoured

-----------------------------------------------------------------------------
(* The chain of the tab the user looks at.                                 *)

TabsTyped == tabs \in [Tabs -> Runs \cup {Closed}] /\ front \in Open

LEMMA FrontRuns ==
  ASSUME TabsTyped
  PROVE  /\ front \in Tabs /\ front \in Nat /\ front # 0
         /\ tabs[front].prog \in Programs /\ tabs[front].direct \in BOOLEAN
         /\ \A t \in Tabs : HasTmux(t) => t \in Open
<1>1. front \in Tabs /\ tabs[front] # Closed
  BY DEF TabsTyped, Open, IsOpen
<1>2. tabs[front] \in Runs
  BY <1>1 DEF TabsTyped
<1>3. tabs[front].prog \in Programs /\ tabs[front].direct \in BOOLEAN
  BY <1>2 DEF Runs, Programs
<1>. QED
  BY <1>1, <1>3, ChainAssumption DEF HasTmux, Open

\* The client of tmux in the tab shown, if it is the only one below.
LEMMA ClientBelow ==
  ASSUME TabsTyped
  PROVE  /\ ~tabs[front].direct => TmuxBelow(front) = {t \in {front} : tabs[t].prog = "tmux"}
         /\ Open = {front} => TmuxBelow(0) = {t \in {front} : tabs[t].prog = "tmux"}
         /\ ~tabs[front].direct => NvimBelow(front) = {t \in {front} : tabs[t].prog = "nvim"}
<1>1. IsOpen(front)
  BY DEF TabsTyped, Open
<1>2. Open = {front} => \A t \in Tabs : HasTmux(t) => t = front
  BY FrontRuns
<1>. QED
  BY <1>1, <1>2, FrontRuns DEF TmuxBelow, NvimBelow, HasTmux, TabsTyped

\* No client of tmux shows an nvim, or the first root's only one does.
LEMMA NoNvimInTmux ==
  ASSUME NEW shells, NEW search, \A t \in Tabs : HasTmux(t) => tabs[t].inner # "nvim"
  PROVE  NvimInTmux(shells, search) = {0}
<1>1. \A r : {t \in TmuxBelow(r) : tabs[t].inner = "nvim"} = {}
  BY DEF TmuxBelow
<1>. QED
  BY <1>1 DEF NvimInTmux

LEMMA NvimOfFirstRoot ==
  ASSUME NEW shells, NEW search, TmuxBelow(search) = {front}, tabs[front].inner = "nvim"
  PROVE  NvimInTmux(shells, search) = {front}
<1>. DEFINE showsNvim(r) == {t \in TmuxBelow(r) : tabs[t].inner = "nvim"}
            sure(r) == TmuxBelow(r) # {} /\ showsNvim(r) = TmuxBelow(r)
            roots == shells \cup {search, 0}
            before(q, r) == r # search /\ (q = search \/ q < r)
            maybe == {r \in roots : \A q \in roots : before(q, r) => ~sure(q)}
<1>1. showsNvim(search) = {front} /\ sure(search)
  OBVIOUS
<1>2. search \in roots /\ (\A r \in roots \ {search} : before(search, r)) /\ (\A q : ~before(q, search))
  OBVIOUS
<1>. HIDE DEF sure, before, roots
<1>3. maybe = {search}
  BY <1>1, <1>2
<1>4. UNION {showsNvim(r) : r \in maybe} = {front}
  BY <1>1, <1>3
<1>5. NvimInTmux(shells, search) = (UNION {showsNvim(r) : r \in maybe}) \cup (IF \E r \in roots : sure(r) THEN {} ELSE {0})
  BY DEF NvimInTmux, sure, before, roots
<1>. QED
  BY <1>1, <1>2, <1>4, <1>5

\* What tmux's layers and the editor's alone amount to.
LEMMA StackOfTmux ==
  ASSUME TabsTyped, tabs[front].prog = "tmux", AllowTmux
  PROVE  TmuxLayers(front) \o <<HostLayer>> = FocusedStack(FALSE)
BY DEF TmuxLayers, NvimLayers, FocusedStack

LEMMA StackOfEditor ==
  ASSUME TabsTyped, NEW alone \in BOOLEAN, tabs[front].prog # "tmux" \/ ~AllowTmux \/ alone,
         tabs[front].prog = "nvim" \/ (tabs[front].prog = "tmux" /\ tabs[front].inner = "nvim" /\ AllowTmux)
  PROVE  FocusedStack(alone) = (IF NvimHostAllowed THEN NvimLayers(front) ELSE <<>>) \o <<HostLayer>>
BY DEF NvimLayers, FocusedStack

LEMMA StackOfHost ==
  ASSUME tabs[front].prog \notin {"nvim", "tmux"} \/ (tabs[front].prog = "tmux" /\ ~AllowTmux)
  PROVE  FocusedStack(FALSE) = <<>> \o <<HostLayer>>
<1>1. FocusedStack(FALSE) = (<<>> \o <<>>) \o <<HostLayer>>
  BY Zenon DEF FocusedStack
<1>2. <<>> \o <<>> = <<>>
  OBVIOUS
<1>. QED
  BY <1>1, <1>2

\* What the reads have given, when none failed and the tab shown is still shown.
HintRead == req.hint \in Hint(HostBackend)
SearchRead ==
  /\ req.shells = ShellTabs
  /\ req.tty => req.search = front /\ front \in ShellTabs /\ HostBackend = "wezterm"
  /\ ~req.tty /\ Cardinality(ShellTabs) <= 1 => req.search = FirstIn(ShellTabs)

\* What is searched is the tab shown, or the terminal if no tab has a shell.
LEMMA SearchesFront ==
  ASSUME TabsTyped, SearchRead, Open = {front} \/ req.tty
  PROVE  /\ ~tabs[front].direct => req.search = front
         /\ req.search \in {front, 0}
         /\ req.search = 0 => tabs[front].direct /\ Open = {front} /\ ShellTabs = {} /\ ~req.tty
<1>1. CASE req.tty
  BY <1>1, FrontRuns DEF SearchRead
<1>2. CASE Open = {front} /\ ~req.tty
  <2>1. CASE tabs[front].direct
    <3>1. ShellTabs = {}
      BY <1>2, <2>1 DEF ShellTabs
    <3>2. req.search = 0
      BY <1>2, <3>1, FS_EmptySet DEF SearchRead, FirstIn
    <3>. QED
      BY <1>2, <2>1, <3>1, <3>2
  <2>2. CASE ~tabs[front].direct
    <3>1. ShellTabs = {front}
      BY <1>2, <2>2 DEF ShellTabs
    <3>2. req.search = FirstIn({front})
      BY <1>2, <3>1, FS_Singleton DEF SearchRead
    <3>3. {front} \in SUBSET (Nat \ {0})
      BY FrontRuns
    <3>4. FirstIn({front}) # 0 /\ FirstIn({front}) \in {front}
      BY <3>3, FirstFound
    <3>. QED
      BY <2>2, <3>2, <3>4, FrontRuns
  <2>. QED
    BY <2>1, <2>2, FrontRuns
<1>. QED
  BY <1>1, <1>2

Resolved == IF req.search = 0 THEN ChainsUnsearched(req.shells) ELSE ChainsBelow(req.shells, req.search, req.hint)
RightChains == {FocusedStack(FALSE)} \cup (IF HostBackend = "tmux" THEN {FocusedStack(TRUE)} ELSE {})

LEMMA ResolvedRight ==
  ASSUME TabsTyped, HintRead, SearchRead, Sighted, ~RivalInTmux, NEW c \in Resolved
  PROVE  c \in RightChains
<1>0. Open = {front} \/ req.tty
  BY DEF Sighted
<1>s. /\ ~tabs[front].direct => req.search = front
      /\ req.search \in {front, 0}
      /\ req.search = 0 => tabs[front].direct /\ Open = {front} /\ ShellTabs = {} /\ ~req.tty
  BY <1>0, SearchesFront
<1>f. front # 0 /\ tabs[front].prog \in Programs
  BY FrontRuns
<1>1. CASE req.search = 0
  <2>1. FirstIn({shell \in req.shells : TmuxBelow(shell) # {}}) = 0
    BY <1>s, <1>1 DEF SearchRead, FirstIn
  <2>2. PICK l : l \in (IF AllowTmux THEN TmuxAt(0) ELSE {<<>>}) /\ c = l \o <<HostLayer>>
    BY <1>1, <2>1, Zenon DEF Resolved, ChainsUnsearched
  <2>3. TmuxBelow(0) = {t \in {front} : tabs[t].prog = "tmux"}
    BY <1>s, <1>1, ClientBelow
  <2>4. CASE AllowTmux /\ tabs[front].prog = "tmux"
    <3>1. TmuxBelow(0) = {front}
      BY <2>3, <2>4
    <3>2. l = TmuxLayers(front)
      BY <2>2, <2>4, <3>1 DEF TmuxAt
    <3>. QED
      BY <2>2, <2>4, <3>2, StackOfTmux DEF RightChains
  <2>5. CASE ~(AllowTmux /\ tabs[front].prog = "tmux")
    <3>1. l = <<>>
      BY <2>2, <2>3, <2>5 DEF TmuxAt
    <3>2. tabs[front].prog # "nvim"
      BY <1>s, <1>1 DEF Sighted
    <3>. QED
      BY <2>2, <2>5, <3>1, <3>2, StackOfHost DEF RightChains
  <2>. QED
    BY <2>4, <2>5
<1>2. CASE req.search = front
  <2>0. ~tabs[front].direct
    <3>1. CASE req.tty
      BY <3>1 DEF SearchRead, ShellTabs
    <3>2. CASE ~req.tty
      <4>1. SUFFICES ASSUME tabs[front].direct PROVE FALSE
        OBVIOUS
      <4>2. ShellTabs = {}
        BY <1>0, <3>2, <4>1 DEF ShellTabs
      <4>3. req.search = 0
        BY <3>2, <4>2, FS_EmptySet DEF SearchRead, FirstIn
      <4>. QED
        BY <1>2, <1>f, <4>3
    <3>. QED
      BY <3>1, <3>2
  <2>1. PICK l : /\ l \in (IF req.hint = "nvim" THEN NvimChains(req.shells, front)
                           ELSE IF AllowTmux THEN TmuxAt(front) ELSE {<<>>})
                 /\ c = l \o <<HostLayer>>
    BY <1>2, <1>f, Zenon DEF Resolved, ChainsBelow
  <2>2. TmuxBelow(front) = {t \in {front} : tabs[t].prog = "tmux"}
    BY <2>0, ClientBelow
  <2>3. NvimBelow(front) = {t \in {front} : tabs[t].prog = "nvim"}
    BY <2>0, ClientBelow
  <2>h. /\ HostBackend # "tmux" => req.hint = tabs[front].prog
        /\ HostBackend = "tmux" => Open = {front} /\ req.hint = IF tabs[front].prog = "tmux" THEN tabs[front].inner ELSE ""
    <3>1. CASE HostBackend # "tmux"
      BY <3>1 DEF HintRead, Hint
    <3>2. CASE HostBackend = "tmux"
      <4>1. Open = {front}
        BY <1>0, <3>2 DEF SearchRead
      <4>2. TmuxBelow(0) = {t \in {front} : tabs[t].prog = "tmux"}
        BY <4>1, ClientBelow
      <4>3. CASE tabs[front].prog = "tmux"
        <5>1. TmuxBelow(0) = {front}
          BY <4>2, <4>3
        <5>. QED
          BY <3>2, <4>1, <4>3, <5>1 DEF HintRead, Hint
      <4>4. CASE tabs[front].prog # "tmux"
        <5>1. TmuxBelow(0) = {}
          BY <4>2, <4>4
        <5>. QED
          BY <3>2, <4>1, <4>4, <5>1 DEF HintRead, Hint
      <4>. QED
        BY <4>3, <4>4
    <3>. QED
      BY <3>1, <3>2
  <2>4. CASE req.hint = "nvim" /\ tabs[front].prog = "nvim"
    <3>1. ASSUME NvimBackend = "tmux" PROVE NvimInTmux(req.shells, front) = {0}
      <4>1. \A t \in Tabs : HasTmux(t) => t # front
        BY <2>4 DEF HasTmux
      <4>2. \A t \in Tabs : HasTmux(t) => tabs[t].inner # "nvim"
        BY <2>4, <3>1, <4>1 DEF RivalInTmux
      <4>. QED
        BY <4>2, NoNvimInTmux
    <3>2. NvimBelow(front) = {front}
      BY <2>3, <2>4
    <3>3. l = IF NvimHostAllowed THEN NvimLayers(front) ELSE <<>>
      BY <2>1, <2>4, <3>1, <3>2 DEF NvimChains
    <3>4. FocusedStack(FALSE) = (IF NvimHostAllowed THEN NvimLayers(front) ELSE <<>>) \o <<HostLayer>>
      BY <2>4, StackOfEditor
    <3>. QED
      BY <2>1, <3>3, <3>4 DEF RightChains
  <2>5. CASE req.hint = "nvim" /\ tabs[front].prog # "nvim"
    <3>1. HostBackend = "tmux" /\ tabs[front].prog = "tmux" /\ tabs[front].inner = "nvim" /\ AllowTmux
      BY <2>5, <2>h DEF AllowTmux
    <3>2. NvimBackend = "tmux"
      BY <3>1 DEF Sighted
    <3>3. NvimInTmux(req.shells, front) = {front}
      BY <2>2, <3>1, NvimOfFirstRoot
    <3>4. NvimBelow(front) = {}
      BY <2>3, <2>5
    <3>5. l = IF NvimHostAllowed THEN NvimLayers(front) ELSE <<>>
      BY <1>f, <2>1, <2>5, <3>2, <3>3, <3>4 DEF NvimChains
    <3>6. FocusedStack(TRUE) = (IF NvimHostAllowed THEN NvimLayers(front) ELSE <<>>) \o <<HostLayer>>
      BY <3>1, StackOfEditor
    <3>. QED
      BY <2>1, <3>1, <3>5, <3>6 DEF RightChains
  <2>6. CASE req.hint # "nvim" /\ AllowTmux /\ tabs[front].prog = "tmux"
    <3>1. TmuxBelow(front) = {front}
      BY <2>2, <2>6
    <3>2. l = TmuxLayers(front)
      BY <2>1, <2>6, <3>1 DEF TmuxAt
    <3>. QED
      BY <2>1, <2>6, <3>2, StackOfTmux DEF RightChains
  <2>7. CASE req.hint # "nvim" /\ ~(AllowTmux /\ tabs[front].prog = "tmux")
    <3>1. l = <<>>
      BY <2>1, <2>2, <2>7 DEF TmuxAt
    <3>2. tabs[front].prog # "nvim"
      BY <2>7, <2>h DEF Sighted
    <3>. QED
      BY <2>1, <2>7, <3>1, <3>2, StackOfHost DEF RightChains
  <2>. QED
    BY <2>4, <2>5, <2>6, <2>7
<1>. QED
  BY <1>s, <1>1, <1>2

-----------------------------------------------------------------------------
\* Nothing has been missed since the request began.
Unmissed == spent.blind = 0 /\ shown = {front}

StackInv ==
  /\ TabsTyped /\ front \in shown /\ IsRequest(req)
  /\ spent = [requests |-> spent.requests, world |-> spent.world, blind |-> spent.blind]
  /\ spent.blind \in Nat
  /\ Unmissed /\ req.pc \in {"search", "resolve"} => HintRead
  /\ Unmissed /\ req.pc = "resolve" => SearchRead
  /\ req.pc = "ask" /\ Sighted /\ ~RivalInTmux => req.chain \in RightChains

LEMMA StackInit == ChainInit => StackInv
<1>. SUFFICES ASSUME ChainInit PROVE StackInv
  OBVIOUS
<1>1. TabsTyped /\ front \in shown
  BY DEF ChainInit, TabsTyped, Open, IsOpen
<1>2. IsRequest(req) /\ req.pc = "idle"
  BY DEF ChainInit, IsRequest, Idle, Ops
<1>3. spent = [requests |-> 0, world |-> 0, blind |-> 0]
  BY DEF ChainInit
<1>. QED
  BY <1>1, <1>2, <1>3 DEF StackInv

\* What the reads gave stays true as long as only the request goes on.
LEMMA TabsStay ==
  ASSUME TabsTyped, UNCHANGED <<tabs, front>>
  PROVE  TabsTyped'
BY DEF TabsTyped, Open, IsOpen

LEMMA BlindCounts ==
  ASSUME NEW b \in BOOLEAN, Blind(b), StackInv
  PROVE  /\ spent' = [requests |-> spent'.requests, world |-> spent'.world, blind |-> spent'.blind]
         /\ spent'.blind \in Nat
         /\ spent'.blind = 0 => spent.blind = 0 /\ ~b
BY DEF Blind, StackInv

LEMMA StackNext == ASSUME StackInv, [ChainNext]_chainVars PROVE StackInv'
<1>r. req = [pc |-> req.pc, op |-> req.op, dir |-> req.dir, hint |-> req.hint, shells |-> req.shells,
             search |-> req.search, tty |-> req.tty, chain |-> req.chain, next |-> req.next]
  BY DEF StackInv, IsRequest
<1>s. spent = [requests |-> spent.requests, world |-> spent.world, blind |-> spent.blind] /\ spent.blind \in Nat
  BY DEF StackInv
<1>1. CASE Begin
  <2>1. PICK op \in Ops, dir \in Directions, p \in {"idle", "hint", "wm"} :
          req' = [Idle EXCEPT !.op = op, !.dir = dir, !.pc = p]
    BY <1>1, Zenon DEF Begin
  <2>2. IsRequest(req') /\ req'.pc \in {"idle", "hint", "wm"}
    BY <2>1 DEF IsRequest, Idle
  <2>3. UNCHANGED <<tabs, front>> /\ front' \in shown' /\ spent' = [spent EXCEPT !.requests = @ + 1]
    BY <1>1 DEF Begin
  <2>4. TabsTyped'
    BY <2>3, TabsStay DEF StackInv
  <2>. QED
    BY <1>s, <2>2, <2>3, <2>4 DEF StackInv
<1>2. CASE ReadHint
  <2>1. PICK b \in BOOLEAN : /\ Blind(b)
                            /\ \E h \in (IF b THEN {""} ELSE Hint(HostBackend)) :
                                 req' = [req EXCEPT !.pc = "search", !.hint = h]
    BY <1>2 DEF ReadHint
  <2>2. PICK h \in (IF b THEN {""} ELSE Hint(HostBackend)) : req' = [req EXCEPT !.pc = "search", !.hint = h]
    BY <2>1
  <2>3. UNCHANGED <<host, file, tabs, front, cfg, acted, shown>>
    BY <1>2 DEF ReadHint
  <2>4. TabsTyped' /\ front' \in shown'
    BY <2>3, TabsStay DEF StackInv
  <2>5. IsRequest(req') /\ req'.pc = "search" /\ req'.hint = h
    BY <1>r, <2>2 DEF IsRequest, StackInv
  <2>6. Hint(HostBackend)' = Hint(HostBackend)
    BY <2>3 DEF Hint, HostBackend, TmuxBelow, HasTmux, IsOpen
  <2>7. Unmissed' => HintRead'
    BY <2>1, <2>2, <2>5, <2>6, BlindCounts DEF Unmissed, HintRead
  <2>. QED
    BY <2>1, <2>4, <2>5, <2>7, BlindCounts DEF StackInv
<1>3. CASE Select
  <2>1. PICK b \in BOOLEAN :
          /\ Blind(b)
          /\ \E search : LET byTty == ShellOfFocusedTty(HostBackend, ShellTabs, b)
                         IN  /\ byTty # 0 => search = byTty
                             /\ byTty = 0 /\ Cardinality(ShellTabs) <= 1 => search = FirstIn(ShellTabs)
                             /\ req' = [req EXCEPT !.pc = "resolve", !.shells = ShellTabs, !.search = search,
                                                  !.tty = byTty # 0]
    BY <1>3 DEF Select
  <2>. DEFINE byTty == ShellOfFocusedTty(HostBackend, ShellTabs, b)
  <2>2. PICK search : /\ byTty # 0 => search = byTty
                      /\ byTty = 0 /\ Cardinality(ShellTabs) <= 1 => search = FirstIn(ShellTabs)
                      /\ req' = [req EXCEPT !.pc = "resolve", !.shells = ShellTabs, !.search = search,
                                           !.tty = byTty # 0]
    BY <2>1
  <2>3. UNCHANGED <<host, file, tabs, front, cfg, acted, shown>> /\ req.pc = "search"
    BY <1>3 DEF Select
  <2>4. TabsTyped' /\ front' \in shown'
    BY <2>3, TabsStay DEF StackInv
  <2>5. byTty # 0 => byTty = front /\ front \in ShellTabs /\ HostBackend = "wezterm"
    BY DEF ShellOfFocusedTty
  <2>. HIDE DEF byTty
  <2>6. /\ IsRequest(req') /\ req'.pc = "resolve" /\ req'.hint = req.hint
        /\ req'.shells = ShellTabs /\ req'.search = search /\ (req'.tty <=> byTty # 0)
    BY <1>r, <2>2 DEF IsRequest, StackInv
  <2>7. /\ ShellTabs' = ShellTabs /\ HostBackend' = HostBackend
        /\ Hint(HostBackend)' = Hint(HostBackend)
    BY <2>3 DEF Hint, HostBackend, TmuxBelow, HasTmux, IsOpen, ShellTabs, Open
  <2>8. SearchRead'
    BY <2>2, <2>3, <2>5, <2>6, <2>7 DEF SearchRead
  <2>9. Unmissed' => HintRead'
    BY <2>1, <2>3, <2>6, <2>7, BlindCounts DEF Unmissed, HintRead, StackInv
  <2>. QED
    BY <2>1, <2>4, <2>6, <2>8, <2>9, BlindCounts DEF StackInv
<1>4. CASE Resolve
  <2>1. PICK c \in Resolved : req' = [req EXCEPT !.pc = "ask", !.chain = c]
    BY <1>4 DEF Resolve, Resolved
  <2>2. UNCHANGED <<host, file, tabs, front, cfg, acted, shown, spent>> /\ req.pc = "resolve"
    BY <1>4 DEF Resolve
  <2>3. TabsTyped' /\ front' \in shown'
    BY <2>2, TabsStay DEF StackInv
  <2>4. IsRequest(req') /\ req'.pc = "ask" /\ req'.chain = c /\ req'.tty = req.tty
    BY <1>r, <2>1 DEF IsRequest, StackInv
  <2>5. (Sighted' <=> Sighted) /\ (RivalInTmux' <=> RivalInTmux) /\ RightChains' = RightChains
    <3>1. HostBackend' = HostBackend /\ NvimBackend' = NvimBackend /\ Open' = Open
      BY <2>2 DEF HostBackend, NvimBackend, Open, IsOpen
    <3>2. Sighted' <=> Sighted
      BY <2>2, <2>4, <3>1 DEF Sighted
    <3>3. RivalInTmux' <=> RivalInTmux
      BY <2>2, <3>1 DEF RivalInTmux, HasTmux, IsOpen
    <3>4. \A b \in BOOLEAN : FocusedStack(b)' = FocusedStack(b)
      BY <2>2, <3>1 DEF FocusedStack, NvimHostAllowed, AllowTmux
    <3>. QED
      BY <3>1, <3>2, <3>3, <3>4 DEF RightChains
  <2>6. Sighted /\ ~RivalInTmux => c \in RightChains
    <3>1. Sighted => Unmissed
      BY DEF Sighted, Unmissed
    <3>. QED
      BY <2>2, <3>1, ResolvedRight DEF StackInv
  <2>. QED
    BY <1>s, <2>2, <2>3, <2>4, <2>5, <2>6 DEF StackInv
<1>5. CASE LayerPasses \/ LayerActs \/ LayerErrs \/ WmActs \/ Done
  <2>1. UNCHANGED <<host, file, tabs, front, cfg, shown, spent>>
    BY <1>5 DEF LayerPasses, LayerActs, LayerErrs, WmActs, Done
  <2>2. TabsTyped' /\ front' \in shown'
    BY <2>1, TabsStay DEF StackInv
  <2>3. /\ IsRequest(req') /\ req'.pc \in {"ask", "wm", "done", "idle"}
        /\ req'.pc = "ask" => req.pc = "ask" /\ req'.chain = req.chain /\ req'.tty = req.tty
    <3>1. CASE Done
      BY <3>1 DEF Done, IsRequest, Idle, Ops
    <3>2. CASE LayerPasses
      BY <3>2, <1>r DEF LayerPasses, IsRequest, StackInv
    <3>3. CASE LayerActs \/ LayerErrs \/ WmActs
      BY <3>3, <1>r DEF LayerActs, LayerErrs, WmActs, IsRequest, StackInv
    <3>. QED
      BY <1>5, <3>1, <3>2, <3>3
  <2>4. req'.pc = "ask" => (Sighted' <=> Sighted) /\ (RivalInTmux' <=> RivalInTmux) /\ RightChains' = RightChains
    <3>1. HostBackend' = HostBackend /\ NvimBackend' = NvimBackend /\ Open' = Open
      BY <2>1 DEF HostBackend, NvimBackend, Open, IsOpen
    <3>2. req'.pc = "ask" => (Sighted' <=> Sighted)
      BY <2>1, <2>3, <3>1 DEF Sighted
    <3>3. RivalInTmux' <=> RivalInTmux
      BY <2>1, <3>1 DEF RivalInTmux, HasTmux, IsOpen
    <3>4. \A b \in BOOLEAN : FocusedStack(b)' = FocusedStack(b)
      BY <2>1, <3>1 DEF FocusedStack, NvimHostAllowed, AllowTmux
    <3>. QED
      BY <3>1, <3>2, <3>3, <3>4 DEF RightChains
  <2>. QED
    BY <1>s, <2>1, <2>2, <2>3, <2>4 DEF StackInv
<1>6. CASE SwitchTab
  <2>1. /\ front' \in Open \ {front} /\ shown' = shown \cup {front'} /\ UNCHANGED <<tabs, req>>
        /\ spent' = [spent EXCEPT !.world = @ + 1]
    BY <1>6 DEF SwitchTab
  <2>2. TabsTyped' /\ front' \in shown'
    BY <2>1 DEF StackInv, TabsTyped, Open, IsOpen
  <2>3. shown' # {front'}
    BY <2>1 DEF StackInv
  <2>4. ~Sighted' /\ ~Unmissed'
    BY <2>3 DEF Sighted, Unmissed
  <2>5. IsRequest(req')
    BY <2>1 DEF StackInv, IsRequest
  <2>. QED
    BY <1>s, <2>1, <2>2, <2>4, <2>5 DEF StackInv
<1>7. CASE UNCHANGED chainVars
  BY <1>7 DEF chainVars, StackInv, TabsTyped, Open, IsOpen, IsRequest, Unmissed, HintRead, SearchRead, Sighted,
    RivalInTmux, HasTmux, RightChains, FocusedStack, NvimHostAllowed, AllowTmux, NvimBackend, HostBackend, Hint,
    TmuxBelow, ShellTabs
<1>. QED
  BY <1>1, <1>2, <1>3, <1>4, <1>5, <1>6, <1>7 DEF ChainNext

\* Wherever the reads single out the tab shown, the layers asked are those of what runs in it.
THEOREM ResolvesFocusedStack == ChainSpec => []ChainIsFocusedStack
<1>1. StackInv => ChainIsFocusedStack
  BY DEF StackInv, ChainIsFocusedStack, RightChains
<1>. QED
  BY StackInit, StackNext, <1>1, PTL DEF ChainSpec

-----------------------------------------------------------------------------
(* The transfer between two windows.                                       *)

AdapterKinds == {"nvim", "host", "emacs", "vscode", "browser", "unsupported"}
PayloadKinds == AdapterKinds \union {"none"}
Places == Windows \union {0}
MovePc == {"start", "route", "tear", "merge", "wm", "end"}
Payloads == [type : {"none", "AppMerge"}, kind : PayloadKinds, content : Places, from : Places]
Moves == [pc : MovePc, east : BOOLEAN, source : Places, target : Places, payload : Payloads,
          outcome : {"none", "applied", "wm"}]
Adapters == [kind : AdapterKinds, inst : Places]

RType == /\ kinds \in [Windows -> Kinds] /\ focusedWin \in Windows /\ place \in [Windows -> Places]
         /\ table \in [Domains -> Adapters] /\ move \in Moves /\ focusChanges \in Nat
         /\ move.pc \in {"tear", "merge"} => move.source \in Windows /\ move.target \in Windows

LEMMA ChainTyped ==
  ASSUME NEW w \in Windows, kinds \in [Windows -> Kinds]
  PROVE  /\ DOMAIN ChainOf(w) \subseteq {1, 2}
         /\ \A i \in DOMAIN ChainOf(w) : ChainOf(w)[i] \in Adapters /\ ChainOf(w)[i].inst \in {0, w}
         /\ \A i \in DOMAIN ChainOf(w) :
              /\ ChainOf(w)[i].kind = "nvim" => ChainOf(w)[i] = Adapter("nvim", w)
              /\ ChainOf(w)[i].kind = "vscode" => kinds[w] = "vscode"
         /\ ChainOf(w) # <<>> => 1 \in DOMAIN ChainOf(w) /\ Head(ChainOf(w)) = ChainOf(w)[1]
<1> USE DEF ChainOf, Adapter, Adapters, AdapterKinds, Places
<1>1. CASE kinds[w] = "nvim" BY <1>1
<1>2. CASE kinds[w] = "shell" BY <1>2
<1>3. CASE kinds[w] = "emacs" BY <1>3
<1>4. CASE kinds[w] \in {"vscode", "browser"} BY <1>4
<1>5. CASE kinds[w] \notin {"nvim", "shell", "emacs", "vscode", "browser"} BY <1>5
<1> QED BY <1>1, <1>2, <1>3, <1>4, <1>5

\* An adapter is registered under the domain of its kind, those of nvim and VS Code for the
\* window that had the focus.
Seeded == \A d \in Domains : /\ DomainOfKind(table[d].kind) = d
                             /\ table[d].kind = "nvim" => table[d].inst \in Windows
OfFocus(tab) == \A d \in Domains : /\ tab[d].kind = "nvim" => tab[d] = Adapter("nvim", focusedWin)
                                   /\ tab[d].kind = "vscode" => kinds[focusedWin] = "vscode"

LEMMA TableTyped ==
  ASSUME focusedWin \in Windows, kinds \in [Windows -> Kinds]
  PROVE  /\ Table \in [Domains -> Adapters] /\ OfFocus(Table)
         /\ \A d \in Domains : DomainOfKind(Table[d].kind) = d
<1> DEFINE layers == ChainOf(focusedWin)
           default == [d \in Domains |-> CASE d = "wm" -> Adapter("unsupported", 0)
                                           [] d = "terminal" -> Adapter("host", 0)
                                           [] d = "editor" -> Adapter("emacs", 0)]
           ofDomain(d) == {i \in DOMAIN layers : DomainOfKind(layers[i].kind) = d}
           first(d) == CHOOSE i \in ofDomain(d) : \A j \in ofDomain(d) : i <= j
<1>1. Table = [d \in Domains |-> IF ofDomain(d) = {} THEN default[d] ELSE layers[first(d)]]
  BY DEF Table
<1>2. /\ DOMAIN layers \subseteq {1, 2}
      /\ \A i \in DOMAIN layers : layers[i] \in Adapters
      /\ \A i \in DOMAIN layers :
           /\ layers[i].kind = "nvim" => layers[i] = Adapter("nvim", focusedWin)
           /\ layers[i].kind = "vscode" => kinds[focusedWin] = "vscode"
  BY ChainTyped
<1>3. ASSUME NEW d \in Domains
      PROVE  /\ default[d] \in Adapters /\ DomainOfKind(default[d].kind) = d
             /\ default[d].kind \notin {"nvim", "vscode"}
  BY DEF Domains, Adapter, Adapters, AdapterKinds, Places, DomainOfKind
<1> HIDE DEF layers, default
<1>4. ASSUME NEW d \in Domains, ofDomain(d) # {} PROVE first(d) \in ofDomain(d)
  <2>1. \A i \in ofDomain(d) : i \in {1, 2} BY <1>2
  <2>2. \E i \in ofDomain(d) : \A j \in ofDomain(d) : i <= j
    <3>1. CASE 1 \in ofDomain(d) BY <2>1, <3>1
    <3>2. CASE 1 \notin ofDomain(d) BY <1>4, <2>1, <3>2
    <3> QED BY <3>1, <3>2
  <2> QED BY <2>2
<1> HIDE DEF first
<1>5. ASSUME NEW d \in Domains
      PROVE  /\ Table[d] \in Adapters /\ DomainOfKind(Table[d].kind) = d
             /\ Table[d].kind = "nvim" => Table[d] = Adapter("nvim", focusedWin)
             /\ Table[d].kind = "vscode" => kinds[focusedWin] = "vscode"
  <2>1. CASE ofDomain(d) = {} BY <1>1, <1>3, <2>1
  <2>2. CASE ofDomain(d) # {} BY <1>1, <1>2, <1>4, <2>2
  <2> QED BY <2>1, <2>2
<1>6. Table \in [Domains -> Adapters] BY <1>1, <1>5
<1> QED BY <1>5, <1>6 DEF OfFocus

LEMMA DomainOfTyped == ASSUME NEW w \in Windows, kinds \in [Windows -> Kinds]
                       PROVE  DomainOf(w) \in Domains
BY DEF DomainOf, DomainOfKind, Domains

\* A payload is handed on as it was captured, whatever its type becomes.
LEMMA HandedOnTyped ==
  ASSUME NEW p \in Payloads, p.kind # "none", NEW m \in HandedOn(p), move \in Moves
  PROVE  /\ m \in Moves /\ m.source = move.source /\ m.target = move.target /\ m.east = move.east
         /\ m.pc \in {"wm", "merge"}
         /\ m.payload.kind = p.kind /\ m.payload.content = p.content /\ m.payload.from = p.from
<1> DEFINE taken == ConvertPayloadForTarget(Converters, p, SupportedTypes(TargetAdapter))
<1>1. \A to \in PickTargetType(Converters, p.type, SupportedTypes(TargetAdapter)) : to = "AppMerge"
  BY DEF PickTargetType, SupportedTypes
<1>2. \A q \in taken : q = [p EXCEPT !.type = "AppMerge"] BY <1>1 DEF ConvertPayloadForTarget, Convert
<1>3. \A q \in taken : q \in Payloads /\ q.kind = p.kind /\ q.content = p.content /\ q.from = p.from
  BY <1>2 DEF Payloads
<1> HIDE DEF taken
<1>4. m = [move EXCEPT !.payload = p, !.pc = "wm"] \/ \E q \in taken : m = [move EXCEPT !.payload = q, !.pc = "merge"]
  BY DEF HandedOn, taken
<1> QED BY <1>3, <1>4 DEF Moves, MovePc

-----------------------------------------------------------------------------
(* The invariant.  Nothing moves before the merge; an adapter captured      *)
(* something of its own kind and, while the focus stays where it was, what *)
(* the source window shows.                                                *)

FromSource(p) ==
  /\ p.kind = SourceAdapter.kind /\ p.kind # "unsupported"
  /\ p.kind = "host" => p.content = move.source /\ IsTerminal(move.source)
  /\ p.kind = "nvim" => p.content = SourceAdapter.inst /\ p.from = SourceAdapter.inst
  /\ p.kind \in {"emacs", "browser"} => p.content \in Windows /\ kinds[p.content] = p.kind
  /\ p.kind = "emacs" /\ focusChanges = 0 => p.content = move.source
RInv == /\ RType
        /\ move.pc # "start" => Seeded
        /\ move.pc # "start" /\ focusChanges = 0 => OfFocus(table)
        /\ move.pc \in {"start", "route", "tear", "merge"} => place = [c \in Windows |-> c]
        /\ move.pc \in {"tear", "merge"} /\ focusChanges = 0 => move.source = focusedWin
        /\ move.pc = "merge" => FromSource(move.payload)

LEMMA RInit == RoutingInit => RInv
BY DEF RoutingInit, RInv, RType, NoMove, Moves, MovePc, Payloads, PayloadKinds, AdapterKinds, Places, Adapters, Adapter, Domains

LEMMA CapturedTyped ==
  ASSUME RInv, move.pc = "tear", NEW p \in Captured(SourceAdapter, move.source)
  PROVE  p \in Payloads /\ p.kind # "none" /\ FromSource(p)
<1>1. SourceAdapter \in Adapters /\ move.source \in Windows /\ focusedWin \in Windows
  BY DomainOfTyped DEF RInv, RType, SourceAdapter
<1> USE DEF Payload, Payloads, PayloadKinds, AdapterKinds, Places, Adapters, FromSource
<1>2. CASE SourceAdapter.kind = "host" BY <1>1, <1>2 DEF Captured
<1>3. CASE SourceAdapter.kind = "nvim" BY <1>1, <1>3 DEF Captured
<1>4. CASE SourceAdapter.kind = "emacs" BY <1>1, <1>4 DEF Captured, Frames, RInv
<1>5. CASE SourceAdapter.kind = "browser" BY <1>1, <1>5 DEF Captured
<1>6. CASE SourceAdapter.kind = "vscode" BY <1>1, <1>6 DEF Captured, Active
<1>7. CASE SourceAdapter.kind \notin {"host", "nvim", "emacs", "browser", "vscode"} BY <1>7 DEF Captured
<1> QED BY <1>2, <1>3, <1>4, <1>5, <1>6, <1>7

LEMMA SeedRight == ASSUME RInv, Seed PROVE RInv'
<1>1. /\ table' = Table /\ UNCHANGED <<kinds, focusedWin, place, focusChanges>>
      /\ \E e \in BOOLEAN : move' = [NoMove EXCEPT !.pc = "route", !.east = e]
  BY DEF Seed
<1>2. move' \in Moves /\ move'.pc = "route"
  <2>1. NoMove \in Moves BY DEF NoMove, Moves, MovePc, Payloads, PayloadKinds, AdapterKinds, Places
  <2>2. PICK e \in BOOLEAN : move' = [NoMove EXCEPT !.pc = "route", !.east = e] BY <1>1
  <2> QED BY <2>1, <2>2 DEF Moves, MovePc
<1>3. table' \in [Domains -> Adapters] /\ Seeded' /\ OfFocus(table)'
  BY <1>1, TableTyped DEF RInv, RType, Seeded, OfFocus, Adapter
<1>4. place' = [c \in Windows |-> c] BY <1>1 DEF RInv, Seed
<1> QED BY <1>1, <1>2, <1>3, <1>4 DEF RInv, RType, Places, Adapters

\* A step that changes only the move, and does not end in the merge.
LEMMA OnlyMove ==
  ASSUME RInv, move.pc # "start", UNCHANGED <<kinds, focusedWin, table, focusChanges>>,
         move' \in Moves, move'.pc \in {"tear", "wm", "end"}, place' \in [Windows -> Places],
         move'.pc = "tear" => /\ move'.source = focusedWin /\ move'.source \in Windows /\ move'.target \in Windows
                              /\ place' = [c \in Windows |-> c]
  PROVE  RInv'
BY DEF RInv, RType, Seeded, OfFocus, Places

LEMMA RouteRight == ASSUME RInv, Route PROVE RInv'
<1>1. move.pc = "route" /\ UNCHANGED <<kinds, focusedWin, table, focusChanges, place>> /\ move \in Moves
  BY DEF Route, RInv, RType
<1>2. PICK n : move' = IF n \in Windows /\ OpenWindow(n)
                       THEN [move EXCEPT !.source = focusedWin, !.target = n, !.pc = "tear"]
                       ELSE [move EXCEPT !.source = focusedWin, !.pc = "wm"]
  BY DEF Route
<1>3. focusedWin \in Windows /\ place \in [Windows -> Places] /\ place = [c \in Windows |-> c]
  BY <1>1 DEF RInv, RType
<1>4. CASE n \in Windows /\ OpenWindow(n)
  <2>1. move' \in Moves /\ move'.pc = "tear" /\ move'.source = focusedWin /\ move'.target = n
    BY <1>1, <1>2, <1>3, <1>4 DEF Moves, MovePc, Places
  <2> QED BY <1>1, <1>3, <1>4, <2>1, OnlyMove
<1>5. CASE ~(n \in Windows /\ OpenWindow(n))
  <2>1. move' \in Moves /\ move'.pc = "wm" BY <1>1, <1>2, <1>3, <1>5 DEF Moves, MovePc, Places
  <2> QED BY <1>1, <1>3, <2>1, OnlyMove
<1> QED BY <1>4, <1>5

LEMMA TearRight == ASSUME RInv, TearOff PROVE RInv'
<1>1. /\ move.pc = "tear" /\ UNCHANGED <<kinds, focusedWin, table, focusChanges, place>>
      /\ move \in Moves /\ place \in [Windows -> Places]
  BY DEF TearOff, RInv, RType
<1>2. CASE move' = [move EXCEPT !.pc = "wm"]
  <2>1. move' \in Moves /\ move'.pc = "wm" BY <1>1, <1>2 DEF Moves, MovePc
  <2> QED BY <1>1, <2>1, OnlyMove
<1>3. ASSUME NEW p \in Captured(SourceAdapter, move.source), move' \in HandedOn(p) PROVE RInv'
  <2>1. p \in Payloads /\ p.kind # "none" /\ FromSource(p) BY <1>1, CapturedTyped
  <2>2. /\ move' \in Moves /\ move'.source = move.source /\ move'.target = move.target
        /\ move'.pc \in {"wm", "merge"}
        /\ move'.payload.kind = p.kind /\ move'.payload.content = p.content /\ move'.payload.from = p.from
    BY <1>1, <1>3, <2>1, HandedOnTyped
  <2>3. SourceAdapter' = SourceAdapter BY <1>1, <2>2 DEF SourceAdapter, DomainOf, ChainOf
  <2>4. FromSource(move.payload)' BY <1>1, <2>1, <2>2, <2>3 DEF FromSource, IsTerminal
  <2>5. RType' BY <1>1, <2>2 DEF RInv, RType
  <2> QED BY <1>1, <2>2, <2>4, <2>5 DEF RInv, Seeded, OfFocus
<1> QED BY <1>2, <1>3 DEF TearOff

-----------------------------------------------------------------------------
(* The merge *)

\* What a merge may do to a content: move it into a window, or lose it with the instance
\* of nvim that another one ended.
LEMMA MergedMoves ==
  ASSUME RInv, move.pc = "merge", NEW m \in Merged(TargetAdapter, move.payload, move.target)
  PROVE  /\ m.place \in [Windows -> Places]
         /\ m.place # place => Recognised(TargetAdapter, move.payload)
         /\ \A c \in Windows : m.place[c] # place[c] =>
              /\ TargetAdapter.kind # "vscode" => c = move.payload.content
              /\ TargetAdapter.kind = "host" => m.place[c] = move.target /\ IsTerminal(move.target)
              /\ TargetAdapter.kind # "nvim" \/ TargetAdapter.inst # move.payload.from
              /\ TargetAdapter.kind = "emacs" => m.place[c] \in Windows /\ kinds[m.place[c]] = "emacs"
              /\ TargetAdapter.kind = "vscode" =>
                   /\ c \in Active("vscode") /\ m.place[c] \in Windows
                   /\ kinds[m.place[c]] = "vscode"
              /\ TargetAdapter.kind \notin {"host", "nvim", "emacs", "vscode"} =>
                   m.place[c] = focusedWin /\ kinds[focusedWin] = "browser"
<1> DEFINE a == TargetAdapter  q == move.payload
<1>1. /\ place \in [Windows -> Places] /\ q \in Payloads /\ move.target \in Windows /\ focusedWin \in Windows
      /\ a \in Adapters /\ FromSource(q) /\ (a.kind = "nvim" => a.inst \in Windows)
  <2>1. /\ place \in [Windows -> Places] /\ move.payload \in Payloads /\ focusedWin \in Windows
        /\ move.target \in Windows /\ FromSource(move.payload) /\ Seeded
        /\ kinds \in [Windows -> Kinds] /\ table \in [Domains -> Adapters]
    BY DEF RInv, RType, Moves
  <2>2. DomainOf(move.target) \in Domains BY <2>1, DomainOfTyped
  <2>3. a \in Adapters /\ (a.kind = "nvim" => a.inst \in Windows)
    <3>1. PICK e \in Domains : a = table[e] BY <2>2 DEF TargetAdapter
    <3> HIDE DEF a
    <3>2. table[e].kind = "nvim" => table[e].inst \in Windows BY <2>1 DEF Seeded
    <3> QED BY <2>1, <3>1, <3>2
  <2> QED BY <2>1, <2>3
<1> HIDE DEF a, q
<1> USE DEF Same, Moved, Lost, Places
<1>2. CASE ~Recognised(a, q)
  <2>1. m = Same(FALSE) BY <1>2 DEF Merged, a, q
  <2> QED BY <1>1, <2>1
<1>3. CASE Recognised(a, q) /\ a.kind = "host"
  <2>1. m = Same(FALSE) \/ (m = Moved(q.content, move.target) /\ IsTerminal(move.target))
    BY <1>3 DEF Merged, a, q
  <2> QED BY <1>1, <1>3, <2>1 DEF a, q
<1>4. CASE Recognised(a, q) /\ a.kind = "nvim"
  <2>1. \/ m.place = place
        \/ a.inst # q.from /\ (m = Lost(q.content) \/ m = Moved(q.content, place[a.inst]))
    BY <1>4 DEF Merged, EndsSource, a, q
  <2>2. a.inst \in Windows /\ place[a.inst] \in Places BY <1>1, <1>4
  <2> QED BY <1>1, <1>4, <2>1, <2>2 DEF a, q
<1>5. CASE Recognised(a, q) /\ a.kind = "emacs"
  <2>1. m = Same(FALSE) \/ \E f \in EmacsTargets(q.from) : m = Moved(q.content, f)
    BY <1>5 DEF Merged, a, q
  <2>2. \A f \in EmacsTargets(q.from) : f \in Windows /\ kinds[f] = "emacs"
    BY DEF EmacsTargets, Nearest, Ahead, Frames
  <2> QED BY <1>1, <1>5, <2>1, <2>2 DEF a, q
<1>6. CASE Recognised(a, q) /\ a.kind = "vscode"
  <2>1. \/ m.place = place
        \/ \E v \in Active("vscode"), w \in {x \in Windows : kinds[x] = "vscode"} : m = Moved(v, w)
    BY <1>6 DEF Merged, a, q
  <2>2. Active("vscode") \subseteq Windows BY DEF Active
  <2> QED BY <1>1, <1>6, <2>1, <2>2 DEF a, q
<1>7. CASE Recognised(a, q) /\ a.kind \notin {"host", "nvim", "emacs", "vscode"}
  <2>1. m.place = place \/ (kinds[focusedWin] = "browser" /\ m = Moved(q.content, focusedWin))
    BY <1>7 DEF Merged, a, q
  <2> QED BY <1>1, <1>7, <2>1 DEF a, q
<1> QED BY <1>2, <1>3, <1>4, <1>5, <1>6, <1>7 DEF a, q

\* Across domains a payload is not recognised; within one the two adapters are the same.
LEMMA WithinDomain ==
  ASSUME RInv, move.pc = "merge", Recognised(TargetAdapter, move.payload)
  PROVE  DomainOf(move.source) = DomainOf(move.target) /\ TargetAdapter = SourceAdapter
<1>1. /\ move.source \in Windows /\ move.target \in Windows /\ kinds \in [Windows -> Kinds] /\ Seeded
      /\ move.payload.kind = SourceAdapter.kind
  BY DEF RInv, RType, FromSource
<1>2. DomainOf(move.source) \in Domains /\ DomainOf(move.target) \in Domains BY <1>1, DomainOfTyped
<1>3. TargetAdapter.kind = SourceAdapter.kind BY <1>1 DEF Recognised
<1>4. DomainOf(move.source) = DomainOf(move.target)
  <2>1. DomainOfKind(SourceAdapter.kind) = DomainOf(move.source) BY <1>1, <1>2 DEF Seeded, SourceAdapter
  <2>2. DomainOfKind(TargetAdapter.kind) = DomainOf(move.target) BY <1>1, <1>2 DEF Seeded, TargetAdapter
  <2> QED BY <1>3, <2>1, <2>2
<1> QED BY <1>4 DEF SourceAdapter, TargetAdapter

\* The property, of a step.
MovesSource ==
  /\ place' # place => DomainOf(move.source) = DomainOf(move.target)
  /\ \A c \in Windows : place'[c] # place[c] =>
       /\ place'[c] \in Windows
       /\ kinds[place'[c]] = kinds[c] \/ (IsTerminal(c) /\ IsTerminal(place'[c]))
       /\ focusChanges = 0 /\ kinds[move.source] # "browser" => place[c] = move.source

\* What moves is recognised, so both adapters are the same one; of nvim nothing moves, for
\* it ends an instance only for the sake of another.
LEMMA MergeMovesSource == ASSUME RInv, MergeIn PROVE MovesSource
<1>1. /\ move.pc = "merge" /\ FromSource(move.payload) /\ place = [c \in Windows |-> c]
      /\ move.source \in Windows /\ move.target \in Windows /\ focusedWin \in Windows
      /\ focusChanges = 0 => move.source = focusedWin
  BY DEF MergeIn, RInv, RType
<1>2. PICK m \in Merged(TargetAdapter, move.payload, move.target) : place' = m.place BY DEF MergeIn
<1>3. place' # place => DomainOf(move.source) = DomainOf(move.target) BY <1>1, <1>2, MergedMoves, WithinDomain
<1>4. ASSUME NEW c \in Windows, place'[c] # place[c]
      PROVE  /\ place'[c] \in Windows
             /\ kinds[place'[c]] = kinds[c] \/ (IsTerminal(c) /\ IsTerminal(place'[c]))
             /\ focusChanges = 0 /\ kinds[move.source] # "browser" => place[c] = move.source
  <2>1. Recognised(TargetAdapter, move.payload) BY <1>1, <1>2, <1>4, MergedMoves
  <2>2. TargetAdapter = SourceAdapter /\ move.payload.kind = TargetAdapter.kind
    BY <1>1, <2>1, WithinDomain DEF Recognised
  <2>3. /\ place[c] = c
        /\ TargetAdapter.kind # "vscode" => c = move.payload.content
        /\ TargetAdapter.kind = "host" => place'[c] = move.target /\ IsTerminal(move.target)
        /\ TargetAdapter.kind # "nvim" \/ TargetAdapter.inst # move.payload.from
        /\ TargetAdapter.kind = "emacs" => place'[c] \in Windows /\ kinds[place'[c]] = "emacs"
        /\ TargetAdapter.kind = "vscode" =>
             /\ c \in Active("vscode") /\ place'[c] \in Windows
             /\ kinds[place'[c]] = "vscode"
        /\ TargetAdapter.kind \notin {"host", "nvim", "emacs", "vscode"} =>
             place'[c] = focusedWin /\ kinds[focusedWin] = "browser"
    BY <1>1, <1>2, <1>4, MergedMoves
  <2>4. CASE TargetAdapter.kind = "host" BY <1>1, <2>2, <2>3, <2>4 DEF FromSource
  <2>5. CASE TargetAdapter.kind = "nvim" BY <1>1, <2>2, <2>3, <2>5 DEF FromSource
  <2>6. CASE TargetAdapter.kind = "emacs" BY <1>1, <2>2, <2>3, <2>6 DEF FromSource
  <2>7. CASE TargetAdapter.kind = "vscode"
    <3>1. kinds[c] = "vscode" BY <2>3, <2>7 DEF Active
    <3>2. focusChanges = 0 => kinds[focusedWin] = "vscode"
      BY <1>1, <2>2, <2>7, DomainOfTyped DEF RInv, RType, OfFocus, SourceAdapter
    <3>3. focusChanges = 0 => c = focusedWin
      BY <1>1, <2>3, <2>7, <3>2 DEF Active, OpenWindow, Shown
    <3> QED BY <1>1, <2>3, <2>7, <3>1, <3>3
  <2>8. CASE TargetAdapter.kind \notin {"host", "nvim", "emacs", "vscode"}
    <3>1. TargetAdapter.kind = "browser"
      BY <1>1, <2>2, <2>8, DomainOfTyped DEF RInv, RType, FromSource, Adapters, AdapterKinds, SourceAdapter
    <3> QED BY <1>1, <2>2, <2>3, <2>8, <3>1 DEF FromSource
  <2> QED BY <2>4, <2>5, <2>6, <2>7, <2>8
<1> QED BY <1>3, <1>4 DEF MovesSource

LEMMA MergeRight == ASSUME RInv, MergeIn PROVE RInv'
<1>1. move.pc = "merge" /\ UNCHANGED <<kinds, focusedWin, table, focusChanges>> /\ move \in Moves
  BY DEF MergeIn, RInv, RType
<1>2. PICK m \in Merged(TargetAdapter, move.payload, move.target) :
        /\ place' = m.place
        /\ move' = IF m.ok THEN [move EXCEPT !.pc = "end", !.outcome = "applied"] ELSE [move EXCEPT !.pc = "wm"]
  BY DEF MergeIn
<1>3. place' \in [Windows -> Places] BY <1>1, <1>2, MergedMoves
<1>4. move' \in Moves /\ move'.pc \in {"wm", "end"} BY <1>1, <1>2 DEF Moves, MovePc
<1> QED BY <1>1, <1>3, <1>4, OnlyMove

LEMMA RKept == RInv /\ [RoutingNext]_routingVars => RInv'
<1> SUFFICES ASSUME RInv, [RoutingNext]_routingVars PROVE RInv'
  OBVIOUS
<1>1. CASE WmMoves
  <2>1. /\ move.pc = "wm" /\ UNCHANGED <<kinds, focusedWin, place, table, focusChanges>>
        /\ move \in Moves /\ place \in [Windows -> Places]
    BY <1>1 DEF WmMoves, RInv, RType
  <2>2. move' \in Moves /\ move'.pc = "end" BY <1>1, <2>1 DEF WmMoves, Moves, MovePc
  <2> QED BY <2>1, <2>2, OnlyMove
<1>2. CASE UserFocusesWindow
  <2>1. /\ UNCHANGED <<kinds, place, table, move>> /\ focusedWin' \in Windows /\ focusChanges' = focusChanges + 1
        /\ focusChanges \in Nat
    BY <1>2 DEF UserFocusesWindow, RInv, RType
  <2>2. focusChanges' \in Nat /\ focusChanges' # 0 BY <2>1
  <2>3. SourceAdapter' = SourceAdapter BY <2>1 DEF SourceAdapter, DomainOf, ChainOf
  <2>4. FromSource(move.payload) => FromSource(move.payload)' BY <2>1, <2>2, <2>3 DEF FromSource, IsTerminal
  <2> QED BY <2>1, <2>2, <2>4 DEF RInv, RType, Seeded, OfFocus
<1>3. CASE UNCHANGED routingVars
  <2>1. UNCHANGED <<kinds, torn, focusedWin, place, table, move, focusChanges>> BY <1>3 DEF routingVars
  <2>2. SourceAdapter' = SourceAdapter BY <2>1 DEF SourceAdapter, DomainOf, ChainOf
  <2>3. FromSource(move.payload) => FromSource(move.payload)' BY <2>1, <2>2 DEF FromSource, IsTerminal
  <2> QED BY <2>1, <2>3 DEF RInv, RType, Seeded, OfFocus
<1> QED BY <1>1, <1>2, <1>3, SeedRight, RouteRight, TearRight, MergeRight DEF RoutingNext

\* A transfer changes nothing across domains; within one, what moves is what the source
\* window showed, into a window of its kind (tear_off, merge_in, register_domain).
THEOREM OnlyTheSourceMovesAlways == RoutingSpec => OnlyTheSourceMoves
<1>1. ASSUME RInv, [RoutingNext]_routingVars PROVE [MovesSource]_routingVars
  <2>1. CASE MergeIn BY <1>1, <2>1, MergeMovesSource
  <2>2. CASE UNCHANGED place BY <2>2 DEF MovesSource
  <2> QED BY <1>1, <2>1, <2>2 DEF RoutingNext, Seed, Route, TearOff, WmMoves, UserFocusesWindow, routingVars
<1>2. RInv /\ [RoutingNext]_routingVars => [MovesSource]_routingVars BY <1>1
<1>3. RoutingSpec => [][MovesSource]_routingVars BY <1>2, RInit, RKept, PTL DEF RoutingSpec
<1> QED BY <1>3 DEF OnlyTheSourceMoves, MovesSource

-----------------------------------------------------------------------------
(* Summoned windows                                                        *)

Place == Space \union {NoSpace}
Steps == {"idle", "spaces", "load", "move", "monitor", "open", "write", "focus"}

\* What SummonTypeOK says, without the rules of the screen.
ScreenType == /\ placeOf \in [Window -> Place] /\ spaces \subseteq Space
              /\ shownSpace \in [Output -> Space] /\ view \in Space
              /\ focus \in Live \union {NoWindow}
ProcType == /\ pc \in [Proc -> Steps] /\ read \in [Proc -> Reading]
            /\ \A p \in Proc : pc[p] # "idle" => read[p].target \in Window
            /\ \A p \in Proc : pc[p] = "load" => read[p].view \in Space
            /\ \A p \in Proc : pc[p] \in {"spaces", "load"} => read[p].place[read[p].target] \in Space
FileType == stateFile \in Origins \union {Torn}
HistoryType == home \in [Window -> Place] /\ harmed \subseteq Window
SType == ScreenType /\ ProcType /\ FileType /\ HistoryType

LEMMA NoReadTyped == NoRead \in Reading /\ NoRead.target = NoWindow
<1>1. <<>> \in Origins
  <2>1. {} \in SUBSET Window OBVIOUS
  <2>2. <<>> \in [{} -> Origin] OBVIOUS
  <2> QED BY <2>1, <2>2 DEF Origins
<1> QED BY <1>1 DEF NoRead, Reading

LEMMA KeepTyped == ASSUME NEW f \in Origins, NEW S
                   PROVE  /\ Keep(f, S) \in Origins /\ DOMAIN Keep(f, S) = DOMAIN f \intersect S
                          /\ \A w \in DOMAIN f \intersect S : Keep(f, S)[w] = f[w]
<1>1. PICK D \in SUBSET Window : f \in [D -> Origin] BY DEF Origins
<1>2. Keep(f, S) \in [D \intersect S -> Origin] BY <1>1 DEF Keep
<1>3. D \intersect S \in SUBSET Window OBVIOUS
<1> QED BY <1>1, <1>2, <1>3 DEF Origins, Keep

LEMMA WithOriginTyped ==
  ASSUME NEW f \in Origins, NEW w \in Window, NEW o \in Origin
  PROVE  /\ WithOrigin(f, w, o) \in Origins /\ DOMAIN WithOrigin(f, w, o) = DOMAIN f \union {w}
         /\ WithOrigin(f, w, o)[w] = o
         /\ \A v \in DOMAIN f \ {w} : WithOrigin(f, w, o)[v] = f[v]
<1>1. PICK D \in SUBSET Window : f \in [D -> Origin] BY DEF Origins
<1>2. WithOrigin(f, w, o) \in [D \union {w} -> Origin] BY <1>1 DEF WithOrigin
<1>3. D \union {w} \in SUBSET Window OBVIOUS
<1> QED BY <1>1, <1>2, <1>3 DEF Origins, WithOrigin

LEMMA OriginsAreFunctions == ASSUME NEW f \in Origins
                             PROVE  /\ f # Torn /\ DOMAIN f \subseteq Window
                                    /\ \A w \in DOMAIN f : f[w] \in Origin
BY SummonAssumption DEF Origins

LEMMA InitTyped == SummonInit => SType
<1> SUFFICES ASSUME SummonInit PROVE SType
  OBVIOUS
<1> USE DEF SummonInit
<1>1. <<>> \in Origins
  <2>1. {} \in SUBSET Window OBVIOUS
  <2>2. <<>> \in [{} -> Origin] OBVIOUS
  <2> QED BY <2>1, <2>2 DEF Origins
<1>2. read \in [Proc -> Reading] /\ pc \in [Proc -> Steps] BY NoReadTyped DEF Steps
<1>3. view \in Space OBVIOUS
<1>5. focus \in Live \union {NoWindow} BY <1>3, SummonAssumption DEF Live
<1>4. \A p \in Proc : pc[p] = "idle" OBVIOUS
<1> QED BY <1>1, <1>2, <1>3, <1>4, <1>5 DEF SType, ScreenType, ProcType, FileType, HistoryType, Place

-----------------------------------------------------------------------------
(* What an action does to the process that takes it *)

LEMMA SetTyped ==
  ASSUME ProcType, NEW p \in Proc, NEW step \in Steps, NEW rec \in Reading, Set(p, step, rec),
         step # "idle" => rec.target \in Window, step = "load" => rec.view \in Space,
         step \in {"spaces", "load"} => rec.place[rec.target] \in Space
  PROVE  /\ ProcType' /\ pc'[p] = step /\ read'[p] = rec
         /\ \A q \in Proc \ {p} : pc'[q] = pc[q] /\ read'[q] = read[q]
BY DEF ProcType, Set

LEMMA StepTyped ==
  ASSUME ProcType, NEW p \in Proc, NEW step \in Steps, Step(p, step), pc[p] # "idle", step \notin {"spaces", "load"}
  PROVE  /\ ProcType' /\ pc'[p] = step /\ read'[p] = read[p]
         /\ \A q \in Proc \ {p} : pc'[q] = pc[q] /\ read'[q] = read[q]
BY DEF ProcType, Step

\* What a call has chosen once it has read the file.
Choice(t, st, dirty) == [NoRead EXCEPT !.target = t, !.state = st, !.dirty = dirty]
Going(t, st, dirty, s, o) == [Choice(t, st, dirty) EXCEPT !.origin = s, !.output = o]
GoingBack(t, st, dirty, s, o) == [Choice(t, st, dirty) EXCEPT !.origin = s, !.output = o, !.back = TRUE]
Says(r, t, st, dirty, back) == /\ r \in Reading /\ r.target = t /\ r.state = st
                               /\ r.dirty = dirty /\ r.back = back
LEMMA ChoiceTyped ==
  ASSUME NEW t \in Window, NEW st \in Origins, NEW dirty \in BOOLEAN
  PROVE  Says(Choice(t, st, dirty), t, st, dirty, FALSE)
BY NoReadTyped DEF Choice, Reading, NoRead, Says
LEMMA GoingTyped ==
  ASSUME NEW t \in Window, NEW st \in Origins, NEW dirty \in BOOLEAN,
         NEW s \in Space, NEW o \in Output \union {NoOutput}
  PROVE  Says(Going(t, st, dirty, s, o), t, st, dirty, FALSE)
BY NoReadTyped DEF Choice, Going, Reading, NoRead, Says
LEMMA GoingBackTyped ==
  ASSUME NEW t \in Window, NEW st \in Origins, NEW dirty \in BOOLEAN,
         NEW s \in Space, NEW o \in Output \union {NoOutput}
  PROVE  Says(GoingBack(t, st, dirty, s, o), t, st, dirty, TRUE)
BY NoReadTyped DEF Choice, GoingBack, Reading, NoRead, Says

LEMMA BegunTyped ==
  ASSUME SType, NEW t \in Window
  PROVE  LET a == [NoRead EXCEPT !.target = t, !.place = placeOf, !.focus = focus]
             b == [NoRead EXCEPT !.target = t]
         IN  /\ a \in Reading /\ a.target = t /\ a.place = placeOf
             /\ b \in Reading /\ b.target = t
<1>1. placeOf \in [Window -> Place] /\ focus \in Window \union {NoWindow} BY DEF SType, ScreenType, Live
<1> QED BY <1>1, NoReadTyped DEF Reading, NoRead, Place

\* A window is moved to a workspace that there is, or nothing is moved.
LEMMA MovedTyped ==
  ASSUME ScreenType, NEW w \in Window, NEW s, WindowMoved(w, s)
  PROVE  /\ placeOf' \in [Window -> Place] /\ focus' \in Live \union {NoWindow}
         /\ Live' = Live /\ \A v \in Window \ {w} : placeOf'[v] = placeOf[v]
<1>1. CASE w \in Live /\ s \in spaces
  <2>1. s \in Place /\ s # NoSpace BY <1>1, SummonAssumption DEF ScreenType, Place
  <2>2. placeOf' = [placeOf EXCEPT ![w] = s] BY <1>1 DEF WindowMoved
  <2>3. focus' \in Live \union {NoWindow}
    BY <1>1, SummonAssumption DEF WindowMoved, ScreenType, Live
  <2> QED BY <1>1, <2>1, <2>2, <2>3 DEF ScreenType, Live
<1>2. CASE ~(w \in Live /\ s \in spaces)
  <2>1. UNCHANGED <<placeOf, focus>> BY <1>2 DEF WindowMoved
  <2> QED BY <2>1 DEF ScreenType, Live
<1> QED BY <1>1, <1>2

-----------------------------------------------------------------------------
(* Types *)

\* What LoadFile may choose, in the three cases.
LEMMA LoadTyped ==
  ASSUME SType, NEW p \in Proc, pc[p] = "load", stateFile # Torn
  PROVE  /\ stateFile \in Origins /\ read[p] \in Reading /\ read[p].target \in Window /\ Pruned(p) \in Origins
         /\ [space |-> read[p].place[read[p].target], output |-> read[p].output] \in [space : Space, output : Output \union {NoOutput}]
         /\ OutputOf[read[p].view] \in Output /\ read[p].view \in Space
<1>1. stateFile \in Origins BY DEF SType, FileType
<1>2. read[p] \in Reading /\ read[p].target \in Window /\ read[p].view \in Space BY DEF SType, ProcType
<1>3. Pruned(p) \in Origins BY <1>1, KeepTyped DEF Pruned
<1>4. read[p].place[read[p].target] \in Space /\ read[p].output \in Output \union {NoOutput}
  BY <1>2 DEF Reading, SType, ProcType
<1> QED BY <1>1, <1>2, <1>3, <1>4, SummonAssumption

\* g is f with an origin of w, the one it had or o.
Grown(g, f, w, o) == /\ g \in Origins /\ DOMAIN g = DOMAIN f \union {w}
                     /\ g[w] = IF w \in DOMAIN f THEN f[w] ELSE o
                     /\ \A v \in DOMAIN f \ {w} : g[v] = f[v]
LEMMA FirstOriginTyped ==
  ASSUME NEW f \in Origins, NEW w \in Window, NEW o \in Origin
  PROVE  Grown(FirstOrigin(f, w, o), f, w, o)
<1>1. CASE w \in DOMAIN f
  <2>1. Grown(f, f, w, o) BY <1>1 DEF Grown
  <2> QED BY <1>1, <2>1 DEF FirstOrigin
<1>2. CASE w \notin DOMAIN f
  <2> DEFINE g == WithOrigin(f, w, o)
  <2>0. /\ g \in Origins /\ DOMAIN g = DOMAIN f \union {w} /\ g[w] = o
        /\ \A v \in DOMAIN f \ {w} : g[v] = f[v]
    BY WithOriginTyped
  <2> HIDE DEF g
  <2>2. g[w] = IF w \in DOMAIN f THEN f[w] ELSE o BY <1>2, <2>0
  <2>3. Grown(g, f, w, o) BY <2>0, <2>2 DEF Grown
  <2>1. Grown(WithOrigin(f, w, o), f, w, o) BY <2>3 DEF g
  <2> QED BY <1>2, <2>1 DEF FirstOrigin
<1> QED BY <1>1, <1>2

Dirty(st) == IF st # stateFile THEN TRUE ELSE FALSE
\* The record that LoadFile leaves to process p.
StateBack(p) == Keep(Pruned(p), Window \ {read[p].target})
StateHere(p) == FirstOrigin(Pruned(p), read[p].target, Here(p))
LoadedBack(p) == GoingBack(read[p].target, StateBack(p), Dirty(StateBack(p)),
                           Pruned(p)[read[p].target].space, Pruned(p)[read[p].target].output)
LoadedHere(p) == Going(read[p].target, StateHere(p), Dirty(StateHere(p)), read[p].view, OutputOf[read[p].view])
LoadedFocus(p) == Choice(read[p].target, Pruned(p), Dirty(Pruned(p)))

LEMMA DirtySays == ASSUME NEW st PROVE (st # stateFile) = Dirty(st) /\ Dirty(st) \in BOOLEAN
BY Zenon DEF Dirty

LEMMA LoadCases ==
  ASSUME NEW p \in Proc, LoadFile(p)
  PROVE  \/ Returns(p) /\ Set(p, "move", LoadedBack(p))
         \/ Comes(p) /\ Set(p, "move", LoadedHere(p))
         \/ ~Returns(p) /\ ~Comes(p) /\ Set(p, IF Pruned(p) # stateFile THEN "open" ELSE "focus", LoadedFocus(p))
<1>1. /\ (StateBack(p) # stateFile) = Dirty(StateBack(p)) /\ (StateHere(p) # stateFile) = Dirty(StateHere(p))
      /\ (Pruned(p) # stateFile) = Dirty(Pruned(p))
  BY DirtySays
<1> QED BY <1>1 DEF LoadFile, LoadedBack, LoadedHere, LoadedFocus, StateBack, StateHere, Choice, Going, GoingBack, Here

LEMMA LoadedTyped ==
  ASSUME SType, NEW p \in Proc, pc[p] = "load", stateFile # Torn
  PROVE  /\ Returns(p) => Says(LoadedBack(p), read[p].target, StateBack(p), Dirty(StateBack(p)), TRUE)
         /\ Says(LoadedHere(p), read[p].target, StateHere(p), Dirty(StateHere(p)), FALSE)
         /\ Says(LoadedFocus(p), read[p].target, Pruned(p), Dirty(Pruned(p)), FALSE)
<1> DEFINE t == read[p].target  st == Pruned(p)
<1>1. t \in Window /\ st \in Origins /\ OutputOf[read[p].view] \in Output /\ read[p].view \in Space BY LoadTyped
<1>2. Here(p) \in Origin BY LoadTyped DEF Here, Origin
<1>3. StateHere(p) \in Origins BY <1>1, <1>2, FirstOriginTyped DEF StateHere, Grown
<1>4. StateBack(p) \in Origins BY <1>1, KeepTyped DEF StateBack
<1>5. ASSUME Returns(p) PROVE st[t].space \in Space /\ st[t].output \in Output \union {NoOutput}
  BY <1>1, <1>5, OriginsAreFunctions DEF Returns, Origin
<1>6. Dirty(StateBack(p)) \in BOOLEAN /\ Dirty(StateHere(p)) \in BOOLEAN /\ Dirty(Pruned(p)) \in BOOLEAN BY DirtySays
<1>7. ASSUME Returns(p) PROVE Says(LoadedBack(p), t, StateBack(p), Dirty(StateBack(p)), TRUE)
  BY <1>1, <1>4, <1>5, <1>6, <1>7, GoingBackTyped DEF LoadedBack
<1>8. Says(LoadedHere(p), t, StateHere(p), Dirty(StateHere(p)), FALSE)
  BY <1>1, <1>3, <1>6, GoingTyped DEF LoadedHere
<1>9. Says(LoadedFocus(p), t, st, Dirty(st), FALSE)
  BY <1>1, <1>6, ChoiceTyped DEF LoadedFocus
<1> QED BY <1>7, <1>8, <1>9

LEMMA BeginCases ==
  ASSUME SType, NEW p \in Proc, BeginSummon(p)
  PROVE  \E t \in Live :
           \/ /\ Set(p, "spaces", [NoRead EXCEPT !.target = t, !.place = placeOf, !.focus = focus])
              /\ harmed' = harmed \union Overlapping(t)
           \/ Set(p, "focus", [NoRead EXCEPT !.target = t]) /\ harmed' = harmed
<1>1. PICK want \in SUBSET Live, summon \in BOOLEAN : \E t \in Targets(want) :
         IF summon
         THEN /\ Set(p, "spaces", [NoRead EXCEPT !.target = t, !.place = placeOf, !.focus = focus])
              /\ harmed' = harmed \union Overlapping(t)
         ELSE Set(p, "focus", [NoRead EXCEPT !.target = t]) /\ UNCHANGED harmed
  BY DEF BeginSummon
<1>2. PICK t \in Targets(want) :
         IF summon
         THEN /\ Set(p, "spaces", [NoRead EXCEPT !.target = t, !.place = placeOf, !.focus = focus])
              /\ harmed' = harmed \union Overlapping(t)
         ELSE Set(p, "focus", [NoRead EXCEPT !.target = t]) /\ UNCHANGED harmed
  BY <1>1
<1>3. t \in Live BY <1>1, <1>2 DEF Targets
<1> QED BY <1>2, <1>3

LEMMA ProcTypeKept == ASSUME SType, [SummonNext]_summonVars PROVE ProcType'
<1>0. ProcType BY DEF SType
<1> USE DEF Steps
<1>1. ASSUME NEW p \in Proc, BeginSummon(p) PROVE ProcType'
  <2>1. PICK t \in Live :
           \/ Set(p, "spaces", [NoRead EXCEPT !.target = t, !.place = placeOf, !.focus = focus])
           \/ Set(p, "focus", [NoRead EXCEPT !.target = t])
    BY <1>1, BeginCases
  <2>2. t \in Window /\ placeOf[t] \in Space BY <2>1 DEF Live, SType, ScreenType, Place
  <2> DEFINE a == [NoRead EXCEPT !.target = t, !.place = placeOf, !.focus = focus]
             b == [NoRead EXCEPT !.target = t]
  <2>3. /\ a \in Reading /\ a.target = t /\ a.place = placeOf /\ b \in Reading /\ b.target = t
    BY <2>2, BegunTyped
  <2>4. Set(p, "spaces", a) \/ Set(p, "focus", b) BY <2>1
  <2> HIDE DEF a, b
  <2>5. a.place[a.target] \in Space BY <2>2, <2>3
  <2> QED BY <1>0, <2>2, <2>3, <2>4, <2>5, SetTyped
<1>2. ASSUME NEW p \in Proc, ReadSpaces(p) PROVE ProcType'
  <2> DEFINE from == read[p].place[read[p].target]
             out == IF from \in spaces THEN OutputOf[from] ELSE NoOutput
             r == [read[p] EXCEPT !.view = view, !.output = out]
  <2>1. read[p] \in Reading /\ read[p].target \in Window /\ from \in Space BY <1>0, <1>2 DEF ProcType, ReadSpaces
  <2>2. out \in Output \union {NoOutput} /\ view \in Space BY <2>1, SummonAssumption DEF SType, ScreenType
  <2>3. Set(p, "load", r) BY <1>2 DEF ReadSpaces
  <2> HIDE DEF out
  <2>4. r \in Reading /\ r.target = read[p].target /\ r.place = read[p].place /\ r.view = view
    BY <2>1, <2>2 DEF Reading
  <2> HIDE DEF r
  <2>5. r.place[r.target] \in Space BY <2>1, <2>4
  <2> QED BY <1>0, <2>1, <2>2, <2>3, <2>4, <2>5, SetTyped
<1>3. ASSUME NEW p \in Proc, LoadFile(p) PROVE ProcType'
  <2>1. pc[p] = "load" /\ stateFile # Torn /\ read[p].target \in Window BY <1>0, <1>3 DEF LoadFile, ProcType
  <2>2. CASE Returns(p) /\ Set(p, "move", LoadedBack(p))
    BY <1>0, <2>1, <2>2, LoadedTyped, SetTyped DEF Says
  <2>3. CASE Set(p, "move", LoadedHere(p))
    BY <1>0, <2>1, <2>3, LoadedTyped, SetTyped DEF Says
  <2>4. CASE Set(p, IF Pruned(p) # stateFile THEN "open" ELSE "focus", LoadedFocus(p))
    BY <1>0, <2>1, <2>4, LoadedTyped, SetTyped DEF Says
  <2> QED BY <1>3, <2>2, <2>3, <2>4, LoadCases
<1>4. ASSUME NEW p \in Proc, Set(p, "idle", NoRead) PROVE ProcType'
  BY <1>0, <1>4, NoReadTyped, SetTyped
<1>5. ASSUME NEW p \in Proc, MoveWindow(p) PROVE ProcType'
  BY <1>0, <1>5, StepTyped DEF MoveWindow
<1>6. ASSUME NEW p \in Proc, Monitor(p) PROVE ProcType'
  BY <1>0, <1>6, StepTyped DEF Monitor, Saved
<1>7. ASSUME NEW p \in Proc, OpenFile(p) PROVE ProcType'
  BY <1>0, <1>7, StepTyped DEF OpenFile
<1>8. ASSUME NEW p \in Proc, WriteFile(p) PROVE ProcType'
  BY <1>0, <1>4, <1>8, StepTyped DEF WriteFile
<1>9. CASE UNCHANGED <<pc, read>> BY <1>0, <1>9 DEF ProcType
<1>10. ASSUME NEW p \in Proc, Call(p) PROVE ProcType'
  BY <1>1, <1>2, <1>3, <1>4, <1>5, <1>6, <1>7, <1>8, <1>10 DEF Call, LoadFails, FocusTarget, Dies
<1> QED BY <1>9, <1>10 DEF SummonNext, summonVars, UserViews, UserFocuses, UserMoves, WindowCloses, SpaceVanishes

\* Nothing but these touches the screen.
LEMMA ScreenTypeKept == ASSUME SType, [SummonNext]_summonVars PROVE ScreenType' /\ Live' \subseteq Live
<1>0. ScreenType /\ ProcType BY DEF SType
<1>1. CASE UNCHANGED screen BY <1>0, <1>1 DEF screen, ScreenType, Live
<1>2. ASSUME NEW p \in Proc, MoveWindow(p) PROVE ScreenType' /\ Live' \subseteq Live
  BY <1>0, <1>2, MovedTyped DEF MoveWindow, ScreenType, ProcType
<1>3. ASSUME NEW p \in Proc, Monitor(p) PROVE ScreenType' /\ Live' \subseteq Live
  <2>1. read[p].target \in Window BY <1>0, <1>3 DEF Monitor, ProcType
  <2>2. CASE UNCHANGED <<placeOf, focus>> BY <1>0, <1>3, <2>2 DEF Monitor, ScreenType, Live
  <2>3. CASE WindowMoved(read[p].target, shownSpace[read[p].output])
    BY <1>0, <1>3, <2>1, <2>3, MovedTyped DEF Monitor, ScreenType
  <2> QED BY <1>3, <2>2, <2>3 DEF Monitor
<1>4. ASSUME NEW p \in Proc, FocusTarget(p) PROVE ScreenType' /\ Live' \subseteq Live
  <2>1. read[p].target \in Window BY <1>0, <1>4 DEF FocusTarget, ProcType
  <2>2. CASE read[p].target \notin Live BY <1>0, <1>4, <2>2 DEF FocusTarget, ScreenType, Live
  <2>3. CASE read[p].target \in Live
    <3>1. placeOf[read[p].target] \in Space BY <1>0, <2>3 DEF Live, ScreenType, Place
    <3>2. UNCHANGED <<placeOf, spaces>> /\ focus' = read[p].target /\ view' = placeOf[read[p].target]
          /\ shownSpace' = [shownSpace EXCEPT ![OutputOf[placeOf[read[p].target]]] = placeOf[read[p].target]]
      BY <1>4, <2>3 DEF FocusTarget
    <3>3. Live' = Live /\ focus' \in Live BY <2>3, <3>2 DEF Live
    <3>4. shownSpace' \in [Output -> Space] BY <1>0, <3>1, <3>2 DEF ScreenType
    <3> QED BY <1>0, <3>1, <3>2, <3>3, <3>4 DEF ScreenType
  <2> QED BY <2>2, <2>3
<1>5. ASSUME NEW p \in Proc, Call(p) PROVE ScreenType' /\ Live' \subseteq Live
  BY <1>1, <1>2, <1>3, <1>4, <1>5
  DEF Call, BeginSummon, ReadSpaces, LoadFile, LoadFails, OpenFile, WriteFile, Dies
<1>6. ASSUME UserViews PROVE ScreenType' /\ Live' \subseteq Live
  BY <1>0, <1>6, SummonAssumption DEF UserViews, ScreenType, Live
<1>7. ASSUME UserFocuses PROVE ScreenType' /\ Live' \subseteq Live
  BY <1>0, <1>7, SummonAssumption DEF UserFocuses, ScreenType, Live
<1>8. ASSUME UserMoves PROVE ScreenType' /\ Live' \subseteq Live
  BY <1>0, <1>8, SummonAssumption DEF UserMoves, ScreenType, Live, Place
<1>9. ASSUME WindowCloses PROVE ScreenType' /\ Live' \subseteq Live
  BY <1>0, <1>9, SummonAssumption DEF WindowCloses, ScreenType, Live, Place
<1>10. ASSUME SpaceVanishes PROVE ScreenType' /\ Live' \subseteq Live
  BY <1>0, <1>10 DEF SpaceVanishes, ScreenType, Live
<1> QED BY <1>1, <1>5, <1>6, <1>7, <1>8, <1>9, <1>10 DEF SummonNext, summonVars, screen

LEMMA FileTypeKept == ASSUME SType, [SummonNext]_summonVars PROVE FileType'
<1>0. FileType /\ ProcType BY DEF SType
<1>1. CASE UNCHANGED stateFile BY <1>0, <1>1 DEF FileType
<1>2. ASSUME NEW p \in Proc, OpenFile(p) PROVE FileType' BY <1>2 DEF OpenFile, FileType
<1>3. ASSUME NEW p \in Proc, WriteFile(p) PROVE FileType'
  BY <1>0, <1>3 DEF WriteFile, FileType, ProcType, Reading
<1> QED BY <1>1, <1>2, <1>3 DEF SummonNext, Call, summonVars, BeginSummon, ReadSpaces, LoadFile, LoadFails, MoveWindow,
           Monitor, FocusTarget, Dies, UserViews, UserFocuses, UserMoves, WindowCloses, SpaceVanishes

LEMMA HistoryTypeKept == ASSUME SType, [SummonNext]_summonVars PROVE HistoryType' /\ harmed \subseteq harmed'
<1>0. HistoryType /\ ProcType /\ ScreenType BY DEF SType
<1>1. CASE UNCHANGED <<home, harmed>> BY <1>0, <1>1 DEF HistoryType
<1>2. ASSUME NEW p \in Proc, BeginSummon(p) PROVE HistoryType' /\ harmed \subseteq harmed'
  <2>1. PICK t \in Live : harmed' = harmed \union Overlapping(t) \/ harmed' = harmed BY <1>2, BeginCases
  <2>2. Overlapping(t) \subseteq Window BY <1>0, <2>1 DEF Overlapping, AtWork, Live, ProcType
  <2>3. home' = home BY <1>2 DEF BeginSummon
  <2> QED BY <1>0, <2>1, <2>2, <2>3 DEF HistoryType
<1>3. ASSUME NEW p \in Proc, MoveWindow(p) PROVE HistoryType' /\ harmed \subseteq harmed'
  <2>1. read[p].target \in Window /\ placeOf[read[p].target] \in Place /\ harmed' = harmed /\ home' = AwayFrom(p)
    BY <1>0, <1>3 DEF MoveWindow, ProcType, ScreenType
  <2> QED BY <1>0, <2>1 DEF AwayFrom, HistoryType
<1>4. ASSUME NEW p \in Proc, Monitor(p) PROVE HistoryType' /\ harmed \subseteq harmed'
  BY <1>0, <1>4 DEF Monitor, HistoryType, Place
<1>5. ASSUME NEW p \in Proc, Dies(p) PROVE HistoryType' /\ harmed \subseteq harmed'
  BY <1>0, <1>5 DEF Dies, HistoryType, ProcType
<1>6. ASSUME UserMoves PROVE HistoryType' /\ harmed \subseteq harmed'
  BY <1>0, <1>6 DEF UserMoves, Touches, HistoryType, ScreenType, Live
<1>8. ASSUME NEW p \in Proc, OpenFile(p) PROVE HistoryType' /\ harmed \subseteq harmed'
  BY <1>0, <1>8 DEF OpenFile, HistoryType
<1>7. ASSUME WindowCloses PROVE HistoryType' /\ harmed \subseteq harmed'
  BY <1>0, <1>7 DEF WindowCloses, Touches, HistoryType, Live, Place
<1> QED BY <1>1, <1>2, <1>3, <1>4, <1>5, <1>6, <1>7, <1>8 DEF SummonNext, Call, summonVars, ReadSpaces, LoadFile, LoadFails,
           WriteFile, FocusTarget, UserViews, UserFocuses, SpaceVanishes

LEMMA TypeKept == ASSUME SType, [SummonNext]_summonVars
                  PROVE  SType' /\ Live' \subseteq Live /\ harmed \subseteq harmed'
BY ProcTypeKept, ScreenTypeKept, FileTypeKept, HistoryTypeKept DEF SType

-----------------------------------------------------------------------------
(* The invariant.  A map of origins is right about a window if it knows the *)
(* window just when it is away, and where it came from.                    *)

Right(f, w) == /\ f # Torn
               /\ w \in DOMAIN f <=> home[w] # NoSpace
               /\ w \in DOMAIN f => f[w].space = home[w]

\* The file is right about w unless a call is writing it, or has moved w and not saved that.
Quiet(p, w) == pc[p] # "write" /\ (pc[p] \in {"monitor", "open"} => read[p].target # w)
FileRight(w) == (\A p \in Proc : Quiet(p, w)) => Right(stateFile, w)

\* What a call has read of w is still so, and what it is about to write is right about w,
\* once the window it moves has moved.
AsRead(p, w) == /\ read[p].place[w] # NoSpace
                /\ w = read[p].target => read[p].place[w] = placeOf[w]
ToMove(p, w) == IF w # read[p].target THEN Right(read[p].state, w)
                ELSE IF read[p].back THEN w \notin DOMAIN read[p].state
                ELSE /\ w \in DOMAIN read[p].state
                     /\ read[p].state[w].space = IF home[w] = NoSpace THEN placeOf[w] ELSE home[w]
Moving(p, w) == IF w = read[p].target /\ read[p].back THEN w \notin DOMAIN read[p].state
                ELSE Right(read[p].state, w)
CallRight(p, w) ==
  /\ pc[p] \in {"spaces", "load"} => AsRead(p, w)
  /\ pc[p] = "move" => ToMove(p, w)
  /\ pc[p] = "monitor" => Moving(p, w)
  /\ pc[p] \in {"open", "write"} => Right(read[p].state, w)
  /\ pc[p] \in {"move", "monitor"} /\ ~read[p].dirty /\ w = read[p].target => read[p].state = stateFile
  /\ pc[p] = "write" => stateFile = Torn

\* Of a window that is not harmed: no call overlaps the one that is about it, and one call at
\* most is amid fs::write.
Owned(w) == \A p, q \in Proc : AtWork(p) /\ read[p].target = w /\ AtWork(q) => p = q
OneWrites == \A p, q \in Proc : pc[p] = "write" /\ pc[q] = "write" => p = q
WindowRight(w) == Owned(w) /\ OneWrites /\ FileRight(w) /\ \A p \in Proc : CallRight(p, w)
SInv == SType /\ \A w \in Live \ harmed : WindowRight(w)

LEMMA InvInit == SummonInit => SInv
<1> SUFFICES ASSUME SummonInit PROVE SInv
  OBVIOUS
<1>1. \A p \in Proc : pc[p] = "idle" BY DEF SummonInit
<1>2. ASSUME NEW w \in Live PROVE Right(stateFile, w)
  <2>1. <<>> \in Origins BY NoReadTyped DEF NoRead, Reading
  <2>2. stateFile = <<>> /\ home[w] = NoSpace BY DEF SummonInit, Live
  <2>3. <<>> # Torn BY <2>1, OriginsAreFunctions
  <2> QED BY <2>2, <2>3 DEF Right
<1> QED BY <1>1, <1>2, InitTyped DEF SInv, WindowRight, Owned, OneWrites, AtWork, FileRight, CallRight

\* The calls at work beside p are about other windows, and if p is about w there are none; a
\* file that p finds whole is right, unless p itself has moved w and not saved that.
LEMMA OthersApart ==
  ASSUME NEW w, WindowRight(w), NEW p \in Proc, AtWork(p)
  PROVE  /\ CallRight(p, w)
         /\ \A q \in Proc \ {p} : AtWork(q) => read[q].target # w /\ read[p].target # w
         /\ Quiet(p, w) /\ stateFile # Torn => Right(stateFile, w)
<1>1. CallRight(p, w) BY DEF WindowRight
<1>2. \A q \in Proc \ {p} : AtWork(q) => read[q].target # w /\ read[p].target # w BY DEF WindowRight, Owned
<1>3. ASSUME Quiet(p, w), stateFile # Torn, NEW q \in Proc PROVE Quiet(q, w)
  <2>1. pc[q] # "write" BY <1>3 DEF WindowRight, CallRight
  <2>2. q # p /\ pc[q] \in {"monitor", "open"} => read[q].target # w BY <1>2 DEF AtWork
  <2> QED BY <1>3, <2>1, <2>2 DEF Quiet
<1> QED BY <1>1, <1>2, <1>3 DEF WindowRight, FileRight

\* What a step of p leaves alone of the rest.
RestStays(p, w) ==
  /\ \A q \in Proc \ {p} : pc'[q] = pc[q] /\ read'[q] = read[q]
  /\ AtWork(p)' => AtWork(p) /\ read'[p].target = read[p].target
  /\ (home'[w] = home[w] /\ placeOf'[w] = placeOf[w]) \/ (AtWork(p) /\ read[p].target = w)
  /\ stateFile' = stateFile \/ (AtWork(p) /\ (stateFile' = Torn \/ pc[p] = "write"))
  /\ pc'[p] = "write" => \A q \in Proc : pc[q] # "write"

LEMMA OneGoesOn ==
  ASSUME NEW w, WindowRight(w), NEW p \in Proc, RestStays(p, w), CallRight(p, w)', FileRight(w)'
  PROVE  WindowRight(w)'
<1>1. Owned(w)' BY DEF WindowRight, Owned, RestStays, AtWork
<1>2. OneWrites' BY DEF WindowRight, OneWrites, RestStays
<1>3. ASSUME NEW q \in Proc \ {p} PROVE CallRight(q, w)'
  <2>1. CallRight(q, w) /\ pc'[q] = pc[q] /\ read'[q] = read[q] BY DEF WindowRight, RestStays
  <2>2. CASE ~AtWork(q) BY <2>1, <2>2 DEF AtWork, CallRight
  <2>3. CASE AtWork(q) /\ AtWork(p) /\ read[p].target = w BY <2>3 DEF WindowRight, Owned
  <2>4. CASE AtWork(q) /\ ~(AtWork(p) /\ read[p].target = w)
    <3>1. home'[w] = home[w] /\ placeOf'[w] = placeOf[w] BY <2>4 DEF RestStays
    <3>2. pc[q] = "write" => stateFile' = Torn
      BY <2>1 DEF WindowRight, OneWrites, RestStays, CallRight
    <3>3. AsRead(q, w) => AsRead(q, w)' BY <2>1, <3>1 DEF AsRead
    <3>4. ToMove(q, w) => ToMove(q, w)' BY <2>1, <3>1 DEF ToMove, Right
    <3>5. Moving(q, w) => Moving(q, w)' BY <2>1, <3>1 DEF Moving, Right
    <3>6. Right(read[q].state, w) => Right(read[q].state, w)' BY <2>1, <3>1 DEF Right
    <3>7. pc[q] \in {"move", "monitor"} /\ w = read[q].target => stateFile' = stateFile
      <4>1. ASSUME pc[q] \in {"move", "monitor"}, w = read[q].target PROVE ~AtWork(p)
        BY <4>1 DEF WindowRight, Owned, AtWork
      <4> QED BY <4>1 DEF RestStays
    <3> QED BY <2>1, <3>2, <3>3, <3>4, <3>5, <3>6, <3>7 DEF CallRight
  <2> QED BY <2>2, <2>3, <2>4
<1> QED BY <1>1, <1>2, <1>3 DEF WindowRight

\* A step that does not touch the file.
LEMMA FileStays ==
  ASSUME NEW w, WindowRight(w), NEW p \in Proc, RestStays(p, w), Quiet(p, w),
         stateFile' = stateFile, home'[w] = home[w]
  PROVE  FileRight(w)'
BY DEF WindowRight, FileRight, Quiet, Right, RestStays

\* A call that is over, or has only the focus left to give, needs a right file.
LEMMA CallEnds ==
  ASSUME NEW w, NEW p \in Proc, pc'[p] \in {"idle", "focus"}
  PROVE  CallRight(p, w)' /\ Quiet(p, w)'
BY DEF CallRight, Quiet

\* What nobody is about to change stays right.
LEMMA NothingRead ==
  ASSUME NEW w, WindowRight(w), UNCHANGED <<pc, read, stateFile>>, home'[w] = home[w],
         placeOf'[w] = placeOf[w] \/ \A p \in Proc : read[p].target # w
  PROVE  WindowRight(w)'
<1>1. Owned(w)' /\ OneWrites' BY DEF WindowRight, Owned, OneWrites, AtWork
<1>2. FileRight(w)' BY DEF WindowRight, FileRight, Quiet, Right
<1>3. ASSUME NEW p \in Proc PROVE CallRight(p, w)'
  <2>1. CallRight(p, w) BY DEF WindowRight
  <2>2. AsRead(p, w) => AsRead(p, w)' BY DEF AsRead
  <2>3. ToMove(p, w) => ToMove(p, w)' BY DEF ToMove, Right
  <2>4. Moving(p, w) => Moving(p, w)' BY DEF Moving, Right
  <2> QED BY <2>1, <2>2, <2>3, <2>4 DEF CallRight, Right
<1> QED BY <1>1, <1>2, <1>3 DEF WindowRight

LEMMA BeginRight ==
  ASSUME SType, NEW w \in Live \ harmed', WindowRight(w), NEW p \in Proc, BeginSummon(p)
  PROVE  WindowRight(w)'
<1>1. pc[p] = "idle" /\ w \in Window /\ UNCHANGED <<placeOf, stateFile, home>>
  BY DEF BeginSummon, Live, screen
<1>2. PICK t \in Live :
         \/ /\ Set(p, "spaces", [NoRead EXCEPT !.target = t, !.place = placeOf, !.focus = focus])
            /\ harmed' = harmed \union Overlapping(t)
         \/ Set(p, "focus", [NoRead EXCEPT !.target = t]) /\ harmed' = harmed
  BY BeginCases
<1>3. ASSUME NEW q \in Proc \ {p}, pc'[q] = pc[q], read'[q] = read[q] PROVE CallRight(q, w)'
  <2>1. CallRight(q, w) BY DEF WindowRight
  <2> QED BY <1>1, <1>3, <2>1 DEF CallRight, AsRead, ToMove, Moving, Right
<1>4. ASSUME NEW step \in {"spaces", "focus"}, pc'[p] = step,
             \A q \in Proc \ {p} : pc'[q] = pc[q] /\ read'[q] = read[q],
             CallRight(p, w)', Owned(w)'
      PROVE  WindowRight(w)'
  <2>1. OneWrites' BY <1>4 DEF WindowRight, OneWrites
  <2>2. FileRight(w)' BY <1>1, <1>4 DEF WindowRight, FileRight, Quiet, Right
  <2> QED BY <1>3, <1>4, <2>1, <2>2 DEF WindowRight
<1>5. CASE /\ Set(p, "spaces", [NoRead EXCEPT !.target = t, !.place = placeOf, !.focus = focus])
           /\ harmed' = harmed \union Overlapping(t)
  <2> DEFINE a == [NoRead EXCEPT !.target = t, !.place = placeOf, !.focus = focus]
  <2>1. a.target = t /\ a.place = placeOf BY BegunTyped, <1>2 DEF Live
  <2> HIDE DEF a
  <2>2. /\ pc'[p] = "spaces" /\ read'[p] = a
        /\ \A q \in Proc \ {p} : pc'[q] = pc[q] /\ read'[q] = read[q]
    BY <1>5 DEF Set, SType, ProcType, a
  <2>3. AsRead(p, w)' BY <1>1, <2>1, <2>2 DEF AsRead, Live
  <2>4. CallRight(p, w)' BY <2>2, <2>3 DEF CallRight
  <2>5. \A q \in Proc : AtWork(q) => w # t /\ read[q].target # w BY <1>5 DEF Overlapping
  <2>6. Owned(w)' BY <2>1, <2>2, <2>5 DEF WindowRight, Owned, AtWork
  <2> QED BY <1>4, <2>2, <2>4, <2>6
<1>6. CASE Set(p, "focus", [NoRead EXCEPT !.target = t])
  <2>1. /\ pc'[p] = "focus"
        /\ \A q \in Proc \ {p} : pc'[q] = pc[q] /\ read'[q] = read[q]
    BY <1>6 DEF Set, SType, ProcType
  <2>2. Owned(w)' BY <2>1 DEF WindowRight, Owned, AtWork
  <2> QED BY <1>4, <2>1, <2>2, CallEnds
<1> QED BY <1>2, <1>5, <1>6

LEMMA ReadRight ==
  ASSUME SType, NEW w \in Live \ harmed', WindowRight(w), NEW p \in Proc, ReadSpaces(p)
  PROVE  WindowRight(w)'
<1>1. pc[p] = "spaces" /\ UNCHANGED <<placeOf, stateFile, home>> BY DEF ReadSpaces, screen
<1>2. /\ pc'[p] = "load" /\ read'[p].target = read[p].target /\ read'[p].place = read[p].place
      /\ \A q \in Proc \ {p} : pc'[q] = pc[q] /\ read'[q] = read[q]
  BY DEF ReadSpaces, Set, SType, ProcType, Reading
<1>3. CallRight(p, w) BY DEF WindowRight
<1>4. AsRead(p, w)' BY <1>1, <1>2, <1>3 DEF CallRight, AsRead
<1>5. CallRight(p, w)' BY <1>2, <1>4 DEF CallRight
<1>6. RestStays(p, w) BY <1>1, <1>2 DEF RestStays, AtWork
<1>7. FileRight(w)' BY <1>1, <1>6, FileStays DEF Quiet
<1> QED BY <1>5, <1>6, <1>7, OneGoesOn

\* A window that was there when the windows were read keeps its origin.
LEMMA PrunedRight ==
  ASSUME SType, NEW w \in Window, NEW p \in Proc, pc[p] = "load", Right(stateFile, w), AsRead(p, w)
  PROVE  Right(Pruned(p), w) /\ Pruned(p) \in Origins
<1>1. stateFile # Torn BY DEF Right
<1>2. stateFile \in Origins /\ Pruned(p) \in Origins BY <1>1, LoadTyped
<1> DEFINE S == {v \in Window : read[p].place[v] # NoSpace}
<1>6. w \in S /\ Pruned(p) = Keep(stateFile, S) BY DEF Pruned, AsRead
<1> HIDE DEF S
<1>7. /\ DOMAIN Keep(stateFile, S) = DOMAIN stateFile \intersect S
      /\ \A v \in DOMAIN stateFile \intersect S : Keep(stateFile, S)[v] = stateFile[v]
  BY <1>2, KeepTyped
<1>3. w \in DOMAIN Pruned(p) <=> w \in DOMAIN stateFile BY <1>6, <1>7
<1>4. w \in DOMAIN stateFile => Pruned(p)[w] = stateFile[w] BY <1>6, <1>7
<1>5. Pruned(p) # Torn BY <1>2, OriginsAreFunctions
<1> QED BY <1>2, <1>3, <1>4, <1>5 DEF Right

LEMMA LoadRight ==
  ASSUME SType, NEW w \in Live \ harmed', WindowRight(w), NEW p \in Proc, LoadFile(p)
  PROVE  WindowRight(w)'
<1> DEFINE t == read[p].target
<1>1. pc[p] = "load" /\ stateFile # Torn /\ UNCHANGED <<placeOf, stateFile, home>> /\ w \in Window
  BY DEF LoadFile, screen, Live
<1>2. CallRight(p, w) /\ Right(stateFile, w) BY <1>1, OthersApart DEF Quiet, AtWork
<1>3. AsRead(p, w) BY <1>1, <1>2 DEF CallRight
<1>4. Right(Pruned(p), w) /\ Pruned(p) \in Origins BY <1>1, <1>2, <1>3, PrunedRight
<1>5. ASSUME NEW step \in {"move", "open", "focus"}, pc'[p] = step, read'[p].target = t,
             \A q \in Proc \ {p} : pc'[q] = pc[q] /\ read'[q] = read[q], CallRight(p, w)'
      PROVE  WindowRight(w)'
  <2>1. RestStays(p, w) BY <1>1, <1>5 DEF RestStays, AtWork
  <2>2. FileRight(w)' BY <1>1, <2>1, FileStays DEF Quiet
  <2> QED BY <1>5, <2>1, <2>2, OneGoesOn
<1>6. t \in Window BY <1>1, LoadTyped
<1>7. CASE Returns(p) /\ Set(p, "move", LoadedBack(p))
  <2>1. Says(LoadedBack(p), t, StateBack(p), Dirty(StateBack(p)), TRUE) BY <1>1, <1>7, LoadedTyped
  <2>2. /\ pc'[p] = "move" /\ read'[p] = LoadedBack(p) /\ \A q \in Proc \ {p} : pc'[q] = pc[q] /\ read'[q] = read[q]
    BY <1>7 DEF Set, SType, ProcType
  <2>3. /\ read'[p].target = t /\ read'[p].state = StateBack(p) /\ read'[p].back = TRUE
        /\ read'[p].dirty = Dirty(StateBack(p))
    BY <2>1, <2>2 DEF Says
  <2> DEFINE S == Window \ {t}
  <2>4. /\ DOMAIN StateBack(p) = DOMAIN Pruned(p) \intersect S /\ StateBack(p) \in Origins
        /\ \A v \in DOMAIN Pruned(p) \intersect S : StateBack(p)[v] = Pruned(p)[v]
    BY <1>4, KeepTyped DEF StateBack
  <2>5. StateBack(p) # Torn BY <2>4, OriginsAreFunctions
  <2>11. w \in S <=> w # t BY <1>1
  <2>6. w # t => Right(StateBack(p), w)
    <3> HIDE DEF S, t
    <3> QED BY <1>4, <2>4, <2>5, <2>11 DEF Right
  <2>7. w = t => w \notin DOMAIN StateBack(p) BY <2>4, <2>11
  <2>8. ToMove(p, w)' BY <1>1, <2>3, <2>6, <2>7 DEF ToMove, Right
  <2>9. ~Dirty(StateBack(p)) => StateBack(p) = stateFile BY DirtySays
  <2>10. CallRight(p, w)' BY <1>1, <2>2, <2>3, <2>8, <2>9 DEF CallRight
  <2> QED BY <1>5, <2>2, <2>3, <2>10
<1>8. CASE Comes(p) /\ Set(p, "move", LoadedHere(p))
  <2>1. Says(LoadedHere(p), t, StateHere(p), Dirty(StateHere(p)), FALSE) BY <1>1, LoadedTyped
  <2>2. /\ pc'[p] = "move" /\ read'[p] = LoadedHere(p) /\ \A q \in Proc \ {p} : pc'[q] = pc[q] /\ read'[q] = read[q]
    BY <1>8 DEF Set, SType, ProcType
  <2>3. /\ read'[p].target = t /\ read'[p].state = StateHere(p) /\ read'[p].back = FALSE
        /\ read'[p].dirty = Dirty(StateHere(p))
    BY <2>1, <2>2 DEF Says
  <2>4. Here(p) \in Origin /\ Here(p).space = read[p].place[t] BY <1>1, LoadTyped DEF Here, Origin
  <2>5. Grown(StateHere(p), Pruned(p), t, Here(p)) BY <1>4, <1>6, <2>4, FirstOriginTyped DEF StateHere
  <2>6. StateHere(p) # Torn BY <2>5, OriginsAreFunctions DEF Grown
  <2>7. w # t => Right(StateHere(p), w) BY <1>4, <2>5, <2>6 DEF Right, Grown
  <2>8. ASSUME w = t
        PROVE  /\ w \in DOMAIN StateHere(p)
               /\ StateHere(p)[w].space = IF home[w] = NoSpace THEN placeOf[w] ELSE home[w]
    BY <1>3, <1>4, <2>4, <2>5, <2>8 DEF Right, Grown, AsRead
  <2>9. ToMove(p, w)' BY <1>1, <2>3, <2>7, <2>8 DEF ToMove, Right
  <2>10. ~Dirty(StateHere(p)) => StateHere(p) = stateFile BY DirtySays
  <2>11. CallRight(p, w)' BY <1>1, <2>2, <2>3, <2>9, <2>10 DEF CallRight
  <2> QED BY <1>5, <2>2, <2>3, <2>11
<1>9. CASE Set(p, IF Pruned(p) # stateFile THEN "open" ELSE "focus", LoadedFocus(p))
  <2>1. Says(LoadedFocus(p), t, Pruned(p), Dirty(Pruned(p)), FALSE) BY <1>1, LoadedTyped
  <2>2. /\ pc'[p] \in {"open", "focus"} /\ read'[p] = LoadedFocus(p) /\ \A q \in Proc \ {p} : pc'[q] = pc[q] /\ read'[q] = read[q]
    BY <1>9 DEF Set, SType, ProcType
  <2>3. read'[p].state = Pruned(p) /\ read'[p].target = t BY <2>1, <2>2 DEF Says
  <2>4. Right(read[p].state, w)' BY <1>1, <1>4, <2>3 DEF Right
  <2>5. CallRight(p, w)' BY <2>2, <2>4 DEF CallRight
  <2> QED BY <1>5, <2>2, <2>3, <2>5
<1> QED BY <1>7, <1>8, <1>9, LoadCases

LEMMA MoveRight ==
  ASSUME SType, NEW w \in Live \ harmed', WindowRight(w), NEW p \in Proc, MoveWindow(p)
  PROVE  WindowRight(w)'
<1> DEFINE t == read[p].target  st == read[p].state
<1>1. /\ pc[p] = "move" /\ stateFile' = stateFile /\ home' = AwayFrom(p) /\ t \in Window /\ st # Torn
      /\ WindowMoved(t, read[p].origin)
  BY OriginsAreFunctions DEF MoveWindow, SType, ProcType, Reading
<1>2. CallRight(p, w) BY DEF WindowRight
<1>3. /\ pc'[p] = "monitor" /\ read' = read /\ \A q \in Proc \ {p} : pc'[q] = pc[q]
  BY DEF MoveWindow, Step, SType, ProcType
<1>4. ToMove(p, w) /\ (~read[p].dirty /\ w = t => st = stateFile) BY <1>1, <1>2 DEF CallRight
<1>5. w \in Window /\ placeOf[w] # NoSpace BY DEF Live
<1>6. w # t => home'[w] = home[w] /\ placeOf'[w] = placeOf[w]
  BY <1>1, <1>5, MovedTyped DEF AwayFrom, SType, HistoryType
<1>7. w = t /\ ~read[p].back => home'[w] = (IF home[w] = NoSpace THEN placeOf[w] ELSE home[w])
  BY <1>1, <1>5 DEF AwayFrom, SType, HistoryType
<1>8. Moving(p, w)'
  <2>1. CASE w # t BY <1>3, <1>4, <1>6, <2>1 DEF ToMove, Moving, Right
  <2>2. CASE w = t /\ read[p].back BY <1>3, <1>4, <2>2 DEF ToMove, Moving
  <2>3. CASE w = t /\ ~read[p].back
    BY <1>1, <1>3, <1>4, <1>5, <1>7, <2>3 DEF ToMove, Moving, Right
  <2> QED BY <2>1, <2>2, <2>3
<1>9. CallRight(p, w)' BY <1>1, <1>3, <1>4, <1>8 DEF CallRight
<1>10. RestStays(p, w) BY <1>1, <1>3, <1>6 DEF RestStays, AtWork
<1>11. FileRight(w)'
  <2>1. CASE w # t BY <1>1, <1>6, <1>10, <2>1, FileStays DEF Quiet
  <2>2. CASE w = t BY <1>3, <2>2 DEF FileRight, Quiet
  <2> QED BY <2>1, <2>2
<1> QED BY <1>9, <1>10, <1>11, OneGoesOn

LEMMA MonitorRight ==
  ASSUME SType, NEW w \in Live \ harmed', WindowRight(w), NEW p \in Proc, Monitor(p)
  PROVE  WindowRight(w)'
<1> DEFINE t == read[p].target  st == read[p].state
<1>1. /\ pc[p] = "monitor" /\ stateFile' = stateFile /\ t \in Window /\ st # Torn
      /\ home' = IF read[p].back THEN [home EXCEPT ![t] = NoSpace] ELSE home
  BY OriginsAreFunctions DEF Monitor, SType, ProcType, Reading
<1>2. CallRight(p, w) BY DEF WindowRight
<1>3. /\ pc'[p] = Saved(p) /\ read' = read /\ \A q \in Proc \ {p} : pc'[q] = pc[q]
      /\ pc'[p] \in {"open", "focus"}
  BY DEF Monitor, Step, Saved, SType, ProcType
<1>4. Moving(p, w) /\ (~read[p].dirty /\ w = t => st = stateFile) BY <1>1, <1>2 DEF CallRight
<1>5. w \in Window /\ home \in [Window -> Place] BY DEF Live, SType, HistoryType
<1>6. w # t => home'[w] = home[w] /\ placeOf'[w] = placeOf[w]
  <2>1. w # t => placeOf'[w] = placeOf[w] BY <1>1, <1>5, MovedTyped DEF Monitor, SType
  <2> QED BY <1>1, <1>5, <2>1
<1>7. Right(read[p].state, w)'
  <2>1. CASE w # t BY <1>3, <1>4, <1>6, <2>1 DEF Moving, Right
  <2>2. CASE w = t /\ read[p].back BY <1>1, <1>3, <1>4, <1>5, <2>2 DEF Moving, Right
  <2>3. CASE w = t /\ ~read[p].back BY <1>1, <1>3, <1>4, <2>3 DEF Moving, Right
  <2> QED BY <2>1, <2>2, <2>3
<1>8. CallRight(p, w)' BY <1>3, <1>7 DEF CallRight
<1>9. RestStays(p, w) BY <1>1, <1>3, <1>6 DEF RestStays, AtWork
<1>10. FileRight(w)'
  <2>1. CASE w # t BY <1>1, <1>6, <1>9, <2>1, FileStays DEF Quiet
  <2>2. CASE w = t /\ read[p].dirty BY <1>3, <2>2 DEF FileRight, Quiet, Saved
  <2>3. CASE w = t /\ ~read[p].dirty BY <1>1, <1>3, <1>4, <1>7, <2>3 DEF FileRight, Right
  <2> QED BY <2>1, <2>2, <2>3
<1> QED BY <1>8, <1>9, <1>10, OneGoesOn

\* If another call is writing, every window is harmed.
LEMMA OpenRight ==
  ASSUME SType, NEW w \in Live \ harmed', WindowRight(w), NEW p \in Proc, OpenFile(p)
  PROVE  WindowRight(w)'
<1>1. pc[p] = "open" /\ stateFile' = Torn /\ UNCHANGED <<home, placeOf>> BY DEF OpenFile, screen
<1>2. CallRight(p, w) /\ \A q \in Proc : pc[q] # "write" BY DEF WindowRight, OpenFile, Live
<1>3. /\ pc'[p] = "write" /\ read' = read /\ \A q \in Proc \ {p} : pc'[q] = pc[q]
  BY DEF OpenFile, Step, SType, ProcType
<1>4. Right(read[p].state, w)' BY <1>1, <1>2, <1>3 DEF CallRight, Right
<1>5. CallRight(p, w)' BY <1>1, <1>3, <1>4 DEF CallRight
<1>6. FileRight(w)' BY <1>3 DEF FileRight, Quiet
<1>7. RestStays(p, w) BY <1>1, <1>2, <1>3 DEF RestStays, AtWork
<1> QED BY <1>5, <1>6, <1>7, OneGoesOn

LEMMA WriteRight ==
  ASSUME SType, NEW w \in Live \ harmed', WindowRight(w), NEW p \in Proc, WriteFile(p)
  PROVE  WindowRight(w)'
<1>1. pc[p] = "write" /\ UNCHANGED <<home, placeOf>> BY DEF WriteFile, screen
<1>2. CallRight(p, w) BY DEF WindowRight
<1>3. stateFile' = read[p].state BY <1>1, <1>2 DEF CallRight, WriteFile
<1>4. /\ pc'[p] \in {"idle", "focus"} /\ \A q \in Proc \ {p} : pc'[q] = pc[q] /\ read'[q] = read[q]
  BY DEF WriteFile, Step, Set, SType, ProcType
<1>5. Right(stateFile, w)' BY <1>1, <1>2, <1>3 DEF CallRight, Right
<1>6. RestStays(p, w) BY <1>1, <1>4 DEF RestStays, AtWork
<1> QED BY <1>4, <1>5, <1>6, CallEnds, OneGoesOn DEF FileRight

\* An end by an error, by a death or after the focus: the file is right, or w is harmed.
LEMMA EndRight ==
  ASSUME SType, NEW w \in Live \ harmed', WindowRight(w), NEW p \in Proc,
         LoadFails(p) \/ FocusTarget(p) \/ Dies(p)
  PROVE  WindowRight(w)'
<1>1. UNCHANGED <<stateFile, home, placeOf>> /\ Set(p, "idle", NoRead) /\ Quiet(p, w)
  BY DEF LoadFails, FocusTarget, Dies, Quiet, Live, screen
<1>2. /\ pc'[p] = "idle" /\ \A q \in Proc \ {p} : pc'[q] = pc[q] /\ read'[q] = read[q]
  BY <1>1 DEF Set, SType, ProcType
<1>3. RestStays(p, w) BY <1>1, <1>2 DEF RestStays, AtWork
<1>4. FileRight(w)' BY <1>1, <1>3, FileStays
<1> QED BY <1>2, <1>3, <1>4, CallEnds, OneGoesOn

\* The user and the compositor: a window they touch while a call has chosen it is harmed.
LEMMA OutsideRight ==
  ASSUME SType, NEW w \in Live \ harmed', w \in Live', WindowRight(w),
         UserViews \/ UserFocuses \/ UserMoves \/ WindowCloses \/ SpaceVanishes
  PROVE  WindowRight(w)'
<1>1. UNCHANGED <<pc, read, stateFile>> /\ w \in Window /\ placeOf \in [Window -> Place] /\ home \in [Window -> Place]
  BY DEF UserViews, UserFocuses, UserMoves, WindowCloses, SpaceVanishes, Live, SType, ScreenType, HistoryType
<1>2. CASE UserViews \/ UserFocuses \/ SpaceVanishes
  <2>1. UNCHANGED <<placeOf, home>> BY <1>2 DEF UserViews, UserFocuses, SpaceVanishes
  <2> QED BY <1>1, <2>1, NothingRead
<1>3. CASE UserMoves
  <2>1. home' = home /\ Touches(focus) BY <1>3 DEF UserMoves
  <2>2. w # focus => placeOf'[w] = placeOf[w] BY <1>1, <1>3 DEF UserMoves
  <2>3. w = focus => \A p \in Proc : read[p].target # w BY <2>1 DEF Touches
  <2> QED BY <1>1, <2>1, <2>2, <2>3, NothingRead
<1>4. CASE WindowCloses
  <2>1. PICK v \in Live : placeOf' = [placeOf EXCEPT ![v] = NoSpace] /\ home' = [home EXCEPT ![v] = NoSpace]
    BY <1>4 DEF WindowCloses
  <2>2. w # v BY <1>1, <2>1 DEF Live
  <2>3. placeOf'[w] = placeOf[w] /\ home'[w] = home[w] BY <1>1, <2>1, <2>2
  <2> QED BY <1>1, <2>3, NothingRead
<1> QED BY <1>2, <1>3, <1>4

LEMMA InvKept == SInv /\ [SummonNext]_summonVars => SInv'
<1> SUFFICES ASSUME SInv, [SummonNext]_summonVars PROVE SInv'
  OBVIOUS
<1>1. SType /\ SType' /\ Live' \subseteq Live /\ harmed \subseteq harmed' BY TypeKept DEF SInv
<1>2. SUFFICES ASSUME NEW w \in Live' \ harmed' PROVE WindowRight(w)'
  BY <1>1 DEF SInv
<1>3. w \in Live \ harmed' /\ w \in Live' /\ WindowRight(w) BY <1>1, <1>2 DEF SInv
<1>4. ASSUME NEW p \in Proc, Call(p) PROVE WindowRight(w)'
  BY <1>1, <1>3, <1>4, BeginRight, ReadRight, LoadRight, MoveRight, MonitorRight, OpenRight, WriteRight, EndRight DEF Call
<1>5. CASE UNCHANGED summonVars BY <1>3, <1>5, NothingRead DEF summonVars
<1> QED BY <1>1, <1>3, <1>4, <1>5, OutsideRight DEF SummonNext

\* Between calls the file knows which windows are away and where they came from, but for
\* the windows of calls that overlapped and of one that died between its move and what it
\* saves, and unless two wrote at a time or one died writing (retain_live_summon_windows,
\* summon_or_return, save_summon_state).
THEOREM OriginsAlwaysKept == SummonSpec => []OriginsKept
<1>1. SInv => OriginsKept
  BY DEF SInv, OriginsKept, WindowRight, FileRight, Quiet, Right, NoCallRuns
<1> QED BY <1>1, InvInit, InvKept, PTL DEF SummonSpec

-----------------------------------------------------------------------------
(* A window that is taken back comes home.                                 *)

\* A window is on a workspace there is, and an output shows one of its own.
ScreenRight == /\ placeOf \in [Window -> spaces \union {NoSpace}]
               /\ shownSpace \in [Output -> spaces] /\ \A o \in Output : OutputOf[shownSpace[o]] = o

\* The window of a call is there, unless it is harmed.
TargetLives == \A p \in Proc : pc[p] # "idle" /\ read[p].target \notin harmed => read[p].target \in Live

\* An origin's output is that of its workspace.
Known(f, w) == f # Torn /\ w \in DOMAIN f => f[w].output = OutputOf[f[w].space]

\* What a call that takes w back has chosen is w's origin; once w has moved it is
\* there, or the workspace has vanished.
GoesHome(p, w) == /\ home[w] \in Space /\ read[p].output = OutputOf[home[w]]
                  /\ pc[p] = "move" => read[p].origin = home[w]
                  /\ pc[p] = "monitor" => placeOf[w] = home[w] \/ home[w] \notin spaces
HomeRight(p, w) ==
  /\ pc[p] = "load" /\ w = read[p].target => read[p].output = OutputOf[placeOf[w]]
  /\ pc[p] \in {"move", "monitor", "open", "write"} => Known(read[p].state, w)
  /\ pc[p] \in {"move", "monitor"} /\ read[p].back /\ w = read[p].target => GoesHome(p, w)
WindowHome(w) == Known(stateFile, w) /\ \A p \in Proc : HomeRight(p, w)

SummonInv == /\ SInv /\ ScreenRight /\ TargetLives
        /\ \A w \in Live \ harmed : WindowHome(w)

LEMMA ReturnInit == SummonInit => SummonInv
<1> SUFFICES ASSUME SummonInit PROVE SummonInv
  OBVIOUS
<1>1. \A p \in Proc : pc[p] = "idle" BY DEF SummonInit
<1>2. ScreenRight BY DEF SummonInit, ScreenRight
<1>3. \A w \in Window : Known(stateFile, w) BY DEF SummonInit, Known
<1> QED BY <1>1, <1>2, <1>3, InvInit DEF SummonInv, TargetLives, WindowHome, HomeRight, Live

-----------------------------------------------------------------------------
(* The screen *)

LEMMA MovedRight ==
  ASSUME ScreenRight, NEW w \in Window, NEW s, WindowMoved(w, s)
  PROVE  /\ placeOf' \in [Window -> spaces \union {NoSpace}]
         /\ w \in Live /\ s \in spaces => placeOf'[w] = s
         /\ ~(w \in Live /\ s \in spaces) => placeOf' = placeOf
BY DEF ScreenRight, WindowMoved

LEMMA ScreenRightKept == ASSUME SType, ScreenRight, [SummonNext]_summonVars PROVE ScreenRight'
<1>0. ScreenType /\ ProcType BY DEF SType
<1>1. CASE UNCHANGED screen BY <1>1 DEF screen, ScreenRight
<1>2. ASSUME NEW p \in Proc, MoveWindow(p) PROVE ScreenRight'
  BY <1>0, <1>2, MovedRight DEF MoveWindow, ScreenRight, ProcType
<1>3. ASSUME NEW p \in Proc, Monitor(p) PROVE ScreenRight'
  BY <1>0, <1>3, MovedRight DEF Monitor, ScreenRight, ProcType
<1>4. ASSUME NEW p \in Proc, FocusTarget(p) PROVE ScreenRight'
  <2> DEFINE w == read[p].target
  <2>1. w \in Window BY <1>0, <1>4 DEF FocusTarget, ProcType
  <2>2. CASE w \notin Live BY <1>4, <2>2 DEF FocusTarget, ScreenRight
  <2>3. CASE w \in Live
    <3>1. placeOf[w] \in spaces BY <2>1, <2>3 DEF Live, ScreenRight
    <3>2. UNCHANGED <<placeOf, spaces>> /\ view' = placeOf[w]
          /\ shownSpace' = [shownSpace EXCEPT ![OutputOf[placeOf[w]]] = placeOf[w]]
      BY <1>4, <2>3 DEF FocusTarget
    <3> QED BY <3>1, <3>2 DEF ScreenRight
  <2> QED BY <2>2, <2>3
<1>5. ASSUME NEW p \in Proc, Call(p) PROVE ScreenRight'
  BY <1>1, <1>2, <1>3, <1>4, <1>5
  DEF Call, BeginSummon, ReadSpaces, LoadFile, LoadFails, OpenFile, WriteFile, Dies
<1>6. CASE UserViews \/ UserFocuses BY <1>6 DEF UserViews, UserFocuses, ScreenRight
<1>7. CASE UserMoves
  BY <1>0, <1>7 DEF UserMoves, ScreenRight
<1>8. CASE WindowCloses BY <1>8 DEF WindowCloses, ScreenRight
<1>9. CASE SpaceVanishes
  <2>1. PICK s \in spaces : /\ \A w \in Window : placeOf[w] # s
                            /\ \A o \in Output : shownSpace[o] # s
                            /\ spaces' = spaces \ {s}
    BY <1>9 DEF SpaceVanishes
  <2>2. UNCHANGED <<placeOf, shownSpace>> BY <1>9 DEF SpaceVanishes
  <2> QED BY <2>1, <2>2 DEF ScreenRight
<1> QED BY <1>1, <1>5, <1>6, <1>7, <1>8, <1>9 DEF SummonNext, summonVars, screen

\* A window only closes under WindowCloses, which harms it if a call has chosen it.
LEMMA LivesOn ==
  ASSUME SType, ScreenRight, NEW p \in Proc, Call(p)
  PROVE  Live \subseteq Live'
<1>0. ScreenType /\ ProcType BY DEF SType
<1>1. CASE placeOf' = placeOf BY <1>1 DEF Live
<1>2. CASE MoveWindow(p) BY <1>0, <1>2, MovedTyped DEF MoveWindow, ProcType
<1>3. CASE Monitor(p)
  BY <1>0, <1>1, <1>3, MovedTyped DEF Monitor, ProcType
<1> QED BY <1>1, <1>2, <1>3 DEF Call, BeginSummon, ReadSpaces, LoadFile, LoadFails, OpenFile, WriteFile,
           FocusTarget, Dies, screen

\* What a step makes of a call's window: the same, one that is there, or none.
LEMMA TargetStays ==
  ASSUME SType, NEW p \in Proc, Call(p), NEW q \in Proc, pc'[q] # "idle"
  PROVE  \/ pc[q] # "idle" /\ read'[q].target = read[q].target
         \/ read'[q].target \in Live
<1>0. ProcType BY DEF SType
<1>1. CASE BeginSummon(p)
  <2>1. PICK t \in Live :
           \/ Set(p, "spaces", [NoRead EXCEPT !.target = t, !.place = placeOf, !.focus = focus])
           \/ Set(p, "focus", [NoRead EXCEPT !.target = t])
    BY <1>1, BeginCases
  <2> DEFINE a == [NoRead EXCEPT !.target = t, !.place = placeOf, !.focus = focus]
             b == [NoRead EXCEPT !.target = t]
  <2>2. t \in Window BY <2>1 DEF Live
  <2>3. a.target = t /\ b.target = t BY <2>2, BegunTyped
  <2>4. Set(p, "spaces", a) \/ Set(p, "focus", b) BY <2>1
  <2> HIDE DEF a, b
  <2> QED BY <1>0, <2>1, <2>3, <2>4 DEF Set, ProcType
<1>2. CASE ReadSpaces(p) BY <1>0, <1>2 DEF ReadSpaces, Set, ProcType, Reading
<1>3. CASE LoadFile(p)
  <2>1. /\ pc[p] = "load" /\ stateFile # Torn BY <1>3 DEF LoadFile
  <2>2. \E r \in Reading : r.target = read[p].target /\ \E step : Set(p, step, r)
    BY <1>3, <2>1, LoadCases, LoadedTyped DEF Says
  <2> QED BY <1>0, <2>1, <2>2 DEF Set, ProcType
<1>4. CASE \E step : Step(p, step) /\ pc[p] # "idle" BY <1>0, <1>4 DEF Step, ProcType
<1>5. CASE Set(p, "idle", NoRead) BY <1>0, <1>5 DEF Set, ProcType
<1> QED BY <1>1, <1>2, <1>3, <1>4, <1>5 DEF Call, LoadFails, MoveWindow, Monitor, OpenFile, WriteFile, FocusTarget, Dies

LEMMA TargetLivesKept ==
  ASSUME SType, ScreenRight, TargetLives, [SummonNext]_summonVars
  PROVE  TargetLives'
<1>1. harmed \subseteq harmed' /\ placeOf \in [Window -> Place] BY TypeKept DEF SType, ScreenType
<1>2. ASSUME NEW p \in Proc, Call(p) PROVE TargetLives'
  BY <1>1, <1>2, LivesOn, TargetStays DEF TargetLives
<1>3. CASE UNCHANGED <<pc, read>> /\ Live \subseteq Live' BY <1>1, <1>3 DEF TargetLives
<1>4. CASE UserMoves
  <2>1. Live \subseteq Live'
    BY <1>1, <1>4, SummonAssumption DEF UserMoves, Live, SType, ScreenType
  <2> QED BY <1>3, <1>4, <2>1 DEF UserMoves
<1>5. CASE WindowCloses
  <2>1. PICK v \in Live : placeOf' = [placeOf EXCEPT ![v] = NoSpace] /\ Touches(v)
    BY <1>5 DEF WindowCloses
  <2>2. UNCHANGED <<pc, read>> BY <1>5 DEF WindowCloses
  <2>3. Live \ {v} \subseteq Live' BY <1>1, <2>1 DEF Live
  <2>4. (\E p \in Proc : read[p].target = v) => v \in harmed' BY <2>1 DEF Touches
  <2> QED BY <1>1, <2>2, <2>3, <2>4 DEF TargetLives
<1>6. CASE UserViews \/ UserFocuses \/ SpaceVanishes
  BY <1>3, <1>6 DEF UserViews, UserFocuses, SpaceVanishes, Live
<1>7. CASE UNCHANGED summonVars BY <1>3, <1>7 DEF summonVars, Live
<1> QED BY <1>2, <1>4, <1>5, <1>6, <1>7 DEF SummonNext

-----------------------------------------------------------------------------
(* A call and a window it has not harmed *)

Unharmed(w) == SType /\ ScreenRight /\ w \in Live \ harmed' /\ WindowRight(w) /\ WindowHome(w)

\* The other calls at work are about other windows.
LEMMA HomeGoesOn ==
  ASSUME NEW w, Unharmed(w), NEW p \in Proc, RestStays(p, w), spaces' = spaces,
         Known(stateFile, w)', HomeRight(p, w)'
  PROVE  WindowHome(w)'
<1>1. ASSUME NEW q \in Proc \ {p} PROVE HomeRight(q, w)'
  <2>1. HomeRight(q, w) /\ pc'[q] = pc[q] /\ read'[q] = read[q] BY DEF Unharmed, WindowHome, RestStays
  <2>2. CASE ~AtWork(q) BY <2>1, <2>2 DEF AtWork, HomeRight
  <2>3. CASE AtWork(q) /\ AtWork(p) /\ read[p].target = w BY <2>3 DEF Unharmed, WindowRight, Owned
  <2>4. CASE ~(AtWork(p) /\ read[p].target = w)
    <3>1. home'[w] = home[w] /\ placeOf'[w] = placeOf[w] BY <2>4 DEF RestStays
    <3> QED BY <2>1, <3>1 DEF HomeRight, GoesHome, Known
  <2> QED BY <2>2, <2>3, <2>4
<1> QED BY <1>1 DEF WindowHome

\* A step that neither writes nor chooses.
LEMMA OnHome ==
  ASSUME NEW w, Unharmed(w), NEW p \in Proc, RestStays(p, w), spaces' = spaces,
         pc[p] \in {"monitor", "open"}, stateFile' = stateFile \/ stateFile' = Torn,
         pc'[p] \in {"open", "write", "focus"}, read' = read
  PROVE  WindowHome(w)'
<1>1. Known(stateFile, w)' BY DEF Unharmed, WindowHome, Known
<1>2. HomeRight(p, w)' BY DEF Unharmed, WindowHome, HomeRight, Known
<1> QED BY <1>1, <1>2, HomeGoesOn

LEMMA BeginHome ==
  ASSUME NEW w, Unharmed(w), NEW p \in Proc, BeginSummon(p)
  PROVE  WindowHome(w)'
<1>1. UNCHANGED <<stateFile, placeOf, home, spaces>> BY DEF BeginSummon, screen
<1>2. Known(stateFile, w)' BY <1>1 DEF Unharmed, WindowHome, Known
<1>3. /\ pc'[p] \in {"spaces", "focus"}
      /\ \A q \in Proc \ {p} : pc'[q] = pc[q] /\ read'[q] = read[q]
  BY BeginCases DEF Set, Unharmed, SType, ProcType
<1>4. HomeRight(p, w)' BY <1>3 DEF HomeRight
<1>5. \A q \in Proc \ {p} : HomeRight(q, w)'
  BY <1>1, <1>3 DEF Unharmed, WindowHome, HomeRight, GoesHome, Known
<1> QED BY <1>2, <1>4, <1>5 DEF WindowHome

LEMMA ReadHome ==
  ASSUME NEW w, Unharmed(w), NEW p \in Proc, ReadSpaces(p)
  PROVE  WindowHome(w)'
<1> DEFINE from == read[p].place[read[p].target]
           out == IF from \in spaces THEN OutputOf[from] ELSE NoOutput
<1>1. /\ pc[p] = "spaces" /\ UNCHANGED <<stateFile, placeOf, home, spaces>>
      /\ Set(p, "load", [read[p] EXCEPT !.view = view, !.output = out])
  BY DEF ReadSpaces, screen
<1>2. /\ pc'[p] = "load" /\ read'[p].output = out /\ read'[p].target = read[p].target
      /\ \A q \in Proc \ {p} : pc'[q] = pc[q] /\ read'[q] = read[q]
  BY <1>1 DEF Set, Unharmed, SType, ProcType, Reading
<1>3. CallRight(p, w) BY DEF Unharmed, WindowRight
<1>4. w = read[p].target => from = placeOf[w] /\ placeOf[w] \in spaces
  BY <1>1, <1>3 DEF CallRight, AsRead, Unharmed, ScreenRight, Live
<1>5. HomeRight(p, w)' BY <1>1, <1>2, <1>4 DEF HomeRight
<1>6. Known(stateFile, w)' BY <1>1 DEF Unharmed, WindowHome, Known
<1>7. RestStays(p, w) BY <1>1, <1>2 DEF RestStays, AtWork
<1> QED BY <1>1, <1>5, <1>6, <1>7, HomeGoesOn

LEMMA MoveHome ==
  ASSUME NEW w, Unharmed(w), NEW p \in Proc, MoveWindow(p)
  PROVE  WindowHome(w)'
<1> DEFINE t == read[p].target
<1>1. /\ pc[p] = "move" /\ stateFile' = stateFile /\ spaces' = spaces /\ home' = AwayFrom(p)
      /\ WindowMoved(t, read[p].origin) /\ t \in Window
  BY DEF MoveWindow, Unharmed, SType, ProcType
<1>2. /\ pc'[p] = "monitor" /\ read' = read /\ \A q \in Proc \ {p} : pc'[q] = pc[q]
  BY DEF MoveWindow, Step, Unharmed, SType, ProcType
<1>3. HomeRight(p, w) /\ Known(stateFile, w) BY DEF Unharmed, WindowHome
<1>4. ASSUME read[p].back, w = t PROVE GoesHome(p, w)'
  <2>1. GoesHome(p, w) /\ home' = home BY <1>1, <1>3, <1>4 DEF HomeRight, AwayFrom
  <2>2. home[w] \in spaces => placeOf'[w] = home[w]
    BY <1>1, <1>4, <2>1, MovedRight DEF Unharmed, GoesHome
  <2> QED BY <1>1, <1>2, <2>1, <2>2 DEF GoesHome
<1>5. Known(read[p].state, w)' BY <1>1, <1>2, <1>3 DEF HomeRight, Known
<1>6. HomeRight(p, w)' BY <1>2, <1>4, <1>5 DEF HomeRight
<1>7. Known(stateFile, w)' BY <1>1, <1>3 DEF Known
<1>8. w # t => home'[w] = home[w] /\ placeOf'[w] = placeOf[w]
  BY <1>1, MovedTyped DEF AwayFrom, Unharmed, SType, HistoryType, Live
<1>9. RestStays(p, w) BY <1>1, <1>2, <1>8 DEF RestStays, AtWork
<1> QED BY <1>1, <1>6, <1>7, <1>9, HomeGoesOn

LEMMA WriteHome ==
  ASSUME NEW w, Unharmed(w), NEW p \in Proc, WriteFile(p)
  PROVE  WindowHome(w)'
<1>1. pc[p] = "write" /\ UNCHANGED <<home, placeOf, spaces>> BY DEF WriteFile, screen
<1>2. /\ pc'[p] \in {"idle", "focus"} /\ \A q \in Proc \ {p} : pc'[q] = pc[q] /\ read'[q] = read[q]
  BY DEF WriteFile, Step, Set, Unharmed, SType, ProcType
<1>3. HomeRight(p, w) BY DEF Unharmed, WindowHome
<1>4. stateFile' \in {read[p].state, Torn} BY DEF WriteFile
<1>5. Known(stateFile, w)' BY <1>1, <1>3, <1>4 DEF HomeRight, Known
<1>6. HomeRight(p, w)' BY <1>2 DEF HomeRight
<1>7. RestStays(p, w) BY <1>1, <1>2 DEF RestStays, AtWork
<1> QED BY <1>1, <1>5, <1>6, <1>7, HomeGoesOn

LEMMA KeepsEntry ==
  ASSUME NEW f \in Origins, NEW S, NEW w \in DOMAIN Keep(f, S)
  PROVE  w \in DOMAIN f /\ Keep(f, S)[w] = f[w]
<1>1. DOMAIN Keep(f, S) = DOMAIN f \intersect S /\ \A v \in DOMAIN f \intersect S : Keep(f, S)[v] = f[v]
  BY KeepTyped
<1>2. w \in DOMAIN f \intersect S BY <1>1
<1> QED BY <1>1, <1>2

LEMMA LoadHome ==
  ASSUME NEW w, Unharmed(w), NEW p \in Proc, LoadFile(p)
  PROVE  WindowHome(w)'
<1> DEFINE t == read[p].target
<1>0. SType /\ w \in Window /\ w \in Live BY DEF Unharmed, Live
<1>1. pc[p] = "load" /\ stateFile # Torn /\ UNCHANGED <<stateFile, placeOf, home, spaces>> BY DEF LoadFile, screen
<1>2. CallRight(p, w) /\ HomeRight(p, w) /\ Right(stateFile, w) /\ Known(stateFile, w)
  BY <1>1, OthersApart DEF Quiet, AtWork, Unharmed, WindowHome
<1>3. AsRead(p, w) BY <1>1, <1>2 DEF CallRight
<1>4. Right(Pruned(p), w) /\ Pruned(p) \in Origins BY <1>0, <1>1, <1>2, <1>3, PrunedRight
<1>5. Known(Pruned(p), w)
  <2> DEFINE S == {v \in Window : read[p].place[v] # NoSpace}
  <2>1. stateFile \in Origins /\ Pruned(p) = Keep(stateFile, S) BY <1>0, <1>1, LoadTyped DEF Pruned
  <2> HIDE DEF S
  <2>2. w \in DOMAIN Pruned(p) => w \in DOMAIN stateFile /\ Pruned(p)[w] = stateFile[w] BY <2>1, KeepsEntry
  <2> QED BY <1>1, <1>2, <2>2 DEF Known
<1>6. t \in Window /\ read[p] \in Reading BY <1>0, <1>1, LoadTyped
<1>7. ASSUME NEW step \in {"move", "open", "focus"}, pc'[p] = step, read'[p].target = t,
             \A q \in Proc \ {p} : pc'[q] = pc[q] /\ read'[q] = read[q], HomeRight(p, w)'
      PROVE  WindowHome(w)'
  <2>1. RestStays(p, w) BY <1>1, <1>7 DEF RestStays, AtWork
  <2>2. Known(stateFile, w)' BY <1>1, <1>2 DEF Known
  <2> QED BY <1>1, <1>7, <2>1, <2>2, HomeGoesOn
<1>8. CASE Returns(p) /\ Set(p, "move", LoadedBack(p))
  <2>1. Says(LoadedBack(p), t, StateBack(p), Dirty(StateBack(p)), TRUE) BY <1>0, <1>1, <1>8, LoadedTyped
  <2>2. /\ pc'[p] = "move" /\ read'[p] = LoadedBack(p) /\ \A q \in Proc \ {p} : pc'[q] = pc[q] /\ read'[q] = read[q]
    BY <1>0, <1>8 DEF Set, SType, ProcType
  <2>3. read'[p].target = t /\ read'[p].state = StateBack(p) BY <2>1, <2>2 DEF Says
  <2>4. read'[p].origin = Pruned(p)[t].space /\ read'[p].output = Pruned(p)[t].output
    BY <2>2 DEF LoadedBack, GoingBack, Choice, NoRead
  <2>5. t \in DOMAIN Pruned(p) BY <1>8 DEF Returns
  <2> DEFINE S == Window \ {t}
  <2>6. StateBack(p) = Keep(Pruned(p), S) BY DEF StateBack
  <2> HIDE DEF S
  <2>7. w \in DOMAIN StateBack(p) => w \in DOMAIN Pruned(p) /\ StateBack(p)[w] = Pruned(p)[w]
    BY <1>4, <2>6, KeepsEntry
  <2>8. Pruned(p) # Torn BY <1>4, OriginsAreFunctions
  <2>9. Known(read[p].state, w)' BY <1>5, <2>3, <2>7, <2>8 DEF Known
  <2>10. w = t => GoesHome(p, w)'
    <3>1. Pruned(p)[t] \in Origin BY <1>4, <2>5, OriginsAreFunctions
    <3> QED BY <1>1, <1>4, <1>5, <2>2, <2>4, <2>5, <2>8, <3>1 DEF GoesHome, Right, Known, Origin
  <2>11. HomeRight(p, w)' BY <2>2, <2>3, <2>9, <2>10 DEF HomeRight
  <2> QED BY <1>7, <2>2, <2>3, <2>11
<1>9. CASE Comes(p) /\ Set(p, "move", LoadedHere(p))
  <2>1. Says(LoadedHere(p), t, StateHere(p), Dirty(StateHere(p)), FALSE) BY <1>0, <1>1, LoadedTyped
  <2>2. /\ pc'[p] = "move" /\ read'[p] = LoadedHere(p) /\ \A q \in Proc \ {p} : pc'[q] = pc[q] /\ read'[q] = read[q]
    BY <1>0, <1>9 DEF Set, SType, ProcType
  <2>3. read'[p].state = StateHere(p) /\ read'[p].back = FALSE /\ read'[p].target = t BY <2>1, <2>2 DEF Says
  <2>4. Here(p) \in Origin /\ Here(p).space = read[p].place[t] /\ Here(p).output = read[p].output
    BY <1>0, <1>1, LoadTyped DEF Here, Origin
  <2>5. Grown(StateHere(p), Pruned(p), t, Here(p)) BY <1>4, <1>6, <2>4, FirstOriginTyped DEF StateHere
  <2>6. w = t => Here(p).output = OutputOf[Here(p).space]
    BY <1>1, <1>2, <1>3, <2>4 DEF HomeRight, AsRead
  <2>7. Pruned(p) # Torn BY <1>4, OriginsAreFunctions
  <2>8. Known(StateHere(p), w)
    BY <1>5, <2>5, <2>6, <2>7 DEF Known, Grown
  <2>9. HomeRight(p, w)' BY <2>2, <2>3, <2>8 DEF HomeRight, Known
  <2> QED BY <1>7, <2>2, <2>3, <2>9
<1>10. CASE Set(p, IF Pruned(p) # stateFile THEN "open" ELSE "focus", LoadedFocus(p))
  <2>1. Says(LoadedFocus(p), t, Pruned(p), Dirty(Pruned(p)), FALSE) BY <1>0, <1>1, LoadedTyped
  <2>2. /\ pc'[p] \in {"open", "focus"} /\ read'[p] = LoadedFocus(p) /\ \A q \in Proc \ {p} : pc'[q] = pc[q] /\ read'[q] = read[q]
    BY <1>0, <1>10 DEF Set, SType, ProcType
  <2>3. read'[p].state = Pruned(p) /\ read'[p].target = t BY <2>1, <2>2 DEF Says
  <2>4. HomeRight(p, w)' BY <1>5, <2>2, <2>3 DEF HomeRight, Known
  <2> QED BY <1>7, <2>2, <2>3, <2>4
<1> QED BY <1>8, <1>9, <1>10, LoadCases

\* The user and the compositor, or nobody: they touch no window that a call has chosen.
LEMMA OutsideHome ==
  ASSUME NEW w, Unharmed(w), w \in Live',
         UserViews \/ UserFocuses \/ UserMoves \/ WindowCloses \/ SpaceVanishes \/ UNCHANGED summonVars
  PROVE  WindowHome(w)'
<1>1. /\ UNCHANGED <<pc, read, stateFile>> /\ spaces' \subseteq spaces /\ w \in Window
      /\ placeOf \in [Window -> Place] /\ home \in [Window -> Place]
  BY DEF UserViews, UserFocuses, UserMoves, WindowCloses, SpaceVanishes, summonVars, Unharmed, Live, SType, ScreenType, HistoryType
<1>2. home'[w] = home[w] /\ (placeOf'[w] = placeOf[w] \/ \A p \in Proc : read[p].target # w)
  <2>1. CASE UserViews \/ UserFocuses \/ SpaceVanishes \/ UNCHANGED summonVars
    BY <2>1 DEF UserViews, UserFocuses, SpaceVanishes, summonVars
  <2>2. CASE UserMoves
    <3>1. home' = home /\ Touches(focus) /\ w \notin harmed' BY <2>2 DEF UserMoves, Unharmed
    <3>2. w # focus => placeOf'[w] = placeOf[w] BY <1>1, <2>2 DEF UserMoves
    <3>3. w = focus => \A p \in Proc : read[p].target # w BY <3>1 DEF Touches
    <3> QED BY <3>1, <3>2, <3>3
  <2>3. CASE WindowCloses
    <3>1. PICK v \in Live : placeOf' = [placeOf EXCEPT ![v] = NoSpace] /\ home' = [home EXCEPT ![v] = NoSpace]
      BY <2>3 DEF WindowCloses
    <3>2. w # v BY <1>1, <3>1 DEF Live
    <3> QED BY <1>1, <3>1, <3>2
  <2> QED BY <2>1, <2>2, <2>3
<1>3. ASSUME NEW p \in Proc PROVE HomeRight(p, w)'
  <2>1. HomeRight(p, w) BY DEF Unharmed, WindowHome
  <2>2. w = read[p].target /\ GoesHome(p, w) => GoesHome(p, w)' BY <1>1, <1>2 DEF GoesHome
  <2> QED BY <1>1, <1>2, <2>1, <2>2 DEF HomeRight, Known
<1> QED BY <1>1, <1>3 DEF Unharmed, WindowHome, Known

LEMMA CallHome ==
  ASSUME NEW w, Unharmed(w), NEW p \in Proc, Call(p)
  PROVE  WindowHome(w)'
<1> USE DEF SType, ProcType
<1>0. SType /\ w \in Window BY DEF Unharmed, Live
<1>1. CASE MoveWindow(p) BY <1>1, MoveHome DEF MoveWindow
<1>2. CASE Monitor(p)
  <2>1. /\ pc[p] = "monitor" /\ UNCHANGED <<stateFile, spaces>> /\ pc'[p] \in {"open", "focus"} /\ read' = read
        /\ \A q \in Proc \ {p} : pc'[q] = pc[q]
    BY <1>0, <1>2 DEF Monitor, Step, Saved
  <2>2. w # read[p].target => placeOf'[w] = placeOf[w] BY <1>0, <1>2, <2>1, MovedTyped DEF Monitor
  <2>3. w # read[p].target => home'[w] = home[w] BY <1>0, <1>2, <2>1 DEF Monitor, HistoryType
  <2>4. RestStays(p, w) BY <2>1, <2>2, <2>3 DEF RestStays, AtWork
  <2> QED BY <2>1, <2>4, OnHome
<1>3. CASE OpenFile(p)
  <2>1. /\ pc[p] = "open" /\ stateFile' = Torn /\ pc'[p] = "write" /\ read' = read
        /\ UNCHANGED <<placeOf, home, spaces>>
        /\ \A q \in Proc \ {p} : pc'[q] = pc[q]
    BY <1>0, <1>3 DEF OpenFile, Step, screen
  <2>2. \A q \in Proc : pc[q] # "write" BY <1>0, <1>3 DEF OpenFile, Unharmed
  <2>3. RestStays(p, w) BY <2>1, <2>2 DEF RestStays, AtWork
  <2> QED BY <2>1, <2>3, OnHome
<1>4. CASE LoadFails(p) \/ FocusTarget(p) \/ Dies(p)
  <2>1. /\ UNCHANGED <<stateFile, placeOf, home, spaces>> /\ Set(p, "idle", NoRead)
    BY <1>4 DEF LoadFails, FocusTarget, Dies, screen
  <2>2. pc'[p] = "idle" /\ \A q \in Proc \ {p} : pc'[q] = pc[q] /\ read'[q] = read[q] BY <1>0, <2>1 DEF Set
  <2>3. RestStays(p, w) BY <2>1, <2>2 DEF RestStays, AtWork
  <2>4. Known(stateFile, w)' BY <2>1 DEF Unharmed, WindowHome, Known
  <2>5. HomeRight(p, w)' BY <2>2 DEF HomeRight
  <2> QED BY <2>1, <2>3, <2>4, <2>5, HomeGoesOn
<1> QED BY <1>1, <1>2, <1>3, <1>4, BeginHome, ReadHome, LoadHome, WriteHome DEF Call

LEMMA ReturnKept == SummonInv /\ [SummonNext]_summonVars => SummonInv'
<1> SUFFICES ASSUME SummonInv, [SummonNext]_summonVars PROVE SummonInv'
  OBVIOUS
<1>1. SInv /\ SType /\ ScreenRight /\ TargetLives BY DEF SummonInv, SInv
<1>2. SInv' /\ Live' \subseteq Live /\ harmed \subseteq harmed' BY <1>1, InvKept, TypeKept
<1>3. ScreenRight' /\ TargetLives' BY <1>1, ScreenRightKept, TargetLivesKept
<1>4. ASSUME NEW w \in Live' \ harmed' PROVE WindowHome(w)'
  <2>1. Unharmed(w) BY <1>1, <1>2, <1>4 DEF Unharmed, SummonInv, SInv
  <2> QED BY <1>4, <2>1, CallHome, OutsideHome DEF SummonNext
<1> QED BY <1>2, <1>3, <1>4 DEF SummonInv

\* What the property says of one call's last move.
HomeStep(p) ==
  LET w == read[p].target IN
  pc[p] = "monitor" /\ pc'[p] = "open" /\ read[p].back /\ w \notin harmed' =>
    \/ placeOf'[w] = home[w]
    \/ home[w] \notin spaces /\ OutputOf[placeOf'[w]] = OutputOf[home[w]]

LEMMA OnlyMonitor ==
  ASSUME SType, [SummonNext]_summonVars, NEW p \in Proc, pc[p] = "monitor", pc'[p] = "open"
  PROVE  Monitor(p) /\ harmed' = harmed
<1> USE DEF SType, ProcType, Steps
<1>1. ASSUME NEW q \in Proc, Call(q) PROVE q = p
  <2>1. CASE BeginSummon(q)
    <3>1. pc'[q] # "open" /\ \A r \in Proc \ {q} : pc'[r] = pc[r] BY <2>1, BeginCases DEF Set
    <3> QED BY <3>1
  <2>2. CASE LoadFile(q)
    <3>1. \A r \in Proc \ {q} : pc'[r] = pc[r] BY <2>2, LoadCases DEF Set
    <3> QED BY <3>1
  <2> QED BY <1>1, <2>1, <2>2
    DEF Call, ReadSpaces, LoadFails, MoveWindow, Monitor, OpenFile, WriteFile, FocusTarget, Dies, Set, Step
<1>2. PICK q \in Proc : Call(q)
  BY DEF SummonNext, summonVars, UserViews, UserFocuses, UserMoves, WindowCloses, SpaceVanishes
<1>3. Call(p) BY <1>1, <1>2
<1>4. ~Dies(p) BY DEF Dies, Set
<1> QED BY <1>3, <1>4 DEF Call, BeginSummon, ReadSpaces, LoadFile, LoadFails, MoveWindow, Monitor, OpenFile, WriteFile, FocusTarget

LEMMA HomeReached ==
  ASSUME SummonInv, [SummonNext]_summonVars, NEW p \in Proc
  PROVE  HomeStep(p)
<1> DEFINE w == read[p].target  o == read[p].output
<1> SUFFICES ASSUME pc[p] = "monitor", pc'[p] = "open", read[p].back, w \notin harmed'
             PROVE  \/ placeOf'[w] = home[w]
                    \/ home[w] \notin spaces /\ OutputOf[placeOf'[w]] = OutputOf[home[w]]
  BY DEF HomeStep
<1>1. SType /\ ScreenRight /\ TargetLives BY DEF SummonInv, SInv
<1>2. Monitor(p) /\ w \notin harmed BY <1>1, OnlyMonitor
<1>3. w \in Live /\ w \in Window BY <1>1, <1>2 DEF TargetLives, Live
<1>4. GoesHome(p, w) BY <1>2, <1>3 DEF SummonInv, WindowHome, HomeRight
<1>5. home[w] \in Space /\ o = OutputOf[home[w]] /\ o \in Output /\ (placeOf[w] = home[w] \/ home[w] \notin spaces)
  BY <1>4, SummonAssumption DEF GoesHome
<1>6. CASE OutputOf[placeOf[w]] = o
  <2>1. placeOf' = placeOf BY <1>2, <1>6 DEF Monitor
  <2> QED BY <1>5, <1>6, <2>1
<1>7. CASE OutputOf[placeOf[w]] # o
  <2>1. WindowMoved(w, shownSpace[o]) BY <1>2, <1>3, <1>5, <1>7, SummonAssumption DEF Monitor
  <2>2. shownSpace[o] \in spaces /\ OutputOf[shownSpace[o]] = o BY <1>1, <1>5 DEF ScreenRight
  <2>3. placeOf'[w] = shownSpace[o] BY <1>1, <1>3, <2>1, <2>2, MovedRight
  <2>4. home[w] \notin spaces BY <1>5, <1>7
  <2> QED BY <1>5, <2>2, <2>3, <2>4
<1> QED BY <1>6, <1>7

\* A window taken back reaches the workspace it was first summoned from or, when that
\* has vanished, the output that it was on (summon_or_return's way back).
THEOREM AlwaysComesHome == SummonSpec => ComesHome
<1>1. SummonInv /\ [SummonNext]_summonVars => [\A p \in Proc : HomeStep(p)]_summonVars
  BY HomeReached
<1>2. SummonInv /\ [SummonNext]_summonVars => SummonInv' BY ReturnKept
<1>3. SummonInit => SummonInv BY ReturnInit
<1>4. SummonSpec => [][\A p \in Proc : HomeStep(p)]_summonVars
  BY <1>1, <1>2, <1>3, PTL DEF SummonSpec
<1> QED BY <1>4 DEF ComesHome, HomeStep

====
