---- MODULE TransferRouting ----
(***************************************************************************)
(* What is left of a move when no layer took it and no merge was found:    *)
(* the routing between the domains of two neighbouring windows             *)
(* (actions/orchestrator.rs) and the transfer of one content between two   *)
(* adapters (engine/transfer).                                             *)
(*                                                                         *)
(* The windows stand in a row; window w shows content w at first.  The     *)
(* table of domains is built from the window that has the focus when the   *)
(* program starts; the windows of a move are read later.  An adapter of    *)
(* nvim speaks for the instance it was resolved for; those of the terminal *)
(* are told the processes; those of Emacs, of VS Code and of a browser     *)
(* look at whatever of theirs has the focus.                               *)
(***************************************************************************)
EXTENDS Naturals, FiniteSets, Sequences

CONSTANTS Windows,      \* 1..n, from west to east
          MaxFocusChanges

Kinds == {"nvim", "shell", "emacs", "vscode", "browser", "plain"}
Domains == {"wm", "terminal", "editor"}

VARIABLES
  kinds,      \* [Windows -> Kinds]
  torn,       \* the windows of nvim instances that yny itself has started
  focusedWin,
  place,      \* [Windows -> Windows or 0]: the window that shows a content, 0 for none
  table,      \* [Domains -> adapter]; the adapters the session was given
  move,       \* the move: pc, east, source, target, payload, outcome
  focusChanges

routingVars == <<kinds, torn, focusedWin, place, table, move, focusChanges>>

Adapter(kind, inst) == [kind |-> kind, inst |-> inst]
NoMove == [pc |-> "start", east |-> TRUE, source |-> 0, target |-> 0,
           payload |-> [type |-> "none", kind |-> "none", content |-> 0, from |-> 0], outcome |-> "none"]

(* resolve_app_chain, as AppChain has it for sections that are all enabled. *)
ChainOf(w) ==
    CASE kinds[w] = "nvim" -> <<Adapter("nvim", w), Adapter("host", 0)>>
      [] kinds[w] = "shell" -> <<Adapter("host", 0)>>
      [] kinds[w] = "emacs" -> <<Adapter("emacs", 0)>>
      [] kinds[w] \in {"vscode", "browser"} -> <<Adapter(kinds[w], 0)>>
      [] OTHER -> <<>>

(* domain_id_for_app_kind: a browser shares the window manager's domain. *)
DomainOfKind(kind) ==
    CASE kind = "host" -> "terminal" [] kind \in {"nvim", "emacs", "vscode"} -> "editor" [] OTHER -> "wm"

(* domain_id_for_window: that of the innermost layer. *)
DomainOf(w) == IF ChainOf(w) = <<>> THEN "wm" ELSE DomainOfKind(Head(ChainOf(w)).kind)

(* runtime_domains_for_window_manager, register_domain: the window manager's *)
(* own domain transfers nothing; a terminal and Emacs by default; then the *)
(* first layer of each domain behind the focused window.                   *)
Table ==
    LET layers == ChainOf(focusedWin)
        default == [d \in Domains |-> CASE d = "wm" -> Adapter("unsupported", 0)
                                        [] d = "terminal" -> Adapter("host", 0)
                                        [] d = "editor" -> Adapter("emacs", 0)]
        ofDomain(d) == {i \in DOMAIN layers : DomainOfKind(layers[i].kind) = d}
    IN  [d \in Domains |-> IF ofDomain(d) = {} THEN default[d]
                           ELSE layers[CHOOSE i \in ofDomain(d) : \A j \in ofDomain(d) : i <= j]]

IsTerminal(w) == kinds[w] \in {"nvim", "shell"}
Shown(w) == {c \in Windows : place[c] = w}
OpenWindow(w) == Shown(w) # {}
\* An application takes the window of its own that has the focus for the active one.
Active(kind) == LET own == {w \in Windows : kinds[w] = kind /\ OpenWindow(w)}
                IN  IF focusedWin \in own THEN {focusedWin} ELSE own
Frames == {w \in Windows : kinds[w] = "emacs" /\ OpenWindow(w)}
Alive(inst) == place[inst] # 0

-----------------------------------------------------------------------------
(* Types of payload: one may be turned into another for which a converter is *)
(* registered; a target gets the first of its types that can be reached.   *)

Registered(converters, from, to) == converters \cup {<<from, to>>}
CanConvert(converters, from, to) == from = to \/ <<from, to>> \in converters

PickTargetType(converters, from, supported) ==
    LET Reached(i) == CanConvert(converters, from, supported[i])
    IN  {supported[i] : i \in {j \in DOMAIN supported : Reached(j) /\ \A k \in 1..(j - 1) : ~Reached(k)}}

Convert(converters, payload, to) ==
    IF CanConvert(converters, payload.type, to) THEN {[payload EXCEPT !.type = to]} ELSE {}

ConvertPayloadForTarget(converters, payload, supported) ==
    UNION {Convert(converters, payload, to) : to \in PickTargetType(converters, payload.type, supported)}

(* The program registers no converter, and all adapters that merge take the  *)
(* one type of payload, whatever they put in it.                           *)
Converters == {}
SupportedTypes(adapter) == IF adapter.kind = "unsupported" THEN <<>> ELSE <<"AppMerge">>

Payload(kind, content) == [type |-> "AppMerge", kind |-> kind, content |-> content, from |-> content]

(* tear_off: prepare_merge of each adapter.  What it captures, or nothing if *)
(* it fails.                                                               *)
Captured(adapter, source) ==
    CASE adapter.kind = "host" ->
           IF IsTerminal(source) THEN {Payload("host", source)} ELSE {}
      [] adapter.kind = "nvim" ->
           IF Alive(adapter.inst) THEN {Payload("nvim", adapter.inst)} ELSE {}
      [] adapter.kind = "emacs" ->
           IF focusedWin \in Frames THEN {Payload("emacs", focusedWin)} ELSE {}
      [] adapter.kind = "browser" ->
           {Payload("browser", w) : w \in {x \in Windows : kinds[x] = "browser"}}
      [] adapter.kind = "vscode" -> {Payload("vscode", w) : w \in Active("vscode")}
      [] OTHER -> {}

(* Emacs: the nearest frame ahead of the source, else any other one. *)
Ahead(from) == IF move.east THEN {f \in Frames : f > from} ELSE {f \in Frames : f < from}
Nearest(from) == {f \in Ahead(from) : \A g \in Ahead(from) : IF move.east THEN f <= g ELSE g <= f}

(* Where a merge of Emacs puts the frame: ahead of it if it has the focus,   *)
(* else into the frame that has.                                           *)
EmacsTargets(from) ==
    IF focusedWin = from THEN IF Ahead(from) # {} THEN Nearest(from) ELSE Frames \ {from}
    ELSE {focusedWin} \cap Frames

Moved(c, w) == [ok |-> TRUE, place |-> [place EXCEPT ![c] = w]]
Lost(c) == [ok |-> FALSE, place |-> [place EXCEPT ![c] = 0]]
Same(ok) == [ok |-> ok, place |-> place]

(* Each adapter first looks for what it captured itself. *)
Recognised(adapter, payload) == payload.kind = adapter.kind

\* Mutant of EndsSource: without its second condition.
EndsAnyTorn(adapter, payload) == payload.from \in torn

(* close_torn_out_source_before_merge: nvim ends the instance it captured if *)
(* yny had started it and if it is not the one that opens the buffer.      *)
EndsSource(adapter, payload) == payload.from \in torn /\ payload.from # adapter.inst

(* merge_in: merge_into_target of each adapter.  Each fails on what it did    *)
(* not capture.  nvim opens the buffer in its own instance.  VS Code opens *)
(* what it captured once more, in its active window, or puts all of that   *)
(* window's editors into its main window.  A browser merges into its       *)
(* focused window; if that is the source, what its extension answers is    *)
(* left open.                                                              *)
Merged(adapter, payload, target) ==
    IF ~Recognised(adapter, payload) THEN {Same(FALSE)} ELSE
    CASE adapter.kind = "host" ->
           IF IsTerminal(target) THEN {Moved(payload.content, target), Same(FALSE)} ELSE {Same(FALSE)}
      [] adapter.kind = "nvim" ->
           IF EndsSource(adapter, payload)
             THEN {Moved(payload.content, place[adapter.inst]), Lost(payload.content)}
             ELSE {Same(Alive(adapter.inst)), Same(FALSE)}
      [] adapter.kind = "emacs" ->
           {Moved(payload.content, f) : f \in EmacsTargets(payload.from)} \cup {Same(FALSE)}
      [] adapter.kind = "vscode" ->
           {Same(TRUE), Same(FALSE)}
             \cup {Moved(v, w) : v \in Active("vscode"), w \in {x \in Windows : kinds[x] = "vscode"}}
      [] OTHER -> {Same(TRUE), Same(FALSE)}
                    \cup (IF kinds[focusedWin] = "browser" THEN {Moved(payload.content, focusedWin)} ELSE {})

----------------------------------------------------------------------------
RoutingInit ==
    /\ kinds \in [Windows -> Kinds]
    /\ torn \in SUBSET {w \in Windows : kinds[w] = "nvim"}
    /\ focusedWin \in Windows
    /\ place = [c \in Windows |-> c]
    /\ table = [d \in Domains |-> Adapter("unsupported", 0)]
    /\ move = NoMove /\ focusChanges = 0

(* The program starts: the domains are registered. *)
Seed ==
    /\ move.pc = "start"
    /\ table' = Table
    /\ \E e \in BOOLEAN : move' = [NoMove EXCEPT !.pc = "route", !.east = e]
    /\ UNCHANGED <<kinds, torn, focusedWin, place, focusChanges>>

(* execute_move_session from its second read of the focus on: the probe for   *)
(* the neighbour (which MoveSession has step by step) and leaf_from_window *)
(* of both.  Without a neighbour the window manager moves the window.      *)
Route ==
    /\ move.pc = "route"
    /\ LET n == IF move.east THEN focusedWin + 1 ELSE focusedWin - 1
       IN  move' = IF n \in Windows /\ OpenWindow(n)
                     THEN [move EXCEPT !.source = focusedWin, !.target = n, !.pc = "tear"]
                     ELSE [move EXCEPT !.source = focusedWin, !.pc = "wm"]
    /\ UNCHANGED <<kinds, torn, focusedWin, place, table, focusChanges>>

SourceAdapter == table[DomainOf(move.source)]
TargetAdapter == table[DomainOf(move.target)]

(* transfer_within, transfer_between: what was captured goes on if the       *)
(* target takes it.                                                        *)
HandedOn(payload) ==
    LET taken == ConvertPayloadForTarget(Converters, payload, SupportedTypes(TargetAdapter))
    IN  IF taken = {} THEN {[move EXCEPT !.payload = payload, !.pc = "wm"]}
        ELSE {[move EXCEPT !.payload = q, !.pc = "merge"] : q \in taken}

(* Within a domain types are looked for first, between two only once         *)
(* something is captured.                                                  *)
TearOff ==
    /\ move.pc = "tear"
    /\ IF DomainOf(move.source) = DomainOf(move.target) /\ SupportedTypes(SourceAdapter) = <<>>
         THEN move' = [move EXCEPT !.pc = "wm"]
         ELSE \/ \E p \in Captured(SourceAdapter, move.source) : move' \in HandedOn(p)
              \/ move' = [move EXCEPT !.pc = "wm"]
    /\ UNCHANGED <<kinds, torn, focusedWin, place, table, focusChanges>>

(* merge_in; an error is a transfer that was not applied.  The snapshots      *)
(* taken afterwards never fail.                                            *)
MergeIn ==
    /\ move.pc = "merge"
    /\ \E m \in Merged(TargetAdapter, move.payload, move.target) :
         /\ place' = m.place
         /\ move' = IF m.ok THEN [move EXCEPT !.pc = "end", !.outcome = "applied"]
                    ELSE [move EXCEPT !.pc = "wm"]
    /\ UNCHANGED <<kinds, torn, focusedWin, table, focusChanges>>

(* wm.move_direction, of whatever window has the focus. *)
WmMoves ==
    /\ move.pc = "wm"
    /\ move' = [move EXCEPT !.pc = "end", !.outcome = "wm"]
    /\ UNCHANGED <<kinds, torn, focusedWin, place, table, focusChanges>>

UserFocusesWindow ==
    /\ move.pc # "end" /\ focusChanges < MaxFocusChanges
    /\ focusedWin' \in {w \in Windows \ {focusedWin} : OpenWindow(w)}
    /\ focusChanges' = focusChanges + 1
    /\ UNCHANGED <<kinds, torn, place, table, move>>

RoutingNext == Seed \/ Route \/ TearOff \/ MergeIn \/ WmMoves \/ UserFocusesWindow

RoutingTypeOK ==
    /\ place \in [Windows -> Windows \cup {0}]
    /\ move.source \in Windows \cup {0} /\ move.target \in Windows \cup {0}
    /\ move.pc = "merge" => move.payload.content \in Windows

----------------------------------------------------------------------------
(* A transfer from one domain into another changes nothing: each adapter     *)
(* recognises that the payload is not its own before it touches anything   *)
(* (nvim.rs:663, emacs.rs:292, contracts/topology.rs:192).  Whatever the   *)
(* user focuses in between, nothing is lost (nvim.rs:450), and what moves  *)
(* goes into a window of the same kind of application (bridge.rs:287,      *)
(* orchestrator.rs:297).  That it is what the source window showed is said *)
(* of calls during which the focus stays: after a change an adapter of the *)
(* first window is asked about the second, and Emacs, VS Code or nvim      *)
(* answers for another window than the source.  Which tab a browser names  *)
(* is its extension's affair.                                              *)
OnlyTheSourceMoves ==
    [][/\ place' # place => DomainOf(move.source) = DomainOf(move.target)
       /\ \A c \in Windows : place'[c] # place[c] =>
            /\ place'[c] \in Windows
            /\ kinds[place'[c]] = kinds[c] \/ (IsTerminal(c) /\ IsTerminal(place'[c]))
            /\ focusChanges = 0 /\ kinds[move.source] # "browser" => place[c] = move.source]_routingVars

RoutingSpec == RoutingInit /\ [][RoutingNext]_routingVars
====
