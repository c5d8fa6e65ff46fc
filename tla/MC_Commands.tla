---- MODULE MC_Commands ----
(***************************************************************************)
(* The commands of the program.  A focus, move or resize asks the layers   *)
(* of the focused window (AppChain); a move that no layer took is routed   *)
(* between two windows (TransferRouting; between the two stand the steps   *)
(* of MoveSession); focus-or-cycle summons windows (NiriSummon); a window  *)
(* that an application let go is placed (WmBackends).  Nothing but the     *)
(* screen passes between them, so a behaviour is one of either.            *)
(***************************************************************************)
EXTENDS MC_AppChain, TransferRouting, NiriSummon, MC_Wm

TheWindows == 1..3

VARIABLE part \* which of the four runs in this behaviour

CONSTANTS o1, o2
TwoOutputs == [s \in Space |-> IF s = 3 THEN o2 ELSE o1]

Alike == Permutations(Window) \union Permutations(Proc)

\* A target is handed something exactly when one of its types can be reached, and then
\* the first such: no picked type lacks its converter.  A type for which a converter is
\* registered can always be reached.
ASSUME PickedTypeConverts ==
  LET types == {"AppMerge", "text", "pane"}  supported == UNION {[1..n -> types] : n \in 0..2} IN
  \A converters \in SUBSET (types \X types), s \in supported, from \in types :
    LET reached == {i \in DOMAIN s : CanConvert(converters, from, s[i])}
        taken == ConvertPayloadForTarget(converters, [type |-> from], s)
    IN  /\ taken = {[type |-> s[i]] : i \in {j \in reached : \A k \in reached : j <= k}}
        /\ \A to \in types : Convert(Registered(converters, from, to), [type |-> from], to) # {}

(* What does not run stays in one of its first states. *)
ChainWaits ==
    /\ host = [name |-> "foot", aliases |-> <<"foot", "terminal">>]
    /\ file = [kind |-> "absent", cfg |-> Empty, explicit |-> FALSE]
    /\ tabs = [t \in Tabs |-> [prog |-> "idle", inner |-> "idle", direct |-> FALSE]]
    /\ front = 1 /\ ChainInit
RoutingWaits ==
    /\ kinds = [w \in Windows |-> "plain"] /\ torn = {} /\ focusedWin = 1
    /\ RoutingInit
SummonWaits ==
    /\ placeOf = [w \in Window |-> 1] /\ view = 1 /\ focus = NoWindow
    /\ shownSpace = [o \in Output |-> IF o = o1 THEN 1 ELSE 3]
    /\ SummonInit

WmWaits == wm = Niri /\ strip = <<<<1, 2, 3>>>> /\ keyWindow = 1 /\ ofSource = FALSE /\ WmInit

(* The shells of the tab in front are the later ones. *)
Init == \/ part = "chain" /\ front = 2 /\ ChainInit /\ RoutingWaits /\ SummonWaits /\ WmWaits
        \/ part = "routing" /\ ChainWaits /\ RoutingInit /\ SummonWaits /\ WmWaits
        \/ part = "summon" /\ ChainWaits /\ RoutingWaits /\ SummonInit /\ WmWaits
        \/ part = "placing" /\ ChainWaits /\ RoutingWaits /\ SummonWaits /\ WmInit

ChainAlone == part = "chain" /\ ChainNext /\ UNCHANGED <<routingVars, summonVars, wmVars>>
RoutingAlone == part = "routing" /\ RoutingNext /\ UNCHANGED <<chainVars, summonVars, wmVars>>
SummonAlone == part = "summon" /\ SummonNext /\ UNCHANGED <<chainVars, routingVars, wmVars>>
WmAlone == part = "placing" /\ WmNext /\ UNCHANGED <<chainVars, routingVars, summonVars>>

Next == (ChainAlone \/ RoutingAlone \/ SummonAlone \/ WmAlone) /\ UNCHANGED part

Spec == Init /\ [][Next]_<<part, chainVars, routingVars, summonVars, wmVars>>

TypeOK == ChainTypeOK /\ RoutingTypeOK /\ SummonTypeOK /\ WmTypeOK
====
